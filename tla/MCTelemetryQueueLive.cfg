SPECIFICATION LoopSpec
CONSTANTS
    Keys <- MCKeys
    Groups <- MCGroups
    GroupOf <- MCGroupOf
    Items = {v1}
    Closers = {c1, c2}
    Concurrency = 1
    MaxPending = 2
INVARIANT TypeOK
PROPERTIES
    CloseAnswered
    EveryKeyLeaves

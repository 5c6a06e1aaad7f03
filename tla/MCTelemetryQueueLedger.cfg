SPECIFICATION LSpec
CONSTANTS
    Keys <- MCKeys
    Groups <- MCGroups
    GroupOf <- MCGroupOf
    Items = {1, 2, 3, 4}
    Closers = {c1, c2}
    Concurrency = 2
    MaxPending = 2
INVARIANTS
    OnePerGroup
    WithinBounds
    NoLostWakeup
    ClosedIsFinal
    Conservation
    NewestIsKept
PROPERTIES
    NoEarlyClose
    AttributeInOrder
    ImplementsBuffer
CHECK_DEADLOCK FALSE

SPECIFICATION FairSpec
CONSTANTS
    Retries = 1
    Faults = 3
INVARIANTS
    GivesUpOnlyAfterRetries
    NoCrashWhileRunning
    StopIsFinal
PROPERTIES
    Recovers
CHECK_DEADLOCK FALSE

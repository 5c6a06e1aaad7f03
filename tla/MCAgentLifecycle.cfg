SPECIFICATION FairSpec
CONSTANTS
    Signals = 2
    MaxWork = 1
    AmqpRetries = 1
    AmqpFaults = 3
INVARIANTS
    StartWaitsForEach
    TeardownAfterDrain
    AmqpConnects
PROPERTY ShutdownEnds
CHECK_DEADLOCK FALSE

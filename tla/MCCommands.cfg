SPECIFICATION FairSpec
CONSTANTS
    Transports = {"push", "poll", "MQTT", "AMQP"}
    Names = {"ping", "turn"}
    MaxRequests = 2
    Polls = 2
INVARIANTS
    OkHasACause
    SeriesInOrder
    ListedLeavesQueue
PROPERTY QueuedIsListed
CHECK_DEADLOCK FALSE

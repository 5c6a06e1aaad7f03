SPECIFICATION Spec
CONSTANTS
    Transports = {"MQTT"}
    Names = {"ping", "turn"}
    MaxRequests = 2
    Polls = 0
INVARIANT OkMeansExecuted
CHECK_DEADLOCK FALSE

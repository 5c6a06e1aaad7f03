SPECIFICATION FairSpec
CONSTANTS
    None = none
    DefaultTransport = "HTTP"
    AvoidLeadingSlash = TRUE
    DeviceTransports = {none, "HTTP", "MQTT"}
    GroupTransports = {none, "silent"}
    ItemLists <- MCItemLists
    MaxChanges = 2
    MaxRequests = 2
INVARIANTS PollingMatches OkMeansDelivered EchoesEnd
PROPERTIES EveryRequestEnds
CHECK_DEADLOCK FALSE

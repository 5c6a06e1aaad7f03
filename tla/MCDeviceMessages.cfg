SPECIFICATION FairSpec
CONSTANTS
    Keys = {k1, k2}
    Groups = {k1}
    DefaultKey = default
    None = none
    Vias = {"telemetry", "results", "measure", "commands", "argo", "amqp"}
    MaxMessages = 2
    Sizes = {0, 2}
    MaxChanges = 1
INVARIANTS TypeOK OkMeansStored
PROPERTIES LookupWasTrue TelemetryInOrder OnlyKeysProvision EveryMessageAnswered
CHECK_DEADLOCK FALSE

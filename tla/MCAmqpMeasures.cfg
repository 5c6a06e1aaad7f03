SPECIFICATION Spec
CONSTANTS
    Keys = {k1, k2}
    Groups = {k1}
    DefaultKey = default
    None = none
    Vias = {"amqp"}
    MaxMessages = 2
    Sizes = {0, 2}
    MaxChanges = 1
INVARIANTS AmqpMeasuresAccepted
CHECK_DEADLOCK FALSE

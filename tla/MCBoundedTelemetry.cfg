SPECIFICATION Spec
CONSTANTS
    Devices = {"a", "b"}
    Metrics = {"a", "b"}
    DeviceOf <- MCDeviceOf
    Numbers = {1, 2}
    Limits = {"minimum"}
    Absent = Absent
    Invalid = Invalid
    MaxEntries = 1
INVARIANTS
    TypeOK
    CachedLimitIsInOrion
PROPERTY
    BoundedStaysNumeric

SPECIFICATION HSpec
CONSTANTS
    Devices = {"A", "B"}
    Metrics <- MCMetrics
    DeviceOf <- MCDeviceOf
    Numbers = {1}
    Limits = {"minimum", "maximum"}
    Absent = Absent
    Invalid = Invalid
    MaxEntries = 2
INVARIANT LimitsAvailable

SPECIFICATION InSpec
CONSTANTS
    DeviceIds = {"m1", "m2", "m3"}
    Ttl = 2
    MaxEntries = 2
    Horizon = 3
    WarningInterval = 2
    MaxWarnings = 2
INVARIANTS
    ListsTheMostRecent
    FirstSeenIsHonest
PROPERTY EqualWarningsApart

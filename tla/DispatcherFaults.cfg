SPECIFICATION FairSpec
CONSTANTS
    d1 = d1  d2 = d2
    Definitions = {d1, d2}
    Intervals = {0, 2}
    Jitter = 2
    CheckInterval = 1
    MaxFaults = 2
    NoRow = NoRow
    NoDefinition = NoDefinition
INVARIANTS
    TypeOK
    OneOffIsSentOnce
    AtMostOneBroadcastAfterRemove
PROPERTIES
    NeverTooSoon
    PeriodicIsSentAgain

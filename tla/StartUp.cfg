SPECIFICATION Spec
CONSTANTS
    MaxPairs = 4
INVARIANTS
    TypeOK
    OneIdentity
    AuditorIsOnItsList
CHECK_DEADLOCK FALSE

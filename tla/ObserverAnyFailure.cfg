SPECIFICATION Spec
CONSTANTS
    p1 = p1  f1 = f1  f2 = f2  f3 = f3
    Publishers = {p1}
    MaxPublishes = 3
    MaxRestarts = 1
    AnswersGetLost = TRUE
    Feeds = {f1, f2}
    StoringFails = TRUE
    MaxTrustFlips = 2
    MaxCrashes = 1
    NoRecord = NoRecord
    NoSequence = NoSequence
INVARIANTS
    TypeOK
    AckedEntriesStay
    NameIsWalkable
    NoGaps
CHECK_DEADLOCK FALSE

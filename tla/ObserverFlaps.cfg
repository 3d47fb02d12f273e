SPECIFICATION Spec
CONSTANTS
    p1 = p1  f1 = f1  f2 = f2  f3 = f3
    Publishers = {p1}
    MaxPublishes = 2
    MaxRestarts = 0
    AnswersGetLost = FALSE
    Feeds = {f1, f2}
    StoringFails = FALSE
    MaxTrustFlips = 2
    MaxCrashes = 0
    NoRecord = NoRecord
    NoSequence = NoSequence
INVARIANTS
    NoDuplicates
CHECK_DEADLOCK FALSE

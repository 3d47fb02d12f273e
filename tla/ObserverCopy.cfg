SPECIFICATION FairSpec
CONSTANTS
    p1 = p1  f1 = f1  f2 = f2  f3 = f3
    Publishers = {p1}
    MaxPublishes = 4
    MaxRestarts = 1
    AnswersGetLost = FALSE
    Feeds = {f1}
    StoringFails = FALSE
    MaxTrustFlips = 0
    MaxCrashes = 2
    NoRecord = NoRecord
    NoSequence = NoSequence
PROPERTIES
    ReplicatesTheList
    ListIsCopied
CHECK_DEADLOCK FALSE

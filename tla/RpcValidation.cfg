SPECIFICATION FairSpec
CONSTANTS
    t1 = t1  t2 = t2
    Tasks = {t1, t2}
    RetryMax = 2
    Here = Here
    NoFile = NoFile
    NoPort = NoPort
CHECK_DEADLOCK FALSE
INVARIANTS
    TypeOK
    OwnServer
    DirsAreRemoved
    LateAnswerIsDropped
PROPERTIES
    ValidationsEnd

SPECIFICATION SystemSpec
CONSTANTS
    t1 = t1  p1 = p1  p2 = p2  x = x  y = y
    Trustors = {t1}
    Tool = t1
    OtherLists = {}
    Peers = {x, y}
    MaxChanges = 9
    Publishers = {p1, p2}
    MaxPublishes = 2
    MaxRestarts = 1
    AnswersGetLost = TRUE
    Commands <- MixedCommands
    NoRecord = NoRecord
    NoSequence = NoSequence
    NoCommand = NoCommand
INVARIANTS
    SystemTypeOK
    SuccessSticks
PROPERTIES
    OnlyListedBecomeTrusted
    ListedPeersAreKept
    ReportsTakeEffect
CHECK_DEADLOCK FALSE

SPECIFICATION Spec
CONSTANTS
    a1 = a1  a2 = a2  a3 = a3  d = d  stray = stray  t1 = t1
    Auditors = {a1, a2}
    Trustors = {d}
    Outsiders = {stray}
    Tasks = {t1}
    BidLimit = 2
    TrustViews <- AllOrNone
    TimelyTopic = FALSE
    MaxCrashes = 1
    NoBid = NoBid
    NoEntry = NoEntry
    NoMessage = NoMessage
INVARIANTS
    AuditorInv
    LoserIsOutbid
    SomebodyWins
PROPERTIES
    ImplementsElection
SYMMETRY AuditorSymmetry
CHECK_DEADLOCK FALSE

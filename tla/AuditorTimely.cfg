SPECIFICATION FairSpec
CONSTANTS
    a1 = a1  a2 = a2  a3 = a3  d = d  stray = stray  t1 = t1
    Auditors = {a1, a2, a3}
    Trustors = {d}
    Outsiders = {}
    Tasks = {t1}
    BidLimit = 2
    TrustViews <- AllOnly
    TimelyTopic = TRUE
    MaxCrashes = 0
    NoBid = NoBid
    NoEntry = NoEntry
    NoMessage = NoMessage
INVARIANTS
    OneWinnerUnlessTied
    NoWriteToResolved
PROPERTIES
    BiddingCloses
    BiddingLeadsToWork
CHECK_DEADLOCK FALSE

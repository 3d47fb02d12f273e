SPECIFICATION FairSpec
CONSTANTS
    d1 = d1  d2 = d2  c1 = c1  c2 = c2
    Deals = {d1, d2}
    Clients = {c1, c2}
    ClientOf <- ClientsOfDeals
    BatchSizes = {1, 2}
    NoDeal = NoDeal
    NoTask = NoTask
INVARIANTS
    TypeOK
    RefreshIsComplete
PROPERTIES
    TasksAreOfLiveDeals
    TableFollowsFile
CHECK_DEADLOCK FALSE

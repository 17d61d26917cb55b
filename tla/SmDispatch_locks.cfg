CONSTANTS
    t1 = t1  t2 = t2
    k1 = k1  k2 = k2  k3 = k3  k4 = k4
    b1 = b1
    lockA = lockA  lockB = lockB  rework = rework  quota = quota
    Tickets <- TwoTickets
    Stages = {"todo", "review"}
    Labels <- AllLabels
    Keys <- AllKeys
    Branches = {b1}
    RunIds = {1, 2}
    Rules <- DevRules
    Cap = 2
    Reserved = 0
    QuotaLabel = quota
    HumanLabels = {}
    NoStage = NoStage  NoBranch = NoBranch  NoTicket = NoTicket  NoKey = NoKey
    ListingLag = TRUE
    ProbeErrors = FALSE
SPECIFICATION FairSpec
INVARIANT TypeOK
INVARIANT OneRunPerKey
PROPERTY LockNotStolen
PROPERTY StaleLockRecovered

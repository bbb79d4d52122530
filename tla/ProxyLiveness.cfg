\* Two UEs of one gNB and two failures.
SPECIFICATION FairSpec
CONSTANTS
    u1 = u1
    u2 = u2
    g1 = g1
    g2 = g2
    UEs = {u1, u2}
    Gnbs = {g1}
    Conns = {c1}
    GnbOf <- SameGnb
    RanIDOf <- Distinct
    SeqMod = 3
    MaxIDs = 4
    MaxCount = 3
    MaxFaults = 2
    MaxDrops = 0
    None = None
PROPERTIES
    EventuallyUp
CHECK_DEADLOCK FALSE

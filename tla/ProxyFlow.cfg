\* Two gNBs whose UEs have different RAN-UE-NGAP-IDs: failures, lost
\* associations, and goroutines of lost associations that go on.
SPECIFICATION Spec
CONSTANTS
    u1 = u1
    u2 = u2
    g1 = g1
    g2 = g2
    UEs = {u1, u2}
    Gnbs = {g1, g2}
    Conns = {c1, c2, c3}
    GnbOf <- TwoGnbs
    RanIDOf <- Distinct
    SeqMod = 3
    MaxIDs = 3
    MaxCount = 4
    MaxFaults = 1
    MaxDrops = 1
    None = None
SYMMETRY Symmetry
INVARIANTS
    
    NotShared
    NextInSequence
    PhasesAgree
    FlowOrder
CHECK_DEADLOCK FALSE

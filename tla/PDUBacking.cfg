\* Every optional network function wired: what N4, BSF and CHF hold for a
\* session against its record, and who has which address, when PFCP calls,
\* reads and deletes may fail, PFCP datagrams get lost and the replica restarts.
SPECIFICATION BackingSpec
CONSTANTS
    Replicas = {r1}
    Creates = {c1, c2}
    Ops = {x1, x2}
    Supis = {u1}
    QoS = {7}
    MaxSubnet = 0
    MaxHost = 2
    MaxSEID = 2
    MaxRestarts = 1
    MaxSessions = 1
    Features = {"PFCP", "SBI", "NSACF", "BSF", "CHARGING"}
    Faults = {"PFCP", "Loss", "Delete", "Get"}
    SerialClients = TRUE
    None = None
SYMMETRY Symmetry
INVARIANTS
    UnspoiledExclusive
    
    
    
CHECK_DEADLOCK FALSE

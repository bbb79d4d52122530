\* One replica that never restarts, clients that serialise their requests on
\* a session, and the errors the handlers are meant to clean up after.
SPECIFICATION Spec
CONSTANTS
    Replicas = {r1}
    Creates = {c1, c2, c3}
    Ops = {x1, x2, x3}
    Supis = {u1}
    QoS = {7}
    MaxSubnet = 1
    MaxHost = 1
    MaxSEID = 3
    MaxRestarts = 0
    MaxSessions = 1
    Features = {"PFCP"}
    Faults = {"Put", "PFCP"}
    SerialClients = TRUE
    None = None
SYMMETRY Symmetry
INVARIANTS
    TypeOK
    AddressExclusive
    PoolExact
    SessionIDsUnique
    LifeCycleInv
PROPERTIES
    ImplementsService
CHECK_DEADLOCK FALSE

\* The slice is full and a further create asks for admission.
SPECIFICATION FairSpec
CONSTANTS
    Replicas = {r1}
    Creates = {c1, c2}
    Ops = {x1, x2}
    Supis = {u1}
    QoS = {7}
    MaxSubnet = 1
    MaxHost = 1
    MaxSEID = 2
    MaxRestarts = 0
    MaxSessions = 1
    Features = {"SBI", "NSACF"}
    Faults = {}
    SerialClients = TRUE
    None = None
PROPERTIES
    FullSliceRefuses
CHECK_DEADLOCK FALSE

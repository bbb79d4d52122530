\* Everything wired, failing commands, crashes and a restart: each started
\* request is still answered.
SPECIFICATION FairSpec
CONSTANTS
    Replicas = {r1}
    Creates = {c1, c2}
    Ops = {x1}
    Supis = {u1}
    QoS = {7}
    MaxSubnet = 0
    MaxHost = 1
    MaxSEID = 2
    MaxRestarts = 1
    MaxSessions = 1
    Features = {"PFCP", "SBI", "NSACF", "BSF", "CHARGING"}
    Faults = {"Get", "Put", "Delete", "PFCP", "Crash"}
    SerialClients = TRUE
    None = None
PROPERTIES
    AllAnswered
CHECK_DEADLOCK FALSE

\* NRF: two instances, three registrations and three notifications, two at
\* once.  PCF: three requests of two subscribers, two at once, and a restart.
\* NWDAF: two slices of one type, two changes of their counters, three
\* collections, two at once.  NSSF: lists of one and two slices.
CONSTANTS
    Instances = {i1, i2}
    NFTypes = {"AMF", "SMF"}
    Statuses = {"SUSPENDED", "UNDISCOVERABLE"}
    Notifiers = {n1, n2}
    MaxVersions = 3
    MaxNotifications = 3
    Supis = {u1, u2}
    SSTs = {2}
    Configured <- MCConfigured
    MaxCreates = 3
    MaxBusy = 2
    MaxRestarts = 1
    Slices <- MCSlices
    NFs = {f1}
    Loads = {1}
    Collectors = {k1, k2}
    MaxCounted = 2
    MaxCollects = 3
    MaxSubs = 2
    MaxSubRestarts = 1
    ConfiguredSlices <- MCConfiguredSlices
    Stores <- MCStores
    Requests <- MCRequests
SPECIFICATION Spec
INVARIANTS  PolicyKept LoadOfSlice 
CHECK_DEADLOCK FALSE

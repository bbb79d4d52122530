\* Two sessions, reports that exceed the quota, and everything may fail.
SPECIFICATION Spec
CONSTANTS
    Reqs = {x1, x2, x3, x4, x5}
    Supis = {u1}
    Volumes = {1, 2}
    DefaultGrantedUnits = 2
    QuotaIncrement = 2
    MaxID = 2
    MaxRestarts = 1
    Serial = TRUE
    Faults = {"Get", "Put", "Delete", "Crash", "Reply"}
    None = None
SYMMETRY Symmetry
INVARIANTS
    UsageCharged
    QuotaFollowsUsage
PROPERTIES
    RecordFinal
CHECK_DEADLOCK FALSE

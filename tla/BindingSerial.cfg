\* One subscriber, two data networks, two addresses; everything may fail.
SPECIFICATION Spec
CONSTANTS
    Reqs = {x1, x2, x3, x4}
    Supis = {u1}
    Dnns = {d1, d2}
    Addrs = {a1, a2}
    MaxID = 2
    MaxRestarts = 1
    Serial = TRUE
    Faults = {"Get", "Put", "Delete", "Crash", "Reply"}
    None = None
SYMMETRY Symmetry
INVARIANTS
    NoDangling
    Discoverable
    DiscoveredFits
CHECK_DEADLOCK FALSE

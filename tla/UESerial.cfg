\* Each UE runs one procedure at a time; everything may fail.
SPECIFICATION Spec
CONSTANTS
    Reqs = {x1, x2, x3}
    Supis = {u1, u2}
    Gnbs = {g1, g2}
    Slices <- MCSlices
    NSSAI <- MCNSSAI
    MaxUEs = 1
    NSACF = TRUE
    Reregister = TRUE
    Serial = "ue"
    Faults = {"Get", "Put", "Delete", "SBI", "Auth"}
    MaxRestarts = 1
SYMMETRY Symmetry
INVARIANTS
    TypeOK
    
    
PROPERTIES
    OnlyRegistrationAdmits
    OnlyHandoverMoves
    RelayedRegistered
CHECK_DEADLOCK FALSE

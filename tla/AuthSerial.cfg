\* One authentication of a subscriber at a time; everything may fail, and a
\* provisioned SQN wraps after one challenge.
SPECIFICATION Spec
CONSTANTS
    Auths = {a1, a2, a3, a4}
    Modulus = 64
    SeqStep = 4
    ProvisionSQNs = {0, 7, 59}
    MaxProvisions = 1
    Serial = TRUE
    Faults = {"Get", "Put", "Delete", "SBI"}
SYMMETRY Symmetry
INVARIANTS
    SQNAdvances
    ChallengeAccepted
    OwnKeys

    
CHECK_DEADLOCK FALSE

CONSTANTS
    s1 = s1
    s2 = s2
    a1 = a1
    a2 = a2
    None = None
    Sessions = {s1, s2}
    Attempts = {a1, a2}
    MaxEpoch = 2
SPECIFICATION Spec
SYMMETRY Symmetry
INVARIANT RetiredEpochStaysAlive
CHECK_DEADLOCK FALSE

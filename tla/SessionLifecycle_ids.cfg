SPECIFICATION Spec
CONSTANTS
    c1 = c1
    c2 = c2
    Conns = {c1, c2}
    MaxSessions = 2
SYMMETRY ConnSymmetry
INVARIANT UniqueSessionIDs

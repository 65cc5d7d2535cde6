SPECIFICATION Spec
CONSTANTS
    c1 = c1
    c2 = c2
    c3 = c3
    Conns = {c1, c2, c3}
    MaxParticipants = 3
    MaxEntities = 1
    NumPoses = 2
    Flags = {}
SYMMETRY ConnSymmetry
INVARIANT NoMissedEntity
INVARIANT ViewIsExact
INVARIANT MembersAreExact
INVARIANT NoOrphanEntity
CHECK_DEADLOCK FALSE

SPECIFICATION Spec
CONSTANTS
    c1 = c1
    c2 = c2
    Conns = {c1, c2}
    MaxParticipants = 2
    MaxEntities = 1
    NumPoses = 1
    Flags = {}
SYMMETRY ConnSymmetry
INVARIANT LateJoinerSeesNoGhost
CHECK_DEADLOCK FALSE

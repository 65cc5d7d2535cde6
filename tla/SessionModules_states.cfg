SPECIFICATION Spec
CONSTANTS
    c1 = c1
    c2 = c2
    Conns = {c1, c2}
    Loaded = {"vikja", "odal"}
    MaxEntities = 2
    MaxTime = 2
    MaxAssets = 2
    ActedOn = {1}
SYMMETRY ConnSymmetry
INVARIANT TypeOK
INVARIANT NoDanglingAsset
INVARIANT AssetIDsDiffer
INVARIANT NoDanglingAction
PROPERTY OnlyStaleChecksGoBack
CHECK_DEADLOCK FALSE

SPECIFICATION Spec
CONSTANTS
    Meter = 25
    Samples <- MixedSamples
    MaxSamples = 4
INVARIANT PlanesAreInGrid
INVARIANT CellsCoverPlanes
INVARIANT GroundIsNearest
INVARIANT RegionIsComplete
INVARIANT LoopStaysLevel
CHECK_DEADLOCK FALSE

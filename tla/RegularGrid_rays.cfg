SPECIFICATION Spec
CONSTANTS
    Meter = 25
    Samples <- MixedSamples
    MaxSamples = 2
INVARIANT RaysStayInGrid
CHECK_DEADLOCK FALSE

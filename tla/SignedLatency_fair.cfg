SPECIFICATION FairSpec
CONSTANTS
    Counts = {1, 3, 4, 6}
    MinCount = 3
    MaxCount = 5
    Modulus = 16
    MaxRequests = 2
    MaxPings = 8
INVARIANT TypeOK
INVARIANT ResponseIsComplete
INVARIANT ResponseIsMeasured
PROPERTY MeasurementEnds
CHECK_DEADLOCK FALSE

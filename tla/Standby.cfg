SPECIFICATION RecorderSpec
CONSTANTS
    Names = {f}
    Ids = {i1, i2}
    NoId = NoId
    MaxKeys = 0
    MaxFaults = 0
    MaxDepth = 2
    MaxQueue = 2
SYMMETRY IdSymmetry
INVARIANT StandbyAfterRecording
CHECK_DEADLOCK FALSE

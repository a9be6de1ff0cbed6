SPECIFICATION RecorderSpec
CONSTANTS
    Names = {f}
    Ids = {i1, i2}
    NoId = NoId
    MaxKeys = 2
    MaxFaults = 1
    MaxDepth = 2
    MaxQueue = 2
SYMMETRY IdSymmetry
INVARIANTS RecorderTypeOK OneRecording RunningIsStoppable RecordModeSettles
    PendingNotStopped
CHECK_DEADLOCK FALSE

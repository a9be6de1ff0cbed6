SPECIFICATION FairSpec
CONSTANTS
    Size = 4
    MaxBytes = 5
    Names = {a}
    TS_SIZE = 2
    IN_SIZE = 3
    Limit = 3
    MaxStarts = 2
INVARIANTS TypeOK NoSharedSlot FilesHoldTheStream
PROPERTIES FifoUntilAstray ControlSpec EndsAndReports
CHECK_DEADLOCK FALSE

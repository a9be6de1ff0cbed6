SPECIFICATION RingSpec
CONSTANTS
    Size = 4
    MaxBytes = 9
INVARIANT SafeForTwoThreads
CHECK_DEADLOCK FALSE

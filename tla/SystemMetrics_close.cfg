\* The smallest instance: one measurement after Close is enough.
CONSTANTS
    SecondInMillis = 1
    Timeout = 1
    Frequencies = {7}
    MaxDuration = 14
    MaxIntervals = 15
    MaxClock = 3
SPECIFICATION FairSpec
PROPERTY
    ClosedMeansStopped
CHECK_DEADLOCK FALSE

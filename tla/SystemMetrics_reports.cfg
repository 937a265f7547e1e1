\* A frequency below one second, one with a fraction that a measurement may
\* overrun, and two that it fits in, with and without a fraction.  Windows of up
\* to two periods in five, so that several become too long; two retries before
\* the timeout.
CONSTANTS
    SecondInMillis = 2
    Timeout = 2
    Frequencies = {1, 5, 13, 14}
    MaxDuration = 14
    MaxIntervals = 15
    MaxClock = 5
SPECIFICATION FairSpec
INVARIANTS
    TypeOK
    WindowsTile
    DurationCoversWindow
    SendGivesUp
PROPERTY
    StopsWhenDisabled
CHECK_DEADLOCK FALSE

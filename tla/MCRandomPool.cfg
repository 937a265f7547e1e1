\* Two goroutines, pools of one, two and four, the counter wraps at 8.
SPECIFICATION FairSpec
CONSTANTS
    Goroutines = {g1, g2}
    Nobody = nobody
    Width = 3
    Requested = {1, 2, 3}
    DrawCounts = {1, 2}
    MaxPicks = 9
INVARIANTS
    TypeOK
    NumbersGivenOnce
    EvenLoad
PROPERTIES
    CallsReturn
CHECK_DEADLOCK FALSE

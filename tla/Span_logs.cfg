\* Every MaxLogsPerSpan from 1 to 6, up to 16 records: the circular part of the
\* buffer wraps several times for each limit.
CONSTANTS
    LogLimits = {1, 2, 3, 4, 5, 6}
    DropModes = {TRUE, FALSE}
    Fields = {operation, tag}
    Values = {v, w}
    NoValue = none
    MaxLogs = 16
SPECIFICATION Spec
INVARIANTS
    TypeOK
    LogsSummarised
    RecordedForGood
CHECK_DEADLOCK FALSE

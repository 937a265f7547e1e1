\* A caller and the report loop under fair scheduling, the events in a channel.
SPECIFICATION FairSpecE
CONSTANTS
    Spans = {s1, meta}
    MetaSpan = meta
    Unsampled = {}
    Unencodable = {}
    UnsupportedTags = {s1}
    MaxBufferedSpans = 2
    Callers = {a}
    ReportLoop = loop
    NoProc = noProc
    Conns = {c1}
    NoConn = nil
    Emitters = {a, loop}
    Buffer = 0
    Transport = "http"
    MetaEventReportingEnabled = FALSE
    DevModes = {FALSE}
    PeriodTicks = 1
    MaxClock = 2
    MaxFailures = 1
    SpanSize = 1
    SpanBytes <- MCSpanBytes
    GRPCMaxCallSendMsgSizeBytes = 1
PROPERTIES
    StatusReportsInOrder
    FlushReturns
    CloseReturns
    SpansLeave
CHECK_DEADLOCK FALSE

\* A second caller flushes while the first closes.
SPECIFICATION Spec
CONSTANTS
    Spans = {s1, meta}
    MetaSpan = meta
    Unsampled = {}
    Unencodable = {}
    MaxBufferedSpans = 1
    Callers = {a, b}
    ReportLoop = loop
    NoProc = noProc
    Conns = {c1}
    NoConn = nil
    Transport = "grpc"
    MetaEventReportingEnabled = FALSE
    DevModes = {FALSE}
    PeriodTicks = 1
    MaxClock = 1
    MaxFailures = 0
    SpanSize = 1
    SpanBytes <- MCSpanBytes
    GRPCMaxCallSendMsgSizeBytes = 1
INVARIANT NoReportOnClosedConnection
CHECK_DEADLOCK FALSE

\* Two spans whose size estimate exceeds the limit of one gRPC message.
SPECIFICATION Spec
CONSTANTS
    Spans = {s1, s2, meta}
    MetaSpan = meta
    Unsampled = {}
    Unencodable = {}
    MaxBufferedSpans = 2
    Callers = {a}
    ReportLoop = loop
    NoProc = noProc
    Conns = {c1, c2}
    NoConn = nil
    Transport = "grpc"
    MetaEventReportingEnabled = FALSE
    DevModes = {FALSE}
    PeriodTicks = 1
    MaxClock = 1
    MaxFailures = 0
    SpanSize = 1
    SpanBytes <- MCSpanBytes
    GRPCMaxCallSendMsgSizeBytes = 1
INVARIANT SentWereReceived
CHECK_DEADLOCK FALSE

\* Two callers race the report loop over Flush, Close, Disable and the
\* reconnection of a gRPC client.
SPECIFICATION Spec
CONSTANTS
    Spans = {s1, s2, meta}
    MetaSpan = meta
    Unsampled = {}
    Unencodable = {}
    MaxBufferedSpans = 2
    Callers = {a, b}
    ReportLoop = loop
    NoProc = noProc
    Conns = {c1, c2, c3}
    NoConn = nil
    Transport = "grpc"
    MetaEventReportingEnabled = FALSE
    DevModes = {FALSE}
    PeriodTicks = 1
    MaxClock = 1
    MaxFailures = 1
    SpanSize = 1
    SpanBytes <- MCSpanBytes
    GRPCMaxCallSendMsgSizeBytes = 1
SYMMETRY Symmetry
INVARIANTS
    FlushExclusive
    HeldExactlyOnce
    ConnectionsOwned
    CloseFlushes
PROPERTY ClosedForGood
CHECK_DEADLOCK FALSE

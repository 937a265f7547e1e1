\* One caller and a collector that may disable the tracer.
SPECIFICATION FairSpec
CONSTANTS
    Spans = {s1, meta}
    MetaSpan = meta
    Unsampled = {}
    Unencodable = {}
    MaxBufferedSpans = 1
    Callers = {a}
    ReportLoop = loop
    NoProc = noProc
    Conns = {c1}
    NoConn = nil
    Transport = "http"
    MetaEventReportingEnabled = FALSE
    DevModes = {FALSE}
    PeriodTicks = 1
    MaxClock = 1
    MaxFailures = 0
    SpanSize = 1
    SpanBytes <- MCSpanBytes
    GRPCMaxCallSendMsgSizeBytes = 1
PROPERTY CloseTerminates
CHECK_DEADLOCK FALSE

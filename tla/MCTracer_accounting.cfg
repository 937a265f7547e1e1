\* The report loop alone flushes (flushes exclude each other, so one flusher is
\* enough for the counts); buffers of two spans, so that a failed
\* report is put back whole, in part or not at all; HTTP, so that translation
\* can fail.
SPECIFICATION Spec
CONSTANTS
    Spans = {s1, s2, s3, s4, meta}
    MetaSpan = meta
    Unsampled = {s4}
    Unencodable = {s1, s2}
    MaxBufferedSpans = 2
    Callers = {}
    ReportLoop = loop
    NoProc = noProc
    Conns = {c1}
    NoConn = nil
    Transport = "http"
    MetaEventReportingEnabled = TRUE
    DevModes = {TRUE}
    PeriodTicks = 1
    MaxClock = 4
    MaxFailures = 2
    SpanSize = 1
    SpanBytes <- MCSpanBytes
    GRPCMaxCallSendMsgSizeBytes = 1
SYMMETRY Symmetry
INVARIANTS
    TypeOK
    DropsAccounted
    EncoderErrorsAccounted
    CollectorToldOfDropsOnce
    SentWereReceived
    FlushingEmptyBetweenFlushes
    WindowsTile
PROPERTY ImplementsSpanStore
CHECK_DEADLOCK FALSE

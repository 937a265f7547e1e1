\* Two spans and three contexts, so that a context can pass a process that
\* starts no span; 64-bit IDs of three binary digits, some with leading zeros.
SPECIFICATION Spec
CONSTANTS
    Base = 2
    Digits = 3
    ToLower <- MCToLower
    b3FieldNameSampled = "x-b3-sampled"
    Propagators <- AllStacks
    TraceGUIDs <- MCTraceGUIDs
    SpanGUIDs <- MCSpanGUIDs
    SetTraceIDs = {0, 3}
    SetSpanIDs = {0}
    SetSampleds = {"false"}
    BaggageKeys = {"user", "User"}
    BaggageValues = {"x"}
    PeerIDs = {3}
    PeerUppers = {0, 3}
    SpanDatas <- OCSpans
    MaxSpans = 2
    MaxContexts = 3
    MaxCarriers = 2
    MaxMaps = 2
INVARIANTS
    TypeOK
    TraceConnected
    ExportedConnected
    BaggageInherited
    ContextsStable
    UnsampledNotRecorded
CHECK_DEADLOCK FALSE

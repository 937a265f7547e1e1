\* Two processes that use B3 headers.
SPECIFICATION Spec
CONSTANTS
    Base = 2
    Digits = 3
    ToLower <- MCToLower
    b3FieldNameSampled = "x-b3-sampled"
    Propagators <- B3Only
    TraceGUIDs <- MCTraceGUIDs
    SpanGUIDs <- MCSpanGUIDs
    SetTraceIDs = {0, 3}
    SetSpanIDs = {0}
    SetSampleds = {"false"}
    BaggageKeys = {"user", "User"}
    BaggageValues = {"x"}
    PeerIDs = {3}
    PeerUppers = {0, 3}
    SpanDatas = {}
    MaxSpans = 2
    MaxContexts = 3
    MaxCarriers = 2
    MaxMaps = 2
INVARIANT SamplingPropagated
CHECK_DEADLOCK FALSE

SPECIFICATION Spec
CONSTANTS
    BridgeCap = 2
    SubCap = 1
    SubIdModulus = 3
    TelemetryAlways = TRUE
    Capacity <- MCCapacity
    RingSize = 8
    BytesPerTick = 2
    PerClassCap = 4
    LinkBudget = 7
    Bytes <- MCBytes
    Chunk = 3
    Overhead = 1
    HeaderBytes = 1
    SectionBytes <- MCSectionBytes
    MaxDocument = 6
    MaxFragments = 2
    QueryMasks <- MCQueryMasks
    CaptureFixed = 2
    EventRecord = 1
    LogRecord = 1
    TailDepth = 1
    SeqModulus = 3
    DropModulus = 3
    Period = 1
    Masks = {{"Logs"}, {"Traces"}}
    MaxLoad = 2
PROPERTY AnswerDropReported

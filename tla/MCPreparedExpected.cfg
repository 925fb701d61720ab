CONSTANTS
    StartOnPrepared = FALSE
    PrepareCanFail = FALSE
    DecodersCanFail = FALSE
    Media = {"audio", "video"}
    SpuriousWakeups = FALSE
    MaxCalls = 3
    MaxStreams = 1
SPECIFICATION Spec
PROPERTY
    PreparedExpected
CHECK_DEADLOCK FALSE

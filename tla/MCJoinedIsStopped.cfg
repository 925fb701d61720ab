CONSTANTS
    StartOnPrepared = FALSE
    PrepareCanFail = TRUE
    DecodersCanFail = FALSE
    Media = {"audio", "video"}
    SpuriousWakeups = FALSE
    MaxCalls = 3
    MaxStreams = 1
SPECIFICATION Spec
INVARIANT
    JoinedIsStopped
CHECK_DEADLOCK FALSE

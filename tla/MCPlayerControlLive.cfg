CONSTANTS
    StartOnPrepared = TRUE
    PrepareCanFail = FALSE
    DecodersCanFail = FALSE
    Media = {"audio", "video"}
    SpuriousWakeups = FALSE
    MaxCalls = 4
    MaxStreams = 1
SPECIFICATION FairSpec
PROPERTIES
    StopReturns
    FenceReturns
\* The application may stop calling, and a fence may be missed (FenceReturns).
CHECK_DEADLOCK FALSE

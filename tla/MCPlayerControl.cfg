CONSTANTS
    StartOnPrepared = FALSE
    PrepareCanFail = TRUE
    DecodersCanFail = TRUE
    Media = {"audio", "video"}
    SpuriousWakeups = TRUE
    MaxCalls = 4
    MaxStreams = 2
SPECIFICATION Spec
INVARIANTS
    TypeOK
    AbortOnlyAfterExit
    ViewConverges
    PrepareFindsNothing
    StopRequestSurvives
    StartedPlays
\* The application may stop calling, and a released player does nothing more.
CHECK_DEADLOCK FALSE

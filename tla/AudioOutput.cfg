SPECIFICATION FairSpec
CONSTANTS
    SampqSize = 2
    TrackFails = TRUE
INVARIANT OldCleared
PROPERTIES
    TrackFollows
    CloseReturns
\* A closed device does nothing more.
CHECK_DEADLOCK FALSE

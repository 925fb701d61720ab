SPECIFICATION FairSpec
CONSTANTS
    Packets = 2
    MaxQueue = 1
    FrameQueueSize = 2
    MaxSeeks = 1
    MaxSurfaces = 1
INVARIANTS TypeOK LabelsHonest CompletedAtEnd
PROPERTIES NothingSkipped CloseReturns PlaybackCompletes
\* A closed or completed player does nothing more.
CHECK_DEADLOCK FALSE

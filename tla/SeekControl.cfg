SPECIFICATION FairSpec
CONSTANTS
    End = 3
    KeyFrames = {0, 2}
    MaxCalls = 2
    MaxLoops = 1
    MaxInside = 1
    MaxPictures = 1
    SeekFails = TRUE
    None = None
INVARIANTS TypeOK NewestServed PauseHolds StateTold
PROPERTIES LandsWhereAsked PositionReleased
\* A completed or stopped player does nothing more, and calls are bounded.
CHECK_DEADLOCK FALSE

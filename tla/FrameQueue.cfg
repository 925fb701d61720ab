SPECIFICATION FairSpec
CONSTANTS
    Frames = {f1, f2, f3}
    NoFrame = NoFrame
    MaxSize = 3
INVARIANTS WritesApart ShownIsHeld OneWaits
PROPERTIES ImplementsFifo WaitsEnd
\* An aborted queue is used no more.
CHECK_DEADLOCK FALSE

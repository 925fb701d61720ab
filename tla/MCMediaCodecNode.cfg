SPECIFICATION Spec
CONSTANTS
    Buffers = {b1, b2}
    Windows = {w1, w2}
    Spent = Spent
    None = None
    MaxQueue = 1
    MaxInside = 1
    MaxPictures = 1
    MaxCalls = 2
    CodecFails = FALSE
    ExactSeeks = FALSE
SYMMETRY Symmetry
VIEW View
INVARIANTS ReleasesOnlyLent TrueAfterFlush SettledUnlessOverlap BuffersComeBack
\* An ended decoder does nothing more, and calls are bounded.
CHECK_DEADLOCK FALSE

SPECIFICATION Spec
CONSTANTS
    Buffers = {b1, b2}
    Windows = {w1, w2}
    Spent = Spent
    None = None
    MaxQueue = 1
    MaxInside = 1
    MaxPictures = 1
    MaxCalls = 1
    CodecFails = FALSE
    ExactSeeks = TRUE
SYMMETRY Symmetry
INVARIANT BuffersComeBack
\* An ended decoder does nothing more, and calls are bounded.
CHECK_DEADLOCK FALSE

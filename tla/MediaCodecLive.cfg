SPECIFICATION LiveSpec
CONSTANTS
    Buffers = {b1}
    Windows = {w1, w2}
    Spent = Spent
    None = None
    MaxQueue = 1
    MaxInside = 1
    MaxPictures = 1
    MaxCalls = 1
    CodecFails = TRUE
    ExactSeeks = TRUE
PROPERTIES RequestHandled CloseReturns
\* An ended decoder does nothing more, and calls are bounded.
CHECK_DEADLOCK FALSE

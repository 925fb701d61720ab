CONSTANTS
    Apps = {a1, a2}
    AppCalls = {"prepare", "stop", "setCallback", "reset", "release"}
    CallbackCalls = {"prepare", "stop", "setCallback", "reset"}
    MaxCalls = 4
    MaxMessages = 3
SPECIFICATION FairSpec
INVARIANTS
    NoOtherEmbrace
    ToldOwnSession
    ErrorOnce
    ReleasedQuiet
PROPERTIES
    CallbacksStable
    CallsReturn
\* A reset and a callback may wait for each other (Embraced), and calls are bounded.
CHECK_DEADLOCK FALSE

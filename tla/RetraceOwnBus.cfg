\* The tracer replays onto the bus it listens to.
SPECIFICATION Spec
CONSTANTS
    Bus = {b1}
    Type = {t1}
    Star = Star
    Callback = {c1}
    Record = Record
    Nowhere = Nowhere
    RetraceHome = TRUE
    MaxEvents = 1
    MaxSubs = 1
    MaxReplays = 1
    MaxDepth = 5
INVARIANT RetraceIsBounded
CHECK_DEADLOCK FALSE

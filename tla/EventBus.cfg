\* Two buses, a tracer, and a callback that does anything while it is told.
SPECIFICATION Spec
CONSTANTS
    Bus = {b1, b2}
    Type = {t1}
    Star = Star
    Callback = {c1}
    Record = Record
    Nowhere = Nowhere
    RetraceHome = FALSE
    MaxEvents = 2
    MaxSubs = 2
    MaxReplays = 1
    MaxDepth = 5
INVARIANTS
    EveryEventHeard
    TraceIsDepthFirst
SYMMETRY Buses

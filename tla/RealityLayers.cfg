SPECIFICATION Spec
CONSTANTS
    BaseLayer = {base}
    DeterministicLayer = {det}
    SlowTimeLayer = {slow}
    Factor = {1, 2}
    Size = {2}
    NoLayer = NoLayer
    MaxDepth = 3
    MaxEvents = 2
    MaxNow = 1
    MaxReadings = 2
    MaxAlloc = 2
    MaxCalls = 3
CONSTRAINT Budget
INVARIANTS
    EventsKeepOrder
    DeterministicUnlessCovered
    NeverHandedOutTwice

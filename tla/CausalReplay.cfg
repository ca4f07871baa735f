\* Texts of up to four lines, run and replayed.
SPECIFICATION ReplaySpec
CHECK_DEADLOCK FALSE
CONSTANTS
    e1 = e1
    cK = cK
    cJ = cJ
    cBad = cBad
    cLate = cLate
    up = up
    down = down
    off = off
    add = add
    tell = tell
    own = own
    last = last
    t = t
    k = k
    j = j
    lo = lo
    hi = hi
    jHi = jHi
    jLo = jLo
    kLo = kLo
    emit = emit
    data = data
    r1 = r1
    None = None
    Missing = Missing
    Garbled = Garbled
    EventNode = {e1}
    ConditionNode = {cK, cJ, cBad, cLate}
    ActionNode = {up, down, off, add, tell, own, last}
    Edge <- AnyEdge
    Value = {jHi, jLo, kLo, emit, data}
    MaxHistory = 36
    BuildOrder <- OwnGraph
    BuildEdges <- OwnEdges
    Type = {t}
    TypeOf <- TypeOfEvent
    Payload = {jHi}
    HandTriggered = {}
    TriggerPayload = {}
    Key = {k, j}
    Val = {lo, hi}
    Passing = {hi}
    MetricOf <- Metric
    Outcome <- Outcomes
    Failing = {}
    Writes <- Entries
    Emits <- Emitted
    RuleNodes <- Chain
    UserRules = {}
    MaxTicks = 3
    TickBound = 3
    MaxEvents = 2
    Broken = {cBad}
    Quoting = {add}
    Snapshots <- Stores
    Lines <- SomeLines
    MaxLines = 4
    Does <- Calls
    Registered = {up, down, off, tell, last}
    AddsRule = {add}
INVARIANTS
    GraphMatchesText
    ReplayReproduces

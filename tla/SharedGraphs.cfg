SPECIFICATION MCSpec
CONSTANTS
    e1 = e1  c1 = c1  a1 = a1  a2 = a2
    a = a  b = b  m = m
    EventNode = {e1}
    ConditionNode = {c1}
    ActionNode = {a1, a2}
    Graph = {a, b, m}
    NoGraph = NoGraph
    Edge <- MCEdge
    Absorber = {m}
    Delta <- MCDelta
    MaxHistory = 0
INVARIANTS
    DownstreamWaits
    HistoryShowsDone
    DepthIsWave
    PartsStayIndependent
PROPERTY
    FiredIsClosure
CHECK_DEADLOCK FALSE

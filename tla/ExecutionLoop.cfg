\* Two events, hand-triggered nodes, emitted and injected rules through two ticks.
SPECIFICATION FairDeliverySpec
CONSTANTS
    e1 = e1
    e2 = e2
    c1 = c1
    a1 = a1
    c2 = c2
    a2 = a2
    c3 = c3
    a3 = a3
    a4 = a4
    t = t
    u = u
    k = k
    lo = lo
    hi = hi
    set = set
    emit = emit
    data = data
    more = more
    r1 = r1
    r2 = r2
    None = None
    Missing = Missing
    Garbled = Garbled
    EventNode = {e1, e2}
    ConditionNode = {c1, c2, c3}
    ActionNode = {a1, a2, a3, a4}
    Edge <- AllEdges
    Value = {set, emit, data, more}
    MaxHistory = 18
    BuildOrder <- ConditionEventActionEvent
    BuildEdges <- GraphEdges
    Type = {t, u}
    TypeOf <- TypeOfEvent
    Payload = {data, more}
    HandTriggered = {e2}
    TriggerPayload = {None}
    Key = {k}
    Val = {lo, hi}
    Passing = {hi}
    MetricOf <- Metric
    Outcome <- Outcomes
    Failing = {a1}
    Writes <- Entries
    Emits <- TwoRules
    RuleNodes <- Chains
    UserRules = {Garbled, r2}
    MaxTicks = 2
    TickBound = 2
    MaxEvents = 2
INVARIANTS
    BusFiresOnce
    EventsArriveInOrder
    FirstTickDecides
PROPERTIES
    CausalConsistency
    QuiescentWhenNothingRan
    EmittedRulesArrive
    RulesTakeEffect
    HeardEventsFire
    StartReturns
ACTION_CONSTRAINT
    BoundedUserCode

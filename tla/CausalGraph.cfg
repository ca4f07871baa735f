\* Every graph over an event, a condition and an action.
SPECIFICATION FairSpec
CONSTANTS
    e1 = e1
    c1 = c1
    a1 = a1
    EventNode = {e1}
    ConditionNode = {c1}
    ActionNode = {a1}
    Edge <- AllEdges
    Value = {v1}
    None = None
    Missing = Missing
    MaxHistory = 4
INVARIANTS
    FireOnce
    HistoryExplainsNodes
    ConsumersSeeCauses
PROPERTIES
    CausesFirst
    TickDrains
    TickReturns

\* An event, a condition, an action, edges among them at any time, two ticks.
SPECIFICATION EngineSpec
CONSTANTS
    e1 = e1
    c1 = c1
    a1 = a1
    EventNode = {e1}
    ConditionNode = {c1}
    ActionNode = {a1}
    Edge <- SomeEdges
    Value = {v1}
    None = None
    Missing = Missing
    MaxHistory = 5
    RecordContexts = TRUE
    MaxTicks = 2
INVARIANTS
    ProofsMatchHistory
    CertificatesDateCauses
    ChainsAreProved
    LineageIsADag

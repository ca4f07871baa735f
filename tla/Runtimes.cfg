\* Three runtimes that emit up to three events: late, repeated, out-of-order receipt, sync under every policy.
SPECIFICATION FairSpec
CONSTANTS
    Node = {1, 2, 3}
    Key = {k1}
    Policies = {"LAST_WRITER_WINS", "FIRST_WRITER_WINS", "KEEP_BOTH"}
    MaxSeq = 2
    MaxEmitted = 3
INVARIANTS
    ClockOrderIsCausality
    LogsMatchClocks
    MergeResolves
    CausalOrderIsCanonical
PROPERTIES
    LogsGrowAtTheEnd
    ClocksImplementHistories
    Converges

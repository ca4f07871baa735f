\* The order of the arguments of merge().
SPECIFICATION Spec
CONSTANTS
    Node = {1, 2}
    Key = {k1}
    Policies = {"LAST_WRITER_WINS"}
    MaxSeq = 2
    MaxEmitted = 2
INVARIANTS
    MergeCommutes

------------------------------ MODULE MergeLaws ------------------------------
(***************************************************************************)
(* What merge(), _resolve_conflicts and causal_order() make of the logs    *)
(* that runtimes can hold: laws about the functions of EventLog, stated    *)
(* for the logs of every reachable state of CausalNodeRuntime, and the     *)
(* convergence of the logs when the runtimes keep merging them.            *)
(***************************************************************************)
EXTENDS CausalNodeRuntime

Resolving == {"LAST_WRITER_WINS", "FIRST_WRITER_WINS"}

\* f, if in conflict with e, is one that e does not win against.
Beats(f, e, policy) ==
    Conflict(e, f) /\ IF policy = "LAST_WRITER_WINS" THEN f.seq >= e.seq
                                                     ELSE f.seq <= e.seq

-----------------------------------------------------------------------------
(* Laws that hold.                                                         *)

\* merge() under a resolving policy: no conflict is left (test_distributed.py:446),
\* though each pair is looked at once, while events are being removed; and an
\* event is dropped only for one that wins against it, or ties with it, so that
\* an event in conflict with no other stays.  The winner need not stay: it may
\* be dropped for a third.
MergeResolves ==
    \A n, m \in Node, policy \in Resolving :
        LET all    == Events(log[n]) \cup Events(log[m])
            merged == Events(Merged(log[n], log[m], policy))
        IN  /\ \A e, f \in merged : e # f => ~Conflict(e, f)
            /\ \A e \in all \ merged : \E f \in all \ {e} : Beats(f, e, policy)

\* causal_order() lists every event of the log once, causes first; of two events
\* next to each other the second follows causally or has the greater source:
\* concurrent events are ordered by their names alone, never by when or from
\* where they came into the log.
CausalOrderIsCanonical ==
    \A n \in Node :
        LET order == CausalOrder(log[n])
        IN  /\ Len(order) = Size(log[n])
            /\ {order[i] : i \in DOMAIN order} = Events(log[n])
            /\ \A i, j \in DOMAIN order :
                  HappensBefore(order[i], order[j]) => i < j
            /\ \A i \in 1 .. (Len(order) - 1) :
                  \/ HappensBefore(order[i], order[i + 1])
                  \/ order[i].src < order[i + 1].src

\* The nodes come to the same causal order of the same events and stay there
\* (MODEL.md:337, PAPER.md:448), when they go on exchanging logs, whatever
\* merges under resolving policies have kept out of the logs in between.
Converges ==
    <>[](\A n, m \in Node : CausalOrder(log[n]) = CausalOrder(log[m]))

-----------------------------------------------------------------------------
(* A law the documents state and the default policy breaks.                *)

\* "given the same two input logs it always produces the same output
\* regardless of argument order" (distributed_runtime.py:262-263); also
\* Theorem 2 of PAPER.md and the Causal Convergence of MODEL.md:336-343.
MergeCommutes ==
    \A n, m \in Node, policy \in Policies :
        CausalOrder(Merged(log[n], log[m], policy))
          = CausalOrder(Merged(log[m], log[n], policy))

=============================================================================

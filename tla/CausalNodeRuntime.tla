------------------------- MODULE CausalNodeRuntime -------------------------
(***************************************************************************)
(* The distributed layer: one CausalNodeRuntime per node                   *)
(* (runtime/distributed_runtime.py), with its vector clock, its sequence   *)
(* counter and its log, and the calls emit, receive and sync.              *)
(*                                                                         *)
(* The repository has no network.  emit returns the event "for forwarding  *)
(* to peer nodes", so any event that was emitted may be received by any    *)
(* node, at any time, late, out of order, again or never; sync reads the   *)
(* log another node has at that moment.                                    *)
(***************************************************************************)
EXTENDS EventLog

CONSTANTS
    Key,        \* keys of the state store that events mutate
    Policies,   \* the conflict policies that callers of sync pass
    MaxSeq,     \* bound: events each node emits
    MaxEmitted  \* bound: events emitted in all

ASSUME PolicyNames == Policies \subseteq Policy

ASSUME EmissionBounds == MaxSeq \in Nat /\ MaxEmitted \in Nat

VARIABLES
    clock,  \* clock[n]: n's VectorClock
    seq,    \* seq[n]: n's _seq
    log     \* log[n]: n's DistributedEventLog

vars == <<clock, seq, log>>

\* A node never removes an event from its own log, so all events are found here.
Emitted == UNION {Events(log[n]) : n \in Node}

EventType == [src : Node, seq : 1 .. MaxSeq, vc : [Node -> 0 .. MaxSeq],
              keys : SUBSET Key]

-----------------------------------------------------------------------------
Init ==
    /\ clock = [n \in Node |-> ZeroClock]
    /\ seq = [n \in Node |-> 0]
    /\ log = [n \in Node |-> EmptyLog]

\* emit() that takes the clock before it ticks.
EmitStale(n, ks) ==
    LET e == [src |-> n, seq |-> seq[n] + 1, vc |-> clock[n], keys |-> ks]
    IN  /\ seq[n] < MaxSeq /\ Cardinality(Emitted) < MaxEmitted
        /\ seq' = [seq EXCEPT ![n] = @ + 1]
        /\ clock' = [clock EXCEPT ![n] = Ticked(@, n)]
        /\ log' = [log EXCEPT ![n] = Appended(@, e)]

\* The counter and the clock both advance, and the event gets both.
Emit(n, ks) ==
    LET vc == Ticked(clock[n], n)
        e  == [src |-> n, seq |-> seq[n] + 1, vc |-> vc, keys |-> ks]
    IN  /\ seq[n] < MaxSeq /\ Cardinality(Emitted) < MaxEmitted
        /\ seq' = [seq EXCEPT ![n] = @ + 1]
        /\ clock' = [clock EXCEPT ![n] = vc]
        /\ log' = [log EXCEPT ![n] = Appended(@, e)]

\* receive() that counts the receipt in the node's own entry.
ReceiveTicking(n, e) ==
    /\ clock' = [clock EXCEPT ![n] = Ticked(Updated(@, e.vc), n)]
    /\ log' = [log EXCEPT ![n] = Appended(@, e)]
    /\ UNCHANGED seq

\* The clock first, then the log; no test for an event already there.
Receive(n, e) ==
    /\ clock' = [clock EXCEPT ![n] = Updated(@, e.vc)]
    /\ log' = [log EXCEPT ![n] = Appended(@, e)]
    /\ UNCHANGED seq

\* sync() that makes the merged log the local one.
SyncReplacing(n, m, policy) ==
    /\ clock' = [clock EXCEPT ![n] = UpdatedFromAll(@, Events(log[m]))]
    /\ log' = [log EXCEPT ![n] = Merged(@, log[m], policy)]
    /\ UNCHANGED seq

\* sync() that tells new events by the clock and not by their ids.
SyncByClock(n, m, policy) ==
    LET merged == Merged(log[n], log[m], policy)
        new    == {e \in Events(merged) : e.seq > clock[n][e.src]}
    IN  /\ clock' = [clock EXCEPT ![n] = UpdatedFromAll(@, Events(log[m]))]
        /\ log' = [log EXCEPT ![n] = Union(@, Kept(merged, new))]
        /\ UNCHANGED seq

\* n.sync(m.log, policy): the clock takes in every event of the other log, the
\* local log only those events of the merged log that it does not have.
Sync(n, m, policy) ==
    /\ clock' = [clock EXCEPT ![n] = UpdatedFromAll(@, Events(log[m]))]
    /\ log' = [log EXCEPT ![n] = Union(@, Merged(@, log[m], policy))]
    /\ UNCHANGED seq

Next ==
    \E n \in Node :
        \/ \E ks \in SUBSET Key : Emit(n, ks)
        \/ \E e \in Emitted : Receive(n, e)
        \/ \E m \in Node \ {n}, policy \in Policies : Sync(n, m, policy)

Spec == Init /\ [][Next]_vars

\* The nodes go on exchanging their logs: L_i(t+1) = merge(L_i(t),
\* received_logs(t)) at every tick (PAPER.md, section 4.7), with the merge that
\* drops nothing; syncs under other policies may come in between.
FairSpec ==
    /\ Spec
    /\ \A n \in Node : \A m \in Node \ {n} : WF_vars(Sync(n, m, "KEEP_BOTH"))

-----------------------------------------------------------------------------
(* The abstract view: what the clocks stand for.                           *)

Id(e) == <<e.src, e.seq>>

\* What a node knows of and what precedes an event, read off the clocks alone.
KnownTo(n) == {Id(e) : e \in {f \in Emitted : f.seq <= clock[n][f.src]}}

PastOf(id) ==
    LET e == CHOOSE f \in Emitted : Id(f) = id
    IN  {Id(f) : f \in {g \in Emitted : Id(g) # id /\ g.seq <= e.vc[g.src]}}

History == INSTANCE CausalHistory
    WITH Name  <- 1 .. MaxSeq,
         past  <- [id \in {Id(e) : e \in Emitted} |-> PastOf(id)],
         known <- [n \in Node |-> KnownTo(n)]

\* The clocks implement causal histories: an event's clock stands for exactly
\* the set of events its source had been given, directly or not, when it was
\* emitted, although clocks and logs are merged in any order, with gaps and
\* repeats, and although conflict resolution keeps events out of the logs.
ClocksImplementHistories == History!Spec

-----------------------------------------------------------------------------
(* Properties.                                                             *)

\* Clocks, counters and logs keep to the values the code gives them.
TypeOK ==
    /\ clock \in [Node -> [Node -> 0 .. MaxSeq]]
    /\ seq \in [Node -> 0 .. MaxSeq]
    /\ DOMAIN log = Node
    /\ \A n \in Node : Events(log[n]) \subseteq EventType

\* happens_before on clocks is causality: one event's clock is below another's
\* exactly when the second event's source had learned of the first.
ClockOrderIsCausality ==
    \A e, f \in Emitted :
        HappensBefore(e, f) <=> (e # f /\ e.seq <= f.vc[e.src])

\* A log never gets ahead of the clock: what is in it, with all that precedes
\* it, is counted, so the next event is causally after the whole log.
LogBehindClock ==
    \A n \in Node : \A e \in Events(log[n]) : LeqClock(e.vc, clock[n])

\* The two counters of emit(), _seq and the clock's own entry, agree, and no
\* one else has counted further: no received clock can move a node's own entry.
OwnEntryIsSeq ==
    \A n, m \in Node : clock[n][n] = seq[n] /\ clock[m][n] <= seq[n]

\* Source and sequence number identify an event: no two nodes hold different
\* events under one name, which the tiebreak of causal_order rests on.
NamesAreUnique ==
    \A e, f \in Emitted : Id(e) = Id(f) => e = f

\* The three together: clocks, counters and logs are of one mind after any
\* sequence of emissions, late or repeated receipts and merges.
LogsMatchClocks == LogBehindClock /\ OwnEntryIsSeq /\ NamesAreUnique

\* A log only grows, at its end: what was read from it once stays, in the same
\* insertion order, when it is merged with other logs under any policy.
LogsGrowAtTheEnd ==
    [][ \A n \in Node :
          /\ Events(log[n]) \subseteq Events(log'[n])
          /\ \A e \in Events(log[n]) : log'[n][e] = log[n][e] ]_vars

=============================================================================

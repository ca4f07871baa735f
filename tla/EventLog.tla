------------------------------ MODULE EventLog ------------------------------
(***************************************************************************)
(* The values of runtime/distributed_runtime.py: vector clocks, events and *)
(* logs, with the functions over them (VectorClock, DistributedEventLog,   *)
(* _resolve_conflicts, _topological_sort).  No state.                      *)
(*                                                                         *)
(* An event is a record [src, seq, vc, keys]: source_node, seq_no,         *)
(* vector_clock and the keys of state_mutations.  emit() gives every event *)
(* a new event_id, so src and seq identify it.                             *)
(*                                                                         *)
(* A log is the dict _events, which remembers insertion order: a function  *)
(* from its events to their positions 1, 2, ...                            *)
(*                                                                         *)
(* A vector clock is a total function: get(k, 0) is what the code reads.   *)
(***************************************************************************)
EXTENDS Naturals, FiniteSets, Sequences

CONSTANT Node  \* the ids of the runtimes; like strings, totally ordered

ASSUME NodeIds == Node \subseteq Nat

Policy == {"LAST_WRITER_WINS", "FIRST_WRITER_WINS", "KEEP_BOTH"}

-----------------------------------------------------------------------------
(* Vector clocks.                                                          *)

\* A new VectorClock: 0 for itself and its peers, and 0 is read for the rest.
ZeroClock == [k \in Node |-> 0]

\* VectorClock.tick and .update, as functions of the clock.
Ticked(c, n) == [c EXCEPT ![n] = @ + 1]

\* update() that overwrites instead of taking the maximum.
Overwritten(c, received) == received

Updated(c, received) ==
    [k \in Node |-> IF c[k] < received[k] THEN received[k] ELSE c[k]]

\* update() with the clock of every event in S, in any order: the maximum.
UpdatedFromAll(c, S) ==
    [k \in Node |-> CHOOSE t \in {c[k]} \cup {e.vc[k] : e \in S} :
                       \A u \in {c[k]} \cup {e.vc[k] : e \in S} : u <= t]

\* c <= d in every component.
LeqClock(c, d) == \A k \in Node : c[k] <= d[k]

HappensBefore(e, f) == LeqClock(e.vc, f.vc) /\ \E k \in Node : e.vc[k] < f.vc[k]

ConcurrentWith(e, f) == ~HappensBefore(e, f) /\ ~HappensBefore(f, e)

\* The test that conflicts() and _resolve_conflicts make of a pair of events.
Conflict(e, f) == ConcurrentWith(e, f) /\ e.keys \cap f.keys # {}

-----------------------------------------------------------------------------
(* Logs.                                                                   *)

EmptyLog == [e \in {} |-> 0]

Events(L) == DOMAIN L

Size(L) == Cardinality(Events(L))

\* append(): an event already there keeps its place.
Appended(L, e) ==
    [f \in Events(L) \cup {e} |-> IF f \in Events(L) THEN L[f] ELSE Size(L) + 1]

\* The log of the events of S, a subset of L's, in L's order.
Kept(L, S) == [e \in S |-> Cardinality({f \in S : L[f] <= L[e]})]

\* {**L, **M}: L's events first, then M's other events in M's order.
Union(L, M) ==
    LET new == Events(M) \ Events(L)
    IN  [e \in Events(L) \cup new |->
           IF e \in Events(L) THEN L[e]
           ELSE Size(L) + Cardinality({f \in new : M[f] <= M[e]})]

EventAt(L, i) == CHOOSE e \in Events(L) : L[e] = i

\* Does e, met first, lose against f?  On equal seq_no it is f that loses.
Loses(e, f, policy) ==
    IF policy = "LAST_WRITER_WINS" THEN e.seq < f.seq ELSE e.seq > f.seq

\* _resolve_conflicts that compares each event with the next one only.
RemovedNeighbours(L, policy) ==
    {e \in Events(L) : \E f \in Events(L) :
        Conflict(e, f) /\ \/ L[f] = L[e] + 1 /\ Loses(e, f, policy)
                          \/ L[e] = L[f] + 1 /\ ~Loses(f, e, policy)}

\* to_remove when the two loops are through: R[k] after k of the n * n pairs
\* of positions.  Of a pair in conflict, e before f, one event is removed,
\* unless one of them has been removed by then.
Removed(L, policy) ==
    LET n == Size(L)
        R[k \in 0 .. n * n] ==
          IF k = 0 THEN {}
          ELSE LET e == EventAt(L, ((k - 1) \div n) + 1)
                   f == EventAt(L, ((k - 1) % n) + 1)
                   before == R[k - 1]
               IN  IF L[e] < L[f] /\ {e, f} \cap before = {} /\ Conflict(e, f)
                   THEN before \cup {IF Loses(e, f, policy) THEN e ELSE f}
                   ELSE before
    IN  R[n * n]

\* DistributedEventLog.merge.
Merged(L, M, policy) ==
    LET all == Union(L, M)
    IN  IF policy = "KEEP_BOTH" THEN all
        ELSE Kept(all, Events(all) \ Removed(all, policy))

-----------------------------------------------------------------------------
(* causal_order(): Kahn's algorithm, the heap ordered by (source, seq).    *)

HeapLess(e, f) == e.src < f.src \/ (e.src = f.src /\ e.seq < f.seq)

\* Every event in the heap from the start.
AvailableAtOnce(S, done) == S \ done

\* in_degree 0: everything that happened before e has been popped.
Available(S, done) ==
    {e \in S \ done : \A f \in S : HappensBefore(f, e) => f \in done}

CausalOrder(L) ==
    LET S == Events(L)
        order[i \in 0 .. Cardinality(S)] ==
          IF i = 0 THEN <<>>
          ELSE LET done == {order[i - 1][j] : j \in 1 .. (i - 1)}
                   heap == Available(S, done)
               IN  Append(order[i - 1],
                          CHOOSE e \in heap : \A f \in heap \ {e} : HeapLess(e, f))
    IN  order[Cardinality(S)]

=============================================================================

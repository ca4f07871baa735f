---------------------- MODULE CausalNodeRuntimeProofs ----------------------
(***************************************************************************)
(* Proofs about the distributed layer, for every set of runtimes, any      *)
(* number of events, any keys and any mix of conflict policies: the clocks *)
(* are exact, and merging and ordering logs keeps its laws.  Logs and      *)
(* clocks as values come first, then the inductive invariant RInv and its  *)
(* theorems, causal histories and their refinement, and the laws of        *)
(* merge() and causal_order(), which rest on RInv and on the positions in  *)
(* a log.                                                                  *)
(***************************************************************************)
EXTENDS MergeLaws, DataInduction

-----------------------------------------------------------------------------
(* Clocks and logs as values.                                              *)

Clock == [Node -> 0 .. MaxSeq]

\* The clock after sync is, in each component, one of the values it took in
\* and not below any of them.
LEMMA JoinFacts ==
    ASSUME NEW c \in Clock, NEW S \in SUBSET EventType
    PROVE  /\ UpdatedFromAll(c, S) \in Clock
           /\ \A k \in Node :
                /\ \/ UpdatedFromAll(c, S)[k] = c[k]
                   \/ \E e \in S : UpdatedFromAll(c, S)[k] = e.vc[k]
                /\ c[k] <= UpdatedFromAll(c, S)[k]
                /\ \A e \in S : e.vc[k] <= UpdatedFromAll(c, S)[k]
<1> DEFINE U(k) == {c[k]} \cup {e.vc[k] : e \in S}
           top(k) == CHOOSE t \in U(k) : \A u \in U(k) : u <= t
<1>1. ASSUME NEW k \in Node
      PROVE  top(k) \in U(k) /\ \A u \in U(k) : u <= top(k)
  <2>1. c[k] \in 0 .. MaxSeq /\ \A e \in S : e.vc[k] \in 0 .. MaxSeq
    BY DEF Clock, EventType
  <2>2. U(k) \subseteq 0 .. MaxSeq /\ U(k) # {}
    BY <2>1
  <2> HIDE DEF U
  <2>3. \E t \in U(k) : \A u \in U(k) : u <= t
    BY <2>2, EmissionBounds, GreatestNumber
  <2> QED
    BY <2>3
<1>2. \A k \in Node : U(k) \subseteq 0 .. MaxSeq
  BY DEF Clock, EventType
<1>3. UpdatedFromAll(c, S) = [k \in Node |-> top(k)]
  BY DEF UpdatedFromAll
<1>4. \A k \in Node : top(k) \in 0 .. MaxSeq
  BY <1>1, <1>2
<1>5. \A k \in Node : /\ top(k) = c[k] \/ \E e \in S : top(k) = e.vc[k]
                      /\ c[k] <= top(k)
                      /\ \A e \in S : e.vc[k] <= top(k)
  BY <1>1
<1> HIDE DEF top
<1> QED
  BY <1>3, <1>4, <1>5 DEF Clock

\* The same of the clock after receive.
LEMMA UpdateFacts ==
    ASSUME NEW c \in Clock, NEW r \in Clock
    PROVE  /\ Updated(c, r) \in Clock
           /\ \A k \in Node : /\ Updated(c, r)[k] = c[k] \/ Updated(c, r)[k] = r[k]
                              /\ c[k] <= Updated(c, r)[k]
                              /\ r[k] <= Updated(c, r)[k]
BY EmissionBounds DEF Clock, Updated

\* A union of logs has the events of both, and the first log's positions.
LEMMA UnionFacts ==
    ASSUME NEW L, NEW M
    PROVE  /\ Events(Union(L, M)) = Events(L) \cup Events(M)
           /\ \A e \in Events(L) : Union(L, M)[e] = L[e]
BY DEF Union, Events

\* Whatever the policy, merge invents no event.
LEMMA MergedFacts ==
    ASSUME NEW L, NEW M, NEW policy
    PROVE  Events(Merged(L, M, policy)) \subseteq Events(L) \cup Events(M)
<1>1. Events(Kept(Union(L, M), Events(Union(L, M)) \ Removed(Union(L, M), policy)))
        \subseteq Events(Union(L, M))
  BY DEF Kept, Events
<1> QED
  BY <1>1, UnionFacts DEF Merged

\* Appending an event keeps the positions of the others.
LEMMA AppendedFacts ==
    ASSUME NEW L, NEW e
    PROVE  /\ Events(Appended(L, e)) = Events(L) \cup {e}
           /\ \A f \in Events(L) : Appended(L, e)[f] = L[f]
BY DEF Appended, Events

-----------------------------------------------------------------------------
(* The inductive invariant.                                                *)

\* An event carries its own number in its own entry, and its clock counts only
\* events that were emitted.
EventsCounted ==
    \A e \in Emitted : /\ e.vc[e.src] = e.seq
                       /\ e.seq <= seq[e.src]
                       /\ \A k \in Node : e.vc[k] <= seq[k]

\* A clock that counts an event counts all that the event's clock counts.
ClocksClosed ==
    \A n \in Node : \A e \in Emitted :
        e.seq <= clock[n][e.src] => LeqClock(e.vc, clock[n])

\* So do the clocks of events.
PastsClosed ==
    \A e, f \in Emitted : e.seq <= f.vc[e.src] => LeqClock(e.vc, f.vc)

\* No two events count each other.
PastsAcyclic ==
    \A e, f \in Emitted :
        e # f /\ e.seq <= f.vc[e.src] => ~(f.seq <= e.vc[f.src])

RInv ==
    /\ TypeOK
    /\ OwnEntryIsSeq
    /\ EventsCounted
    /\ NamesAreUnique
    /\ ClocksClosed
    /\ PastsClosed
    /\ PastsAcyclic
    /\ LogBehindClock

\* The types of what the actions handle.
LEMMA Types ==
    ASSUME TypeOK
    PROVE  /\ Emitted \subseteq EventType
           /\ \A n \in Node : clock[n] \in Clock /\ seq[n] \in 0 .. MaxSeq
                              /\ Events(log[n]) \subseteq Emitted
           /\ \A e \in Emitted : /\ e.src \in Node /\ e.seq \in 1 .. MaxSeq
                                 /\ e.vc \in Clock /\ e.keys \in SUBSET Key
BY DEF TypeOK, Emitted, EventType, Clock

\* What emit does, with the new event named.
Emits(n, e) ==
    /\ e \in EventType
    /\ e.src = n /\ e.seq = seq[n] + 1
    /\ e.vc = [clock[n] EXCEPT ![n] = @ + 1]
    /\ seq' = [seq EXCEPT ![n] = e.seq]
    /\ clock' = [clock EXCEPT ![n] = e.vc]
    /\ DOMAIN log' = Node
    /\ Events(log'[n]) = Events(log[n]) \cup {e}
    /\ \A m \in Node \ {n} : log'[m] = log[m]
    /\ \A f \in Events(log[n]) : log'[n][f] = log[n][f]

\* What receive and sync do alike: n takes in the events of S, all of them into
\* its clock, some of them into its log.
Absorbs(n, S) ==
    /\ S \subseteq Emitted
    /\ seq' = seq
    /\ clock' \in [Node -> Clock]
    /\ \A m \in Node \ {n} : clock'[m] = clock[m]
    /\ \A k \in Node : /\ \/ clock'[n][k] = clock[n][k]
                          \/ \E e \in S : clock'[n][k] = e.vc[k]
                       /\ clock[n][k] <= clock'[n][k]
                       /\ \A e \in S : e.vc[k] <= clock'[n][k]
    /\ DOMAIN log' = Node
    /\ \A m \in Node \ {n} : log'[m] = log[m]
    /\ Events(log[n]) \subseteq Events(log'[n])
    /\ Events(log'[n]) \subseteq Events(log[n]) \cup S
    /\ \A e \in Events(log[n]) : log'[n][e] = log[n][e]

\* emit adds one event, with a number of its own.
LEMMA EmitEmits ==
    ASSUME TypeOK, OwnEntryIsSeq, NEW n \in Node, NEW ks \in SUBSET Key, Emit(n, ks)
    PROVE  \E e : Emits(n, e)
<1> DEFINE e == [src |-> n, seq |-> seq[n] + 1, vc |-> Ticked(clock[n], n),
                 keys |-> ks]
<1>1. seq[n] < MaxSeq /\ clock[n][n] = seq[n] /\ seq[n] \in 0 .. MaxSeq
      /\ clock[n] \in Clock
  BY Types DEF Emit, OwnEntryIsSeq
<1>2. e \in EventType
  BY <1>1, EmissionBounds DEF EventType, Ticked, Clock
<1>3. /\ seq' = [seq EXCEPT ![n] = @ + 1]
      /\ clock' = [clock EXCEPT ![n] = Ticked(clock[n], n)]
      /\ log' = [log EXCEPT ![n] = Appended(@, e)]
  BY DEF Emit
<1>4. DOMAIN log = Node
  BY DEF TypeOK
<1>5. e.src = n /\ e.seq = seq[n] + 1 /\ e.vc = [clock[n] EXCEPT ![n] = @ + 1]
      /\ e.vc = Ticked(clock[n], n)
  BY DEF Ticked
<1> HIDE DEF e
<1>6. DOMAIN log' = Node /\ log'[n] = Appended(log[n], e)
      /\ \A m \in Node \ {n} : log'[m] = log[m]
  BY <1>3, <1>4
<1>7. seq' = [seq EXCEPT ![n] = e.seq] /\ clock' = [clock EXCEPT ![n] = e.vc]
  BY <1>3, <1>5
<1>8. /\ Events(log'[n]) = Events(log[n]) \cup {e}
      /\ \A f \in Events(log[n]) : log'[n][f] = log[n][f]
  BY <1>6, AppendedFacts
<1>9. Emits(n, e)
  BY <1>2, <1>5, <1>6, <1>7, <1>8 DEF Emits
<1> QED
  BY <1>9

\* receive takes in one event.
LEMMA ReceiveAbsorbs ==
    ASSUME TypeOK, NEW n \in Node, NEW e \in Emitted, Receive(n, e)
    PROVE  Absorbs(n, {e})
<1>1. clock \in [Node -> Clock] /\ DOMAIN log = Node /\ e.vc \in Clock
  BY Types DEF TypeOK, Clock
<1>2. /\ clock' = [clock EXCEPT ![n] = Updated(clock[n], e.vc)]
      /\ log' = [log EXCEPT ![n] = Appended(log[n], e)]
      /\ seq' = seq
  BY DEF Receive
<1>3. clock'[n] = Updated(clock[n], e.vc) /\ Updated(clock[n], e.vc) \in Clock
      /\ clock[n] \in Clock
  BY <1>1, <1>2, UpdateFacts
<1>4. clock' \in [Node -> Clock] /\ \A m \in Node \ {n} : clock'[m] = clock[m]
  BY <1>1, <1>2, <1>3
<1>5. \A k \in Node : /\ clock'[n][k] = clock[n][k] \/ clock'[n][k] = e.vc[k]
                      /\ clock[n][k] <= clock'[n][k]
                      /\ e.vc[k] <= clock'[n][k]
  BY <1>1, <1>3, UpdateFacts
<1>6. log'[n] = Appended(log[n], e) /\ DOMAIN log' = Node
      /\ \A m \in Node \ {n} : log'[m] = log[m]
  BY <1>1, <1>2
<1>7. /\ Events(log'[n]) = Events(log[n]) \cup {e}
      /\ \A f \in Events(log[n]) : log'[n][f] = log[n][f]
  BY <1>6, AppendedFacts
<1> QED
  BY <1>2, <1>4, <1>5, <1>6, <1>7 DEF Absorbs

\* sync takes in the events of the other log.
LEMMA SyncAbsorbs ==
    ASSUME TypeOK, NEW n \in Node, NEW m \in Node, NEW policy, Sync(n, m, policy)
    PROVE  Absorbs(n, Events(log[m]))
<1> DEFINE S == Events(log[m])
<1>1. clock \in [Node -> Clock] /\ DOMAIN log = Node
      /\ S \in SUBSET EventType /\ S \subseteq Emitted /\ clock[n] \in Clock
  BY Types DEF TypeOK, Clock
<1>2. /\ clock' = [clock EXCEPT ![n] = UpdatedFromAll(clock[n], S)]
      /\ log' = [log EXCEPT ![n] = Union(log[n], Merged(log[n], log[m], policy))]
      /\ seq' = seq
  BY DEF Sync
<1> HIDE DEF S
<1>3. clock'[n] = UpdatedFromAll(clock[n], S) /\ UpdatedFromAll(clock[n], S) \in Clock
  BY <1>1, <1>2, JoinFacts
<1>4. clock' \in [Node -> Clock] /\ \A k \in Node \ {n} : clock'[k] = clock[k]
  BY <1>1, <1>2, <1>3
<1>5. \A k \in Node : /\ \/ clock'[n][k] = clock[n][k]
                         \/ \E e \in S : clock'[n][k] = e.vc[k]
                      /\ clock[n][k] <= clock'[n][k]
                      /\ \A e \in S : e.vc[k] <= clock'[n][k]
  BY <1>1, <1>3, JoinFacts
<1>6. log'[n] = Union(log[n], Merged(log[n], log[m], policy)) /\ DOMAIN log' = Node
      /\ \A k \in Node \ {n} : log'[k] = log[k]
  BY <1>1, <1>2
<1>7. /\ Events(log'[n]) = Events(log[n]) \cup Events(Merged(log[n], log[m], policy))
      /\ \A f \in Events(log[n]) : log'[n][f] = log[n][f]
  BY <1>6, UnionFacts
<1>8. Events(Merged(log[n], log[m], policy)) \subseteq Events(log[n]) \cup S
  BY MergedFacts DEF S
<1>9. Absorbs(n, S)
  BY <1>1, <1>2, <1>4, <1>5, <1>6, <1>7, <1>8 DEF Absorbs
<1> QED
  BY <1>9 DEF S

\* Every step is an emission or takes in a set of events.
LEMMA NextShape ==
    ASSUME TypeOK, OwnEntryIsSeq, Next
    PROVE  \E n \in Node : (\E e : Emits(n, e)) \/ (\E S : Absorbs(n, S))
BY EmitEmits, ReceiveAbsorbs, SyncAbsorbs DEF Next

\* After an emission there is one event more, and it is the new one.
LEMMA EmittedGrows ==
    ASSUME TypeOK, NEW n \in Node, NEW e, Emits(n, e)
    PROVE  Emitted' = Emitted \cup {e}
BY DEF Emits, Emitted

\* Taking events in emits none.
LEMMA EmittedStays ==
    ASSUME TypeOK, NEW n \in Node, NEW S, Absorbs(n, S)
    PROVE  Emitted' = Emitted
BY DEF Absorbs, Emitted

\* An emission keeps the invariant: the new event is numbered above all that
\* any clock counts, so it is in no past, and its own past is what its source
\* has counted.
LEMMA EmitKeeps ==
    ASSUME RInv, NEW n \in Node, NEW e, Emits(n, e)
    PROVE  RInv'
<1> USE DEF RInv
<1>1. TypeOK /\ Emitted' = Emitted \cup {e}
  BY EmittedGrows
<1>2. /\ e \in EventType /\ e.src = n /\ e.seq = seq[n] + 1
      /\ e.vc = [clock[n] EXCEPT ![n] = @ + 1]
      /\ seq' = [seq EXCEPT ![n] = e.seq]
      /\ clock' = [clock EXCEPT ![n] = e.vc]
      /\ DOMAIN log' = Node
      /\ Events(log'[n]) = Events(log[n]) \cup {e}
      /\ \A m \in Node \ {n} : log'[m] = log[m]
  BY DEF Emits
<1>3. /\ \A m \in Node : seq[m] \in Nat /\ seq[m] \in 0 .. MaxSeq
      /\ \A m, k \in Node : clock[m][k] \in Nat
      /\ \A f \in Emitted : /\ f \in EventType /\ f.src \in Node /\ f.seq \in Nat
                            /\ \A k \in Node : f.vc[k] \in Nat
      /\ clock[n] \in Clock /\ e.vc \in Clock /\ e.seq \in 1 .. MaxSeq
      /\ \A m \in Node : Events(log[m]) \subseteq Emitted
  BY <1>1, <1>2, Types, EmissionBounds DEF EventType, Clock
<1>4. /\ e.vc[n] = e.seq
      /\ \A k \in Node \ {n} : e.vc[k] = clock[n][k]
      /\ \A k \in Node : clock[n][k] <= e.vc[k]
      /\ clock'[n] = e.vc /\ \A m \in Node \ {n} : clock'[m] = clock[m]
      /\ seq'[n] = seq[n] + 1 /\ \A m \in Node \ {n} : seq'[m] = seq[m]
  BY <1>2, <1>3 DEF OwnEntryIsSeq, TypeOK, Clock
<1>5. \* no clock counts e
      /\ \A m \in Node \ {n} : clock[m][n] < e.seq
      /\ \A f \in Emitted : f.vc[n] < e.seq /\ (f.src = n => f.seq < e.seq)
  BY <1>2, <1>3 DEF OwnEntryIsSeq, EventsCounted
<1>6. \* what e's clock counts, the clock of n counted, e itself apart
      \A f \in Emitted : f.seq <= e.vc[f.src] => f.seq <= clock[n][f.src]
  BY <1>3, <1>4, <1>5 DEF OwnEntryIsSeq, EventsCounted
<1>7. \A f \in Emitted : f.seq <= clock[n][f.src] => LeqClock(f.vc, e.vc)
  BY <1>3, <1>4 DEF ClocksClosed, LeqClock
<1>8. TypeOK'
  <2>1. clock' \in [Node -> [Node -> 0 .. MaxSeq]]
    BY <1>2, <1>3 DEF TypeOK, Clock
  <2>2. seq' \in [Node -> 0 .. MaxSeq]
    BY <1>2, <1>3 DEF TypeOK
  <2>3. \A m \in Node : Events(log'[m]) \subseteq EventType
    BY <1>2 DEF TypeOK
  <2> QED
    BY <1>2, <2>1, <2>2, <2>3 DEF TypeOK
<1>9. OwnEntryIsSeq'
  BY <1>2, <1>3, <1>4 DEF OwnEntryIsSeq
<1>10. EventsCounted'
  <2>1. \A f \in Emitted : /\ f.vc[f.src] = f.seq /\ f.seq <= seq'[f.src]
                           /\ \A k \in Node : f.vc[k] <= seq'[k]
    BY <1>3, <1>4 DEF EventsCounted
  <2>2. e.vc[e.src] = e.seq /\ e.seq <= seq'[e.src]
        /\ \A k \in Node : e.vc[k] <= seq'[k]
    BY <1>2, <1>3, <1>4 DEF OwnEntryIsSeq
  <2> QED
    BY <1>1, <2>1, <2>2 DEF EventsCounted
<1>11. NamesAreUnique'
  BY <1>1, <1>2, <1>3, <1>5 DEF NamesAreUnique, Id
<1>12. ClocksClosed'
  <2> SUFFICES ASSUME NEW m \in Node, NEW f \in Emitted \cup {e},
                      f.seq <= clock'[m][f.src]
               PROVE  LeqClock(f.vc, clock'[m])
    BY <1>1 DEF ClocksClosed
  <2>1. CASE f = e
    BY <2>1, <1>2, <1>3, <1>4, <1>5 DEF LeqClock
  <2>2. CASE f # e /\ m = n
    BY <2>2, <1>4, <1>6, <1>7
  <2>3. CASE f # e /\ m # n
    BY <2>3, <1>4 DEF ClocksClosed
  <2> QED
    BY <2>1, <2>2, <2>3
<1>13. PastsClosed'
  <2> SUFFICES ASSUME NEW f \in Emitted \cup {e}, NEW g \in Emitted \cup {e},
                      f.seq <= g.vc[f.src]
               PROVE  LeqClock(f.vc, g.vc)
    BY <1>1 DEF PastsClosed
  <2>1. CASE f = e
    <3>1. g = e
      BY <2>1, <1>2, <1>3, <1>5
    <3> QED
      BY <2>1, <3>1, <1>3 DEF LeqClock, Clock
  <2>2. CASE f # e /\ g = e
    BY <2>2, <1>6, <1>7
  <2>3. CASE f # e /\ g # e
    BY <2>3 DEF PastsClosed
  <2> QED
    BY <2>1, <2>2, <2>3
<1>14. PastsAcyclic'
  <2> SUFFICES ASSUME NEW f \in Emitted \cup {e}, NEW g \in Emitted \cup {e},
                      f # g, f.seq <= g.vc[f.src], g.seq <= f.vc[g.src]
               PROVE  FALSE
    BY <1>1 DEF PastsAcyclic
  <2>1. f # e /\ g # e
    BY <1>2, <1>3, <1>5
  <2> QED
    BY <2>1 DEF PastsAcyclic
<1>15. LogBehindClock'
  <2> SUFFICES ASSUME NEW m \in Node, NEW f \in Events(log'[m])
               PROVE  LeqClock(f.vc, clock'[m])
    BY DEF LogBehindClock
  <2>1. CASE m # n
    BY <2>1, <1>2, <1>4 DEF LogBehindClock
  <2>2. CASE m = n /\ f = e
    BY <2>2, <1>3, <1>4 DEF LeqClock
  <2>3. CASE m = n /\ f # e
    BY <2>3, <1>2, <1>3, <1>4 DEF LogBehindClock, LeqClock
  <2> QED
    BY <2>1, <2>2, <2>3
<1> QED
  BY <1>8, <1>9, <1>10, <1>11, <1>12, <1>13, <1>14, <1>15

\* Taking events in keeps the invariant: each entry of the new clock comes from
\* a clock that was closed.
LEMMA AbsorbKeeps ==
    ASSUME RInv, NEW n \in Node, NEW S, Absorbs(n, S)
    PROVE  RInv'
<1> USE DEF RInv
<1>1. TypeOK /\ Emitted' = Emitted
  BY EmittedStays
<1>2. /\ S \subseteq Emitted /\ seq' = seq
      /\ clock' \in [Node -> Clock]
      /\ \A m \in Node \ {n} : clock'[m] = clock[m]
      /\ \A k \in Node : /\ \/ clock'[n][k] = clock[n][k]
                            \/ \E e \in S : clock'[n][k] = e.vc[k]
                         /\ clock[n][k] <= clock'[n][k]
                         /\ \A e \in S : e.vc[k] <= clock'[n][k]
      /\ DOMAIN log' = Node
      /\ \A m \in Node \ {n} : log'[m] = log[m]
      /\ Events(log'[n]) \subseteq Events(log[n]) \cup S
  BY DEF Absorbs
<1>3. /\ \A m \in Node : seq[m] \in Nat
      /\ \A m, k \in Node : clock[m][k] \in Nat /\ clock'[m][k] \in Nat
      /\ \A f \in Emitted : /\ f \in EventType /\ f.src \in Node /\ f.seq \in Nat
                            /\ \A k \in Node : f.vc[k] \in Nat
      /\ \A m \in Node : Events(log[m]) \subseteq Emitted
  BY <1>1, <1>2, Types, EmissionBounds DEF EventType, Clock
<1>4. TypeOK'
  <2>1. \A m \in Node : Events(log'[m]) \subseteq EventType
    BY <1>2, <1>3
  <2> QED
    BY <1>2, <2>1 DEF TypeOK, Clock
<1>5. OwnEntryIsSeq'
  <2>1. \A k \in Node : clock'[n][k] <= seq[k]
    BY <1>2, <1>3 DEF OwnEntryIsSeq, EventsCounted
  <2>2. clock'[n][n] = seq[n]
    <3>1. clock[n][n] = seq[n] /\ clock[n][n] <= clock'[n][n]
          /\ clock'[n][n] <= seq[n]
      BY <2>1, <1>2 DEF OwnEntryIsSeq
    <3> QED
      BY <3>1, <1>3
  <2>3. \A m \in Node : m # n => clock'[m] = clock[m]
    BY <1>2
  <2> QED
    BY <2>1, <2>2, <2>3, <1>2 DEF OwnEntryIsSeq
<1>6. EventsCounted' /\ NamesAreUnique' /\ PastsClosed' /\ PastsAcyclic'
  BY <1>1, <1>2 DEF EventsCounted, NamesAreUnique, PastsClosed, PastsAcyclic
<1>7. ClocksClosed'
  <2> SUFFICES ASSUME NEW m \in Node, NEW f \in Emitted, f.seq <= clock'[m][f.src]
               PROVE  LeqClock(f.vc, clock'[m])
    BY <1>1 DEF ClocksClosed
  <2>1. CASE m # n
    BY <2>1, <1>2 DEF ClocksClosed
  <2>2. CASE m = n /\ f.seq <= clock[n][f.src]
    <3>1. LeqClock(f.vc, clock[n])
      BY <2>2 DEF ClocksClosed
    <3> QED
      BY <2>2, <3>1, <1>2, <1>3 DEF LeqClock
  <2>3. ASSUME NEW e \in S, m = n, f.seq <= e.vc[f.src]
        PROVE  LeqClock(f.vc, clock'[m])
    <3>1. LeqClock(f.vc, e.vc) /\ e \in Emitted
      BY <2>3, <1>2 DEF PastsClosed
    <3> QED
      BY <2>3, <3>1, <1>2, <1>3 DEF LeqClock
  <2> QED
    BY <2>1, <2>2, <2>3, <1>2, <1>3
<1>8. LogBehindClock'
  <2> SUFFICES ASSUME NEW m \in Node, NEW f \in Events(log'[m])
               PROVE  LeqClock(f.vc, clock'[m])
    BY DEF LogBehindClock
  <2>1. CASE m # n
    BY <2>1, <1>2 DEF LogBehindClock
  <2>2. CASE m = n /\ f \in Events(log[n])
    BY <2>2, <1>2, <1>3 DEF LogBehindClock, LeqClock
  <2>3. CASE m = n /\ f \in S
    BY <2>3, <1>2 DEF LeqClock
  <2> QED
    BY <2>1, <2>2, <2>3, <1>2
<1> QED
  BY <1>4, <1>5, <1>6, <1>7, <1>8

\* The invariant holds in every reachable state.
LEMMA RuntimeInvariant == Spec => []RInv
<1>1. Init => RInv
  <2> SUFFICES ASSUME Init PROVE RInv
    OBVIOUS
  <2>1. Emitted = {} /\ \A n \in Node : Events(log[n]) = {}
    BY DEF Init, Emitted, Events, EmptyLog
  <2>2. TypeOK
    BY <2>1, EmissionBounds DEF Init, TypeOK, ZeroClock
  <2>3. OwnEntryIsSeq
    BY DEF Init, OwnEntryIsSeq, ZeroClock
  <2> QED
    BY <2>1, <2>2, <2>3
       DEF RInv, EventsCounted, NamesAreUnique, ClocksClosed, PastsClosed,
           PastsAcyclic, LogBehindClock
<1>2. RInv /\ [Next]_vars => RInv'
  <2> SUFFICES ASSUME RInv, [Next]_vars PROVE RInv'
    OBVIOUS
  <2>1. CASE Next
    BY <2>1, NextShape, EmitKeeps, AbsorbKeeps DEF RInv
  <2>2. CASE UNCHANGED vars
    <3>1. clock' = clock /\ seq' = seq /\ log' = log /\ Emitted' = Emitted
      BY <2>2 DEF vars, Emitted
    <3>2. TypeOK' /\ OwnEntryIsSeq' /\ LogBehindClock'
      BY <3>1 DEF RInv, TypeOK, OwnEntryIsSeq, LogBehindClock
    <3>3. EventsCounted' /\ NamesAreUnique' /\ ClocksClosed'
      BY <3>1 DEF RInv, EventsCounted, NamesAreUnique, ClocksClosed
    <3>4. PastsClosed' /\ PastsAcyclic'
      BY <3>1 DEF RInv, PastsClosed, PastsAcyclic
    <3> QED
      BY <3>2, <3>3, <3>4 DEF RInv
  <2> QED
    BY <2>1, <2>2
<1> QED
  BY <1>1, <1>2, PTL DEF Spec

-----------------------------------------------------------------------------
(* The theorems.                                                           *)

\* Vector clocks order events exactly by who knew of whom.
THEOREM ClocksAreExact == Spec => []ClockOrderIsCausality
<1>1. RInv => ClockOrderIsCausality
  <2> SUFFICES ASSUME RInv, NEW e \in Emitted, NEW f \in Emitted
               PROVE  HappensBefore(e, f) <=> (e # f /\ e.seq <= f.vc[e.src])
    BY DEF ClockOrderIsCausality
  <2>1. /\ e.src \in Node /\ f.src \in Node /\ e.seq \in Nat /\ f.seq \in Nat
        /\ \A k \in Node : e.vc[k] \in Nat /\ f.vc[k] \in Nat
    BY Types, EmissionBounds DEF RInv, EventType, Clock
  <2>2. e.vc[e.src] = e.seq /\ f.vc[f.src] = f.seq
    BY DEF RInv, EventsCounted
  <2>3. ASSUME HappensBefore(e, f) PROVE e # f /\ e.seq <= f.vc[e.src]
    BY <2>1, <2>2, <2>3 DEF HappensBefore, LeqClock
  <2>4. ASSUME e # f, e.seq <= f.vc[e.src] PROVE HappensBefore(e, f)
    <3>1. LeqClock(e.vc, f.vc)
      BY <2>4 DEF RInv, PastsClosed
    <3>2. ~(f.seq <= e.vc[f.src])
      BY <2>4 DEF RInv, PastsAcyclic
    <3>3. e.vc[f.src] < f.vc[f.src]
      BY <3>2, <2>1, <2>2
    <3> QED
      BY <3>1, <3>3, <2>1 DEF HappensBefore
  <2> QED
    BY <2>3, <2>4
<1> QED
  BY <1>1, RuntimeInvariant, PTL

\* A clock covers its log, the two counters of emit() agree and names identify
\* events: three parts of the inductive invariant.
THEOREM ClocksMatchLogs == Spec => []LogsMatchClocks
<1>1. RInv => LogsMatchClocks
  BY DEF RInv, LogsMatchClocks
<1> QED
  BY <1>1, RuntimeInvariant, PTL

\* Types are kept.
THEOREM RuntimeTypes == Spec => []TypeOK
<1>1. RInv => TypeOK
  BY DEF RInv
<1> QED
  BY <1>1, RuntimeInvariant, PTL

\* No call removes an event from a log or moves one, under any policy.
THEOREM LogsOnlyGrow == Spec => LogsGrowAtTheEnd
<1>1. RInv /\ [Next]_vars =>
        [ \A n \in Node :
            /\ Events(log[n]) \subseteq Events(log'[n])
            /\ \A e \in Events(log[n]) : log'[n][e] = log[n][e] ]_vars
  <2> SUFFICES ASSUME RInv, Next, NEW m \in Node
               PROVE  /\ Events(log[m]) \subseteq Events(log'[m])
                      /\ \A e \in Events(log[m]) : log'[m][e] = log[m][e]
    OBVIOUS
  <2>1. PICK n \in Node : (\E e : Emits(n, e)) \/ (\E S : Absorbs(n, S))
    BY NextShape DEF RInv
  <2>2. \A e : Emits(n, e) =>
           /\ Events(log[m]) \subseteq Events(log'[m])
           /\ \A f \in Events(log[m]) : log'[m][f] = log[m][f]
    BY DEF Emits
  <2>3. \A S : Absorbs(n, S) =>
           /\ Events(log[m]) \subseteq Events(log'[m])
           /\ \A f \in Events(log[m]) : log'[m][f] = log[m][f]
    BY DEF Absorbs
  <2> QED
    BY <2>1, <2>2, <2>3
<1> QED
  BY <1>1, RuntimeInvariant, PTL DEF Spec, LogsGrowAtTheEnd

-----------------------------------------------------------------------------
(* What the abstract specification promises, of variables of its own and   *)
(* for all sets of runtimes and names: happened-before is a strict partial *)
(* order and knowledge is closed under it.                                 *)

CONSTANT Name

VARIABLES past, known

Promise == INSTANCE CausalHistory

HInv == Promise!TypeOK /\ Promise!StrictOrder /\ Promise!KnownClosed

\* A new event is above everything its source knows and below nothing.
LEMMA PromiseEmitKeeps ==
    ASSUME HInv, NEW n \in Node, Promise!Emit(n)
    PROVE  HInv'
<1>1. PICK k \in Name :
          /\ <<n, k>> \notin DOMAIN past
          /\ past' = [f \in DOMAIN past \cup {<<n, k>>} |->
                        IF f = <<n, k>> THEN known[n] ELSE past[f]]
          /\ known' = [known EXCEPT ![n] = @ \cup {<<n, k>>}]
  BY DEF Promise!Emit
<1> DEFINE e == <<n, k>>
<1>2. e \in Promise!EventId
  BY DEF Promise!EventId
<1> HIDE DEF e
<1>3. /\ e \notin DOMAIN past
      /\ DOMAIN past' = DOMAIN past \cup {e}
      /\ past'[e] = known[n]
      /\ \A f \in DOMAIN past : past'[f] = past[f]
      /\ past' = [f \in DOMAIN past' |-> past'[f]]
      /\ known' = [known EXCEPT ![n] = @ \cup {e}]
  BY <1>1 DEF e
<1>4. /\ known[n] \subseteq DOMAIN past
      /\ \A f \in DOMAIN past : past[f] \subseteq DOMAIN past
      /\ \A m \in Node : known[m] \subseteq DOMAIN past
      /\ DOMAIN known = Node
  BY DEF HInv, Promise!TypeOK
<1>5. \A m \in Node : known'[m] = IF m = n THEN known[m] \cup {e} ELSE known[m]
  BY <1>3, <1>4
<1>6. Promise!TypeOK'
  <2>1. DOMAIN past' \subseteq Promise!EventId
    BY <1>2, <1>3 DEF HInv, Promise!TypeOK
  <2>2. \A f \in DOMAIN past' : past'[f] \subseteq DOMAIN past'
    BY <1>3, <1>4
  <2>3. past' \in [DOMAIN past' -> SUBSET DOMAIN past']
    BY <1>3, <2>2
  <2>4. known' \in [Node -> SUBSET DOMAIN past']
    BY <1>3, <1>4 DEF HInv, Promise!TypeOK
  <2> QED
    BY <2>1, <2>3, <2>4 DEF Promise!TypeOK
<1>7. Promise!StrictOrder'
  <2>1. ASSUME NEW f \in DOMAIN past'
        PROVE  f \notin past'[f] /\ \A g \in past'[f] : past'[g] \subseteq past'[f]
    <3>1. CASE f = e
      BY <3>1, <1>3, <1>4 DEF HInv, Promise!KnownClosed
    <3>2. CASE f # e
      BY <3>2, <1>3, <1>4 DEF HInv, Promise!StrictOrder
    <3> QED
      BY <3>1, <3>2
  <2> QED
    BY <2>1 DEF Promise!StrictOrder
<1>8. Promise!KnownClosed'
  BY <1>3, <1>4, <1>5 DEF HInv, Promise!KnownClosed
<1> QED
  BY <1>6, <1>7, <1>8 DEF HInv

\* Learning an event together with its past keeps knowledge closed.
LEMMA PromiseLearnKeeps ==
    ASSUME HInv, NEW n \in Node, NEW S, Promise!Learn(n, S)
    PROVE  HInv'
<1>1. /\ S \subseteq DOMAIN past /\ past' = past
      /\ known' = [known EXCEPT ![n] = @ \cup S \cup UNION {past[e] : e \in S}]
  BY DEF Promise!Learn
<1>2. /\ \A f \in DOMAIN past : past[f] \subseteq DOMAIN past
      /\ known \in [Node -> SUBSET DOMAIN past]
  BY DEF HInv, Promise!TypeOK
<1>3. UNION {past[e] : e \in S} \subseteq DOMAIN past
  BY <1>1, <1>2
<1>4. Promise!TypeOK'
  BY <1>1, <1>2, <1>3 DEF HInv, Promise!TypeOK
<1>5. Promise!StrictOrder'
  BY <1>1 DEF HInv, Promise!StrictOrder
<1>6. Promise!KnownClosed'
  <2>1. ASSUME NEW m \in Node, NEW e \in known'[m] PROVE past[e] \subseteq known'[m]
    <3>1. CASE m # n
      BY <3>1, <2>1, <1>1, <1>2 DEF HInv, Promise!KnownClosed
    <3>2. CASE m = n
      <4>1. known'[n] = known[n] \cup S \cup UNION {past[f] : f \in S}
        BY <1>1, <1>2
      <4>2. CASE e \in known[n]
        BY <3>2, <4>1, <4>2 DEF HInv, Promise!KnownClosed
      <4>3. CASE e \in S
        BY <3>2, <4>1, <4>3
      <4>4. ASSUME NEW f \in S, e \in past[f] PROVE past[e] \subseteq known'[n]
        <5>1. past[e] \subseteq past[f]
          BY <4>4, <1>1 DEF HInv, Promise!StrictOrder
        <5> QED
          BY <4>1, <5>1
      <4> QED
        BY <2>1, <3>2, <4>1, <4>2, <4>3, <4>4
    <3> QED
      BY <3>1, <3>2
  <2> QED
    BY <2>1, <1>1 DEF Promise!KnownClosed
<1> QED
  BY <1>4, <1>5, <1>6 DEF HInv

\* The typing, order and closure invariants hold in every reachable state.
LEMMA HistoryInvariant == Promise!Spec => []HInv
<1>1. Promise!Init => HInv
  BY DEF Promise!Init, HInv, Promise!TypeOK, Promise!StrictOrder, Promise!KnownClosed
<1>2. HInv /\ [Promise!Next]_(Promise!vars) => HInv'
  <2> SUFFICES ASSUME HInv, [Promise!Next]_(Promise!vars) PROVE HInv'
    OBVIOUS
  <2>1. CASE UNCHANGED Promise!vars
    BY <2>1 DEF Promise!vars, HInv, Promise!TypeOK, Promise!StrictOrder, Promise!KnownClosed
  <2> QED
    BY <2>1, PromiseEmitKeeps, PromiseLearnKeeps DEF Promise!Next
<1> QED
  BY <1>1, <1>2, PTL DEF Promise!Spec

\* Happened-before never contradicts itself: no event is its own cause and the
\* causes of causes are causes.
THEOREM HappenedBeforeIsStrictOrder == Promise!Spec => []Promise!StrictOrder
<1>1. HInv => Promise!StrictOrder
  BY DEF HInv
<1> QED
  BY <1>1, HistoryInvariant, PTL

\* A runtime that knows of an event knows of its causes.
THEOREM KnowledgeIsClosed == Promise!Spec => []Promise!KnownClosed
<1>1. HInv => Promise!KnownClosed
  BY DEF HInv
<1> QED
  BY <1>1, HistoryInvariant, PTL

-----------------------------------------------------------------------------
(* The clocks implement causal histories.                                  *)

Ids == {Id(e) : e \in Emitted}

Pasts == [id \in Ids |-> PastOf(id)]

Knowledge == [n \in Node |-> KnownTo(n)]

\* The past of an event, read off its clock, among the events of E.
PastByClock(E, e) ==
    {Id(g) : g \in {f \in E : Id(f) # Id(e) /\ f.seq <= e.vc[f.src]}}

\* Where names are unique, the name of an event leads back to the event.
LEMMA PastAmong ==
    ASSUME NEW E, NEW e \in E, \A f, g \in E : Id(f) = Id(g) => f = g
    PROVE  (LET c == CHOOSE f \in E : Id(f) = Id(e)
            IN  {Id(f) : f \in {g \in E : Id(g) # Id(e) /\ g.seq <= c.vc[g.src]}})
           = PastByClock(E, e)
<1> DEFINE c == CHOOSE f \in E : Id(f) = Id(e)
<1>1. c \in E /\ Id(c) = Id(e)
  OBVIOUS
<1> HIDE DEF c
<1>2. c = e
  BY <1>1
<1>3. {Id(f) : f \in {g \in E : Id(g) # Id(e) /\ g.seq <= c.vc[g.src]}}
        = PastByClock(E, e)
  BY <1>2 DEF PastByClock
<1> QED
  BY <1>3 DEF c

\* What PastOf says of a name, before a step and after it.
LEMMA PastOfEvent ==
    ASSUME NamesAreUnique
    PROVE  \A e \in Emitted : PastOf(Id(e)) = PastByClock(Emitted, e)
BY PastAmong DEF PastOf, NamesAreUnique

\* The same after a step.
LEMMA PastOfEventNext ==
    ASSUME NamesAreUnique'
    PROVE  \A e \in Emitted' : \A id : id = Id(e) => PastOf(id)' = PastByClock(Emitted', e)
BY PastAmong DEF PastOf, NamesAreUnique

\* An emission is an abstract emission.
LEMMA EmitRefines ==
    ASSUME RInv, NEW n \in Node, NEW e, Emits(n, e)
    PROVE  History!Emit(n)
<1> USE DEF RInv
<1>1. RInv' /\ TypeOK /\ Emitted' = Emitted \cup {e}
  BY EmitKeeps, EmittedGrows
<1>2. /\ e \in EventType /\ e.src = n /\ e.seq = seq[n] + 1
      /\ e.vc = [clock[n] EXCEPT ![n] = @ + 1]
      /\ clock' = [clock EXCEPT ![n] = e.vc]
  BY DEF Emits
<1>3. /\ \A m \in Node : seq[m] \in Nat
      /\ \A m, k \in Node : clock[m][k] \in Nat
      /\ \A f \in Emitted : /\ f.src \in Node /\ f.seq \in Nat
                            /\ \A k \in Node : f.vc[k] \in Nat
      /\ clock[n] \in Clock /\ e.seq \in 1 .. MaxSeq
  BY <1>1, <1>2, Types, EmissionBounds DEF EventType, Clock
<1>4. /\ e.vc[n] = e.seq
      /\ \A k \in Node \ {n} : e.vc[k] = clock[n][k]
      /\ clock'[n] = e.vc /\ \A m \in Node \ {n} : clock'[m] = clock[m]
      /\ clock[n][n] = seq[n]
  BY <1>2, <1>3 DEF OwnEntryIsSeq, TypeOK, Clock
<1>5. /\ \A m \in Node \ {n} : clock[m][n] < e.seq
      /\ \A f \in Emitted : f.vc[n] < e.seq /\ (f.src = n => f.seq <= seq[n])
      /\ e \notin Emitted
  BY <1>2, <1>3 DEF OwnEntryIsSeq, EventsCounted
<1>6. Id(e) \notin Ids /\ Ids' = Ids \cup {Id(e)}
  <2>1. \A f \in Emitted : Id(f) # Id(e)
    BY <1>2, <1>3, <1>5 DEF Id
  <2> QED
    BY <2>1, <1>1 DEF Ids
<1>7. \A f \in Emitted : f.seq <= e.vc[f.src] <=> f.seq <= clock[n][f.src]
  BY <1>2, <1>3, <1>4, <1>5
<1>8. \A f \in Emitted : Id(f) # Id(e)
  BY <1>6 DEF Ids
<1>9. \A id : id = Id(e) => PastOf(id)' = KnownTo(n)
  <2>1. PastByClock(Emitted', e)
          = {Id(g) : g \in {f \in Emitted : f.seq <= e.vc[f.src]}}
    BY <1>1, <1>8 DEF PastByClock
  <2> QED
    BY <2>1, <1>1, <1>7, PastOfEventNext DEF KnownTo
<1>10. \A f \in Emitted : \A id : id = Id(f) => PastOf(id)' = PastOf(id)
  <2> SUFFICES ASSUME NEW f \in Emitted
               PROVE  \A id : id = Id(f) => PastOf(id)' = PastOf(id)
    OBVIOUS
  <2>1. \A id : id = Id(f) => /\ PastOf(id)' = PastByClock(Emitted', f)
                              /\ PastOf(id) = PastByClock(Emitted, f)
    BY <1>1, PastOfEvent, PastOfEventNext
  <2>2. ~(e.seq <= f.vc[e.src])
    BY <1>2, <1>3, <1>5
  <2>3. PastByClock(Emitted', f) = PastByClock(Emitted, f)
    BY <2>2, <1>1 DEF PastByClock
  <2> QED
    BY <2>1, <2>3
<1>11. KnownTo(n)' = KnownTo(n) \cup {Id(e)}
  BY <1>1, <1>2, <1>3, <1>4, <1>7 DEF KnownTo
<1>12. \A m \in Node \ {n} : KnownTo(m)' = KnownTo(m)
  BY <1>1, <1>2, <1>3, <1>4, <1>5 DEF KnownTo
<1>13. Knowledge' = [Knowledge EXCEPT ![n] = @ \cup {Id(e)}]
  BY <1>11, <1>12 DEF Knowledge
<1>14. Pasts' = [id \in Ids \cup {Id(e)} |->
                   IF id = Id(e) THEN KnownTo(n) ELSE Pasts[id]]
  <2>1. \A id \in Ids : PastOf(id)' = PastOf(id)
    BY <1>10 DEF Ids
  <2> QED
    BY <2>1, <1>6, <1>9 DEF Pasts
<1>15. Id(e) = <<n, e.seq>> /\ Knowledge[n] = KnownTo(n) /\ DOMAIN Pasts = Ids
  BY <1>2 DEF Id, Knowledge, Pasts
<1> DEFINE id == <<n, e.seq>>
<1>16. /\ id \notin DOMAIN Pasts
       /\ Pasts' = [i \in DOMAIN Pasts \cup {id} |->
                      IF i = id THEN Knowledge[n] ELSE Pasts[i]]
       /\ Knowledge' = [Knowledge EXCEPT ![n] = @ \cup {id}]
  BY <1>6, <1>13, <1>14, <1>15
<1> QED
  BY <1>3, <1>16 DEF History!Emit, Pasts, Knowledge, Ids

\* Taking events in is learning them.
LEMMA AbsorbRefines ==
    ASSUME RInv, NEW n \in Node, NEW S, Absorbs(n, S)
    PROVE  \E T \in SUBSET Ids : History!Learn(n, T)
<1> USE DEF RInv
<1> DEFINE T == {Id(e) : e \in S}
<1>1. RInv' /\ TypeOK /\ Emitted' = Emitted
  BY AbsorbKeeps, EmittedStays
<1>2. /\ S \subseteq Emitted
      /\ \A m \in Node \ {n} : clock'[m] = clock[m]
      /\ \A k \in Node : /\ \/ clock'[n][k] = clock[n][k]
                            \/ \E e \in S : clock'[n][k] = e.vc[k]
                         /\ clock[n][k] <= clock'[n][k]
                         /\ \A e \in S : e.vc[k] <= clock'[n][k]
  BY DEF Absorbs
<1>3. /\ \A m, k \in Node : clock[m][k] \in Nat /\ clock'[m][k] \in Nat
      /\ \A f \in Emitted : /\ f.src \in Node /\ f.seq \in Nat
                            /\ \A k \in Node : f.vc[k] \in Nat
  BY <1>1, Types, EmissionBounds DEF EventType, Clock, Absorbs
<1>4. Ids' = Ids /\ T \subseteq Ids
  BY <1>1, <1>2 DEF Ids
<1>5. Pasts' = Pasts
  <2>1. \A id \in Ids : PastOf(id)' = PastOf(id)
    BY <1>1 DEF PastOf
  <2> QED
    BY <2>1, <1>4 DEF Pasts
<1>6. \A m \in Node \ {n} : KnownTo(m)' = KnownTo(m)
  BY <1>1, <1>2 DEF KnownTo
<1>7. \A e \in S : Pasts[Id(e)] = PastByClock(Emitted, e)
  BY <1>2, PastOfEvent DEF Pasts, Ids
<1>8. KnownTo(n)' = KnownTo(n) \cup T \cup UNION {Pasts[id] : id \in T}
  <2>1. UNION {Pasts[id] : id \in T} = UNION {PastByClock(Emitted, e) : e \in S}
    BY <1>7
  <2>2. KnownTo(n)' \subseteq KnownTo(n) \cup T \cup UNION {PastByClock(Emitted, e) : e \in S}
    <3> SUFFICES ASSUME NEW f \in Emitted, f.seq <= clock'[n][f.src]
                 PROVE  Id(f) \in KnownTo(n) \cup T \cup UNION {PastByClock(Emitted, e) : e \in S}
      BY <1>1 DEF KnownTo
    <3>1. CASE f.seq <= clock[n][f.src]
      BY <3>1 DEF KnownTo
    <3>2. ASSUME NEW e \in S, f.seq <= e.vc[f.src]
          PROVE  Id(f) \in T \cup PastByClock(Emitted, e)
      <4>1. CASE Id(f) = Id(e)
        BY <4>1
      <4>2. CASE Id(f) # Id(e)
        BY <3>2, <4>2 DEF PastByClock
      <4> QED
        BY <4>1, <4>2
    <3> QED
      BY <3>1, <3>2, <1>2, <1>3
  <2>3. KnownTo(n) \subseteq KnownTo(n)'
    BY <1>1, <1>2, <1>3 DEF KnownTo
  <2>4. ASSUME NEW e \in S PROVE Id(e) \in KnownTo(n)'
    <3>1. e \in Emitted /\ e.vc[e.src] = e.seq /\ e.vc[e.src] <= clock'[n][e.src]
      BY <1>2, <1>3 DEF EventsCounted
    <3> QED
      BY <3>1, <1>1 DEF KnownTo
  <2>5. ASSUME NEW e \in S PROVE PastByClock(Emitted, e) \subseteq KnownTo(n)'
    <3> SUFFICES ASSUME NEW f \in Emitted, f.seq <= e.vc[f.src]
                 PROVE  Id(f) \in KnownTo(n)'
      BY DEF PastByClock
    <3>1. f.seq <= clock'[n][f.src]
      BY <1>2, <1>3
    <3> QED
      BY <3>1, <1>1 DEF KnownTo
  <2> QED
    BY <2>1, <2>2, <2>3, <2>4, <2>5
<1> HIDE DEF T
<1>9. Knowledge' = [Knowledge EXCEPT ![n] = @ \cup T \cup UNION {Pasts[id] : id \in T}]
  BY <1>6, <1>8 DEF Knowledge
<1>10. DOMAIN Pasts = Ids
  BY DEF Pasts
<1>11. History!Learn(n, T)
  BY <1>4, <1>5, <1>9, <1>10 DEF History!Learn, Pasts, Knowledge, Ids
<1> QED
  BY <1>4, <1>11

\* The distributed layer implements causal histories, for every number of
\* runtimes and every mix of receipts, merges and policies.
THEOREM Refinement == Spec => ClocksImplementHistories
<1>1. Init => History!Init
  <2> SUFFICES ASSUME Init PROVE History!Init
    OBVIOUS
  <2>1. Emitted = {}
    BY DEF Init, Emitted, Events, EmptyLog
  <2>2. Ids = {} /\ \A n \in Node : KnownTo(n) = {}
    BY <2>1 DEF Ids, KnownTo
  <2>3. Pasts = [e \in {} |-> {}] /\ Knowledge = [n \in Node |-> {}]
    BY <2>2 DEF Pasts, Knowledge
  <2> QED
    BY <2>3 DEF History!Init, Pasts, Knowledge, Ids
<1>2. RInv /\ [Next]_vars => [History!Next]_(History!vars)
  <2> SUFFICES ASSUME RInv, [Next]_vars PROVE [History!Next]_(History!vars)
    OBVIOUS
  <2>1. CASE Next
    <3>1. PICK n \in Node : (\E e : Emits(n, e)) \/ (\E S : Absorbs(n, S))
      BY <2>1, NextShape DEF RInv
    <3>2. DOMAIN Pasts = Ids
      BY DEF Pasts
    <3> QED
      BY <3>1, <3>2, EmitRefines, AbsorbRefines DEF History!Next, Pasts, Ids
  <2>2. CASE UNCHANGED vars
    BY <2>2 DEF vars, History!vars, Emitted, KnownTo, PastOf
  <2> QED
    BY <2>1, <2>2
<1> QED
  BY <1>1, <1>2, RuntimeInvariant, PTL DEF Spec, ClocksImplementHistories, History!Spec

-----------------------------------------------------------------------------
(* Positions in a log.                                                     *)

\* L is finite and no two of its events have one position.
Ordered(L) ==
    /\ IsFiniteSet(Events(L))
    /\ \A e \in Events(L) : L[e] \in 1 .. Size(L)
    /\ \A e, f \in Events(L) : L[e] = L[f] => e = f

\* The position that the events of S have among themselves.
LEMMA KeptOrdered ==
    ASSUME NEW L, Ordered(L), NEW S \in SUBSET Events(L)
    PROVE  /\ Ordered(Kept(L, S))
           /\ Events(Kept(L, S)) = S
<1> DEFINE Upto(e) == {f \in S : L[f] <= L[e]}
<1>1. IsFiniteSet(S) /\ \A e \in S : L[e] \in Nat
  BY FS_Subset DEF Ordered
<1>2. Kept(L, S) = [e \in S |-> Cardinality(Upto(e))]
  BY DEF Kept
<1>3. Events(Kept(L, S)) = S
  BY <1>2 DEF Events
<1>4. ASSUME NEW e \in S
      PROVE  IsFiniteSet(Upto(e)) /\ Cardinality(Upto(e)) \in 1 .. Cardinality(S)
  <2>1. Upto(e) \in SUBSET S /\ e \in Upto(e)
    BY <1>1
  <2> HIDE DEF Upto
  <2>2. IsFiniteSet(Upto(e)) /\ Cardinality(Upto(e)) <= Cardinality(S)
    BY <1>1, <2>1, FS_Subset
  <2>3. Cardinality(Upto(e)) \in Nat /\ Cardinality(S) \in Nat
    BY <1>1, <2>2, FS_CardinalityType
  <2>4. Cardinality(Upto(e)) # 0
    BY <2>1, <2>2, FS_EmptySet
  <2> QED
    BY <2>2, <2>3, <2>4
<1>5. ASSUME NEW e \in S, NEW f \in S, L[e] <= L[f],
             Cardinality(Upto(e)) = Cardinality(Upto(f))
      PROVE  e = f
  <2>1. Upto(e) \in SUBSET Upto(f) /\ f \in Upto(f)
    BY <1>1, <1>5
  <2>2. Upto(e) = Upto(f)
    BY <1>4, <1>5, <2>1, FS_Subset
  <2>3. L[f] <= L[e]
    BY <2>1, <2>2
  <2>4. L[e] = L[f]
    BY <1>1, <1>5, <2>3
  <2> QED
    BY <2>4 DEF Ordered
<1> HIDE DEF Upto
<1>6. \A e, f \in S : Kept(L, S)[e] = Kept(L, S)[f] => e = f
  <2> SUFFICES ASSUME NEW e \in S, NEW f \in S,
                      Cardinality(Upto(e)) = Cardinality(Upto(f))
               PROVE  e = f
    BY <1>2
  <2>1. L[e] <= L[f] \/ L[f] <= L[e]
    BY <1>1
  <2> QED
    BY <1>5, <2>1
<1>7. \A e \in S : Kept(L, S)[e] \in 1 .. Size(Kept(L, S))
  BY <1>2, <1>3, <1>4 DEF Size
<1> QED
  BY <1>1, <1>3, <1>6, <1>7 DEF Ordered

\* {**L, **M} numbers the events of M after those of L.
LEMMA UnionOrdered ==
    ASSUME NEW L, NEW M, Ordered(L), Ordered(M)
    PROVE  Ordered(Union(L, M))
<1> DEFINE new == Events(M) \ Events(L)
           K == Kept(M, new)
<1>1. Ordered(K) /\ Events(K) = new
  BY KeptOrdered
<1>2. Events(Union(L, M)) = Events(L) \cup new
  BY DEF Union, Events
<1>3. \A e \in Events(L) : Union(L, M)[e] = L[e]
  BY UnionFacts
<1>4. \A e \in new : Union(L, M)[e] = Size(L) + K[e]
  BY DEF Union, Kept, Events
<1>5. /\ Size(L) \in Nat /\ Size(K) \in Nat
      /\ IsFiniteSet(Events(L) \cup new)
      /\ Size(Union(L, M)) = Size(L) + Size(K)
  <2>1. IsFiniteSet(Events(L)) /\ IsFiniteSet(new)
    BY <1>1 DEF Ordered
  <2>2. Events(L) \cap new = {}
    OBVIOUS
  <2> HIDE DEF new, K
  <2>3. Cardinality(Events(L) \cap new) = 0
    BY <2>2, FS_EmptySet
  <2>4. Cardinality(Events(L)) \in Nat /\ Cardinality(new) \in Nat
    BY <2>1, FS_CardinalityType
  <2>5. /\ IsFiniteSet(Events(L) \cup new)
        /\ Cardinality(Events(L) \cup new)
             = Cardinality(Events(L)) + Cardinality(new) - Cardinality(Events(L) \cap new)
    BY <2>1, FS_Union
  <2> QED
    BY <1>1, <1>2, <2>3, <2>4, <2>5 DEF Size
<1>6. \A e \in Events(L) : L[e] \in 1 .. Size(L)
  BY DEF Ordered
<1>7. \A e \in new : K[e] \in 1 .. Size(K)
  BY <1>1 DEF Ordered
<1>8. \A e, f \in new : K[e] = K[f] => e = f
  BY <1>1 DEF Ordered
<1>9. \A e, f \in Events(L) : L[e] = L[f] => e = f
  BY DEF Ordered
<1> HIDE DEF new, K
<1> DEFINE U == Union(L, M)
<1>10. \A e \in Events(L) \cup new : U[e] \in 1 .. Size(U)
  BY <1>3, <1>4, <1>5, <1>6, <1>7
<1>11. ASSUME NEW e \in Events(L) \cup new, NEW f \in Events(L) \cup new, U[e] = U[f]
       PROVE  e = f
  <2>1. CASE e \in Events(L) /\ f \in Events(L)
    BY <1>11, <2>1, <1>3, <1>9
  <2>2. CASE e \in new /\ f \in new
    <3>1. K[e] = K[f]
      BY <1>11, <2>2, <1>4, <1>5, <1>7
    <3> QED
      BY <2>2, <3>1, <1>8
  <2>3. CASE e \in Events(L) /\ f \in new
    BY <1>11, <2>3, <1>3, <1>4, <1>5, <1>6, <1>7
  <2>4. CASE e \in new /\ f \in Events(L)
    BY <1>11, <2>4, <1>3, <1>4, <1>5, <1>6, <1>7
  <2> QED
    BY <2>1, <2>2, <2>3, <2>4
<1> QED
  BY <1>2, <1>5, <1>10, <1>11 DEF Ordered

\* append() numbers a new event next.
LEMMA AppendedOrdered ==
    ASSUME NEW L, Ordered(L), NEW e
    PROVE  Ordered(Appended(L, e))
<1>1. CASE e \in Events(L)
  <2>1. Events(L) \cup {e} = Events(L)
    BY <1>1
  <2>2. Size(Appended(L, e)) = Size(L)
    BY <2>1, AppendedFacts DEF Size
  <2> QED
    BY <2>1, <2>2, AppendedFacts DEF Ordered
<1>2. CASE e \notin Events(L)
  <2>1. /\ IsFiniteSet(Events(L)) /\ Size(L) \in Nat
        /\ IsFiniteSet(Events(L) \cup {e})
        /\ Cardinality(Events(L) \cup {e}) = Size(L) + 1
    BY <1>2, FS_AddElement, FS_CardinalityType DEF Ordered, Size
  <2>2. Appended(L, e)[e] = Size(L) + 1
    BY <1>2 DEF Appended, Events
  <2>3. Size(Appended(L, e)) = Size(L) + 1 /\ Events(Appended(L, e)) = Events(L) \cup {e}
    BY <2>1, AppendedFacts DEF Size
  <2>4. \A f \in Events(L) : Appended(L, e)[f] = L[f] /\ L[f] \in 1 .. Size(L)
    BY AppendedFacts DEF Ordered
  <2>5. \A f, g \in Events(L) : L[f] = L[g] => f = g
    BY DEF Ordered
  <2> QED
    BY <2>1, <2>2, <2>3, <2>4, <2>5 DEF Ordered
<1> QED
  BY <1>1, <1>2

\* Every position is some event's.
LEMMA PositionsFilled ==
    ASSUME NEW L, Ordered(L), NEW i \in 1 .. Size(L)
    PROVE  \E e \in Events(L) : L[e] = i
<1> DEFINE S == Events(L)
           f == [e \in S |-> L[e]]
<1>1. IsFiniteSet(S) /\ Size(L) = Cardinality(S) /\ Cardinality(S) \in Nat
  BY FS_CardinalityType DEF Ordered, Size
<1>2. IsFiniteSet(1 .. Size(L)) /\ Cardinality(1 .. Size(L)) = Size(L)
  BY <1>1, FS_Interval
<1>3. f \in Injection(S, 1 .. Size(L))
  <2>1. f \in [S -> 1 .. Size(L)] /\ \A a, b \in S : f[a] = f[b] => a = b
    BY DEF Ordered
  <2> QED
    BY <2>1 DEF Injection, IsInjective
<1> HIDE DEF f, S
<1>4. f \in Surjection(S, 1 .. Size(L))
  BY <1>1, <1>2, <1>3, FS_Injection
<1>5. \E e \in S : f[e] = i
  BY <1>4 DEF Surjection
<1> QED
  BY <1>5 DEF f, S

\* So the event at a position is the one whose position it is.
LEMMA EventAtFacts ==
    ASSUME NEW L, Ordered(L)
    PROVE  /\ \A e \in Events(L) : EventAt(L, L[e]) = e
           /\ \A i \in 1 .. Size(L) : EventAt(L, i) \in Events(L)
<1>1. ASSUME NEW e \in Events(L) PROVE EventAt(L, L[e]) = e
  BY DEF EventAt, Ordered
<1>2. ASSUME NEW i \in 1 .. Size(L) PROVE EventAt(L, i) \in Events(L)
  BY PositionsFilled DEF EventAt
<1> QED
  BY <1>1, <1>2

-----------------------------------------------------------------------------
(* What conflict resolution removes.                                       *)

\* Division with remainder.
LEMMA Division ==
    ASSUME NEW n \in Nat, n > 0, NEW q \in Nat, NEW r \in 0 .. n - 1
    PROVE  (n * q + r) \div n = q /\ (n * q + r) % n = r
<1>1. (n * q + r) \div n = q
  OBVIOUS
<1>2. (n * q + r) % n = r
  OBVIOUS
<1> QED
  BY <1>1, <1>2

\* In the k-th round of the two loops over n events the positions are a and b.
Meet(n, k, a, b) == ((k - 1) \div n) + 1 = a /\ ((k - 1) % n) + 1 = b

\* Every pair of positions meets.
LEMMA PairNumber ==
    ASSUME NEW n \in Nat, NEW a \in 1 .. n, NEW b \in 1 .. n
    PROVE  \E k \in 1 .. n * n : Meet(n, k, a, b)
<1>1. PICK q \in 0 .. n - 1 : a = q + 1
  <2>1. a - 1 \in 0 .. n - 1 /\ a = (a - 1) + 1
    OBVIOUS
  <2> QED
    BY <2>1
<1>2. PICK r \in 0 .. n - 1 : b = r + 1
  <2>1. b - 1 \in 0 .. n - 1 /\ b = (b - 1) + 1
    OBVIOUS
  <2> QED
    BY <2>1
<1>3. PICK x \in Nat : x = n * q + r
  <2>1. n * q + r \in Nat
    BY <1>1, <1>2
  <2> QED
    BY <2>1
<1>4. x \div n = q /\ x % n = r
  BY <1>3, Division
<1>5. x + 1 \in 1 .. n * n
  <2>1. n * q <= n * (n - 1)
    BY <1>1
  <2>2. n * (n - 1) = n * n - n
    OBVIOUS
  <2>3. n * q \in Nat /\ n * n \in Nat
    BY <1>1
  <2> QED
    BY <1>2, <1>3, <2>1, <2>2, <2>3
<1>6. (x + 1) - 1 = x
  OBVIOUS
<1> QED
  BY <1>1, <1>2, <1>4, <1>5, <1>6 DEF Meet

\* e is removed on account of f: the one that comes first in the log loses, or the
\* other does not win.
LosesTo(e, f, policy) ==
    Conflict(e, f) /\ (Loses(e, f, policy) \/ ~Loses(f, e, policy))

\* Of every two events in conflict one is removed, and an event is removed only
\* for one that it loses to.
LEMMA RemovedFacts ==
    ASSUME NEW L, Ordered(L), NEW policy
    PROVE  /\ \A e, f \in Events(L) :
                 e # f /\ Conflict(e, f) => {e, f} \cap Removed(L, policy) # {}
           /\ \A e \in Removed(L, policy) :
                 \E f \in Events(L) \ {e} : LosesTo(e, f, policy)
<1> DEFINE n == Size(L)
           S == Events(L)
           e1(k) == EventAt(L, ((k - 1) \div n) + 1)
           e2(k) == EventAt(L, ((k - 1) % n) + 1)
           meets(k, D) == L[e1(k)] < L[e2(k)] /\ {e1(k), e2(k)} \cap D = {}
                          /\ Conflict(e1(k), e2(k))
           loser(k) == IF Loses(e1(k), e2(k), policy) THEN e1(k) ELSE e2(k)
           Then(k, D) == IF meets(k, D) THEN D \cup {loser(k)} ELSE D
           Is(f) == f = [k \in 0 .. n * n |-> IF k = 0 THEN {} ELSE Then(k, f[k - 1])]
           kept == CHOOSE f : Is(f)
<1>1. Removed(L, policy) = kept[n * n]
  BY DEF Removed
<1>2. n \in Nat /\ n * n \in Nat /\ IsFiniteSet(S)
  BY FS_CardinalityType DEF Ordered, Size
<1>3. \A k \in 1 .. n * n : e1(k) \in S /\ e2(k) \in S
  <2> SUFFICES ASSUME NEW k \in 1 .. n * n PROVE e1(k) \in S /\ e2(k) \in S
    OBVIOUS
  <2>1. PICK x \in Nat : x = k - 1 /\ x < n * n
    BY <1>2
  <2>2. n > 0
    <3>1. n # 0
      BY <1>2
    <3> QED
      BY <3>1, <1>2
  <2>3. x \div n \in 0 .. n - 1
    <3>1. x \div n \in Nat /\ n * (x \div n) <= x
      BY <1>2, <2>1, <2>2
    <3>2. ~(x \div n >= n)
      <4> SUFFICES ASSUME NEW d \in Nat, n * d <= x, d >= n PROVE FALSE
        BY <3>1
      <4>1. n * d >= n * n
        BY <1>2
      <4> QED
        BY <4>1, <1>2, <2>1
    <3> QED
      BY <3>1, <3>2, <1>2
  <2>4. x % n \in 0 .. n - 1
    BY <1>2, <2>1, <2>2
  <2>5. (x \div n) + 1 \in 1 .. n /\ (x % n) + 1 \in 1 .. n
    BY <2>3, <2>4, <1>2
  <2> QED
    BY <2>1, <2>5, EventAtFacts
<1>4. \A k \in 1 .. n * n : \A D \in SUBSET S : Then(k, D) \in SUBSET S
  <2> HIDE DEF e1, e2, S
  <2> QED
    BY <1>3
<1> HIDE DEF e1, e2, n, S, Then, loser, meets
<1>5. Is(kept)
  <2> DEFINE step == [p \in (1 .. n * n) \X SUBSET S |-> Then(p[1], p[2])]
  <2>1. step \in [(1 .. n * n) \X SUBSET S -> SUBSET S]
    BY <1>4
  <2>2. PICK f : Recursion(f, n * n, SUBSET S, {}, step)
    <3> HIDE DEF step
    <3>1. {} \in SUBSET S
      OBVIOUS
    <3> QED
      BY <1>2, <2>1, <3>1, PrimitiveRecursion
  <2>3. /\ f \in [0 .. n * n -> SUBSET S] /\ f[0] = {}
        /\ \A k \in 1 .. n * n : f[k] = step[<<k, f[k - 1]>>]
    BY <2>2 DEF Recursion
  <2>4. \A k \in 1 .. n * n : f[k] = Then(k, f[k - 1])
    <3> SUFFICES ASSUME NEW k \in 1 .. n * n PROVE f[k] = Then(k, f[k - 1])
      OBVIOUS
    <3>1. k - 1 \in 0 .. n * n
      BY <1>2
    <3>2. f[k - 1] \in SUBSET S
      BY <2>3, <3>1
    <3> QED
      BY <2>3, <3>2
  <2>5. Is(f)
    <3> HIDE DEF step
    <3>1. \A k \in 0 .. n * n : f[k] = IF k = 0 THEN {} ELSE Then(k, f[k - 1])
      BY <1>2, <2>3, <2>4
    <3> QED
      BY <2>3, <3>1
  <2> HIDE DEF Is
  <2> QED
    BY <2>5
<1> HIDE DEF kept
<1>6. /\ kept[0] = {}
      /\ \A k \in 1 .. n * n : kept[k] = Then(k, kept[k - 1])
  <2>1. \A k \in 0 .. n * n : kept[k] = IF k = 0 THEN {} ELSE Then(k, kept[k - 1])
    BY <1>5
  <2> HIDE DEF Is
  <2>2. 0 \in 0 .. n * n /\ \A k \in 1 .. n * n : k \in 0 .. n * n /\ k # 0
    BY <1>2
  <2> QED
    BY <2>1, <2>2
<1> HIDE DEF Is
<1> DEFINE Fair(D) == \A e \in D : \E f \in S \ {e} : LosesTo(e, f, policy)
<1>7. \A k \in 1 .. n * n : \A D : Fair(D) => Fair(Then(k, D))
  <2> SUFFICES ASSUME NEW k \in 1 .. n * n, NEW D, Fair(D), meets(k, D)
               PROVE  \E f \in S \ {loser(k)} : LosesTo(loser(k), f, policy)
    BY DEF Then
  <2>1. e1(k) \in S /\ e2(k) \in S /\ e1(k) # e2(k)
        /\ Conflict(e1(k), e2(k)) /\ Conflict(e2(k), e1(k))
    <3>1. L[e1(k)] < L[e2(k)] /\ Conflict(e1(k), e2(k))
      BY DEF meets
    <3>2. L[e1(k)] \in Nat
      BY <1>3 DEF Ordered, S
    <3>3. Conflict(e2(k), e1(k))
      BY <3>1 DEF Conflict, ConcurrentWith
    <3> QED
      BY <1>3, <3>1, <3>2, <3>3
  <2> QED
    BY <2>1 DEF loser, LosesTo
<1>8. \A i \in Nat : i <= n * n => Fair(kept[i]) /\ \A k \in 0 .. i : kept[k] \subseteq kept[i]
  <2> DEFINE T == {i \in Nat : i <= n * n =>
                      Fair(kept[i]) /\ \A k \in 0 .. i : kept[k] \subseteq kept[i]}
  <2>1. 0 \in T
    BY <1>6
  <2>2. ASSUME NEW i \in Nat, i \in T PROVE i + 1 \in T
    <3> SUFFICES ASSUME i + 1 <= n * n
                 PROVE  Fair(kept[i + 1])
                        /\ \A k \in 0 .. i + 1 : kept[k] \subseteq kept[i + 1]
      OBVIOUS
    <3>1. i + 1 \in 1 .. n * n /\ (i + 1) - 1 = i
      BY <1>2
    <3>2. kept[i + 1] = Then(i + 1, kept[i])
      BY <1>6, <3>1
    <3>3. Fair(kept[i]) /\ \A k \in 0 .. i : kept[k] \subseteq kept[i]
      <4> HIDE DEF Fair
      <4>1. i <= n * n
        BY <1>2, <3>1
      <4> QED
        BY <2>2, <4>1
    <3>4. kept[i] \subseteq kept[i + 1]
      BY <3>2 DEF Then
    <3>5. Fair(kept[i + 1])
      <4> HIDE DEF Fair
      <4> QED
        BY <1>7, <3>1, <3>2, <3>3
    <3> QED
      BY <3>1, <3>3, <3>4, <3>5
  <2> HIDE DEF T
  <2>3. Nat \subseteq T
    BY <2>1, <2>2, SetInduction
  <2> QED
    BY <2>3 DEF T
<1>9. Fair(kept[n * n]) /\ \A k \in 0 .. n * n : kept[k] \subseteq kept[n * n]
  BY <1>2, <1>8
<1>10. ASSUME NEW e \in S, NEW f \in S, Conflict(e, f), L[e] < L[f]
       PROVE  {e, f} \cap kept[n * n] # {}
  <2>1. L[e] \in 1 .. n /\ L[f] \in 1 .. n
    BY DEF Ordered, S, n
  <2>2. PICK k \in 1 .. n * n : Meet(n, k, L[e], L[f])
    <3>1. PICK a \in 1 .. n, b \in 1 .. n : a = L[e] /\ b = L[f]
      BY <2>1
    <3>2. n \in Nat
      BY <1>2
    <3>3. \E k \in 1 .. n * n : Meet(n, k, a, b)
      BY <3>2, PairNumber, Zenon
    <3> QED
      BY <3>1, <3>3
  <2>3. e1(k) = e /\ e2(k) = f
    BY <2>2, EventAtFacts DEF e1, e2, S, Meet
  <2>4. {e, f} \cap kept[k] # {}
    BY <1>6, <1>10, <2>3 DEF Then, meets, loser
  <2>5. kept[k] \subseteq kept[n * n]
    BY <1>9
  <2> QED
    BY <2>4, <2>5
<1>11. ASSUME NEW e \in S, NEW f \in S, e # f, Conflict(e, f)
       PROVE  {e, f} \cap kept[n * n] # {}
  <2>1. L[e] < L[f] \/ L[f] < L[e]
    BY <1>2, <1>11 DEF Ordered, S, n
  <2>2. Conflict(f, e)
    BY <1>11 DEF Conflict, ConcurrentWith
  <2> QED
    BY <1>10, <1>11, <2>1, <2>2
<1> QED
  BY <1>1, <1>9, <1>11 DEF S

\* A merged log, under any policy, is numbered like any other.
LEMMA MergedOrdered ==
    ASSUME NEW L, NEW M, Ordered(L), Ordered(M), NEW policy
    PROVE  /\ Ordered(Merged(L, M, policy))
           /\ policy # "KEEP_BOTH" =>
                Events(Merged(L, M, policy))
                  = (Events(L) \cup Events(M)) \ Removed(Union(L, M), policy)
<1> DEFINE U == Union(L, M)
           S == Events(U) \ Removed(U, policy)
<1>1. Ordered(U) /\ Events(U) = Events(L) \cup Events(M)
  BY UnionOrdered, UnionFacts
<1>2. Ordered(Kept(U, S)) /\ Events(Kept(U, S)) = S
  <2>1. S \in SUBSET Events(U)
    OBVIOUS
  <2> HIDE DEF U, S
  <2> QED
    BY <1>1, <2>1, KeptOrdered
<1>3. Merged(L, M, policy) = IF policy = "KEEP_BOTH" THEN U ELSE Kept(U, S)
  BY DEF Merged
<1> HIDE DEF U
<1> QED
  BY <1>1, <1>2, <1>3 DEF U

\* The logs of all runtimes are numbered without gaps or repeats.
LogsOrdered == \A n \in Node : Ordered(log[n])

\* They are so in every reachable state.
LEMMA LogsStayOrdered == Spec => []LogsOrdered
<1>1. Init => LogsOrdered
  <2>1. Events(EmptyLog) = {}
    BY DEF EmptyLog, Events
  <2>2. Ordered(EmptyLog)
    BY <2>1, FS_EmptySet DEF Ordered
  <2> QED
    BY <2>2 DEF Init, LogsOrdered
<1>2. RInv /\ LogsOrdered /\ [Next]_vars => LogsOrdered'
  <2> SUFFICES ASSUME RInv, LogsOrdered, [Next]_vars PROVE LogsOrdered'
    OBVIOUS
  <2>1. DOMAIN log = Node
    BY DEF RInv, TypeOK
  <2>2. ASSUME NEW n \in Node, NEW ks \in SUBSET Key, Emit(n, ks) PROVE LogsOrdered'
    BY <2>1, <2>2, AppendedOrdered DEF Emit, LogsOrdered
  <2>3. ASSUME NEW n \in Node, NEW e \in Emitted, Receive(n, e) PROVE LogsOrdered'
    BY <2>1, <2>3, AppendedOrdered DEF Receive, LogsOrdered
  <2>4. ASSUME NEW n \in Node, NEW m \in Node, NEW policy, Sync(n, m, policy)
        PROVE  LogsOrdered'
    <3>1. Ordered(Union(log[n], Merged(log[n], log[m], policy)))
      BY MergedOrdered, UnionOrdered DEF LogsOrdered
    <3>2. log' = [log EXCEPT ![n] = Union(log[n], Merged(log[n], log[m], policy))]
      BY <2>4 DEF Sync
    <3> QED
      BY <2>1, <3>1, <3>2 DEF LogsOrdered
  <2>5. CASE UNCHANGED vars
    BY <2>5 DEF vars, LogsOrdered
  <2> QED
    BY <2>2, <2>3, <2>4, <2>5 DEF Next
<1> QED
  BY <1>1, <1>2, RuntimeInvariant, PTL DEF Spec

\* A merge under a resolving policy leaves no two events in conflict and drops
\* an event only for one that beats it, for logs of any length.
THEOREM MergesResolve == Spec => []MergeResolves
<1>1. RInv /\ LogsOrdered => MergeResolves
  <2> SUFFICES ASSUME RInv, LogsOrdered, NEW n \in Node, NEW m \in Node,
                      NEW policy \in Resolving
               PROVE  LET all    == Events(log[n]) \cup Events(log[m])
                          merged == Events(Merged(log[n], log[m], policy))
                      IN  /\ \A e, f \in merged : e # f => ~Conflict(e, f)
                          /\ \A e \in all \ merged :
                                \E f \in all \ {e} : Beats(f, e, policy)
    BY DEF MergeResolves
  <2> DEFINE U == Union(log[n], log[m])
             all == Events(log[n]) \cup Events(log[m])
             removed == Removed(U, policy)
             merged == Events(Merged(log[n], log[m], policy))
  <2>1. Ordered(log[n]) /\ Ordered(log[m]) /\ policy # "KEEP_BOTH"
    BY DEF LogsOrdered, Resolving
  <2>2. Ordered(U) /\ Events(U) = all /\ merged = all \ removed
    BY <2>1, UnionOrdered, UnionFacts, MergedOrdered
  <2>3. /\ \A e, f \in Events(U) : e # f /\ Conflict(e, f) => {e, f} \cap removed # {}
        /\ \A e \in removed : \E f \in Events(U) \ {e} : LosesTo(e, f, policy)
    <3> HIDE DEF U
    <3> QED
      BY <2>2, RemovedFacts
  <2>4. \A e \in all : e.seq \in Nat
    BY Types, EmissionBounds DEF RInv
  <2>5. \A e, f \in all : LosesTo(e, f, policy) => Beats(f, e, policy)
    BY <2>4 DEF LosesTo, Loses, Beats, Resolving
  <2> HIDE DEF U, removed, merged, all
  <2>6. \A e, f \in merged : e # f => ~Conflict(e, f)
    BY <2>2, <2>3
  <2>7. \A e \in all \ merged : \E f \in all \ {e} : Beats(f, e, policy)
    BY <2>2, <2>3, <2>5
  <2> QED
    BY <2>6, <2>7 DEF all, merged
<1> QED
  BY <1>1, RuntimeInvariant, LogsStayOrdered, PTL

-----------------------------------------------------------------------------
(* The causal order.                                                       *)

\* What the events of a reachable log have that the order rests on:
\* happens_before is a strict order, names are unique, and the events of one
\* source happen one before the other.
Causal(S) ==
    /\ IsFiniteSet(S)
    /\ \A e \in S : e.src \in Nat /\ e.seq \in Nat
    /\ \A e \in S : ~HappensBefore(e, e)
    /\ \A e, f, g \in S : HappensBefore(e, f) /\ HappensBefore(f, g) => HappensBefore(e, g)
    /\ \A e, f \in S : HeapLess(e, f) /\ e.src = f.src => HappensBefore(e, f)
    /\ \A e, f \in S : e # f => HeapLess(e, f) \/ HeapLess(f, e)

\* e is what the heap gives when the events of D have been popped.
Popped(S, D, e) ==
    e \in Available(S, D) /\ \A f \in Available(S, D) \ {e} : HeapLess(e, f)

\* The first i rounds have popped what they should.
KahnRounds(S, s, i) ==
    /\ s \in Seq(S) /\ Len(s) = i
    /\ \A k \in 1 .. i : Popped(S, {s[j] : j \in 1 .. (k - 1)}, s[k])

\* As long as an event is left the heap has one, as happens_before has no cycle,
\* and then one that is less than the others.
LEMMA HeapHasLeast ==
    ASSUME NEW S, Causal(S), NEW D, ~(S \subseteq D)
    PROVE  \E e : Popped(S, D, e)
<1> DEFINE rest == S \ D
           before(e) == {f \in S : HappensBefore(f, e)}
           sizes == {Cardinality(before(e)) : e \in rest}
           heap == Available(S, D)
<1>1. \A e \in S : IsFiniteSet(before(e)) /\ Cardinality(before(e)) \in Nat
  <2> SUFFICES ASSUME NEW e \in S
               PROVE  IsFiniteSet(before(e)) /\ Cardinality(before(e)) \in Nat
    OBVIOUS
  <2>1. before(e) \in SUBSET S /\ IsFiniteSet(S)
    BY DEF Causal
  <2> HIDE DEF before
  <2> QED
    BY <2>1, FS_Subset, FS_CardinalityType
<1>2. heap # {}
  <2>1. sizes \subseteq Nat /\ sizes # {}
    <3> HIDE DEF before
    <3> QED
      BY <1>1
  <2>2. PICK x \in sizes : \A y \in sizes : x <= y
    <3> HIDE DEF sizes
    <3> QED
      BY <2>1, LeastNumber
  <2>3. PICK e \in rest : x = Cardinality(before(e))
    BY <2>2
  <2>4. ASSUME NEW f \in S, HappensBefore(f, e), f \notin D PROVE FALSE
    <3>1. before(f) \in SUBSET before(e) /\ f \in before(e) /\ f \notin before(f)
      BY <2>4 DEF Causal
    <3>2. Cardinality(before(f)) <= Cardinality(before(e))
          /\ Cardinality(before(f)) # Cardinality(before(e))
      <4> HIDE DEF before
      <4> QED
        BY <1>1, <3>1, FS_Subset
    <3>3. Cardinality(before(e)) <= Cardinality(before(f))
      <4>1. Cardinality(before(f)) \in sizes
        BY <2>4
      <4> HIDE DEF sizes, before
      <4> QED
        BY <4>1, <2>2, <2>3
    <3> HIDE DEF before
    <3> QED
      BY <1>1, <2>4, <3>2, <3>3
  <2>5. e \in heap
    BY <2>3, <2>4 DEF Available
  <2> QED
    BY <2>5
<1>3. heap \subseteq S
  BY DEF Available
<1> HIDE DEF heap
<1>4. PICK src \in {e.src : e \in heap} : \A t \in {e.src : e \in heap} : src <= t
  <2>1. {e.src : e \in heap} \subseteq Nat /\ {e.src : e \in heap} # {}
    BY <1>2, <1>3 DEF Causal
  <2> QED
    BY <2>1, LeastNumber
<1> DEFINE mine == {e \in heap : e.src = src}
<1>5. PICK seqNo \in {e.seq : e \in mine} : \A t \in {e.seq : e \in mine} : seqNo <= t
  <2>1. {e.seq : e \in mine} \subseteq Nat /\ {e.seq : e \in mine} # {}
    BY <1>3, <1>4 DEF Causal
  <2> HIDE DEF mine
  <2> QED
    BY <2>1, LeastNumber
<1>6. PICK e \in mine : e.seq = seqNo
  BY <1>5
<1>7. ASSUME NEW f \in heap \ {e} PROVE HeapLess(e, f)
  <2>1. e \in S /\ f \in S /\ e.src = src /\ e.src <= f.src
    BY <1>3, <1>4
  <2>2. HeapLess(e, f) \/ HeapLess(f, e)
    BY <2>1 DEF Causal
  <2>3. e.src \in Nat /\ f.src \in Nat /\ e.seq \in Nat /\ f.seq \in Nat
    BY <2>1 DEF Causal
  <2>4. f.src = src => e.seq <= f.seq
    BY <1>5, <1>6
  <2> QED
    BY <2>1, <2>2, <2>3, <2>4 DEF HeapLess
<1>8. Popped(S, D, e)
  BY <1>7 DEF Popped, heap
<1> QED
  BY <1>8

\* After i of its rounds, less than there are events, the loop has not popped
\* them all.
LEMMA SomeAreLeft ==
    ASSUME NEW S, IsFiniteSet(S), NEW i \in Nat, i < Cardinality(S), NEW s
    PROVE  ~(S \subseteq {s[j] : j \in 1 .. i})
<1> DEFINE f == [j \in 1 .. i |-> s[j]]
           T == {s[j] : j \in 1 .. i}
<1>1. f \in Surjection(1 .. i, T)
  BY DEF Surjection
<1>2. IsFiniteSet(1 .. i) /\ Cardinality(1 .. i) = i
  BY FS_Interval
<1>3. IsFiniteSet(T) /\ Cardinality(T) <= i
  <2> HIDE DEF f, T
  <2> QED
    BY <1>1, <1>2, FS_Surjection
<1>4. ASSUME S \subseteq T PROVE FALSE
  <2>1. Cardinality(S) <= Cardinality(T)
    <3> HIDE DEF T
    <3> QED
      BY <1>3, <1>4, FS_Subset
  <2>2. Cardinality(S) \in Nat /\ Cardinality(T) \in Nat
    BY <1>3, FS_CardinalityType
  <2> QED
    BY <1>3, <2>1, <2>2
<1> QED
  BY <1>4

\* causal_order() pops as many events as there are, each time the least.
LEMMA OrderIsKahns ==
    ASSUME NEW L, Causal(Events(L))
    PROVE  KahnRounds(Events(L), CausalOrder(L), Size(L))
<1> DEFINE S == Events(L)
           n == Cardinality(S)
           heap(D) == Available(S, D)
           pick(D) == CHOOSE e \in heap(D) : \A f \in heap(D) \ {e} : HeapLess(e, f)
           popped(i, s) == {s[j] : j \in 1 .. (i - 1)}
           Then(i, s) == Append(s, pick(popped(i, s)))
           Is(f) == f = [i \in 0 .. n |-> IF i = 0 THEN <<>> ELSE Then(i, f[i - 1])]
           order == CHOOSE f : Is(f)
<1>1. CausalOrder(L) = order[n]
  BY DEF CausalOrder
<1>2. n \in Nat /\ IsFiniteSet(S)
  BY FS_CardinalityType DEF Causal
<1>3. \A D : (\E e : Popped(S, D, e)) => Popped(S, D, pick(D))
  BY DEF Popped
<1>4. \A D : pick(D) = pick(D \cap S)
  <2>1. \A D : Available(S, D) = Available(S, D \cap S)
    BY DEF Available
  <2> QED
    BY <2>1
<1> HIDE DEF pick, popped, S, n
<1>5. Is(order)
  <2> DEFINE V == {pick(D) : D \in SUBSET S}
             step == [p \in (1 .. n) \X Seq(V) |-> Then(p[1], p[2])]
  <2>1. \A D : pick(D) \in V
    <3>1. \A D : D \cap S \in SUBSET S
      OBVIOUS
    <3> QED
      BY <1>4, <3>1
  <2> HIDE DEF V
  <2>2. step \in [(1 .. n) \X Seq(V) -> Seq(V)]
    BY <2>1
  <2>3. PICK f : Recursion(f, n, Seq(V), <<>>, step)
    <3> HIDE DEF step
    <3>1. <<>> \in Seq(V)
      OBVIOUS
    <3> QED
      BY <1>2, <2>2, <3>1, PrimitiveRecursion
  <2>4. /\ f \in [0 .. n -> Seq(V)] /\ f[0] = <<>>
        /\ \A i \in 1 .. n : f[i] = step[<<i, f[i - 1]>>]
    BY <2>3 DEF Recursion
  <2>5. \A i \in 1 .. n : f[i] = Then(i, f[i - 1])
    <3> SUFFICES ASSUME NEW i \in 1 .. n PROVE f[i] = Then(i, f[i - 1])
      OBVIOUS
    <3>1. i - 1 \in 0 .. n
      BY <1>2
    <3>2. f[i - 1] \in Seq(V)
      BY <2>4, <3>1
    <3> HIDE DEF Then
    <3> QED
      BY <2>4, <3>2
  <2>6. Is(f)
    <3> HIDE DEF step, Then
    <3>1. \A i \in 0 .. n : f[i] = IF i = 0 THEN <<>> ELSE Then(i, f[i - 1])
      BY <1>2, <2>4, <2>5
    <3> QED
      BY <2>4, <3>1
  <2> HIDE DEF Is
  <2> QED
    BY <2>6
<1> HIDE DEF order
<1>6. /\ order[0] = <<>>
      /\ \A i \in 1 .. n : order[i] = Then(i, order[i - 1])
  <2> HIDE DEF Then
  <2>1. \A i \in 0 .. n : order[i] = IF i = 0 THEN <<>> ELSE Then(i, order[i - 1])
    BY <1>5
  <2> HIDE DEF Is
  <2> QED
    BY <1>2, <2>1
<1> HIDE DEF Is
<1>7. ASSUME NEW i \in Nat, i < n, NEW s, KahnRounds(S, s, i)
      PROVE  KahnRounds(S, Then(i + 1, s), i + 1)
  <2> DEFINE e == pick(popped(i + 1, s))
             t == Append(s, e)
  <2>1. popped(i + 1, s) = {s[j] : j \in 1 .. i}
    BY DEF popped
  <2>2. ~(S \subseteq popped(i + 1, s))
    BY <1>2, <1>7, <2>1, SomeAreLeft DEF n
  <2>3. Popped(S, popped(i + 1, s), e)
    BY <1>3, <2>2, HeapHasLeast DEF S
  <2>4. s \in Seq(S) /\ Len(s) = i /\ e \in S
    BY <1>7, <2>3 DEF KahnRounds, Popped, Available
  <2> HIDE DEF e
  <2>5. t \in Seq(S) /\ Len(t) = i + 1 /\ t[i + 1] = e /\ \A j \in 1 .. i : t[j] = s[j]
    BY <2>4
  <2>6. ASSUME NEW k \in 1 .. i + 1
        PROVE  Popped(S, {t[j] : j \in 1 .. (k - 1)}, t[k])
    <3>1. {t[j] : j \in 1 .. (k - 1)} = {s[j] : j \in 1 .. (k - 1)}
      <4>1. \A j \in 1 .. (k - 1) : t[j] = s[j]
        BY <2>5
      <4> HIDE DEF t
      <4> QED
        BY <4>1
    <3>2. CASE k = i + 1
      <4>1. k - 1 = i
        BY <3>2
      <4> HIDE DEF t
      <4> QED
        BY <2>1, <2>3, <2>5, <3>1, <3>2, <4>1
    <3>3. CASE k # i + 1
      <4>1. k \in 1 .. i
        BY <3>3
      <4> HIDE DEF t
      <4> QED
        BY <1>7, <2>5, <3>1, <4>1 DEF KahnRounds
    <3> QED
      BY <3>2, <3>3
  <2>7. Then(i + 1, s) = t
    BY DEF e
  <2> HIDE DEF t
  <2> QED
    BY <2>5, <2>6, <2>7 DEF KahnRounds
<1>8. \A i \in Nat : i <= n => KahnRounds(S, order[i], i)
  <2> DEFINE T == {i \in Nat : i <= n => KahnRounds(S, order[i], i)}
  <2>1. 0 \in T
    <3>1. KahnRounds(S, <<>>, 0)
      BY DEF KahnRounds
    <3> QED
      BY <1>6, <3>1
  <2>2. ASSUME NEW i \in Nat, i \in T PROVE i + 1 \in T
    <3> SUFFICES ASSUME i + 1 <= n PROVE KahnRounds(S, order[i + 1], i + 1)
      OBVIOUS
    <3>1. i < n /\ i + 1 \in 1 .. n /\ (i + 1) - 1 = i
      BY <1>2
    <3>2. KahnRounds(S, order[i], i)
      <4>1. i <= n
        BY <1>2, <3>1
      <4> QED
        BY <2>2, <4>1
    <3> HIDE DEF Then
    <3> QED
      BY <1>6, <1>7, <3>1, <3>2
  <2> HIDE DEF T
  <2>3. Nat \subseteq T
    BY <2>1, <2>2, SetInduction
  <2> QED
    BY <2>3 DEF T
<1>9. KahnRounds(S, order[n], n)
  BY <1>2, <1>8
<1> QED
  BY <1>1, <1>9 DEF S, n, Size

\* Such an order has every event once, causes first, and is sorted by source
\* wherever causality leaves it free.
LEMMA KahnsIsCanonical ==
    ASSUME NEW S, Causal(S), NEW s, KahnRounds(S, s, Cardinality(S))
    PROVE  /\ Len(s) = Cardinality(S) /\ DOMAIN s = 1 .. Cardinality(S)
           /\ {s[i] : i \in DOMAIN s} = S
           /\ \A i, j \in DOMAIN s : HappensBefore(s[i], s[j]) => i < j
           /\ \A i \in 1 .. (Len(s) - 1) :
                 HappensBefore(s[i], s[i + 1]) \/ s[i].src < s[i + 1].src
<1> DEFINE n == Cardinality(S)
           done(k) == {s[j] : j \in 1 .. (k - 1)}
<1>1. n \in Nat /\ IsFiniteSet(S)
  BY FS_CardinalityType DEF Causal
<1>2. s \in Seq(S) /\ Len(s) = n /\ DOMAIN s = 1 .. n /\ \A k \in 1 .. n : s[k] \in S
  BY <1>1 DEF KahnRounds
<1>3. ASSUME NEW k \in 1 .. n
      PROVE  /\ s[k] \in S \ done(k)
             /\ \A f \in S : HappensBefore(f, s[k]) => f \in done(k)
             /\ \A f \in Available(S, done(k)) : f = s[k] \/ HeapLess(s[k], f)
  BY DEF KahnRounds, Popped, Available
<1>4. ASSUME NEW i \in 1 .. n, NEW j \in 1 .. n, s[i] = s[j] PROVE i = j
  <2>1. \A a, b \in 1 .. n : a < b => s[a] \in done(b)
    BY <1>1
  <2>2. ~(i < j) /\ ~(j < i)
    BY <1>3, <1>4, <2>1
  <2> QED
    BY <1>1, <2>2
<1>5. {s[i] : i \in DOMAIN s} = S
  <2> DEFINE T == {s[i] : i \in 1 .. n}
             f == [i \in 1 .. n |-> s[i]]
  <2>1. T \in SUBSET S
    BY <1>2
  <2>2. f \in Surjection(1 .. n, T)
    BY DEF Surjection
  <2>3. f \in Injection(1 .. n, T)
    <3>1. f \in [1 .. n -> T] /\ \A a, b \in 1 .. n : f[a] = f[b] => a = b
      BY <1>4
    <3> QED
      BY <3>1 DEF Injection, IsInjective
  <2>4. IsFiniteSet(1 .. n) /\ Cardinality(1 .. n) = n
    BY <1>1, FS_Interval
  <2> HIDE DEF T, f
  <2>5. Cardinality(T) = n
    BY <2>2, <2>3, <2>4, FS_Surjection
  <2>6. S = T
    BY <1>1, <2>1, <2>5, FS_Subset
  <2> QED
    BY <1>2, <2>6 DEF T
<1>6. ASSUME NEW i \in 1 .. n, NEW j \in 1 .. n, HappensBefore(s[i], s[j])
      PROVE  i < j
  <2>1. s[i] \in done(j)
    BY <1>2, <1>3, <1>6
  <2>2. PICK k \in 1 .. (j - 1) : s[i] = s[k]
    BY <2>1
  <2>3. k \in 1 .. n /\ k < j
    BY <1>1
  <2>4. i = k
    BY <1>4, <2>2, <2>3
  <2> QED
    BY <2>3, <2>4
<1>7. ASSUME NEW i \in 1 .. n, i + 1 \in 1 .. n, ~HappensBefore(s[i], s[i + 1])
      PROVE  s[i].src < s[i + 1].src
  <2>1. done(i + 1) = done(i) \cup {s[i]}
    <3>1. 1 .. ((i + 1) - 1) = (1 .. (i - 1)) \cup {i}
      BY <1>1
    <3> QED
      BY <3>1
  <2>2. s[i] \in S /\ s[i + 1] \in S /\ s[i + 1] \notin done(i) /\ s[i + 1] # s[i]
    BY <1>3, <1>7, <2>1
  <2>3. s[i + 1] \in Available(S, done(i))
    <3>1. \A f \in S : HappensBefore(f, s[i + 1]) => f \in done(i)
      BY <1>3, <1>7, <2>1
    <3> QED
      BY <2>2, <3>1 DEF Available
  <2>4. HeapLess(s[i], s[i + 1])
    BY <1>3, <2>2, <2>3
  <2>5. s[i].src # s[i + 1].src
    BY <1>7, <2>2, <2>4 DEF Causal
  <2> QED
    BY <2>4, <2>5 DEF HeapLess
<1>8. \A i \in 1 .. (Len(s) - 1) : i \in 1 .. n /\ i + 1 \in 1 .. n
  BY <1>1, <1>2
<1> QED
  BY <1>2, <1>5, <1>6, <1>7, <1>8

\* The events of a reachable log are fit for it: the clocks are exact.
LEMMA LogsAreCausal ==
    ASSUME RInv, ClockOrderIsCausality, LogsOrdered, NEW n \in Node
    PROVE  Causal(Events(log[n]))
<1> DEFINE S == Events(log[n])
<1>1. /\ S \subseteq Emitted
      /\ \A e \in S : /\ e.src \in Node /\ e.src \in Nat /\ e.seq \in Nat
                      /\ \A k \in Node : e.vc[k] \in Nat
  <2>1. S \subseteq Emitted /\ \A e \in S : e.src \in Node /\ e.seq \in 1 .. MaxSeq /\ e.vc \in Clock
    BY Types DEF RInv
  <2>2. \A e \in S : e.src \in Nat /\ e.seq \in Nat
    <3>1. \A x \in 1 .. MaxSeq : x \in Nat
      BY EmissionBounds
    <3>2. \A x \in Node : x \in Nat
      BY NodeIds
    <3> QED
      BY <2>1, <3>1, <3>2
  <2>3. \A e \in S : \A k \in Node : e.vc[k] \in Nat
    BY <2>1, EmissionBounds DEF Clock
  <2> QED
    BY <2>1, <2>2, <2>3
<1>2. IsFiniteSet(S)
  BY DEF LogsOrdered, Ordered
<1>3. \A e \in S : ~HappensBefore(e, e)
  BY <1>1 DEF HappensBefore
<1>4. \A e, f, g \in S : HappensBefore(e, f) /\ HappensBefore(f, g) => HappensBefore(e, g)
  BY <1>1 DEF HappensBefore, LeqClock
<1>5. \A e, f \in S : HeapLess(e, f) /\ e.src = f.src => HappensBefore(e, f)
  <2> SUFFICES ASSUME NEW e \in S, NEW f \in S, HeapLess(e, f), e.src = f.src
               PROVE  HappensBefore(e, f)
    OBVIOUS
  <2>1. e.seq < f.seq /\ f.vc[f.src] = f.seq
    BY <1>1 DEF HeapLess, RInv, EventsCounted
  <2>2. e # f /\ e.seq <= f.vc[e.src]
    BY <1>1, <2>1
  <2> QED
    BY <1>1, <2>2 DEF ClockOrderIsCausality
<1>6. \A e, f \in S : e # f => HeapLess(e, f) \/ HeapLess(f, e)
  <2> SUFFICES ASSUME NEW e \in S, NEW f \in S, e # f
               PROVE  HeapLess(e, f) \/ HeapLess(f, e)
    OBVIOUS
  <2>1. e.src # f.src \/ e.seq # f.seq
    BY <1>1 DEF RInv, NamesAreUnique, Id
  <2> QED
    BY <1>1, <2>1 DEF HeapLess
<1> QED
  BY <1>1, <1>2, <1>3, <1>4, <1>5, <1>6 DEF Causal

\* causal_order() of every reachable log is the canonical order of its events,
\* whatever the way they came into the log.
THEOREM OrderIsCanonical == Spec => []CausalOrderIsCanonical
<1>1. RInv /\ ClockOrderIsCausality /\ LogsOrdered => CausalOrderIsCanonical
  <2> SUFFICES ASSUME RInv, ClockOrderIsCausality, LogsOrdered, NEW n \in Node
               PROVE  LET order == CausalOrder(log[n])
                      IN  /\ Len(order) = Size(log[n])
                          /\ {order[i] : i \in DOMAIN order} = Events(log[n])
                          /\ \A i, j \in DOMAIN order :
                                HappensBefore(order[i], order[j]) => i < j
                          /\ \A i \in 1 .. (Len(order) - 1) :
                                \/ HappensBefore(order[i], order[i + 1])
                                \/ order[i].src < order[i + 1].src
    BY DEF CausalOrderIsCanonical
  <2>1. Causal(Events(log[n]))
    BY LogsAreCausal
  <2>2. KahnRounds(Events(log[n]), CausalOrder(log[n]), Size(log[n]))
    BY <2>1, OrderIsKahns
  <2> QED
    BY <2>1, <2>2, KahnsIsCanonical DEF Size
<1> QED
  BY <1>1, RuntimeInvariant, ClocksAreExact, LogsStayOrdered, PTL

=============================================================================

---------------------------- MODULE RealityLayers ----------------------------
(***************************************************************************)
(* The layer stack: reality_layers/base_layer.py (BaseLayer, LayerStack),  *)
(* deterministic_layer.py and slow_time_layer.py.                          *)
(*                                                                         *)
(* The execution loop, the proof engine and any client call the stack:     *)
(* each system call goes to one layer, chosen anew for each method, and    *)
(* drain_all_events() takes the events that were injected into the layers. *)
(* A client pushes, pops, enables and disables layers between two calls.   *)
(*                                                                         *)
(* Times are in half units, so that the factor 1/2 gives whole numbers.    *)
(***************************************************************************)
EXTENDS Integers, SequencesExt

CONSTANTS
    BaseLayer, DeterministicLayer, SlowTimeLayer,   \* the layer objects
    Factor,         \* twice the factors a SlowTimeLayer may be given
    Size,           \* sizes of allocations
    NoLayer,        \* no layer answers: the stack's own default does
    MaxDepth,       \* bound: layers on the stack
    MaxEvents,      \* bound: events injected, all layers together
    MaxNow,         \* bound: the wall clock, in whole units
    MaxReadings,    \* bound: the logical clock of a DeterministicLayer
    MaxAlloc        \* bound: allocations of a DeterministicLayer

Layer == BaseLayer \cup DeterministicLayer \cup SlowTimeLayer

Method == {"time_now", "memory_alloc", "process_schedule", "io_read", "io_write"}

ASSUME LayerKinds ==
    /\ BaseLayer \cap (DeterministicLayer \cup SlowTimeLayer) = {}
    /\ DeterministicLayer \cap SlowTimeLayer = {}
    /\ NoLayer \notin Layer

ASSUME LayerNumbers ==
    /\ Factor \subseteq Nat \ {0} /\ 2 \in Factor
    /\ Size \subseteq Nat
    /\ {MaxDepth, MaxEvents, MaxNow, MaxReadings, MaxAlloc} \subseteq Nat

VARIABLES
    stack,      \* _layers, the bottom first
    enabled,    \* layer.enabled
    queue,      \* _injected_events, as numbers in order of injection
    injected,   \* how many events were injected into each layer
    drained,    \* what drain_all_events has returned so far
    now,        \* the wall clock, time.time()
    clock,      \* _logical_time of a DeterministicLayer
    factor,     \* twice the _factor of a SlowTimeLayer
    counter,    \* _alloc_counter of a DeterministicLayer, from its base 0x1000
    allocs,     \* the handles a DeterministicLayer has returned, in order
    last        \* the last time_now() of each layer, in half units

vars == <<stack, enabled, queue, injected, drained, now, clock, factor,
          counter, allocs, last>>

stackVars == <<stack, enabled>>
eventVars == <<queue, injected, drained>>
timeVars  == <<now, clock, factor, last>>
allocVars == <<counter, allocs>>

\* A SlowTimeLayer measures from the moment it was made.
Epoch == 0

\* No reading of a layer to compare the next one with.
NoReading == -1

Init ==
    /\ stack = <<>>
    /\ enabled = [l \in Layer |-> TRUE]
    /\ queue = [l \in Layer |-> <<>>]
    /\ injected = [l \in Layer |-> 0]
    /\ drained = <<>>
    /\ now = Epoch
    /\ clock = [l \in DeterministicLayer |-> 0]
    /\ factor = [l \in SlowTimeLayer |-> 2]
    /\ counter = [l \in DeterministicLayer |-> 0]
    /\ allocs = [l \in DeterministicLayer |-> <<>>]
    /\ last = [l \in Layer |-> NoReading]

-----------------------------------------------------------------------------
(* Which layer answers.                                                    *)

\* The methods a layer's class defines itself.
Overrides(l) ==
    IF l \in DeterministicLayer THEN Method
    ELSE IF l \in SlowTimeLayer THEN {"time_now"} ELSE {}

\* The topmost layer of the stack, by position, that satisfies P.
TopmostWhere(P(_)) ==
    LET I == {i \in DOMAIN stack : P(stack[i])}
    IN IF I = {} THEN NoLayer ELSE stack[CHOOSE i \in I : \A j \in I : j <= i]

\* _resolve that takes the topmost enabled layer whatever it overrides.
ResolveTopmost(method) == TopmostWhere(LAMBDA l : enabled[l])

\* _resolve: the topmost enabled layer that overrides the method, else the
\* topmost enabled layer, else none.
Resolve(method) ==
    LET overriding == TopmostWhere(LAMBDA l : enabled[l] /\ method \in Overrides(l))
    IN IF overriding # NoLayer THEN overriding
       ELSE TopmostWhere(LAMBDA l : enabled[l])

-----------------------------------------------------------------------------
(* The stack.                                                              *)

Push(l) ==
    /\ Len(stack) < MaxDepth
    /\ stack' = Append(stack, l)
    /\ UNCHANGED <<enabled, eventVars, timeVars, allocVars>>

\* The popped layer keeps the events nobody has drained.
Pop ==
    /\ stack # <<>>
    /\ stack' = SubSeq(stack, 1, Len(stack) - 1)
    /\ UNCHANGED <<enabled, eventVars, timeVars, allocVars>>

\* layer.enabled = ..., on the stack or not.
Toggle(l) ==
    /\ enabled' = [enabled EXCEPT ![l] = ~@]
    /\ UNCHANGED <<stack, eventVars, timeVars, allocVars>>

-----------------------------------------------------------------------------
(* Events.                                                                 *)

SumOverLayers(f) == FoldFunction(LAMBDA x, y : x + y, 0, f)

\* inject_event into a layer, on the stack or not, enabled or not.
InjectEvent(l) ==
    /\ SumOverLayers(injected) < MaxEvents
    /\ injected' = [injected EXCEPT ![l] = @ + 1]
    /\ queue' = [queue EXCEPT ![l] = Append(@, injected[l] + 1)]
    /\ UNCHANGED <<drained, stackVars, timeVars, allocVars>>

\* What the enabled layers of the stack hold, the bottom first; a layer pushed
\* twice has nothing left the second time.
Pending ==
    FlattenSeq([i \in DOMAIN stack |->
        IF enabled[stack[i]] /\ \A j \in 1..(i - 1) : stack[j] # stack[i]
        THEN [k \in DOMAIN queue[stack[i]] |-> <<stack[i], queue[stack[i]][k]>>]
        ELSE <<>>])

OnStack == {stack[i] : i \in DOMAIN stack}

\* drain_all_events that clears the queues of disabled layers too.
DrainAllEventsOfAll ==
    /\ drained' = drained \o Pending
    /\ queue' = [l \in Layer |-> IF l \in OnStack THEN <<>> ELSE queue[l]]
    /\ UNCHANGED <<injected, stackVars, timeVars, allocVars>>

\* drain_all_events: the enabled layers of the stack, the bottom first.
DrainAllEvents ==
    /\ drained' = drained \o Pending
    /\ queue' = [l \in Layer |->
                  IF l \in OnStack /\ enabled[l] THEN <<>> ELSE queue[l]]
    /\ UNCHANGED <<injected, stackVars, timeVars, allocVars>>

-----------------------------------------------------------------------------
(* Time and memory.                                                        *)

\* What the layer's time_now() returns now.
TimeOf(l) ==
    IF l \in DeterministicLayer THEN 2 * clock[l]
    ELSE IF l \in SlowTimeLayer THEN 2 * Epoch + (now - Epoch) * factor[l]
    ELSE 2 * now

\* time_now of a DeterministicLayer that tells the time without advancing it.
TimeNowPeeking ==
    LET l == Resolve("time_now")
    IN /\ l # NoLayer
       /\ last' = [last EXCEPT ![l] = TimeOf(l)]
       /\ UNCHANGED <<now, clock, factor, stackVars, eventVars, allocVars>>

\* LayerStack.time_now: reading a DeterministicLayer advances its clock.
TimeNow ==
    LET l == Resolve("time_now")
    IN /\ l # NoLayer
       /\ last' = [last EXCEPT ![l] = TimeOf(l)]
       /\ IF l \in DeterministicLayer
          THEN clock[l] < MaxReadings /\ clock' = [clock EXCEPT ![l] = @ + 1]
          ELSE UNCHANGED clock
       /\ UNCHANGED <<now, factor, stackVars, eventVars, allocVars>>

\* time.time() goes on.
WallClock ==
    /\ now < MaxNow
    /\ now' = now + 1
    /\ UNCHANGED <<clock, factor, last, stackVars, eventVars, allocVars>>

\* DeterministicLayer.reset_clock
ResetClock(l, t) ==
    /\ clock' = [clock EXCEPT ![l] = t]
    /\ last' = [last EXCEPT ![l] = NoReading]
    /\ UNCHANGED <<now, factor, stackVars, eventVars, allocVars>>

\* SlowTimeLayer.factor = f; a factor that is not positive raises ValueError.
\* A smaller factor takes back time that was already told.
SetFactor(l, f) ==
    /\ factor' = [factor EXCEPT ![l] = f]
    /\ last' = IF f < factor[l] THEN [last EXCEPT ![l] = NoReading] ELSE last
    /\ UNCHANGED <<now, clock, stackVars, eventVars, allocVars>>

\* LayerStack.memory_alloc; only a DeterministicLayer's handles are the
\* program's own, another's address is the operating system's.
MemoryAlloc(size) ==
    LET l == Resolve("memory_alloc")
    IN /\ l \in DeterministicLayer /\ Len(allocs[l]) < MaxAlloc
       /\ allocs' = [allocs EXCEPT ![l] =
                       Append(@, [address |-> counter[l], size |-> size])]
       /\ counter' = [counter EXCEPT ![l] = @ + size]
       /\ UNCHANGED <<stackVars, eventVars, timeVars>>

-----------------------------------------------------------------------------
Next ==
    \/ \E l \in Layer : Push(l) \/ Toggle(l) \/ InjectEvent(l)
    \/ Pop
    \/ DrainAllEvents
    \/ TimeNow
    \/ WallClock
    \/ \E l \in DeterministicLayer, t \in 0..MaxReadings : ResetClock(l, t)
    \/ \E l \in SlowTimeLayer, f \in Factor : SetFactor(l, f)
    \/ \E size \in Size : MemoryAlloc(size)

Spec == Init /\ [][Next]_vars

-----------------------------------------------------------------------------
(* Properties.                                                             *)

\* Every variable keeps to its values.
TypeOK ==
    /\ stack \in Seq(Layer) /\ Len(stack) <= MaxDepth
    /\ enabled \in [Layer -> BOOLEAN]
    /\ queue \in [Layer -> Seq(Nat)]
    /\ injected \in [Layer -> Nat]
    /\ drained \in Seq(Layer \X Nat)
    /\ now \in 0..MaxNow
    /\ clock \in [DeterministicLayer -> 0..MaxReadings]
    /\ factor \in [SlowTimeLayer -> Factor]
    /\ counter \in [DeterministicLayer -> Nat]
    /\ allocs \in [DeterministicLayer -> Seq([address : Nat, size : Size])]
    /\ last \in [Layer -> Nat \cup {NoReading}]

\* s has the first n events of l, each once, in their order, and no others of l.
HasFirst(s, l, n) ==
    LET places == {i \in DOMAIN s : s[i][1] = l}
    IN  /\ {s[i][2] : i \in places} = 1..n
        /\ \A i, j \in places : i < j => s[i][2] < s[j][2]

\* However the stack is rebuilt and its layers switched off and on, no event
\* injected into a layer is lost, drained twice or overtaken by a later one: it
\* has been drained or waits in its layer, which may be off the stack.
EventsKeepOrder ==
    \A l \in Layer : \E n \in 0..injected[l] :
        /\ HasFirst(drained, l, n)
        /\ queue[l] = [k \in 1..(injected[l] - n) |-> n + k]

\* "When this layer is active, the system produces identical behaviour across
\* runs" (deterministic_layer.py:12): with a DeterministicLayer enabled on the
\* stack every system call is answered by one, whatever BaseLayer or
\* SlowTimeLayer is above it; only the time may be told by a SlowTimeLayer
\* that lies above all of them.
DeterministicUnlessCovered ==
    \A i \in DOMAIN stack :
        stack[i] \in DeterministicLayer /\ enabled[stack[i]] =>
            \A method \in Method :
                \/ Resolve(method) \in DeterministicLayer
                \/ /\ method = "time_now"
                   /\ \E j \in (i + 1)..Len(stack) :
                         stack[j] = Resolve(method) /\ stack[j] \in SlowTimeLayer

\* What a layer has handed out it does not hand out again, whoever answered
\* in between.  The time it would tell now is not before the time it told
\* last, and with a DeterministicLayer after it: no two ticks, and no tick and
\* proof, read one logical time.  No two of its blocks of memory overlap.  A
\* clock set back and a factor lowered start a new count.
NeverHandedOutTwice ==
    /\ \A l \in Layer :
          /\ last[l] <= TimeOf(l)
          /\ l \in DeterministicLayer => last[l] < TimeOf(l)
    /\ \A l \in DeterministicLayer : \A i, j \in DOMAIN allocs[l] :
          i < j => allocs[l][i].address + allocs[l][i].size <= allocs[l][j].address

=============================================================================

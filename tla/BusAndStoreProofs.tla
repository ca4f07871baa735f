------------------------- MODULE BusAndStoreProofs -------------------------
(***************************************************************************)
(* Proofs about the two services that everything else is given: the event  *)
(* bus with its tracer, and the state store.                               *)
(*                                                                         *)
(* The bus.  For any number of buses, event types, callbacks and events    *)
(* and any depth of calls, the tracer hears every event once and in        *)
(* depth-first order.  The call stack is what the argument is about: the   *)
(* frames that tell new events are in the order of their events, and each  *)
(* knows of those further out that the tracer is still to hear.  A step    *)
(* other than publish() leaves of these frames what they were, or less, so *)
(* that what is due stays in time for the trace.                           *)
(*                                                                         *)
(* The store.  For every set of keys and values, every dict it is created  *)
(* with or restored to, and every length of the log: set(), update() and   *)
(* delete() are the same to the proofs, they log, for distinct keys, the   *)
(* old value and the new one, and change nothing else.  replay_to() is a   *)
(* recursion over the log, so what it returns is proved by induction over  *)
(* the entries it takes into account.                                      *)
(***************************************************************************)
EXTENDS EventBus, StateStore, DataInduction, Integers

-----------------------------------------------------------------------------
(* The frames of the bus.                                                  *)

TellFrame ==
    [op : {"tell"}, bus : Bus, event : Event, left : Seq(Listener),
     wild : BOOLEAN, rest : Seq(Event), new : BOOLEAN]

RetraceFrame == [op : {"retrace"}, bus : Bus, next : Nat \ {0}, total : Nat]

-----------------------------------------------------------------------------
(* Frames and listeners.                                                   *)

\* A frame is of the kind that its op says.
LEMMA FrameKinds ==
    ASSUME NEW f \in Frame
    PROVE  /\ f.op = "tell" => f \in TellFrame
           /\ f.op = "retrace" => f \in RetraceFrame
           /\ f.op \in {"tell", "retrace", "call"}
  BY DEF Frame, TellFrame, RetraceFrame, Calling

\* Of a stack that is not empty, the innermost frame and the rest.
LEMMA Innermost ==
    ASSUME TypeOK, stack # <<>>
    PROVE  /\ Head(stack) \in Frame /\ Head(stack) = stack[1]
           /\ Returned \in Seq(Frame) /\ Len(stack) \in Nat /\ Len(stack) # 0
           /\ Len(Returned) = Len(stack) - 1
           /\ \A i \in 1 .. Len(stack) - 1 : Returned[i] = stack[i + 1]
           /\ \A i \in 1 .. Len(stack) : stack[i] \in Frame
  BY DEF TypeOK, Returned

\* Putting a frame on a stack.
LEMMA PushFacts ==
    ASSUME NEW s \in Seq(Frame), NEW f \in Frame
    PROVE  /\ <<f>> \o s \in Seq(Frame) /\ Len(<<f>> \o s) = Len(s) + 1
           /\ (<<f>> \o s)[1] = f /\ Len(s) \in Nat
           /\ \A i \in 2 .. Len(s) + 1 : (<<f>> \o s)[i] = s[i - 1]
  OBVIOUS

\* A telling that begins is a frame.
LEMMA TellingFrame ==
    ASSUME TypeOK, NEW b \in Bus, NEW e \in Event, NEW rest \in Seq(Event), NEW new \in BOOLEAN
    PROVE  Telling(b, e, rest, new) \in TellFrame /\ TellFrame \subseteq Frame
  BY DEF Telling, TypeOK, TellFrame, Event, Frame

\* Events that clients have created stay events.
LEMMA EventsStay ==
    ASSUME created \in Nat, created' \in Nat, created <= created'
    PROVE  /\ Event \subseteq Event' /\ Seq(Event) \subseteq Seq(Event')
           /\ Trace \subseteq Trace' /\ Seq(Trace) \subseteq Seq(Trace')
           /\ Frame \subseteq Frame' /\ Seq(Frame) \subseteq Seq(Frame')
<1>0. \A S, T : S \subseteq T => Seq(S) \subseteq Seq(T)
  OBVIOUS
<1>1. Event \subseteq Event'
  BY DEF Event
<1>2. Seq(Event) \subseteq Seq(Event')
  BY <1>0, <1>1
<1>3. Trace \subseteq Trace'
  <2>1. [event : Event, new : BOOLEAN] \subseteq [event : Event', new : BOOLEAN]
    BY <1>1
  <2> QED
    BY <1>0, <2>1 DEF Trace
<1>4. Frame \subseteq Frame'
  BY <1>1, <1>2 DEF Frame, Calling
<1> QED
  BY <1>0, <1>1, <1>2, <1>3, <1>4

\* What RemoveFirst takes out of a list.
LEMMA RemovedListener ==
    ASSUME NEW S, NEW s \in Seq(S), NEW f, Contains(s, f)
    PROVE  \E k \in 1 .. Len(s) :
              /\ s[k] = f /\ RemoveFirst(s, f) = SubSeq(s, 1, k - 1) \o SubSeq(s, k + 1, Len(s))
<1> DEFINE I == {i \in 1 .. Len(s) : s[i] = f}
           k == CHOOSE x \in I : \A y \in I : x <= y
<1>1. I # {} /\ I \subseteq Nat
  BY DEF Contains
<1>2. \E x \in I : \A y \in I : x <= y
  BY <1>1, LeastNumber
<1>3. k \in I
  BY <1>2
<1>4. SelectInSeq(s, LAMBDA v : v = f) = k
  BY <1>1 DEF SelectInSeq, Min
<1> HIDE DEF k
<1>5. RemoveFirst(s, f) = RemoveAt(s, k)
  BY <1>4 DEF RemoveFirst, Contains
<1> QED
  BY <1>3, <1>5 DEF RemoveAt

\* Unsubscribing one listener leaves the places of any other as many.
LEMMA OthersStay ==
    ASSUME NEW S, NEW s \in Seq(S), NEW f, Contains(s, f), NEW g, g # f
    PROVE  /\ RemoveFirst(s, f) \in Seq(S)
           /\ Range(RemoveFirst(s, f)) \subseteq Range(s)
           /\ g \in Range(s) => g \in Range(RemoveFirst(s, f))
           /\ (\A i, j \in DOMAIN s : s[i] = g /\ s[j] = g => i = j) =>
                 LET r == RemoveFirst(s, f)
                 IN  \A i, j \in DOMAIN r : r[i] = g /\ r[j] = g => i = j
<1>1. PICK k \in 1 .. Len(s) :
         s[k] = f /\ RemoveFirst(s, f) = SubSeq(s, 1, k - 1) \o SubSeq(s, k + 1, Len(s))
  BY RemovedListener
<1> DEFINE r == RemoveFirst(s, f)
<1>2. /\ r \in Seq(S) /\ Len(r) = Len(s) - 1 /\ Len(s) \in Nat
      /\ DOMAIN r = 1 .. Len(s) - 1 /\ DOMAIN s = 1 .. Len(s)
      /\ \A i \in 1 .. Len(s) - 1 : r[i] = IF i < k THEN s[i] ELSE s[i + 1]
  <2> DEFINE h == SubSeq(s, 1, k - 1)
             t == SubSeq(s, k + 1, Len(s))
  <2>1. /\ h \in Seq(S) /\ Len(h) = k - 1 /\ \A i \in 1 .. k - 1 : h[i] = s[i]
        /\ t \in Seq(S) /\ Len(t) = Len(s) - k /\ \A i \in 1 .. Len(s) - k : t[i] = s[k + i]
    OBVIOUS
  <2>2. r = h \o t
    BY <1>1
  <2> HIDE DEF h, t, r
  <2>3. r \in Seq(S) /\ Len(r) = Len(s) - 1 /\ Len(s) \in Nat
    <3>0. \A u, v \in Seq(S) : u \o v \in Seq(S) /\ Len(u \o v) = Len(u) + Len(v)
      OBVIOUS
    <3>1. r \in Seq(S) /\ Len(r) = Len(h) + Len(t)
      BY <2>1, <2>2, <3>0
    <3>2. Len(s) \in Nat
      OBVIOUS
    <3> QED
      BY <2>1, <3>1, <3>2
  <2>4. ASSUME NEW i \in 1 .. Len(s) - 1 PROVE r[i] = IF i < k THEN s[i] ELSE s[i + 1]
    <3>1. CASE i < k
      BY <2>1, <2>2, <3>1
    <3>2. CASE i >= k
      <4>1. r[i] = t[i - (k - 1)] /\ i - (k - 1) \in 1 .. Len(s) - k
        BY <2>1, <2>2, <3>2
      <4> QED
        BY <2>1, <3>2, <4>1
    <3> QED
      BY <3>1, <3>2
  <2> QED
    BY <2>3, <2>4
<1> HIDE DEF r
<1>3. Range(r) \subseteq Range(s)
  BY <1>2 DEF Range
<1>4. g \in Range(s) => g \in Range(r)
  <2> SUFFICES ASSUME NEW i \in 1 .. Len(s), s[i] = g PROVE g \in Range(r)
    BY <1>2 DEF Range
  <2>1. i # k
    BY <1>1
  <2>2. CASE i < k
    BY <1>2, <2>2 DEF Range
  <2>3. CASE i > k
    <3>1. i - 1 \in DOMAIN r /\ r[i - 1] = g
      BY <1>2, <2>3
    <3> QED
      BY <3>1 DEF Range
  <2> QED
    BY <2>1, <2>2, <2>3
<1>5. ASSUME \A i, j \in DOMAIN s : s[i] = g /\ s[j] = g => i = j
      PROVE  \A i, j \in DOMAIN r : r[i] = g /\ r[j] = g => i = j
  <2> DEFINE at(i) == IF i < k THEN i ELSE i + 1
  <2>1. \A i \in DOMAIN r : at(i) \in DOMAIN s /\ r[i] = s[at(i)]
    BY <1>2
  <2>2. \A i, j \in DOMAIN r : at(i) = at(j) => i = j
    BY <1>2
  <2> HIDE DEF at
  <2> QED
    BY <1>5, <2>1, <2>2
<1> QED
  BY <1>2, <1>3, <1>4, <1>5 DEF r

-----------------------------------------------------------------------------
(* What is on the stack.                                                   *)

IsNewTold(f) == f.op = "tell" /\ f.new

\* The tracer may still hear the event of frame f, if not now then after it has
\* been attached.
Awaits(f) == ~f.wild \/ Record \in Range(f.left)

\* The innermost call tells the youngest event, and that event was published
\* while those further out were being told.
StackInOrder(s) ==
    \A i, j \in NewTold(s) : i < j =>
        /\ s[j].event.id < s[i].event.id
        /\ Awaits(s[j]) => s[j].event.id \in s[i].event.during

\* The new tellings of r are those of s, d places further out, some of them.
Shifted(s, r, d) ==
    \A i \in NewTold(r) :
        /\ i + d \in NewTold(s) /\ s[i + d].event = r[i].event
        /\ Awaits(r[i]) => Awaits(s[i + d])

LeftOf(s, r) == \E d \in Int : Shifted(s, r, d)

\* How far out, does not matter.
LEMMA Leaves ==
    ASSUME NEW s, NEW r
    PROVE  /\ \A d \in Int : Shifted(s, r, d) => LeftOf(s, r)
           /\ Shifted(s, r, 0) => LeftOf(s, r)
           /\ Shifted(s, r, 1) => LeftOf(s, r)
           /\ Shifted(s, r, 0 - 1) => LeftOf(s, r)
<1>1. \A d \in Int : Shifted(s, r, d) => LeftOf(s, r)
  BY DEF LeftOf
<1>2. 0 \in Int /\ 1 \in Int /\ 0 - 1 \in Int
  OBVIOUS
<1> QED
  BY <1>1, <1>2, Zenon

\* Every frame of a stack is a frame.
LEMMA FramesOf ==
    ASSUME NEW s \in Seq(Frame)
    PROVE  /\ DOMAIN s = 1 .. Len(s) /\ Len(s) \in Nat
           /\ \A i \in DOMAIN s : s[i] \in Frame
           /\ \A i \in NewTold(s) : i \in 1 .. Len(s) /\ s[i] \in TellFrame /\ IsNewTold(s[i])
           /\ \A i \in 1 .. Len(s) : IsNewTold(s[i]) => i \in NewTold(s)
<1>1. \A S, r : r \in Seq(S) =>
         DOMAIN r = 1 .. Len(r) /\ Len(r) \in Nat /\ \A i \in DOMAIN r : r[i] \in S
  OBVIOUS
<1>2. DOMAIN s = 1 .. Len(s) /\ Len(s) \in Nat /\ \A i \in DOMAIN s : s[i] \in Frame
  BY <1>1
<1> QED
  BY <1>2, FrameKinds DEF NewTold, IsNewTold

\* Order lasts.
LEMMA ShiftKeepsOrder ==
    ASSUME NEW s \in Seq(Frame), NEW r \in Seq(Frame), NEW d \in Int, Shifted(s, r, d),
           StackInOrder(s)
    PROVE  StackInOrder(r)
<1> SUFFICES ASSUME NEW i \in NewTold(r), NEW j \in NewTold(r), i < j
             PROVE  /\ r[j].event.id < r[i].event.id
                    /\ Awaits(r[j]) => r[j].event.id \in r[i].event.during
  BY DEF StackInOrder
<1>1. i \in Nat /\ j \in Nat
  BY FramesOf
<1>2. i + d < j + d
  BY <1>1
<1>3. /\ i + d \in NewTold(s) /\ s[i + d].event = r[i].event
      /\ j + d \in NewTold(s) /\ s[j + d].event = r[j].event
      /\ Awaits(r[j]) => Awaits(s[j + d])
  BY DEF Shifted
<1> QED
  BY <1>2, <1>3 DEF StackInOrder

\* A frame that tells nothing new is put on the stack.
LEMMA PushShifts ==
    ASSUME NEW s \in Seq(Frame), NEW r \in Seq(Frame), NEW d \in Int, Shifted(s, r, d),
           NEW f \in Frame, ~IsNewTold(f)
    PROVE  <<f>> \o r \in Seq(Frame) /\ Shifted(s, <<f>> \o r, d - 1)
<1> DEFINE p == <<f>> \o r
<1>1. /\ p \in Seq(Frame) /\ Len(p) = Len(r) + 1 /\ p[1] = f /\ Len(r) \in Nat
      /\ \A i \in 2 .. Len(r) + 1 : p[i] = r[i - 1]
  BY PushFacts
<1> HIDE DEF p
<1>2. ASSUME NEW i \in NewTold(p)
      PROVE  /\ i + (d - 1) \in NewTold(s) /\ s[i + (d - 1)].event = p[i].event
             /\ Awaits(p[i]) => Awaits(s[i + (d - 1)])
  <2>1. i \in 1 .. Len(p) /\ IsNewTold(p[i])
    BY <1>1, FramesOf
  <2>2. i # 1
    BY <1>1, <2>1
  <2>3. i \in 2 .. Len(r) + 1 /\ i - 1 \in 1 .. Len(r) /\ p[i] = r[i - 1]
    BY <1>1, <2>1, <2>2
  <2>4. i - 1 \in NewTold(r)
    BY <2>1, <2>3, FramesOf
  <2>5. i + (d - 1) = (i - 1) + d
    BY <2>3
  <2> QED
    BY <2>3, <2>4, <2>5 DEF Shifted
<1> QED
  BY <1>1, <1>2 DEF Shifted, p

\* The innermost frame is replaced by one about the same event.
LEMMA ReplaceShifts ==
    ASSUME TypeOK, stack # <<>>, NEW g \in Frame,
           IsNewTold(g) => /\ IsNewTold(Head(stack)) /\ g.event = Head(stack).event
                           /\ Awaits(g) => Awaits(Head(stack))
    PROVE  Replaced(g) \in Seq(Frame) /\ Shifted(stack, Replaced(g), 0)
<1> DEFINE p == <<g>> \o Returned
<1>1. /\ Returned \in Seq(Frame) /\ Len(stack) \in Nat /\ Len(stack) # 0
      /\ Len(Returned) = Len(stack) - 1 /\ stack \in Seq(Frame) /\ Head(stack) = stack[1]
      /\ \A i \in 1 .. Len(stack) - 1 : Returned[i] = stack[i + 1]
  BY Innermost DEF TypeOK
<1>2. /\ p \in Seq(Frame) /\ Len(p) = Len(stack) /\ p[1] = g
      /\ \A i \in 2 .. Len(stack) : p[i] = Returned[i - 1]
  BY <1>1, PushFacts
<1>3. Replaced(g) = p
  BY DEF Replaced, Returned
<1> HIDE DEF p
<1>4. ASSUME NEW i \in NewTold(p)
      PROVE  /\ i + 0 \in NewTold(stack) /\ stack[i + 0].event = p[i].event
             /\ Awaits(p[i]) => Awaits(stack[i + 0])
  <2>1. i \in 1 .. Len(stack) /\ IsNewTold(p[i]) /\ i + 0 = i
    BY <1>2, FramesOf
  <2>2. CASE i = 1
    BY <1>1, <1>2, <2>1, <2>2, FramesOf
  <2>3. CASE i # 1
    <3>1. p[i] = stack[i]
      BY <1>1, <1>2, <2>1, <2>3
    <3> QED
      BY <1>1, <2>1, <3>1, FramesOf
  <2> QED
    BY <2>2, <2>3
<1> QED
  BY <1>2, <1>3, <1>4 DEF Shifted

\* The innermost frame is gone.
LEMMA ReturnShifts ==
    ASSUME TypeOK, stack # <<>>
    PROVE  Returned \in Seq(Frame) /\ Shifted(stack, Returned, 1)
<1>1. /\ Returned \in Seq(Frame) /\ Len(stack) \in Nat /\ Len(stack) # 0
      /\ Len(Returned) = Len(stack) - 1 /\ stack \in Seq(Frame)
      /\ \A i \in 1 .. Len(stack) - 1 : Returned[i] = stack[i + 1]
  BY Innermost DEF TypeOK
<1>2. ASSUME NEW i \in NewTold(Returned)
      PROVE  /\ i + 1 \in NewTold(stack) /\ stack[i + 1].event = Returned[i].event
             /\ Awaits(Returned[i]) => Awaits(stack[i + 1])
  <2>1. i \in 1 .. Len(stack) - 1 /\ IsNewTold(Returned[i])
    BY <1>1, FramesOf
  <2>2. Returned[i] = stack[i + 1] /\ i + 1 \in 1 .. Len(stack)
    BY <1>1, <2>1
  <2> QED
    BY <1>1, <2>1, <2>2, FramesOf
<1> QED
  BY <1>1, <1>2 DEF Shifted

\* An exception takes frames from the top.
LEMMA UnwoundFacts ==
    ASSUME TypeOK
    PROVE  /\ Unwound \in Seq(Frame)
           /\ \E d \in Nat : /\ Shifted(stack, Unwound, d)
                             /\ \A i \in DOMAIN Unwound :
                                   i + d \in DOMAIN stack /\ Unwound[i] = stack[i + d]
<1> DEFINE calls == {i \in 2 .. Len(stack) : stack[i].op = "call"}
           k == CHOOSE i \in calls : \A j \in calls : i <= j
<1>0. stack \in Seq(Frame) /\ Len(stack) \in Nat
  BY DEF TypeOK
<1>1. CASE calls = {}
  <2>1. Unwound = <<>> /\ <<>> \in Seq(Frame)
    BY <1>1 DEF Unwound
  <2>2. Shifted(stack, Unwound, 0)
    BY <2>1 DEF Shifted, NewTold
  <2> QED
    BY <2>1, <2>2
<1>2. CASE calls # {}
  <2>1. k \in calls
    <3>1. calls \subseteq Nat
      OBVIOUS
    <3>2. \E x \in calls : \A y \in calls : x <= y
      BY <1>2, <3>1, LeastNumber
    <3> QED
      BY <3>2
  <2>2. Unwound = SubSeq(stack, k, Len(stack))
    BY <1>2 DEF Unwound
  <2>3. k \in 2 .. Len(stack)
    BY <2>1
  <2> HIDE DEF k
  <2>4. /\ Unwound \in Seq(Frame) /\ Len(Unwound) = Len(stack) - (k - 1)
        /\ \A i \in 1 .. Len(stack) - (k - 1) : Unwound[i] = stack[i + (k - 1)]
    BY <1>0, <2>2, <2>3
  <2>5. \A i \in DOMAIN Unwound : i + (k - 1) \in 1 .. Len(stack) /\ Unwound[i] = stack[i + (k - 1)]
    BY <1>0, <2>3, <2>4
  <2>6. DOMAIN Unwound = 1 .. Len(Unwound) /\ DOMAIN stack = 1 .. Len(stack)
    BY <1>0, <2>4, FramesOf
  <2>7. Shifted(stack, Unwound, k - 1)
    <3>1. ASSUME NEW i \in NewTold(Unwound)
          PROVE  i + (k - 1) \in NewTold(stack) /\ stack[i + (k - 1)] = Unwound[i]
      <4>1. i \in DOMAIN Unwound /\ IsNewTold(Unwound[i])
        BY <2>4, <2>6, FramesOf
      <4> QED
        BY <1>0, <2>5, <4>1, FramesOf
    <3> QED
      BY <3>1 DEF Shifted
  <2> QED
    BY <2>3, <2>4, <2>5, <2>6, <2>7
<1> QED
  BY <1>1, <1>2

-----------------------------------------------------------------------------
(* Types.                                                                  *)

\* A trace is of events.
LEMMA TraceEvents ==
    ASSUME NEW tr \in Trace
    PROVE  /\ DOMAIN tr = 1 .. Len(tr) /\ Len(tr) \in Nat
           /\ \A i \in DOMAIN tr : tr[i].event \in Event /\ tr[i].new \in BOOLEAN
<1>1. \A S : tr \in Seq(S) =>
         DOMAIN tr = 1 .. Len(tr) /\ Len(tr) \in Nat /\ \A i \in DOMAIN tr : tr[i] \in S
  OBVIOUS
<1>2. \A i \in DOMAIN tr : tr[i] \in [event : Event, new : BOOLEAN]
  BY <1>1 DEF Trace
<1> QED
  BY <1>1, <1>2 DEF Trace

\* Every step keeps to the types.
LEMMA BusTypeStep == TypeOK /\ [Next]_vars => TypeOK'
<1> SUFFICES ASSUME TypeOK, [Next]_vars PROVE TypeOK'
  OBVIOUS
<1>1. created \in Nat /\ replays \in Nat
  BY DEF TypeOK
<1>2. CASE created' = created
  <2>1. Event' = Event /\ Trace' = Trace /\ Frame' = Frame
    BY <1>2 DEF Event, Trace, Frame, Calling
  <2> DEFINE Typed ==
               /\ subs' \in [Bus -> [Type \cup {Star} -> Seq(Listener)]]
               /\ hist' \in [Bus -> Seq(Event)]
               /\ home' \in Bus \cup {Nowhere}
               /\ trace' \in Trace
               /\ stack' \in Seq(Frame)
               /\ replays' \in 0 .. MaxReplays
               /\ owed' \subseteq Event
               /\ file' \in Seq(Trace) /\ Len(file') <= 1
  <2>0. SUFFICES Typed
    <3>1. Typed => TypeOK'
      BY <1>2, <2>1 DEF TypeOK
    <3> QED
      BY <3>1
  <2>2. ASSUME NEW b \in Bus, NEW t \in Type \cup {Star}, NEW f \in Listener,
               subs' = [subs EXCEPT ![b][t] = Append(@, f)]
        PROVE  subs' \in [Bus -> [Type \cup {Star} -> Seq(Listener)]]
    <3>1. subs[b][t] \in Seq(Listener) /\ subs[b] \in [Type \cup {Star} -> Seq(Listener)]
      BY DEF TypeOK
    <3>2. [subs[b] EXCEPT ![t] = Append(@, f)] \in [Type \cup {Star} -> Seq(Listener)]
      BY <3>1
    <3>3. subs' = [subs EXCEPT ![b] = [subs[b] EXCEPT ![t] = Append(@, f)]]
      BY <2>2
    <3> QED
      BY <3>2, <3>3 DEF TypeOK
  <2>3. ASSUME NEW b \in Bus, NEW t \in Type \cup {Star}, NEW f \in Callback, Subscribe(b, t, f)
        PROVE Typed
    BY <2>2, <2>3 DEF Subscribe, TypeOK, Listener
  <2>4. ASSUME NEW b \in Bus, NEW t \in Type \cup {Star}, NEW f \in Callback, Unsubscribe(b, t, f)
        PROVE Typed
    <3>1. RemoveFirst(subs[b][t], f) \in Seq(Listener)
      <4>1. subs[b][t] \in Seq(Listener) /\ Contains(subs[b][t], f)
        BY <2>4 DEF Unsubscribe, TypeOK
      <4>2. \E g : g # f
        BY BusConstants DEF Listener
      <4> QED
        BY <4>1, <4>2, OthersStay
    <3>2. subs' \in [Bus -> [Type \cup {Star} -> Seq(Listener)]]
      BY <2>4, <3>1 DEF TypeOK, Unsubscribe
    <3> QED
      BY <2>4, <3>2 DEF Unsubscribe, TypeOK
  <2>5. ASSUME NEW b \in Bus, Attach(b) PROVE Typed
    <3>1. subs' \in [Bus -> [Type \cup {Star} -> Seq(Listener)]]
      BY <2>2, <2>5 DEF Attach, Listener
    <3> QED
      BY <2>5, <3>1 DEF Attach, TypeOK
  <2>6. ASSUME NEW b \in Bus, Replay(b) PROVE Typed
    <3>1. Head(hist[b]) \in Event /\ Tail(hist[b]) \in Seq(Event)
      BY <2>6 DEF Replay, TypeOK
    <3>2. Telling(b, Head(hist[b]), Tail(hist[b]), FALSE) \in Frame
      BY <3>1, TellingFrame
    <3>3. stack' \in Seq(Frame)
      BY <2>6, <3>2, PushFacts DEF Replay, Pushed, TypeOK
    <3> QED
      <4>1. replays' \in 0 .. MaxReplays
        BY <1>1, <2>6, BusConstants DEF Replay
      <4> QED
        BY <2>6, <3>3, <4>1 DEF Replay, TypeOK
  <2>7. ASSUME NEW b \in Bus, ClearHistory(b) PROVE Typed
    <3>1. hist' \in [Bus -> Seq(Event)]
      BY <2>7 DEF ClearHistory, TypeOK
    <3> QED
      BY <2>7, <3>1 DEF ClearHistory, TypeOK
  <2>8. ASSUME NEW b \in Bus, Retrace(b) PROVE Typed
    <3>1. Retracing(b) \in Frame
      BY DEF Retracing, Frame, TypeOK, Trace
    <3>3. stack' \in Seq(Frame)
      BY <2>8, <3>1, PushFacts DEF Retrace, Pushed, TypeOK
    <3> QED
      <4>1. replays' \in 0 .. MaxReplays
        BY <1>1, <2>8, BusConstants DEF Retrace
      <4> QED
        BY <2>8, <3>3, <4>1 DEF Retrace, TypeOK
  <2>9. CASE ClearTrace
    <3>1. trace' \in Trace
      BY <2>9 DEF ClearTrace, Trace
    <3> QED
      BY <2>9, <3>1 DEF ClearTrace, TypeOK
  <2>10. CASE Save \/ SaveRaises
    <3>1. file' \in Seq(Trace) /\ Len(file') <= 1
      <4>1. trace \in Trace /\ (file' = <<trace>> \/ file' = <<>>)
        BY <2>10 DEF Save, SaveRaises, TypeOK
      <4>2. \A S, x : x \in S => /\ <<x>> \in Seq(S) /\ Len(<<x>>) <= 1
                                  /\ <<>> \in Seq(S) /\ Len(<<>>) <= 1
        OBVIOUS
      <4> QED
        BY <4>1, <4>2
    <3> QED
      BY <2>10, <3>1 DEF Save, SaveRaises, TypeOK
  <2>11. ASSUME NEW b \in Bus, Load(b) PROVE Typed
    <3>1. subs' \in [Bus -> [Type \cup {Star} -> Seq(Listener)]]
      BY <2>2, <2>11 DEF Load, Listener
    <3>2. file[1] \in Trace
      BY <2>11 DEF Load, TypeOK
    <3>3. EventsIn(file[1]) \subseteq Event
      BY <3>2, TraceEvents DEF EventsIn, NewIn
    <3> QED
      BY <2>11, <3>1, <3>2, <3>3 DEF Load, TypeOK
  <2>12. CASE Tell
    <3>1. stack # <<>> /\ Head(stack) \in TellFrame /\ Head(stack).left # <<>>
      BY <2>12, Innermost, FrameKinds DEF Tell, Inside
    <3> DEFINE told == [Head(stack) EXCEPT !.left = Tail(@)]
    <3>2. told \in TellFrame /\ told \in Frame
      <4>1. Tail(Head(stack).left) \in Seq(Listener)
        BY <3>1 DEF TellFrame
      <4> QED
        BY <3>1, <4>1 DEF TellFrame, Frame
    <3>3. Replaced(told) \in Seq(Frame)
      BY <3>1, <3>2, Innermost, PushFacts DEF Replaced, Returned
    <3>4. Calling \in Frame
      BY DEF Frame
    <3>5. <<Calling>> \o Replaced(told) \in Seq(Frame)
      BY <3>3, <3>4, PushFacts
    <3>6. [event |-> told.event, new |-> told.new] \in [event : Event, new : BOOLEAN]
      BY <3>2 DEF TellFrame
    <3>7. stack' \in Seq(Frame) /\ trace' \in Trace
      <4> HIDE DEF told
      <4>1. CASE Head(Head(stack).left) = Record
        <5>1. /\ trace' = Append(trace, [event |-> told.event, new |-> told.new])
              /\ stack' = Replaced(told)
          BY <2>12, <4>1 DEF Tell, told
        <5> QED
          BY <3>3, <3>6, <5>1 DEF TypeOK, Trace
      <4>2. CASE Head(Head(stack).left) # Record
        <5>1. trace' = trace /\ stack' = <<Calling>> \o Replaced(told)
          BY <2>12, <4>2 DEF Tell, told
        <5> QED
          BY <3>5, <5>1 DEF TypeOK
      <4> QED
        BY <4>1, <4>2
    <3> QED
      BY <2>12, <3>7 DEF Tell, TypeOK
  <2>13. CASE TellWildcards
    <3>1. stack # <<>> /\ Head(stack) \in TellFrame
      BY <2>13, Innermost, FrameKinds DEF TellWildcards, Inside
    <3> DEFINE f == [Head(stack) EXCEPT !.wild = TRUE, !.left = subs[Head(stack).bus][Star]]
    <3>2. f \in Frame
      <4>1. subs[Head(stack).bus][Star] \in Seq(Listener)
        BY <3>1 DEF TellFrame, TypeOK
      <4> QED
        BY <3>1, <4>1 DEF TellFrame, Frame
    <3>3. stack' \in Seq(Frame)
      BY <2>13, <3>1, <3>2, Innermost, PushFacts DEF TellWildcards, Replaced, Returned
    <3> QED
      BY <2>13, <3>3 DEF TellWildcards, TypeOK
  <2>14. CASE Told
    <3> DEFINE f == Head(stack)
    <3>1. stack # <<>> /\ f \in TellFrame /\ Returned \in Seq(Frame)
      BY <2>14, Innermost, FrameKinds DEF Told, Inside
    <3>2. CASE f.rest = <<>>
      BY <2>14, <3>1, <3>2 DEF Told, TypeOK
    <3>3. CASE f.rest # <<>>
      <4>1. Telling(f.bus, Head(f.rest), Tail(f.rest), FALSE) \in Frame
        <5>1. f.bus \in Bus /\ Head(f.rest) \in Event /\ Tail(f.rest) \in Seq(Event)
          BY <3>1, <3>3 DEF TellFrame
        <5> QED
          BY <5>1, TellingFrame
      <4>2. stack' \in Seq(Frame)
        BY <2>14, <3>1, <3>3, <4>1, PushFacts DEF Told, Replaced, Returned
      <4> QED
        BY <2>14, <4>2 DEF Told, TypeOK
    <3> QED
      BY <3>2, <3>3
  <2>15. CASE RetraceNext
    <3> DEFINE f == Head(stack)
               e == trace[f.next].event
               g == [f EXCEPT !.next = @ + 1]
    <3>1. stack # <<>> /\ f \in RetraceFrame /\ Returned \in Seq(Frame)
      BY <2>15, Innermost, FrameKinds DEF RetraceNext, Inside
    <3>2. f.bus \in Bus /\ f.next \in Nat \ {0} /\ f.next \in 1 .. Len(trace)
      BY <2>15, <3>1 DEF RetraceNext, RetraceFrame, TypeOK, Trace
    <3>3. e \in Event
      BY <3>2, TraceEvents DEF TypeOK
    <3>4. g \in Frame
      BY <3>1 DEF RetraceFrame, Frame
    <3>5. Telling(f.bus, e, <<>>, FALSE) \in Frame
      <4>1. <<>> \in Seq(Event)
        OBVIOUS
      <4> QED
        BY <3>2, <3>3, <4>1, TellingFrame
    <3>6. /\ stack' = <<Telling(f.bus, e, <<>>, FALSE)>> \o Replaced(g)
          /\ hist' = [hist EXCEPT ![f.bus] = Append(@, e)]
      BY <2>15 DEF RetraceNext
    <3> HIDE DEF f, e, g
    <3>7. stack' \in Seq(Frame)
      BY <3>1, <3>4, <3>5, <3>6, PushFacts DEF Replaced, Returned
    <3>8. hist' \in [Bus -> Seq(Event)]
      BY <3>2, <3>3, <3>6 DEF TypeOK
    <3> QED
      BY <2>15, <3>7, <3>8 DEF RetraceNext, TypeOK
  <2>16. CASE RetraceEnds
    BY <2>16, Innermost DEF RetraceEnds, TypeOK, Inside
  <2>17. CASE CallbackReturns
    BY <2>17, Innermost DEF CallbackReturns, TypeOK, Inside
  <2>18. CASE CallbackRaises
    BY <2>18, UnwoundFacts DEF CallbackRaises, TypeOK
  <2>19. CASE Restart
    BY <2>19 DEF Restart, TypeOK, Trace
  <2>20. CASE UNCHANGED vars
    BY <2>20 DEF vars, TypeOK
  <2>21. ASSUME NEW b \in Bus, NEW t \in Type, Publish(b, t) PROVE Typed
    BY <1>1, <1>2, <2>21 DEF Publish
  <2> QED
    BY <2>3, <2>4, <2>5, <2>6, <2>7, <2>8, <2>9, <2>10, <2>11, <2>12, <2>13, <2>14,
       <2>15, <2>16, <2>17, <2>18, <2>19, <2>20, <2>21 DEF Next, User, Unwind
<1>3. ASSUME NEW b \in Bus, NEW t \in Type, Publish(b, t) PROVE TypeOK'
  <2>1. created' = created + 1 /\ created' \in 0 .. MaxEvents
    BY <1>1, <1>3, BusConstants DEF Publish, TypeOK
  <2>2. /\ Event \subseteq Event' /\ Trace \subseteq Trace' /\ Frame \subseteq Frame'
        /\ Seq(Event) \subseteq Seq(Event') /\ Seq(Trace) \subseteq Seq(Trace')
        /\ Seq(Frame) \subseteq Seq(Frame')
    BY <1>1, <2>1, EventsStay
  <2>3. NewEvent(t) \in Event'
    <3>1. \A i \in NewTold(stack) : stack[i].event.id \in 1 .. created
      <4>1. \A i \in NewTold(stack) : stack[i] \in TellFrame
        BY FrameKinds DEF NewTold, TypeOK
      <4> QED
        BY <4>1 DEF TellFrame, Event
    <3> DEFINE during == {stack[i].event.id : i \in
                            {j \in NewTold(stack) : stack[j].event \notin HeardEvents}}
    <3>2. during \subseteq 1 .. created
      BY <3>1
    <3>3. NewEvent(t) = [type |-> t, id |-> created + 1, during |-> during]
      BY DEF NewEvent
    <3> HIDE DEF during
    <3> QED
      BY <1>1, <2>1, <3>2, <3>3 DEF Event
  <2>4. Telling(b, NewEvent(t), <<>>, TRUE) \in Frame'
    <3>1. subs[b][t] \in Seq(Listener) /\ NewEvent(t).type = t /\ <<>> \in Seq(Event')
      BY DEF TypeOK, NewEvent
    <3> QED
      BY <2>3, <3>1 DEF Telling, Frame
  <2>5. stack' \in Seq(Frame')
    <3>1. stack \in Seq(Frame')
      BY <2>2 DEF TypeOK
    <3>2. stack' = <<Telling(b, NewEvent(t), <<>>, TRUE)>> \o stack
      BY <1>3 DEF Publish, Pushed
    <3>3. \A S, s, f : s \in Seq(S) /\ f \in S => <<f>> \o s \in Seq(S)
      OBVIOUS
    <3> QED
      BY <2>4, <3>1, <3>2, <3>3
  <2>6. hist' \in [Bus -> Seq(Event')]
    <3>1. hist \in [Bus -> Seq(Event')] /\ hist' = [hist EXCEPT ![b] = Append(@, NewEvent(t))]
      BY <1>3, <2>2 DEF Publish, TypeOK
    <3> QED
      BY <2>3, <3>1
  <2>7. owed' \subseteq Event'
    BY <1>3, <2>2, <2>3 DEF Publish, TypeOK
  <2> QED
    BY <1>3, <2>1, <2>2, <2>5, <2>6, <2>7 DEF Publish, TypeOK
<1>4. created' = created \/ \E b \in Bus, t \in Type : Publish(b, t)
  BY DEF Next, User, Unwind, vars, Subscribe, Unsubscribe, Attach, Replay, ClearHistory, Retrace,
         ClearTrace, Save, SaveRaises, Load, Tell, TellWildcards, Told, RetraceNext, RetraceEnds,
         CallbackReturns, CallbackRaises, Restart
<1> QED
  BY <1>2, <1>3, <1>4

-----------------------------------------------------------------------------
(* The stack stays in order.                                               *)

\* All steps but publish() leave of the new tellings what they were, or less.
LEMMA StackSteps ==
    ASSUME TypeOK, [Next]_vars
    PROVE  \/ \E b \in Bus, t \in Type : Publish(b, t)
           \/ created' = created /\ LeftOf(stack, stack')
<1>a. created' = created \/ \E b \in Bus, t \in Type : Publish(b, t)
  BY DEF Next, User, Unwind, vars, Subscribe, Unsubscribe, Attach, Replay, ClearHistory, Retrace,
         ClearTrace, Save, SaveRaises, Load, Tell, TellWildcards, Told, RetraceNext, RetraceEnds,
         CallbackReturns, CallbackRaises, Restart
<1>b. SUFFICES ASSUME ~\E b \in Bus, t \in Type : Publish(b, t)
                PROVE  LeftOf(stack, stack')
  BY <1>a, Zenon
<1>0. stack \in Seq(Frame)
  BY DEF TypeOK
<1>1. Shifted(stack, stack, 0)
  <2>1. \A i \in NewTold(stack) : i + 0 = i
    BY <1>0, FramesOf
  <2> QED
    BY <2>1 DEF Shifted
<1>2. ASSUME stack' = stack PROVE LeftOf(stack, stack')
  BY <1>1, <1>2, Leaves
<1>3. ASSUME NEW b \in Bus, Replay(b) PROVE LeftOf(stack, stack')
  <2> DEFINE f == Telling(b, Head(hist[b]), Tail(hist[b]), FALSE)
  <2>1. Head(hist[b]) \in Event /\ Tail(hist[b]) \in Seq(Event)
    BY <1>3 DEF Replay, TypeOK
  <2>2. f \in Frame /\ ~IsNewTold(f)
    BY <2>1, TellingFrame DEF Telling, IsNewTold
  <2>3. stack' = <<f>> \o stack
    BY <1>3 DEF Replay, Pushed
  <2> HIDE DEF f
  <2> QED
    BY <1>0, <1>1, <2>2, <2>3, PushShifts, Leaves
<1>4. ASSUME NEW b \in Bus, Retrace(b) PROVE LeftOf(stack, stack')
  <2>1. Retracing(b) \in Frame /\ ~IsNewTold(Retracing(b))
    <3>1. Len(trace) \in Nat
      BY TraceEvents DEF TypeOK
    <3> QED
      BY <3>1 DEF Retracing, Frame, IsNewTold
  <2>2. stack' = <<Retracing(b)>> \o stack
    BY <1>4 DEF Retrace, Pushed
  <2> QED
    BY <1>0, <1>1, <2>1, <2>2, PushShifts, Leaves
<1>5. CASE Tell
  <2> DEFINE told == [Head(stack) EXCEPT !.left = Tail(@)]
  <2>1. stack # <<>> /\ Head(stack) \in TellFrame /\ Head(stack).left # <<>>
    BY <1>5, Innermost, FrameKinds DEF Tell, Inside
  <2>2. /\ Tail(Head(stack).left) \in Seq(Listener)
        /\ Range(Tail(Head(stack).left)) \subseteq Range(Head(stack).left)
    <3>1. Head(stack).left \in Seq(Listener)
      BY <2>1 DEF TellFrame
    <3>2. \A S, q : q \in Seq(S) /\ q # <<>> =>
             Tail(q) \in Seq(S) /\ Range(Tail(q)) \subseteq Range(q)
      BY DEF Range
    <3> QED
      BY <2>1, <3>1, <3>2
  <2>3. told \in Frame /\ told.event = Head(stack).event /\ told.new = Head(stack).new
        /\ told.op = Head(stack).op /\ told.wild = Head(stack).wild
        /\ Range(told.left) \subseteq Range(Head(stack).left)
    BY <2>1, <2>2 DEF TellFrame, Frame
  <2>4. stack' = Replaced(told) \/ stack' = <<Calling>> \o Replaced(told)
    BY <1>5 DEF Tell
  <2> HIDE DEF told
  <2>5. Replaced(told) \in Seq(Frame) /\ Shifted(stack, Replaced(told), 0)
    BY <2>1, <2>3, ReplaceShifts DEF IsNewTold, Awaits
  <2>6. Calling \in Frame /\ ~IsNewTold(Calling)
    BY DEF Calling, Frame, IsNewTold
  <2>7. Shifted(stack, <<Calling>> \o Replaced(told), 0 - 1)
    BY <1>0, <2>5, <2>6, PushShifts
  <2> QED
    BY <2>4, <2>5, <2>7, Leaves
<1>6. CASE TellWildcards
  <2> DEFINE f == [Head(stack) EXCEPT !.wild = TRUE, !.left = subs[Head(stack).bus][Star]]
  <2>1. stack # <<>> /\ Head(stack) \in TellFrame /\ ~Head(stack).wild
    BY <1>6, Innermost, FrameKinds DEF TellWildcards, Inside
  <2>2. subs[Head(stack).bus][Star] \in Seq(Listener)
    BY <2>1 DEF TellFrame, TypeOK
  <2>3. f \in Frame /\ f.event = Head(stack).event /\ f.new = Head(stack).new
        /\ f.op = Head(stack).op
    BY <2>1, <2>2 DEF TellFrame, Frame
  <2>4. stack' = Replaced(f)
    BY <1>6 DEF TellWildcards
  <2> HIDE DEF f
  <2>5. Shifted(stack, Replaced(f), 0)
    BY <2>1, <2>3, ReplaceShifts DEF IsNewTold, Awaits
  <2> QED
    BY <2>4, <2>5, Leaves
<1>7. CASE Told
  <2> DEFINE f == Head(stack)
             g == Telling(f.bus, Head(f.rest), Tail(f.rest), FALSE)
  <2>1. stack # <<>> /\ f \in TellFrame
    BY <1>7, Innermost, FrameKinds DEF Told, Inside
  <2>2. CASE f.rest = <<>>
    <3>1. stack' = Returned
      BY <1>7, <2>2 DEF Told
    <3> QED
      BY <2>1, <3>1, ReturnShifts, Leaves
  <2>3. CASE f.rest # <<>>
    <3>1. g \in Frame /\ ~IsNewTold(g)
      <4>1. f.bus \in Bus /\ Head(f.rest) \in Event /\ Tail(f.rest) \in Seq(Event)
        BY <2>1, <2>3 DEF TellFrame
      <4> QED
        BY <4>1, TellingFrame DEF Telling, IsNewTold
    <3>2. stack' = Replaced(g)
      BY <1>7, <2>3 DEF Told
    <3> HIDE DEF g
    <3> QED
      BY <2>1, <3>1, <3>2, ReplaceShifts, Leaves
  <2> QED
    BY <2>2, <2>3
<1>8. CASE RetraceNext
  <2> DEFINE f == Head(stack)
             g == [f EXCEPT !.next = @ + 1]
             e == trace[f.next].event
             h == Telling(f.bus, e, <<>>, FALSE)
  <2>1. stack # <<>> /\ f \in RetraceFrame
    BY <1>8, Innermost, FrameKinds DEF RetraceNext, Inside
  <2>2. f.bus \in Bus /\ f.next \in Nat \ {0} /\ f.next \in 1 .. Len(trace)
    BY <1>8, <2>1 DEF RetraceNext, RetraceFrame, TypeOK, Trace
  <2>3. e \in Event
    BY <2>2, TraceEvents DEF TypeOK
  <2>4. g \in Frame /\ ~IsNewTold(g)
    BY <2>1 DEF RetraceFrame, Frame, IsNewTold
  <2>5. h \in Frame /\ ~IsNewTold(h)
    <3>1. <<>> \in Seq(Event)
      OBVIOUS
    <3> QED
      BY <2>2, <2>3, <3>1, TellingFrame DEF Telling, IsNewTold
  <2>6. stack' = <<h>> \o Replaced(g)
    BY <1>8 DEF RetraceNext
  <2> HIDE DEF f, g, h
  <2>7. Replaced(g) \in Seq(Frame) /\ Shifted(stack, Replaced(g), 0)
    BY <2>1, <2>4, ReplaceShifts
  <2>8. Shifted(stack, <<h>> \o Replaced(g), 0 - 1)
    BY <1>0, <2>5, <2>7, PushShifts
  <2> QED
    BY <2>6, <2>8, Leaves
<1>9. CASE RetraceEnds \/ CallbackReturns
  <2>1. stack # <<>> /\ stack' = Returned
    BY <1>9 DEF RetraceEnds, CallbackReturns, Inside
  <2> QED
    BY <2>1, ReturnShifts, Leaves
<1>10. CASE CallbackRaises
  <2>1. stack' = Unwound
    BY <1>10 DEF CallbackRaises
  <2>2. PICK d \in Nat : Shifted(stack, Unwound, d)
    BY UnwoundFacts
  <2>3. d \in Int
    OBVIOUS
  <2> QED
    BY <2>1, <2>2, <2>3, Leaves
<1>11. CASE Restart
  <2>1. stack' = <<>>
    BY <1>11 DEF Restart
  <2>2. Shifted(stack, stack', 0)
    BY <2>1 DEF Shifted, NewTold
  <2> QED
    BY <2>2, Leaves
<1>12. stack' = stack \/ (\E b \in Bus : Replay(b) \/ Retrace(b)) \/ Unwind \/ CallbackReturns
       \/ CallbackRaises \/ Restart \/ \E b \in Bus, t \in Type : Publish(b, t)
  BY DEF Next, User, vars, Subscribe, Unsubscribe, Attach, ClearHistory, ClearTrace, Save,
         SaveRaises, Load
<1> QED
  BY <1>2, <1>3, <1>4, <1>5, <1>6, <1>7, <1>8, <1>9, <1>10, <1>11, <1>12, <1>b DEF Unwind

-----------------------------------------------------------------------------
(* Who listens.                                                            *)

Once(s) == \A i, j \in DOMAIN s : s[i] = Record /\ s[j] = Record => i = j

\* The tracer listens to all of its bus and to no other, and only once.
Listening ==
    \A b \in Bus :
        /\ \A t \in Type : Record \notin Range(subs[b][t])
        /\ Record \in Range(subs[b][Star]) <=> b = home
        /\ Once(subs[b][Star])

\* A telling reaches the tracer once at most, among the wildcards, and only if
\* there is one, on bus h.
OneEar(f, h) ==
    f.op = "tell" => /\ Once(f.left)
                     /\ Record \in Range(f.left) => f.wild /\ h # Nowhere

Ears(s, h) == \A i \in DOMAIN s : OneEar(s[i], h)

\* What is appended to a list of listeners is in it, and nothing else is.
LEMMA AppendedListener ==
    ASSUME NEW S, NEW s \in Seq(S), NEW f \in S
    PROVE  /\ Range(Append(s, f)) = Range(s) \cup {f}
           /\ f # Record /\ Once(s) => Once(Append(s, f))
           /\ Record \notin Range(s) => Once(Append(s, f))
<1>1. /\ DOMAIN Append(s, f) = 1 .. Len(s) + 1 /\ Len(s) \in Nat /\ DOMAIN s = 1 .. Len(s)
      /\ \A i \in 1 .. Len(s) : Append(s, f)[i] = s[i]
      /\ Append(s, f)[Len(s) + 1] = f
  OBVIOUS
<1> DEFINE a == Append(s, f)
<1> HIDE DEF a
<1>2. Range(a) = Range(s) \cup {f}
  <2>1. \A i \in 1 .. Len(s) + 1 : a[i] \in Range(s) \cup {f}
    BY <1>1 DEF Range, a
  <2>2. \A i \in 1 .. Len(s) : s[i] \in Range(a)
    BY <1>1 DEF Range, a
  <2>3. f \in Range(a)
    BY <1>1 DEF Range, a
  <2> QED
    BY <1>1, <2>1, <2>2, <2>3 DEF Range, a
<1>3. ASSUME f # Record, Once(s) PROVE Once(a)
  BY <1>1, <1>3 DEF Once, a
<1>4. ASSUME Record \notin Range(s) PROVE Once(a)
  BY <1>1, <1>4 DEF Once, a, Range
<1> QED
  BY <1>2, <1>3, <1>4 DEF a

\* The lists of the bus are typed, its wildcard is no type, and the tracer no
\* client.
LEMMA ListFacts ==
    ASSUME TypeOK
    PROVE  /\ \A b \in Bus, t \in Type \cup {Star} : subs[b][t] \in Seq(Listener)
           /\ Star \notin Type /\ Record \notin Callback /\ Nowhere \notin Bus
           /\ Callback \subseteq Listener /\ Record \in Listener
  BY BusConstants DEF TypeOK, Listener

\* Clients cannot take the tracer off its bus, nor put it there.
LEMMA ListeningSteps ==
    ASSUME TypeOK, Listening, [Next]_vars
    PROVE  Listening'
<1>0. /\ \A b \in Bus, t \in Type \cup {Star} : subs[b][t] \in Seq(Listener)
      /\ Star \notin Type /\ Record \notin Callback /\ Nowhere \notin Bus
      /\ Callback \subseteq Listener /\ Record \in Listener
  BY ListFacts
<1>1. ASSUME subs' = subs, home' = home PROVE Listening'
  BY <1>1 DEF Listening
<1>2. ASSUME NEW b \in Bus, NEW t \in Type \cup {Star}, NEW f \in Callback, Subscribe(b, t, f)
      PROVE  Listening'
  <2> DEFINE l == Append(subs[b][t], f)
  <2>1. subs' = [subs EXCEPT ![b][t] = l] /\ home' = home
    BY <1>2 DEF Subscribe
  <2>2. Range(l) = Range(subs[b][t]) \cup {f} /\ f # Record /\ (Once(subs[b][t]) => Once(l))
    BY <1>0, AppendedListener
  <2> HIDE DEF l
  <2>3. \A c \in Bus, u \in Type \cup {Star} :
           subs'[c][u] = IF c = b /\ u = t THEN l ELSE subs[c][u]
    <3>1. /\ subs[b] \in [Type \cup {Star} -> Seq(Listener)]
          /\ subs \in [Bus -> [Type \cup {Star} -> Seq(Listener)]]
      BY DEF TypeOK
    <3>2. subs' = [subs EXCEPT ![b] = [subs[b] EXCEPT ![t] = l]]
      BY <2>1
    <3> QED
      BY <3>1, <3>2
  <2> QED
    BY <2>1, <2>2, <2>3 DEF Listening
<1>3. ASSUME NEW b \in Bus, NEW t \in Type \cup {Star}, NEW f \in Callback, Unsubscribe(b, t, f)
      PROVE  Listening'
  <2> DEFINE l == RemoveFirst(subs[b][t], f)
  <2>1. subs' = [subs EXCEPT ![b][t] = l] /\ home' = home /\ Contains(subs[b][t], f)
    BY <1>3 DEF Unsubscribe
  <2>2. /\ Record \in Range(l) <=> Record \in Range(subs[b][t])
        /\ Once(subs[b][t]) => Once(l)
    <3>1. Record # f
      BY <1>0
    <3> QED
      BY <1>0, <2>1, <3>1, OthersStay DEF Once
  <2> HIDE DEF l
  <2>3. \A c \in Bus, u \in Type \cup {Star} :
           subs'[c][u] = IF c = b /\ u = t THEN l ELSE subs[c][u]
    <3>1. /\ subs[b] \in [Type \cup {Star} -> Seq(Listener)]
          /\ subs \in [Bus -> [Type \cup {Star} -> Seq(Listener)]]
      BY DEF TypeOK
    <3>2. subs' = [subs EXCEPT ![b] = [subs[b] EXCEPT ![t] = l]]
      BY <2>1
    <3> QED
      BY <3>1, <3>2
  <2> QED
    BY <2>1, <2>2, <2>3 DEF Listening
<1>4. ASSUME NEW b \in Bus, Attach(b) \/ Load(b) PROVE Listening'
  <2> DEFINE l == Append(subs[b][Star], Record)
  <2>1. subs' = [subs EXCEPT ![b][Star] = l] /\ home' = b /\ home = Nowhere
    BY <1>4 DEF Attach, Load
  <2>2. Record \notin Range(subs[b][Star])
    BY <1>0, <2>1 DEF Listening
  <2>3. Record \in Range(l) /\ Once(l)
    BY <1>0, <2>2, AppendedListener
  <2> HIDE DEF l
  <2>4. \A c \in Bus, u \in Type \cup {Star} :
           subs'[c][u] = IF c = b /\ u = Star THEN l ELSE subs[c][u]
    <3>1. /\ subs[b] \in [Type \cup {Star} -> Seq(Listener)]
          /\ subs \in [Bus -> [Type \cup {Star} -> Seq(Listener)]]
      BY DEF TypeOK
    <3>2. subs' = [subs EXCEPT ![b] = [subs[b] EXCEPT ![Star] = l]]
      BY <2>1
    <3> QED
      BY <3>1, <3>2
  <2> QED
    BY <1>0, <2>1, <2>3, <2>4 DEF Listening
<1>5. CASE Restart
  <2>1. /\ \A c \in Bus, u \in Type \cup {Star} : subs'[c][u] = <<>>
        /\ home' = Nowhere
    BY <1>5 DEF Restart
  <2>2. Range(<<>>) = {} /\ Once(<<>>)
    BY DEF Range, Once
  <2> QED
    BY <1>0, <2>1, <2>2 DEF Listening
<1> QED
  BY <1>1, <1>2, <1>3, <1>4, <1>5
     DEF Next, User, Unwind, vars, Publish, Replay, ClearHistory, Retrace, ClearTrace, Save,
         SaveRaises, Tell, TellWildcards, Told, RetraceNext, RetraceEnds, CallbackReturns,
         CallbackRaises

\* A tracer that comes into being does no harm.
LEMMA MoreEars ==
    ASSUME NEW s, NEW h, NEW k, Ears(s, h), h # Nowhere => k # Nowhere
    PROVE  Ears(s, k)
  BY DEF Ears, OneEar

\* A frame is put on the stack.
LEMMA PushEars ==
    ASSUME NEW s \in Seq(Frame), NEW f \in Frame, NEW h, Ears(s, h), OneEar(f, h)
    PROVE  Ears(<<f>> \o s, h)
<1> DEFINE p == <<f>> \o s
<1>1. /\ p \in Seq(Frame) /\ Len(p) = Len(s) + 1 /\ p[1] = f /\ Len(s) \in Nat
      /\ \A i \in 2 .. Len(s) + 1 : p[i] = s[i - 1]
  BY PushFacts
<1> HIDE DEF p
<1>2. DOMAIN p = 1 .. Len(p) /\ DOMAIN s = 1 .. Len(s)
  BY <1>1, FramesOf
<1>3. ASSUME NEW i \in DOMAIN p PROVE OneEar(p[i], h)
  <2>1. CASE i = 1
    BY <1>1, <2>1
  <2>2. CASE i # 1
    <3>1. p[i] = s[i - 1] /\ i - 1 \in DOMAIN s
      BY <1>1, <1>2, <2>2
    <3> QED
      BY <3>1 DEF Ears
  <2> QED
    BY <2>1, <2>2
<1> QED
  BY <1>3 DEF Ears, p

\* The innermost frame is gone.
LEMMA ReturnEars ==
    ASSUME TypeOK, stack # <<>>, NEW h, Ears(stack, h)
    PROVE  Ears(Returned, h) /\ OneEar(Head(stack), h)
<1>1. /\ Head(stack) = stack[1] /\ Returned \in Seq(Frame) /\ stack \in Seq(Frame)
      /\ Len(stack) \in Nat /\ Len(stack) # 0 /\ Len(Returned) = Len(stack) - 1
      /\ \A i \in 1 .. Len(stack) - 1 : Returned[i] = stack[i + 1]
  BY Innermost DEF TypeOK
<1>2. DOMAIN stack = 1 .. Len(stack) /\ DOMAIN Returned = 1 .. Len(Returned)
  BY <1>1, FramesOf
<1>3. ASSUME NEW i \in DOMAIN Returned PROVE OneEar(Returned[i], h)
  <2>1. Returned[i] = stack[i + 1] /\ i + 1 \in DOMAIN stack
    BY <1>1, <1>2
  <2> QED
    BY <2>1 DEF Ears
<1>4. 1 \in DOMAIN stack
  BY <1>1, <1>2
<1> QED
  BY <1>1, <1>3, <1>4 DEF Ears

\* A telling begins with listeners to its type, of which the tracer is none.
LEMMA TellingEar ==
    ASSUME TypeOK, Listening, NEW b \in Bus, NEW e, e.type \in Type, NEW rest, NEW new, NEW h
    PROVE  OneEar(Telling(b, e, rest, new), h)
<1>1. Record \notin Range(subs[b][e.type])
  BY DEF Listening
<1>2. Once(subs[b][e.type])
  BY <1>1 DEF Once, Range
<1> QED
  BY <1>1, <1>2 DEF OneEar, Telling

\* Of a list of listeners, the first and the others.
LEMMA TailOnce ==
    ASSUME NEW q \in Seq(Listener), q # <<>>, Once(q)
    PROVE  /\ Range(Tail(q)) \subseteq Range(q) /\ Once(Tail(q)) /\ Head(q) \in Range(q)
           /\ Head(q) = Record => Record \notin Range(Tail(q))
           /\ Head(q) # Record /\ Record \in Range(q) => Record \in Range(Tail(q))
<1>1. /\ Tail(q) \in Seq(Listener) /\ DOMAIN q = 1 .. Len(q) /\ Len(q) \in Nat /\ Len(q) # 0
      /\ DOMAIN Tail(q) = 1 .. Len(q) - 1 /\ Head(q) = q[1]
      /\ \A i \in 1 .. Len(q) - 1 : Tail(q)[i] = q[i + 1]
  OBVIOUS
<1> DEFINE r == Tail(q)
<1> HIDE DEF r
<1>2. \A i \in DOMAIN r : i \in Nat /\ i + 1 \in DOMAIN q /\ r[i] = q[i + 1] /\ i + 1 # 1
  BY <1>1 DEF r
<1>3. Once(r)
  <2> SUFFICES ASSUME NEW i \in DOMAIN r, NEW j \in DOMAIN r, r[i] = Record, r[j] = Record
               PROVE  i = j
    BY DEF Once
  <2>1. i + 1 = j + 1
    BY <1>2 DEF Once
  <2> QED
    BY <1>2, <2>1
<1>4. Range(r) \subseteq Range(q)
  BY <1>2 DEF Range
<1>5. Head(q) \in Range(q)
  BY <1>1 DEF Range
<1>6. ASSUME Head(q) = Record PROVE Record \notin Range(r)
  <2>1. 1 \in DOMAIN q /\ q[1] = Record
    BY <1>1, <1>6
  <2>2. \A i \in DOMAIN r : r[i] # Record
    BY <1>2, <2>1 DEF Once
  <2> QED
    BY <2>2 DEF Range
<1>7. ASSUME Head(q) # Record, NEW i \in DOMAIN q, q[i] = Record PROVE Record \in Range(r)
  <2>1. i - 1 \in DOMAIN r /\ i - 1 + 1 = i
    BY <1>1, <1>7 DEF r
  <2>2. r[i - 1] = Record
    BY <1>2, <1>7, <2>1
  <2> QED
    BY <2>1, <2>2 DEF Range
<1> QED
  BY <1>3, <1>4, <1>5, <1>6, <1>7 DEF r, Range

\* The innermost telling, its first listener told.
OneTold == [Head(stack) EXCEPT !.left = Tail(@)]

\* What Tell does, to the tracer and to others.
TellsTracer ==
    /\ trace' = Append(trace, [event |-> Head(stack).event, new |-> Head(stack).new])
    /\ stack' = Replaced(OneTold)
    /\ Head(stack).wild /\ home # Nowhere
    /\ Record \in Range(Head(stack).left) /\ Record \notin Range(OneTold.left)

TellsOther ==
    /\ trace' = trace
    /\ stack' = <<Calling>> \o Replaced(OneTold)
    /\ Record \in Range(Head(stack).left) => Record \in Range(OneTold.left)

\* It is one or the other, and the frame is about the same event as before.
LEMMA TellFacts ==
    ASSUME TypeOK, Ears(stack, home), Tell
    PROVE  /\ stack # <<>> /\ Head(stack) \in TellFrame
           /\ OneTold \in TellFrame /\ OneTold \in Frame /\ OneEar(OneTold, home)
           /\ OneTold.op = "tell" /\ Head(stack).op = "tell"
           /\ OneTold.event = Head(stack).event /\ OneTold.bus = Head(stack).bus
           /\ OneTold.new = Head(stack).new /\ OneTold.wild = Head(stack).wild
           /\ Range(OneTold.left) \subseteq Range(Head(stack).left)
           /\ TellsTracer \/ TellsOther
<1>1. /\ stack # <<>> /\ Head(stack) \in TellFrame
      /\ Head(stack).left # <<>> /\ Head(stack).op = "tell"
  BY Innermost, FrameKinds DEF Tell, Inside
<1>2. OneEar(Head(stack), home)
  BY <1>1, ReturnEars
<1>3. Head(stack).left \in Seq(Listener) /\ Once(Head(stack).left)
  BY <1>1, <1>2 DEF TellFrame, OneEar
<1>4. /\ OneTold \in TellFrame /\ OneTold.op = "tell" /\ OneTold.left = Tail(Head(stack).left)
      /\ OneTold.event = Head(stack).event /\ OneTold.bus = Head(stack).bus
      /\ OneTold.new = Head(stack).new /\ OneTold.wild = Head(stack).wild
  <2>1. Tail(Head(stack).left) \in Seq(Listener)
    BY <1>1, <1>3
  <2> QED
    BY <1>1, <2>1 DEF TellFrame, OneTold
<1>5. OneTold \in Frame
  BY <1>4 DEF TellFrame, Frame
<1> DEFINE q == Head(stack).left
<1>6. /\ Range(Tail(q)) \subseteq Range(q) /\ Once(Tail(q)) /\ Head(q) \in Range(q)
      /\ Head(q) = Record => Record \notin Range(Tail(q))
      /\ Head(q) # Record /\ Record \in Range(q) => Record \in Range(Tail(q))
  BY <1>1, <1>3, TailOnce
<1>7. OneEar(OneTold, home)
  BY <1>1, <1>2, <1>4, <1>6 DEF OneEar
<1>8. CASE Head(q) = Record
  <2>1. /\ trace' = Append(trace, [event |-> OneTold.event, new |-> OneTold.new])
        /\ stack' = Replaced(OneTold)
    BY <1>8 DEF Tell, OneTold
  <2>2. Head(stack).wild /\ home # Nowhere
    BY <1>1, <1>2, <1>6, <1>8 DEF OneEar
  <2>3. TellsTracer
    BY <1>4, <1>6, <1>8, <2>1, <2>2 DEF TellsTracer
  <2> QED
    BY <1>1, <1>4, <1>5, <1>6, <1>7, <2>3
<1>9. CASE Head(q) # Record
  <2>1. trace' = trace /\ stack' = <<Calling>> \o Replaced(OneTold)
    BY <1>9 DEF Tell, OneTold
  <2>2. TellsOther
    BY <1>4, <1>6, <1>9, <2>1 DEF TellsOther
  <2> QED
    BY <1>1, <1>4, <1>5, <1>6, <1>7, <2>2
<1> QED
  BY <1>8, <1>9

\* Every step leaves frames that tell the tracer once.
LEMMA EarSteps ==
    ASSUME TypeOK, Listening, Ears(stack, home), [Next]_vars
    PROVE  Ears(stack', home')
<1>0. /\ \A b \in Bus, t \in Type \cup {Star} : subs[b][t] \in Seq(Listener)
      /\ Nowhere \notin Bus /\ stack \in Seq(Frame) /\ hist \in [Bus -> Seq(Event)]
      /\ \A e \in Event : e.type \in Type
  BY ListFacts DEF TypeOK, Event
<1>1. CASE Restart
  BY <1>1 DEF Restart, Ears
<1>a. Restart \/ (home # Nowhere => home' # Nowhere)
  BY <1>0 DEF Next, User, Unwind, vars, Subscribe, Unsubscribe, Attach, Publish, Replay,
     ClearHistory, Retrace, ClearTrace, Save, SaveRaises, Load, Tell, TellWildcards, Told,
     RetraceNext, RetraceEnds, CallbackReturns, CallbackRaises
<1>2. SUFFICES ASSUME ~Restart PROVE Ears(stack', home)
  BY <1>1, <1>a, MoreEars
<1>3. ASSUME NEW f \in Frame, OneEar(f, home), stack' = <<f>> \o stack PROVE Ears(stack', home)
  BY <1>0, <1>3, PushEars
<1>4. ASSUME stack # <<>>, NEW f \in Frame, OneEar(f, home)
      PROVE  Ears(Replaced(f), home) /\ Replaced(f) \in Seq(Frame)
  BY <1>4, Innermost, ReturnEars, PushEars, PushFacts DEF Replaced, Returned
<1>5. ASSUME NEW b \in Bus, NEW t \in Type, Publish(b, t) PROVE Ears(stack', home)
  \* The event of the new frame has an id of the next state only.
  <2> DEFINE f == Telling(b, NewEvent(t), <<>>, TRUE)
  <2>1. stack' = <<f>> \o stack
    BY <1>5 DEF Publish, Pushed
  <2>2. OneEar(f, home)
    <3>1. NewEvent(t).type \in Type
      BY DEF NewEvent
    <3> QED
      BY <3>1, TellingEar
  <2> HIDE DEF f
  <2>3. ASSUME NEW i \in DOMAIN stack' PROVE OneEar(stack'[i], home)
    <3>1. stack'[1] = f /\ \A k \in 2 .. Len(stack) + 1 : stack'[k] = stack[k - 1]
      BY <1>0, <2>1
    <3>2. /\ DOMAIN stack' = 1 .. Len(stack) + 1 /\ Len(stack) \in Nat
          /\ DOMAIN stack = 1 .. Len(stack)
      BY <1>0, <2>1
    <3>3. CASE i = 1
      BY <2>2, <3>1, <3>3
    <3>4. CASE i # 1
      <4>1. stack'[i] = stack[i - 1] /\ i - 1 \in DOMAIN stack
        BY <3>1, <3>2, <3>4
      <4> QED
        BY <4>1 DEF Ears
    <3> QED
      BY <3>3, <3>4
  <2> QED
    BY <2>3 DEF Ears
<1>6. ASSUME NEW b \in Bus, Replay(b) PROVE Ears(stack', home)
  <2> DEFINE f == Telling(b, Head(hist[b]), Tail(hist[b]), FALSE)
  <2>1. Head(hist[b]) \in Event /\ Tail(hist[b]) \in Seq(Event)
    BY <1>6 DEF Replay, TypeOK
  <2>2. f \in Frame /\ OneEar(f, home)
    <3>1. f \in Frame
      BY <2>1, TellingFrame
    <3>2. Head(hist[b]).type \in Type
      BY <1>0, <2>1
    <3> QED
      BY <3>1, <3>2, TellingEar
  <2> QED
    BY <1>3, <1>6, <2>2 DEF Replay, Pushed
<1>7. ASSUME NEW b \in Bus, Retrace(b) PROVE Ears(stack', home)
  <2>1. Retracing(b) \in Frame /\ OneEar(Retracing(b), home)
    <3>1. Len(trace) \in Nat
      BY TraceEvents DEF TypeOK
    <3> QED
      BY <3>1 DEF Retracing, Frame, OneEar
  <2> QED
    BY <1>3, <1>7, <2>1 DEF Retrace, Pushed
<1>8. CASE Tell
  <2>1. stack # <<>> /\ OneTold \in Frame /\ OneEar(OneTold, home)
    BY <1>8, TellFacts
  <2>2. Ears(Replaced(OneTold), home) /\ Replaced(OneTold) \in Seq(Frame)
    BY <1>4, <2>1
  <2>3. Calling \in Frame /\ OneEar(Calling, home)
    BY DEF Calling, Frame, OneEar
  <2>4. Ears(<<Calling>> \o Replaced(OneTold), home)
    BY <2>2, <2>3, PushEars
  <2>5. stack' = Replaced(OneTold) \/ stack' = <<Calling>> \o Replaced(OneTold)
    BY <1>8, TellFacts DEF TellsTracer, TellsOther
  <2> QED
    BY <2>2, <2>4, <2>5
<1>9. CASE TellWildcards
  <2> DEFINE f == [Head(stack) EXCEPT !.wild = TRUE, !.left = subs[Head(stack).bus][Star]]
  <2>1. stack # <<>> /\ Head(stack) \in TellFrame
    BY <1>9, Innermost, FrameKinds DEF TellWildcards, Inside
  <2>2. /\ Head(stack).bus \in Bus /\ subs[Head(stack).bus][Star] \in Seq(Listener)
        /\ Once(subs[Head(stack).bus][Star])
        /\ Record \in Range(subs[Head(stack).bus][Star]) => home # Nowhere
    BY <1>0, <2>1 DEF TellFrame, Listening
  <2>3. f \in Frame /\ f.wild /\ f.left = subs[Head(stack).bus][Star]
    BY <2>1, <2>2 DEF TellFrame, Frame
  <2>4. stack' = Replaced(f)
    BY <1>9 DEF TellWildcards
  <2> HIDE DEF f
  <2>5. OneEar(f, home)
    BY <2>2, <2>3 DEF OneEar
  <2> QED
    BY <1>4, <2>1, <2>3, <2>4, <2>5
<1>10. CASE Told
  <2> DEFINE f == Head(stack)
             g == Telling(f.bus, Head(f.rest), Tail(f.rest), FALSE)
  <2>1. stack # <<>> /\ f \in TellFrame
    BY <1>10, Innermost, FrameKinds DEF Told, Inside
  <2>2. CASE f.rest = <<>>
    BY <1>10, <2>1, <2>2, ReturnEars DEF Told
  <2>3. CASE f.rest # <<>>
    <3>1. g \in Frame /\ OneEar(g, home)
      <4>1. f.bus \in Bus /\ Head(f.rest) \in Event /\ Tail(f.rest) \in Seq(Event)
        BY <2>1, <2>3 DEF TellFrame
      <4>2. Head(f.rest).type \in Type
        BY <1>0, <4>1
      <4> QED
        BY <4>1, <4>2, TellingFrame, TellingEar
    <3>2. stack' = Replaced(g)
      BY <1>10, <2>3 DEF Told
    <3> HIDE DEF g
    <3> QED
      BY <1>4, <2>1, <3>1, <3>2
  <2> QED
    BY <2>2, <2>3
<1>11. CASE RetraceNext
  <2> DEFINE f == Head(stack)
             g == [f EXCEPT !.next = @ + 1]
             e == trace[f.next].event
             h == Telling(f.bus, e, <<>>, FALSE)
  <2>1. stack # <<>> /\ f \in RetraceFrame
    BY <1>11, Innermost, FrameKinds DEF RetraceNext, Inside
  <2>2. f.bus \in Bus /\ f.next \in Nat \ {0} /\ f.next \in 1 .. Len(trace)
    BY <1>11, <2>1 DEF RetraceNext, RetraceFrame, TypeOK, Trace
  <2>3. e \in Event /\ e.type \in Type
    BY <1>0, <2>2, TraceEvents DEF TypeOK
  <2>4. g \in Frame /\ OneEar(g, home)
    BY <2>1 DEF RetraceFrame, Frame, OneEar
  <2>5. h \in Frame /\ OneEar(h, home)
    <3>1. <<>> \in Seq(Event)
      OBVIOUS
    <3>2. h \in Frame
      BY <2>2, <2>3, <3>1, TellingFrame
    <3> QED
      BY <2>2, <2>3, <3>2, TellingEar
  <2>6. stack' = <<h>> \o Replaced(g)
    BY <1>11 DEF RetraceNext
  <2> HIDE DEF f, g, h
  <2>7. Replaced(g) \in Seq(Frame) /\ Ears(Replaced(g), home)
    BY <1>4, <2>1, <2>4
  <2> QED
    BY <2>5, <2>6, <2>7, PushEars
<1>12. CASE RetraceEnds \/ CallbackReturns
  BY <1>12, ReturnEars DEF RetraceEnds, CallbackReturns, Inside
<1>13. CASE CallbackRaises
  <2>1. PICK d \in Nat :
           \A i \in DOMAIN Unwound : i + d \in DOMAIN stack /\ Unwound[i] = stack[i + d]
    BY UnwoundFacts
  <2> QED
    BY <1>13, <2>1 DEF CallbackRaises, Ears
<1>14. CASE stack' = stack
  BY <1>14
<1>15. stack' = stack \/ (\E b \in Bus : Replay(b) \/ Retrace(b)) \/ Unwind \/ CallbackReturns
       \/ CallbackRaises \/ \E b \in Bus, t \in Type : Publish(b, t)
  BY <1>2 DEF Next, User, vars, Subscribe, Unsubscribe, Attach, ClearHistory, ClearTrace, Save,
         SaveRaises, Load
<1> QED
  BY <1>5, <1>6, <1>7, <1>8, <1>9, <1>10, <1>11, <1>12, <1>13, <1>14, <1>15 DEF Unwind

-----------------------------------------------------------------------------
(* The order of the trace.                                                 *)

\* If the tracer may still hear the event of frame f, then that event has still
\* its place in trace tr: after those it was published in the telling of, and
\* before those published while it is told.
InTime(f, tr) ==
    \A j \in NewIn(tr) :
        /\ f.event.id = tr[j].event.id => f.event = tr[j].event
        /\ Awaits(f) =>
              /\ f.event.id # tr[j].event.id
              /\ tr[j].event.id < f.event.id => tr[j].event.id \notin f.event.during
              /\ f.event.id < tr[j].event.id => f.event.id \in tr[j].event.during

AllInTime(s, tr) == \A i \in NewTold(s) : InTime(s[i], tr)

\* No event is twice in tr, and they are there in depth-first order.
Orderly(tr) ==
    \A i, j \in NewIn(tr) :
        /\ tr[i].event.id = tr[j].event.id => i = j
        /\ tr[i].event.id > tr[j].event.id =>
              (i < j <=> tr[j].event.id \in tr[i].event.during)

\* The events of the stack, of a trace and of the file have ids given out.
LEMMA Ids ==
    ASSUME TypeOK
    PROVE  /\ created \in Nat
           /\ \A i \in NewTold(stack) : stack[i].event.id \in 1 .. created
           /\ \A tr \in Trace : \A j \in NewIn(tr) :
                 /\ tr[j].event.id \in 1 .. created /\ tr[j].event.during \subseteq 1 .. created
                 /\ j \in 1 .. Len(tr) /\ Len(tr) \in Nat
<1>1. created \in Nat /\ stack \in Seq(Frame)
  BY DEF TypeOK
<1>2. \A i \in NewTold(stack) : stack[i] \in TellFrame
  BY <1>1, FramesOf
<1>3. \A e \in Event : e.id \in 1 .. created /\ e.during \subseteq 1 .. created
  BY DEF Event
<1>4. \A i \in NewTold(stack) : stack[i].event.id \in 1 .. created
  BY <1>2, <1>3 DEF TellFrame
<1>5. \A tr \in Trace : \A j \in NewIn(tr) :
         tr[j].event \in Event /\ j \in 1 .. Len(tr) /\ Len(tr) \in Nat
  BY TraceEvents DEF NewIn
<1> QED
  BY <1>1, <1>3, <1>4, <1>5

\* What publish() puts on the stack.
LEMMA PublishFacts ==
    ASSUME TypeOK, NEW b \in Bus, NEW t \in Type, Publish(b, t)
    PROVE  /\ NewEvent(t).id = created + 1 /\ stack'[1] = Telling(b, NewEvent(t), <<>>, TRUE)
           /\ stack'[1].event = NewEvent(t) /\ ~stack'[1].wild
           /\ \A i \in NewTold(stack') :
                 \/ i = 1
                 \/ i \in Nat /\ i > 1 /\ i - 1 \in NewTold(stack) /\ stack'[i] = stack[i - 1]
           /\ \A i \in NewTold(stack) :
                 i \in Nat /\ i + 1 \in NewTold(stack') /\ stack'[i + 1] = stack[i]
           /\ 1 \in NewTold(stack')
           /\ \A i \in NewTold(stack) :
                 stack[i].event \notin HeardEvents => stack[i].event.id \in NewEvent(t).during
<1> DEFINE F == Telling(b, NewEvent(t), <<>>, TRUE)
<1>1. stack' = <<F>> \o stack
  BY DEF Publish, Pushed
<1>2. F.op = "tell" /\ F.new /\ ~F.wild /\ F.event = NewEvent(t)
  BY DEF Telling
<1> HIDE DEF F
<1>3. /\ DOMAIN stack = 1 .. Len(stack) /\ Len(stack) \in Nat
      /\ DOMAIN stack' = 1 .. Len(stack) + 1 /\ stack'[1] = F
      /\ \A k \in 2 .. Len(stack) + 1 : stack'[k] = stack[k - 1]
  <2>1. stack \in Seq(Frame)
    BY DEF TypeOK
  <2>2. \A S, s, f : s \in Seq(S) => /\ DOMAIN s = 1 .. Len(s) /\ Len(s) \in Nat
                                     /\ DOMAIN (<<f>> \o s) = 1 .. Len(s) + 1 /\ (<<f>> \o s)[1] = f
                                     /\ \A k \in 2 .. Len(s) + 1 : (<<f>> \o s)[k] = s[k - 1]
    OBVIOUS
  <2> QED
    BY <1>1, <2>1, <2>2
<1>4. NewTold(stack') = {1} \cup {i \in 2 .. Len(stack) + 1 : i - 1 \in NewTold(stack)}
  <2>1. \A i \in DOMAIN stack' :
           \/ i = 1
           \/ i \in 2 .. Len(stack) + 1 /\ i - 1 \in DOMAIN stack /\ stack'[i] = stack[i - 1]
    BY <1>3
  <2>2. \A i \in 2 .. Len(stack) + 1 : i \in DOMAIN stack' /\ i # 1
    BY <1>3
  <2> QED
    BY <1>2, <1>3, <2>1, <2>2 DEF NewTold
<1>5. \A i \in NewTold(stack) : i \in Nat /\ i + 1 \in 2 .. Len(stack) + 1 /\ i + 1 - 1 = i
  BY <1>3 DEF NewTold
<1>6. \A i \in NewTold(stack) : i + 1 \in NewTold(stack') /\ stack'[i + 1] = stack[i]
  <2> SUFFICES ASSUME NEW i \in NewTold(stack)
               PROVE  i + 1 \in NewTold(stack') /\ stack'[i + 1] = stack[i]
    OBVIOUS
  <2>1. i \in Nat /\ i + 1 \in 2 .. Len(stack) + 1 /\ i + 1 - 1 = i
    BY <1>5
  <2> QED
    BY <1>3, <1>4, <2>1
<1>7. \A i \in NewTold(stack') :
         \/ i = 1
         \/ i \in Nat /\ i > 1 /\ i - 1 \in NewTold(stack) /\ stack'[i] = stack[i - 1]
  BY <1>3, <1>4
<1>8. /\ NewEvent(t).id = created + 1
      /\ NewEvent(t).during =
            {stack[i].event.id : i \in {j \in NewTold(stack) : stack[j].event \notin HeardEvents}}
  BY DEF NewEvent
<1>9. \A i \in NewTold(stack) :
         stack[i].event \notin HeardEvents => stack[i].event.id \in NewEvent(t).during
  BY <1>8
<1> QED
  BY <1>2, <1>3, <1>4, <1>5, <1>6, <1>7, <1>8, <1>9 DEF F

\* The stack stays in order.
LEMMA OrderSteps ==
    ASSUME TypeOK, TypeOK', StackInOrder(stack), AllInTime(stack, trace), [Next]_vars
    PROVE  StackInOrder(stack')
<1>1. created' = created => Frame' = Frame
  BY DEF Frame, Event, Calling
<1>2. ASSUME created' = created, LeftOf(stack, stack') PROVE StackInOrder(stack')
  <2>1. PICK d \in Int : Shifted(stack, stack', d)
    BY <1>2 DEF LeftOf
  <2>2. stack \in Seq(Frame) /\ stack' \in Seq(Frame)
    BY <1>1, <1>2 DEF TypeOK
  <2> QED
    BY <2>1, <2>2, ShiftKeepsOrder
<1>3. ASSUME NEW b \in Bus, NEW t \in Type, Publish(b, t) PROVE StackInOrder(stack')
  <2>1. /\ NewEvent(t).id = created + 1 /\ stack'[1].event = NewEvent(t)
        /\ \A i \in NewTold(stack') :
              \/ i = 1
              \/ i \in Nat /\ i > 1 /\ i - 1 \in NewTold(stack) /\ stack'[i] = stack[i - 1]
        /\ \A i \in NewTold(stack) :
              stack[i].event \notin HeardEvents => stack[i].event.id \in NewEvent(t).during
    BY <1>3, PublishFacts
  <2>2. \A i \in NewTold(stack) : Awaits(stack[i]) => stack[i].event \notin HeardEvents
    BY DEF AllInTime, InTime, HeardEvents, EventsIn
  <2> SUFFICES ASSUME NEW i \in NewTold(stack'), NEW j \in NewTold(stack'), i < j
               PROVE  /\ stack'[j].event.id < stack'[i].event.id
                      /\ Awaits(stack'[j]) => stack'[j].event.id \in stack'[i].event.during
    BY DEF StackInOrder
  <2>3. j \in Nat /\ j > 1 /\ j - 1 \in NewTold(stack) /\ stack'[j] = stack[j - 1]
    BY <2>1
  <2>4. CASE i = 1
    <3>1. stack[j - 1].event.id < created + 1
      BY <2>3, Ids
    <3> QED
      BY <2>1, <2>2, <2>3, <2>4, <3>1
  <2>5. CASE i # 1
    <3>1. i \in Nat /\ i - 1 \in NewTold(stack) /\ stack'[i] = stack[i - 1]
      BY <2>1, <2>5
    <3>2. i - 1 < j - 1
      BY <2>3, <3>1
    <3> QED
      BY <2>3, <3>1, <3>2 DEF StackInOrder
  <2> QED
    BY <2>4, <2>5
<1> QED
  BY <1>2, <1>3, StackSteps

\* Trace a is tr with entry x more, at n.
OneMore(tr, a, n, x) ==
    /\ \A i \in NewIn(a) : i = n \/ (i \in NewIn(tr) /\ a[i] = tr[i])
    /\ \A i \in NewIn(tr) : i \in NewIn(a) /\ a[i] = tr[i] /\ i \in Nat /\ i < n
    /\ n \in NewIn(a) <=> x.new
    /\ a[n] = x /\ n \in Nat

\* That is what an appended entry does.
LEMMA AppendedEntry ==
    ASSUME NEW tr \in Trace, NEW x
    PROVE  OneMore(tr, Append(tr, x), Len(tr) + 1, x)
<1>1. /\ DOMAIN Append(tr, x) = 1 .. Len(tr) + 1 /\ Len(tr) \in Nat /\ DOMAIN tr = 1 .. Len(tr)
      /\ \A i \in 1 .. Len(tr) : Append(tr, x)[i] = tr[i]
      /\ Append(tr, x)[Len(tr) + 1] = x
  BY DEF Trace
<1> DEFINE a == Append(tr, x)
           n == Len(tr) + 1
<1>2. /\ DOMAIN a = 1 .. n /\ n \in Nat /\ DOMAIN tr = 1 .. n - 1 /\ n > 0
      /\ \A i \in 1 .. n - 1 : a[i] = tr[i]
      /\ a[n] = x
  BY <1>1
<1> HIDE DEF a, n
<1>3. n \in DOMAIN a /\ \A i \in DOMAIN a : i = n \/ i \in DOMAIN tr
  BY <1>2
<1>4. \A i \in DOMAIN tr : i \in DOMAIN a /\ i \in Nat /\ i < n
  BY <1>2
<1>5. /\ \A i \in NewIn(a) : i = n \/ (i \in NewIn(tr) /\ a[i] = tr[i])
      /\ \A i \in NewIn(tr) : i \in NewIn(a) /\ a[i] = tr[i]
      /\ n \in NewIn(a) <=> x.new
  BY <1>2, <1>3, <1>4 DEF NewIn
<1>6. \A i \in NewIn(tr) : i \in Nat /\ i < n
  BY <1>4 DEF NewIn
<1> QED
  BY <1>2, <1>5, <1>6 DEF a, n, OneMore

\* Only these steps change the trace.
LEMMA TraceSteps ==
    ASSUME [Next]_vars
    PROVE  trace' = trace \/ Tell \/ ClearTrace \/ Restart \/ \E b \in Bus : Load(b)
  BY DEF Next, User, Unwind, vars, Subscribe, Unsubscribe, Attach, Publish, Replay,
     ClearHistory, Retrace, Save, SaveRaises, TellWildcards, Told, RetraceNext, RetraceEnds,
     CallbackReturns, CallbackRaises

\* A frame that is about the same event and waits no longer is in time as well.
LEMMA StillInTime ==
    ASSUME NEW f, NEW g, NEW tr, InTime(g, tr), g.event = f.event, Awaits(f) => Awaits(g)
    PROVE  InTime(f, tr)
  BY DEF InTime

\* What the tracer hears comes in time for those further out.
LEMMA HeardInTime ==
    ASSUME TypeOK, StackInOrder(stack), Ears(stack, home), AllInTime(stack, trace),
           Tell, TellsTracer
    PROVE  AllInTime(stack', trace')
<1> DEFINE x == [event |-> Head(stack).event, new |-> Head(stack).new]
           n == Len(trace) + 1
           g == OneTold
<1>1. /\ trace' = Append(trace, x) /\ stack' = Replaced(g) /\ stack # <<>>
      /\ Record \notin Range(g.left) /\ g.wild /\ g.event = Head(stack).event
      /\ g.new = Head(stack).new /\ g \in Frame /\ Head(stack).op = "tell" /\ g.op = "tell"
      /\ Record \in Range(Head(stack).left) /\ trace \in Trace /\ stack \in Seq(Frame)
      /\ x.event = Head(stack).event /\ x.new = Head(stack).new
  BY TellFacts DEF TellsTracer, TypeOK
<1>2. /\ \A i \in NewIn(trace') : i = n \/ (i \in NewIn(trace) /\ trace'[i] = trace[i])
      /\ n \in NewIn(trace') <=> x.new
      /\ trace'[n] = x
  <2>0. trace' = Append(trace, x) /\ trace \in Trace
    BY <1>1
  <2> HIDE DEF x
  <2>1. OneMore(trace, trace', n, x)
    BY <2>0, AppendedEntry
  <2> QED
    BY <2>1 DEF OneMore
<1>3. /\ DOMAIN stack' = DOMAIN stack /\ DOMAIN stack = 1 .. Len(stack) /\ Len(stack) \in Nat
      /\ Len(stack) # 0 /\ stack'[1] = g /\ Head(stack) = stack[1]
      /\ \A k \in 2 .. Len(stack) : stack'[k] = stack[k]
  <2>1. /\ Returned \in Seq(Frame) /\ Len(stack) \in Nat /\ Len(stack) # 0
        /\ Len(Returned) = Len(stack) - 1 /\ Head(stack) = stack[1]
        /\ \A i \in 1 .. Len(stack) - 1 : Returned[i] = stack[i + 1]
    BY <1>1, Innermost
  <2>2. stack' = <<g>> \o Returned
    BY <1>1 DEF Replaced, Returned
  <2> HIDE DEF g
  <2>3. /\ stack' \in Seq(Frame) /\ Len(stack') = Len(stack) /\ stack'[1] = g
        /\ \A i \in 2 .. Len(stack) : stack'[i] = Returned[i - 1]
    BY <1>1, <2>1, <2>2, PushFacts
  <2>4. \A i \in 2 .. Len(stack) : i - 1 \in 1 .. Len(stack) - 1 /\ i - 1 + 1 = i
    BY <2>1
  <2> QED
    BY <1>1, <2>1, <2>3, <2>4, FramesOf
<1> HIDE DEF x, n, g
<1> SUFFICES ASSUME NEW i \in NewTold(stack'), NEW j \in NewIn(trace')
             PROVE  /\ stack'[i].event.id = trace'[j].event.id => stack'[i].event = trace'[j].event
                    /\ Awaits(stack'[i]) =>
                         /\ stack'[i].event.id # trace'[j].event.id
                         /\ trace'[j].event.id < stack'[i].event.id =>
                              trace'[j].event.id \notin stack'[i].event.during
                         /\ stack'[i].event.id < trace'[j].event.id =>
                              stack'[i].event.id \in trace'[j].event.during
  BY DEF AllInTime, InTime
<1>4. /\ i \in NewTold(stack) /\ stack'[i].event = stack[i].event
      /\ Awaits(stack'[i]) => Awaits(stack[i]) /\ i # 1
      /\ i \in 1 .. Len(stack)
  <2>1. CASE i = 1
    BY <1>1, <1>3, <2>1 DEF NewTold, Awaits
  <2>2. CASE i # 1
    <3>1. i \in 2 .. Len(stack)
      BY <1>3, <2>2 DEF NewTold
    <3> QED
      BY <1>3, <2>2, <3>1 DEF NewTold
  <2> QED
    BY <2>1, <2>2
<1>5. CASE j = n
  <2>1. trace'[j].event = stack[1].event /\ 1 \in NewTold(stack)
    <3>1. x.new
      BY <1>2, <1>5
    <3>2. stack[1].op = "tell" /\ stack[1].new /\ 1 \in DOMAIN stack
      BY <1>1, <1>3, <3>1
    <3> QED
      BY <1>1, <1>2, <1>3, <1>5, <3>2 DEF NewTold
  <2>2. CASE i = 1
    BY <1>4, <2>1, <2>2
  <2>3. CASE i # 1
    <3>1. /\ stack[i].event.id < stack[1].event.id
          /\ Awaits(stack[i]) => stack[i].event.id \in stack[1].event.during
      <4>1. 1 < i
        BY <1>4, <2>3
      <4> QED
        BY <1>4, <2>1, <4>1 DEF StackInOrder
    <3>2. stack[i].event.id \in Nat /\ stack[1].event.id \in Nat
      BY <1>4, <2>1, Ids
    <3> QED
      BY <1>4, <2>1, <3>1, <3>2
  <2> QED
    BY <2>2, <2>3
<1>6. CASE j # n
  <2>1. j \in NewIn(trace) /\ trace'[j] = trace[j]
    BY <1>2, <1>6
  <2> QED
    BY <1>4, <2>1 DEF AllInTime, InTime
<1> QED
  BY <1>5, <1>6

\* What is in the file was heard in order.
FileOrderly == file # <<>> => Orderly(file[1])

\* Before there is a tracer, none hears or is owed anything, and what another
\* tracer has saved is older than what is being told.
Unattached ==
    home = Nowhere =>
        /\ trace = <<>> /\ owed = {}
        /\ file # <<>> =>
              \A i \in NewTold(stack) : \A j \in NewIn(file[1]) :
                 /\ file[1][j].event.id < stack[i].event.id
                 /\ file[1][j].event.id \notin stack[i].event.during

\* What tells a new event after a step other than publish() told it before.
LEMMA ToldBefore ==
    ASSUME LeftOf(stack, stack'), NEW i \in NewTold(stack')
    PROVE  \E k \in NewTold(stack) : /\ stack[k].event = stack'[i].event
                                     /\ Awaits(stack'[i]) => Awaits(stack[k])
<1>1. PICK d \in Int : Shifted(stack, stack', d)
  BY DEF LeftOf
<1> QED
  BY <1>1 DEF Shifted

\* No trace, no order.
LEMMA EmptyTrace ==
    ASSUME NEW tr, tr = <<>>
    PROVE  /\ Orderly(tr) /\ NewIn(tr) = {} /\ \A s : AllInTime(s, tr)
<1>1. NewIn(tr) = {}
  BY DEF NewIn
<1> QED
  BY <1>1 DEF Orderly, AllInTime, InTime

\* The frames stay in time.
LEMMA InTimeSteps ==
    ASSUME TypeOK, StackInOrder(stack), Ears(stack, home), AllInTime(stack, trace),
           Unattached, [Next]_vars
    PROVE  AllInTime(stack', trace')
<1>1. ASSUME NEW tr, AllInTime(stack, tr), LeftOf(stack, stack')
      PROVE  AllInTime(stack', tr)
  <2> SUFFICES ASSUME NEW i \in NewTold(stack') PROVE InTime(stack'[i], tr)
    BY DEF AllInTime
  <2>1. PICK k \in NewTold(stack) : /\ stack[k].event = stack'[i].event
                                    /\ Awaits(stack'[i]) => Awaits(stack[k])
    BY <1>1, ToldBefore
  <2>2. InTime(stack[k], tr)
    BY <1>1 DEF AllInTime
  <2> QED
    BY <2>1, <2>2, StillInTime
<1>2. ASSUME NEW b \in Bus, NEW t \in Type, Publish(b, t)
      PROVE  AllInTime(stack', trace')
  <2>1. /\ NewEvent(t).id = created + 1 /\ stack'[1].event = NewEvent(t)
        /\ \A i \in NewTold(stack') :
              \/ i = 1
              \/ i \in Nat /\ i > 1 /\ i - 1 \in NewTold(stack) /\ stack'[i] = stack[i - 1]
    BY <1>2, PublishFacts
  <2>2. trace' = trace /\ trace \in Trace /\ created \in Nat
    BY <1>2, Ids DEF Publish, TypeOK
  <2> SUFFICES ASSUME NEW i \in NewTold(stack') PROVE InTime(stack'[i], trace)
    BY <2>2 DEF AllInTime
  <2>3. CASE i = 1
    <3> SUFFICES ASSUME NEW j \in NewIn(trace)
                 PROVE  /\ NewEvent(t).id # trace[j].event.id
                        /\ ~NewEvent(t).id < trace[j].event.id
                        /\ trace[j].event.id \notin NewEvent(t).during
      BY <2>1, <2>3 DEF InTime
    <3>1. trace[j].event.id \in 1 .. created
      BY <2>2, Ids
    <3>2. ASSUME trace[j].event.id \in NewEvent(t).during PROVE FALSE
      <4>1. PICK k \in NewTold(stack) :
               trace[j].event.id = stack[k].event.id /\ stack[k].event \notin HeardEvents
        BY <3>2 DEF NewEvent
      <4>2. stack[k].event = trace[j].event
        BY <4>1 DEF AllInTime, InTime
      <4> QED
        BY <4>1, <4>2 DEF HeardEvents, EventsIn
    <3> QED
      BY <2>1, <2>2, <3>1, <3>2
  <2>4. CASE i # 1
    <3>1. i - 1 \in NewTold(stack) /\ stack'[i] = stack[i - 1]
      BY <2>1, <2>4
    <3> QED
      BY <3>1 DEF AllInTime
  <2> QED
    BY <2>3, <2>4
<1>3. ASSUME ~\E b \in Bus, t \in Type : Publish(b, t) PROVE LeftOf(stack, stack')
  BY <1>3, StackSteps
<1>4. ASSUME trace' = trace PROVE AllInTime(stack', trace')
  BY <1>1, <1>2, <1>3, <1>4
<1>5. CASE Tell
  <2>1. CASE TellsTracer
    BY <1>5, <2>1, HeardInTime
  <2>2. CASE TellsOther
    BY <1>4, <2>2 DEF TellsOther
  <2> QED
    BY <1>5, <2>1, <2>2, TellFacts
<1>6. CASE ClearTrace \/ Restart
  <2>1. trace' = <<>>
    BY <1>6 DEF ClearTrace, Restart
  <2> QED
    BY <2>1, EmptyTrace
<1>7. ASSUME NEW b \in Bus, Load(b) PROVE AllInTime(stack', trace')
  <2>1. home = Nowhere /\ file # <<>> /\ trace' = file[1] /\ stack' = stack
    BY <1>7 DEF Load
  <2>2. file[1] \in Trace
    BY <2>1 DEF TypeOK
  <2> SUFFICES ASSUME NEW i \in NewTold(stack), NEW j \in NewIn(file[1])
               PROVE  /\ stack[i].event.id # file[1][j].event.id
                      /\ ~stack[i].event.id < file[1][j].event.id
                      /\ file[1][j].event.id \notin stack[i].event.during
    BY <2>1 DEF AllInTime, InTime
  <2>3. stack[i].event.id \in Nat /\ file[1][j].event.id \in Nat
    BY <2>2, Ids
  <2>4. /\ file[1][j].event.id < stack[i].event.id
        /\ file[1][j].event.id \notin stack[i].event.during
    BY <2>1 DEF Unattached
  <2> QED
    BY <2>3, <2>4
<1> QED
  BY <1>4, <1>5, <1>6, <1>7, TraceSteps

\* The trace stays in order.
LEMMA OrderlySteps ==
    ASSUME TypeOK, Ears(stack, home), AllInTime(stack, trace), Orderly(trace), FileOrderly,
           [Next]_vars
    PROVE  Orderly(trace')
<1>1. CASE TellsTracer /\ Tell
  <2> DEFINE x == [event |-> Head(stack).event, new |-> Head(stack).new]
             n == Len(trace) + 1
  <2>1. /\ trace' = Append(trace, x) /\ stack # <<>> /\ Head(stack).op = "tell"
        /\ Record \in Range(Head(stack).left) /\ trace \in Trace
        /\ x.event = Head(stack).event /\ x.new = Head(stack).new
    BY <1>1, TellFacts DEF TellsTracer, TypeOK
  <2>2. /\ Head(stack) = stack[1] /\ 1 \in DOMAIN stack
    BY <2>1, Innermost, FramesOf DEF TypeOK
  <2> HIDE DEF x, n
  <2>3. OneMore(trace, trace', n, x)
    BY <2>1, AppendedEntry DEF n
  <2>4. x.new => /\ InTime(stack[1], trace) /\ Awaits(stack[1])
                 /\ 1 \in NewTold(stack) /\ x.event = stack[1].event
    BY <2>1, <2>2 DEF AllInTime, NewTold, Awaits
  <2> SUFFICES ASSUME NEW i \in NewIn(trace'), NEW j \in NewIn(trace')
               PROVE  /\ trace'[i].event.id = trace'[j].event.id => i = j
                      /\ trace'[i].event.id > trace'[j].event.id =>
                            (i < j <=> trace'[j].event.id \in trace'[i].event.during)
    BY DEF Orderly
  <2>5. /\ i = n \/ (i \in NewIn(trace) /\ trace'[i] = trace[i] /\ i \in Nat /\ i < n)
        /\ j = n \/ (j \in NewIn(trace) /\ trace'[j] = trace[j] /\ j \in Nat /\ j < n)
        /\ i = n \/ j = n => x.new
        /\ trace'[n] = x /\ n \in Nat
    BY <2>3 DEF OneMore
  <2>6. /\ \A k \in NewIn(trace) : trace[k].event.id \in Nat
        /\ x.new => x.event.id \in Nat
    BY <2>1, <2>4, Ids
  <2>7. CASE i = n /\ j = n
    BY <2>5, <2>6, <2>7
  <2>8. CASE i = n /\ j # n
    <3>1. /\ j \in NewIn(trace) /\ trace'[j] = trace[j] /\ j \in Nat /\ j < n
          /\ trace'[i] = x /\ x.event = stack[1].event
          /\ InTime(stack[1], trace) /\ Awaits(stack[1])
      BY <2>4, <2>5, <2>8
    <3>2. /\ stack[1].event.id # trace[j].event.id
          /\ trace[j].event.id < stack[1].event.id => trace[j].event.id \notin stack[1].event.during
      BY <3>1 DEF InTime
    <3>3. ~i < j
      BY <2>5, <2>8, <3>1
    <3> QED
      BY <2>4, <2>5, <2>6, <2>8, <3>1, <3>2, <3>3
  <2>9. CASE i # n /\ j = n
    <3>1. /\ i \in NewIn(trace) /\ trace'[i] = trace[i] /\ i \in Nat /\ i < n
          /\ trace'[j] = x /\ x.event = stack[1].event
          /\ InTime(stack[1], trace) /\ Awaits(stack[1])
      BY <2>4, <2>5, <2>9
    <3>2. /\ stack[1].event.id # trace[i].event.id
          /\ stack[1].event.id < trace[i].event.id => stack[1].event.id \in trace[i].event.during
      BY <3>1 DEF InTime
    <3> QED
      BY <2>4, <2>5, <2>6, <2>9, <3>1, <3>2
  <2>10. CASE i # n /\ j # n
    BY <2>5, <2>10 DEF Orderly
  <2> QED
    BY <2>7, <2>8, <2>9, <2>10
<1>2. ASSUME trace' = trace PROVE Orderly(trace')
  BY <1>2
<1>3. CASE ClearTrace \/ Restart
  <2>1. trace' = <<>>
    BY <1>3 DEF ClearTrace, Restart
  <2> QED
    BY <2>1, EmptyTrace
<1>4. ASSUME NEW b \in Bus, Load(b) PROVE Orderly(trace')
  BY <1>4 DEF Load, FileOrderly
<1>5. Tell => trace' = trace \/ (TellsTracer /\ Tell)
  BY TellFacts DEF TellsOther
<1> QED
  BY <1>1, <1>2, <1>3, <1>4, <1>5, TraceSteps

\* Only the tracer writes its file.
LEMMA FileSteps ==
    ASSUME TypeOK, Orderly(trace), FileOrderly, [Next]_vars
    PROVE  FileOrderly'
<1>1. file' = file \/ Save \/ SaveRaises
  BY DEF Next, User, Unwind, vars, Subscribe, Unsubscribe, Attach, Publish, Replay, ClearHistory,
     Retrace, ClearTrace, Load, Tell, TellWildcards, Told, RetraceNext, RetraceEnds,
     CallbackReturns, CallbackRaises, Restart
<1>2. CASE file' = file
  BY <1>2 DEF FileOrderly
<1>3. CASE Save
  <2>1. file' # <<>> => file'[1] = trace
    BY <1>3 DEF Save
  <2> QED
    BY <2>1 DEF FileOrderly
<1>4. CASE SaveRaises
  BY <1>4 DEF SaveRaises, FileOrderly
<1> QED
  BY <1>1, <1>2, <1>3, <1>4

\* Before there is a tracer, nothing changes for it but what is being told.
LEMMA UnattachedSteps ==
    ASSUME TypeOK, Ears(stack, home), Unattached, [Next]_vars
    PROVE  Unattached'
<1>1. CASE Restart
  <2>1. NewTold(stack') = {} /\ trace' = <<>> /\ owed' = {}
    BY <1>1 DEF Restart, NewTold
  <2> QED
    BY <2>1 DEF Unattached
<1>2. ASSUME NEW b \in Bus, Attach(b) \/ Load(b) PROVE Unattached'
  <2>1. home' # Nowhere
    BY <1>2, BusConstants DEF Attach, Load
  <2> QED
    BY <2>1 DEF Unattached
<1>3. ASSUME ~Restart, ~\E b \in Bus : Attach(b) \/ Load(b) PROVE home' = home
  BY <1>3 DEF Next, User, Unwind, vars, Subscribe, Unsubscribe, Publish, Replay, ClearHistory,
     Retrace, ClearTrace, Save, SaveRaises, Tell, TellWildcards, Told, RetraceNext, RetraceEnds,
     CallbackReturns, CallbackRaises
<1>4. ASSUME ~Restart, ~\E b \in Bus : Attach(b) \/ Load(b), home = Nowhere PROVE Unattached'
  <2>1. trace = <<>> /\ owed = {} /\ home' = home
    BY <1>3, <1>4 DEF Unattached
  <2>2. file' = file
    BY <1>4 DEF Next, User, Unwind, vars, Subscribe, Unsubscribe, Attach, Publish, Replay,
       ClearHistory, Retrace, ClearTrace, Save, SaveRaises, Load, Tell, TellWildcards, Told,
       RetraceNext, RetraceEnds, CallbackReturns, CallbackRaises
  <2>3. trace' = <<>>
    <3>1. Tell => trace' = trace
      BY <1>4, TellFacts DEF TellsTracer, TellsOther
    <3>2. ClearTrace => trace' = <<>>
      BY DEF ClearTrace
    <3> QED
      BY <1>4, <2>1, <3>1, <3>2, TraceSteps
  <2>4. owed' = {}
    <3>1. \A b \in Bus : b # Nowhere
      BY BusConstants
    <3>2. owed' = owed \/ owed' \subseteq owed
      BY <1>4, <3>1 DEF Next, User, Unwind, vars, Subscribe, Unsubscribe, Attach, Publish, Replay,
         ClearHistory, Retrace, ClearTrace, Save, SaveRaises, Load, Tell, TellWildcards, Told,
         RetraceNext, RetraceEnds, CallbackReturns, CallbackRaises
    <3> QED
      BY <2>1, <3>2
  <2>5. ASSUME file # <<>>, NEW i \in NewTold(stack'), NEW j \in NewIn(file[1])
        PROVE  /\ file[1][j].event.id < stack'[i].event.id
               /\ file[1][j].event.id \notin stack'[i].event.during
    <3>1. /\ \A k \in NewTold(stack) : /\ file[1][j].event.id < stack[k].event.id
                                       /\ file[1][j].event.id \notin stack[k].event.during
          /\ file[1] \in Trace
      BY <1>4, <2>5 DEF Unattached, TypeOK
    <3>2. ASSUME LeftOf(stack, stack')
          PROVE  /\ file[1][j].event.id < stack'[i].event.id
                 /\ file[1][j].event.id \notin stack'[i].event.during
      <4>1. PICK k \in NewTold(stack) : /\ stack[k].event = stack'[i].event
                                        /\ Awaits(stack'[i]) => Awaits(stack[k])
        BY <3>2, ToldBefore
      <4> QED
        BY <3>1, <4>1
    <3>3. ASSUME NEW b \in Bus, NEW t \in Type, Publish(b, t)
          PROVE  /\ file[1][j].event.id < stack'[i].event.id
                 /\ file[1][j].event.id \notin stack'[i].event.during
      <4>1. /\ NewEvent(t).id = created + 1 /\ stack'[1].event = NewEvent(t)
            /\ \/ i = 1
               \/ i \in Nat /\ i > 1 /\ i - 1 \in NewTold(stack) /\ stack'[i] = stack[i - 1]
        BY <3>3, PublishFacts
      <4>2. file[1][j].event.id \in 1 .. created /\ created \in Nat
        BY <3>1, Ids
      <4>3. file[1][j].event.id \notin NewEvent(t).during
        <5> SUFFICES ASSUME file[1][j].event.id \in NewEvent(t).during PROVE FALSE
          OBVIOUS
        <5>1. PICK k \in NewTold(stack) : file[1][j].event.id = stack[k].event.id
          BY DEF NewEvent
        <5>2. file[1][j].event.id < file[1][j].event.id
          BY <3>1, <5>1
        <5> QED
          BY <4>2, <5>2
      <4> QED
        BY <3>1, <4>1, <4>2, <4>3
    <3> QED
      BY <3>2, <3>3, StackSteps
  <2> QED
    BY <2>2, <2>3, <2>4, <2>5 DEF Unattached
<1>5. ASSUME ~Restart, ~\E b \in Bus : Attach(b) \/ Load(b), home # Nowhere PROVE Unattached'
  <2>1. home' # Nowhere
    BY <1>3, <1>5
  <2> QED
    BY <2>1 DEF Unattached
<1> QED
  BY <1>1, <1>2, <1>4, <1>5

-----------------------------------------------------------------------------
(* Nothing is missed.                                                      *)

\* The telling in frame f reaches the tracer, on bus h.
Due(f, h) == Record \in Range(f.left) \/ (~f.wild /\ f.bus = h)

\* What is told new in stack s and due is so in r, or among the events heard.
Keeps(s, r, h, heard) ==
    \A i \in NewTold(s) : Due(s[i], h) =>
        \/ s[i].event \in heard
        \/ \E k \in NewTold(r) : r[k].event = s[i].event /\ Due(r[k], h)

OwedKept ==
    \A e \in owed :
        \/ e \in HeardEvents
        \/ \E i \in NewTold(stack) : stack[i].event = e /\ Due(stack[i], home)

\* A frame is put on the stack.
LEMMA PushKeeps ==
    ASSUME NEW s, NEW r \in Seq(Frame), NEW f \in Frame, NEW h, NEW heard, Keeps(s, r, h, heard)
    PROVE  Keeps(s, <<f>> \o r, h, heard)
<1> DEFINE p == <<f>> \o r
<1>1. /\ p \in Seq(Frame) /\ Len(p) = Len(r) + 1 /\ Len(r) \in Nat
      /\ \A i \in 2 .. Len(r) + 1 : p[i] = r[i - 1]
  BY PushFacts
<1> HIDE DEF p
<1>2. ASSUME NEW k \in NewTold(r) PROVE k + 1 \in NewTold(p) /\ p[k + 1] = r[k]
  <2>1. k \in 1 .. Len(r) /\ IsNewTold(r[k])
    BY FramesOf
  <2>2. k + 1 \in 2 .. Len(r) + 1 /\ k + 1 - 1 = k
    BY <1>1, <2>1
  <2>3. p[k + 1] = r[k] /\ k + 1 \in 1 .. Len(p)
    BY <1>1, <2>1, <2>2
  <2> QED
    BY <1>1, <2>1, <2>3, FramesOf
<1>3. Keeps(s, p, h, heard)
  BY <1>2 DEF Keeps
<1> QED
  BY <1>3 DEF p

\* The innermost frame is gone, which was no new telling that is due.
LEMMA ReturnKeeps ==
    ASSUME TypeOK, stack # <<>>, NEW h, NEW heard,
           IsNewTold(Head(stack)) => ~Due(Head(stack), h) \/ Head(stack).event \in heard
    PROVE  Keeps(stack, Returned, h, heard)
<1>1. /\ Returned \in Seq(Frame) /\ Len(stack) \in Nat /\ Len(stack) # 0
      /\ Len(Returned) = Len(stack) - 1 /\ stack \in Seq(Frame) /\ Head(stack) = stack[1]
      /\ \A i \in 1 .. Len(stack) - 1 : Returned[i] = stack[i + 1]
  BY Innermost DEF TypeOK
<1>2. ASSUME NEW i \in NewTold(stack), i # 1
      PROVE  i - 1 \in NewTold(Returned) /\ Returned[i - 1] = stack[i]
  <2>1. i \in 1 .. Len(stack) /\ IsNewTold(stack[i])
    BY <1>1, FramesOf
  <2>2. i - 1 \in 1 .. Len(stack) - 1 /\ i - 1 + 1 = i
    BY <1>1, <1>2, <2>1
  <2>3. Returned[i - 1] = stack[i] /\ i - 1 \in 1 .. Len(Returned)
    BY <1>1, <2>2
  <2> QED
    BY <1>1, <2>1, <2>3, FramesOf
<1>3. ASSUME NEW i \in NewTold(stack) PROVE IsNewTold(stack[i])
  BY <1>1, FramesOf
<1> QED
  BY <1>1, <1>2, <1>3 DEF Keeps

\* The innermost frame is replaced by one that is due for the same event, if it
\* was due and its event is not heard.
LEMMA ReplaceKeeps ==
    ASSUME TypeOK, stack # <<>>, NEW g \in Frame, NEW h, NEW heard,
           IsNewTold(Head(stack)) /\ Due(Head(stack), h) =>
              \/ Head(stack).event \in heard
              \/ IsNewTold(g) /\ g.event = Head(stack).event /\ Due(g, h)
    PROVE  Keeps(stack, Replaced(g), h, heard)
<1> DEFINE p == <<g>> \o Returned
<1>1. /\ Returned \in Seq(Frame) /\ Len(stack) \in Nat /\ Len(stack) # 0
      /\ Len(Returned) = Len(stack) - 1 /\ stack \in Seq(Frame) /\ Head(stack) = stack[1]
      /\ \A i \in 1 .. Len(stack) - 1 : Returned[i] = stack[i + 1]
  BY Innermost DEF TypeOK
<1>2. /\ p \in Seq(Frame) /\ Len(p) = Len(stack) /\ p[1] = g
      /\ \A i \in 2 .. Len(stack) : p[i] = Returned[i - 1]
  BY <1>1, PushFacts
<1>3. Replaced(g) = p
  BY DEF Replaced, Returned
<1> HIDE DEF p
<1>4. ASSUME NEW i \in NewTold(stack), i # 1 PROVE i \in NewTold(p) /\ p[i] = stack[i]
  <2>1. i \in 1 .. Len(stack) /\ IsNewTold(stack[i])
    BY <1>1, FramesOf
  <2>2. i - 1 \in 1 .. Len(stack) - 1 /\ i - 1 + 1 = i /\ i \in 2 .. Len(stack)
    BY <1>1, <1>4, <2>1
  <2>3. p[i] = stack[i] /\ i \in 1 .. Len(p)
    BY <1>1, <1>2, <2>2
  <2> QED
    BY <1>2, <2>1, <2>3, FramesOf
<1>5. IsNewTold(g) => 1 \in NewTold(p)
  <2>1. 1 \in 1 .. Len(p)
    BY <1>1, <1>2
  <2> QED
    BY <1>2, <2>1, FramesOf
<1>6. ASSUME NEW i \in NewTold(stack) PROVE IsNewTold(stack[i])
  BY <1>1, FramesOf
<1>7. Keeps(stack, p, h, heard)
  BY <1>1, <1>2, <1>4, <1>5, <1>6 DEF Keeps
<1> QED
  BY <1>3, <1>7

\* Two frames of a stack in order that tell the same new event are one.
LEMMA OneTelling ==
    ASSUME TypeOK, StackInOrder(stack), NEW i \in NewTold(stack), NEW j \in NewTold(stack),
           stack[i].event = stack[j].event
    PROVE  i = j
<1>1. i \in Nat /\ j \in Nat
  BY FramesOf DEF TypeOK
<1>2. stack[i].event.id \in Nat
  BY Ids
<1>3. ~i < j /\ ~j < i
  BY <1>2 DEF StackInOrder
<1> QED
  BY <1>1, <1>3

\* But for an exception and the end of the process, what is told new and due
\* stays so until the tracer hears it.
LEMMA KeepSteps ==
    ASSUME TypeOK, Listening, Ears(stack, home), [Next]_vars
    PROVE  \/ CallbackRaises \/ Restart
           \/ Keeps(stack, stack', home, EventsIn(trace'))
<1> DEFINE H == EventsIn(trace')
<1>0. /\ stack \in Seq(Frame) /\ hist \in [Bus -> Seq(Event)] /\ trace \in Trace
      /\ \A b \in Bus : Record \in Range(subs[b][Star]) <=> b = home
  BY DEF TypeOK, Listening
<1> SUFFICES ASSUME ~CallbackRaises, ~Restart PROVE Keeps(stack, stack', home, H)
  OBVIOUS
<1> HIDE DEF H
<1>1. Keeps(stack, stack, home, H)
  BY DEF Keeps
<1>2. ASSUME NEW f \in Frame, stack' = <<f>> \o stack PROVE Keeps(stack, stack', home, H)
  BY <1>0, <1>1, <1>2, PushKeeps
<1>3. ASSUME NEW b \in Bus, NEW t \in Type, Publish(b, t) PROVE Keeps(stack, stack', home, H)
  <2>1. \A i \in NewTold(stack) : i + 1 \in NewTold(stack') /\ stack'[i + 1] = stack[i]
    BY <1>3, PublishFacts
  <2> QED
    BY <2>1 DEF Keeps
<1>4. ASSUME NEW b \in Bus, Replay(b) PROVE Keeps(stack, stack', home, H)
  <2>1. Head(hist[b]) \in Event /\ Tail(hist[b]) \in Seq(Event)
    BY <1>4 DEF Replay, TypeOK
  <2>2. Telling(b, Head(hist[b]), Tail(hist[b]), FALSE) \in Frame
    BY <2>1, TellingFrame
  <2> QED
    BY <1>2, <1>4, <2>2 DEF Replay, Pushed
<1>5. ASSUME NEW b \in Bus, Retrace(b) PROVE Keeps(stack, stack', home, H)
  <2>1. Retracing(b) \in Frame
    <3>1. Len(trace) \in Nat
      BY <1>0, TraceEvents
    <3> QED
      BY <3>1 DEF Retracing, Frame
  <2> QED
    BY <1>2, <1>5, <2>1 DEF Retrace, Pushed
<1>6. CASE Tell
  <2>1. /\ stack # <<>> /\ Head(stack) \in TellFrame /\ OneTold \in Frame
        /\ OneTold.op = "tell" /\ OneTold.event = Head(stack).event
        /\ OneTold.new = Head(stack).new /\ OneTold.wild = Head(stack).wild
        /\ OneTold.bus = Head(stack).bus
        /\ TellsTracer \/ TellsOther
    BY <1>6, TellFacts
  <2>2. CASE TellsTracer
    <3>1. IsNewTold(Head(stack)) => Head(stack).event \in H
      <4> DEFINE x == [event |-> Head(stack).event, new |-> Head(stack).new]
      <4>1. trace' = Append(trace, x) /\ x.event = Head(stack).event /\ x.new = Head(stack).new
        BY <2>2 DEF TellsTracer
      <4> HIDE DEF x
      <4>2. OneMore(trace, trace', Len(trace) + 1, x)
        BY <1>0, <4>1, AppendedEntry
      <4> QED
        BY <4>1, <4>2 DEF OneMore, H, EventsIn, IsNewTold
    <3> QED
      BY <2>1, <2>2, <3>1, ReplaceKeeps DEF TellsTracer
  <2>3. CASE TellsOther
    <3>1. Due(Head(stack), home) => Due(OneTold, home)
      BY <2>1, <2>3 DEF TellsOther, Due
    <3>2. Keeps(stack, Replaced(OneTold), home, H)
      BY <2>1, <3>1, ReplaceKeeps DEF IsNewTold
    <3>3. Replaced(OneTold) \in Seq(Frame)
      BY <2>1, Innermost, PushFacts DEF Replaced, Returned
    <3>4. Calling \in Frame /\ stack' = <<Calling>> \o Replaced(OneTold)
      BY <2>3 DEF Calling, Frame, TellsOther
    <3> QED
      BY <3>2, <3>3, <3>4, PushKeeps
  <2> QED
    BY <2>1, <2>2, <2>3
<1>7. CASE TellWildcards
  <2> DEFINE f == [Head(stack) EXCEPT !.wild = TRUE, !.left = subs[Head(stack).bus][Star]]
  <2>1. /\ stack # <<>> /\ Head(stack) \in TellFrame /\ Head(stack).left = <<>>
        /\ ~Head(stack).wild
    BY <1>7, Innermost, FrameKinds DEF TellWildcards, Inside
  <2>2. Head(stack).bus \in Bus /\ subs[Head(stack).bus][Star] \in Seq(Listener)
    BY <2>1, ListFacts DEF TellFrame
  <2>3. /\ f \in Frame /\ f.left = subs[Head(stack).bus][Star] /\ f.op = Head(stack).op
        /\ f.event = Head(stack).event /\ f.new = Head(stack).new
    BY <2>1, <2>2 DEF TellFrame, Frame
  <2>4. stack' = Replaced(f)
    BY <1>7 DEF TellWildcards
  <2> HIDE DEF f
  <2>5. Due(Head(stack), home) => Due(f, home)
    <3>1. Record \notin Range(Head(stack).left)
      BY <2>1 DEF Range
    <3> QED
      BY <1>0, <2>2, <2>3, <3>1 DEF Due
  <2> QED
    BY <2>1, <2>3, <2>4, <2>5, ReplaceKeeps DEF IsNewTold
<1>8. CASE Told
  <2> DEFINE f == Head(stack)
             g == Telling(f.bus, Head(f.rest), Tail(f.rest), FALSE)
  <2>1. stack # <<>> /\ f \in TellFrame /\ f.left = <<>> /\ f.wild
    BY <1>8, Innermost, FrameKinds DEF Told, Inside
  <2>2. ~Due(f, home)
    BY <2>1 DEF Due, Range
  <2>3. CASE f.rest = <<>>
    BY <1>8, <2>1, <2>2, <2>3, ReturnKeeps DEF Told
  <2>4. CASE f.rest # <<>>
    <3>1. g \in Frame
      <4>1. f.bus \in Bus /\ Head(f.rest) \in Event /\ Tail(f.rest) \in Seq(Event)
        BY <2>1, <2>4 DEF TellFrame
      <4> QED
        BY <4>1, TellingFrame
    <3>2. stack' = Replaced(g)
      BY <1>8, <2>4 DEF Told
    <3> HIDE DEF g
    <3> QED
      BY <2>1, <2>2, <3>1, <3>2, ReplaceKeeps
  <2> QED
    BY <2>3, <2>4
<1>9. CASE RetraceNext
  <2> DEFINE f == Head(stack)
             g == [f EXCEPT !.next = @ + 1]
             e == trace[f.next].event
             h == Telling(f.bus, e, <<>>, FALSE)
  <2>1. stack # <<>> /\ f \in RetraceFrame /\ ~IsNewTold(Head(stack))
    BY <1>9, Innermost, FrameKinds DEF RetraceNext, Inside, IsNewTold
  <2>2. f.bus \in Bus /\ f.next \in Nat \ {0} /\ f.next \in 1 .. Len(trace)
    BY <1>9, <2>1 DEF RetraceNext, RetraceFrame, TypeOK, Trace
  <2>3. e \in Event
    BY <1>0, <2>2, TraceEvents
  <2>4. g \in Frame
    BY <2>1 DEF RetraceFrame, Frame
  <2>5. h \in Frame
    <3>1. <<>> \in Seq(Event)
      OBVIOUS
    <3> QED
      BY <2>2, <2>3, <3>1, TellingFrame
  <2>6. stack' = <<h>> \o Replaced(g)
    BY <1>9 DEF RetraceNext
  <2> HIDE DEF f, g, h
  <2>7. Replaced(g) \in Seq(Frame)
    BY <2>1, <2>4, Innermost, PushFacts DEF Replaced, Returned
  <2>8. Keeps(stack, Replaced(g), home, H)
    BY <2>1, <2>4, ReplaceKeeps
  <2> QED
    BY <2>5, <2>6, <2>7, <2>8, PushKeeps
<1>10. CASE RetraceEnds \/ CallbackReturns
  <2>1. stack # <<>> /\ stack' = Returned /\ ~IsNewTold(Head(stack))
    BY <1>10 DEF RetraceEnds, CallbackReturns, Inside, IsNewTold
  <2> QED
    BY <2>1, ReturnKeeps
<1>11. CASE stack' = stack
  BY <1>1, <1>11
<1>12. stack' = stack \/ (\E b \in Bus : Replay(b) \/ Retrace(b)) \/ Unwind \/ CallbackReturns
       \/ \E b \in Bus, t \in Type : Publish(b, t)
  BY DEF Next, User, vars, Subscribe, Unsubscribe, Attach, ClearHistory, ClearTrace, Save,
         SaveRaises, Load
<1> QED
  BY <1>3, <1>4, <1>5, <1>6, <1>7, <1>8, <1>9, <1>10, <1>11, <1>12 DEF Unwind

\* What was heard new stays so, until the trace is cleared or replaced.
LEMMA HeardStays ==
    ASSUME TypeOK, Ears(stack, home), [Next]_vars
    PROVE  \/ ClearTrace \/ Restart \/ \E b \in Bus : Load(b)
           \/ EventsIn(trace) \subseteq EventsIn(trace')
<1>1. CASE trace' = trace
  BY <1>1
<1>2. CASE Tell /\ TellsTracer
  <2> DEFINE x == [event |-> Head(stack).event, new |-> Head(stack).new]
  <2>1. trace' = Append(trace, x) /\ trace \in Trace
    BY <1>2 DEF TellsTracer, TypeOK
  <2> HIDE DEF x
  <2>2. OneMore(trace, trace', Len(trace) + 1, x)
    BY <2>1, AppendedEntry
  <2>3. EventsIn(trace) \subseteq EventsIn(trace')
    BY <2>2 DEF OneMore, EventsIn
  <2> QED
    BY <2>3
<1>3. Tell => trace' = trace \/ (Tell /\ TellsTracer)
  BY TellFacts DEF TellsOther
<1> QED
  BY <1>1, <1>2, <1>3, TraceSteps

\* Every event owed to the tracer has been heard or is still on the stack, due.
LEMMA OwedSteps ==
    ASSUME TypeOK, TypeOK', Listening, Ears(stack, home), StackInOrder(stack), Unattached,
           OwedKept, [Next]_vars
    PROVE  OwedKept'
<1>1. CASE Restart
  BY <1>1 DEF Restart, OwedKept
<1>2. ASSUME NEW b \in Bus, Load(b) PROVE OwedKept'
  <2>1. owed' = EventsIn(trace')
    BY <1>2 DEF Load
  <2> QED
    BY <2>1 DEF OwedKept, HeardEvents
<1>3. ASSUME NEW b \in Bus, Attach(b) PROVE OwedKept'
  <2>1. owed' = {}
    BY <1>3 DEF Attach, Unattached
  <2> QED
    BY <2>1 DEF OwedKept
<1>4. CASE ClearTrace
  <2>1. stack' = stack /\ home' = home /\ owed' = owed \ HeardEvents
    BY <1>4 DEF ClearTrace
  <2> QED
    BY <2>1 DEF OwedKept
<1>5. CASE CallbackRaises
  <2>1. /\ stack' = Unwound /\ home' = home /\ trace' = trace
        /\ owed' = owed \cap (HeardEvents \cup {Unwound[i].event : i \in NewTold(Unwound)})
    BY <1>5 DEF CallbackRaises
  <2>2. PICK d \in Nat : /\ Shifted(stack, Unwound, d)
                         /\ \A i \in DOMAIN Unwound :
                               i + d \in DOMAIN stack /\ Unwound[i] = stack[i + d]
    BY UnwoundFacts
  <2> SUFFICES ASSUME NEW e \in owed', e \notin HeardEvents
               PROVE  \E i \in NewTold(stack') : stack'[i].event = e /\ Due(stack'[i], home)
    BY <2>1 DEF OwedKept, HeardEvents
  <2>3. PICK k \in NewTold(Unwound) : Unwound[k].event = e
    BY <2>1
  <2>4. PICK i \in NewTold(stack) : stack[i].event = e /\ Due(stack[i], home)
    BY <2>1 DEF OwedKept
  <2>5. k + d \in NewTold(stack) /\ Unwound[k] = stack[k + d]
    BY <2>2, <2>3 DEF Shifted, NewTold
  <2>6. k + d = i
    BY <2>3, <2>4, <2>5, OneTelling
  <2> QED
    BY <2>1, <2>3, <2>4, <2>5, <2>6
<1>6. ASSUME ~Restart, ~CallbackRaises, ~ClearTrace, ~\E b \in Bus : Attach(b) \/ Load(b)
      PROVE  OwedKept'
  <2>1. home' = home
    BY <1>6 DEF Next, User, Unwind, vars, Subscribe, Unsubscribe, Publish, Replay, ClearHistory,
       Retrace, Save, SaveRaises, Tell, TellWildcards, Told, RetraceNext, RetraceEnds,
       CallbackReturns
  <2>2. HeardEvents \subseteq EventsIn(trace') /\ HeardEvents' = EventsIn(trace')
    BY <1>6, HeardStays DEF HeardEvents
  <2>3. Keeps(stack, stack', home, EventsIn(trace'))
    BY <1>6, KeepSteps
  <2> HIDE DEF Keeps
  <2>4. ASSUME NEW e \in owed
        PROVE  \/ e \in EventsIn(trace')
               \/ \E k \in NewTold(stack') : stack'[k].event = e /\ Due(stack'[k], home)
    <3>1. CASE e \in HeardEvents
      BY <2>2, <3>1
    <3>2. CASE e \notin HeardEvents
      <4>1. PICK i \in NewTold(stack) : stack[i].event = e /\ Due(stack[i], home)
        BY <3>2 DEF OwedKept
      <4> QED
        BY <2>3, <4>1 DEF Keeps
    <3> QED
      BY <3>1, <3>2
  <2>5. CASE owed' = owed
    BY <2>1, <2>2, <2>4, <2>5 DEF OwedKept
  <2>6. ASSUME NEW b \in Bus, NEW t \in Type, Publish(b, t), owed' # owed PROVE OwedKept'
    <3>1. owed' = owed \cup {NewEvent(t)} /\ home = b
      BY <2>6 DEF Publish
    <3>2. /\ 1 \in NewTold(stack') /\ stack'[1].event = NewEvent(t) /\ ~stack'[1].wild
          /\ stack'[1] = Telling(b, NewEvent(t), <<>>, TRUE)
      BY <2>6, PublishFacts
    <3>3. Due(stack'[1], home)
      BY <3>1, <3>2 DEF Due, Telling
    <3> QED
      BY <2>1, <2>2, <2>4, <3>1, <3>2, <3>3 DEF OwedKept
  <2>7. owed' = owed \/ \E b \in Bus, t \in Type : Publish(b, t)
    BY <1>6 DEF Next, User, Unwind, vars, Subscribe, Unsubscribe, Replay, ClearHistory,
       Retrace, Save, SaveRaises, Tell, TellWildcards, Told, RetraceNext, RetraceEnds,
       CallbackReturns
  <2> QED
    BY <2>5, <2>6, <2>7
<1> QED
  BY <1>1, <1>2, <1>3, <1>4, <1>5, <1>6

-----------------------------------------------------------------------------
(* The theorems.                                                           *)

BusInv ==
    /\ TypeOK /\ Listening /\ Ears(stack, home)
    /\ StackInOrder(stack) /\ AllInTime(stack, trace)
    /\ Orderly(trace) /\ FileOrderly /\ Unattached /\ OwedKept

\* The invariant holds at first.
LEMMA BusInit == Init => BusInv
<1> SUFFICES ASSUME Init PROVE BusInv
  OBVIOUS
<1>1. TypeOK
  <2>1. /\ stack = <<>> /\ hist = [b \in Bus |-> <<>>] /\ trace = <<>> /\ file = <<>>
        /\ home = Nowhere /\ created = 0 /\ replays = 0 /\ owed = {}
        /\ subs = [b \in Bus |-> [t \in Type \cup {Star} |-> <<>>]]
    BY DEF Init
  <2>2. 0 \in 0 .. MaxEvents /\ 0 \in 0 .. MaxReplays
    BY BusConstants
  <2>3. \A S : <<>> \in Seq(S) /\ Len(<<>>) <= 1
    OBVIOUS
  <2> QED
    BY <2>1, <2>2, <2>3 DEF TypeOK, Trace
<1>2. Listening
  <2>1. Range(<<>>) = {} /\ Once(<<>>)
    BY DEF Range, Once
  <2> QED
    BY <2>1, BusConstants DEF Init, Listening
<1>3. NewTold(stack) = {} /\ Ears(stack, home)
  BY DEF Init, NewTold, Ears
<1>4. StackInOrder(stack) /\ AllInTime(stack, trace)
  BY <1>3 DEF StackInOrder, AllInTime
<1>5. Orderly(trace)
  BY EmptyTrace DEF Init
<1> QED
  BY <1>1, <1>2, <1>3, <1>4, <1>5 DEF Init, BusInv, FileOrderly, Unattached, OwedKept

\* Every step keeps it.
LEMMA BusStep == BusInv /\ [Next]_vars => BusInv'
<1> SUFFICES ASSUME BusInv, [Next]_vars PROVE BusInv'
  OBVIOUS
<1>1. /\ TypeOK /\ Listening /\ Ears(stack, home)
      /\ StackInOrder(stack) /\ AllInTime(stack, trace)
      /\ Orderly(trace) /\ FileOrderly /\ Unattached /\ OwedKept
  BY DEF BusInv
<1>2. TypeOK'
  BY <1>1, BusTypeStep
<1>3. Listening' /\ Ears(stack', home')
  BY <1>1, ListeningSteps, EarSteps
<1>4. StackInOrder(stack') /\ AllInTime(stack', trace')
  BY <1>1, <1>2, OrderSteps, InTimeSteps
<1>5. Orderly(trace') /\ FileOrderly'
  BY <1>1, OrderlySteps, FileSteps
<1>6. Unattached' /\ OwedKept'
  BY <1>1, <1>2, UnattachedSteps, OwedSteps
<1> QED
  BY <1>2, <1>3, <1>4, <1>5, <1>6 DEF BusInv

\* BusInv is an invariant of the bus.
LEMMA BusInvariant == Spec => []BusInv
  BY BusInit, BusStep, PTL DEF Spec

\* What is due is still to be heard.
LEMMA DueIsHeard ==
    ASSUME TypeOK, Listening, NEW i \in NewTold(stack), Due(stack[i], home)
    PROVE  ToBeHeard(stack[i])
<1>1. stack[i] \in TellFrame
  BY FramesOf DEF TypeOK
<1>2. stack[i].bus \in Bus /\ subs[stack[i].bus][Star] \in Seq(Listener)
  BY <1>1, ListFacts DEF TellFrame
<1>3. stack[i].bus = home => Contains(subs[stack[i].bus][Star], Record)
  BY <1>2 DEF Listening, Contains, Range
<1> QED
  BY <1>3 DEF Due, ToBeHeard

\* The bus, the tracer and the call stack keep to their types.
THEOREM BusTypes == Spec => []TypeOK
<1>1. BusInv => TypeOK
  BY DEF BusInv
<1> QED
  BY <1>1, BusInvariant, PTL

\* The tracer hears every event published on its bus exactly once, unless a
\* callback raises before its turn: what is owed to it has been heard, once, or
\* is being told by a call that will still come to it.
THEOREM EventsAreHeard == Spec => []EveryEventHeard
<1>1. BusInv => EveryEventHeard
  <2> SUFFICES ASSUME BusInv, NEW e \in owed
               PROVE  \/ Cardinality({i \in NewIn(trace) : trace[i].event = e}) = 1
                      \/ \E i \in NewTold(stack) : stack[i].event = e /\ ToBeHeard(stack[i])
    BY DEF EveryEventHeard
  <2>1. CASE e \in HeardEvents
    <3>1. PICK k \in NewIn(trace) : trace[k].event = e
      BY <2>1 DEF HeardEvents, EventsIn
    <3>2. {i \in NewIn(trace) : trace[i].event = e} = {k}
      BY <3>1 DEF BusInv, Orderly
    <3> QED
      BY <3>2, FS_Singleton
  <2>2. CASE e \notin HeardEvents
    <3>1. PICK i \in NewTold(stack) : stack[i].event = e /\ Due(stack[i], home)
      BY <2>2 DEF BusInv, OwedKept
    <3> QED
      BY <3>1, DueIsHeard DEF BusInv
  <2> QED
    BY <2>1, <2>2
<1> QED
  BY <1>1, BusInvariant, PTL

\* Of two events in the trace, the younger stands before the older one exactly
\* when it was published while the older was told and before the tracer's turn.
THEOREM TraceDepthFirst == Spec => []TraceIsDepthFirst
<1>1. BusInv => TraceIsDepthFirst
  BY DEF BusInv, Orderly, TraceIsDepthFirst
<1> QED
  BY <1>1, BusInvariant, PTL

-----------------------------------------------------------------------------
(* The store.                                                              *)

LogEntry == [ts : 0 .. MaxTime, key : Key, old : Val \cup {None}, new : Val \cup {None}]

\* The entries es are logged, for what becomes of their keys, and no others.
Logs(es) ==
    /\ es \in Seq(LogEntry)
    /\ changelog' = changelog \o es
    /\ \A i \in DOMAIN es : /\ es[i].ts = now
                            /\ es[i].old = Get(data, es[i].key)
                            /\ es[i].new = Get(data', es[i].key)
    /\ \A i, j \in DOMAIN es : es[i].key = es[j].key => i = j
    /\ \A k \in Key : (\A i \in DOMAIN es : es[i].key # k) => Get(data', k) = Get(data, k)
    /\ data' \in Dict
    /\ past' = [past EXCEPT ![now] = data']
    /\ now' = now /\ restoredAt' = restoredAt

\* A dict maps keys to values, and a key it lacks is as good as None.
LEMMA DictFacts ==
    ASSUME NEW d \in Dict
    PROVE  /\ DOMAIN d \subseteq Key
           /\ \A k \in Key : Get(d, k) \in Val \cup {None}
BY DEF Dict, Get

\* What is in a dict with entries put in, and in one with a key taken out.
LEMMA WithFacts ==
    ASSUME NEW d \in Dict, NEW m \in Dict
    PROVE  /\ With(d, m) \in Dict
           /\ \A k : Get(With(d, m), k) = IF k \in DOMAIN m THEN m[k] ELSE Get(d, k)
<1>1. DOMAIN d \subseteq Key /\ DOMAIN m \subseteq Key
  BY DEF Dict
<1>2. With(d, m) \in [DOMAIN d \cup DOMAIN m -> Val]
  BY DEF With, Dict
<1>3. DOMAIN d \cup DOMAIN m \in SUBSET Key
  BY <1>1
<1>4. With(d, m) \in Dict
  BY <1>2, <1>3 DEF Dict
<1> QED
  BY <1>4 DEF With, Get

\* A dict without a key.
LEMMA WithoutFacts ==
    ASSUME NEW d \in Dict, NEW k
    PROVE  /\ Without(d, k) \in Dict
           /\ \A j : Get(Without(d, k), j) = IF j = k THEN None ELSE Get(d, j)
<1>1. DOMAIN d \ {k} \in SUBSET Key /\ Without(d, k) \in [DOMAIN d \ {k} -> Val]
  BY DEF Without, Dict
<1>2. Without(d, k) \in Dict
  BY <1>1 DEF Dict
<1> QED
  BY <1>2 DEF Without, Get

\* set(), delete() and update() log what they do.
LEMMA SetLogs ==
    ASSUME StoreTypeOK, NEW k \in Key, NEW v \in Val, Set(k, v)
    PROVE  Logs(<<Change(k, v)>>)
<1> DEFINE m == [j \in {k} |-> v]
<1>1. data \in Dict /\ now \in 0 .. MaxTime /\ changelog \in Seq(LogEntry)
  BY DEF StoreTypeOK, LogEntry
<1>2. m \in Dict
  <2>1. m \in [{k} -> Val] /\ {k} \in SUBSET Key
    OBVIOUS
  <2> QED
    BY <2>1 DEF Dict
<1>3. Change(k, v) \in LogEntry
  BY <1>1, DictFacts DEF Change, LogEntry
<1>4. /\ data' = With(data, m) /\ past' = [past EXCEPT ![now] = data']
      /\ changelog' = Append(changelog, Change(k, v))
      /\ now' = now /\ restoredAt' = restoredAt
  BY DEF Set, Becomes
<1>5. data' \in Dict /\ \A j : Get(data', j) = IF j = k THEN v ELSE Get(data, j)
  <2> HIDE DEF m
  <2>1. \A j : Get(data', j) = IF j \in DOMAIN m THEN m[j] ELSE Get(data, j)
    BY <1>1, <1>2, <1>4, WithFacts
  <2> QED
    BY <1>1, <1>2, <1>4, <2>1, WithFacts DEF m
<1>6. changelog' = changelog \o <<Change(k, v)>>
  BY <1>1, <1>3, <1>4
<1> QED
  BY <1>3, <1>4, <1>5, <1>6 DEF Logs, Change

\* delete() logs one change.
LEMMA DeleteLogs ==
    ASSUME StoreTypeOK, NEW k \in Key, Delete(k)
    PROVE  Logs(<<Change(k, None)>>)
<1>1. data \in Dict /\ now \in 0 .. MaxTime /\ changelog \in Seq(LogEntry)
  BY DEF StoreTypeOK, LogEntry
<1>2. Change(k, None) \in LogEntry
  BY <1>1, DictFacts DEF Change, LogEntry
<1>3. /\ data' = Without(data, k) /\ past' = [past EXCEPT ![now] = data']
      /\ changelog' = Append(changelog, Change(k, None))
      /\ now' = now /\ restoredAt' = restoredAt
  BY DEF Delete, Becomes
<1>4. data' \in Dict /\ \A j : Get(data', j) = IF j = k THEN None ELSE Get(data, j)
  BY <1>1, <1>3, WithoutFacts
<1>5. changelog' = changelog \o <<Change(k, None)>>
  BY <1>1, <1>2, <1>3
<1> QED
  BY <1>2, <1>3, <1>4, <1>5 DEF Logs, Change

\* update() logs a change of each key, in the order it takes them.
LEMMA UpdateLogs ==
    ASSUME StoreTypeOK, NEW S \in SUBSET Key, NEW m \in [S -> Val], NEW order \in Orders(S),
           Update(m, order)
    PROVE  Logs([i \in DOMAIN order |-> Change(order[i], m[order[i]])])
<1> DEFINE es == [i \in DOMAIN order |-> Change(order[i], m[order[i]])]
<1>1. data \in Dict /\ now \in 0 .. MaxTime /\ changelog \in Seq(LogEntry)
  BY DEF StoreTypeOK, LogEntry
<1>2. m \in Dict /\ DOMAIN m = S
  BY DEF Dict
<1>3. /\ Cardinality(S) \in Nat /\ order \in [1 .. Cardinality(S) -> S]
      /\ \A i, j \in DOMAIN order : order[i] = order[j] => i = j
  <2>1. IsFiniteSet(S)
    BY StoreConstants, FS_Subset
  <2> QED
    BY <2>1, FS_CardinalityType DEF Orders
<1>4. \A i \in DOMAIN order : Change(order[i], m[order[i]]) \in LogEntry
  BY <1>1, <1>3, DictFacts DEF Change, LogEntry
<1>5. es \in Seq(LogEntry)
  BY <1>3, <1>4
<1>6. /\ data' = With(data, m) /\ past' = [past EXCEPT ![now] = data']
      /\ changelog' = changelog \o es
      /\ now' = now /\ restoredAt' = restoredAt
      /\ {order[i] : i \in DOMAIN order} = S
  BY <1>2 DEF Update, Becomes
<1>7. data' \in Dict /\ \A j : Get(data', j) = IF j \in S THEN m[j] ELSE Get(data, j)
  BY <1>1, <1>2, <1>6, WithFacts
<1>8. DOMAIN es = DOMAIN order
  OBVIOUS
<1>9. \A i \in DOMAIN order :
        /\ es[i].key = order[i] /\ es[i].ts = now
        /\ es[i].old = Get(data, order[i]) /\ es[i].new = m[order[i]]
  BY DEF Change
<1>10. \A i \in DOMAIN order : order[i] \in S
  BY <1>3
<1> HIDE DEF es
<1>11. Logs(es)
  <2>1. \A i \in DOMAIN es : /\ es[i].ts = now /\ es[i].old = Get(data, es[i].key)
                            /\ es[i].new = Get(data', es[i].key)
    BY <1>7, <1>8, <1>9, <1>10
  <2>2. \A i, j \in DOMAIN es : es[i].key = es[j].key => i = j
    BY <1>3, <1>8, <1>9
  <2>3. ASSUME NEW k \in Key, \A i \in DOMAIN es : es[i].key # k
        PROVE  Get(data', k) = Get(data, k)
    <3>1. k \notin S
      BY <1>6, <1>8, <1>9, <2>3
    <3> QED
      BY <1>7, <3>1
  <2> QED
    BY <1>5, <1>6, <1>7, <2>1, <2>2, <2>3 DEF Logs
<1> QED
  BY <1>11 DEF es

-----------------------------------------------------------------------------
(* The log as a chain of changes.                                          *)

\* The log before and after es is put behind it.
LEMMA LogGrows ==
    ASSUME StoreTypeOK, NEW es, Logs(es)
    PROVE  /\ Len(changelog) \in Nat /\ Len(es) \in Nat
           /\ DOMAIN changelog = 1 .. Len(changelog) /\ DOMAIN es = 1 .. Len(es)
           /\ DOMAIN changelog' = 1 .. (Len(changelog) + Len(es))
           /\ changelog' \in Seq(LogEntry)
           /\ \A i \in 1 .. Len(changelog) : changelog'[i] = changelog[i]
           /\ \A i \in 1 .. Len(es) : changelog'[Len(changelog) + i] = es[i]
           /\ \A i \in DOMAIN changelog' :
                \/ i \in DOMAIN changelog
                \/ i > Len(changelog) /\ i - Len(changelog) \in DOMAIN es
<1>1. changelog \in Seq(LogEntry) /\ es \in Seq(LogEntry) /\ changelog' = changelog \o es
  BY DEF StoreTypeOK, LogEntry, Logs
<1> HIDE DEF LogEntry
<1>2. Len(changelog) \in Nat /\ DOMAIN changelog = 1 .. Len(changelog)
  BY <1>1
<1>3. Len(es) \in Nat /\ DOMAIN es = 1 .. Len(es)
  BY <1>1
<1>4. changelog' \in Seq(LogEntry) /\ DOMAIN changelog' = 1 .. (Len(changelog) + Len(es))
  BY <1>1, <1>2, <1>3
<1>5. \A i \in 1 .. Len(changelog) : changelog'[i] = changelog[i]
  BY <1>1, <1>2, <1>3
<1>6. \A i \in 1 .. Len(es) : changelog'[Len(changelog) + i] = es[i]
  BY <1>1, <1>2, <1>3
<1> QED
  BY <1>2, <1>3, <1>4, <1>5, <1>6

\* What the type invariant says of the log.
LEMMA LogTyped ==
    ASSUME StoreTypeOK
    PROVE  /\ changelog \in Seq(LogEntry)
           /\ Len(changelog) \in Nat /\ DOMAIN changelog = 1 .. Len(changelog)
           /\ \A i \in DOMAIN changelog : /\ changelog[i] \in LogEntry
                                        /\ changelog[i].ts \in Nat /\ changelog[i].key \in Key
<1>1. changelog \in Seq(LogEntry)
  BY DEF StoreTypeOK, LogEntry
<1>2. \A i \in DOMAIN changelog : changelog[i] \in LogEntry
  <2> HIDE DEF LogEntry
  <2> QED
    BY <1>1
<1>3. \A e \in LogEntry : e.ts \in Nat /\ e.key \in Key
  BY DEF LogEntry
<1> HIDE DEF LogEntry
<1> QED
  BY <1>1, <1>2, <1>3

\* A step logs, restores, clears the log or lets the clock go on.
LEMMA StoreSteps ==
    ASSUME StoreTypeOK, [StoreNext]_storeVars
    PROVE  \/ \E es : Logs(es)
           \/ \E d \in Saved : Restore(d)
           \/ ClearChangelog
           \/ \E t \in 0 .. MaxTime : Clock(t)
           \/ UNCHANGED storeVars
<1>1. ASSUME NEW k \in Key, NEW v \in Val, Set(k, v) PROVE \E es : Logs(es)
  BY <1>1, SetLogs
<1>2. ASSUME NEW k \in Key, Delete(k) PROVE \E es : Logs(es)
  BY <1>2, DeleteLogs
<1>3. ASSUME NEW S \in SUBSET Key, NEW m \in [S -> Val], NEW order \in Orders(S),
             Update(m, order)
      PROVE  \E es : Logs(es)
  BY <1>3, UpdateLogs
<1> QED
  BY <1>1, <1>2, <1>3 DEF StoreNext

\* Every operation keeps the types.
LEMMA StoreTypeStep == StoreTypeOK /\ [StoreNext]_storeVars => StoreTypeOK'
<1> SUFFICES ASSUME StoreTypeOK, [StoreNext]_storeVars PROVE StoreTypeOK'
  OBVIOUS
<1>1. /\ data \in Dict /\ changelog \in Seq(LogEntry) /\ now \in 0 .. MaxTime
      /\ past \in [0 .. MaxTime -> Dict] /\ restoredAt \in 0 .. Len(changelog)
  BY DEF StoreTypeOK, LogEntry
<1>2. SUFFICES /\ data' \in Dict /\ changelog' \in Seq(LogEntry) /\ now' \in 0 .. MaxTime
               /\ past' \in [0 .. MaxTime -> Dict] /\ restoredAt' \in 0 .. Len(changelog')
  BY DEF StoreTypeOK, LogEntry
<1>3. ASSUME NEW es, Logs(es)
      PROVE  /\ data' \in Dict /\ changelog' \in Seq(LogEntry) /\ now' \in 0 .. MaxTime
             /\ past' \in [0 .. MaxTime -> Dict] /\ restoredAt' \in 0 .. Len(changelog')
  <2>1. data' \in Dict /\ past' = [past EXCEPT ![now] = data'] /\ now' = now
        /\ restoredAt' = restoredAt
    BY <1>3 DEF Logs
  <2>2. changelog' \in Seq(LogEntry) /\ restoredAt \in 0 .. Len(changelog')
    BY <1>1, <1>3, LogGrows
  <2> QED
    BY <1>1, <2>1, <2>2
<1>4. ASSUME NEW d \in Saved, Restore(d)
      PROVE  /\ data' \in Dict /\ changelog' \in Seq(LogEntry) /\ now' \in 0 .. MaxTime
             /\ past' \in [0 .. MaxTime -> Dict] /\ restoredAt' \in 0 .. Len(changelog')
  <2>1. d \in Dict /\ Len(changelog) \in 0 .. Len(changelog)
    BY <1>1, StoreConstants
  <2> QED
    BY <1>1, <1>4, <2>1 DEF Restore, Becomes
<1>5. CASE ClearChangelog
  BY <1>1, <1>5 DEF ClearChangelog
<1>6. ASSUME NEW t \in 0 .. MaxTime, Clock(t)
      PROVE  /\ data' \in Dict /\ changelog' \in Seq(LogEntry) /\ now' \in 0 .. MaxTime
             /\ past' \in [0 .. MaxTime -> Dict] /\ restoredAt' \in 0 .. Len(changelog')
  BY <1>1, <1>6 DEF Clock
<1>7. CASE UNCHANGED storeVars
  BY <1>1, <1>7 DEF storeVars
<1> QED
  BY <1>3, <1>4, <1>5, <1>6, <1>7, StoreSteps

\* The store holds values under keys, and the log what became of them.
THEOREM StoreTypes == StoreSpec => []StoreTypeOK
<1>1. StoreInit => StoreTypeOK
  BY StoreConstants DEF StoreInit, StoreTypeOK
<1> QED
  BY <1>1, StoreTypeStep, PTL DEF StoreSpec

\* The entries about k since the last restore().
About(k) == {i \in DOMAIN changelog : i > restoredAt /\ changelog[i].key = k}

\* Of the new entries at most one is about k, and it comes last.
LEMMA AboutGrows ==
    ASSUME StoreTypeOK, NEW es, Logs(es), NEW k \in Key
    PROVE  \/ /\ About(k)' = About(k)
              /\ Get(data', k) = Get(data, k)
           \/ \E n \in DOMAIN changelog' :
                 /\ n > Len(changelog) /\ About(k)' = About(k) \cup {n}
                 /\ changelog'[n].old = Get(data, k)
                 /\ changelog'[n].new = Get(data', k)
<1>1. /\ Len(changelog) \in Nat /\ Len(es) \in Nat
      /\ DOMAIN changelog = 1 .. Len(changelog) /\ DOMAIN es = 1 .. Len(es)
      /\ DOMAIN changelog' = 1 .. (Len(changelog) + Len(es))
      /\ \A i \in 1 .. Len(changelog) : changelog'[i] = changelog[i]
      /\ \A i \in 1 .. Len(es) : changelog'[Len(changelog) + i] = es[i]
  BY LogGrows
<1>2. restoredAt \in 0 .. Len(changelog) /\ restoredAt' = restoredAt
  BY DEF StoreTypeOK, Logs
<1>3. \A i \in DOMAIN changelog : i \in About(k)' <=> i \in About(k)
  BY <1>1, <1>2 DEF About
<1>4. \A i \in DOMAIN es :
         Len(changelog) + i \in About(k)' <=> es[i].key = k
  BY <1>1, <1>2 DEF About
<1>5. \A n \in About(k)' : n \in DOMAIN changelog
                           \/ \E i \in DOMAIN es : n = Len(changelog) + i
  <2>1. \A n \in DOMAIN changelog' : n \in DOMAIN changelog
                             \/ (n - Len(changelog) \in DOMAIN es
                                 /\ n = Len(changelog) + (n - Len(changelog)))
    BY <1>1
  <2> QED
    BY <2>1 DEF About
<1>6. About(k) \subseteq DOMAIN changelog
  BY DEF About
<1>7. CASE \A i \in DOMAIN es : es[i].key # k
  <2>1. About(k)' = About(k)
    BY <1>3, <1>4, <1>5, <1>6, <1>7
  <2> QED
    BY <1>7, <2>1 DEF Logs
<1>8. ASSUME NEW i \in DOMAIN es, es[i].key = k
      PROVE  \E n \in DOMAIN changelog' :
                /\ n > Len(changelog) /\ About(k)' = About(k) \cup {n}
                /\ changelog'[n].old = Get(data, k)
                /\ changelog'[n].new = Get(data', k)
  <2> DEFINE n == Len(changelog) + i
  <2>1. n \in DOMAIN changelog' /\ n > Len(changelog) /\ changelog'[n] = es[i]
    BY <1>1
  <2>2. \A j \in DOMAIN es : es[j].key = k => j = i
    BY <1>8 DEF Logs
  <2>3. About(k)' = About(k) \cup {n}
    BY <1>3, <1>4, <1>5, <1>6, <1>8, <2>2
  <2>4. es[i].old = Get(data, k) /\ es[i].new = Get(data', k)
    BY <1>8 DEF Logs
  <2> QED
    BY <2>1, <2>3, <2>4
<1> QED
  BY <1>7, <1>8

\* Every operation keeps the chain of changes of every key.
LEMMA ChainsStep == StoreTypeOK /\ ChangelogChains /\ [StoreNext]_storeVars => ChangelogChains'
<1> SUFFICES ASSUME StoreTypeOK, ChangelogChains, [StoreNext]_storeVars PROVE ChangelogChains'
  OBVIOUS
<1> DEFINE Chain(k) ==
             /\ \A i, j \in About(k) :
                  i < j /\ (\A m \in About(k) : m <= i \/ j <= m)
                    => changelog[j].old = changelog[i].new
             /\ \A i \in About(k) : (\A j \in About(k) : j <= i)
                    => changelog[i].new = Get(data, k)
<1>1. \A k \in Key : Chain(k)
  BY DEF ChangelogChains, About
<1>2. SUFFICES \A k \in Key : Chain(k)'
  BY DEF ChangelogChains, About
<1>3. ASSUME NEW es, Logs(es), NEW k \in Key PROVE Chain(k)'
  <2>1. /\ Len(changelog) \in Nat /\ DOMAIN changelog = 1 .. Len(changelog)
        /\ DOMAIN changelog' \subseteq Nat
        /\ \A i \in DOMAIN changelog : changelog'[i] = changelog[i]
    <3>1. /\ Len(changelog) \in Nat /\ Len(es) \in Nat
          /\ DOMAIN changelog = 1 .. Len(changelog)
          /\ DOMAIN changelog' = 1 .. (Len(changelog) + Len(es))
          /\ \A i \in 1 .. Len(changelog) : changelog'[i] = changelog[i]
      BY <1>3, LogGrows
    <3> QED
      BY <3>1
  <2>2. About(k) \subseteq DOMAIN changelog
    BY DEF About
  <2>3. CASE About(k)' = About(k) /\ Get(data', k) = Get(data, k)
    BY <1>1, <2>1, <2>2, <2>3
  <2>4. ASSUME NEW n \in DOMAIN changelog', n > Len(changelog),
               About(k)' = About(k) \cup {n},
               changelog'[n].old = Get(data, k), changelog'[n].new = Get(data', k)
        PROVE  Chain(k)'
    <3>1. \A i \in About(k) : i < n /\ i \in Nat
      BY <2>1, <2>2, <2>4
    <3>2. ASSUME NEW i \in About(k)', NEW j \in About(k)', i < j,
                 \A m \in About(k)' : m <= i \/ j <= m
          PROVE  changelog'[j].old = changelog'[i].new
      <4>1. i \in About(k)
        BY <2>1, <2>4, <3>1, <3>2
      <4>2. CASE j \in About(k)
        BY <1>1, <2>1, <2>2, <2>4, <3>2, <4>1, <4>2
      <4>3. CASE j = n
        <5>1. \A m \in About(k) : m <= i
          BY <2>4, <3>1, <3>2, <4>3
        <5> QED
          BY <1>1, <2>1, <2>2, <2>4, <4>1, <4>3, <5>1
      <4> QED
        BY <2>4, <4>2, <4>3
    <3>3. ASSUME NEW i \in About(k)', \A j \in About(k)' : j <= i
          PROVE  changelog'[i].new = Get(data', k)
      <4>1. i = n
        BY <2>1, <2>4, <3>1, <3>3
      <4> QED
        BY <2>4, <4>1
    <3> QED
      BY <3>2, <3>3
  <2> QED
    BY <1>3, <2>3, <2>4, AboutGrows
<1>4. ASSUME NEW d \in Saved, Restore(d), NEW k \in Key PROVE Chain(k)'
  <2>1. About(k)' = {}
    <3>1. changelog \in Seq(LogEntry)
      BY DEF StoreTypeOK, LogEntry
    <3>2. changelog' = changelog /\ restoredAt' = Len(changelog)
      BY <1>4 DEF Restore
    <3>3. \A i \in DOMAIN changelog : ~(i > Len(changelog))
      BY <3>1
    <3> QED
      BY <3>2, <3>3 DEF About
  <2> QED
    BY <2>1
<1>5. ASSUME ClearChangelog, NEW k \in Key PROVE Chain(k)'
  <2>1. About(k)' = {}
    BY <1>5 DEF ClearChangelog, About
  <2> QED
    BY <2>1
<1>6. ASSUME UNCHANGED <<data, changelog, restoredAt>>, NEW k \in Key PROVE Chain(k)'
  <2>1. About(k)' = About(k)
    BY <1>6 DEF About
  <2> QED
    BY <1>1, <1>6, <2>1
<1> QED
  BY <1>3, <1>4, <1>5, <1>6, StoreSteps DEF Clock, storeVars

\* The old and new values in the log make a chain that ends in what is stored.
THEOREM ChangesChain == StoreSpec => []ChangelogChains
<1>1. StoreInit => ChangelogChains
  BY DEF StoreInit, ChangelogChains
<1> QED
  BY <1>1, StoreTypes, ChainsStep, PTL DEF StoreSpec

-----------------------------------------------------------------------------
(* replay_to().                                                            *)

\* What an entry makes of a dict.
AfterEntry(d, e) ==
    IF e.new = None THEN Without(d, e.key) ELSE With(d, [j \in {e.key} |-> e.new])

\* What an entry read by replay_to does to the dict.
LEMMA AfterEntryFacts ==
    ASSUME NEW d \in Dict, NEW e \in LogEntry
    PROVE  /\ AfterEntry(d, e) \in Dict
           /\ \A k : Get(AfterEntry(d, e), k) = IF k = e.key THEN e.new ELSE Get(d, k)
<1> DEFINE m == [j \in {e.key} |-> e.new]
<1>1. e.key \in Key /\ e.new \in Val \cup {None}
  BY DEF LogEntry
<1>2. CASE e.new = None
  BY <1>2, WithoutFacts DEF AfterEntry
<1>3. CASE e.new # None
  <2>1. m \in [{e.key} -> Val] /\ {e.key} \in SUBSET Key
    BY <1>1, <1>3
  <2>2. m \in Dict /\ DOMAIN m = {e.key} /\ m[e.key] = e.new
    BY <2>1 DEF Dict
  <2>3. AfterEntry(d, e) = With(d, m)
    BY <1>3 DEF AfterEntry
  <2> HIDE DEF m
  <2> QED
    BY <2>2, <2>3, WithFacts
<1> QED
  BY <1>2, <1>3

\* The recursion over the log is well defined.
LEMMA ReconstructedFacts ==
    ASSUME changelog \in Seq(LogEntry)
    PROVE  /\ Reconstructed \in [0 .. Len(changelog) -> Dict]
           /\ Reconstructed[0] = NoKeys
           /\ \A i \in 1 .. Len(changelog) :
                Reconstructed[i] = AfterEntry(Reconstructed[i - 1], changelog[i])
<1> DEFINE n == Len(changelog)
           step == [p \in (1 .. n) \X Dict |-> AfterEntry(p[2], changelog[p[1]])]
           Body(f) == [i \in 0 .. n |-> IF i = 0 THEN NoKeys
                                        ELSE AfterEntry(f[i - 1], changelog[i])]
<1>1. n \in Nat /\ \A i \in 1 .. n : changelog[i] \in LogEntry
  OBVIOUS
<1>2. NoKeys \in Dict
  <2>1. NoKeys \in [{} -> Val]
    BY DEF NoKeys
  <2>2. {} \in SUBSET Key
    OBVIOUS
  <2> QED
    BY <2>1, <2>2 DEF Dict
<1>3. step \in [(1 .. n) \X Dict -> Dict]
  BY <1>1, AfterEntryFacts
<1>4. PICK f : Recursion(f, n, Dict, NoKeys, step)
  <2> HIDE DEF step, n
  <2> QED
    BY <1>1, <1>2, <1>3, PrimitiveRecursion
<1>5. \A i \in 1 .. n : f[i - 1] \in Dict /\ f[i] = AfterEntry(f[i - 1], changelog[i])
  BY <1>1, <1>4 DEF Recursion
<1>6. f = Body(f)
  BY <1>1, <1>4, <1>5 DEF Recursion
<1>7. Reconstructed = CHOOSE g : g = Body(g)
  BY DEF Reconstructed, AfterEntry
<1>8. Reconstructed = Body(Reconstructed)
  <2> HIDE DEF Body
  <2> QED
    BY <1>6, <1>7
<1>9. /\ Reconstructed[0] = NoKeys
      /\ \A i \in 1 .. n : Reconstructed[i] = AfterEntry(Reconstructed[i - 1], changelog[i])
  BY <1>1, <1>8
<1>10. \A i \in 0 .. n : Reconstructed[i] \in Dict
  <2> DEFINE T == {i \in Nat : i <= n => Reconstructed[i] \in Dict}
  <2>1. 0 \in T
    BY <1>2, <1>9
  <2>2. ASSUME NEW i \in Nat, i \in T PROVE i + 1 \in T
    BY <1>1, <1>9, <2>2, AfterEntryFacts
  <2>3. Nat \subseteq T
    <3> HIDE DEF T
    <3> QED
      BY <2>1, <2>2, SetInduction
  <2> QED
    BY <1>1, <2>3
<1> QED
  BY <1>1, <1>8, <1>9, <1>10

\* After some entries a key has the value of the last of them about it.
LEMMA LastEntryDecides ==
    ASSUME changelog \in Seq(LogEntry), NEW k, NEW last \in DOMAIN changelog,
           changelog[last].key = k, NEW n \in last .. Len(changelog),
           \A j \in (last + 1) .. n : changelog[j].key # k
    PROVE  Get(Reconstructed[n], k) = changelog[last].new
<1> DEFINE T == {i \in Nat : last + i <= n
                   => Get(Reconstructed[last + i], k) = changelog[last].new}
<1>1. /\ Len(changelog) \in Nat /\ last \in 1 .. Len(changelog)
      /\ \A i \in 1 .. Len(changelog) : changelog[i] \in LogEntry
  OBVIOUS
<1>2. \A i \in 1 .. Len(changelog) :
         Get(Reconstructed[i], k) = IF k = changelog[i].key THEN changelog[i].new
                                    ELSE Get(Reconstructed[i - 1], k)
  <2> SUFFICES ASSUME NEW i \in 1 .. Len(changelog)
               PROVE  Get(Reconstructed[i], k) = IF k = changelog[i].key THEN changelog[i].new
                                                 ELSE Get(Reconstructed[i - 1], k)
    OBVIOUS
  <2>1. Reconstructed[i - 1] \in Dict
    <3>1. i - 1 \in 0 .. Len(changelog)
      BY <1>1
    <3> QED
      BY <3>1, ReconstructedFacts
  <2>2. Reconstructed[i] = AfterEntry(Reconstructed[i - 1], changelog[i])
    BY ReconstructedFacts
  <2> QED
    BY <1>1, <2>1, <2>2, AfterEntryFacts
<1>3. 0 \in T
  BY <1>1, <1>2
<1>4. ASSUME NEW i \in Nat, i \in T PROVE i + 1 \in T
  <2> SUFFICES ASSUME last + (i + 1) <= n
               PROVE  Get(Reconstructed[last + (i + 1)], k) = changelog[last].new
    OBVIOUS
  <2>1. Get(Reconstructed[last + i], k) = changelog[last].new
    BY <1>1, <1>4
  <2>2. last + (i + 1) \in (last + 1) .. n /\ (last + (i + 1)) - 1 = last + i
    BY <1>1
  <2> QED
    BY <1>1, <1>2, <2>1, <2>2
<1>5. Nat \subseteq T
  <2> HIDE DEF T
  <2> QED
    BY <1>3, <1>4, SetInduction
<1>6. n - last \in Nat /\ last + (n - last) = n
  BY <1>1
<1> QED
  BY <1>5, <1>6

-----------------------------------------------------------------------------
(* The log and the past, when the clock is never set back.                 *)

\* The stamps are in order, and the latest is not later than the clock.
Ordered ==
    /\ \A i \in DOMAIN changelog : changelog[i].ts <= now
    /\ \A i, j \in DOMAIN changelog : i <= j => changelog[i].ts <= changelog[j].ts

\* The value a key had at time t is what the last entry about it left, of those
\* since the last restore() and not later than t.
LoggedAt(t) ==
    \A k \in Key : \A i \in About(k) :
        /\ changelog[i].ts <= t
        /\ \A j \in About(k) : j > i => changelog[j].ts > t
        => Get(past[t], k) = changelog[i].new

PastLogged == \A t \in 0 .. now : LoggedAt(t)

PresentKept == past[now] = data

PresentLogged == LoggedAt(now)

TimeInv == StoreTypeOK /\ ChangelogChains /\ Ordered /\ PresentKept /\ PastLogged

\* For the present time that is the end of the chain.
LEMMA ChainEnds ==
    StoreTypeOK /\ ChangelogChains /\ Ordered /\ PresentKept => PresentLogged
<1> SUFFICES ASSUME StoreTypeOK, ChangelogChains, Ordered, past[now] = data,
                    NEW k \in Key, NEW i \in About(k),
                    \A j \in About(k) : j > i => changelog[j].ts > now
             PROVE  Get(past[now], k) = changelog[i].new
  BY DEF LoggedAt, PresentKept, PresentLogged
<1>1. About(k) \subseteq DOMAIN changelog /\ About(k) \subseteq Nat
  BY LogTyped DEF About
<1>2. \A j \in About(k) : changelog[j].ts <= now /\ changelog[j].ts \in Nat
  BY <1>1, LogTyped DEF Ordered
<1>3. \A j \in About(k) : j <= i
  <2>1. now \in Nat
    BY StoreConstants DEF StoreTypeOK
  <2> QED
    BY <1>1, <1>2, <2>1
<1> QED
  BY <1>3 DEF ChangelogChains, About

\* The stamps stay in order.
LEMMA OrderedStep ==
    ASSUME ~SetsBack, StoreTypeOK, Ordered, [StoreNext]_storeVars
    PROVE  Ordered'
<1>0. /\ Len(changelog) \in Nat /\ DOMAIN changelog = 1 .. Len(changelog) /\ now \in Nat
      /\ \A i \in DOMAIN changelog : changelog[i].ts \in Nat
  BY LogTyped, StoreConstants DEF StoreTypeOK
<1>1. ASSUME NEW es, Logs(es) PROVE Ordered'
  <2>1. /\ Len(es) \in Nat /\ DOMAIN es = 1 .. Len(es)
        /\ DOMAIN changelog' = 1 .. (Len(changelog) + Len(es))
        /\ \A i \in 1 .. Len(changelog) : changelog'[i] = changelog[i]
        /\ \A i \in 1 .. Len(es) : changelog'[Len(changelog) + i] = es[i]
    BY <1>1, LogGrows
  <2>2. now' = now /\ \A i \in DOMAIN es : es[i].ts = now
    BY <1>1 DEF Logs
  <2>3. \A i \in DOMAIN changelog' : i > Len(changelog) => changelog'[i].ts = now
    <3> SUFFICES ASSUME NEW i \in DOMAIN changelog', i > Len(changelog)
                 PROVE  changelog'[i].ts = now
      OBVIOUS
    <3>1. i - Len(changelog) \in 1 .. Len(es) /\ i = Len(changelog) + (i - Len(changelog))
      BY <1>0, <2>1
    <3> QED
      BY <2>1, <2>2, <3>1
  <2>4. \A i \in DOMAIN changelog' : changelog'[i].ts <= now
    BY <1>0, <2>1, <2>3 DEF Ordered
  <2>5. \A i, j \in DOMAIN changelog' : i <= j => changelog'[i].ts <= changelog'[j].ts
    <3> SUFFICES ASSUME NEW i \in DOMAIN changelog', NEW j \in DOMAIN changelog', i <= j
                 PROVE  changelog'[i].ts <= changelog'[j].ts
      OBVIOUS
    <3>1. CASE j > Len(changelog)
      BY <2>3, <2>4, <3>1
    <3>2. CASE ~(j > Len(changelog))
      <4>1. i \in DOMAIN changelog /\ j \in DOMAIN changelog
        BY <1>0, <2>1, <3>2
      <4> QED
        BY <1>0, <2>1, <4>1 DEF Ordered
    <3> QED
      BY <3>1, <3>2
  <2> QED
    BY <2>2, <2>4, <2>5 DEF Ordered
<1>2. ASSUME NEW t \in 0 .. MaxTime, Clock(t) PROVE Ordered'
  <2>1. now' = now + 1 /\ changelog' = changelog
    BY <1>2 DEF Clock
  <2>2. \A i \in DOMAIN changelog : changelog[i].ts <= now + 1
    BY <1>0 DEF Ordered
  <2> QED
    BY <2>1, <2>2 DEF Ordered
<1>3. CASE ClearChangelog
  BY <1>3 DEF ClearChangelog, Ordered
<1>4. ASSUME changelog' = changelog, now' = now PROVE Ordered'
  BY <1>4 DEF Ordered
<1> QED
  BY <1>1, <1>2, <1>3, <1>4, StoreSteps DEF Restore, storeVars

\* So does what the log says of the past: a step changes the past of the present
\* time only.
LEMMA TimeStep == TimeInv /\ ~SetsBack /\ [StoreNext]_storeVars => TimeInv'
<1>1. StoreTypeOK' /\ ChangelogChains' /\ Ordered' /\ PresentKept' => PresentLogged'
  BY ChainEnds, PTL
<1> SUFFICES ASSUME TimeInv, ~SetsBack, [StoreNext]_storeVars PROVE TimeInv'
  OBVIOUS
<1> USE DEF TimeInv, PresentKept
<1>2. StoreTypeOK' /\ ChangelogChains' /\ Ordered'
  BY StoreTypeStep, ChainsStep, OrderedStep
<1>3. now \in 0 .. MaxTime /\ past \in [0 .. MaxTime -> Dict] /\ MaxTime \in Nat
  BY StoreConstants DEF StoreTypeOK
<1>4. past'[now'] = data'
  <2>1. ASSUME NEW es, Logs(es) PROVE past'[now'] = data'
    BY <1>3, <2>1 DEF Logs
  <2>2. ASSUME NEW t \in 0 .. MaxTime, Clock(t) PROVE past'[now'] = data'
    BY <1>3, <2>2 DEF Clock
  <2> QED
    BY <1>3, <2>1, <2>2, StoreSteps DEF Restore, Becomes, ClearChangelog, storeVars
<1>5. PresentLogged'
  BY <1>1, <1>2, <1>4
<1>6. \A t \in 0 .. now : t = now' \/ LoggedAt(t)'
  <2> SUFFICES ASSUME NEW t \in 0 .. now, t # now' PROVE LoggedAt(t)'
    OBVIOUS
  <2>1. LoggedAt(t)
    BY DEF PastLogged
  <2>2. ASSUME NEW es, Logs(es) PROVE LoggedAt(t)'
    <3>1. past'[t] = past[t] /\ t < now
      BY <1>3, <2>2 DEF Logs
    <3>2. SUFFICES ASSUME NEW k \in Key, NEW i \in About(k)', changelog'[i].ts <= t,
                          \A j \in About(k)' : j > i => changelog'[j].ts > t
                   PROVE  Get(past[t], k) = changelog'[i].new
      BY <3>1 DEF LoggedAt
    <3>3. /\ Len(changelog) \in Nat /\ DOMAIN es = 1 .. Len(es)
          /\ DOMAIN changelog = 1 .. Len(changelog)
          /\ DOMAIN changelog' = 1 .. (Len(changelog) + Len(es)) /\ Len(es) \in Nat
          /\ \A j \in 1 .. Len(changelog) : changelog'[j] = changelog[j]
          /\ \A j \in 1 .. Len(es) : changelog'[Len(changelog) + j] = es[j]
      BY <2>2, LogGrows
    <3>4. i \in DOMAIN changelog
      <4> SUFFICES ASSUME i \notin DOMAIN changelog PROVE FALSE
        OBVIOUS
      <4>1. i \in DOMAIN changelog'
        BY DEF About
      <4>2. i - Len(changelog) \in 1 .. Len(es) /\ i = Len(changelog) + (i - Len(changelog))
        BY <3>3, <4>1
      <4>3. changelog'[i].ts = now
        BY <2>2, <3>3, <4>2 DEF Logs
      <4> QED
        BY <1>3, <3>1, <3>2, <4>3
    <3>5. restoredAt' = restoredAt
      BY <2>2 DEF Logs
    <3>6. i \in About(k) /\ About(k) \subseteq About(k)'
      BY <3>3, <3>4, <3>5 DEF About
    <3>7. \A j \in About(k) : changelog'[j] = changelog[j]
      BY <3>3 DEF About
    <3> QED
      BY <2>1, <3>2, <3>6, <3>7 DEF LoggedAt
  <2>3. ASSUME NEW u \in 0 .. MaxTime, Clock(u) PROVE LoggedAt(t)'
    <3>1. past'[t] = past[t] /\ changelog' = changelog /\ restoredAt' = restoredAt
      BY <1>3, <2>3 DEF Clock
    <3> QED
      BY <2>1, <3>1 DEF LoggedAt, About
  <2>4. ASSUME NEW d \in Saved, Restore(d) PROVE LoggedAt(t)'
    <3>1. \A k \in Key : About(k)' = {}
      BY <2>4, LogTyped DEF Restore, About
    <3> QED
      BY <3>1 DEF LoggedAt
  <2>5. CASE ClearChangelog
    BY <2>5 DEF ClearChangelog, LoggedAt, About
  <2>6. CASE UNCHANGED storeVars
    BY <2>1, <2>6 DEF LoggedAt, About, storeVars
  <2> QED
    BY <2>2, <2>3, <2>4, <2>5, <2>6, StoreSteps
<1>7. now' = now \/ now' = now + 1
  <2>1. ASSUME NEW u \in 0 .. MaxTime, Clock(u) PROVE now' = now + 1
    BY <2>1 DEF Clock
  <2>2. ASSUME NEW es, Logs(es) PROVE now' = now
    BY <2>2 DEF Logs
  <2> QED
    BY <2>1, <2>2, StoreSteps DEF Restore, ClearChangelog, storeVars
<1>8. PastLogged'
  <2> SUFFICES ASSUME NEW t \in 0 .. now' PROVE LoggedAt(t)'
    BY DEF PastLogged
  <2>1. t = now' \/ t \in 0 .. now
    BY <1>3, <1>7
  <2>2. CASE t = now'
    BY <1>5, <2>2 DEF PresentLogged, LoggedAt
  <2> QED
    BY <1>6, <2>1, <2>2
<1> QED
  BY <1>2, <1>4, <1>8

\* Under that invariant replay_to() is right about every key it knows of.
LEMMA ReplayDecides == TimeInv => LoggedKeysReplayed
<1> SUFFICES ASSUME TimeInv, NEW t \in 0 .. now, NEW i \in DOMAIN changelog,
                    i > restoredAt, changelog[i].ts <= t
             PROVE  Get(ReplayTo(t), changelog[i].key) = Get(past[t], changelog[i].key)
  BY DEF LoggedKeysReplayed
<1> USE DEF TimeInv, PresentKept
<1> DEFINE k == changelog[i].key
           R == Replayed(t)
           n == Cardinality(R)
           later == {j \in About(k) : changelog[j].ts <= t}
<1>1. /\ changelog \in Seq(LogEntry)
      /\ Len(changelog) \in Nat /\ DOMAIN changelog = 1 .. Len(changelog)
      /\ \A j \in DOMAIN changelog : changelog[j].ts \in Nat /\ changelog[j].key \in Key
      /\ t \in Nat /\ restoredAt \in Nat
  BY LogTyped, StoreConstants DEF StoreTypeOK
<1>2. \A j \in DOMAIN changelog : j \in R <=> changelog[j].ts <= t
  BY <1>1 DEF Replayed, Ordered
<1>3. n \in 0 .. Len(changelog) /\ R = 1 .. n
  <2>1. R \subseteq 1 .. Len(changelog) /\ \A j \in R : 1 .. j \subseteq R
    BY <1>1 DEF Replayed
  <2> HIDE DEF R
  <2> QED
    BY <1>1, <2>1, InitialSegment
<1>4. k \in Key /\ i \in later /\ later \subseteq 0 .. Len(changelog)
  BY <1>1 DEF About
<1>5. PICK last \in later : \A j \in later : j <= last
  <2> HIDE DEF later
  <2> QED
    BY <1>1, <1>4, GreatestNumber
<1>6. /\ last \in DOMAIN changelog /\ changelog[last].key = k /\ last > restoredAt
      /\ last \in 1 .. n
  BY <1>2, <1>3 DEF About
<1>7. \A j \in (last + 1) .. n : changelog[j].key # k
  <2> SUFFICES ASSUME NEW j \in (last + 1) .. n, changelog[j].key = k PROVE FALSE
    OBVIOUS
  <2>1. j \in DOMAIN changelog /\ j \in R /\ j > last
    <3> HIDE DEF R, k
    <3>1. n \in Nat /\ last \in Nat /\ n <= Len(changelog)
      BY <1>1, <1>3, <1>6
    <3> HIDE DEF n
    <3>2. j \in 1 .. n /\ j > last
      BY <1>6, <3>1
    <3> QED
      BY <1>1, <1>3, <3>1, <3>2
  <2>2. j \in later
    BY <1>1, <1>2, <1>6, <2>1 DEF About
  <2> QED
    BY <1>1, <1>5, <1>6, <2>1, <2>2
<1>8. Get(ReplayTo(t), k) = changelog[last].new
  <2>1. n \in last .. Len(changelog)
    BY <1>1, <1>3, <1>6
  <2> HIDE DEF k, n
  <2>2. Get(Reconstructed[n], k) = changelog[last].new
    BY <1>1, <1>6, <1>7, <2>1, LastEntryDecides
  <2> QED
    BY <2>2 DEF ReplayTo, n
<1>9. \A j \in About(k) : j > last => changelog[j].ts > t
  BY <1>1, <1>5, <1>6 DEF About
<1>10. Get(past[t], k) = changelog[last].new
  BY <1>4, <1>5, <1>9 DEF PastLogged, LoggedAt
<1> QED
  BY <1>8, <1>10

\* When the clock is never set back, replay_to() reconstructs, for every earlier
\* time, the value of each key that the log mentions by then.
THEOREM LogReplays ==
    ASSUME ~SetsBack
    PROVE  StoreSpec => []LoggedKeysReplayed
<1>1. StoreInit => TimeInv
  BY StoreConstants DEF StoreInit, TimeInv, StoreTypeOK, ChangelogChains, Ordered, PresentKept,
                        PastLogged, LoggedAt, About
<1>2. TimeInv /\ [StoreNext]_storeVars => TimeInv'
  BY TimeStep
<1> QED
  BY <1>1, <1>2, ReplayDecides, PTL DEF StoreSpec

=============================================================================

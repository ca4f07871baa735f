------------------------- MODULE RealityLayersProofs -------------------------
(***************************************************************************)
(* Proofs about the layer stack, for any layers, any stack and any number  *)
(* of events, readings and allocations: who answers a system call, that    *)
(* nothing is handed out twice, and that no event is lost or overtaken.    *)
(***************************************************************************)
EXTENDS RealityLayers, DataInduction

-----------------------------------------------------------------------------
(* Who answers.                                                            *)

\* Layers satisfying P(l) on the stack make TopmostWhere one of them, and none
\* of them is above it; here for the two conditions of _resolve.
LEMMA TopmostIs ==
    ASSUME TypeOK, NEW I, I \subseteq DOMAIN stack, I # {}
    PROVE  LET top == CHOOSE i \in I : \A j \in I : j <= i
           IN  top \in I /\ (\A j \in I : j <= top) /\ stack[top] \in Layer
                         /\ stack[top] # NoLayer
<1>1. DOMAIN stack = 1 .. Len(stack) /\ Len(stack) \in Nat
  BY DEF TypeOK
<1>2. I \subseteq 0 .. Len(stack)
  BY <1>1
<1>3. PICK x \in I : \A j \in I : j <= x
  BY <1>1, <1>2, GreatestNumber
<1> DEFINE top == CHOOSE i \in I : \A j \in I : j <= i
<1>4. top \in I /\ \A j \in I : j <= top
  BY <1>3
<1> HIDE DEF top
<1>5. stack[top] \in Layer
  BY <1>1, <1>4 DEF TypeOK
<1>6. stack[top] # NoLayer
  BY <1>5, LayerKinds
<1> QED
  BY <1>4, <1>5, <1>6 DEF top

\* What _resolve finds: if an enabled layer of the stack overrides the method, the
\* topmost such layer.
LEMMA ResolveFacts ==
    ASSUME TypeOK, NEW method,
           NEW i \in DOMAIN stack, enabled[stack[i]], method \in Overrides(stack[i])
    PROVE  \E j \in DOMAIN stack :
              /\ i <= j /\ stack[j] = Resolve(method)
              /\ enabled[stack[j]] /\ method \in Overrides(stack[j])
<1> DEFINE I == {j \in DOMAIN stack : enabled[stack[j]] /\ method \in Overrides(stack[j])}
           top == CHOOSE j \in I : \A k \in I : k <= j
<1>1. i \in I /\ I \subseteq DOMAIN stack
  OBVIOUS
<1>2. top \in I /\ (\A k \in I : k <= top) /\ stack[top] # NoLayer
  <2> HIDE DEF I
  <2> QED
    BY <1>1, TopmostIs
<1>3. TopmostWhere(LAMBDA l : enabled[l] /\ method \in Overrides(l)) = stack[top]
  BY <1>1 DEF TopmostWhere
<1> HIDE DEF top
<1>4. Resolve(method) = stack[top]
  BY <1>2, <1>3 DEF Resolve
<1> QED
  BY <1>1, <1>2, <1>4

\* A layer that answers is one of the layers.
LEMMA ResolveTyped ==
    ASSUME TypeOK, NEW method
    PROVE  Resolve(method) \in Layer \cup {NoLayer}
<1> DEFINE I == {j \in DOMAIN stack : enabled[stack[j]] /\ method \in Overrides(stack[j])}
           J == {j \in DOMAIN stack : enabled[stack[j]]}
<1>1. TopmostWhere(LAMBDA l : enabled[l] /\ method \in Overrides(l)) \in Layer \cup {NoLayer}
  <2>1. CASE I = {}
    BY <2>1 DEF TopmostWhere
  <2>2. CASE I # {}
    <3>1. I \subseteq DOMAIN stack
      OBVIOUS
    <3>2. stack[CHOOSE j \in I : \A k \in I : k <= j] \in Layer
      <4> HIDE DEF I
      <4> QED
        BY <2>2, <3>1, TopmostIs
    <3> QED
      BY <2>2, <3>2 DEF TopmostWhere
  <2> QED
    BY <2>1, <2>2
<1>2. TopmostWhere(LAMBDA l : enabled[l]) \in Layer \cup {NoLayer}
  <2>1. CASE J = {}
    BY <2>1 DEF TopmostWhere
  <2>2. CASE J # {}
    <3>1. J \subseteq DOMAIN stack
      OBVIOUS
    <3>2. stack[CHOOSE j \in J : \A k \in J : k <= j] \in Layer
      <4> HIDE DEF J
      <4> QED
        BY <2>2, <3>1, TopmostIs
    <3> QED
      BY <2>2, <3>2 DEF TopmostWhere
  <2> QED
    BY <2>1, <2>2
<1> QED
  BY <1>1, <1>2 DEF Resolve

\* An enabled DeterministicLayer on the stack answers whatever no SlowTimeLayer
\* above it answers.
LEMMA AnswersAreDeterministic == TypeOK => DeterministicUnlessCovered
<1> SUFFICES ASSUME TypeOK, NEW i \in DOMAIN stack,
                    stack[i] \in DeterministicLayer, enabled[stack[i]],
                    NEW method \in Method
             PROVE  \/ Resolve(method) \in DeterministicLayer
                    \/ /\ method = "time_now"
                       /\ \E j \in (i + 1)..Len(stack) :
                             stack[j] = Resolve(method) /\ stack[j] \in SlowTimeLayer
  BY DEF DeterministicUnlessCovered
<1>1. method \in Overrides(stack[i])
  BY DEF Overrides
<1>2. PICK j \in DOMAIN stack :
              /\ i <= j /\ stack[j] = Resolve(method)
              /\ enabled[stack[j]] /\ method \in Overrides(stack[j])
  BY <1>1, ResolveFacts
<1>3. CASE stack[j] \in DeterministicLayer
  BY <1>2, <1>3
<1>4. CASE stack[j] \notin DeterministicLayer
  <2>1. stack[j] \in SlowTimeLayer /\ method = "time_now"
    BY <1>2, <1>4 DEF Overrides
  <2>2. i # j
    BY <1>4
  <2>3. DOMAIN stack = 1 .. Len(stack) /\ Len(stack) \in Nat
    BY DEF TypeOK
  <2>4. j \in (i + 1)..Len(stack)
    BY <1>2, <2>2, <2>3
  <2> QED
    BY <1>2, <2>1, <2>4
<1> QED
  BY <1>3, <1>4

-----------------------------------------------------------------------------
(* What is drained.                                                        *)

\* F[i] is the concatenation of the first i sequences of s.
Accumulates(F, s, n, V) ==
    /\ F \in [0 .. n -> Seq(V)] /\ F[0] = <<>>
    /\ \A i \in 1 .. n : F[i] = F[i - 1] \o s[i]
    /\ FlattenSeq(s) = F[n]

\* A concatenation of sequences is built up from the front.
LEMMA Flattening ==
    ASSUME NEW V, NEW n \in Nat, NEW s \in [1 .. n -> Seq(V)]
    PROVE  \E F : Accumulates(F, s, n, V)
<1> DEFINE step == [p \in (1 .. n) \X Seq(V) |-> p[2] \o s[p[1]]]
<1>1. step \in [(1 .. n) \X Seq(V) -> Seq(V)]
  OBVIOUS
<1>2. PICK F : Recursion(F, n, Seq(V), <<>>, step)
  <2> HIDE DEF step
  <2>1. <<>> \in Seq(V)
    OBVIOUS
  <2> QED
    BY <1>1, <2>1, PrimitiveRecursion
<1>3. /\ F \in [0 .. n -> Seq(V)] /\ F[0] = <<>>
      /\ \A i \in 1 .. n : F[i] = step[<<i, F[i - 1]>>]
  BY <1>2 DEF Recursion
<1>4. ASSUME NEW i \in 1 .. n PROVE F[i - 1] \in Seq(V) /\ F[i] = F[i - 1] \o s[i]
  <2>1. i - 1 \in 0 .. n
    OBVIOUS
  <2>2. F[i - 1] \in Seq(V)
    BY <1>3, <2>1
  <2> QED
    BY <1>3, <2>2
<1> HIDE DEF step
<1>5. Len(s) = n /\ s \in Seq(Seq(V))
  OBVIOUS
<1>6. FlattenSeq(s) = F[n]
  <2>1. CASE n = 0
    <3>1. s = <<>>
      BY <2>1
    <3> QED
      BY <1>3, <1>5, <2>1, <3>1 DEF FlattenSeq
  <2>2. CASE n # 0
    <3> DEFINE Is(f) == f = [i \in 1 .. Len(s) |-> IF i = 1 THEN s[i] ELSE f[i - 1] \o s[i]]
               kept == CHOOSE f : Is(f)
               G == [i \in 1 .. n |-> F[i]]
    <3>1. FlattenSeq(s) = kept[Len(s)]
      BY <1>5, <2>2 DEF FlattenSeq
    <3>2. \A i \in 1 .. n : G[i] = IF i = 1 THEN s[i] ELSE G[i - 1] \o s[i]
      <4> SUFFICES ASSUME NEW i \in 1 .. n
                   PROVE  G[i] = IF i = 1 THEN s[i] ELSE G[i - 1] \o s[i]
        OBVIOUS
      <4>1. CASE i = 1
        <5>1. F[1] = <<>> \o s[1]
          <6>1. F[i] = F[i - 1] \o s[i] /\ i - 1 = 0
            BY <1>4, <4>1
          <6> QED
            BY <1>3, <4>1, <6>1
        <5>2. s[1] \in Seq(V)
          BY <4>1
        <5> QED
          BY <4>1, <5>1, <5>2
      <4>2. CASE i # 1
        <5>1. i - 1 \in 1 .. n
          BY <4>2
        <5> QED
          BY <1>4, <4>2, <5>1
      <4> QED
        BY <4>1, <4>2
    <3>3. Is(G)
      BY <1>5, <3>2
    <3>4. Is(kept)
      <4> HIDE DEF Is, G
      <4> QED
        BY <3>3
    <3> HIDE DEF kept
    <3>5. \A i \in 1 .. n : kept[i] = IF i = 1 THEN s[i] ELSE kept[i - 1] \o s[i]
      BY <1>5, <3>4
    <3> HIDE DEF Is, G
    <3> DEFINE T == {i \in Nat : i + 1 <= n => kept[i + 1] = F[i + 1]}
    <3>6. 0 \in T
      <4>1. 1 \in 1 .. n /\ 1 - 1 = 0
        BY <2>2
      <4>2. kept[1] = s[1]
        BY <3>5, <4>1
      <4>3. F[1] = F[0] \o s[1] /\ s[1] \in Seq(V)
        BY <1>4, <4>1
      <4>4. F[1] = s[1]
        BY <1>3, <4>3
      <4> QED
        BY <4>2, <4>4
    <3>7. ASSUME NEW i \in Nat, i \in T PROVE i + 1 \in T
      <4> SUFFICES ASSUME i + 2 <= n PROVE kept[i + 2] = F[i + 2]
        OBVIOUS
      <4>1. i + 2 \in 1 .. n /\ i + 2 # 1 /\ (i + 2) - 1 = i + 1 /\ i + 1 <= n
        OBVIOUS
      <4>2. kept[i + 1] = F[i + 1]
        BY <3>7, <4>1
      <4>3. kept[i + 2] = kept[i + 1] \o s[i + 2]
        BY <3>5, <4>1
      <4>4. F[i + 2] = F[i + 1] \o s[i + 2]
        BY <1>4, <4>1
      <4> QED
        BY <4>2, <4>3, <4>4
    <3> HIDE DEF T
    <3>8. Nat \subseteq T
      BY <3>6, <3>7, SetInduction
    <3>9. n - 1 \in T /\ (n - 1) + 1 = n
      BY <2>2, <3>8
    <3>10. kept[n] = F[n]
      BY <3>9 DEF T
    <3> QED
      BY <1>5, <3>1, <3>10
  <2> QED
    BY <2>1, <2>2
<1> QED
  BY <1>3, <1>4, <1>6 DEF Accumulates

\* What drain_all_events takes from the layer at a position of the stack.
Block(i) ==
    IF enabled[stack[i]] /\ \A j \in 1..(i - 1) : stack[j] # stack[i]
    THEN [k \in DOMAIN queue[stack[i]] |-> <<stack[i], queue[stack[i]][k]>>]
    ELSE <<>>

\* F[i] is what it has taken from the first i layers.
TakenFrom(F) ==
    /\ F \in [0 .. Len(stack) -> Seq(Layer \X Nat)] /\ F[0] = <<>>
    /\ \A i \in 1 .. Len(stack) : F[i] = F[i - 1] \o Block(i)
    /\ Pending = F[Len(stack)]

\* What drain_all_events returns is taken from the stack place by place.
LEMMA PendingIsTaken == TypeOK => \E F : TakenFrom(F)
<1> SUFFICES ASSUME TypeOK PROVE \E F : TakenFrom(F)
  OBVIOUS
<1> DEFINE s == [i \in 1 .. Len(stack) |-> Block(i)]
<1>1. /\ Len(stack) \in Nat /\ DOMAIN stack = 1 .. Len(stack)
      /\ \A i \in 1 .. Len(stack) : stack[i] \in Layer
      /\ queue \in [Layer -> Seq(Nat)]
  BY DEF TypeOK
<1>2. ASSUME NEW i \in 1 .. Len(stack) PROVE Block(i) \in Seq(Layer \X Nat)
  <2> DEFINE q == queue[stack[i]]
  <2>1. q \in Seq(Nat) /\ stack[i] \in Layer
    BY <1>1
  <2> HIDE DEF q
  <2>2. [k \in DOMAIN q |-> <<stack[i], q[k]>>] \in Seq(Layer \X Nat)
    BY <2>1
  <2>3. <<>> \in Seq(Layer \X Nat)
    OBVIOUS
  <2> QED
    BY <2>2, <2>3 DEF Block, q
<1>3. s \in [1 .. Len(stack) -> Seq(Layer \X Nat)]
  BY <1>2
<1>4. Pending = FlattenSeq(s)
  BY <1>1 DEF Pending, Block
<1>5. PICK F : Accumulates(F, s, Len(stack), Layer \X Nat)
  <2> HIDE DEF s
  <2> QED
    BY <1>1, <1>3, Flattening
<1> QED
  BY <1>4, <1>5 DEF TakenFrom, Accumulates

-----------------------------------------------------------------------------
(* Events keep their order.                                                *)

\* Events of other layers change nothing for l.
LEMMA OthersAppended ==
    ASSUME NEW l \in Layer, NEW n \in Nat, NEW d \in Seq(Layer \X Nat),
           NEW b \in Seq(Layer \X Nat), HasFirst(d, l, n),
           \A k \in DOMAIN b : b[k][1] # l
    PROVE  HasFirst(d \o b, l, n)
<1> DEFINE s == d \o b
<1>1. /\ Len(d) \in Nat /\ Len(b) \in Nat /\ DOMAIN d = 1 .. Len(d)
      /\ DOMAIN b = 1 .. Len(b) /\ DOMAIN s = 1 .. (Len(d) + Len(b))
  OBVIOUS
<1>2. \A i \in DOMAIN d : i \in DOMAIN s /\ s[i] = d[i]
  OBVIOUS
<1>3. \A i \in DOMAIN s : i \notin DOMAIN d => i - Len(d) \in DOMAIN b /\ s[i] = b[i - Len(d)]
  OBVIOUS
<1> HIDE DEF s
<1>4. {i \in DOMAIN s : s[i][1] = l} = {i \in DOMAIN d : d[i][1] = l}
  BY <1>2, <1>3
<1>5. {s[i][2] : i \in {j \in DOMAIN s : s[j][1] = l}}
        = {d[i][2] : i \in {j \in DOMAIN d : d[j][1] = l}}
  BY <1>2, <1>4
<1>6. HasFirst(s, l, n)
  BY <1>2, <1>4, <1>5 DEF HasFirst
<1> QED
  BY <1>6 DEF s

\* The next m events of l may follow the first n.
LEMMA OwnAppended ==
    ASSUME NEW l \in Layer, NEW n \in Nat, NEW m \in Nat, NEW d \in Seq(Layer \X Nat),
           NEW b \in Seq(Layer \X Nat), HasFirst(d, l, n),
           b = [k \in 1 .. m |-> <<l, n + k>>]
    PROVE  HasFirst(d \o b, l, n + m)
<1> DEFINE s == d \o b
           P(t) == {i \in DOMAIN t : t[i][1] = l}
<1>1. /\ Len(d) \in Nat /\ Len(b) = m /\ DOMAIN d = 1 .. Len(d)
      /\ DOMAIN s = 1 .. (Len(d) + m)
  OBVIOUS
<1>2. \A i \in DOMAIN d : i \in DOMAIN s /\ s[i] = d[i]
  OBVIOUS
<1>3. \A k \in 1 .. m : Len(d) + k \in DOMAIN s /\ s[Len(d) + k] = <<l, n + k>>
  OBVIOUS
<1>4. \A i \in DOMAIN s : i \in DOMAIN d \/ \E k \in 1 .. m : i = Len(d) + k
  <2> SUFFICES ASSUME NEW i \in DOMAIN s, i \notin DOMAIN d
               PROVE  \E k \in 1 .. m : i = Len(d) + k
    OBVIOUS
  <2>1. i - Len(d) \in 1 .. m /\ i = Len(d) + (i - Len(d))
    BY <1>1
  <2> QED
    BY <2>1
<1> HIDE DEF s
<1>5. /\ {d[i][2] : i \in P(d)} = 1 .. n
      /\ \A i, j \in P(d) : i < j => d[i][2] < d[j][2]
  BY DEF HasFirst
<1>6. {s[i][2] : i \in P(s)} = 1 .. (n + m)
  <2>1. ASSUME NEW i \in P(s) PROVE s[i][2] \in 1 .. (n + m)
    <3>1. CASE i \in DOMAIN d
      <4>1. d[i][2] \in 1 .. n
        BY <1>2, <1>5, <3>1
      <4> QED
        BY <1>2, <3>1, <4>1
    <3>2. CASE i \notin DOMAIN d
      <4>1. PICK k \in 1 .. m : i = Len(d) + k
        BY <1>4, <3>2
      <4>2. s[i][2] = n + k
        BY <1>3, <4>1
      <4> QED
        BY <4>2
    <3> QED
      BY <3>1, <3>2
  <2>2. ASSUME NEW x \in 1 .. (n + m) PROVE \E i \in P(s) : s[i][2] = x
    <3>1. CASE x <= n
      <4>1. x \in 1 .. n
        BY <3>1
      <4>2. PICK i \in P(d) : d[i][2] = x
        BY <1>5, <4>1
      <4> QED
        BY <1>2, <4>2
    <3>2. CASE ~(x <= n)
      <4>1. PICK k \in 1 .. m : x = n + k
        <5>1. x - n \in 1 .. m /\ x = n + (x - n)
          BY <3>2
        <5> QED
          BY <5>1
      <4>2. Len(d) + k \in P(s) /\ s[Len(d) + k][2] = x
        BY <1>3, <4>1
      <4> QED
        BY <4>2
    <3> QED
      BY <3>1, <3>2
  <2> HIDE DEF P
  <2> QED
    BY <2>1, <2>2
<1>7. ASSUME NEW i \in P(s), NEW j \in P(s), i < j PROVE s[i][2] < s[j][2]
  <2>1. CASE j \in DOMAIN d
    <3>1. i \in DOMAIN d
      BY <1>1, <1>7, <2>1
    <3> QED
      BY <1>2, <1>5, <1>7, <2>1, <3>1
  <2>2. CASE j \notin DOMAIN d
    <3>1. PICK k \in 1 .. m : j = Len(d) + k
      BY <1>4, <2>2
    <3>2. s[j][2] = n + k
      BY <1>3, <3>1
    <3>3. CASE i \in DOMAIN d
      <4>1. d[i][2] \in 1 .. n /\ s[i] = d[i]
        BY <1>2, <1>5, <3>3
      <4> QED
        BY <3>2, <4>1
    <3>4. CASE i \notin DOMAIN d
      <4>1. PICK h \in 1 .. m : i = Len(d) + h
        BY <1>4, <3>4
      <4>2. s[i][2] = n + h /\ h < k
        BY <1>1, <1>3, <1>7, <3>1, <4>1
      <4> QED
        BY <3>2, <4>2
    <3> QED
      BY <3>3, <3>4
  <2> QED
    BY <2>1, <2>2
<1>8. HasFirst(s, l, n + m)
  BY <1>6, <1>7 DEF HasFirst
<1> QED
  BY <1>8 DEF s

\* Concatenation of what was drained.
LEMMA Concatenation ==
    ASSUME NEW V, NEW a \in Seq(V), NEW b \in Seq(V), NEW c \in Seq(V)
    PROVE  a \o (b \o c) = (a \o b) \o c /\ a \o <<>> = a
OBVIOUS

\* The events of a queue with the name of their layer.
LEMMA Labelled ==
    ASSUME NEW l \in Layer, NEW q \in Seq(Nat)
    PROVE  [k \in DOMAIN q |-> <<l, q[k]>>] \in Seq(Layer \X Nat)
OBVIOUS

\* The first n events of l are drained, in order, and the others wait in order.
SplitAt(l, n) ==
    /\ n \in 0 .. injected[l]
    /\ HasFirst(drained, l, n)
    /\ queue[l] = [k \in 1 .. (injected[l] - n) |-> n + k]

\* drain_all_events goes through the stack; where it has met a layer that is enabled
\* all of its events are drained.
LEMMA DrainKeepsOrder ==
    ASSUME TypeOK, EventsKeepOrder, DrainAllEvents
    PROVE  EventsKeepOrder'
<1> DEFINE out(l) == CHOOSE n : SplitAt(l, n)
           Taken(i, l) == enabled[l] /\ \E j \in 1 .. i : stack[j] = l
           upto(i, l) == IF Taken(i, l) THEN injected[l] ELSE out(l)
<1>1. ASSUME NEW l \in Layer PROVE SplitAt(l, out(l))
  BY DEF EventsKeepOrder, SplitAt
<1> HIDE DEF out
<1>2. PICK F : TakenFrom(F)
  BY PendingIsTaken
<1>3. /\ F \in [0 .. Len(stack) -> Seq(Layer \X Nat)] /\ F[0] = <<>>
      /\ \A i \in 1 .. Len(stack) : F[i] = F[i - 1] \o Block(i)
      /\ Pending = F[Len(stack)]
  BY <1>2 DEF TakenFrom
<1>4. /\ Len(stack) \in Nat /\ DOMAIN stack = 1 .. Len(stack)
      /\ \A i \in 1 .. Len(stack) : stack[i] \in Layer
      /\ queue \in [Layer -> Seq(Nat)] /\ injected \in [Layer -> Nat]
      /\ drained \in Seq(Layer \X Nat)
  BY DEF TypeOK
<1>5. \A l \in Layer : out(l) \in Nat /\ out(l) <= injected[l] /\ injected[l] \in Nat
  BY <1>1, <1>4 DEF SplitAt
<1> DEFINE T == {i \in Nat : i <= Len(stack) =>
                    \A l \in Layer : HasFirst(drained \o F[i], l, upto(i, l))}
<1>6. 0 \in T
  <2>1. drained \o <<>> = drained
    BY <1>4
  <2>2. \A l \in Layer : upto(0, l) = out(l)
    OBVIOUS
  <2>3. \A l \in Layer : HasFirst(drained \o F[0], l, upto(0, l))
    BY <1>1, <1>3, <2>1, <2>2 DEF SplitAt
  <2> HIDE DEF upto
  <2> QED
    BY <2>3
<1>7. ASSUME NEW i \in Nat, i \in T PROVE i + 1 \in T
  <2> SUFFICES ASSUME i + 1 <= Len(stack), NEW l \in Layer
               PROVE  HasFirst(drained \o F[i + 1], l, upto(i + 1, l))
    OBVIOUS
  <2> DEFINE top == stack[i + 1]
             d == drained \o F[i]
  <2>1. /\ i + 1 \in 1 .. Len(stack) /\ (i + 1) - 1 = i /\ i \in 0 .. Len(stack)
        /\ i <= Len(stack)
    BY <1>4
  <2>2. top \in Layer /\ F[i] \in Seq(Layer \X Nat) /\ F[i + 1] = F[i] \o Block(i + 1)
    BY <1>3, <1>4, <2>1
  <2>3. HasFirst(d, l, upto(i, l))
    <3> HIDE DEF upto
    <3> QED
      BY <1>7, <2>1
  <2>4. d \in Seq(Layer \X Nat)
    BY <1>4, <2>2
  <2>5. CASE enabled[top] /\ \A j \in 1 .. i : stack[j] # top
    <3> DEFINE q == queue[top]
               b == [k \in DOMAIN q |-> <<top, q[k]>>]
    <3>1. Block(i + 1) = b
      BY <2>1, <2>5 DEF Block
    <3>2. q \in Seq(Nat) /\ b \in Seq(Layer \X Nat)
      <4>1. q \in Seq(Nat)
        BY <1>4, <2>2
      <4> HIDE DEF q, top
      <4> QED
        BY <4>1, <2>2, Labelled
    <3>3. drained \o F[i + 1] = d \o b
      <4> HIDE DEF b
      <4>1. F[i + 1] = F[i] \o b
        BY <2>2, <3>1
      <4>2. drained \o (F[i] \o b) = (drained \o F[i]) \o b
        <5>1. drained \in Seq(Layer \X Nat) /\ F[i] \in Seq(Layer \X Nat)
              /\ b \in Seq(Layer \X Nat)
          BY <1>4, <2>2, <3>2
        <5> QED
          BY <5>1, Concatenation
      <4> QED
        BY <4>1, <4>2
    <3>4. CASE l = top
      <4>1. upto(i, l) = out(l) /\ upto(i + 1, l) = injected[l]
        BY <2>1, <2>5, <3>4
      <4> DEFINE n == out(l)
                 m == injected[l] - n
      <4>2. n \in Nat /\ m \in Nat /\ n + m = injected[l]
        BY <1>5
      <4>3. q = [k \in 1 .. m |-> n + k]
        BY <1>1, <3>4 DEF SplitAt
      <4> HIDE DEF n, m
      <4>4. b = [k \in 1 .. m |-> <<l, n + k>>]
        BY <3>4, <4>3
      <4> HIDE DEF b, upto, d
      <4>5. HasFirst(d, l, n)
        BY <2>3, <4>1 DEF n
      <4>6. HasFirst(d \o b, l, n + m)
        BY <2>4, <3>2, <4>2, <4>4, <4>5, OwnAppended
      <4> QED
        BY <3>3, <4>1, <4>2, <4>6
    <3>5. CASE l # top
      <4>1. upto(i + 1, l) = upto(i, l)
        <5>1. Taken(i + 1, l) <=> Taken(i, l)
          BY <2>1, <3>5
        <5> QED
          BY <5>1
      <4>2. \A k \in DOMAIN b : b[k][1] # l
        BY <3>5
      <4>3. upto(i, l) \in Nat
        BY <1>5
      <4> HIDE DEF b, upto, d
      <4>4. HasFirst(d \o b, l, upto(i, l))
        BY <2>3, <2>4, <3>2, <4>2, <4>3, OthersAppended
      <4> QED
        BY <3>3, <4>1, <4>4
    <3> QED
      BY <3>4, <3>5
  <2>6. CASE ~(enabled[top] /\ \A j \in 1 .. i : stack[j] # top)
    <3>1. Block(i + 1) = <<>>
      BY <2>1, <2>6 DEF Block
    <3>2. F[i + 1] = F[i]
      BY <2>2, <3>1, Concatenation
    <3>3. Taken(i + 1, l) <=> Taken(i, l)
      BY <2>1, <2>6
    <3>4. upto(i + 1, l) = upto(i, l)
      BY <3>3
    <3> HIDE DEF upto
    <3> QED
      BY <2>3, <3>2, <3>4
  <2> QED
    BY <2>5, <2>6
<1>8. \A l \in Layer : HasFirst(drained \o Pending, l, upto(Len(stack), l))
  <2> HIDE DEF T
  <2>1. Nat \subseteq T
    BY <1>6, <1>7, SetInduction
  <2>2. Len(stack) \in T
    BY <1>4, <2>1
  <2> HIDE DEF upto
  <2> QED
    BY <1>3, <1>4, <2>2 DEF T
<1>9. /\ drained' = drained \o Pending /\ injected' = injected
      /\ queue' = [l \in Layer |-> IF l \in OnStack /\ enabled[l] THEN <<>> ELSE queue[l]]
  BY DEF DrainAllEvents, eventVars
<1>10. ASSUME NEW l \in Layer
       PROVE  \E n \in 0 .. injected'[l] :
                 /\ HasFirst(drained', l, n)
                 /\ queue'[l] = [k \in 1 .. (injected'[l] - n) |-> n + k]
  <2>1. CASE Taken(Len(stack), l)
    <3>1. l \in OnStack /\ enabled[l]
      BY <1>4, <2>1 DEF OnStack
    <3>2. queue'[l] = <<>>
      BY <1>9, <3>1
    <3>3. HasFirst(drained', l, injected[l])
      BY <1>8, <1>9, <2>1
    <3>4. injected[l] \in 0 .. injected'[l]
      BY <1>5, <1>9
    <3>5. queue'[l] = [k \in 1 .. (injected'[l] - injected[l]) |-> injected[l] + k]
      BY <1>5, <1>9, <3>2
    <3> QED
      BY <3>3, <3>4, <3>5
  <2>2. CASE ~Taken(Len(stack), l)
    <3>1. ~(l \in OnStack /\ enabled[l])
      BY <1>4, <2>2 DEF OnStack
    <3>2. queue'[l] = queue[l]
      BY <1>9, <3>1
    <3>3. HasFirst(drained', l, out(l))
      BY <1>8, <1>9, <2>2
    <3> QED
      BY <1>1, <1>9, <3>2, <3>3 DEF SplitAt
  <2> QED
    BY <2>1, <2>2
<1> QED
  BY <1>10 DEF EventsKeepOrder, HasFirst

\* An injection puts one event at the end of one queue.
LEMMA InjectKeepsOrder ==
    ASSUME TypeOK, EventsKeepOrder, NEW l \in Layer, InjectEvent(l)
    PROVE  EventsKeepOrder'
<1>1. /\ injected' = [injected EXCEPT ![l] = @ + 1] /\ drained' = drained
      /\ queue' = [queue EXCEPT ![l] = Append(@, injected[l] + 1)]
  BY DEF InjectEvent
<1>2. injected \in [Layer -> Nat] /\ queue \in [Layer -> Seq(Nat)]
  BY DEF TypeOK
<1>3. ASSUME NEW m \in Layer
      PROVE  \E n \in 0 .. injected'[m] :
                 /\ HasFirst(drained', m, n)
                 /\ queue'[m] = [k \in 1 .. (injected'[m] - n) |-> n + k]
  <2>1. PICK n \in 0 .. injected[m] :
           HasFirst(drained, m, n) /\ queue[m] = [k \in 1 .. (injected[m] - n) |-> n + k]
    BY DEF EventsKeepOrder
  <2>2. CASE m # l
    BY <1>1, <1>2, <2>1, <2>2
  <2>3. CASE m = l
    <3> DEFINE r == injected[l] - n
    <3>1. r \in Nat /\ injected'[l] = injected[l] + 1 /\ n \in 0 .. injected'[l]
          /\ injected'[l] - n = r + 1 /\ injected[l] + 1 = n + (r + 1) /\ n \in Nat
      BY <1>1, <1>2, <2>1, <2>3
    <3>2. queue'[l] = Append(queue[l], injected[l] + 1) /\ queue[l] = [k \in 1 .. r |-> n + k]
      BY <1>1, <1>2, <2>1, <2>3
    <3> HIDE DEF r
    <3>3. Append([k \in 1 .. r |-> n + k], n + (r + 1)) = [k \in 1 .. r + 1 |-> n + k]
      BY <3>1
    <3>4. queue'[m] = [k \in 1 .. (injected'[m] - n) |-> n + k]
      BY <2>3, <3>1, <3>2, <3>3
    <3>5. HasFirst(drained', m, n)
      BY <1>1, <2>1
    <3> QED
      BY <2>3, <3>1, <3>4, <3>5
  <2> QED
    BY <2>2, <2>3
<1> QED
  BY <1>3 DEF EventsKeepOrder, HasFirst

-----------------------------------------------------------------------------
(* Time and memory.                                                        *)

\* The time told last, and how it relates to the time a layer would tell now.
TimesInOrder ==
    \A l \in Layer :
       /\ last[l] <= TimeOf(l)
       /\ l \in DeterministicLayer => last[l] < TimeOf(l)

\* The blocks handed out lie below the counter, each above those before it.
BlocksInOrder ==
    \A l \in DeterministicLayer :
       /\ \A i \in DOMAIN allocs[l] : allocs[l][i].address + allocs[l][i].size <= counter[l]
       /\ \A i, j \in DOMAIN allocs[l] :
             i < j => allocs[l][i].address + allocs[l][i].size <= allocs[l][j].address

LInv == TypeOK /\ EventsKeepOrder /\ TimesInOrder /\ BlocksInOrder

\* Every layer tells a natural number.
LEMMA TimesTyped ==
    ASSUME TypeOK, NEW l \in Layer
    PROVE  TimeOf(l) \in Nat /\ last[l] \in Int
<1>1. l \in DeterministicLayer => clock[l] \in Nat
  BY LayerNumbers DEF TypeOK
<1>2. now \in Nat
  BY LayerNumbers DEF TypeOK
<1>3. l \in SlowTimeLayer => factor[l] \in Nat
  BY LayerNumbers DEF TypeOK
<1>4. last[l] \in Int
  BY DEF TypeOK, NoReading
<1>5. l \in SlowTimeLayer => now * factor[l] \in Nat
  BY <1>2, <1>3
<1>6. (now - Epoch) * factor[l] = now * factor[l] /\ 2 * Epoch = 0
  BY <1>2 DEF Epoch
<1> QED
  BY <1>1, <1>2, <1>4, <1>5, <1>6 DEF TimeOf, Epoch

\* A reading leaves the clock of a DeterministicLayer ahead of what it told.
LEMMA TimeNowKeeps ==
    ASSUME TypeOK, TimesInOrder, TimeNow
    PROVE  TimesInOrder' /\ clock' \in [DeterministicLayer -> 0..MaxReadings]
           /\ last' \in [Layer -> Nat \cup {NoReading}]
<1>1. PICK l \in Layer : l = Resolve("time_now")
  BY ResolveTyped DEF TimeNow
<1>2. /\ last' = [last EXCEPT ![l] = TimeOf(l)]
      /\ IF l \in DeterministicLayer
         THEN clock[l] < MaxReadings /\ clock' = [clock EXCEPT ![l] = @ + 1]
         ELSE clock' = clock
      /\ now' = now /\ factor' = factor
  BY <1>1 DEF TimeNow
<1>3. /\ clock \in [DeterministicLayer -> 0..MaxReadings]
      /\ last \in [Layer -> Nat \cup {NoReading}]
      /\ MaxReadings \in Nat
  BY LayerNumbers DEF TypeOK
<1>4. TimeOf(l) \in Nat
  BY TimesTyped
<1>5. clock' \in [DeterministicLayer -> 0..MaxReadings]
  BY <1>2, <1>3
<1>6. last' \in [Layer -> Nat \cup {NoReading}]
  BY <1>2, <1>3, <1>4
<1>7. ASSUME NEW m \in Layer
      PROVE  /\ last'[m] <= TimeOf(m)'
             /\ m \in DeterministicLayer => last'[m] < TimeOf(m)'
  <2>1. CASE m # l
    <3>1. last'[m] = last[m] /\ (m \in DeterministicLayer => clock'[m] = clock[m])
      BY <1>2, <1>3, <2>1
    <3>2. TimeOf(m)' = TimeOf(m)
      BY <1>2, <3>1 DEF TimeOf
    <3> QED
      BY <3>1, <3>2 DEF TimesInOrder
  <2>2. CASE m = l /\ l \in DeterministicLayer
    <3>1. last'[m] = 2 * clock[m] /\ clock'[m] = clock[m] + 1 /\ clock[m] \in Nat
      BY <1>2, <1>3, <2>2 DEF TimeOf
    <3>2. TimeOf(m)' = 2 * clock'[m]
      BY <2>2 DEF TimeOf
    <3> QED
      BY <3>1, <3>2
  <2>3. CASE m = l /\ l \notin DeterministicLayer
    <3>1. last'[m] = TimeOf(m) /\ TimeOf(m)' = TimeOf(m)
      BY <1>2, <1>3, <2>3 DEF TimeOf
    <3> QED
      BY <1>4, <2>3, <3>1
  <2> QED
    BY <2>1, <2>2, <2>3
<1>8. TimesInOrder'
  BY <1>7 DEF TimesInOrder
<1> QED
  BY <1>5, <1>6, <1>8

\* Time goes on, for a slow layer as well.
LEMMA WallClockKeeps ==
    ASSUME TypeOK, TimesInOrder, WallClock
    PROVE  TimesInOrder' /\ now' \in 0..MaxNow
<1>1. /\ now < MaxNow /\ now' = now + 1
      /\ clock' = clock /\ factor' = factor /\ last' = last
      /\ now \in 0..MaxNow /\ MaxNow \in Nat
  BY LayerNumbers DEF WallClock, TypeOK
<1>2. ASSUME NEW m \in Layer
      PROVE  /\ last'[m] <= TimeOf(m)'
             /\ m \in DeterministicLayer => last'[m] < TimeOf(m)'
  <2>1. last[m] <= TimeOf(m) /\ last[m] \in Int /\ TimeOf(m) \in Nat
    BY TimesTyped DEF TimesInOrder
  <2>2. CASE m \in DeterministicLayer
    BY <1>1, <2>2 DEF TimeOf, TimesInOrder
  <2>3. CASE m \in SlowTimeLayer
    <3>1. m \notin DeterministicLayer /\ factor[m] \in Nat
      BY <2>3, LayerKinds, LayerNumbers DEF TypeOK
    <3>2. TimeOf(m) = now * factor[m] /\ TimeOf(m)' = (now + 1) * factor[m]
      BY <1>1, <2>3, <3>1 DEF TimeOf, Epoch
    <3>3. now * factor[m] <= (now + 1) * factor[m]
      BY <1>1, <3>1
    <3>4. now * factor[m] \in Nat /\ (now + 1) * factor[m] \in Nat
      BY <1>1, <3>1
    <3> QED
      BY <1>1, <2>1, <3>1, <3>2, <3>3, <3>4
  <2>4. CASE m \notin DeterministicLayer /\ m \notin SlowTimeLayer
    BY <1>1, <2>1, <2>4 DEF TimeOf
  <2> QED
    BY <2>2, <2>3, <2>4
<1> QED
  BY <1>1, <1>2 DEF TimesInOrder

\* A clock set back starts a new count, and so does a smaller factor.
LEMMA SettingKeeps ==
    ASSUME TypeOK, TimesInOrder,
           \/ \E l \in DeterministicLayer, t \in 0..MaxReadings : ResetClock(l, t)
           \/ \E l \in SlowTimeLayer, f \in Factor : SetFactor(l, f)
    PROVE  /\ TimesInOrder'
           /\ clock' \in [DeterministicLayer -> 0..MaxReadings]
           /\ factor' \in [SlowTimeLayer -> Factor]
           /\ last' \in [Layer -> Nat \cup {NoReading}]
<1>1. /\ clock \in [DeterministicLayer -> 0..MaxReadings]
      /\ factor \in [SlowTimeLayer -> Factor]
      /\ last \in [Layer -> Nat \cup {NoReading}]
      /\ now \in Nat /\ MaxReadings \in Nat
      /\ DeterministicLayer \subseteq Layer /\ SlowTimeLayer \subseteq Layer
      /\ \A f \in Factor : f \in Nat
  BY LayerNumbers DEF TypeOK, Layer
<1>2. ASSUME NEW l \in DeterministicLayer, NEW t \in 0..MaxReadings, ResetClock(l, t)
      PROVE  /\ TimesInOrder'
             /\ clock' \in [DeterministicLayer -> 0..MaxReadings]
             /\ factor' = factor
             /\ last' \in [Layer -> Nat \cup {NoReading}]
  <2>1. /\ clock' = [clock EXCEPT ![l] = t] /\ last' = [last EXCEPT ![l] = NoReading]
        /\ now' = now /\ factor' = factor
    BY <1>2 DEF ResetClock
  <2>2. ASSUME NEW m \in Layer
        PROVE  /\ last'[m] <= TimeOf(m)'
               /\ m \in DeterministicLayer => last'[m] < TimeOf(m)'
    <3>1. CASE m = l
      BY <1>1, <2>1, <3>1 DEF TimeOf, NoReading
    <3>2. CASE m # l
      <4>1. last'[m] = last[m] /\ TimeOf(m)' = TimeOf(m)
        BY <1>1, <2>1, <3>2 DEF TimeOf
      <4> QED
        BY <4>1 DEF TimesInOrder
    <3> QED
      BY <3>1, <3>2
  <2> QED
    BY <1>1, <2>1, <2>2 DEF TimesInOrder
<1>3. ASSUME NEW l \in SlowTimeLayer, NEW f \in Factor, SetFactor(l, f)
      PROVE  /\ TimesInOrder'
             /\ clock' = clock
             /\ factor' \in [SlowTimeLayer -> Factor]
             /\ last' \in [Layer -> Nat \cup {NoReading}]
  <2>1. /\ factor' = [factor EXCEPT ![l] = f]
        /\ last' = IF f < factor[l] THEN [last EXCEPT ![l] = NoReading] ELSE last
        /\ now' = now /\ clock' = clock
    BY <1>3 DEF SetFactor
  <2>2. ASSUME NEW m \in Layer
        PROVE  /\ last'[m] <= TimeOf(m)'
               /\ m \in DeterministicLayer => last'[m] < TimeOf(m)'
    <3>1. CASE m = l
      <4>1. m \notin DeterministicLayer /\ factor[m] \in Nat /\ f \in Nat
        BY <1>1, <3>1, LayerKinds
      <4>2. TimeOf(m) = now * factor[m] /\ TimeOf(m)' = now * f
        BY <1>1, <2>1, <3>1, <4>1 DEF TimeOf, Epoch
      <4>3. now * factor[m] \in Nat /\ now * f \in Nat
        BY <1>1, <4>1
      <4>4. CASE f < factor[l]
        BY <1>1, <2>1, <3>1, <4>1, <4>2, <4>3, <4>4 DEF NoReading
      <4>5. CASE ~(f < factor[l])
        <5>1. now * factor[m] <= now * f
          BY <1>1, <3>1, <4>1, <4>5
        <5>2. last'[m] = last[m] /\ last[m] <= now * factor[m] /\ last[m] \in Int
          BY <2>1, <4>2, <4>5, TimesTyped DEF TimesInOrder
        <5> QED
          BY <4>1, <4>2, <4>3, <5>1, <5>2
      <4> QED
        BY <4>4, <4>5
    <3>2. CASE m # l
      <4>1. last'[m] = last[m] /\ TimeOf(m)' = TimeOf(m)
        BY <1>1, <2>1, <3>2 DEF TimeOf
      <4> QED
        BY <4>1 DEF TimesInOrder
    <3> QED
      BY <3>1, <3>2
  <2>3. last' \in [Layer -> Nat \cup {NoReading}]
    BY <1>1, <2>1
  <2> QED
    BY <1>1, <2>1, <2>2, <2>3 DEF TimesInOrder
<1> QED
  BY <1>1, <1>2, <1>3

\* A block begins where the counter stands and ends where it stands afterwards.
LEMMA MemoryAllocKeeps ==
    ASSUME TypeOK, BlocksInOrder, NEW size \in Size, MemoryAlloc(size)
    PROVE  /\ BlocksInOrder'
           /\ counter' \in [DeterministicLayer -> Nat]
           /\ allocs' \in [DeterministicLayer -> Seq([address : Nat, size : Size])]
<1> DEFINE A == [address : Nat, size : Size]
<1>1. PICK l \in DeterministicLayer : l = Resolve("memory_alloc")
  BY DEF MemoryAlloc
<1>2. PICK b \in A : b.address = counter[l] /\ b.size = size
                     /\ b = [address |-> counter[l], size |-> size]
  BY DEF TypeOK
<1>3. /\ allocs' = [allocs EXCEPT ![l] = Append(@, b)]
      /\ counter' = [counter EXCEPT ![l] = @ + size]
  BY <1>1, <1>2 DEF MemoryAlloc
<1>4. /\ counter \in [DeterministicLayer -> Nat] /\ size \in Nat
      /\ allocs \in [DeterministicLayer -> Seq(A)]
      /\ \A x \in A : x.address \in Nat /\ x.size \in Nat
  BY LayerNumbers DEF TypeOK
<1> HIDE DEF A
<1>5. /\ counter' \in [DeterministicLayer -> Nat]
      /\ allocs' \in [DeterministicLayer -> Seq(A)]
  BY <1>3, <1>4
<1>6. ASSUME NEW m \in DeterministicLayer
      PROVE  /\ \A i \in DOMAIN allocs'[m] :
                   allocs'[m][i].address + allocs'[m][i].size <= counter'[m]
             /\ \A i, j \in DOMAIN allocs'[m] :
                   i < j => allocs'[m][i].address + allocs'[m][i].size
                              <= allocs'[m][j].address
  <2>1. CASE m # l
    <3>1. allocs'[m] = allocs[m] /\ counter'[m] = counter[m]
      BY <1>3, <1>4, <2>1
    <3> QED
      BY <3>1 DEF BlocksInOrder
  <2>2. CASE m = l
    <3> DEFINE s == allocs[l]
    <3>1. allocs'[m] = Append(s, b) /\ counter'[m] = counter[l] + size
          /\ counter[l] \in Nat /\ s \in Seq(A)
      BY <1>3, <1>4, <2>2
    <3>2. /\ \A i \in DOMAIN s : s[i].address + s[i].size <= counter[l]
          /\ \A i, j \in DOMAIN s : i < j => s[i].address + s[i].size <= s[j].address
      BY DEF BlocksInOrder
    <3> HIDE DEF s
    <3> DEFINE t == Append(s, b)
    <3>3. /\ DOMAIN t = 1 .. (Len(s) + 1) /\ DOMAIN s = 1 .. Len(s) /\ Len(s) \in Nat
          /\ t[Len(s) + 1] = b /\ \A i \in DOMAIN s : t[i] = s[i] /\ s[i] \in A
      BY <3>1
    <3> HIDE DEF t
    <3>4. \A i \in DOMAIN t : i \in DOMAIN s \/ i = Len(s) + 1
      BY <3>3
    <3>5. \A i \in DOMAIN s : t[i].address \in Nat /\ t[i].size \in Nat
      BY <1>4, <3>3
    <3>6. \A i \in DOMAIN t : t[i].address + t[i].size <= counter[l] + size
      <4> SUFFICES ASSUME NEW i \in DOMAIN t
                   PROVE  t[i].address + t[i].size <= counter[l] + size
        OBVIOUS
      <4>1. CASE i \in DOMAIN s
        <5>1. t[i].address + t[i].size <= counter[l]
          BY <3>2, <3>3, <4>1
        <5>2. t[i].address \in Nat /\ t[i].size \in Nat
          BY <3>5, <4>1
        <5> QED
          BY <1>4, <3>1, <5>1, <5>2
      <4>2. CASE i = Len(s) + 1
        <5>1. t[i].address = counter[l] /\ t[i].size = size
          BY <1>2, <3>3, <4>2
        <5> QED
          BY <1>4, <3>1, <5>1
      <4> QED
        BY <3>4, <4>1, <4>2
    <3>7. ASSUME NEW i \in DOMAIN t, NEW j \in DOMAIN t, i < j
          PROVE  t[i].address + t[i].size <= t[j].address
      <4>1. i \in DOMAIN s
        BY <3>3, <3>7
      <4>2. CASE j \in DOMAIN s
        BY <3>2, <3>3, <3>7, <4>1, <4>2
      <4>3. CASE j = Len(s) + 1
        <5>1. t[j].address = counter[l]
          BY <1>2, <3>3, <4>3
        <5>2. t[i].address + t[i].size <= counter[l]
          BY <3>2, <3>3, <4>1
        <5> QED
          BY <5>1, <5>2
      <4> QED
        BY <3>4, <4>2, <4>3
    <3> QED
      BY <2>2, <3>1, <3>6, <3>7 DEF t
  <2> QED
    BY <2>1, <2>2
<1> QED
  BY <1>5, <1>6 DEF BlocksInOrder, A

\* Nothing is anywhere at the start.
LEMMA LayersStart == Init => LInv
<1> SUFFICES ASSUME Init PROVE LInv
  OBVIOUS
<1>1. TypeOK
  <2>1. 0 \in 0..MaxDepth /\ 0 \in 0..MaxNow /\ 0 \in 0..MaxReadings
    BY LayerNumbers
  <2>2. stack = <<>> /\ drained = <<>> /\ now = 0
    BY DEF Init, Epoch
  <2>3. /\ queue \in [Layer -> Seq(Nat)] /\ injected \in [Layer -> Nat]
        /\ enabled \in [Layer -> BOOLEAN] /\ last \in [Layer -> Nat \cup {NoReading}]
    BY DEF Init
  <2>4. /\ clock \in [DeterministicLayer -> 0..MaxReadings]
        /\ counter \in [DeterministicLayer -> Nat]
        /\ allocs \in [DeterministicLayer -> Seq([address : Nat, size : Size])]
        /\ factor \in [SlowTimeLayer -> Factor]
    BY <2>1, LayerNumbers DEF Init
  <2>5. stack \in Seq(Layer) /\ Len(stack) <= MaxDepth /\ drained \in Seq(Layer \X Nat)
    BY <2>1, <2>2
  <2> QED
    BY <2>1, <2>2, <2>3, <2>4, <2>5 DEF TypeOK
<1>2. EventsKeepOrder
  <2> SUFFICES ASSUME NEW l \in Layer
               PROVE  \E n \in 0..injected[l] :
                         /\ HasFirst(drained, l, n)
                         /\ queue[l] = [k \in 1..(injected[l] - n) |-> n + k]
    BY DEF EventsKeepOrder
  <2>1. injected[l] = 0 /\ queue[l] = <<>> /\ drained = <<>>
    BY DEF Init
  <2>2. HasFirst(drained, l, 0)
    BY <2>1 DEF HasFirst
  <2>3. queue[l] = [k \in 1..(injected[l] - 0) |-> 0 + k] /\ 0 \in 0..injected[l]
    BY <2>1
  <2> QED
    BY <2>2, <2>3
<1>3. TimesInOrder
  <2> SUFFICES ASSUME NEW l \in Layer
               PROVE  last[l] <= TimeOf(l)
                      /\ (l \in DeterministicLayer => last[l] < TimeOf(l))
    BY DEF TimesInOrder
  <2>1. last[l] = -1
    BY DEF Init, NoReading
  <2>2. TimeOf(l) \in Nat
    BY <1>1, TimesTyped
  <2> QED
    BY <2>1, <2>2
<1>4. BlocksInOrder
  BY DEF Init, BlocksInOrder
<1> QED
  BY <1>1, <1>2, <1>3, <1>4 DEF LInv

\* Every call keeps to the types.
LEMMA LayersTyped ==
    ASSUME LInv, [Next]_vars
    PROVE  TypeOK'
<1> USE DEF LInv
<1>1. ASSUME NEW l \in Layer, Push(l) PROVE TypeOK'
  <2>1. stack' = Append(stack, l) /\ stack' \in Seq(Layer) /\ Len(stack') <= MaxDepth
    <3>1. stack \in Seq(Layer) /\ Len(stack) < MaxDepth /\ stack' = Append(stack, l)
      BY <1>1 DEF Push, TypeOK
    <3> QED
      BY <3>1, LayerNumbers
  <2> QED
    BY <1>1, <2>1 DEF Push, TypeOK, eventVars, timeVars, allocVars
<1>2. CASE Pop
  <2>1. stack' \in Seq(Layer) /\ Len(stack') <= MaxDepth
    <3>1. stack \in Seq(Layer) /\ Len(stack) <= MaxDepth /\ stack # <<>>
          /\ stack' = SubSeq(stack, 1, Len(stack) - 1)
      BY <1>2 DEF Pop, TypeOK
    <3> QED
      BY <3>1, LayerNumbers
  <2> QED
    BY <1>2, <2>1 DEF Pop, TypeOK, eventVars, timeVars, allocVars
<1>3. ASSUME NEW l \in Layer, Toggle(l) PROVE TypeOK'
  <2>1. enabled' \in [Layer -> BOOLEAN]
    BY <1>3 DEF Toggle, TypeOK
  <2> QED
    BY <1>3, <2>1 DEF Toggle, TypeOK, eventVars, timeVars, allocVars
<1>4. ASSUME NEW l \in Layer, InjectEvent(l) PROVE TypeOK'
  <2>1. injected' \in [Layer -> Nat] /\ queue' \in [Layer -> Seq(Nat)]
    BY <1>4 DEF InjectEvent, TypeOK
  <2> QED
    BY <1>4, <2>1 DEF InjectEvent, TypeOK, stackVars, timeVars, allocVars
<1>5. CASE DrainAllEvents
  <2>1. queue' \in [Layer -> Seq(Nat)]
    BY <1>5 DEF DrainAllEvents, TypeOK
  <2>2. Pending \in Seq(Layer \X Nat)
    <3>1. PICK F : TakenFrom(F)
      BY PendingIsTaken
    <3>2. Len(stack) \in 0 .. Len(stack)
      BY DEF TypeOK
    <3> QED
      BY <3>1, <3>2 DEF TakenFrom
  <2>3. drained' \in Seq(Layer \X Nat)
    BY <1>5, <2>2 DEF DrainAllEvents, TypeOK
  <2> QED
    BY <1>5, <2>1, <2>3 DEF DrainAllEvents, TypeOK, stackVars, timeVars, allocVars
<1>6. CASE TimeNow
  BY <1>6, TimeNowKeeps DEF TimeNow, TypeOK, stackVars, eventVars, allocVars
<1>7. CASE WallClock
  BY <1>7, WallClockKeeps DEF WallClock, TypeOK, stackVars, eventVars, allocVars
<1>8. ASSUME NEW l \in DeterministicLayer, NEW t \in 0..MaxReadings, ResetClock(l, t)
      PROVE  TypeOK'
  BY <1>8, SettingKeeps DEF ResetClock, TypeOK, stackVars, eventVars, allocVars
<1>9. ASSUME NEW l \in SlowTimeLayer, NEW f \in Factor, SetFactor(l, f) PROVE TypeOK'
  BY <1>9, SettingKeeps DEF SetFactor, TypeOK, stackVars, eventVars, allocVars
<1>10. ASSUME NEW size \in Size, MemoryAlloc(size) PROVE TypeOK'
  BY <1>10, MemoryAllocKeeps DEF MemoryAlloc, TypeOK, stackVars, eventVars, timeVars
<1>11. CASE UNCHANGED vars
  BY <1>11 DEF vars, TypeOK
<1> QED
  BY <1>1, <1>2, <1>3, <1>4, <1>5, <1>6, <1>7, <1>8, <1>9, <1>10, <1>11 DEF Next

\* Every call keeps the invariant.
LEMMA LayersStep ==
    ASSUME LInv, [Next]_vars
    PROVE  LInv'
<1>1. TypeOK /\ EventsKeepOrder /\ TimesInOrder /\ BlocksInOrder
  BY DEF LInv
<1>2. TypeOK'
  BY LayersTyped
<1>3. UNCHANGED eventVars => EventsKeepOrder'
  BY <1>1 DEF eventVars, EventsKeepOrder, HasFirst
<1>4. UNCHANGED timeVars => TimesInOrder'
  BY <1>1 DEF timeVars, TimesInOrder, TimeOf
<1>5. UNCHANGED allocVars => BlocksInOrder'
  BY <1>1 DEF allocVars, BlocksInOrder
<1>6. ASSUME NEW l \in Layer, Push(l) \/ Toggle(l) PROVE LInv'
  BY <1>2, <1>3, <1>4, <1>5, <1>6 DEF Push, Toggle, LInv
<1>7. ASSUME NEW l \in Layer, InjectEvent(l) PROVE LInv'
  BY <1>1, <1>2, <1>4, <1>5, <1>7, InjectKeepsOrder DEF InjectEvent, LInv
<1>8. CASE Pop
  BY <1>2, <1>3, <1>4, <1>5, <1>8 DEF Pop, LInv
<1>9. CASE DrainAllEvents
  BY <1>1, <1>2, <1>4, <1>5, <1>9, DrainKeepsOrder DEF DrainAllEvents, LInv
<1>10. CASE TimeNow
  BY <1>1, <1>2, <1>3, <1>5, <1>10, TimeNowKeeps DEF TimeNow, LInv
<1>11. CASE WallClock
  BY <1>1, <1>2, <1>3, <1>5, <1>11, WallClockKeeps DEF WallClock, LInv
<1>12. ASSUME NEW l \in DeterministicLayer, NEW t \in 0..MaxReadings, ResetClock(l, t)
       PROVE  LInv'
  BY <1>1, <1>2, <1>3, <1>5, <1>12, SettingKeeps DEF ResetClock, LInv
<1>13. ASSUME NEW l \in SlowTimeLayer, NEW f \in Factor, SetFactor(l, f) PROVE LInv'
  BY <1>1, <1>2, <1>3, <1>5, <1>13, SettingKeeps DEF SetFactor, LInv
<1>14. ASSUME NEW size \in Size, MemoryAlloc(size) PROVE LInv'
  BY <1>1, <1>2, <1>3, <1>4, <1>14, MemoryAllocKeeps DEF MemoryAlloc, LInv
<1>15. CASE UNCHANGED vars
  <2>1. UNCHANGED eventVars /\ UNCHANGED timeVars /\ UNCHANGED allocVars
    BY <1>15 DEF vars, eventVars, timeVars, allocVars
  <2> QED
    BY <1>2, <1>3, <1>4, <1>5, <2>1 DEF LInv
<1> QED
  BY <1>6, <1>7, <1>8, <1>9, <1>10, <1>11, <1>12, <1>13, <1>14, <1>15 DEF Next

\* What the invariant says of one state.
LEMMA LayersInvariant ==
    LInv => TypeOK /\ EventsKeepOrder /\ NeverHandedOutTwice
BY DEF LInv, TimesInOrder, BlocksInOrder, NeverHandedOutTwice

-----------------------------------------------------------------------------
(* The theorems.                                                           *)

\* The stack and its layers keep to their types: layers.append and layers.pop,
\* the queues of BaseLayer, the clock, counter and handles of a
\* DeterministicLayer and the factor of a SlowTimeLayer.
THEOREM LayersKeepTypes == Spec => []TypeOK
<1>1. Spec => []LInv
  BY LayersStart, LayersStep, PTL DEF Spec
<1> QED
  BY <1>1, LayersInvariant, PTL

\* inject_event and drain_all_events lose, repeat and reorder no event of a
\* layer, for every number of layers and however often the stack is rebuilt.
THEOREM EventsInOrder == Spec => []EventsKeepOrder
<1>1. Spec => []LInv
  BY LayersStart, LayersStep, PTL DEF Spec
<1> QED
  BY <1>1, LayersInvariant, PTL

\* _resolve finds a DeterministicLayer for every method as soon as one is
\* enabled on the stack, unless a SlowTimeLayer above it tells the time.
THEOREM DeterministicAnswers == Spec => []DeterministicUnlessCovered
BY LayersKeepTypes, AnswersAreDeterministic, PTL

\* A DeterministicLayer tells no logical time twice and its blocks of memory do
\* not overlap; no layer's time goes back, for every factor and every size.
THEOREM NothingTwice == Spec => []NeverHandedOutTwice
<1>1. Spec => []LInv
  BY LayersStart, LayersStep, PTL DEF Spec
<1> QED
  BY <1>1, LayersInvariant, PTL

=============================================================================

--------------------------- MODULE MCCausalReplay ---------------------------
(***************************************************************************)
(* Small instances of CausalReplay for TLC.  cK and cJ read the keys k and *)
(* j; up and down write j, off writes k, add and tell emit a rule, add as  *)
(* the built-in function and tell as one of the user's; the client's own   *)
(* nodes are an event and an action that writes j.                         *)
(***************************************************************************)
EXTENDS CausalReplay, TLC

CONSTANTS e1, cK, cJ, cBad, cLate, up, down, off, add, tell, own, last,
          t, k, j, lo, hi, jHi, jLo, kLo, emit, data, r1

I(c) == DSL!If(c)
T(a) == DSL!Then(a)
C(a) == DSL!Cause(a)

\* Rules over several lines, in good and in bad order, and on one line; a second
\* clause on a line of its rule; a rule with a rule in its arguments.
SomeLines ==
    {DSL!Blank, DSL!Dashes, <<DSL!Noise>>,
     <<I(cK)>>, <<I(cJ)>>, <<I(cBad)>>,
     <<T(up)>>, <<C(up)>>, <<T(down)>>, <<C(off)>>, <<C(add)>>, <<C(tell)>>,
     <<I(cJ), T(down)>>, <<I(cJ), T(down), C(add)>>, <<I(cK), C(up), T(off)>>,
     <<T(up), C(off)>>}

OwnGraph == <<e1, own>>

OwnEdges == {<<e1, own>>}

\* Any edge: the texts decide which there are.
AnyEdge == Node \X Node

TypeOfEvent == [n \in EventNode |-> t]

Metric == [c \in ConditionNode |-> IF c = cJ THEN j ELSE k]

Calls == [n \in ActionNode |-> CASE n \in {up, own} -> jHi
                                 [] n \in {down, last} -> jLo
                                 [] n = off -> kLo
                                 [] n \in {add, tell} -> emit]

Outcomes == [n \in ActionNode |-> {Calls[n], None}]

Entries == (jHi :> (j :> hi)) @@ (jLo :> (j :> lo)) @@ (kLo :> (k :> lo))

Emitted == emit :> <<r1>>

\* Both keys hold what passes, k alone does, or j alone.
Stores == {(k :> hi) @@ (j :> x) : x \in {hi, Missing}} \cup {(k :> lo) @@ (j :> hi)}

Chain == r1 :> <<cLate, last>>

=============================================================================

---------------------------- MODULE MCProofEngine ----------------------------
(***************************************************************************)
(* Small instances of ProofEngine for TLC: an event, a condition and an    *)
(* action, with edges that may come late and close a cycle.                *)
(***************************************************************************)
EXTENDS ProofEngine

CONSTANTS e1, c1, a1

\* The event and the condition lead to the action; the last edge closes a
\* cycle.
SomeEdges == {<<e1, a1>>, <<c1, a1>>, <<a1, e1>>}

=============================================================================

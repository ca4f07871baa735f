--------------------------- MODULE CausalHistory ---------------------------
(***************************************************************************)
(* What the vector clocks of a distributed causal system promise           *)
(* (PAPER.md, section 4; runtime/distributed_runtime.py), without clocks:  *)
(* every event carries the set of events that causally precede it, and     *)
(* every runtime has a set of events it knows of, directly or through the  *)
(* events it was given.                                                    *)
(***************************************************************************)
CONSTANTS
    Node,  \* the runtimes
    Name   \* what tells the events of one runtime apart

VARIABLES
    past,   \* past[e]: the events that causally precede event e
    known   \* known[n]: the events in the causal past of n's next event

vars == <<past, known>>

EventId == Node \X Name

Init ==
    /\ past = [e \in {} |-> {}]
    /\ known = [n \in Node |-> {}]

\* A new event of n: everything n knows of precedes it.
Emit(n) ==
    \E k \in Name :
        LET e == <<n, k>>
        IN  /\ e \notin DOMAIN past
            /\ past' = [f \in DOMAIN past \cup {e} |->
                          IF f = e THEN known[n] ELSE past[f]]
            /\ known' = [known EXCEPT ![n] = @ \cup {e}]

\* n is given the events of S, and with them their causal pasts.
Learn(n, S) ==
    /\ S \subseteq DOMAIN past
    /\ known' = [known EXCEPT ![n] = @ \cup S \cup UNION {past[e] : e \in S}]
    /\ UNCHANGED past

Next ==
    \E n \in Node : Emit(n) \/ \E S \in SUBSET DOMAIN past : Learn(n, S)

Spec == Init /\ [][Next]_vars

-----------------------------------------------------------------------------
\* Pasts and knowledge are sets of events that happened.
TypeOK ==
    /\ DOMAIN past \subseteq EventId
    /\ past \in [DOMAIN past -> SUBSET DOMAIN past]
    /\ known \in [Node -> SUBSET DOMAIN past]

\* Happened-before is a strict partial order, whatever is received or merged,
\* in whatever order: no event precedes itself, and causes of causes count.
StrictOrder ==
    /\ \A e \in DOMAIN past : e \notin past[e]
    /\ \A e \in DOMAIN past : \A f \in past[e] : past[f] \subseteq past[e]

\* Who knows of an event knows of its causes.
KnownClosed ==
    \A n \in Node : \A e \in known[n] : past[e] \subseteq known[n]

=============================================================================

--------------------------- MODULE MCSharedGraphs ---------------------------
(***************************************************************************)
(* Two graphs a and b of one or two nodes each, that may share a node, and *)
(* a handle m for the graph made of them.                                  *)
(***************************************************************************)
EXTENDS SharedGraphs

CONSTANTS e1, c1, a1, a2, a, b, m

\* Remove the condition with its edges, or an edge and put another in.
MCDelta ==
    {[nodes_added |-> {}, nodes_removed |-> {c1},
      edges_added |-> {}, edges_removed |-> {}],
     [nodes_added |-> {a2}, nodes_removed |-> {e1},
      edges_added |-> {<<a1, a2>>}, edges_removed |-> {<<a1, c1>>}]}

\* The graphs a and b as first built: in sequence, apart, sharing a node,
\* with a cycle.
Blueprint ==
    {[A |-> {e1, c1}, EA |-> {<<e1, c1>>}, B |-> {a1}, EB |-> {}],
     [A |-> {e1, c1}, EA |-> {}, B |-> {a2}, EB |-> {}],
     [A |-> {c1, a1}, EA |-> {<<c1, a1>>}, B |-> {a1, a2}, EB |-> {<<a1, a2>>}],
     [A |-> {c1, a1}, EA |-> {<<c1, c1>>}, B |-> {a2}, EB |-> {}]}

Built(A, B, empty) ==
    [g \in Graph |-> IF g = a THEN A ELSE IF g = b THEN B ELSE empty]

\* At most one of the callables does not succeed.
MCInit ==
    /\ \E p \in Blueprint : /\ nodesOf = Built(p.A, p.B, {})
                            /\ edgesOf = Built(p.EA, p.EB, {})
    /\ outcome \in {[n \in Node |-> IF n = bad[1] THEN bad[2] ELSE "ok"] :
                      bad \in {<<a1, "raise">>, <<c1, "false">>, <<c1, "ok">>}}
    /\ log = [g \in Graph |-> <<>>]
    /\ state = [n \in Node |-> "PENDING"]
    /\ triggered = [n \in EventNode |-> FALSE]
    /\ run = NoRun
    /\ made = [g \in Graph |-> Fresh]

MCEdge == {<<c1, a2>>}

MCSpec == MCInit /\ [][Next]_vars
=============================================================================

------------------------- MODULE SharedGraphsProofs -------------------------
(***************************************************************************)
(* Proofs about graphs that share nodes, for every finite set of nodes,    *)
(* every graph a client may build of them and any number of graphs         *)
(* composed, absorbed and evolved from them.                               *)
(***************************************************************************)
EXTENDS SharedGraphs, DataInduction

How == [how : {"built", "union", "bridged", "sequential", "evolved"},
        parts : SUBSET Graph, up : SUBSET Node, down : SUBSET Node,
        clean : BOOLEAN, foreign : BOOLEAN, edited : BOOLEAN]

Run == [graph : Graph \cup {NoGraph}, caller : {"none", "client", "transition"},
        waves : Nat, wave : SUBSET Node, attempted : SUBSET Node]

NodeState == {"PENDING", "READY", "DONE", "FAILED"}

-----------------------------------------------------------------------------
(* Steps.                                                                  *)

\* m becomes a graph of nodes N and edges E that came about in the way how; its
\* nodes are reset, or not, and then it is not called clean.
Makes(m, N, E, how) ==
    /\ Idle /\ nodesOf[m] = {}
    /\ nodesOf' = [nodesOf EXCEPT ![m] = N]
    /\ edgesOf' = [edgesOf EXCEPT ![m] = E]
    /\ made' = [made EXCEPT ![m] = how]
    /\ \/ state' = AfterReset(N)
       \/ state' = state /\ ~how.clean
    /\ UNCHANGED <<log, triggered, outcome, run>>

\* The nodes of graph a that lead to a leaf of it.
Upstream(a) == {n \in nodesOf[a] : ({n} \cup Reachable(a, n)) \cap Leaves(a) # {}}

\* A new graph has the ends of its edges and is nobody's yet.
LEMMA BridgedMakes ==
    ASSUME TypeOK, NEW a \in Graph, NEW b \in Graph, NEW m \in Graph, NEW reset \in BOOLEAN,
           NEW bridges, ComposeBridged(a, b, bridges, m, reset)
    PROVE  \E N, E, how :
              /\ Makes(m, N, E, how)
              /\ N \in SUBSET Node /\ E \in SUBSET (N \X N) /\ how \in How /\ ~how.foreign
              /\ how.how \in {"union", "bridged"} /\ how.parts = {a, b} /\ ~how.edited
              /\ how.how = "union" =>
                    N = nodesOf[a] \cup nodesOf[b] /\ E = edgesOf[a] \cup edgesOf[b]
<1> DEFINE N == nodesOf[a] \cup nodesOf[b]
           E == edgesOf[a] \cup edgesOf[b] \cup bridges
           how == [Fresh EXCEPT !.how = IF bridges = {} THEN "union" ELSE "bridged",
                                !.parts = {a, b}, !.clean = reset]
<1>1. /\ how \in How /\ ~how.foreign /\ ~how.edited /\ how.parts = {a, b}
      /\ how.clean = reset /\ how.how = IF bridges = {} THEN "union" ELSE "bridged"
  BY DEF Fresh, How
<1>2. bridges \subseteq N \X N /\ NewGraph(m, N, E, how) /\ Absorbed(a, b, reset)
  BY DEF ComposeBridged, Compose
<1>3. N \in SUBSET Node /\ E \in SUBSET (N \X N)
  BY <1>2 DEF TypeOK
<1> HIDE DEF how
<1>4. Makes(m, N, E, how)
  BY <1>1, <1>2 DEF NewGraph, Absorbed, Makes
<1>5. how.how = "union" => E = edgesOf[a] \cup edgesOf[b]
  BY <1>1
<1> HIDE DEF N, E
<1> QED
  BY <1>1, <1>3, <1>4, <1>5 DEF N

\* compose_sequential makes a graph of all nodes and edges, with the bridge.
LEMMA SequentialMakes ==
    ASSUME TypeOK, NEW a \in Graph, NEW b \in Graph, NEW m \in Graph, NEW reset \in BOOLEAN,
           ComposeSequential(a, b, m, reset)
    PROVE  \E N, E, how :
              /\ Makes(m, N, E, how)
              /\ N \in SUBSET Node /\ E \in SUBSET (N \X N) /\ how \in How /\ ~how.foreign
              /\ N = nodesOf[a] \cup nodesOf[b]
              /\ E = edgesOf[a] \cup edgesOf[b] \cup (Leaves(a) \X Roots(b))
              /\ how.how = "sequential"
              /\ how.up = Upstream(a) /\ how.down = nodesOf[b] \ nodesOf[a]
<1> DEFINE N == nodesOf[a] \cup nodesOf[b]
           E == edgesOf[a] \cup edgesOf[b] \cup (Leaves(a) \X Roots(b))
           how == InSequence(a, b, reset)
           up == Upstream(a)
<1>1. up \in SUBSET Node /\ nodesOf[b] \ nodesOf[a] \in SUBSET Node
  BY DEF TypeOK, Upstream
<1>2. how = [Fresh EXCEPT !.how = "sequential", !.parts = {a, b}, !.clean = reset,
                          !.up = up, !.down = nodesOf[b] \ nodesOf[a]]
  BY DEF InSequence, Upstream
<1> HIDE DEF up, how
<1>3. /\ how \in How /\ how.how = "sequential" /\ ~how.foreign /\ how.clean = reset
      /\ how.up = up /\ how.down = nodesOf[b] \ nodesOf[a]
  BY <1>1, <1>2 DEF Fresh, How
<1>4. NewGraph(m, N, E, how) /\ Absorbed(a, b, reset)
  BY DEF ComposeSequential, Compose, how
<1>5. N \in SUBSET Node /\ E \in SUBSET (N \X N)
  BY DEF TypeOK, Leaves, Roots
<1>6. Makes(m, N, E, how)
  BY <1>3, <1>4 DEF NewGraph, Absorbed, Makes
<1>7. how.up = Upstream(a) /\ how.down = nodesOf[b] \ nodesOf[a]
  BY <1>3 DEF up
<1> HIDE DEF N, E
<1>8. N = nodesOf[a] \cup nodesOf[b]
      /\ E = edgesOf[a] \cup edgesOf[b] \cup (Leaves(a) \X Roots(b))
  BY DEF N, E
<1> QED
  BY <1>3, <1>5, <1>6, <1>7, <1>8

\* evolve makes a graph with no edge to a node it left out.
LEMMA EvolveMakes ==
    ASSUME TypeOK, NEW g \in Graph, NEW d \in Delta, NEW m \in Graph, Evolve(g, d, m)
    PROVE  \E N, E :
              /\ Makes(m, N, E, Derived)
              /\ N \in SUBSET Node /\ E \in SUBSET (N \X N)
<1> DEFINE N == (nodesOf[g] \ d.nodes_removed) \cup d.nodes_added
           E0 == {e \in edgesOf[g] \ d.edges_removed :
                    {e[1], e[2]} \cap d.nodes_removed = {}}
           E == E0 \cup d.edges_added
<1>1. d.edges_added \subseteq N \X N /\ NewGraph(m, N, E, Derived) /\ UNCHANGED state
  BY DEF Evolve
<1>2. N \in SUBSET Node
  BY GraphParameters DEF TypeOK
<1>3. E0 \subseteq N \X N
  <2>1. edgesOf[g] \subseteq nodesOf[g] \X nodesOf[g]
    BY DEF TypeOK
  <2>2. ASSUME NEW e \in E0 PROVE e \in N \X N
    <3>1. PICK x \in nodesOf[g], y \in nodesOf[g] : e = <<x, y>>
      BY <2>1
    <3>2. x \notin d.nodes_removed /\ y \notin d.nodes_removed
      BY <3>1
    <3> QED
      BY <3>1, <3>2
  <2> QED
    BY <2>2
<1>4. E \in SUBSET (N \X N)
  BY <1>1, <1>3
<1>5. Makes(m, N, E, Derived)
  BY <1>1 DEF NewGraph, Makes, Derived, Fresh
<1> HIDE DEF N, E
<1> QED
  BY <1>2, <1>4, <1>5

\* Nodes N and edges E are those of two graphs in use, as how says.
Combined(N, E, how) ==
    /\ how.how = "union" =>
          \E a, b \in InUse :
              /\ how.parts = {a, b} /\ ~how.edited
              /\ N = nodesOf[a] \cup nodesOf[b] /\ E = edgesOf[a] \cup edgesOf[b]
    /\ how.how = "sequential" =>
          \E a, b \in InUse :
              /\ how.up = Upstream(a) /\ how.down = nodesOf[b] \ nodesOf[a]
              /\ N = nodesOf[a] \cup nodesOf[b]
              /\ E = edgesOf[a] \cup edgesOf[b] \cup (Leaves(a) \X Roots(b))

\* A new graph of nodes and edges that fit, which no other has run.
MakesGraph ==
    \E m \in Graph, N \in SUBSET Node : \E E \in SUBSET (N \X N), how \in How :
        Makes(m, N, E, how) /\ ~how.foreign /\ Combined(N, E, how)

\* Graph g is edited: it gets nodes N and edges E, and some nodes are reset, all
\* of N if it stays clean.
Grown(g, N, E) ==
    /\ Idle
    /\ nodesOf' = [nodesOf EXCEPT ![g] = @ \cup N]
    /\ edgesOf' = [edgesOf EXCEPT ![g] = @ \cup E]
    /\ state' \in [Node -> NodeState] /\ Done' \subseteq Done
    /\ made' \in [Graph -> How]
    /\ \A h \in Graph \ {g} : made'[h] = made[h]
    /\ made'[g].edited /\ made'[g].how = made[g].how /\ made'[g].parts = made[g].parts
    /\ made'[g].up = made[g].up /\ made'[g].down = made[g].down
    /\ made'[g].foreign = made[g].foreign
    /\ made'[g].clean => made[g].clean /\ N \cap Done' \subseteq nodesOf[g]
    /\ UNCHANGED <<log, triggered, outcome, run>>

Edits ==
    \E g \in Graph, N \in SUBSET Node, E \in SUBSET (Node \X Node) :
        /\ E \subseteq (nodesOf[g] \cup N) \X (nodesOf[g] \cup N)
        /\ Grown(g, N, E)

\* Between two ticks nodes are reset or triggered, a history is cleared when the
\* graph's nodes are reset, or a tick begins.
Rewinds ==
    /\ Idle
    /\ state' \in [Node -> NodeState] /\ Done' \subseteq Done
    /\ log' \in [Graph -> Seq(Node)]
    /\ \A g \in Graph : log'[g] = log[g] \/ (log'[g] = <<>> /\ nodesOf[g] \cap Done' = {})
    /\ triggered' \in [EventNode -> BOOLEAN]
    /\ UNCHANGED <<graphVars, outcome>>
    /\ \/ run' = run
       \/ \E g \in Graph, caller \in {"client", "transition"} :
             /\ nodesOf[g] # {} /\ run' = [NoRun EXCEPT !.graph = g, !.caller = caller]
             /\ caller = "transition" => nodesOf[g] \cap Done' = {}

\* A reset takes its nodes, and no others, out of the nodes that are done.
LEMMA ResetFacts ==
    ASSUME TypeOK, NEW N
    PROVE  /\ AfterReset(N) \in [Node -> NodeState]
           /\ {n \in Node : AfterReset(N)[n] = "DONE"} = Done \ N
BY DEF TypeOK, AfterReset, NodeState, Done

\* The record of a graph that was edited, and is clean or not.
Edited(h, c) == [h EXCEPT !.edited = TRUE, !.clean = c]

\* An edit leaves the rest of the record of a graph alone.
LEMMA EditedHow ==
    ASSUME NEW h \in How, NEW c \in BOOLEAN
    PROVE  /\ Edited(h, c) \in How /\ Edited(h, c).edited /\ Edited(h, c).clean = c
           /\ Edited(h, c).foreign = h.foreign /\ Edited(h, c).how = h.how
           /\ Edited(h, c).parts = h.parts
           /\ Edited(h, c).up = h.up /\ Edited(h, c).down = h.down
           /\ c = h.clean => [h EXCEPT !.edited = TRUE] = Edited(h, c)
<1>1. PICK w : w = Edited(h, c)
  OBVIOUS
<1>2. w = [how |-> h.how, parts |-> h.parts, up |-> h.up, down |-> h.down,
           clean |-> c, foreign |-> h.foreign, edited |-> TRUE]
  BY <1>1 DEF How, Edited
<1>3. /\ h.how \in {"built", "union", "bridged", "sequential", "evolved"}
      /\ h.parts \in SUBSET Graph /\ h.up \in SUBSET Node /\ h.down \in SUBSET Node
      /\ h.foreign \in BOOLEAN
  BY DEF How
<1>4. PICK v : v = [h EXCEPT !.edited = TRUE]
  OBVIOUS
<1>5. v = [how |-> h.how, parts |-> h.parts, up |-> h.up, down |-> h.down,
           clean |-> h.clean, foreign |-> h.foreign, edited |-> TRUE]
  BY <1>4 DEF How
<1>6. w \in How
  BY <1>2, <1>3 DEF How
<1>7. /\ w.edited /\ w.clean = c /\ w.foreign = h.foreign /\ w.how = h.how
      /\ w.parts = h.parts /\ w.up = h.up /\ w.down = h.down
  BY <1>2
<1>8. c = h.clean => v = w
  BY <1>2, <1>5
<1> QED
  BY <1>1, <1>4, <1>6, <1>7, <1>8

\* absorb() edits one graph.
LEMMA AbsorbEdits ==
    ASSUME TypeOK, NEW g \in Graph, NEW other \in Graph, NEW reset \in BOOLEAN,
           Absorb(g, other, reset)
    PROVE  Edits
<1> DEFINE N == nodesOf[other]
           E == edgesOf[other]
<1>1. N \in SUBSET Node /\ E \in SUBSET (Node \X Node) /\ E \subseteq N \X N
  BY DEF TypeOK
<1>2. /\ Idle /\ nodesOf' = [nodesOf EXCEPT ![g] = @ \cup N]
      /\ edgesOf' = [edgesOf EXCEPT ![g] = @ \cup E]
      /\ state' = IF reset THEN AfterReset(N) ELSE state
      /\ made' = [made EXCEPT ![g].edited = TRUE, ![g].clean = @ /\ reset]
      /\ UNCHANGED <<log, triggered, outcome, run>>
  BY DEF Absorb
<1>3. state' \in [Node -> NodeState] /\ Done' \subseteq Done /\ (reset => N \cap Done' = {})
  <2>1. state \in [Node -> NodeState]
    BY DEF TypeOK, NodeState
  <2>2. Done' = {n \in Node : state'[n] = "DONE"}
    BY DEF Done
  <2> QED
    BY <1>2, <2>1, <2>2, ResetFacts DEF Done
<1>4. made \in [Graph -> How]
  BY DEF TypeOK, How
<1>5. /\ made' \in [Graph -> How]
      /\ \A h \in Graph \ {g} : made'[h] = made[h]
      /\ made'[g].edited /\ made'[g].how = made[g].how /\ made'[g].parts = made[g].parts
      /\ made'[g].up = made[g].up /\ made'[g].down = made[g].down
      /\ made'[g].foreign = made[g].foreign
      /\ made'[g].clean = (made[g].clean /\ reset)
  <2> DEFINE c == made[g].clean /\ reset
  <2>1. c \in BOOLEAN /\ made[g] \in How
    BY <1>4, Zenon
  <2>2. made' = [made EXCEPT ![g] = Edited(made[g], c)]
    BY <1>2, <1>4 DEF How, Edited
  <2> HIDE DEF c
  <2> QED
    BY <1>4, <2>1, <2>2, EditedHow DEF c
<1> HIDE DEF N, E
<1>6. Grown(g, N, E)
  BY <1>2, <1>3, <1>5 DEF Grown
<1> QED
  BY <1>1, <1>6 DEF Edits

\* add_edge() edits one graph.
LEMMA AddEdgeEdits ==
    ASSUME TypeOK, NEW g \in Graph, NEW p, NEW n, AddEdge(g, p, n)
    PROVE  Edits
<1>1. /\ Idle /\ p \in nodesOf[g] /\ n \in nodesOf[g]
      /\ edgesOf' = [edgesOf EXCEPT ![g] = @ \cup {<<p, n>>}]
      /\ made' = [made EXCEPT ![g].edited = TRUE]
      /\ UNCHANGED <<nodesOf, log, state, triggered, outcome, run>>
  BY DEF AddEdge
<1>2. made \in [Graph -> How] /\ state \in [Node -> NodeState]
  BY DEF TypeOK, How, NodeState
<1>3. /\ made' \in [Graph -> How]
      /\ \A h \in Graph \ {g} : made'[h] = made[h]
      /\ made'[g].edited /\ made'[g].how = made[g].how /\ made'[g].parts = made[g].parts
      /\ made'[g].up = made[g].up /\ made'[g].down = made[g].down
      /\ made'[g].foreign = made[g].foreign /\ made'[g].clean = made[g].clean
  <2>1. made[g].clean \in BOOLEAN /\ made[g] \in How
    BY <1>2 DEF How
  <2>2. made' = [made EXCEPT ![g] = [made[g] EXCEPT !.edited = TRUE]]
    BY <1>1
  <2> DEFINE w == Edited(made[g], made[g].clean)
  <2>3. /\ w \in How /\ w.edited /\ w.clean = made[g].clean
        /\ w.foreign = made[g].foreign /\ w.how = made[g].how
        /\ w.parts = made[g].parts /\ w.up = made[g].up /\ w.down = made[g].down
        /\ [made[g] EXCEPT !.edited = TRUE] = w
    BY <2>1, EditedHow
  <2> HIDE DEF w
  <2>4. made' = [made EXCEPT ![g] = w]
    BY <2>2, <2>3
  <2> QED
    BY <1>2, <2>3, <2>4
<1>4. nodesOf' = [nodesOf EXCEPT ![g] = @ \cup {}]
  BY <1>1 DEF TypeOK
<1>5. Grown(g, {}, {<<p, n>>})
  BY <1>1, <1>2, <1>3, <1>4 DEF Grown, Done
<1>6. {<<p, n>>} \in SUBSET (Node \X Node)
  BY <1>1 DEF TypeOK
<1> QED
  BY <1>1, <1>5, <1>6 DEF Edits

\* Triggers, resets and the beginning of a tick run no node.
LEMMA Rewinding ==
    ASSUME TypeOK,
           \/ \E a, b \in Graph : ComposeRaises(a, b)
           \/ \E n \in EventNode : Trigger(n)
           \/ \E g \in Graph : Reset(g)
           \/ \E g \in Graph : BeginTick(g)
           \/ \E g \in Graph, events \in SUBSET EventNode : BeginTransition(g, events)
    PROVE  Rewinds
<1>1. /\ state \in [Node -> NodeState] /\ log \in [Graph -> Seq(Node)]
      /\ triggered \in [EventNode -> BOOLEAN] /\ EventNode \subseteq Node
      /\ Done' = {n \in Node : state'[n] = "DONE"}
  BY DEF TypeOK, NodeState, Node, Done
<1>2. ASSUME NEW a \in Graph, NEW b \in Graph, ComposeRaises(a, b) PROVE Rewinds
  <2>1. /\ Idle /\ state' = AfterReset(nodesOf[a] \cup nodesOf[b])
        /\ UNCHANGED <<graphVars, log, triggered, outcome, run>>
    BY <1>2 DEF ComposeRaises, Absorbed
  <2>2. state' \in [Node -> NodeState] /\ Done' \subseteq Done
    BY <1>1, <2>1, ResetFacts
  <2> QED
    BY <1>1, <2>1, <2>2 DEF Rewinds
<1>3. ASSUME NEW n \in EventNode, Trigger(n) PROVE Rewinds
  <2>1. /\ Idle /\ triggered' = [triggered EXCEPT ![n] = TRUE]
        /\ state' = [state EXCEPT ![n] = "READY"]
        /\ UNCHANGED <<graphVars, log, outcome, run>>
    BY <1>3 DEF Trigger
  <2>2. state' \in [Node -> NodeState] /\ Done' \subseteq Done
    BY <1>1, <2>1 DEF NodeState, Done
  <2> QED
    BY <1>1, <2>1, <2>2 DEF Rewinds
<1>4. ASSUME NEW g \in Graph, Reset(g) PROVE Rewinds
  <2>1. /\ Idle /\ state' = AfterReset(nodesOf[g]) /\ log' = [log EXCEPT ![g] = <<>>]
        /\ UNCHANGED <<graphVars, triggered, outcome, run>>
    BY <1>4 DEF Reset
  <2>2. /\ state' \in [Node -> NodeState] /\ Done' \subseteq Done
        /\ nodesOf[g] \cap Done' = {}
    BY <1>1, <2>1, ResetFacts
  <2>3. /\ log' \in [Graph -> Seq(Node)]
        /\ \A h \in Graph : log'[h] = IF h = g THEN <<>> ELSE log[h]
    BY <1>1, <2>1
  <2> QED
    BY <1>1, <2>1, <2>2, <2>3 DEF Rewinds
<1>5. ASSUME NEW g \in Graph, BeginTick(g) PROVE Rewinds
  BY <1>1, <1>5 DEF BeginTick, Rewinds, Done
<1>6. ASSUME NEW g \in Graph, NEW events \in SUBSET EventNode, BeginTransition(g, events)
      PROVE  Rewinds
  <2>1. /\ Idle /\ nodesOf[g] # {} /\ log' = [log EXCEPT ![g] = <<>>]
        /\ triggered' = [n \in EventNode |-> triggered[n] \/ n \in events \cap nodesOf[g]]
        /\ state' = [n \in Node |-> IF n \in events \cap nodesOf[g] THEN "READY"
                                   ELSE AfterReset(nodesOf[g])[n]]
        /\ run' = [NoRun EXCEPT !.graph = g, !.caller = "transition"]
        /\ UNCHANGED <<graphVars, outcome>>
    BY <1>6 DEF BeginTransition
  <2>2. AfterReset(nodesOf[g]) \in [Node -> NodeState]
        /\ \A n \in Node : AfterReset(nodesOf[g])[n] = "DONE" => n \in Done \ nodesOf[g]
    BY ResetFacts
  <2>3. /\ state' \in [Node -> NodeState] /\ Done' \subseteq Done
        /\ nodesOf[g] \cap Done' = {}
    BY <1>1, <2>1, <2>2 DEF NodeState
  <2>4. /\ log' \in [Graph -> Seq(Node)]
        /\ \A h \in Graph : log'[h] = IF h = g THEN <<>> ELSE log[h]
    BY <1>1, <2>1
  <2>5. triggered' \in [EventNode -> BOOLEAN]
    BY <2>1
  <2> QED
    BY <2>1, <2>3, <2>4, <2>5 DEF Rewinds
<1> QED
  BY <1>2, <1>3, <1>4, <1>5, <1>6

\* Every step is of one of these kinds.
LEMMA Steps ==
    ASSUME TypeOK, [Next]_vars
    PROVE  \/ MakesGraph \/ Edits \/ Rewinds
           \/ NextWave \/ (\E n \in Node : Execute(n)) \/ EndTick
           \/ UNCHANGED vars
<1>1. ASSUME Combine PROVE MakesGraph
  <2>1. ASSUME NEW a \in InUse, NEW b \in InUse, NEW m \in Graph, NEW reset \in BOOLEAN,
               NEW bridges, ComposeBridged(a, b, bridges, m, reset)
        PROVE  MakesGraph
    <3>0. a \in Graph /\ b \in Graph
      BY DEF InUse
    <3>1. PICK N, E, how :
             /\ Makes(m, N, E, how) /\ N \in SUBSET Node
             /\ E \in SUBSET (N \X N) /\ how \in How /\ ~how.foreign
             /\ how.how \in {"union", "bridged"} /\ how.parts = {a, b} /\ ~how.edited
             /\ how.how = "union" =>
                    N = nodesOf[a] \cup nodesOf[b] /\ E = edgesOf[a] \cup edgesOf[b]
      BY <2>1, <3>0, BridgedMakes
    <3>2. Combined(N, E, how)
      BY <3>1 DEF Combined
    <3> QED
      BY <3>1, <3>2 DEF MakesGraph
  <2>2. ASSUME NEW a \in InUse, NEW b \in InUse, NEW m \in Graph, NEW reset \in BOOLEAN,
               ComposeSequential(a, b, m, reset)
        PROVE  MakesGraph
    <3>0. a \in Graph /\ b \in Graph
      BY DEF InUse
    <3>1. PICK N, E, how :
             /\ Makes(m, N, E, how) /\ N \in SUBSET Node
             /\ E \in SUBSET (N \X N) /\ how \in How /\ ~how.foreign
             /\ N = nodesOf[a] \cup nodesOf[b]
             /\ E = edgesOf[a] \cup edgesOf[b] \cup (Leaves(a) \X Roots(b))
             /\ how.how = "sequential"
             /\ how.up = Upstream(a) /\ how.down = nodesOf[b] \ nodesOf[a]
      BY <2>2, <3>0, SequentialMakes
    <3>2. Combined(N, E, how)
      BY <3>1 DEF Combined
    <3> QED
      BY <3>1, <3>2 DEF MakesGraph
  <2>3. ASSUME NEW a \in InUse, NEW b \in InUse, NEW m \in Graph, NEW reset \in BOOLEAN,
               \/ \E bridge \in nodesOf[a] \X nodesOf[b], some \in BOOLEAN :
                     ComposeBridged(a, b, IF some THEN {bridge} ELSE {}, m, reset)
               \/ ComposeSequential(a, b, m, reset)
        PROVE  MakesGraph
    BY <2>1, <2>2, <2>3
  <2> QED
    BY <1>1, <2>3 DEF Combine
<1>2. ASSUME NEW g \in Graph, NEW m \in Graph, NEW d \in Delta, Evolve(g, d, m)
      PROVE  MakesGraph
  <2>1. Derived \in How /\ ~Derived.foreign /\ \A N, E : Combined(N, E, Derived)
    BY DEF Derived, Fresh, How, Combined
  <2> QED
    BY <1>2, <2>1, EvolveMakes DEF MakesGraph
<1>3. ASSUME AbsorbInUse PROVE Edits
  BY <1>3, AbsorbEdits DEF AbsorbInUse, InUse
<1>4. ASSUME Edit PROVE MakesGraph \/ Edits \/ Rewinds
  BY <1>2, <1>4, AddEdgeEdits, Rewinding DEF Edit
<1> QED
  BY <1>1, <1>3, <1>4, Rewinding DEF Next, TickStep, InUse

-----------------------------------------------------------------------------
(* Types, the running tick, unused handles.                                *)

\* What TypeOK says, with names.
LEMMA Typed ==
    ASSUME TypeOK
    PROVE  /\ nodesOf \in [Graph -> SUBSET Node]
           /\ edgesOf \in [Graph -> SUBSET (Node \X Node)]
           /\ \A g \in Graph : edgesOf[g] \subseteq nodesOf[g] \X nodesOf[g]
           /\ log \in [Graph -> Seq(Node)]
           /\ state \in [Node -> NodeState] /\ triggered \in [EventNode -> BOOLEAN]
           /\ outcome \in [Node -> {"ok", "false", "raise"}]
           /\ run \in Run /\ made \in [Graph -> How]
           /\ Done \subseteq Node /\ NoRun \in Run /\ NoGraph \notin Graph
<1>1. NoRun \in Run
  BY DEF NoRun, Run
<1> QED
  BY <1>1, GraphParameters DEF TypeOK, NodeState, How, Run, Done

\* The next wave, the execution of a node and the end of a tick, on graph g.
LEMMA TickSteps ==
    ASSUME TypeOK, NextWave \/ (\E n \in Node : Execute(n)) \/ EndTick
    PROVE  /\ run.graph \in Graph /\ ~Idle
           /\ run.wave \in SUBSET Node /\ run.attempted \in SUBSET Node /\ run.waves \in Nat
           /\ UNCHANGED <<nodesOf, edgesOf, triggered, outcome>>
<1>1. run.graph \in Graph \cup {NoGraph} /\ run.wave \in SUBSET Node
      /\ run.attempted \in SUBSET Node /\ run.waves \in Nat
  BY Typed DEF Run
<1>2. ~Idle /\ UNCHANGED <<nodesOf, edgesOf, triggered, outcome>>
  BY DEF NextWave, Execute, EndTick, graphVars
<1> QED
  BY <1>1, <1>2 DEF Idle

\* Execution of a node: what happens to it and to no other.
LEMMA Executing ==
    ASSUME TypeOK, NEW n \in Node, Execute(n)
    PROVE  /\ run.graph \in Graph /\ n \in run.wave
           /\ state' \in [Node -> NodeState] /\ log' \in [Graph -> Seq(Node)]
           /\ made' \in [Graph -> How] /\ run' \in Run
           /\ \A m \in Node \ {n} : state'[m] = state[m]
           /\ outcome[n] = "ok" => state'[n] = "DONE"
           /\ outcome[n] = "false" => state'[n] = "PENDING"
           /\ outcome[n] = "raise" => state'[n] = "FAILED"
           /\ \A g \in Graph : log'[g] = IF g = run.graph /\ outcome[n] = "ok"
                                       THEN Append(log[g], n) ELSE log[g]
           /\ run'.graph = run.graph /\ run'.caller = run.caller /\ run'.waves = run.waves
           /\ run'.wave = run.wave \ {n} /\ run'.attempted = run.attempted \cup {n}
           /\ \A g \in Graph : /\ made'[g].how = made[g].how /\ made'[g].parts = made[g].parts
                              /\ made'[g].up = made[g].up /\ made'[g].down = made[g].down
                              /\ made'[g].clean = made[g].clean
                              /\ made'[g].edited = made[g].edited
                              /\ made'[g].foreign =
                                   (made[g].foreign \/ (g # run.graph /\ n \in nodesOf[g]))
<1>1. run.graph \in Graph
  BY TickSteps
<1>2. /\ state \in [Node -> NodeState] /\ log \in [Graph -> Seq(Node)]
      /\ made \in [Graph -> How] /\ outcome[n] \in {"ok", "false", "raise"}
      /\ run \in Run
  BY Typed
<1>3. /\ n \in run.wave
      /\ state' = [state EXCEPT ![n] = CASE outcome[n] = "ok"    -> "DONE"
                                         [] outcome[n] = "false" -> "PENDING"
                                         [] outcome[n] = "raise" -> "FAILED"]
      /\ log' = IF outcome[n] = "ok" THEN [log EXCEPT ![run.graph] = Append(@, n)] ELSE log
      /\ run' = [run EXCEPT !.wave = @ \ {n}, !.attempted = @ \cup {n}]
      /\ made' = [g \in Graph |->
                    [made[g] EXCEPT !.foreign =
                       @ \/ (g # run.graph /\ n \in nodesOf[g])]]
  BY DEF Execute
<1>4. /\ state' \in [Node -> NodeState]
      /\ \A m \in Node \ {n} : state'[m] = state[m]
      /\ outcome[n] = "ok" => state'[n] = "DONE"
      /\ outcome[n] = "false" => state'[n] = "PENDING"
      /\ outcome[n] = "raise" => state'[n] = "FAILED"
  BY <1>2, <1>3 DEF NodeState
<1>5. /\ log' \in [Graph -> Seq(Node)]
      /\ \A g \in Graph : log'[g] = IF g = run.graph /\ outcome[n] = "ok"
                                  THEN Append(log[g], n) ELSE log[g]
  BY <1>1, <1>2, <1>3
<1>6. /\ run' \in Run
      /\ run'.graph = run.graph /\ run'.caller = run.caller /\ run'.waves = run.waves
      /\ run'.wave = run.wave \ {n} /\ run'.attempted = run.attempted \cup {n}
  BY <1>2, <1>3 DEF Run
<1>7. ASSUME NEW g \in Graph
      PROVE  /\ made'[g] \in How
             /\ made'[g].how = made[g].how /\ made'[g].parts = made[g].parts
             /\ made'[g].up = made[g].up /\ made'[g].down = made[g].down
             /\ made'[g].clean = made[g].clean /\ made'[g].edited = made[g].edited
             /\ made'[g].foreign = (made[g].foreign \/ (g # run.graph /\ n \in nodesOf[g]))
  <2> DEFINE f == made[g].foreign \/ (g # run.graph /\ n \in nodesOf[g])
             h == made[g]
  <2>1. made'[g] = [h EXCEPT !.foreign = f]
    BY <1>3
  <2>2. h \in How /\ f \in BOOLEAN
    BY <1>2, Zenon
  <2> HIDE DEF f, h
  <2>3. made'[g] \in How
    BY <2>1, <2>2 DEF How
  <2>4. /\ made'[g].how = h.how /\ made'[g].parts = h.parts
        /\ made'[g].up = h.up /\ made'[g].down = h.down
        /\ made'[g].clean = h.clean /\ made'[g].edited = h.edited
        /\ made'[g].foreign = f
    BY <2>1, <2>2 DEF How
  <2> QED
    BY <2>3, <2>4 DEF f, h
<1>8. made' \in [Graph -> How]
  <2>1. made' = [g \in Graph |-> made'[g]]
    BY <1>3
  <2> QED
    BY <1>7, <2>1
<1> QED
  BY <1>1, <1>3, <1>4, <1>5, <1>6, <1>7, <1>8

\* The next wave.
LEMMA Waving ==
    ASSUME TypeOK, NextWave
    PROVE  /\ run' \in Run
           /\ run'.graph = run.graph /\ run'.caller = run.caller
           /\ run'.waves = run.waves + 1 /\ run'.attempted = run.attempted
           /\ run'.wave = Ready(run.graph) \ run.attempted
           /\ run.wave = {} /\ run'.wave # {}
           /\ UNCHANGED <<nodesOf, edgesOf, made, log, state, triggered, outcome>>
<1> DEFINE W == Ready(run.graph) \ run.attempted
<1>1. run.graph \in Graph /\ run \in Run
  BY TickSteps, Typed
<1>2. W \in SUBSET Node
  BY <1>1, Typed DEF Ready
<1>3. W # {} /\ run' = [run EXCEPT !.wave = W, !.waves = @ + 1]
  BY DEF NextWave
<1> HIDE DEF W
<1>4. /\ run'.graph = run.graph /\ run'.caller = run.caller
      /\ run'.waves = run.waves + 1 /\ run'.attempted = run.attempted /\ run'.wave = W
  BY <1>1, <1>3 DEF Run
<1>5. run' = [graph |-> run.graph, caller |-> run.caller, waves |-> run.waves + 1,
              wave |-> W, attempted |-> run.attempted]
  BY <1>1, <1>3 DEF Run
<1>6. /\ run.graph \in Graph /\ run.caller \in {"none", "client", "transition"}
      /\ run.waves + 1 \in Nat /\ run.attempted \in SUBSET Node
  BY <1>1 DEF Run
<1>7. run' \in Run
  BY <1>2, <1>5, <1>6 DEF Run
<1> QED
  BY <1>3, <1>4, <1>7 DEF NextWave, W, graphVars

\* Each step keeps every variable in its set.
LEMMA TypeStep == TypeOK /\ [Next]_vars => TypeOK'
<1> SUFFICES ASSUME TypeOK, [Next]_vars PROVE TypeOK'
  OBVIOUS
<1> DEFINE Goal ==
      /\ nodesOf' \in [Graph -> SUBSET Node]
      /\ edgesOf' \in [Graph -> SUBSET (Node \X Node)]
      /\ \A g \in Graph : edgesOf'[g] \subseteq nodesOf'[g] \X nodesOf'[g]
      /\ log' \in [Graph -> Seq(Node)]
      /\ state' \in [Node -> NodeState] /\ triggered' \in [EventNode -> BOOLEAN]
      /\ outcome' \in [Node -> {"ok", "false", "raise"}]
      /\ run' \in Run /\ made' \in [Graph -> How]
<1>1. SUFFICES Goal
  BY DEF TypeOK, NodeState, How, Run
<1>2. CASE MakesGraph
  <2>1. PICK m \in Graph, N \in SUBSET Node : \E E \in SUBSET (N \X N), how \in How :
           Makes(m, N, E, how) /\ ~how.foreign
    BY <1>2 DEF MakesGraph
  <2>2. PICK E \in SUBSET (N \X N), how \in How : Makes(m, N, E, how)
    BY <2>1
  <2>3. AfterReset(N) \in [Node -> NodeState]
    BY ResetFacts
  <2>4. state' \in [Node -> NodeState]
    BY <2>2, <2>3, Typed DEF Makes
  <2>5. /\ nodesOf' \in [Graph -> SUBSET Node]
        /\ edgesOf' \in [Graph -> SUBSET (Node \X Node)]
        /\ made' \in [Graph -> How]
    BY <2>2, Typed DEF Makes
  <2>6. \A g \in Graph : edgesOf'[g] \subseteq nodesOf'[g] \X nodesOf'[g]
    BY <2>2, Typed DEF Makes
  <2> QED
    BY <2>2, <2>4, <2>5, <2>6, Typed DEF Makes
<1>3. CASE Edits
  <2>1. PICK g \in Graph, N \in SUBSET Node, E \in SUBSET (Node \X Node) :
           /\ E \subseteq (nodesOf[g] \cup N) \X (nodesOf[g] \cup N)
           /\ Grown(g, N, E)
    BY <1>3 DEF Edits
  <2>2. /\ nodesOf' \in [Graph -> SUBSET Node]
        /\ edgesOf' \in [Graph -> SUBSET (Node \X Node)]
    BY <2>1, Typed DEF Grown
  <2>3. ASSUME NEW h \in Graph PROVE edgesOf'[h] \subseteq nodesOf'[h] \X nodesOf'[h]
    <3>1. CASE h = g
      <4>1. edgesOf'[h] = edgesOf[h] \cup E /\ nodesOf'[h] = nodesOf[h] \cup N
        BY <2>1, <3>1, Typed DEF Grown
      <4>2. edgesOf[h] \subseteq nodesOf[h] \X nodesOf[h]
        BY Typed
      <4> QED
        BY <2>1, <3>1, <4>1, <4>2
    <3>2. CASE h # g
      BY <2>1, <3>2, Typed DEF Grown
    <3> QED
      BY <3>1, <3>2
  <2> QED
    BY <2>1, <2>2, <2>3, Typed DEF Grown
<1>4. CASE Rewinds
  <2>1. \A g \in Graph, caller \in {"client", "transition"} :
           [NoRun EXCEPT !.graph = g, !.caller = caller] \in Run
    BY DEF NoRun, Run
  <2>2. \/ run' = run
        \/ \E g \in Graph, caller \in {"client", "transition"} :
              run' = [NoRun EXCEPT !.graph = g, !.caller = caller]
    BY <1>4, Zenon DEF Rewinds
  <2>3. run \in Run
    BY Typed
  <2>4. run' \in Run
    BY <2>1, <2>2, <2>3, Zenon
  <2> QED
    BY <1>4, <2>4, Typed DEF Rewinds, graphVars
<1>5. CASE NextWave
  BY <1>5, Waving, Typed
<1>6. ASSUME NEW n \in Node, Execute(n) PROVE Goal
  BY <1>6, Executing, TickSteps, Typed
<1>7. CASE EndTick
  BY <1>7, Typed DEF EndTick, graphVars
<1>8. CASE UNCHANGED vars
  BY <1>8, Typed DEF vars
<1> QED
  BY <1>2, <1>3, <1>4, <1>5, <1>6, <1>7, <1>8, Steps

\* The types at the start.
LEMMA InitTyped == Init => TypeOK
<1> SUFFICES ASSUME Init PROVE TypeOK
  OBVIOUS
<1>1. Fresh \in How /\ NoRun \in Run
  BY DEF Fresh, How, NoRun, Run
<1>2. made \in [Graph -> How] /\ run \in Run
  BY <1>1 DEF Init
<1>3. /\ log \in [Graph -> Seq(Node)]
      /\ state \in [Node -> {"PENDING", "READY", "DONE", "FAILED"}]
      /\ triggered \in [EventNode -> BOOLEAN]
      /\ edgesOf \in [Graph -> SUBSET (Node \X Node)] /\ nodesOf \in [Graph -> SUBSET Node]
      /\ outcome \in [Node -> {"ok", "false", "raise"}]
      /\ \A g \in Graph : edgesOf[g] \subseteq nodesOf[g] \X nodesOf[g]
  BY DEF Init
<1> QED
  BY <1>2, <1>3 DEF TypeOK, How, Run

\* The graphs, composed or not, keep their structure and every value its set.
THEOREM GraphTypes == Spec => []TypeOK
BY InitTyped, TypeStep, PTL DEF Spec

\* Callables do not change; an event always fires and an action is never false.
Outcomes ==
    /\ \A n \in EventNode : outcome[n] = "ok"
    /\ \A n \in ActionNode : outcome[n] # "false"

\* While a graph is ticked the nodes of the wave stay ready, and of the attempted
\* ones only conditions found false can still be.
RunOK ==
    IF Idle THEN run = NoRun
    ELSE /\ nodesOf[run.graph] # {}
         /\ run.wave \subseteq Ready(run.graph)
         /\ \A n \in run.attempted :
               state[n] \in {"PENDING", "READY"} => outcome[n] = "false"

\* A handle not in use has no history.
UnusedOK == \A g \in Graph : nodesOf[g] = {} => log[g] = <<>>

SInv == TypeOK /\ Outcomes /\ RunOK /\ UnusedOK /\ HistoryShowsDone

\* The entries of a sequence.
Logged(s) == {s[i] : i \in DOMAIN s}

\* A node put behind a sequence is one of its entries, and its entries stay.
LEMMA LogFacts ==
    ASSUME NEW s \in Seq(Node), NEW n \in Node
    PROVE  /\ Append(s, n) \in Seq(Node) /\ Len(s) \in Nat /\ DOMAIN s = 1 .. Len(s)
           /\ DOMAIN Append(s, n) = 1 .. (Len(s) + 1)
           /\ Append(s, n)[Len(s) + 1] = n
           /\ \A i \in 1 .. Len(s) : Append(s, n)[i] = s[i]
           /\ Logged(Append(s, n)) = Logged(s) \cup {n}
<1>1. /\ Append(s, n) \in Seq(Node) /\ Len(s) \in Nat /\ DOMAIN s = 1 .. Len(s)
      /\ DOMAIN Append(s, n) = 1 .. (Len(s) + 1)
      /\ Append(s, n)[Len(s) + 1] = n
      /\ \A i \in 1 .. Len(s) : Append(s, n)[i] = s[i]
  OBVIOUS
<1>2. DOMAIN Append(s, n) = DOMAIN s \cup {Len(s) + 1}
  BY <1>1
<1>3. \A i \in DOMAIN s : Append(s, n)[i] = s[i]
  BY <1>1
<1>4. Logged(Append(s, n)) = Logged(s) \cup {n}
  BY <1>1, <1>2, <1>3 DEF Logged
<1> QED
  BY <1>1, <1>4

\* What was DONE stays DONE when a node of the wave is executed.
LEMMA DoneGrows ==
    ASSUME SInv, NEW n \in Node, Execute(n)
    PROVE  /\ n \in Ready(run.graph) /\ n \in nodesOf[run.graph] /\ n \notin Done
           /\ Done' = IF outcome[n] = "ok" THEN Done \cup {n} ELSE Done
           /\ outcome[n] = "ok" \/ outcome[n] = "false" \/ outcome[n] = "raise"
<1>1. TypeOK /\ RunOK
  BY DEF SInv
<1>2. /\ n \in run.wave /\ ~Idle
      /\ state' \in [Node -> NodeState]
      /\ \A m \in Node \ {n} : state'[m] = state[m]
      /\ outcome[n] = "ok" => state'[n] = "DONE"
      /\ outcome[n] = "false" => state'[n] = "PENDING"
      /\ outcome[n] = "raise" => state'[n] = "FAILED"
  BY <1>1, Executing, TickSteps
<1>3. n \in Ready(run.graph)
  BY <1>1, <1>2 DEF RunOK
<1>4. n \in nodesOf[run.graph] /\ n \notin Done
  BY <1>3 DEF Ready, Done
<1>5. outcome[n] = "ok" \/ outcome[n] = "false" \/ outcome[n] = "raise"
  BY <1>1, Typed
<1>6. Done' = {m \in Node : state'[m] = "DONE"}
  BY DEF Done
<1>7. Done' = IF outcome[n] = "ok" THEN Done \cup {n} ELSE Done
  BY <1>2, <1>4, <1>5, <1>6 DEF Done
<1> QED
  BY <1>3, <1>4, <1>5, <1>7

\* Every step keeps what is known of the graph that runs and of unused graphs.
LEMMA RunStep == SInv /\ [Next]_vars => Outcomes' /\ RunOK' /\ UnusedOK'
<1> SUFFICES ASSUME SInv, [Next]_vars PROVE Outcomes' /\ RunOK' /\ UnusedOK'
  OBVIOUS
<1>0. TypeOK /\ Outcomes /\ RunOK /\ UnusedOK
  BY DEF SInv
<1>1. CASE MakesGraph
  <2>1. PICK m \in Graph, N \in SUBSET Node : \E E \in SUBSET (N \X N), how \in How :
           Makes(m, N, E, how) /\ ~how.foreign
    BY <1>1 DEF MakesGraph
  <2>2. PICK E \in SUBSET (N \X N), how \in How : Makes(m, N, E, how)
    BY <2>1
  <2>3. /\ Idle /\ nodesOf[m] = {} /\ nodesOf' = [nodesOf EXCEPT ![m] = N]
        /\ log' = log /\ outcome' = outcome /\ run' = run
    BY <2>2 DEF Makes
  <2>4. RunOK'
    BY <1>0, <2>3 DEF RunOK, Idle
  <2>5. Outcomes' /\ UnusedOK'
    BY <1>0, <2>3, Typed DEF Outcomes, UnusedOK
  <2> QED
    BY <2>4, <2>5
<1>2. CASE Edits
  <2>1. PICK g \in Graph, N \in SUBSET Node, E \in SUBSET (Node \X Node) : Grown(g, N, E)
    BY <1>2 DEF Edits
  <2>2. /\ Idle /\ nodesOf' = [nodesOf EXCEPT ![g] = @ \cup N]
        /\ log' = log /\ outcome' = outcome /\ run' = run
    BY <2>1 DEF Grown
  <2>3. RunOK'
    BY <1>0, <2>2 DEF RunOK, Idle
  <2>4. Outcomes' /\ UnusedOK'
    BY <1>0, <2>2, Typed DEF Outcomes, UnusedOK
  <2> QED
    BY <2>3, <2>4
<1>3. CASE Rewinds
  <2>1. /\ Idle /\ nodesOf' = nodesOf /\ outcome' = outcome
        /\ \A g \in Graph : log'[g] = log[g] \/ log'[g] = <<>>
        /\ \/ run' = run
           \/ \E g \in Graph, caller \in {"client", "transition"} :
                 nodesOf[g] # {} /\ run' = [NoRun EXCEPT !.graph = g, !.caller = caller]
    BY <1>3 DEF Rewinds, graphVars
  <2>2. Outcomes' /\ UnusedOK'
    BY <1>0, <2>1 DEF Outcomes, UnusedOK
  <2>3. CASE run' = run
    <3>1. Idle' /\ run' = NoRun
      BY <1>0, <2>1, <2>3 DEF RunOK, Idle
    <3> QED
      BY <2>2, <3>1 DEF RunOK
  <2>4. ASSUME NEW g \in Graph, NEW caller \in {"client", "transition"}, nodesOf[g] # {},
               run' = [NoRun EXCEPT !.graph = g, !.caller = caller]
        PROVE  RunOK'
    <3>1. run'.graph = g /\ run'.wave = {} /\ run'.attempted = {}
      BY <2>4 DEF NoRun
    <3>2. ~(Idle')
      BY <3>1, GraphParameters DEF Idle
    <3> QED
      BY <2>1, <2>4, <3>1, <3>2 DEF RunOK
  <2> QED
    BY <2>1, <2>2, <2>3, <2>4
<1>4. CASE NextWave
  <2>1. /\ run'.graph = run.graph /\ run'.wave \subseteq Ready(run.graph) /\ ~Idle
        /\ run'.attempted = run.attempted
        /\ UNCHANGED <<nodesOf, edgesOf, made, log, state, triggered, outcome>>
    BY <1>0, <1>4, Waving, TickSteps
  <2>2. Ready(run.graph)' = Ready(run.graph)
    BY <2>1 DEF Ready, Preds, Done
  <2> QED
    BY <1>0, <2>1, <2>2 DEF Outcomes, RunOK, UnusedOK, Idle
<1>5. ASSUME NEW n \in Node, Execute(n) PROVE Outcomes' /\ RunOK' /\ UnusedOK'
  <2>1. /\ UNCHANGED <<nodesOf, edgesOf, triggered, outcome>> /\ ~Idle
        /\ run.graph \in Graph /\ run.wave \subseteq Node /\ run.attempted \subseteq Node
    BY <1>0, <1>5, TickSteps
  <2>2. /\ \A m \in Node \ {n} : state'[m] = state[m]
        /\ outcome[n] = "ok" => state'[n] = "DONE"
        /\ outcome[n] = "false" => state'[n] = "PENDING"
        /\ outcome[n] = "raise" => state'[n] = "FAILED"
        /\ \A g \in Graph : g # run.graph => log'[g] = log[g]
        /\ run'.graph = run.graph
        /\ run'.wave = run.wave \ {n} /\ run'.attempted = run.attempted \cup {n}
    BY <1>0, <1>5, Executing
  <2>3. Done \subseteq Done' /\ (outcome[n] = "ok" \/ outcome[n] = "false" \/ outcome[n] = "raise")
    BY <1>5, DoneGrows
  <2>4. run'.wave \subseteq Ready(run.graph)'
    BY <1>0, <2>1, <2>2, <2>3 DEF RunOK, Ready, Preds
  <2>5. \A m \in run'.attempted : state'[m] \in {"PENDING", "READY"} => outcome[m] = "false"
    BY <1>0, <2>1, <2>2, <2>3 DEF RunOK
  <2>6. RunOK'
    BY <1>0, <2>1, <2>2, <2>4, <2>5 DEF RunOK, Idle
  <2>7. UnusedOK'
    BY <1>0, <2>1, <2>2 DEF UnusedOK, RunOK
  <2> QED
    BY <1>0, <2>1, <2>6, <2>7 DEF Outcomes
<1>6. CASE EndTick
  BY <1>0, <1>6 DEF EndTick, graphVars, Outcomes, RunOK, UnusedOK, Idle, NoRun
<1>7. CASE UNCHANGED vars
  <2>1. Ready(run.graph)' = Ready(run.graph)
    BY <1>7 DEF Ready, Preds, Done, vars
  <2> QED
    BY <1>0, <1>7, <2>1 DEF vars, Outcomes, RunOK, UnusedOK, Idle
<1> QED
  BY <1>0, <1>1, <1>2, <1>3, <1>4, <1>5, <1>6, <1>7, Steps

\* The history keeps showing what is DONE.
LEMMA ShowsStep == SInv /\ [Next]_vars => HistoryShowsDone'
<1> SUFFICES ASSUME SInv, [Next]_vars, NEW g \in Graph, made'[g].clean, ~made'[g].foreign
             PROVE  nodesOf'[g] \cap Done' \subseteq Logged(log'[g])
  BY DEF HistoryShowsDone, Logged
<1>0. /\ TypeOK
      /\ made[g].clean /\ ~made[g].foreign => nodesOf[g] \cap Done \subseteq Logged(log[g])
  BY DEF SInv, HistoryShowsDone, Logged
<1>1. CASE MakesGraph
  <2>1. PICK m \in Graph, N \in SUBSET Node : \E E \in SUBSET (N \X N), how \in How :
           Makes(m, N, E, how) /\ ~how.foreign
    BY <1>1 DEF MakesGraph
  <2>2. PICK E \in SUBSET (N \X N), how \in How : Makes(m, N, E, how)
    BY <2>1
  <2>3. /\ nodesOf' = [nodesOf EXCEPT ![m] = N] /\ made' = [made EXCEPT ![m] = how]
        /\ state' = AfterReset(N) \/ (state' = state /\ ~how.clean)
        /\ log' = log
    BY <2>2 DEF Makes
  <2>4. Done' \subseteq Done /\ (how.clean => N \cap Done' = {})
    <3>1. Done' = {n \in Node : state'[n] = "DONE"}
      BY DEF Done
    <3> QED
      BY <1>0, <2>3, <3>1, ResetFacts DEF Done
  <2>5. CASE g = m
    BY <1>0, <2>3, <2>4, <2>5, Typed
  <2>6. CASE g # m
    BY <1>0, <2>3, <2>4, <2>6, Typed
  <2> QED
    BY <2>5, <2>6
<1>2. CASE Edits
  <2>1. PICK h \in Graph, N \in SUBSET Node, E \in SUBSET (Node \X Node) : Grown(h, N, E)
    BY <1>2 DEF Edits
  <2>2. /\ nodesOf' = [nodesOf EXCEPT ![h] = @ \cup N] /\ log' = log /\ Done' \subseteq Done
        /\ g # h => made'[g] = made[g]
        /\ made'[h].foreign = made[h].foreign
        /\ made'[h].clean => made[h].clean /\ N \cap Done' \subseteq nodesOf[h]
    BY <2>1 DEF Grown
  <2>3. CASE g = h
    BY <1>0, <2>2, <2>3, Typed
  <2>4. CASE g # h
    BY <1>0, <2>2, <2>4, Typed
  <2> QED
    BY <2>3, <2>4
<1>3. CASE Rewinds
  BY <1>0, <1>3 DEF Rewinds, graphVars
<1>4. CASE NextWave
  <2>1. Done' = Done
    BY <1>0, <1>4, Waving DEF Done
  <2> QED
    BY <1>0, <1>4, <2>1, Waving
<1>5. ASSUME NEW n \in Node, Execute(n)
      PROVE  nodesOf'[g] \cap Done' \subseteq Logged(log'[g])
  <2>1. /\ made'[g].clean = made[g].clean
        /\ made'[g].foreign = (made[g].foreign \/ (g # run.graph /\ n \in nodesOf[g]))
        /\ log'[g] = IF g = run.graph /\ outcome[n] = "ok" THEN Append(log[g], n) ELSE log[g]
        /\ nodesOf' = nodesOf
    <3>1. nodesOf' = nodesOf
      BY <1>0, <1>5, TickSteps
    <3>2. /\ made'[g].clean = made[g].clean
          /\ log'[g] = IF g = run.graph /\ outcome[n] = "ok" THEN Append(log[g], n) ELSE log[g]
      <4>1. /\ \A h \in Graph : made'[h].clean = made[h].clean
            /\ \A h \in Graph : log'[h] = IF h = run.graph /\ outcome[n] = "ok"
                                       THEN Append(log[h], n) ELSE log[h]
        BY <1>0, <1>5, Executing, Zenon
      <4> QED
        BY <4>1, Zenon
    <3>3. made'[g].foreign = (made[g].foreign \/ (g # run.graph /\ n \in nodesOf[g]))
      <4>1. \A h \in Graph :
               made'[h].foreign = (made[h].foreign \/ (h # run.graph /\ n \in nodesOf[h]))
        BY <1>0, <1>5, Executing, Zenon
      <4> QED
        BY <4>1, Zenon
    <3> QED
      BY <3>1, <3>2, <3>3, Zenon
  <2>2. nodesOf[g] \cap Done \subseteq Logged(log[g]) /\ (g = run.graph \/ n \notin nodesOf[g])
    BY <1>0, <2>1
  <2>3. Done' = IF outcome[n] = "ok" THEN Done \cup {n} ELSE Done
    BY <1>5, DoneGrows
  <2>4. Logged(Append(log[g], n)) = Logged(log[g]) \cup {n}
    BY <1>0, Typed, LogFacts
  <2> QED
    BY <2>1, <2>2, <2>3, <2>4
<1>6. CASE EndTick
  BY <1>0, <1>6 DEF EndTick, graphVars, Done
<1>7. CASE UNCHANGED vars
  BY <1>0, <1>7 DEF vars, Done
<1> QED
  BY <1>0, <1>1, <1>2, <1>3, <1>4, <1>5, <1>6, <1>7, Steps

\* The invariant holds in every behaviour.
LEMMA SInvHolds == Spec => []SInv
<1>1. Init => SInv
  <2>1. Init => Outcomes /\ RunOK /\ UnusedOK /\ HistoryShowsDone
    BY DEF Init, Outcomes, RunOK, UnusedOK, HistoryShowsDone, Idle, NoRun, Done
  <2> QED
    BY <2>1, InitTyped DEF SInv
<1>2. SInv /\ [Next]_vars => SInv'
  BY TypeStep, RunStep, ShowsStep DEF SInv
<1> QED
  BY <1>1, <1>2, PTL DEF Spec

\* Nothing is DONE in a graph behind its history's back: who looks at the states
\* of its nodes sees what its history says, unless another graph ran them.
THEOREM HistoryIsComplete == Spec => []HistoryShowsDone
<1>1. SInv => HistoryShowsDone
  BY DEF SInv
<1> QED
  BY <1>1, SInvHolds, PTL

-----------------------------------------------------------------------------
(* The closure of the ready set.                                           *)

\* Fired as a function.
Fire(g) == [D \in SUBSET Node |-> Fired(g, D)]

\* More DONE nodes never make fewer ready.
LEMMA FireGrows ==
    ASSUME TypeOK, NEW g \in Graph
    PROVE  Grows(Fire(g), Node)
<1>1. ASSUME NEW D \in SUBSET Node
      PROVE  Fired(g, D) \in SUBSET Node /\ D \subseteq Fired(g, D)
  BY Typed DEF Fired, ReadySet
<1>2. ASSUME NEW D \in SUBSET Node, NEW E \in SUBSET Node, D \subseteq E
      PROVE  Fired(g, D) \subseteq Fired(g, E)
  BY <1>2 DEF Fired, ReadySet, ActivationSatisfied
<1> QED
  BY <1>1, <1>2 DEF Grows, Fire

\* What is DONE at the end is the least set that contains what is DONE now and
\* of which everything ready has been fired.
Closing == \A g \in Graph : LeastClosed(Fire(g), Node, Done, Quiescent(g))

\* What the recursion stops at is the least set closed under firing.
LEMMA QuiescentCloses == TypeOK => Closing
<1> SUFFICES ASSUME TypeOK, NEW g \in Graph
             PROVE  LeastClosed(Fire(g), Node, Done, Quiescent(g))
  BY DEF Closing
<1> DEFINE Is(f) == f = [D \in SUBSET Node |->
                           IF Fired(g, D) = D THEN D ELSE f[Fired(g, D)]]
           q == CHOOSE f : Is(f)
<1>1. Grows(Fire(g), Node)
  BY FireGrows
<1>2. \A f : Is(f) <=> Iterates(f, Fire(g), Node)
  BY DEF Iterates, Fire
<1>3. \E f : Is(f)
  <2> HIDE DEF Is
  <2>1. PICK f : Iterates(f, Fire(g), Node)
    BY <1>1, IterationExists
  <2> QED
    BY <1>2, <2>1
<1>4. Is(q)
  <2> HIDE DEF Is
  <2> QED
    BY <1>3
<1>5. Iterates(q, Fire(g), Node)
  BY <1>2, <1>4
<1>6. Quiescent(g) = q[Done]
  BY DEF Quiescent
<1> HIDE DEF q
<1>7. IsFiniteSet(Node) /\ Done \in SUBSET Node
  BY GraphParameters DEF Done
<1>8. LeastClosed(Fire(g), Node, Done, q[Done])
  BY <1>1, <1>5, <1>7, IterationCloses
<1> QED
  BY <1>6, <1>8

\* A step of a tick on graph g leaves the closure what it was.
LEMMA ClosureStays ==
    ASSUME SInv, TypeOK', NEW g \in Graph, run.graph = g, NEW n \in Node, Execute(n)
    PROVE  Quiescent(g)' = Quiescent(g)
<1> DEFINE F == Fire(g)
           G == Fire(g)'
           Q == Quiescent(g)
           R == Quiescent(g)'
<1>1. TypeOK /\ Outcomes /\ RunOK
  BY DEF SInv
<1>2. LeastClosed(F, Node, Done, Q)
  BY <1>1, QuiescentCloses DEF Closing
<1>3. LeastClosed(G, Node, Done', R)
  <2>1. TypeOK' => Closing'
    BY QuiescentCloses, PTL
  <2> QED
    BY <2>1 DEF Closing
<1>4. /\ n \in Ready(g) /\ n \notin Done /\ Done \subseteq Done'
      /\ Done' = IF outcome[n] = "ok" THEN Done \cup {n} ELSE Done
      /\ outcome[n] = "ok" \/ outcome[n] = "false" \/ outcome[n] = "raise"
  BY DoneGrows
<1>5. /\ UNCHANGED <<nodesOf, edgesOf, triggered, outcome>>
      /\ \A m \in Node \ {n} : state'[m] = state[m]
      /\ outcome[n] = "false" => state'[n] = "PENDING"
  BY <1>1, Executing, TickSteps
<1>6. ASSUME NEW D \in SUBSET Node, Done' \subseteq D
      PROVE  Fired(g, D)' = Fired(g, D)
  <2>1. ASSUME NEW m \in nodesOf[g]
        PROVE  m \in ReadySet(g, D)' /\ outcome'[m] # "raise" <=>
                 m \in ReadySet(g, D) /\ outcome[m] # "raise"
    <3>0. m \in Node
      BY <1>1, Typed
    <3>1. ActivationSatisfied(g, m, D)' = ActivationSatisfied(g, m, D)
      BY <1>5 DEF ActivationSatisfied, Preds
    <3>2. CASE m = n
      <4>1. CASE outcome[n] = "ok"
        BY <1>4, <1>6, <3>2, <4>1 DEF ReadySet
      <4>2. CASE outcome[n] = "false"
        <5>1. state[n] \in {"PENDING", "READY"} /\ state'[n] \in {"PENDING", "READY"}
          BY <1>4, <1>5, <4>2 DEF Ready
        <5> QED
          BY <1>5, <3>1, <3>2, <5>1 DEF ReadySet
      <4>3. CASE outcome[n] = "raise"
        BY <1>5, <3>2, <4>3
      <4> QED
        BY <1>4, <4>1, <4>2, <4>3
    <3>3. CASE m # n
      BY <1>5, <3>0, <3>1, <3>3 DEF ReadySet
    <3> QED
      BY <3>2, <3>3
  <2>2. nodesOf' = nodesOf
    BY <1>5
  <2> QED
    BY <2>1, <2>2 DEF Fired, ReadySet
<1>7. \A D \in SUBSET Node : F[D] = Fired(g, D) /\ G[D] = Fired(g, D)'
  BY DEF Fire
<1>8. n \in Node /\ outcome[n] = "ok" => n \in Q
  <2> SUFFICES ASSUME outcome[n] = "ok" PROVE n \in Q
    OBVIOUS
  <2>1. n \in Fired(g, Done)
    BY <1>4 DEF Ready, Fired, ReadySet, ActivationSatisfied
  <2>2. Done \in SUBSET Node /\ Q \in SUBSET Node /\ Done \subseteq Q /\ F[Q] = Q
    BY <1>2 DEF LeastClosed, Done
  <2>3. F[Done] \subseteq F[Q]
    <3> HIDE DEF F, Q
    <3>1. Grows(F, Node)
      BY <1>1, FireGrows DEF F
    <3> QED
      BY <2>2, <3>1 DEF Grows
  <2> QED
    BY <1>7, <2>1, <2>2, <2>3
<1>9. Done' \subseteq Q /\ Q \in SUBSET Node
  BY <1>2, <1>4, <1>8 DEF LeastClosed
<1>10. Done' \subseteq R /\ R \in SUBSET Node
  BY <1>3 DEF LeastClosed
<1>11. F[Q] = Q /\ G[Q] = Q /\ F[R] = R /\ G[R] = R
  BY <1>2, <1>3, <1>6, <1>7, <1>9, <1>10 DEF LeastClosed
<1> HIDE DEF F, G, Q, R
<1>12. R \subseteq Q /\ Q \subseteq R
  BY <1>2, <1>3, <1>4, <1>9, <1>10, <1>11 DEF LeastClosed
<1> QED
  BY <1>12 DEF Q, R

\* When a tick on graph g ends everything ready has been fired.
LEMMA ClosureReached ==
    ASSUME SInv, NEW g \in Graph, run.graph = g, EndTick
    PROVE  Done = Quiescent(g)
<1>1. TypeOK /\ Outcomes /\ RunOK
  BY DEF SInv
<1>2. LeastClosed(Fire(g), Node, Done, Quiescent(g))
  BY <1>1, QuiescentCloses DEF Closing
<1>3. ~Idle /\ Ready(g) \subseteq run.attempted
  BY DEF EndTick
<1>4. ASSUME NEW n \in ReadySet(g, Done), outcome[n] # "raise" PROVE FALSE
  <2>1. /\ n \in nodesOf[g] /\ state[n] \in {"PENDING", "READY"}
        /\ Preds(g, n) \subseteq Done /\ (n \in EventNode => triggered[n])
        /\ n \in ConditionNode => outcome[n] = "ok"
    BY <1>4 DEF ReadySet, ActivationSatisfied
  <2>2. n \in run.attempted
    BY <1>3, <2>1 DEF Ready
  <2>3. outcome[n] = "false"
    BY <1>1, <1>3, <2>1, <2>2 DEF RunOK
  <2>4. n \in Node
    BY <1>1, <2>1, Typed
  <2> QED
    BY <1>1, <2>1, <2>3, <2>4 DEF Outcomes, Node
<1>5. Fired(g, Done) = Done
  BY <1>4 DEF Fired
<1>6. Done \in SUBSET Node
  BY DEF Done
<1>7. Fire(g)[Done] = Done
  BY <1>5, <1>6 DEF Fire
<1> QED
  BY <1>2, <1>6, <1>7 DEF LeastClosed

\* A tick fires the transitive closure of the ready set, in whatever order the
\* waves are executed: that closure is the same after every step of the tick,
\* and it is what is DONE when the tick ends.
THEOREM TickFiresClosure == Spec => FiredIsClosure
<1>1. SInv /\ SInv' /\ [Next]_vars =>
        [\A g \in Graph : run.graph = g =>
           /\ Quiescent(g)' = Quiescent(g)
           /\ Idle' => Done = Quiescent(g)]_vars
  <2> SUFFICES ASSUME SInv, SInv', [Next]_vars, ~(UNCHANGED vars),
                      NEW g \in Graph, run.graph = g
               PROVE  Quiescent(g)' = Quiescent(g) /\ (Idle' => Done = Quiescent(g))
    OBVIOUS
  <2>1. TypeOK /\ TypeOK' /\ ~Idle
    BY GraphParameters DEF SInv, Idle
  <2>2. CASE NextWave
    <3>1. UNCHANGED <<nodesOf, edgesOf, state, triggered, outcome>> /\ run'.graph = run.graph
      BY <2>1, <2>2, Waving
    <3>2. Quiescent(g)' = Quiescent(g)
      BY <3>1 DEF Quiescent, Fired, ReadySet, ActivationSatisfied, Preds, Done
    <3> QED
      BY <2>1, <3>1, <3>2 DEF Idle
  <2>3. ASSUME NEW n \in Node, Execute(n)
        PROVE  Quiescent(g)' = Quiescent(g) /\ (Idle' => Done = Quiescent(g))
    <3>1. run'.graph = run.graph
      BY <2>1, <2>3, Executing
    <3> QED
      BY <2>1, <2>3, <3>1, ClosureStays DEF Idle
  <2>4. CASE EndTick
    <3>1. UNCHANGED <<nodesOf, edgesOf, state, triggered, outcome>>
      BY <2>4 DEF EndTick, graphVars
    <3>2. Quiescent(g)' = Quiescent(g)
      BY <3>1 DEF Quiescent, Fired, ReadySet, ActivationSatisfied, Preds, Done
    <3> QED
      BY <2>4, <3>2, ClosureReached
  <2> QED
    BY <2>1, <2>2, <2>3, <2>4, Steps DEF MakesGraph, Makes, Edits, Grown, Rewinds
<1> QED
  BY <1>1, SInvHolds, PTL DEF Spec, FiredIsClosure

-----------------------------------------------------------------------------
(* Graphs composed without a bridge.                                       *)

\* The parts of a graph composed without a bridge are graphs in use; neither
\* edited since, it has the nodes and edges of both.
UnionOf(m) ==
    made[m].how = "union" =>
        /\ made[m].parts \subseteq InUse
        /\ \A a, b \in Graph :
              made[m].parts = {a, b} /\ (\A g \in {m, a, b} : ~made[g].edited) =>
                 /\ nodesOf[m] = nodesOf[a] \cup nodesOf[b]
                 /\ edgesOf[m] = edgesOf[a] \cup edgesOf[b]

UnionOK == \A m \in Graph : UnionOf(m)

\* No step takes a graph out of use, and each keeps the structure of every graph
\* that it does not make or edit.
LEMMA UnionStep == TypeOK /\ UnionOK /\ [Next]_vars => UnionOK'
<1> SUFFICES ASSUME TypeOK, UnionOK, [Next]_vars, NEW m \in Graph
             PROVE  UnionOf(m)'
  BY DEF UnionOK
<1>0. UnionOf(m)
  BY DEF UnionOK
<1>1. CASE MakesGraph
  <2>1. PICK c \in Graph, N \in SUBSET Node : \E E \in SUBSET (N \X N), how \in How :
           Makes(c, N, E, how) /\ ~how.foreign /\ Combined(N, E, how)
    BY <1>1 DEF MakesGraph
  <2>2. PICK E \in SUBSET (N \X N), how \in How :
           Makes(c, N, E, how) /\ Combined(N, E, how)
    BY <2>1
  <2>3. /\ nodesOf[c] = {} /\ nodesOf'[c] = N /\ edgesOf'[c] = E /\ made'[c] = how
        /\ \A g \in Graph \ {c} : /\ nodesOf'[g] = nodesOf[g] /\ edgesOf'[g] = edgesOf[g]
                                  /\ made'[g] = made[g]
    BY <2>2, Typed DEF Makes
  <2>4. \A g \in InUse : /\ g \in Graph /\ g # c /\ nodesOf'[g] = nodesOf[g]
                         /\ edgesOf'[g] = edgesOf[g] /\ made'[g] = made[g]
                         /\ nodesOf'[g] # {}
    BY <2>3 DEF InUse
  <2>5. CASE m = c
    <3>1. SUFFICES ASSUME how.how = "union" PROVE UnionOf(m)'
      BY <2>3, <2>5 DEF UnionOf
    <3>2. PICK x, y \in InUse : /\ how.parts = {x, y}
                               /\ N = nodesOf[x] \cup nodesOf[y]
                               /\ E = edgesOf[x] \cup edgesOf[y]
      BY <2>2, <3>1 DEF Combined
    <3>3. \A a, b \in Graph : how.parts = {a, b} => (a = x /\ b = y) \/ (a = y /\ b = x)
      BY <3>2
    <3>4. /\ nodesOf'[m] = nodesOf'[x] \cup nodesOf'[y]
          /\ edgesOf'[m] = edgesOf'[x] \cup edgesOf'[y]
          /\ x \in InUse' /\ y \in InUse' /\ made'[m].parts = {x, y}
      BY <2>3, <2>4, <2>5, <3>2 DEF InUse
    <3>5. made'[m].parts \subseteq InUse'
      BY <3>4
    <3>6. ASSUME NEW a \in Graph, NEW b \in Graph, made'[m].parts = {a, b}
          PROVE  /\ nodesOf'[m] = nodesOf'[a] \cup nodesOf'[b]
                 /\ edgesOf'[m] = edgesOf'[a] \cup edgesOf'[b]
      BY <2>3, <2>5, <3>3, <3>4, <3>6
    <3> QED
      BY <3>5, <3>6 DEF UnionOf
  <2>6. CASE m # c
    <3>1. made'[m] = made[m] /\ nodesOf'[m] = nodesOf[m] /\ edgesOf'[m] = edgesOf[m]
      BY <2>3, <2>6
    <3>2. InUse \subseteq InUse'
      BY <2>4 DEF InUse
    <3>3. ASSUME made[m].how = "union", NEW a \in Graph, NEW b \in Graph,
                 made[m].parts = {a, b}, \A g \in {m, a, b} : ~made'[g].edited
          PROVE  /\ nodesOf'[m] = nodesOf'[a] \cup nodesOf'[b]
                 /\ edgesOf'[m] = edgesOf'[a] \cup edgesOf'[b]
      <4>1. a \in InUse /\ b \in InUse
        BY <1>0, <3>3 DEF UnionOf
      <4> QED
        BY <1>0, <2>4, <3>1, <3>3, <4>1 DEF UnionOf
    <3> QED
      BY <1>0, <3>1, <3>2, <3>3 DEF UnionOf
  <2> QED
    BY <2>5, <2>6
<1>2. CASE Edits
  <2>1. PICK c \in Graph, N \in SUBSET Node, E \in SUBSET (Node \X Node) : Grown(c, N, E)
    BY <1>2 DEF Edits
  <2>2. /\ nodesOf'[c] = nodesOf[c] \cup N /\ made'[c].edited
        /\ made'[c].how = made[c].how /\ made'[c].parts = made[c].parts
        /\ \A g \in Graph \ {c} : /\ nodesOf'[g] = nodesOf[g] /\ edgesOf'[g] = edgesOf[g]
                                  /\ made'[g] = made[g]
    BY <2>1, Typed DEF Grown
  <2>3. InUse \subseteq InUse'
    BY <2>2 DEF InUse
  <2>4. made'[m].how = made[m].how /\ made'[m].parts = made[m].parts
    BY <2>2
  <2>5. ASSUME made[m].how = "union", NEW a \in Graph, NEW b \in Graph,
               made[m].parts = {a, b}, \A g \in {m, a, b} : ~made'[g].edited
        PROVE  /\ nodesOf'[m] = nodesOf'[a] \cup nodesOf'[b]
               /\ edgesOf'[m] = edgesOf'[a] \cup edgesOf'[b]
    BY <1>0, <2>2, <2>5 DEF UnionOf
  <2> QED
    BY <1>0, <2>3, <2>4, <2>5 DEF UnionOf
<1>3. CASE UNCHANGED <<nodesOf, edgesOf>> /\ \A g \in Graph :
             /\ made'[g].how = made[g].how /\ made'[g].parts = made[g].parts
             /\ made'[g].edited = made[g].edited
  <2>1. InUse' = InUse
    BY <1>3 DEF InUse
  <2> QED
    BY <1>0, <1>3, <2>1 DEF UnionOf
<1>4. ASSUME NEW n \in Node, Execute(n) PROVE UnionOf(m)'
  <2>1. \A g \in Graph : /\ made'[g].how = made[g].how /\ made'[g].parts = made[g].parts
                         /\ made'[g].edited = made[g].edited
    BY <1>4, Executing, Zenon
  <2>2. UNCHANGED <<nodesOf, edgesOf>>
    BY <1>4, TickSteps
  <2> QED
    BY <1>3, <2>1, <2>2
<1>5. CASE Rewinds \/ NextWave \/ EndTick \/ UNCHANGED vars
  BY <1>3, <1>5 DEF Rewinds, NextWave, EndTick, vars, graphVars
<1> QED
  BY <1>1, <1>2, <1>4, <1>5, Steps

\* A graph fires its own nodes only, and looks at no others.
LEMMA FiresOwn ==
    ASSUME TypeOK, NEW g \in Graph
    PROVE  Quiescent(g) \subseteq Done \cup nodesOf[g]
<1> DEFINE B == Done \cup nodesOf[g]
<1>1. LeastClosed(Fire(g), Node, Done, Quiescent(g))
  BY QuiescentCloses DEF Closing
<1>2. B \in SUBSET Node
  BY Typed
<1>3. Fired(g, B) = B
  BY DEF Fired, ReadySet
<1>4. Fire(g)[B] = B
  BY <1>2, <1>3 DEF Fire
<1> QED
  BY <1>1, <1>2, <1>4 DEF LeastClosed

\* Disjoint graphs together fire what each of them fires.
LEMMA UnionFires ==
    ASSUME TypeOK, NEW m \in Graph, NEW a \in Graph, NEW b \in Graph,
           nodesOf[m] = nodesOf[a] \cup nodesOf[b],
           edgesOf[m] = edgesOf[a] \cup edgesOf[b],
           nodesOf[a] \cap nodesOf[b] = {},
           NEW D \in SUBSET Node
    PROVE  Fired(m, D) = Fired(a, D) \cup Fired(b, D)
<1>1. /\ edgesOf[a] \subseteq nodesOf[a] \X nodesOf[a]
      /\ edgesOf[b] \subseteq nodesOf[b] \X nodesOf[b]
  BY Typed
<1>2. \A n \in nodesOf[a] : Preds(m, n) = Preds(a, n)
  BY <1>1 DEF Preds
<1>3. \A n \in nodesOf[b] : Preds(m, n) = Preds(b, n)
  BY <1>1 DEF Preds
<1>4. ReadySet(m, D) = ReadySet(a, D) \cup ReadySet(b, D)
  BY <1>2, <1>3 DEF ReadySet, ActivationSatisfied
<1> QED
  BY <1>4 DEF Fired

\* And what one of them comes to is nothing to the other.
LEMMA OtherFiresNot ==
    ASSUME TypeOK, NEW a \in Graph, NEW b \in Graph, nodesOf[a] \cap nodesOf[b] = {}
    PROVE  Fired(a, Quiescent(a) \cup Quiescent(b)) \subseteq Quiescent(a) \cup Quiescent(b)
<1> DEFINE Q == Quiescent(a)
           R == Quiescent(b)
<1>1. LeastClosed(Fire(a), Node, Done, Q) /\ R \subseteq Done \cup nodesOf[b]
  BY QuiescentCloses, FiresOwn DEF Closing
<1>2. Q \in SUBSET Node /\ Done \subseteq Q /\ Fired(a, Q) = Q
  BY <1>1 DEF LeastClosed, Fire
<1> HIDE DEF Q, R
<1>3. ASSUME NEW n \in ReadySet(a, Q \cup R), outcome[n] # "raise", n \notin Q
      PROVE  n \in ReadySet(a, Q)
  <2>1. Preds(a, n) \subseteq Q
    BY <1>1, <1>2, <1>3 DEF ReadySet, ActivationSatisfied, Preds
  <2> QED
    BY <1>3, <2>1 DEF ReadySet, ActivationSatisfied
<1>4. Fired(a, Q \cup R) \subseteq Q \cup R
  BY <1>2, <1>3 DEF Fired
<1> QED
  BY <1>4 DEF Q, R

\* "the sub-graphs execute independently inside the meta-graph": composed of
\* disjoint graphs without a bridge, a graph comes to rest where ticks on the
\* parts, each by itself, would have left them.
THEOREM PartsAreIndependent == Spec => []PartsStayIndependent
<1>1. TypeOK /\ UnionOK => PartsStayIndependent
  <2> SUFFICES ASSUME TypeOK, UnionOK, NEW m \in Graph, NEW a \in Graph, NEW b \in Graph,
                      made[m].how = "union", made[m].parts = {a, b},
                      nodesOf[a] \cap nodesOf[b] = {},
                      \A g \in {m, a, b} : ~made[g].edited
               PROVE  Quiescent(m) = Quiescent(a) \cup Quiescent(b)
    BY DEF PartsStayIndependent
  <2> DEFINE P == Quiescent(m)
             Q == Quiescent(a)
             R == Quiescent(b)
  <2>1. nodesOf[m] = nodesOf[a] \cup nodesOf[b] /\ edgesOf[m] = edgesOf[a] \cup edgesOf[b]
    BY DEF UnionOK, UnionOf
  <2>2. /\ LeastClosed(Fire(m), Node, Done, P)
        /\ LeastClosed(Fire(a), Node, Done, Q)
        /\ LeastClosed(Fire(b), Node, Done, R)
    BY QuiescentCloses DEF Closing
  <2>3. /\ Fired(a, Q \cup R) \subseteq Q \cup R
        /\ Fired(b, R \cup Q) \subseteq R \cup Q
    BY OtherFiresNot
  <2>4. \A D \in SUBSET Node : Fired(m, D) = Fired(a, D) \cup Fired(b, D)
    BY <2>1, UnionFires
  <2> HIDE DEF P, Q, R
  <2>5. /\ P \in SUBSET Node /\ Done \subseteq P /\ Fired(m, P) = P
        /\ Q \in SUBSET Node /\ Done \subseteq Q /\ R \in SUBSET Node
    BY <2>2 DEF LeastClosed, Fire
  <2>6. Fire(m)[Q \cup R] = Q \cup R
    <3> DEFINE B == Q \cup R
    <3>0. B = R \cup Q /\ B \in SUBSET Node
      BY <2>5
    <3>1. Fired(a, B) \subseteq B /\ Fired(b, B) \subseteq B /\ B \subseteq Fired(a, B)
      BY <2>3, <3>0 DEF Fired
    <3>2. Fired(m, B) = B
      <4> HIDE DEF B
      <4> QED
        BY <2>4, <3>0, <3>1
    <3> QED
      BY <2>5, <3>2 DEF Fire
  <2>7. P \subseteq Q \cup R
    BY <2>2, <2>5, <2>6 DEF LeastClosed
  <2>8. Fire(a)[P] = P /\ Fire(b)[P] = P
    <3>1. Fired(a, P) = P /\ Fired(b, P) = P
      BY <2>4, <2>5 DEF Fired
    <3> QED
      BY <2>5, <3>1 DEF Fire
  <2>9. Q \subseteq P /\ R \subseteq P
    BY <2>2, <2>5, <2>8 DEF LeastClosed
  <2>10. P = Q \cup R
    BY <2>7, <2>9
  <2> QED
    BY <2>10 DEF P, Q, R
<1>2. Init => UnionOK
  BY DEF Init, UnionOK, UnionOf, Fresh
<1>3. Spec => []UnionOK
  BY <1>2, UnionStep, GraphTypes, PTL DEF Spec
<1> QED
  BY <1>1, <1>3, GraphTypes, PTL

-----------------------------------------------------------------------------
(* Graphs composed in sequence.                                            *)

\* T has every cause, by the edges of E, of the nodes it has.
HasCauses(T, E) == \A e \in E : e[2] \in T => e[1] \in T

\* Edges E make the nodes of down wait for the nodes of up: the nodes of a set L
\* that the nodes of up lead to come before some of a set B, and each other one
\* of B, which has those of down, has a cause in B.
MakesWait(E, up, down) ==
    \E L, B \in SUBSET Node :
        /\ \A T \in SUBSET Node : L \subseteq T /\ HasCauses(T, E) => up \subseteq T
        /\ down \subseteq B
        /\ \A x \in B : \/ \A l \in L : <<l, x>> \in E
                        \/ \E p \in B : <<p, x>> \in E

\* The nodes before the i-th entry of a sequence.
Before(s, i) == {s[j] : j \in {k \in DOMAIN s : k < i}}

\* Every entry of a sequence has its causes, by the edges of E, before it.
CausesFirst(s, E) ==
    \A i \in DOMAIN s : \A e \in E : e[2] = s[i] => e[1] \in Before(s, i)

\* If a history has causes first then down waits for up in it.
LEMMA WaitingShows ==
    ASSUME NEW E \in SUBSET (Node \X Node), NEW up \in SUBSET Node, NEW down \in SUBSET Node,
           NEW s \in Seq(Node), MakesWait(E, up, down), CausesFirst(s, E),
           NEW i \in DOMAIN s, s[i] \in down
    PROVE  up \subseteq Before(s, i)
<1>1. PICK L \in SUBSET Node, B \in SUBSET Node :
         /\ \A T \in SUBSET Node : L \subseteq T /\ HasCauses(T, E) => up \subseteq T
         /\ down \subseteq B
         /\ \A x \in B : \/ \A l \in L : <<l, x>> \in E
                         \/ \E p \in B : <<p, x>> \in E
  BY DEF MakesWait
<1> DEFINE P == {k \in DOMAIN s : s[k] \in B}
<1>2. DOMAIN s \subseteq Nat /\ \A k \in DOMAIN s : s[k] \in Node
  OBVIOUS
<1>3. P \subseteq Nat /\ i \in P
  BY <1>1, <1>2
<1>4. PICK k \in P : \A j \in P : k <= j
  <2> HIDE DEF P
  <2> QED
    BY <1>3, LeastNumber
<1>5. ~ \E p \in B : <<p, s[k]>> \in E
  <2> SUFFICES ASSUME NEW p \in B, <<p, s[k]>> \in E PROVE FALSE
    OBVIOUS
  <2>1. p \in Before(s, k)
    <3>1. <<p, s[k]>>[2] = s[k] /\ <<p, s[k]>>[1] = p
      OBVIOUS
    <3> QED
      BY <1>4, <3>1 DEF CausesFirst
  <2>2. PICK j \in DOMAIN s : j < k /\ s[j] = p
    BY <2>1 DEF Before
  <2> QED
    BY <1>2, <1>4, <2>2
<1>6. \A l \in L : <<l, s[k]>> \in E
  BY <1>1, <1>4, <1>5
<1>7. L \subseteq Before(s, k)
  <2> SUFFICES ASSUME NEW l \in L PROVE l \in Before(s, k)
    OBVIOUS
  <2>1. <<l, s[k]>> \in E /\ <<l, s[k]>>[2] = s[k] /\ <<l, s[k]>>[1] = l
    BY <1>6
  <2> QED
    BY <1>4, <2>1 DEF CausesFirst
<1>8. Before(s, k) \subseteq Before(s, i) /\ Before(s, i) \in SUBSET Node
  BY <1>2, <1>3, <1>4 DEF Before
<1>9. HasCauses(Before(s, i), E)
  <2> SUFFICES ASSUME NEW e \in E, e[2] \in Before(s, i) PROVE e[1] \in Before(s, i)
    BY DEF HasCauses
  <2>1. PICK j \in DOMAIN s : j < i /\ s[j] = e[2]
    BY DEF Before
  <2>2. e[1] \in Before(s, j)
    BY <2>1 DEF CausesFirst
  <2>3. Before(s, j) \subseteq Before(s, i)
    BY <1>2, <2>1 DEF Before
  <2> QED
    BY <2>2, <2>3
<1> QED
  BY <1>1, <1>7, <1>8, <1>9

\* What can be reached from a node is the least set that has its successors and
\* their successors.
LEMMA ReachableLeast ==
    ASSUME TypeOK, NEW g \in Graph, NEW n
    PROVE  /\ Reachable(g, n) \in SUBSET nodesOf[g] /\ Succs(g, n) \subseteq Reachable(g, n)
           /\ \A x \in Reachable(g, n) : Succs(g, x) \subseteq Reachable(g, n)
           /\ \A B \in SUBSET nodesOf[g] :
                 Succs(g, n) \subseteq B /\ (\A x \in B : Succs(g, x) \subseteq B)
                    => Reachable(g, n) \subseteq B
<1> DEFINE N == nodesOf[g]
           F == [S \in SUBSET N |-> Onward(g, S)]
           Is(f) == f = [S \in SUBSET N |->
                           IF Onward(g, S) = S THEN S ELSE f[Onward(g, S)]]
           visit == CHOOSE f : Is(f)
<1>1. IsFiniteSet(N)
  BY GraphParameters, Typed, FS_Subset
<1>2. Grows(F, N)
  <2>1. \A S \in SUBSET N : Onward(g, S) \in SUBSET N /\ S \subseteq Onward(g, S)
    BY DEF Onward, Succs
  <2>2. \A S, U \in SUBSET N : S \subseteq U => Onward(g, S) \subseteq Onward(g, U)
    BY DEF Onward
  <2> QED
    BY <2>1, <2>2 DEF Grows
<1>3. \A f : Is(f) <=> Iterates(f, F, N)
  BY DEF Iterates
<1>4. \E f : Is(f)
  <2> HIDE DEF Is, F
  <2>1. PICK f : Iterates(f, F, N)
    BY <1>2, IterationExists
  <2> QED
    BY <1>3, <2>1
<1>5. Is(visit)
  <2> HIDE DEF Is
  <2> QED
    BY <1>4
<1>6. Iterates(visit, F, N)
  BY <1>3, <1>5
<1>7. Reachable(g, n) = visit[Succs(g, n)]
  BY DEF Reachable
<1> HIDE DEF visit
<1>8. Succs(g, n) \in SUBSET N
  BY DEF Succs
<1>9. LeastClosed(F, N, Succs(g, n), visit[Succs(g, n)])
  <2> HIDE DEF F, N
  <2> QED
    BY <1>1, <1>2, <1>6, <1>8, IterationCloses
<1>10. ASSUME NEW B \in SUBSET N
       PROVE  F[B] = B <=> \A x \in B : Succs(g, x) \subseteq B
  BY DEF Onward
<1> HIDE DEF F
<1>11. /\ Reachable(g, n) \in SUBSET N /\ Succs(g, n) \subseteq Reachable(g, n)
       /\ F[Reachable(g, n)] = Reachable(g, n)
       /\ \A B \in SUBSET N : Succs(g, n) \subseteq B /\ F[B] = B => Reachable(g, n) \subseteq B
  BY <1>7, <1>9 DEF LeastClosed
<1> QED
  BY <1>10, <1>11

\* Nothing in T can be reached from outside T, if no edge leads into it.
LEMMA ReachableCloses ==
    ASSUME TypeOK, NEW g \in Graph, NEW n \in nodesOf[g],
           NEW T, \A x \in nodesOf[g], y \in T : <<x, y>> \in edgesOf[g] => x \in T,
           n \notin T
    PROVE  Reachable(g, n) \cap T = {}
<1> DEFINE B == nodesOf[g] \ T
<1>1. \A x \in B : Succs(g, x) \subseteq B
  BY DEF Succs
<1>2. Succs(g, n) \subseteq B /\ B \in SUBSET nodesOf[g]
  BY <1>1
<1>3. Reachable(g, n) \subseteq B
  BY <1>1, <1>2, ReachableLeast
<1> QED
  BY <1>3

\* Every leaf of a before every root of b: then what is only in b waits for what
\* leads to a leaf of a.
LEMMA SequenceMakesWait ==
    ASSUME TypeOK, NEW a \in Graph, NEW b \in Graph
    PROVE  MakesWait(edgesOf[a] \cup edgesOf[b] \cup (Leaves(a) \X Roots(b)),
                     Upstream(a), nodesOf[b] \ nodesOf[a])
<1> DEFINE E == edgesOf[a] \cup edgesOf[b] \cup (Leaves(a) \X Roots(b))
           L == Leaves(a)
           B == nodesOf[b]
<1>1. L \in SUBSET Node /\ B \in SUBSET Node
  BY Typed DEF Leaves
<1>2. ASSUME NEW T \in SUBSET Node, L \subseteq T, HasCauses(T, E), NEW n \in Upstream(a)
      PROVE  n \in T
  <2> SUFFICES ASSUME n \notin T PROVE FALSE
    OBVIOUS
  <2>1. n \in nodesOf[a] /\ ({n} \cup Reachable(a, n)) \cap L # {}
    BY DEF Upstream
  <2>2. \A x \in nodesOf[a], y \in T : <<x, y>> \in edgesOf[a] => x \in T
    <3> SUFFICES ASSUME NEW x \in nodesOf[a], NEW y \in T, <<x, y>> \in edgesOf[a]
                 PROVE  x \in T
      OBVIOUS
    <3>1. <<x, y>> \in E /\ <<x, y>>[1] = x /\ <<x, y>>[2] = y
      OBVIOUS
    <3> QED
      BY <1>2, <3>1 DEF HasCauses
  <2>3. Reachable(a, n) \cap T = {}
    BY <2>1, <2>2, ReachableCloses
  <2> QED
    BY <1>2, <2>1, <2>3
<1>3. ASSUME NEW x \in B
      PROVE  (\A l \in L : <<l, x>> \in E) \/ (\E p \in B : <<p, x>> \in E)
  <2>1. CASE Preds(b, x) = {}
    BY <2>1 DEF Roots
  <2>2. CASE Preds(b, x) # {}
    BY <2>2 DEF Preds
  <2> QED
    BY <2>1, <2>2
<1> HIDE DEF E, L, B
<1>4. \A T \in SUBSET Node : L \subseteq T /\ HasCauses(T, E) => Upstream(a) \subseteq T
  BY <1>2
<1>5. nodesOf[b] \ nodesOf[a] \subseteq B
  BY DEF B
<1>6. MakesWait(E, Upstream(a), nodesOf[b] \ nodesOf[a])
  BY <1>1, <1>3, <1>4, <1>5 DEF MakesWait
<1> QED
  BY <1>6 DEF E

\* Some edges of m, a graph composed in sequence, make its second part wait for
\* its first; its history has causes first, by these edges.
SequenceOf(m) ==
    made[m].how = "sequential" /\ made[m].clean /\ ~made[m].foreign =>
        \E E \in SUBSET edgesOf[m] :
            MakesWait(E, made[m].up, made[m].down) /\ CausesFirst(log[m], E)

SequenceOK == \A m \in Graph : SequenceOf(m)

\* Entries of a sequence keep what is before them when one is put behind it, and
\* this one has all of them before it.
LEMMA CausesStayFirst ==
    ASSUME NEW E \in SUBSET (Node \X Node), NEW s \in Seq(Node), NEW n \in Node,
           CausesFirst(s, E), \A e \in E : e[2] = n => e[1] \in Logged(s)
    PROVE  CausesFirst(Append(s, n), E)
<1> DEFINE t == Append(s, n)
<1>1. /\ Len(s) \in Nat /\ DOMAIN s = 1 .. Len(s) /\ DOMAIN t = 1 .. (Len(s) + 1)
      /\ t[Len(s) + 1] = n /\ \A i \in 1 .. Len(s) : t[i] = s[i]
  BY LogFacts
<1> HIDE DEF t
<1>2. SUFFICES ASSUME NEW i \in DOMAIN t, NEW e \in E, e[2] = t[i]
               PROVE  e[1] \in Before(t, i)
  BY DEF CausesFirst, t
<1>3. CASE i = Len(s) + 1
  <2>1. PICK j \in DOMAIN s : s[j] = e[1]
    BY <1>1, <1>2, <1>3 DEF Logged
  <2> QED
    BY <1>1, <1>3, <2>1 DEF Before
<1>4. CASE i # Len(s) + 1
  <2>1. i \in DOMAIN s /\ t[i] = s[i]
    BY <1>1, <1>4
  <2>2. PICK j \in DOMAIN s : j < i /\ s[j] = e[1]
    BY <1>2, <2>1 DEF CausesFirst, Before
  <2> QED
    BY <1>1, <2>2 DEF Before
<1> QED
  BY <1>3, <1>4

\* The edges of a graph are never fewer, and its history, unless it is cleared,
\* gets only nodes whose causes it shows already.
LEMMA SequenceStep == SInv /\ SequenceOK /\ [Next]_vars => SequenceOK'
<1> SUFFICES ASSUME SInv, SequenceOK, [Next]_vars, NEW m \in Graph,
                    made'[m].how = "sequential", made'[m].clean, ~made'[m].foreign
             PROVE  \E E \in SUBSET edgesOf'[m] :
                       MakesWait(E, made'[m].up, made'[m].down) /\ CausesFirst(log'[m], E)
  BY DEF SequenceOK, SequenceOf
<1>0. TypeOK /\ UnusedOK /\ HistoryShowsDone
  BY DEF SInv
<1>1. \A E : CausesFirst(<<>>, E)
  BY DEF CausesFirst
<1>2. ASSUME made[m].how = "sequential", made[m].clean, ~made[m].foreign,
             made'[m].up = made[m].up, made'[m].down = made[m].down,
             edgesOf[m] \subseteq edgesOf'[m], log'[m] = log[m] \/ log'[m] = <<>>
      PROVE  \E E \in SUBSET edgesOf'[m] :
                MakesWait(E, made'[m].up, made'[m].down) /\ CausesFirst(log'[m], E)
  <2>1. PICK E \in SUBSET edgesOf[m] :
           MakesWait(E, made[m].up, made[m].down) /\ CausesFirst(log[m], E)
    BY <1>2 DEF SequenceOK, SequenceOf
  <2> QED
    BY <1>1, <1>2, <2>1
<1>3. CASE MakesGraph
  <2>1. PICK c \in Graph, N \in SUBSET Node : \E E \in SUBSET (N \X N), how \in How :
           Makes(c, N, E, how) /\ ~how.foreign /\ Combined(N, E, how)
    BY <1>3 DEF MakesGraph
  <2>2. PICK E \in SUBSET (N \X N), how \in How :
           Makes(c, N, E, how) /\ Combined(N, E, how)
    BY <2>1
  <2>3. /\ nodesOf[c] = {} /\ edgesOf'[c] = E /\ made'[c] = how /\ log' = log
        /\ \A g \in Graph \ {c} : edgesOf'[g] = edgesOf[g] /\ made'[g] = made[g]
    BY <1>0, <2>2, Typed DEF Makes
  <2>4. CASE m = c
    <3>1. PICK a, b \in InUse :
             /\ how.up = Upstream(a) /\ how.down = nodesOf[b] \ nodesOf[a]
             /\ E = edgesOf[a] \cup edgesOf[b] \cup (Leaves(a) \X Roots(b))
      BY <2>2, <2>3, <2>4 DEF Combined
    <3>2. a \in Graph /\ b \in Graph
      BY DEF InUse
    <3>3. MakesWait(E, how.up, how.down)
      BY <1>0, <3>1, <3>2, SequenceMakesWait
    <3>4. log'[m] = <<>>
      BY <1>0, <2>3, <2>4 DEF UnusedOK
    <3> QED
      BY <1>1, <2>3, <2>4, <3>3, <3>4
  <2>5. CASE m # c
    BY <1>2, <2>3, <2>5
  <2> QED
    BY <2>4, <2>5
<1>4. CASE Edits
  <2>1. PICK c \in Graph, N \in SUBSET Node, E \in SUBSET (Node \X Node) : Grown(c, N, E)
    BY <1>4 DEF Edits
  <2>2. /\ log' = log /\ edgesOf[m] \subseteq edgesOf'[m]
        /\ made'[m].up = made[m].up /\ made'[m].down = made[m].down
        /\ made[m].how = "sequential" /\ made[m].clean /\ ~made[m].foreign
    <3>1. CASE m = c
      BY <1>0, <2>1, <3>1, Typed DEF Grown
    <3>2. CASE m # c
      BY <1>0, <2>1, <3>2, Typed DEF Grown
    <3> QED
      BY <3>1, <3>2
  <2> QED
    BY <1>2, <2>2
<1>5. CASE Rewinds
  BY <1>2, <1>5 DEF Rewinds, graphVars
<1>6. ASSUME NEW n \in Node, Execute(n)
      PROVE  \E E \in SUBSET edgesOf'[m] :
                MakesWait(E, made'[m].up, made'[m].down) /\ CausesFirst(log'[m], E)
  <2>1. /\ made[m].how = "sequential" /\ made[m].clean
        /\ made'[m].up = made[m].up /\ made'[m].down = made[m].down
    BY <1>0, <1>6, Executing, Zenon
  <2>2. ~made[m].foreign
    <3>1. made'[m].foreign = (made[m].foreign \/ (m # run.graph /\ n \in nodesOf[m]))
      BY <1>0, <1>6, Executing, Zenon
    <3> QED
      BY <3>1, Zenon
  <2>3. edgesOf' = edgesOf
    BY <1>0, <1>6, TickSteps
  <2>4. log'[m] = IF m = run.graph /\ outcome[n] = "ok" THEN Append(log[m], n) ELSE log[m]
    <3>1. \A g \in Graph : log'[g] = IF g = run.graph /\ outcome[n] = "ok"
                                   THEN Append(log[g], n) ELSE log[g]
      BY <1>0, <1>6, Executing, Zenon
    <3> QED
      BY <3>1, Zenon
  <2>5. CASE log'[m] = log[m]
    BY <1>2, <2>1, <2>2, <2>3, <2>5
  <2>6. CASE m = run.graph /\ log'[m] = Append(log[m], n)
    <3>1. PICK E \in SUBSET edgesOf[m] :
             MakesWait(E, made[m].up, made[m].down) /\ CausesFirst(log[m], E)
      BY <2>1, <2>2 DEF SequenceOK, SequenceOf
    <3>2. n \in Ready(m)
      BY <1>6, <2>6, DoneGrows
    <3>3. nodesOf[m] \cap Done \subseteq Logged(log[m])
      BY <1>0, <2>1, <2>2 DEF HistoryShowsDone, Logged
    <3>4. ASSUME NEW e \in E, e[2] = n PROVE e[1] \in Logged(log[m])
      <4>1. edgesOf[m] \subseteq nodesOf[m] \X nodesOf[m]
        BY <1>0, Typed
      <4>2. PICK x \in nodesOf[m], y \in nodesOf[m] : e = <<x, y>>
        BY <4>1
      <4>3. x \in Preds(m, n)
        BY <3>4, <4>2 DEF Preds
      <4> QED
        BY <3>2, <3>3, <4>2, <4>3 DEF Ready
    <3>5. E \in SUBSET (Node \X Node) /\ log[m] \in Seq(Node)
      BY <1>0, Typed
    <3>6. CausesFirst(log'[m], E)
      BY <2>6, <3>1, <3>4, <3>5, CausesStayFirst
    <3> QED
      BY <2>1, <2>3, <3>1, <3>6
  <2> QED
    BY <2>4, <2>5, <2>6
<1>7. CASE NextWave \/ EndTick \/ UNCHANGED vars
  BY <1>2, <1>7 DEF NextWave, EndTick, vars, graphVars
<1> QED
  BY <1>0, <1>3, <1>4, <1>5, <1>6, <1>7, Steps

\* "Graph B executes only after Graph A has fully completed": in the history of a
\* graph composed in sequence a node of the second part comes after every node
\* that leads to a leaf of the first, whatever was reset, triggered, added, failed
\* or ticked in between.
THEOREM SequenceHolds == Spec => []DownstreamWaits
<1>1. SInv /\ SequenceOK => DownstreamWaits
  <2> SUFFICES ASSUME SInv, SequenceOK, NEW m \in Graph,
                      made[m].how = "sequential", made[m].clean, ~made[m].foreign,
                      NEW i \in DOMAIN log[m], log[m][i] \in made[m].down,
                      NEW n \in made[m].up
               PROVE  \E j \in 1 .. (i - 1) : log[m][j] = n
    BY DEF DownstreamWaits
  <2>1. TypeOK
    BY DEF SInv
  <2>2. PICK E \in SUBSET edgesOf[m] :
           MakesWait(E, made[m].up, made[m].down) /\ CausesFirst(log[m], E)
    BY DEF SequenceOK, SequenceOf
  <2>3. /\ E \in SUBSET (Node \X Node) /\ log[m] \in Seq(Node)
        /\ made[m].up \in SUBSET Node /\ made[m].down \in SUBSET Node
    BY <2>1, Typed DEF How
  <2>4. made[m].up \subseteq Before(log[m], i)
    BY <2>2, <2>3, WaitingShows
  <2>5. PICK j \in DOMAIN log[m] : j < i /\ log[m][j] = n
    BY <2>4 DEF Before
  <2>6. DOMAIN log[m] = 1 .. Len(log[m]) /\ Len(log[m]) \in Nat
    BY <2>3
  <2> QED
    BY <2>5, <2>6
<1>2. Init => SequenceOK
  BY DEF Init, SequenceOK, SequenceOf, Fresh
<1>3. Spec => []SequenceOK
  BY <1>2, SequenceStep, SInvHolds, PTL DEF Spec
<1> QED
  BY <1>1, <1>3, SInvHolds, PTL

-----------------------------------------------------------------------------
(* Depth.                                                                  *)

\* Of some nodes that are not below a cycle one has no cause among them.
LEMMA SomeFirst ==
    ASSUME TypeOK, NEW g \in Graph, NEW T \in SUBSET Layered(g), T # {}
    PROVE  \E m \in T : Preds(g, m) \cap T = {}
<1> SUFFICES ASSUME \A m \in T : Preds(g, m) \cap T # {} PROVE FALSE
  OBVIOUS
<1> DEFINE N == nodesOf[g]
           Rest == {N \ Reachable(g, m) : m \in T}
           R == StrictSubsetOrdering(N)
           S == FiniteSubsetsOf(N)
<1>1. IsFiniteSet(N) /\ T \subseteq N
  BY GraphParameters, Typed, FS_Subset DEF Layered
<1>2. IsWellFoundedOn(R, S)
  BY FS_StrictSubsetOrderingWellFounded
<1>3. Rest \subseteq S /\ Rest # {}
  <2>1. \A m \in T : IsFiniteSet(N \ Reachable(g, m))
    BY <1>1, FS_Subset
  <2> QED
    BY <2>1 DEF FiniteSubsetsOf
<1>4. PICK A \in Rest : \A B \in Rest : ~ (<<B, A>> \in R)
  <2> HIDE DEF R, S, Rest
  <2> QED
    BY <1>2, <1>3, WFMin
<1>5. PICK m \in T : A = N \ Reachable(g, m)
  OBVIOUS
<1>6. PICK p \in T : p \in Preds(g, m)
  OBVIOUS
<1>7. m \in Succs(g, p) /\ m \in N
  BY <1>1, <1>6 DEF Preds, Succs
<1>8. /\ m \in Reachable(g, p) /\ Succs(g, m) \subseteq Reachable(g, p)
      /\ Reachable(g, p) \in SUBSET N
      /\ \A x \in Reachable(g, p) : Succs(g, x) \subseteq Reachable(g, p)
  BY <1>7, ReachableLeast
<1>9. Reachable(g, m) \subseteq Reachable(g, p)
  BY <1>8, ReachableLeast
<1>10. m \notin Reachable(g, m)
  BY <1>7 DEF Layered, DepthDefined
<1>11. <<N \ Reachable(g, p), N \ Reachable(g, m)>> \in R
  BY <1>7, <1>8, <1>9, <1>10 DEF StrictSubsetOrdering
<1> QED
  BY <1>4, <1>5, <1>11

\* What is above a node that is not below a cycle is not below one either.
LEMMA LayeredAbove ==
    ASSUME TypeOK, NEW g \in Graph, NEW n \in Layered(g), NEW p \in Preds(g, n)
    PROVE  p \in Layered(g)
<1>1. p \in nodesOf[g] /\ n \in Succs(g, p) /\ n \in nodesOf[g]
  BY DEF Preds, Succs, Layered
<1>2. \A q \in nodesOf[g] : q = p \/ p \in Reachable(g, q) => n \in Reachable(g, q)
  BY <1>1, ReachableLeast
<1> QED
  BY <1>1, <1>2 DEF Layered, DepthDefined

\* f counts the nodes of C, none beyond k: one more than the last of its causes.
Deepens(g, f, C, k) ==
    /\ f \in [C -> 0 .. k]
    /\ \A m \in C :
          /\ Preds(g, m) = {} => f[m] = 0
          /\ Preds(g, m) # {} => \E p \in Preds(g, m) : f[m] = f[p] + 1
          /\ \A p \in Preds(g, m) : f[p] + 1 <= f[m]

\* The set C has the causes of its nodes, and they can be counted.
Countable(g, C) ==
    /\ \A m \in C : Preds(g, m) \subseteq C
    /\ \E f : \E k \in Nat : Deepens(g, f, C, k)

\* A node can be added when its causes are there.
LEMMA CountOn ==
    ASSUME TypeOK, NEW g \in Graph, NEW C, Countable(g, C), NEW m, m \notin C,
           Preds(g, m) \subseteq C
    PROVE  Countable(g, C \cup {m})
<1>0. PICK f : \E k \in Nat : Deepens(g, f, C, k)
  BY DEF Countable
<1>1. PICK k \in Nat : Deepens(g, f, C, k)
  BY <1>0
<1>2. PICK d \in 0 .. k + 1 : /\ Preds(g, m) = {} => d = 0
                              /\ Preds(g, m) # {} => \E p \in Preds(g, m) : d = f[p] + 1
                              /\ \A p \in Preds(g, m) : f[p] + 1 <= d
  <2>1. CASE Preds(g, m) = {}
    BY <2>1
  <2>2. CASE Preds(g, m) # {}
    <3> DEFINE V == {f[p] : p \in Preds(g, m)}
    <3>1. V \subseteq 0 .. k /\ V # {}
      BY <1>1, <2>2 DEF Deepens
    <3>2. PICK x \in V : \A y \in V : y <= x
      <4> HIDE DEF V
      <4> QED
        BY <3>1, GreatestNumber
    <3>3. x \in 0 .. k /\ \A p \in Preds(g, m) : f[p] \in 0 .. k
      BY <3>1, <3>2
    <3>4. PICK p \in Preds(g, m) : x = f[p]
      BY <3>2
    <3>5. \A q \in Preds(g, m) : f[q] <= x
      BY <3>2
    <3>6. \A q \in Preds(g, m) : f[q] + 1 <= x + 1
      BY <3>3, <3>5
    <3>7. x + 1 \in 0 .. k + 1 /\ x + 1 = f[p] + 1
      BY <3>3, <3>4
    <3> QED
      BY <2>2, <3>4, <3>6, <3>7
  <2> QED
    BY <2>1, <2>2
<1> DEFINE D == C \cup {m}
           h == [x \in D |-> IF x = m THEN d ELSE f[x]]
<1>3. \A x \in C : h[x] = f[x] /\ f[x] \in 0 .. k /\ Preds(g, x) \subseteq C
  BY <1>1 DEF Deepens, Countable
<1>4. h \in [D -> 0 .. k + 1] /\ h[m] = d
  BY <1>3
<1> HIDE DEF h
<1>5. ASSUME NEW x \in C
      PROVE  /\ Preds(g, x) = {} => h[x] = 0
             /\ Preds(g, x) # {} => \E p \in Preds(g, x) : h[x] = h[p] + 1
             /\ \A p \in Preds(g, x) : h[p] + 1 <= h[x]
  <2>1. /\ Preds(g, x) = {} => f[x] = 0
        /\ Preds(g, x) # {} => \E p \in Preds(g, x) : f[x] = f[p] + 1
        /\ \A p \in Preds(g, x) : f[p] + 1 <= f[x]
    BY <1>1 DEF Deepens
  <2>2. h[x] = f[x] /\ \A p \in Preds(g, x) : h[p] = f[p]
    BY <1>3
  <2> QED
    BY <2>1, <2>2
<1>6. \A p \in Preds(g, m) : h[p] = f[p]
  BY <1>3
<1>7. Deepens(g, h, D, k + 1)
  BY <1>2, <1>4, <1>5, <1>6 DEF Deepens
<1>8. \A x \in D : Preds(g, x) \subseteq D
  BY <1>3
<1> QED
  BY <1>7, <1>8 DEF Countable

\* So all nodes not below a cycle can be counted.
LEMMA LayersCount ==
    ASSUME TypeOK, NEW g \in Graph
    PROVE  Countable(g, Layered(g))
<1> DEFINE L == Layered(g)
           Rest == {L \ C : C \in {C \in SUBSET L : Countable(g, C)}}
           R == StrictSubsetOrdering(L)
           S == FiniteSubsetsOf(L)
<1>1. IsFiniteSet(L)
  BY GraphParameters, Typed, FS_Subset DEF Layered
<1>2. IsWellFoundedOn(R, S)
  BY FS_StrictSubsetOrderingWellFounded
<1>3. Rest \subseteq S /\ Rest # {}
  <2>1. \A C \in SUBSET L : IsFiniteSet(L \ C)
    BY <1>1, FS_Subset
  <2>2. Countable(g, {})
    <3>1. Deepens(g, [x \in {} |-> 0], {}, 0)
      BY DEF Deepens
    <3> QED
      BY <3>1 DEF Countable
  <2>3. L \ {} \in Rest
    BY <2>2
  <2> QED
    BY <2>1, <2>3 DEF FiniteSubsetsOf
<1>4. PICK A \in Rest : \A B \in Rest : ~ (<<B, A>> \in R)
  <2> HIDE DEF R, S, Rest
  <2> QED
    BY <1>2, <1>3, WFMin
<1>5. PICK C \in SUBSET L : Countable(g, C) /\ A = L \ C
  OBVIOUS
<1>6. CASE L \ C = {}
  <2>1. C = L
    BY <1>6
  <2> QED
    BY <1>5, <2>1
<1>7. CASE L \ C # {}
  <2>1. PICK m \in L \ C : Preds(g, m) \cap (L \ C) = {}
    BY <1>7, SomeFirst
  <2>2. Preds(g, m) \subseteq C
    BY <2>1, LayeredAbove
  <2>3. Countable(g, C \cup {m}) /\ C \cup {m} \in SUBSET L
    BY <1>5, <2>1, <2>2, CountOn
  <2>4. <<L \ (C \cup {m}), L \ C>> \in R /\ L \ (C \cup {m}) \in Rest
    BY <2>1, <2>3 DEF StrictSubsetOrdering
  <2> QED
    BY <1>4, <1>5, <2>4
<1> QED
  BY <1>6, <1>7

\* And causal_depth counts them.
LEMMA DepthCounts ==
    ASSUME TypeOK, NEW g \in Graph, NEW f, NEW k \in Nat, Deepens(g, f, Layered(g), k)
    PROVE  \A n \in Layered(g) : CausalDepth(g, n) = f[n]
<1> DEFINE L == Layered(g)
           Next1(h, m) == IF Preds(g, m) = {} THEN 0
                          ELSE 1 + CHOOSE d \in {h[p] : p \in Preds(g, m)} :
                                     \A p \in Preds(g, m) : h[p] <= d
           Is(h) == h = [m \in L |-> Next1(h, m)]
           depth == CHOOSE h : Is(h)
<1>1. ASSUME NEW m \in L, NEW h, \A p \in Preds(g, m) : h[p] = f[p]
      PROVE  Next1(h, m) = f[m]
  <2>1. \A p \in Preds(g, m) : p \in L /\ f[p] \in Nat
    BY LayeredAbove DEF Deepens
  <2>2. CASE Preds(g, m) = {}
    BY <2>2 DEF Deepens
  <2>3. CASE Preds(g, m) # {}
    <3> DEFINE V == {h[p] : p \in Preds(g, m)}
               top == CHOOSE d \in V : \A p \in Preds(g, m) : h[p] <= d
    <3>1. Next1(h, m) = 1 + top
      BY <2>3
    <3>2. PICK p \in Preds(g, m) : f[m] = f[p] + 1
      BY <2>3 DEF Deepens
    <3>3. \A q \in Preds(g, m) : f[q] + 1 <= f[p] + 1
      BY <3>2 DEF Deepens
    <3>4. h[p] \in V /\ \A q \in Preds(g, m) : h[q] <= h[p]
      BY <1>1, <2>1, <3>3
    <3>5. top \in V /\ \A q \in Preds(g, m) : h[q] <= top
      BY <3>4
    <3> HIDE DEF top, Next1
    <3>6. PICK q \in Preds(g, m) : top = h[q]
      BY <3>5
    <3>7. h[q] <= h[p] /\ h[p] <= h[q] /\ h[p] \in Nat /\ h[q] \in Nat /\ h[p] = f[p]
      BY <1>1, <2>1, <3>4, <3>5, <3>6
    <3>8. top = f[p] /\ f[p] \in Nat
      BY <3>6, <3>7
    <3> QED
      BY <3>1, <3>2, <3>8
  <2> QED
    BY <2>2, <2>3
<1>2. Is(f)
  <2>1. f = [m \in L |-> f[m]]
    BY DEF Deepens
  <2> HIDE DEF Next1
  <2> QED
    BY <1>1, <2>1
<1>3. Is(depth)
  <2> HIDE DEF Is
  <2> QED
    BY <1>2
<1>4. \A n : CausalDepth(g, n) = depth[n]
  BY DEF CausalDepth
<1> HIDE DEF depth
<1>5. \A m \in L : depth[m] = Next1(depth, m)
  <2> HIDE DEF Next1
  <2> QED
    BY <1>3
<1> DEFINE T == {m \in L : depth[m] # f[m]}
<1>6. SUFFICES ASSUME T # {} PROVE FALSE
  BY <1>4
<1>7. PICK m \in T : Preds(g, m) \cap T = {}
  BY <1>6, SomeFirst
<1>8. \A p \in Preds(g, m) : depth[p] = f[p]
  BY <1>7, LayeredAbove
<1>9. Next1(depth, m) = f[m]
  <2> HIDE DEF Next1
  <2> QED
    BY <1>1, <1>8
<1> QED
  BY <1>5, <1>7, <1>9

\* The depth of a node is one more than the greatest of its causes.
LEMMA DepthFacts ==
    ASSUME TypeOK, NEW g \in Graph, NEW n \in Layered(g)
    PROVE  /\ CausalDepth(g, n) \in Nat
           /\ Preds(g, n) = {} => CausalDepth(g, n) = 0
           /\ Preds(g, n) # {} =>
                \E p \in Preds(g, n) : CausalDepth(g, n) = CausalDepth(g, p) + 1
           /\ \A p \in Preds(g, n) : p \in Layered(g) /\ CausalDepth(g, p) \in Nat
                                     /\ CausalDepth(g, p) + 1 <= CausalDepth(g, n)
<1>0. PICK f : \E k \in Nat : Deepens(g, f, Layered(g), k)
  BY LayersCount DEF Countable
<1>1. PICK k \in Nat : Deepens(g, f, Layered(g), k)
  BY <1>0
<1>2. \A m \in Layered(g) : CausalDepth(g, m) = f[m] /\ f[m] \in Nat
  <2>1. \A m \in Layered(g) : f[m] \in Nat
    BY <1>1 DEF Deepens
  <2> QED
    BY <1>1, <2>1, DepthCounts
<1>3. \A p \in Preds(g, n) : p \in Layered(g)
  BY LayeredAbove
<1>4. /\ Preds(g, n) = {} => f[n] = 0
      /\ Preds(g, n) # {} => \E p \in Preds(g, n) : f[n] = f[p] + 1
      /\ \A p \in Preds(g, n) : f[p] + 1 <= f[n]
  BY <1>1 DEF Deepens
<1> QED
  BY <1>2, <1>3, <1>4

\* Nodes ready for the next wave, and those in this one, are deep enough.
Deep(g) ==
    /\ \A n \in run.wave \cap Layered(g) : run.waves <= CausalDepth(g, n) + 1
    /\ \A n \in (Ready(g) \ (run.attempted \cup run.wave)) \cap Layered(g) :
          run.waves <= CausalDepth(g, n)

\* After as many waves what is DONE, or about to be, is not too deep.
Shallow(g) ==
    \A n \in ((nodesOf[g] \cap Done) \cup run.wave) \cap Layered(g) :
        CausalDepth(g, n) + 1 <= run.waves

DepthOK ==
    ~Idle => Deep(run.graph) /\ (run.caller = "transition" => Shallow(run.graph))

\* It is of the nodes and edges only.
LEMMA DepthKeeps ==
    ASSUME NEW g, nodesOf' = nodesOf, edgesOf' = edgesOf
    PROVE  /\ Layered(g)' = Layered(g)
           /\ \A n : Preds(g, n)' = Preds(g, n) /\ CausalDepth(g, n)' = CausalDepth(g, n)
<1>1. ASSUME NEW n
      PROVE  /\ CausalDepth(g, n)' = CausalDepth(g, n) /\ Layered(g)' = Layered(g)
             /\ Preds(g, n)' = Preds(g, n)
  <2>1. Reachable(g, n)' = Reachable(g, n)
    BY DEF Reachable, Onward, Succs
  <2> QED
    BY <2>1 DEF CausalDepth, Layered, DepthDefined, Preds, Reachable, Onward, Succs
<1> QED
  BY <1>1

\* Every step keeps that: a wave is of nodes that an execution in the wave before
\* made ready, and they are deeper than the node executed.
LEMMA DepthStep == SInv /\ DepthOK /\ [Next]_vars => DepthOK'
<1> SUFFICES ASSUME SInv, DepthOK, [Next]_vars PROVE DepthOK'
  OBVIOUS
<1>1. TypeOK /\ RunOK
  BY DEF SInv
<1>2. CASE run' = NoRun
  BY <1>2 DEF DepthOK, Idle, NoRun
<1>3. CASE MakesGraph \/ Edits
  <2>1. Idle /\ run' = run
    BY <1>3 DEF MakesGraph, Makes, Edits, Grown
  <2> QED
    BY <2>1 DEF DepthOK, Idle
<1>4. CASE Rewinds
  <2>1. CASE run' = run
    BY <1>4, <2>1 DEF Rewinds, DepthOK, Idle
  <2>2. ASSUME NEW g \in Graph, NEW caller \in {"client", "transition"},
               run' = [NoRun EXCEPT !.graph = g, !.caller = caller],
               caller = "transition" => nodesOf[g] \cap Done' = {}
        PROVE  DepthOK'
    <3>1. /\ run'.graph = g /\ run'.caller = caller
          /\ run'.waves = 0 /\ run'.wave = {} /\ run'.attempted = {}
      BY <2>2 DEF NoRun
    <3>2. TypeOK' /\ nodesOf' = nodesOf
      BY <1>1, <1>4, TypeStep DEF Rewinds, graphVars
    <3>3. \A n \in Layered(g)' : CausalDepth(g, n)' \in Nat
      <4>1. edgesOf' = edgesOf
        BY <1>4 DEF Rewinds, graphVars
      <4> QED
        BY <1>1, <3>2, <4>1, DepthFacts, DepthKeeps
    <3>4. Deep(g)'
      BY <3>1, <3>3 DEF Deep
    <3>5. caller = "transition" => Shallow(g)'
      BY <2>2, <3>1, <3>2 DEF Shallow
    <3> QED
      BY <3>1, <3>4, <3>5 DEF DepthOK
  <2> QED
    BY <1>4, <2>1, <2>2 DEF Rewinds
<1>5. CASE NextWave
  <2>0. PICK g : g = run.graph
    OBVIOUS
  <2>1. /\ run'.graph = g /\ run'.caller = run.caller /\ run'.waves = run.waves + 1
        /\ run'.attempted = run.attempted /\ run'.wave = Ready(g) \ run.attempted
        /\ run.wave = {} /\ ~Idle /\ g \in Graph /\ run.waves \in Nat
        /\ UNCHANGED <<nodesOf, edgesOf, state, triggered>>
    BY <1>1, <1>5, <2>0, Waving, TickSteps
  <2>2. \A n : CausalDepth(g, n)' = CausalDepth(g, n)
    BY <2>1, DepthKeeps
  <2>3. Layered(g)' = Layered(g) /\ Ready(g)' = Ready(g) /\ Done' = Done
    <3>1. Ready(g)' = Ready(g) /\ Done' = Done
      BY <2>1 DEF Ready, Preds, Done
    <3> QED
      BY <2>1, <3>1, DepthKeeps
  <2>4. \A n \in Layered(g) : CausalDepth(g, n) \in Nat
    BY <1>1, <2>1, DepthFacts
  <2>5. Deep(g) /\ (run.caller = "transition" => Shallow(g))
    BY <2>0, <2>1 DEF DepthOK
  <2>6. Deep(g)'
    <3>1. \A n \in run'.wave \cap Layered(g) : run'.waves <= CausalDepth(g, n) + 1
      BY <2>1, <2>4, <2>5 DEF Deep
    <3> QED
      BY <2>1, <2>2, <2>3, <3>1 DEF Deep
  <2>7. ASSUME run.caller = "transition" PROVE Shallow(g)'
    <3>1. ASSUME NEW n \in ((nodesOf[g] \cap Done) \cup run'.wave) \cap Layered(g)
          PROVE  CausalDepth(g, n) + 1 <= run'.waves
      <4>1. CASE n \in nodesOf[g] \cap Done
        BY <2>1, <2>4, <2>5, <2>7, <3>1, <4>1 DEF Shallow
      <4>2. CASE n \in Ready(g)
        <5>1. CASE Preds(g, n) = {}
          BY <1>1, <2>1, <3>1, <5>1, DepthFacts
        <5>2. CASE Preds(g, n) # {}
          <6>1. PICK p \in Preds(g, n) : CausalDepth(g, n) = CausalDepth(g, p) + 1
            BY <1>1, <2>1, <3>1, <5>2, DepthFacts
          <6>2. p \in Layered(g) /\ CausalDepth(g, p) \in Nat
            BY <1>1, <2>1, <3>1, DepthFacts
          <6>3. p \in nodesOf[g] \cap Done
            BY <4>2 DEF Ready, Preds
          <6>4. CausalDepth(g, p) + 1 <= run.waves
            BY <2>5, <2>7, <6>2, <6>3 DEF Shallow
          <6> QED
            BY <2>1, <6>1, <6>2, <6>4
        <5> QED
          BY <5>1, <5>2
      <4> QED
        BY <2>1, <3>1, <4>1, <4>2
    <3> QED
      BY <2>1, <2>2, <2>3, <3>1 DEF Shallow
  <2> QED
    BY <2>1, <2>6, <2>7 DEF DepthOK
<1>6. ASSUME NEW m \in Node, Execute(m) PROVE DepthOK'
  <2>0. PICK g : g = run.graph
    OBVIOUS
  <2>1. /\ run'.graph = g /\ run'.caller = run.caller /\ run'.waves = run.waves
        /\ run'.wave = run.wave \ {m} /\ run'.attempted = run.attempted \cup {m}
        /\ m \in run.wave /\ ~Idle /\ g \in Graph /\ run.waves \in Nat
        /\ nodesOf' = nodesOf /\ edgesOf' = edgesOf /\ triggered' = triggered
        /\ \A n \in Node \ {m} : state'[n] = state[n]
        /\ nodesOf[g] \subseteq Node
    BY <1>1, <1>6, <2>0, Executing, TickSteps, Typed
  <2>2. Done' \subseteq Done \cup {m}
    BY <1>6, DoneGrows
  <2>3. \A n : CausalDepth(g, n)' = CausalDepth(g, n)
    BY <2>1, DepthKeeps
  <2>4. Layered(g)' = Layered(g) /\ \A n : Preds(g, n)' = Preds(g, n)
    BY <2>1, DepthKeeps
  <2>5. Deep(g) /\ (run.caller = "transition" => Shallow(g))
    BY <2>0, <2>1 DEF DepthOK
  <2>6. Deep(g)'
    <3>1. ASSUME NEW n \in Ready(g)', n \notin run'.attempted, n \notin run'.wave, n \in Layered(g)
          PROVE  run'.waves <= CausalDepth(g, n)
      <4>1. n # m /\ n \notin run.attempted /\ n \notin run.wave
        BY <2>1, <3>1
      <4>2. CASE n \in Ready(g)
        BY <2>1, <2>5, <3>1, <4>1, <4>2 DEF Deep
      <4>3. CASE n \notin Ready(g)
        <5>1. /\ n \in nodesOf[g] /\ state'[n] \in {"PENDING", "READY"}
              /\ Preds(g, n) \subseteq Done' /\ (n \in EventNode => triggered[n])
          BY <2>1, <2>4 DEF Ready
        <5>2. state[n] = state'[n]
          BY <2>1, <4>1, <5>1
        <5>3. ~ (Preds(g, n) \subseteq Done)
          BY <4>3, <5>1, <5>2 DEF Ready
        <5>4. m \in Preds(g, n)
          BY <2>2, <5>1, <5>3
        <5>5. /\ m \in Layered(g) /\ CausalDepth(g, m) \in Nat /\ CausalDepth(g, n) \in Nat
              /\ CausalDepth(g, m) + 1 <= CausalDepth(g, n)
          BY <1>1, <2>1, <3>1, <5>4, DepthFacts
        <5>6. run.waves <= CausalDepth(g, m) + 1
          BY <2>1, <2>5, <5>5 DEF Deep
        <5> QED
          BY <2>1, <5>5, <5>6
      <4> QED
        BY <4>2, <4>3
    <3>2. \A n \in run'.wave \cap Layered(g) : run'.waves <= CausalDepth(g, n) + 1
      BY <2>1, <2>5 DEF Deep
    <3> QED
      BY <2>3, <2>4, <3>1, <3>2 DEF Deep
  <2>7. ASSUME run.caller = "transition" PROVE Shallow(g)'
    <3>1. (nodesOf'[g] \cap Done') \cup run'.wave \subseteq (nodesOf[g] \cap Done) \cup run.wave
      BY <2>1, <2>2
    <3> QED
      BY <2>1, <2>3, <2>4, <2>5, <2>7, <3>1 DEF Shallow
  <2> QED
    BY <2>1, <2>6, <2>7 DEF DepthOK
<1>7. CASE EndTick
  BY <1>2, <1>7 DEF EndTick
<1>8. CASE UNCHANGED vars
  <2> DEFINE g == run.graph
  <2>1. UNCHANGED <<nodesOf, edgesOf, state, triggered, run>>
    BY <1>8 DEF vars
  <2>2. PICK h : h = g
    OBVIOUS
  <2>3. \A n : CausalDepth(h, n)' = CausalDepth(h, n)
    BY <2>1, DepthKeeps
  <2>4. Layered(h)' = Layered(h) /\ Ready(h)' = Ready(h) /\ Done' = Done
    <3>1. Ready(h)' = Ready(h) /\ Done' = Done
      BY <2>1 DEF Ready, Preds, Done
    <3> QED
      BY <2>1, <3>1, DepthKeeps
  <2>5. Deep(h) => Deep(h)'
    BY <2>1, <2>3, <2>4 DEF Deep
  <2>6. Shallow(h) => Shallow(h)'
    BY <2>1, <2>3, <2>4 DEF Shallow
  <2> QED
    BY <2>1, <2>2, <2>5, <2>6 DEF DepthOK, Idle
<1> QED
  BY <1>1, <1>3, <1>4, <1>5, <1>6, <1>7, <1>8, Steps

\* In tick() a node runs in no later wave than its depth says, counted from the
\* first; in transition(), which begins with a reset graph, in exactly that one.
THEOREM WavesAreDepths == Spec => []DepthIsWave
<1>1. SInv /\ DepthOK => DepthIsWave
  <2> SUFFICES ASSUME SInv, DepthOK, NEW n \in run.wave, n \in Layered(run.graph)
               PROVE  /\ run.waves <= CausalDepth(run.graph, n) + 1
                      /\ run.caller = "transition" =>
                            run.waves = CausalDepth(run.graph, n) + 1
    BY DEF DepthIsWave
  <2>1. ~Idle
    BY DEF SInv, RunOK, NoRun
  <2>2. run.waves \in Nat /\ run.graph \in Graph /\ TypeOK
    BY <2>1, Typed DEF SInv, Run, Idle
  <2>3. CausalDepth(run.graph, n) \in Nat
    BY <2>2, DepthFacts
  <2> QED
    BY <2>1, <2>2, <2>3 DEF DepthOK, Deep, Shallow
<1>2. Init => DepthOK
  BY DEF Init, DepthOK, Idle, NoRun
<1>3. Spec => []DepthOK
  BY <1>2, DepthStep, SInvHolds, PTL DEF Spec
<1> QED
  BY <1>1, <1>3, SInvHolds, PTL

=============================================================================

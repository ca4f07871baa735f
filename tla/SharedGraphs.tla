---------------------------- MODULE SharedGraphs ----------------------------
(***************************************************************************)
(* Several graphs over the same node objects: core/graph_composer.py       *)
(* (GraphComposer), core/formal_semantics.py (CausalSemantics) and         *)
(* CausalGraph.absorb.                                                     *)
(*                                                                         *)
(* compose(), compose_sequential() and evolve() return a new graph whose   *)
(* nodes ARE the nodes of the graphs it was made from: the structure and   *)
(* the history are the new graph's own, the states of the nodes are        *)
(* everybody's.  A client may tick any of the graphs.  CausalGraph.tla     *)
(* has the scheduler of one graph with results and context; here a         *)
(* callable does the same thing whenever it is called.                     *)
(***************************************************************************)
EXTENDS Naturals, Sequences, FiniteSets

CONSTANTS
    EventNode, ConditionNode, ActionNode,
    Graph,          \* handles of graphs
    NoGraph,        \* no graph is being ticked
    Edge,           \* edges a client may add to a graph at any time
    Absorber,       \* the graphs a client absorbs others into
    Delta,          \* the graph deltas a client evolves a graph by
    MaxHistory      \* bound: history entries a graph may have when ticked

Node == EventNode \cup ConditionNode \cup ActionNode

ASSUME GraphParameters ==
    /\ EventNode \cap (ConditionNode \cup ActionNode) = {}
    /\ ConditionNode \cap ActionNode = {}
    /\ IsFiniteSet(Node)
    /\ NoGraph \notin Graph
    /\ \A d \in Delta : d.nodes_added \cup d.nodes_removed \subseteq Node
    /\ MaxHistory \in Nat

VARIABLES
    nodesOf,    \* _nodes of each graph; {} for a handle not in use
    edgesOf,    \* _edges of each graph
    log,        \* execution_history of each graph: the nodes it completed
    state,      \* node.state
    triggered,  \* event_node._triggered
    outcome,    \* what each node's callable does: "ok", "false", "raise"
    run,        \* the call of tick() on the stack
    made        \* how each graph came about

vars == <<nodesOf, edgesOf, log, state, triggered, outcome, run, made>>

graphVars == <<nodesOf, edgesOf, made>>

Preds(g, n) == {p \in nodesOf[g] : <<p, n>> \in edgesOf[g]}
Succs(g, n) == {s \in nodesOf[g] : <<n, s>> \in edgesOf[g]}

Done == {n \in Node : state[n] = "DONE"}

\* get_ready_nodes
Ready(g) ==
    {n \in nodesOf[g] : /\ state[n] \in {"PENDING", "READY"}
                        /\ Preds(g, n) \subseteq Done
                        /\ n \in EventNode => triggered[n]}

-----------------------------------------------------------------------------
(* The read-only operators of CausalSemantics.                             *)

\* activation_satisfied without the predicate of a condition.
ActivatedUnconditionally(g, n, D) ==
    /\ Preds(g, n) \subseteq D
    /\ n \in EventNode => triggered[n]

\* activation_satisfied when D are the DONE nodes: causes done, predicate true
\* (one that raises counts as false), event triggered.
ActivationSatisfied(g, n, D) ==
    /\ Preds(g, n) \subseteq D
    /\ n \in EventNode => triggered[n]
    /\ n \in ConditionNode => outcome[n] = "ok"

\* ready_set: R(G, S).
ReadySet(g, D) ==
    {n \in nodesOf[g] : /\ state[n] \in {"PENDING", "READY"} /\ n \notin D
                        /\ ActivationSatisfied(g, n, D)}

\* reachable: a depth-first search along the successors; n itself is among
\* them when it is on a cycle.
Onward(g, S) == S \cup UNION {Succs(g, m) : m \in S}

Reachable(g, n) ==
    LET visit[S \in SUBSET nodesOf[g]] ==
          IF Onward(g, S) = S THEN S ELSE visit[Onward(g, S)]
    IN visit[Succs(g, n)]

\* No node from which n can be reached, nor n itself, is on a cycle: below one
\* the recursion of causal_depth does not end (RecursionError).
DepthDefined(g, n) ==
    \A p \in nodesOf[g] :
        p = n \/ n \in Reachable(g, p) => p \notin Reachable(g, p)

Layered(g) == {n \in nodesOf[g] : DepthDefined(g, n)}

\* causal_depth by the shortest chain of causes.
CausalDepthShortest(g, n) ==
    LET depth[m \in Layered(g)] ==
          IF Preds(g, m) = {} THEN 0
          ELSE 1 + CHOOSE d \in {depth[p] : p \in Preds(g, m)} :
                     \A p \in Preds(g, m) : d <= depth[p]
    IN depth[n]

\* causal_depth, of the nodes for which its recursion ends.
CausalDepth(g, n) ==
    LET depth[m \in Layered(g)] ==
          IF Preds(g, m) = {} THEN 0
          ELSE 1 + CHOOSE d \in {depth[p] : p \in Preds(g, m)} :
                     \A p \in Preds(g, m) : depth[p] <= d
    IN depth[n]

-----------------------------------------------------------------------------
(* New graphs from old ones.                                               *)

\* How a graph came about: from which parts, which nodes of the first of two
\* in sequence lead to a bridge (up) and which are the second's own (down),
\* whether its nodes were reset, whether another graph has run them since,
\* whether it was edited since.
Fresh == [how |-> "built", parts |-> {}, up |-> {}, down |-> {},
          clean |-> TRUE, foreign |-> FALSE, edited |-> FALSE]

NoRun == [graph |-> NoGraph, caller |-> "none", waves |-> 0,
          wave |-> {}, attempted |-> {}]

Idle == run.graph = NoGraph

\* node.reset() on the nodes of N.
AfterReset(N) == [n \in Node |-> IF n \in N THEN "PENDING" ELSE state[n]]

\* The handle g becomes a graph of nodes N and edges E, with an empty history.
NewGraph(g, N, E, how) ==
    /\ Idle
    /\ nodesOf[g] = {}
    /\ nodesOf' = [nodesOf EXCEPT ![g] = N]
    /\ edgesOf' = [edgesOf EXCEPT ![g] = E]
    /\ made' = [made EXCEPT ![g] = how]
    /\ UNCHANGED <<log, triggered, outcome, run>>

\* compose with the second graph's own edges forgotten.
ComposeNodesOnly(a, b, bridges, m, how) ==
    /\ bridges \subseteq (nodesOf[a] \cup nodesOf[b]) \X (nodesOf[a] \cup nodesOf[b])
    /\ NewGraph(m, nodesOf[a] \cup nodesOf[b], edgesOf[a] \cup bridges, how)

\* compose(a, b, bridges): absorb() both, then an edge for each bridge.
Compose(a, b, bridges, m, how) ==
    /\ bridges \subseteq (nodesOf[a] \cup nodesOf[b]) \X (nodesOf[a] \cup nodesOf[b])
    /\ NewGraph(m, nodesOf[a] \cup nodesOf[b],
                edgesOf[a] \cup edgesOf[b] \cup bridges, how)

\* absorb() that does not look at reset_nodes.
AbsorbedAsIs(a, b, reset) == UNCHANGED state

\* absorb(reset_nodes): the states of the nodes of both graphs, or as they are.
Absorbed(a, b, reset) ==
    state' = IF reset THEN AfterReset(nodesOf[a] \cup nodesOf[b]) ELSE state

ComposeBridged(a, b, bridges, m, reset) ==
    /\ Compose(a, b, bridges, m,
               [Fresh EXCEPT !.how = IF bridges = {} THEN "union" ELSE "bridged",
                             !.parts = {a, b}, !.clean = reset])
    /\ Absorbed(a, b, reset)

\* compose(reset_nodes=True) with a bridge to a node of neither graph raises
\* ValueError after absorb() has reset the nodes.
ComposeRaises(a, b) ==
    /\ Idle
    /\ \E bridge \in Node \X Node :
          ~ ({bridge[1], bridge[2]} \subseteq nodesOf[a] \cup nodesOf[b])
    /\ Absorbed(a, b, TRUE)
    /\ UNCHANGED <<graphVars, log, triggered, outcome, run>>

Leaves(g) == {n \in nodesOf[g] : Succs(g, n) = {}}

\* get_root_nodes
Roots(g) == {n \in nodesOf[g] : Preds(g, n) = {}}

InSequence(a, b, reset) ==
    [Fresh EXCEPT !.how = "sequential", !.parts = {a, b}, !.clean = reset,
       !.up = {n \in nodesOf[a] : ({n} \cup Reachable(a, n)) \cap Leaves(a) # {}},
       !.down = nodesOf[b] \ nodesOf[a]]

\* compose_sequential that bridges from one leaf only.
ComposeSequentialOneLeaf(a, b, m, reset) ==
    /\ Leaves(a) # {} /\ Roots(b) # {}
    /\ Compose(a, b, {CHOOSE n \in Leaves(a) : TRUE} \X Roots(b), m,
               InSequence(a, b, reset))
    /\ Absorbed(a, b, reset)

\* compose_sequential: every leaf of a before every root of b.  A graph
\* without leaves or roots raises ValueError before anything is touched.
ComposeSequential(a, b, m, reset) ==
    /\ Leaves(a) # {} /\ Roots(b) # {}
    /\ Compose(a, b, Leaves(a) \X Roots(b), m, InSequence(a, b, reset))
    /\ Absorbed(a, b, reset)

\* absorb() into a graph in use, which keeps its history.
Absorb(g, other, reset) ==
    /\ Idle
    /\ nodesOf' = [nodesOf EXCEPT ![g] = @ \cup nodesOf[other]]
    /\ edgesOf' = [edgesOf EXCEPT ![g] = @ \cup edgesOf[other]]
    /\ state' = IF reset THEN AfterReset(nodesOf[other]) ELSE state
    /\ made' = [made EXCEPT ![g].edited = TRUE, ![g].clean = @ /\ reset]
    /\ UNCHANGED <<log, triggered, outcome, run>>

Derived == [Fresh EXCEPT !.how = "evolved", !.clean = FALSE]

\* evolve: a node removed and added again has lost its edges.  An added edge
\* without its ends raises ValueError and nothing has changed.
Evolve(g, d, m) ==
    LET N == (nodesOf[g] \ d.nodes_removed) \cup d.nodes_added
        E == {e \in edgesOf[g] \ d.edges_removed :
                {e[1], e[2]} \cap d.nodes_removed = {}}
    IN /\ d.edges_added \subseteq N \X N
       /\ NewGraph(m, N, E \cup d.edges_added, Derived)
       /\ UNCHANGED state

-----------------------------------------------------------------------------
(* Building, triggering, resetting.                                        *)

\* The graphs a client has built with add_node and add_edge, not run yet.
Init ==
    /\ nodesOf \in [Graph -> SUBSET Node]
    /\ edgesOf \in [Graph -> SUBSET (Node \X Node)]
    /\ \A g \in Graph : edgesOf[g] \subseteq nodesOf[g] \X nodesOf[g]
    /\ outcome \in [Node -> {"ok", "false", "raise"}]
    /\ \A n \in EventNode : outcome[n] = "ok"
    /\ \A n \in ActionNode : outcome[n] # "false"
    /\ log = [g \in Graph |-> <<>>]
    /\ state = [n \in Node |-> "PENDING"]
    /\ triggered = [n \in EventNode |-> FALSE]
    /\ run = NoRun
    /\ made = [g \in Graph |-> Fresh]

\* add_edge in a graph already composed or run.
AddEdge(g, p, n) ==
    /\ Idle
    /\ {p, n} \subseteq nodesOf[g] /\ <<p, n>> \notin edgesOf[g]
    /\ edgesOf' = [edgesOf EXCEPT ![g] = @ \cup {<<p, n>>}]
    /\ made' = [made EXCEPT ![g].edited = TRUE]
    /\ UNCHANGED <<nodesOf, log, state, triggered, outcome, run>>

\* EventNode.trigger
Trigger(n) ==
    /\ Idle
    /\ triggered' = [triggered EXCEPT ![n] = TRUE]
    /\ state' = [state EXCEPT ![n] = "READY"]
    /\ UNCHANGED <<graphVars, log, outcome, run>>

\* CausalGraph.reset: the states of its nodes, its own history only.
Reset(g) ==
    /\ Idle
    /\ state' = AfterReset(nodesOf[g])
    /\ log' = [log EXCEPT ![g] = <<>>]
    /\ UNCHANGED <<graphVars, triggered, outcome, run>>

-----------------------------------------------------------------------------
(* tick() and transition().                                                *)

\* tick() on graph g.
BeginTick(g) ==
    /\ Idle /\ nodesOf[g] # {}
    /\ Len(log[g]) <= MaxHistory
    /\ run' = [NoRun EXCEPT !.graph = g, !.caller = "client"]
    /\ UNCHANGED <<graphVars, log, state, triggered, outcome>>

\* transition(): reset the graph, trigger its event nodes that an event of the
\* list names, tick.
BeginTransition(g, events) ==
    /\ Idle /\ nodesOf[g] # {}
    /\ log' = [log EXCEPT ![g] = <<>>]
    /\ triggered' = [n \in EventNode |->
                       triggered[n] \/ n \in events \cap nodesOf[g]]
    /\ state' = [n \in Node |-> IF n \in events \cap nodesOf[g] THEN "READY"
                                ELSE AfterReset(nodesOf[g])[n]]
    /\ run' = [NoRun EXCEPT !.graph = g, !.caller = "transition"]
    /\ UNCHANGED <<graphVars, outcome>>

\* The wave loop of tick(): what is ready and was not attempted.
NextWave ==
    /\ ~Idle /\ run.wave = {}
    /\ Ready(run.graph) \ run.attempted # {}
    /\ run' = [run EXCEPT !.wave = Ready(run.graph) \ run.attempted,
                          !.waves = @ + 1]
    /\ UNCHANGED <<graphVars, log, state, triggered, outcome>>

\* execute() of one node of the wave, in the order of a set: any order.
Execute(n) ==
    /\ ~Idle /\ n \in run.wave
    /\ state' = [state EXCEPT ![n] =
                   CASE outcome[n] = "ok"    -> "DONE"
                     [] outcome[n] = "false" -> "PENDING"
                     [] outcome[n] = "raise" -> "FAILED"]
    /\ log' = IF outcome[n] = "ok"
              THEN [log EXCEPT ![run.graph] = Append(@, n)] ELSE log
    /\ run' = [run EXCEPT !.wave = @ \ {n}, !.attempted = @ \cup {n}]
    /\ made' = [g \in Graph |->
                  [made[g] EXCEPT !.foreign =
                     @ \/ (g # run.graph /\ n \in nodesOf[g])]]
    /\ UNCHANGED <<nodesOf, edgesOf, triggered, outcome>>

\* Nothing is ready that was not attempted: tick() returns.
EndTick ==
    /\ ~Idle /\ run.wave = {}
    /\ Ready(run.graph) \subseteq run.attempted
    /\ run' = NoRun
    /\ UNCHANGED <<graphVars, log, state, triggered, outcome>>

-----------------------------------------------------------------------------
InUse == {g \in Graph : nodesOf[g] # {}}

Combine ==
    \E a, b \in InUse, m \in Graph \ InUse, reset \in BOOLEAN :
        \/ \E bridge \in nodesOf[a] \X nodesOf[b], some \in BOOLEAN :
              ComposeBridged(a, b, IF some THEN {bridge} ELSE {}, m, reset)
        \/ ComposeSequential(a, b, m, reset)

AbsorbInUse ==
    \E g \in InUse \cap Absorber, other \in InUse, reset \in BOOLEAN :
        /\ ~ nodesOf[other] \subseteq nodesOf[g]
        /\ Absorb(g, other, reset)

Edit ==
    \/ \E g \in Graph, e \in Edge : AddEdge(g, e[1], e[2])
    \/ \E g, m \in Graph, d \in Delta : Evolve(g, d, m)
    \/ \E n \in EventNode : Trigger(n)
    \/ \E g \in Graph : Reset(g)

TickStep == NextWave \/ (\E n \in Node : Execute(n)) \/ EndTick

Next ==
    \/ Combine \/ AbsorbInUse
    \/ \E a \in InUse : \E b \in InUse \ {a} : ComposeRaises(a, b)
    \/ Edit
    \/ \E g \in Graph : BeginTick(g)
    \/ \E g \in Graph, events \in SUBSET EventNode : BeginTransition(g, events)
    \/ TickStep

Spec == Init /\ [][Next]_vars

-----------------------------------------------------------------------------
(* Properties.                                                             *)

\* Every variable keeps to its values; no graph, composed or evolved, has an
\* edge without both of its ends.
TypeOK ==
    /\ nodesOf \in [Graph -> SUBSET Node]
    /\ edgesOf \in [Graph -> SUBSET (Node \X Node)]
    /\ \A g \in Graph : edgesOf[g] \subseteq nodesOf[g] \X nodesOf[g]
    /\ log \in [Graph -> Seq(Node)]
    /\ state \in [Node -> {"PENDING", "READY", "DONE", "FAILED"}]
    /\ triggered \in [EventNode -> BOOLEAN]
    /\ outcome \in [Node -> {"ok", "false", "raise"}]
    /\ run \in [graph : Graph \cup {NoGraph}, caller : {"none", "client", "transition"},
               waves : Nat, wave : SUBSET Node, attempted : SUBSET Node]
    /\ made \in [Graph -> [how : {"built", "union", "bridged", "sequential", "evolved"},
                           parts : SUBSET Graph, up : SUBSET Node, down : SUBSET Node,
                           clean : BOOLEAN, foreign : BOOLEAN, edited : BOOLEAN]]

\* "Graph B executes only after Graph A has fully completed"
\* (graph_composer.py:138): in the history of a sequential composition a node
\* of B follows every node of A that leads to a leaf of A, all of A when A has
\* no cycle, whatever is triggered, reset, failed or added to the parts later.
\* Two provisos: the nodes were reset when composed, and no other graph has
\* run one of them since.
DownstreamWaits ==
    \A m \in Graph :
        made[m].how = "sequential" /\ made[m].clean /\ ~made[m].foreign =>
            \A i \in DOMAIN log[m] : log[m][i] \in made[m].down =>
                \A n \in made[m].up : \E j \in 1..(i - 1) : log[m][j] = n

\* The history of a graph shows every node of it that is DONE, unless another
\* graph has run its nodes or it took over nodes without a reset.
HistoryShowsDone ==
    \A g \in Graph : made[g].clean /\ ~made[g].foreign =>
        nodesOf[g] \cap Done \subseteq {log[g][i] : i \in DOMAIN log[g]}

\* Those of D and those of R(G, S) that complete.
Fired(g, D) == D \cup {n \in ReadySet(g, D) : outcome[n] # "raise"}

\* The nodes that are DONE when R(G, S) has been fired over and over.
Quiescent(g) ==
    LET fire[D \in SUBSET Node] ==
          IF Fired(g, D) = D THEN D ELSE fire[Fired(g, D)]
    IN fire[Done]

\* "fired(G, S, E) is the transitive closure of R(G, S)" (MODEL.md, Operator
\* 2): every step of a tick leaves that closure what it was and the tick ends
\* when it is reached, in whichever order the waves were executed.
FiredIsClosure ==
    [][ \A g \in Graph : run.graph = g =>
          /\ Quiescent(g)' = Quiescent(g)
          /\ Idle' => Done = Quiescent(g) ]_vars

\* Causal depth (PAPER.md, Definition 5) is when a node runs: never in a later
\* wave than its depth, and in transition(), which starts from a reset graph,
\* in no earlier one.
DepthIsWave ==
    \A n \in run.wave : n \in Layered(run.graph) =>
        /\ run.waves <= CausalDepth(run.graph, n) + 1
        /\ run.caller = "transition" =>
              run.waves = CausalDepth(run.graph, n) + 1

\* "the sub-graphs execute independently inside the meta-graph"
\* (graph_composer.py:98): composed without a bridge and not edited since, two
\* graphs that share no node come to rest in the meta-graph as they would,
\* ticked one after the other, by themselves.
PartsStayIndependent ==
    \A m, a, b \in Graph :
        /\ made[m].how = "union" /\ made[m].parts = {a, b}
        /\ nodesOf[a] \cap nodesOf[b] = {}
        /\ \A g \in {m, a, b} : ~made[g].edited
        => Quiescent(m) = Quiescent(a) \cup Quiescent(b)

=============================================================================

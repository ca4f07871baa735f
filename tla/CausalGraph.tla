---------------------------- MODULE CausalGraph ----------------------------
(***************************************************************************)
(* The causal scheduler: core/causal_engine.py (CausalGraph) with the      *)
(* life cycle of its nodes, core/node_types.py.                            *)
(*                                                                         *)
(* One graph, edited, triggered, ticked and reset by one thread.  A call   *)
(* of tick() is not one step: it is split at every node execution, because *)
(* the user's callables run there, and they may trigger event nodes.       *)
(* The order in which the nodes of one wave are executed is the iteration  *)
(* order of a set of UUID strings, hence any order.                        *)
(***************************************************************************)
EXTENDS Naturals, Sequences, FiniteSets

CONSTANTS
    EventNode,      \* nodes that wait for trigger()
    ConditionNode,  \* nodes whose predicate returns true, false or raises
    ActionNode,     \* ActionNode and TransformNode: execute() is the same
    Edge,           \* the edges a client may ask add_edge for
    Value,          \* what actions and triggers yield, besides None
    None,           \* Python's None
    Missing,        \* "this key is not in the context dictionary"
    MaxHistory      \* bound: entries of execution_history

Node == EventNode \cup ConditionNode \cup ActionNode

Result == Value \cup {None, "true", "false"}

ASSUME NodeKinds ==
    /\ EventNode \cap ConditionNode = {}
    /\ EventNode \cap ActionNode = {}
    /\ ConditionNode \cap ActionNode = {}
    /\ Edge \subseteq Node \X Node

ASSUME Sentinels ==
    /\ None \notin Value \cup {"true", "false"}
    /\ Missing \notin Result
    /\ "true" \notin Value /\ "false" \notin Value

ASSUME MaxHistoryNat == MaxHistory \in Nat

VARIABLES
    nodes,       \* _nodes: the registered nodes
    edges,       \* _edges, kept as the relation _predecessors is built from
    state,       \* node.state
    result,      \* node._result
    triggered,   \* event_node._triggered
    eventValue,  \* event_node._event_value
    history,     \* execution_history, oldest entry first
    phase,       \* "tick" while a call of tick() is on the stack
    wave,        \* tick(): nodes of the current wave still to execute
    attempted,   \* tick(): attempted_this_tick
    ctx          \* tick(): what the context holds under each node's id

vars == <<nodes, edges, state, result, triggered, eventValue, history,
          phase, wave, attempted, ctx>>

graphVars == <<nodes, edges>>
eventVars == <<triggered, eventValue>>
tickVars  == <<phase, wave, attempted, ctx>>

EmptyCtx == [n \in Node |-> Missing]

-----------------------------------------------------------------------------
(* What the scheduler computes from the state.                             *)

Preds(n) == {p \in nodes : <<p, n>> \in edges}

\* get_ready_nodes with a predecessor in a FAILED state let through.
ReadyPastFailure ==
    {n \in nodes : /\ state[n] \in {"PENDING", "READY"}
                   /\ \A p \in Preds(n) : state[p] \in {"DONE", "FAILED"}
                   /\ n \in EventNode => triggered[n]}

\* get_ready_nodes without the test of the node's own state.
ReadyInAnyState ==
    {n \in nodes : /\ \A p \in Preds(n) : state[p] = "DONE"
                   /\ n \in EventNode => triggered[n]}

\* get_ready_nodes: PENDING or READY, every predecessor DONE, events triggered.
Ready ==
    {n \in nodes : /\ state[n] \in {"PENDING", "READY"}
                   /\ \A p \in Preds(n) : state[p] = "DONE"
                   /\ n \in EventNode => triggered[n]}

Entry(n, outcome, value) == [node |-> n, outcome |-> outcome, result |-> value]

\* Nodes that history shows as completed.
Completed(h) == {h[i].node : i \in {j \in DOMAIN h : h[j].outcome = "done"}}

-----------------------------------------------------------------------------
(* Building the graph, triggering events, resetting: between two ticks.    *)

Init ==
    /\ nodes = {} /\ edges = {}
    /\ state = [n \in Node |-> "PENDING"]
    /\ result = [n \in Node |-> None]
    /\ triggered = [n \in EventNode |-> FALSE]
    /\ eventValue = [n \in EventNode |-> None]
    /\ history = <<>>
    /\ phase = "idle" /\ wave = {} /\ attempted = {} /\ ctx = EmptyCtx

AddNode(n) ==
    /\ phase = "idle"
    /\ n \notin nodes
    /\ nodes' = nodes \cup {n}
    /\ UNCHANGED <<edges, state, result, eventVars, history, tickVars>>

\* Both ends must be registered (ValueError otherwise); their states do not
\* matter, so an edge may point from a PENDING node to one already DONE.
AddEdge(p, n) ==
    /\ phase = "idle"
    /\ {p, n} \subseteq nodes
    /\ edges' = edges \cup {<<p, n>>}
    /\ UNCHANGED <<nodes, state, result, eventVars, history, tickVars>>

\* A callable was the last thing tick() ran, so it may have been the caller.
InCallable ==
    /\ phase = "tick" /\ attempted # {}
    /\ history[Len(history)].node \notin EventNode

\* EventNode.trigger: READY again whatever the state was, the payload replaced.
\* The node object exists before add_node registers it.
Trigger(n, v) ==
    /\ phase = "idle" \/ InCallable
    /\ triggered' = [triggered EXCEPT ![n] = TRUE]
    /\ eventValue' = [eventValue EXCEPT ![n] = v]
    /\ state' = [state EXCEPT ![n] = "READY"]
    /\ UNCHANGED <<graphVars, result, history, tickVars>>

\* CausalGraph.reset without clearing the nodes' results.
ResetStatesOnly ==
    /\ phase = "idle"
    /\ state' = [n \in Node |-> IF n \in nodes THEN "PENDING" ELSE state[n]]
    /\ history' = <<>>
    /\ UNCHANGED <<graphVars, result, eventVars, tickVars>>

\* CausalGraph.reset: every registered node's state and result, the history;
\* an event node keeps _triggered and _event_value.
Reset ==
    /\ phase = "idle"
    /\ state' = [n \in Node |-> IF n \in nodes THEN "PENDING" ELSE state[n]]
    /\ result' = [n \in Node |-> IF n \in nodes THEN None ELSE result[n]]
    /\ history' = <<>>
    /\ UNCHANGED <<graphVars, eventVars, tickVars>>

-----------------------------------------------------------------------------
(* One call of tick(), a step for each node it executes.                   *)

\* tick() that seeds the context with nothing.
BeginTickUnseeded ==
    /\ phase = "idle"
    /\ Len(history) + Cardinality(nodes) <= MaxHistory
    /\ phase' = "tick"
    /\ UNCHANGED <<graphVars, state, result, eventVars, history,
                   wave, attempted, ctx>>

\* The results of DONE nodes, None excepted, are put into the context.
\* A tick executes each node at most once, so it ends within MaxHistory.
BeginTick ==
    /\ phase = "idle"
    /\ Len(history) + Cardinality(nodes) <= MaxHistory
    /\ phase' = "tick"
    /\ ctx' = [n \in Node |->
                 IF n \in nodes /\ state[n] = "DONE" /\ result[n] # None
                 THEN result[n] ELSE Missing]
    /\ UNCHANGED <<graphVars, state, result, eventVars, history,
                   wave, attempted>>

\* NextWave without the filter on attempted_this_tick.
NextWaveUnfiltered ==
    /\ phase = "tick" /\ wave = {}
    /\ Ready # {}
    /\ wave' = Ready
    /\ UNCHANGED <<graphVars, state, result, eventVars, history,
                   phase, attempted, ctx>>

\* The wave is computed once, when the previous one is exhausted.
NextWave ==
    /\ phase = "tick" /\ wave = {}
    /\ Ready \ attempted # {}
    /\ wave' = Ready \ attempted
    /\ UNCHANGED <<graphVars, state, result, eventVars, history,
                   phase, attempted, ctx>>

\* tick() that returns after its first wave.
EndTickAfterOneWave ==
    /\ phase = "tick" /\ wave = {}
    /\ attempted # {} \/ Ready = {}
    /\ phase' = "idle" /\ attempted' = {} /\ ctx' = EmptyCtx
    /\ UNCHANGED <<graphVars, state, result, eventVars, history, wave>>

\* Nothing left to try: tick() returns and its locals are gone.
EndTick ==
    /\ phase = "tick" /\ wave = {}
    /\ Ready \ attempted = {}
    /\ phase' = "idle" /\ attempted' = {} /\ ctx' = EmptyCtx
    /\ UNCHANGED <<graphVars, state, result, eventVars, history, wave>>

\* The bookkeeping common to every node execution of the wave loop.
Attempt(n, outcome, value) ==
    /\ phase = "tick" /\ n \in wave
    /\ Len(history) < MaxHistory
    /\ wave' = wave \ {n}
    /\ attempted' = attempted \cup {n}
    /\ history' = Append(history, Entry(n, outcome, value))
    /\ UNCHANGED <<graphVars, eventVars, phase>>

\* node.execute(ctx) returned value and left the node in state st.
Return(n, st, outcome, value) ==
    /\ Attempt(n, outcome, value)
    /\ state' = [state EXCEPT ![n] = st]
    /\ result' = [result EXCEPT ![n] = value]
    /\ ctx' = [ctx EXCEPT ![n] = value]

\* node.execute(ctx) raised; value is what the handler leaves as _result.
Raise(n, value) ==
    /\ Attempt(n, "error", None)
    /\ state' = [state EXCEPT ![n] = "FAILED"]
    /\ result' = [result EXCEPT ![n] = value]
    /\ UNCHANGED ctx

\* EventNode.execute: the payload becomes the result.
FireEvent(n) == Return(n, "DONE", "done", eventValue[n])

\* ConditionNode.execute: a false condition goes back to PENDING.
FireCondition(n, truth) ==
    IF truth = "true"
    THEN Return(n, "DONE", "done", truth)
    ELSE Return(n, "PENDING", "false", truth)

\* ActionNode.execute and TransformNode.execute.
FireAction(n, v) == Return(n, "DONE", "done", v)

\* The predicate raised: _result becomes False.
FailCondition(n) == Raise(n, "false")

\* The action raised: _result is what it was.
FailAction(n) == Raise(n, result[n])

-----------------------------------------------------------------------------
Edit ==
    \/ \E n \in Node : AddNode(n)
    \/ \E e \in Edge : AddEdge(e[1], e[2])
    \/ \E n \in EventNode, v \in Value \cup {None} : Trigger(n, v)
    \/ Reset

Fire ==
    \/ \E n \in EventNode : FireEvent(n)
    \/ \E n \in ConditionNode, truth \in {"true", "false"} :
          FireCondition(n, truth)
    \/ \E n \in ActionNode, v \in Value \cup {None} : FireAction(n, v)
    \/ \E n \in ConditionNode : FailCondition(n)
    \/ \E n \in ActionNode : FailAction(n)

TickStep == NextWave \/ Fire \/ EndTick

Next == Edit \/ BeginTick \/ TickStep

Spec == Init /\ [][Next]_vars

\* tick() is a plain loop: once called it runs on, whatever else happens.
\* That is true if the callables return, which no callable is bound to do.
FairSpec == Spec /\ WF_vars(TickStep)

-----------------------------------------------------------------------------
(* Properties.                                                             *)

\* Every variable of the scheduler keeps to the values the code gives it.
TypeOK ==
    /\ nodes \subseteq Node
    /\ edges \subseteq nodes \X nodes
    /\ state \in [Node -> {"PENDING", "READY", "DONE", "FAILED"}]
    /\ result \in [Node -> Result]
    /\ triggered \in [EventNode -> BOOLEAN]
    /\ eventValue \in [EventNode -> Value \cup {None}]
    /\ history \in Seq([node : Node, outcome : {"done", "false", "error"},
                        result : Result])
    /\ phase \in {"idle", "tick"}
    /\ wave \subseteq nodes
    /\ attempted \subseteq nodes
    /\ ctx \in [Node -> Result \cup {Missing}]

\* Causality (MODEL.md, Invariant I): a node enters the history only when the
\* history already shows each of its causes completed, also when the edge was
\* added late, the cause was triggered again or failed, or the graph reset.
CausesFirst ==
    [][ Len(history') > Len(history)
          => Preds(history'[Len(history')].node) \subseteq Completed(history) ]_vars

\* Between two resets an action, a transform or a condition that held runs
\* once: only a condition that was false is evaluated again.
FireOnce ==
    \A i, j \in DOMAIN history :
        /\ i < j
        /\ history[i].node = history[j].node
        /\ history[i].node \notin EventNode
        => history[i].outcome = "false"

\* i is the last entry of history about n.
LastAbout(n, i) ==
    /\ i \in DOMAIN history /\ history[i].node = n
    /\ \A j \in DOMAIN history : history[j].node = n => j <= i

\* Entry e accounts for the state and the result node n has now.
AccountsFor(e, n) ==
    /\ e.outcome = "done" =>
          /\ result[n] = e.result
          /\ state[n] = "DONE" \/ (n \in EventNode /\ state[n] = "READY")
    /\ e.outcome = "false" =>
          n \in ConditionNode /\ state[n] = "PENDING" /\ result[n] = "false"
    /\ e.outcome = "error" => state[n] = "FAILED"

\* What the history says last about a node is what the node says of itself:
\* state and result can be read off the history, for a node that failed or was
\* triggered again as well, and a node the history never mentions has no result.
HistoryExplainsNodes ==
    \A n \in nodes :
        /\ (\A i \in DOMAIN history : history[i].node # n)
             => state[n] \in {"PENDING", "READY"} /\ result[n] = None
        /\ \A i \in DOMAIN history :
             LastAbout(n, i) => AccountsFor(history[i], n)

\* One call of tick() runs a causal chain to its end (the comment of tick(),
\* causal_engine.py:150-154): when it returns, the only nodes that could still
\* run are conditions found false in this call and events fired in this call
\* and triggered again by a callable.
TickDrains ==
    [][ phase = "tick" /\ phase' = "idle" =>
          \A n \in Ready :
             /\ n \in attempted
             /\ \/ n \in ConditionNode /\ result[n] = "false"
                \/ n \in EventNode /\ state[n] = "READY" ]_vars

\* A node about to run finds in the context the present result of each of its
\* causes, from this tick or an earlier one, and nothing where that is None.
ConsumersSeeCauses ==
    \A n \in wave : \A p \in Preds(n) :
        IF result[p] = None THEN ctx[p] \in {None, Missing}
                            ELSE ctx[p] = result[p]

\* A call of tick() returns, also on a cyclic graph, with conditions that stay
\* false and with callables that trigger events over and over.
TickReturns == phase = "tick" ~> phase = "idle"

\* "Reset the node to its initial PENDING state." (node_types.py:48), for the
\* whole graph by CausalGraph.reset: after it no node is ready that would not
\* have been ready had the graph just been built, that is, no event node is.
ResetForgetsTriggers ==
    [][ history # <<>> /\ history' = <<>> =>
          \A n \in nodes \cap EventNode : ~triggered'[n] ]_vars

=============================================================================

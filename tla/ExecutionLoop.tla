--------------------------- MODULE ExecutionLoop ---------------------------
(***************************************************************************)
(* The main loop: runtime/execution_loop.py over the graph of CausalGraph, *)
(* with the queue of the reality layers, the event bus and the state       *)
(* store, and with rules that inject rules.                                *)
(*                                                                         *)
(* One thread.  start() and tick_once() are split where code of the user   *)
(* runs: in bus subscribers, in the callables of the nodes and in on_tick  *)
(* callbacks.  That code may publish, inject layer events, trigger nodes,  *)
(* set the store, stop the loop and, outside the nodes' callables, inject  *)
(* rules; subscribers and callbacks may raise, which ends the call.  It    *)
(* does not call start() or tick_once() again.                             *)
(***************************************************************************)
EXTENDS CausalGraph

CONSTANTS
    BuildOrder,     \* the nodes the client registers, in this order
    BuildEdges,     \* the edges the client adds
    Type, TypeOf,   \* event types, and the one each event node waits for
    Payload,        \* the data an event may carry, a set of values
    HandTriggered,  \* the event nodes that user code triggers
    TriggerPayload, \* the data it passes to trigger()
    Key, Val,       \* keys of the state store, and what it holds under them
    Passing,        \* what a condition finds satisfied under its metric
    MetricOf,       \* the key each condition reads
    Outcome,        \* what each action may return
    Failing,        \* the actions that may raise
    Writes,         \* the entries of a value that is a dict
    Emits,          \* the rules of a value with the key "__inject_rules__"
    RuleNodes,      \* what each rule is compiled into: its condition, its THEN
                    \* action and its CAUSE actions, each linked to the next
    Garbled,        \* a rule text that the parser refuses
    UserRules,      \* what user code passes to inject_rule()
    MaxTicks,       \* max_ticks
    TickBound,      \* bound: calls of _do_tick
    MaxEvents       \* bound: events injected or published

Rule == DOMAIN RuleNodes

NodesOfRule(r) == {RuleNodes[r][i] : i \in DOMAIN RuleNodes[r]}

Links(r) == {<<RuleNodes[r][i - 1], RuleNodes[r][i]>> : i \in 2 .. Len(RuleNodes[r])}

\* The nodes that the client has added.
Built == {BuildOrder[i] : i \in DOMAIN BuildOrder}

ASSUME LoopBounds ==
    /\ MaxTicks \in Nat /\ TickBound \in Nat /\ MaxEvents \in Nat
    /\ MaxTicks <= TickBound
    /\ MaxHistory >= TickBound * Cardinality(Node)

ASSUME LoopConstants ==
    /\ BuildOrder \in Seq(Node)
    /\ BuildEdges \subseteq Edge
    /\ TypeOf \in [EventNode -> Type] /\ MetricOf \in [ConditionNode -> Key]
    /\ HandTriggered \subseteq EventNode
    /\ Payload \subseteq Value /\ TriggerPayload \subseteq Value \cup {None}
    /\ Passing \subseteq Val /\ Missing \notin Val
    /\ Failing \subseteq ActionNode
    /\ Outcome \in [ActionNode -> SUBSET (Value \cup {None})]
    /\ RuleNodes \in [Rule -> Seq(Node)]
    /\ \A r \in Rule : Links(r) \subseteq Edge
    /\ Garbled \notin Rule /\ UserRules \subseteq Rule \cup {Garbled}
    /\ \A v \in DOMAIN Emits : Emits[v] \in Seq(Rule \cup {Garbled})
    /\ \A v \in DOMAIN Writes : Writes[v] \in [DOMAIN Writes[v] -> Val]

\* The compiler makes a condition and its actions anew for each rule, so nobody
\* else has them to link to.
ASSUME RulesAreNew ==
    /\ BuildEdges \subseteq Built \X Built
    /\ \A r \in Rule :
          /\ Len(RuleNodes[r]) >= 2 /\ RuleNodes[r][1] \in ConditionNode
          /\ \A i, j \in DOMAIN RuleNodes[r] :
                /\ i > 1 => RuleNodes[r][i] \in ActionNode
                /\ i # j => RuleNodes[r][i] # RuleNodes[r][j]
          /\ NodesOfRule(r) \cap Built = {}
          /\ \A q \in Rule \ {r} : NodesOfRule(q) \cap NodesOfRule(r) = {}

VARIABLES
    pc,        \* where the call is, "idle" if there is none
    caller,    \* the call that runs ticks: "start", "once" or "none"
    ticks,     \* _tick_count
    running,   \* _running
    queue,     \* _injected_events of the layers
    draining,  \* _do_tick: the drained events not yet published
    bus,       \* the bus history, oldest first
    store,     \* the data of the state store
    snap,      \* _do_tick: the snapshot the context is made of
    executed,  \* _do_tick: what graph.tick() returns
    written,   \* _do_tick: how many of executed have been written back
    pending,   \* _do_tick: pending_rules
    meanwhile  \* history variable: what callables have set in the store since snap

callVars   == <<caller, ticks, running>>
eventLists == <<queue, draining, bus>>
locals     == <<snap, executed, written, pending, meanwhile>>
loopVars   == <<pc, callVars, eventLists, store, locals>>
allVars    == <<vars, loopVars>>

NoData == [k \in Key |-> Missing]

Event == [type : Type, data : Payload]

\* A compiled predicate: a metric that is absent does not satisfy it.
Holds(c, data) == data[MetricOf[c]] \in Passing

\* get_events(node.event_type), as positions in the history.
Matching(n) == {i \in DOMAIN bus : bus[i].type = TypeOf[n]}

\* The event nodes that _sync_event_nodes triggers.
Awaited == {n \in nodes \cap EventNode : ~triggered[n] /\ Matching(n) # {}}

Compiled(r) ==
    /\ \A i \in DOMAIN RuleNodes[r] : RuleNodes[r][i] \in nodes
    /\ Links(r) \subseteq edges

-----------------------------------------------------------------------------
(* The client builds the graph before the first call.                      *)

LoopInit ==
    /\ Init
    /\ pc = "build" /\ caller = "none" /\ ticks = 0 /\ running = FALSE
    /\ queue = <<>> /\ draining = <<>> /\ bus = <<>>
    /\ store = NoData /\ snap = NoData
    /\ executed = <<>> /\ written = 0 /\ pending = <<>> /\ meanwhile = NoData

BuildNode ==
    /\ pc = "build"
    /\ \E i \in DOMAIN BuildOrder :
          /\ \A j \in 1 .. (i - 1) : BuildOrder[j] \in nodes
          /\ AddNode(BuildOrder[i])
    /\ UNCHANGED loopVars

BuildEdge ==
    /\ pc = "build"
    /\ \E e \in BuildEdges \ edges : AddEdge(e[1], e[2])
    /\ UNCHANGED loopVars

BuildDone ==
    /\ pc = "build"
    /\ Built \subseteq nodes /\ BuildEdges \subseteq edges
    /\ pc' = "idle"
    /\ UNCHANGED <<vars, callVars, eventLists, store, locals>>

-----------------------------------------------------------------------------
(* What code of the user may do.                                           *)

\* Between two calls, in a subscriber, in a callback, in a node's callable.
InUserCode ==
    \/ pc \in {"idle", "subscribers", "callbacks"}
    \/ pc = "graph" /\ InCallable

Room == Len(queue) + Len(draining) + Len(bus) < MaxEvents

\* layer.inject_event
InjectEvent(ev) ==
    /\ InUserCode /\ Room
    /\ queue' = Append(queue, ev)
    /\ UNCHANGED <<vars, pc, callVars, draining, bus, store, locals>>

\* bus.publish; what its subscribers do is user code as well.
Publish(ev) ==
    /\ InUserCode /\ Room
    /\ bus' = Append(bus, ev)
    /\ UNCHANGED <<vars, pc, callVars, queue, draining, store, locals>>

\* node.trigger
UserTrigger(n, v) ==
    /\ InUserCode
    /\ Trigger(n, v)
    /\ UNCHANGED loopVars

\* state.set
SetStore(k, v) ==
    /\ InUserCode
    /\ store' = [store EXCEPT ![k] = v]
    /\ meanwhile' = IF pc = "graph" THEN [meanwhile EXCEPT ![k] = v] ELSE meanwhile
    /\ UNCHANGED <<vars, pc, callVars, eventLists, snap, executed, written, pending>>

\* stop(); before start() it is forgotten, since start() sets _running.
Stop ==
    /\ InUserCode
    /\ running' = FALSE
    /\ UNCHANGED <<vars, pc, caller, ticks, eventLists, store, locals>>

\* inject_rule(), from a subscriber as well ("hotload"); each rule once, to keep
\* the nodes few.
InjectRule(r) ==
    /\ pc \in {"idle", "subscribers", "callbacks"}
    /\ r \in Rule => ~Compiled(r)
    /\ pending' = <<r>>
    /\ pc' = IF pc = "subscribers" THEN "hotload" ELSE "inject"
    /\ UNCHANGED <<vars, callVars, eventLists, store, snap, executed, written, meanwhile>>

UserStep ==
    \/ \E ev \in Event : InjectEvent(ev) \/ Publish(ev)
    \/ \E n \in HandTriggered, v \in TriggerPayload : UserTrigger(n, v)
    \/ \E k \in Key, v \in Val : SetStore(k, v)
    \/ \E r \in UserRules : InjectRule(r)
    \/ Stop

-----------------------------------------------------------------------------
(* start() and tick_once().                                                *)

Start ==
    /\ pc = "idle"
    /\ running' = TRUE /\ caller' = "start" /\ pc' = "loop"
    /\ UNCHANGED <<vars, ticks, eventLists, store, locals>>

TickOnce ==
    /\ pc = "idle"
    /\ ticks < TickBound
    /\ ticks' = ticks + 1 /\ caller' = "once" /\ pc' = "drain"
    /\ UNCHANGED <<vars, running, eventLists, store, locals>>

\* The condition of the while loop holds: another tick.
LoopAgain ==
    /\ pc = "loop"
    /\ running /\ ticks < MaxTicks
    /\ ticks' = ticks + 1 /\ pc' = "drain"
    /\ UNCHANGED <<vars, caller, running, eventLists, store, locals>>

ForgetLocals ==
    /\ draining' = <<>> /\ snap' = NoData
    /\ executed' = <<>> /\ written' = 0 /\ pending' = <<>> /\ meanwhile' = NoData

\* start() returns.
Leave ==
    /\ running' = FALSE /\ caller' = "none" /\ pc' = "idle"
    /\ ForgetLocals
    /\ UNCHANGED <<vars, ticks, queue, bus, store>>

LoopExit ==
    /\ pc = "loop"
    /\ ~(running /\ ticks < MaxTicks)
    /\ Leave

\* An exception leaves _do_tick, start() and tick_once() alike; what was
\* drained or pending is lost, and start() has not reset _running.
Abort ==
    /\ caller' = "none" /\ pc' = "idle"
    /\ ForgetLocals
    /\ UNCHANGED <<vars, ticks, running, queue, bus, store>>

-----------------------------------------------------------------------------
(* _do_tick, steps 1 to 3: events and context.                             *)

\* drain that hands the events out without removing them from the layers.
DrainLayersKept ==
    /\ pc = "drain"
    /\ draining' = queue /\ pc' = "publish"
    /\ UNCHANGED <<vars, callVars, queue, bus, store, locals>>

DrainLayers ==
    /\ pc = "drain"
    /\ draining' = queue /\ queue' = <<>> /\ pc' = "publish"
    /\ UNCHANGED <<vars, callVars, bus, store, locals>>

PublishNext ==
    /\ pc = "publish" /\ draining # <<>>
    /\ bus' = Append(bus, Head(draining)) /\ draining' = Tail(draining)
    /\ pc' = "subscribers"
    /\ UNCHANGED <<vars, callVars, queue, store, locals>>

SubscribersReturn ==
    /\ pc = "subscribers" /\ pc' = "publish"
    /\ UNCHANGED <<vars, callVars, eventLists, store, locals>>

SubscriberRaises == pc = "subscribers" /\ Abort

\* _sync_event_nodes that also triggers what has been triggered before.
SyncAgain(n) ==
    /\ pc = "publish" /\ draining = <<>>
    /\ n \in nodes /\ Matching(n) # {} /\ state[n] # "READY"
    /\ \E last \in Matching(n) :
          /\ \A i \in Matching(n) : i <= last
          /\ Trigger(n, bus[last].data)
    /\ UNCHANGED loopVars

\* _sync_event_nodes that takes the oldest event, not the latest.
SyncOldest(n) ==
    /\ pc = "publish" /\ draining = <<>>
    /\ n \in Awaited
    /\ \E first \in Matching(n) :
          /\ \A i \in Matching(n) : i >= first
          /\ Trigger(n, bus[first].data)
    /\ UNCHANGED loopVars

\* _sync_event_nodes, a step for each node: the latest event's data.
SyncEventNode(n) ==
    /\ pc = "publish" /\ draining = <<>>
    /\ n \in Awaited
    /\ \E last \in Matching(n) :
          /\ \A i \in Matching(n) : i <= last
          /\ Trigger(n, bus[last].data)
    /\ UNCHANGED loopVars

\* _do_tick that syncs the event nodes before it publishes the layers' events.
BeginUnsynced ==
    /\ pc = "publish" /\ draining = <<>>
    /\ BeginTick
    /\ snap' = store /\ pc' = "graph"
    /\ UNCHANGED <<callVars, eventLists, store, executed, written, pending, meanwhile>>

BeginGraphTick ==
    /\ pc = "publish" /\ draining = <<>> /\ Awaited = {}
    /\ BeginTick
    /\ snap' = store /\ pc' = "graph"
    /\ UNCHANGED <<callVars, eventLists, store, executed, written, pending, meanwhile>>

-----------------------------------------------------------------------------
(* Step 4: graph.tick(ctx).                                                *)

GraphWave == pc = "graph" /\ NextWave /\ UNCHANGED loopVars

\* What n's execution did to executed, when it did not raise.
Executed(n) ==
    /\ pc = "graph"
    /\ executed' = Append(executed, n)
    /\ UNCHANGED <<pc, callVars, eventLists, store, snap, written, pending, meanwhile>>

RunEvent(n) == FireEvent(n) /\ Executed(n)

\* tick() that returns only the nodes that are DONE.
RunConditionDoneOnly(n) ==
    IF Holds(n, snap) THEN FireCondition(n, "true") /\ Executed(n)
    ELSE pc = "graph" /\ FireCondition(n, "false") /\ UNCHANGED loopVars

\* tick() that is given the store itself, not a snapshot of it.
RunConditionLive(n) ==
    /\ FireCondition(n, IF Holds(n, store) THEN "true" ELSE "false")
    /\ Executed(n)

\* The truth is read from the snapshot; a false condition counts as executed.
RunCondition(n) ==
    /\ FireCondition(n, IF Holds(n, snap) THEN "true" ELSE "false")
    /\ Executed(n)

RunAction(n) == \E v \in Outcome[n] : FireAction(n, v) /\ Executed(n)

RunRaises(n) == pc = "graph" /\ n \in Failing /\ FailAction(n) /\ UNCHANGED loopVars

GraphDone ==
    /\ pc = "graph"
    /\ EndTick
    /\ pc' = "write"
    /\ UNCHANGED <<callVars, eventLists, store, locals>>

-----------------------------------------------------------------------------
(* Steps 5 to 7: write back, inject, call back.                            *)

Updated(data, v) ==
    IF v \in DOMAIN Writes
    THEN [k \in Key |-> IF k \in DOMAIN Writes[v] THEN Writes[v][k] ELSE data[k]]
    ELSE data

\* Write-back that stores the other entries of a rule emission, too.
WriteNextAll ==
    /\ pc = "write" /\ written < Len(executed)
    /\ LET v == result[executed[written + 1]]
       IN  /\ pending' = IF v \in DOMAIN Emits THEN pending \o Emits[v] ELSE pending
           /\ store' = Updated(store, v)
    /\ written' = written + 1
    /\ UNCHANGED <<vars, pc, callVars, eventLists, snap, executed, meanwhile>>

\* A rule emission is collected, any other dict goes to the store.
WriteNext ==
    /\ pc = "write" /\ written < Len(executed)
    /\ LET v == result[executed[written + 1]]
       IN  IF v \in DOMAIN Emits
           THEN pending' = pending \o Emits[v] /\ UNCHANGED store
           ELSE store' = Updated(store, v) /\ UNCHANGED pending
    /\ written' = written + 1
    /\ UNCHANGED <<vars, pc, callVars, eventLists, snap, executed, meanwhile>>

WriteDone ==
    /\ pc = "write" /\ written = Len(executed)
    /\ pc' = "inject" /\ meanwhile' = NoData
    /\ UNCHANGED <<vars, callVars, eventLists, store, snap, executed, written, pending>>

\* A rule is being compiled.
Injecting == pc \in {"inject", "hotload"} /\ pending # <<>>

\* The compiler's calls of add_node, in the order of the rule's text.
CompileNode ==
    /\ Injecting /\ Head(pending) \in Rule
    /\ LET chain == RuleNodes[Head(pending)]
       IN  \E i \in DOMAIN chain :
              /\ \A j \in 1 .. (i - 1) : chain[j] \in nodes
              /\ AddNode(chain[i])
    /\ UNCHANGED loopVars

\* Its calls of add_edge, between those of add_node; nobody else runs meanwhile.
CompileEdge ==
    /\ Injecting /\ Head(pending) \in Rule
    /\ \E e \in Links(Head(pending)) \ edges : AddEdge(e[1], e[2])
    /\ UNCHANGED loopVars

\* Injection that compiles the first rule over and over.
CompileDoneKept ==
    /\ Injecting /\ Head(pending) \in Rule
    /\ Compiled(Head(pending))
    /\ UNCHANGED allVars

\* Injection that goes no further than the first rule.
CompileDoneOnce ==
    /\ Injecting /\ Head(pending) \in Rule
    /\ Compiled(Head(pending))
    /\ pending' = <<>>
    /\ UNCHANGED <<vars, pc, callVars, eventLists, store, snap, executed, written, meanwhile>>

\* The rule is in the graph; on to the next.
CompileDone ==
    /\ Injecting /\ Head(pending) \in Rule
    /\ Compiled(Head(pending))
    /\ pending' = Tail(pending)
    /\ UNCHANGED <<vars, pc, callVars, eventLists, store, snap, executed, written, meanwhile>>

\* The parser raises ValueError before anything is added to the graph.
RuleRefused ==
    /\ Injecting /\ Head(pending) = Garbled
    /\ Abort

\* On to the callbacks, or back to the user who called inject_rule().
InjectDone ==
    /\ pc \in {"inject", "hotload"} /\ pending = <<>>
    /\ pc' = IF pc = "hotload" THEN "subscribers"
             ELSE IF caller = "none" THEN "idle" ELSE "callbacks"
    /\ UNCHANGED <<vars, callVars, eventLists, store, locals>>

CallbackRaises == pc = "callbacks" /\ Abort

\* tick_once() returns; it has not looked at _running.
OnceReturns ==
    /\ pc = "callbacks" /\ caller = "once"
    /\ caller' = "none" /\ pc' = "idle"
    /\ ForgetLocals
    /\ UNCHANGED <<vars, ticks, running, queue, bus, store>>

\* Something was executed: back to the while loop.
NextTick ==
    /\ pc = "callbacks" /\ caller = "start" /\ executed # <<>>
    /\ pc' = "loop"
    /\ ForgetLocals
    /\ UNCHANGED <<vars, callVars, queue, bus, store>>

\* "graph is quiescent": nothing was executed.
Break == pc = "callbacks" /\ caller = "start" /\ executed = <<>> /\ Leave

-----------------------------------------------------------------------------
Building == BuildNode \/ BuildEdge \/ BuildDone

GraphStep ==
    \/ GraphWave
    \/ \E n \in EventNode : RunEvent(n)
    \/ \E n \in ConditionNode : RunCondition(n)
    \/ \E n \in ActionNode : RunAction(n) \/ RunRaises(n)
    \/ GraphDone

LoopStep ==
    \/ LoopAgain \/ LoopExit
    \/ DrainLayers \/ PublishNext \/ SubscribersReturn \/ SubscriberRaises
    \/ \E n \in EventNode : SyncEventNode(n)
    \/ BeginGraphTick \/ GraphStep
    \/ WriteNext \/ WriteDone
    \/ CompileNode \/ CompileEdge \/ CompileDone \/ RuleRefused \/ InjectDone
    \/ CallbackRaises \/ OnceReturns \/ NextTick \/ Break

LoopNext == Building \/ UserStep \/ Start \/ TickOnce \/ LoopStep

LoopSpec == LoopInit /\ [][LoopNext]_allVars

-----------------------------------------------------------------------------
(* Properties.                                                             *)

\* Every variable of the loop keeps to the values the code gives it.
LoopTypeOK ==
    /\ pc \in {"build", "idle", "loop", "drain", "publish", "subscribers",
               "graph", "write", "inject", "hotload", "callbacks"}
    /\ caller \in {"none", "start", "once"}
    /\ ticks \in 0 .. TickBound
    /\ running \in BOOLEAN
    /\ queue \in Seq(Event) /\ draining \in Seq(Event) /\ bus \in Seq(Event)
    /\ store \in [Key -> Val \cup {Missing}]
    /\ snap \in [Key -> Val \cup {Missing}]
    /\ executed \in Seq(nodes)
    /\ written \in 0 .. Len(executed)
    /\ pending \in Seq(Rule \cup {Garbled})
    /\ meanwhile \in [Key -> Val \cup {Missing}]
    /\ phase = "tick" <=> pc = "graph"

\* The bus keeps its history and every tick searches it, yet an event node
\* that nobody triggers by hand fires once.
BusFiresOnce ==
    \A i, j \in DOMAIN history :
        history[i].node \in EventNode \ HandTriggered /\ history[i].node = history[j].node => i = j

\* What is under k after a tick in which no result has that key.
Otherwise(k) == IF meanwhile[k] = Missing THEN snap[k] ELSE meanwhile[k]

\* MODEL.md, Invariant I: what a tick puts into the store is the result of a
\* node that ran in the tick, the last to write that key, and is no rule, also
\* when a callable has set the key since the snapshot; where no result has the
\* key, what the callable has set, or what the snapshot shows, is there still.
CausalConsistency ==
    [][ pc = "write" /\ pc' = "inject" =>
          LET v(i) == result[executed[i]]
              Wrote(i, k) == /\ v(i) \in DOMAIN Writes \ DOMAIN Emits
                             /\ k \in DOMAIN Writes[v(i)]
          IN  \A k \in Key :
                 \/ /\ store[k] = Otherwise(k)
                    /\ \A i \in DOMAIN executed : ~Wrote(i, k)
                 \/ \E i \in DOMAIN executed :
                       /\ Wrote(i, k) /\ store[k] = Writes[v(i)][k]
                       /\ \A j \in DOMAIN executed : Wrote(j, k) => j <= i ]_allVars

\* When a tick reports that nothing was executed, which makes start() return,
\* no node is ready, although nodes that failed are not reported.
QuiescentWhenNothingRan ==
    [][ pc = "graph" /\ pc' = "write" /\ executed = <<>> => Ready = {} ]_allVars

\* "making the new rules available on the very next tick" (execution_loop.py,
\* module comment): when the graph runs, every rule that a completed node
\* returned in an earlier tick has been compiled into the graph.
EmittedRulesArrive ==
    [][ pc = "publish" /\ pc' = "graph" =>
          \A n \in nodes :
             state[n] = "DONE" /\ result[n] \in DOMAIN Emits =>
               LET rules == Emits[result[n]]
               IN  \A i \in DOMAIN rules : rules[i] \in Rule => Compiled(rules[i]) ]_allVars

\* A rule compiled into a graph that has run takes effect like any other, from
\* the next tick on: at the end of each tick its condition is DONE if it holds
\* of the snapshot, and each of its actions has run (or raised) exactly if what
\* stands before it in the rule is DONE, whatever ran or was triggered before.
RulesTakeEffect ==
    [][ pc = "graph" /\ pc' = "write" =>
          \A r \in {q \in Rule : Compiled(q)} :
             LET chain == RuleNodes[r]
             IN  /\ Holds(chain[1], snap) => state[chain[1]] = "DONE"
                 /\ \A i \in 2 .. Len(chain) :
                       state[chain[i]] \in {"DONE", "FAILED"} <=> state[chain[i - 1]] = "DONE"
      ]_allVars

\* start() returns, though a condition that stays false keeps the loop busy.
StartReturns == caller = "start" ~> caller = "none"

=============================================================================

------------------------ MODULE LoopAndReplayProofs ------------------------
(***************************************************************************)
(* Proofs about the main loop, for every graph and every set of rules,     *)
(* events, values and tick bounds, and about rule texts and their second   *)
(* run, for every text.                                                    *)
(*                                                                         *)
(* The loop.  First the types, which say that what is on the bus may be a  *)
(* payload of trigger().  With them every step of the loop is a step that  *)
(* CausalGraph allows a client, so that the scheduler's theorems hold in   *)
(* the loop.  Then what start() makes of a tick that executed nothing, all *)
(* the types, and three ways through a tick: from the bus to the event     *)
(* nodes, from results to the store, and from results to new rules in the  *)
(* graph; and what a rule does once it is there.                           *)
(*                                                                         *)
(* Events.  Of those sent, the first so many are past: on the bus, or lost *)
(* to an exception.  What is drained, and what waits in the layers, are    *)
(* the rest, in order; and for each tick it is known how much of the bus   *)
(* its event nodes have heard.                                             *)
(*                                                                         *)
(* The replay.  A tick is stated as a relation between the moments before  *)
(* and after it, with no word of the order in which nodes are executed;    *)
(* if no two writers race, the relation is a function.  Each run is shown  *)
(* to go through a sequence of moments so related, by an invariant with a  *)
(* part for each place of the loop.  Two runs that are given the same then *)
(* go through the same moments, and a replay is given the same: the graph  *)
(* from the same text, or the graph itself when no rule was added.         *)
(*                                                                         *)
(* The text.  The parser's blocks are the stretches between separators, a  *)
(* block's clauses are the places of one rule, and in compilation order    *)
(* each place has the one before it for its cause.                         *)
(***************************************************************************)
EXTENDS EventDelivery, CausalReplay, CausalGraphProofs, DataInduction


\* Appending to and taking from a sequence.
LEMMA QueueFacts ==
    ASSUME NEW S, NEW q \in Seq(S)
    PROVE  /\ \A e \in S : Append(q, e) \in Seq(S)
           /\ q # <<>> => Head(q) \in S /\ Tail(q) \in Seq(S)
           /\ <<>> \in Seq(S)
           /\ \A i \in DOMAIN q : q[i] \in S
OBVIOUS

\* The event lists hold events.
EventsTyped ==
    queue \in Seq(Event) /\ draining \in Seq(Event) /\ bus \in Seq(Event)

\* What runs between the steps of the graph leaves the event lists alone, or
\* moves events between them.
LEMMA EventsStep == EventsTyped /\ [LoopNext]_allVars => EventsTyped'
<1> SUFFICES ASSUME EventsTyped, [LoopNext]_allVars PROVE EventsTyped'
  OBVIOUS
<1> USE DEF EventsTyped, loopVars, callVars, eventLists, locals
<1>1. CASE Building
  BY <1>1 DEF Building, BuildNode, BuildEdge, BuildDone
<1>2. CASE UserStep
  <2>1. ASSUME NEW ev \in Event, InjectEvent(ev) \/ Publish(ev) PROVE EventsTyped'
    BY <2>1, QueueFacts DEF InjectEvent, Publish
  <2> QED
    BY <1>2, <2>1 DEF UserStep, UserTrigger, SetStore, InjectRule, Stop
<1>3. CASE Start \/ TickOnce
  BY <1>3 DEF Start, TickOnce
<1>4. CASE LoopStep
  <2>1. CASE DrainLayers
    BY <2>1 DEF DrainLayers
  <2>2. CASE PublishNext
    BY <2>2, QueueFacts DEF PublishNext
  <2>3. CASE LoopAgain \/ SubscribersReturn \/ BeginGraphTick \/ WriteNext
             \/ WriteDone \/ CompileNode \/ CompileEdge \/ CompileDone
             \/ InjectDone \/ \E n \in EventNode : SyncEventNode(n)
    BY <2>3 DEF LoopAgain, SubscribersReturn, BeginGraphTick, WriteNext,
                WriteDone, CompileNode, CompileEdge, CompileDone, InjectDone,
                SyncEventNode
  <2>4. CASE LoopExit \/ SubscriberRaises \/ RuleRefused \/ CallbackRaises
             \/ OnceReturns \/ NextTick \/ Break
    BY <2>4, QueueFacts
       DEF LoopExit, SubscriberRaises, RuleRefused, CallbackRaises,
           OnceReturns, NextTick, Break, Leave, Abort, ForgetLocals
  <2>5. CASE GraphStep
    BY <2>5 DEF GraphStep, GraphWave, RunEvent, RunCondition, RunAction,
                RunRaises, GraphDone, Executed
  <2> QED
    BY <1>4, <2>1, <2>2, <2>3, <2>4, <2>5 DEF LoopStep
<1>5. CASE UNCHANGED allVars
  BY <1>5 DEF allVars
<1> QED
  BY <1>1, <1>2, <1>3, <1>4, <1>5 DEF LoopNext

-----------------------------------------------------------------------------
(* The loop as a client of the graph.                                      *)

\* Every step of the loop is a step that the graph's specification allows.
LEMMA LoopStepIsGraphStep ==
    EventsTyped /\ [LoopNext]_allVars => [Next]_vars
<1> SUFFICES ASSUME EventsTyped, [LoopNext]_allVars PROVE [Next]_vars
  OBVIOUS
<1> USE LoopConstants
<1>1. CASE Building
  <2>1. CASE BuildNode
    <3>1. PICK i \in DOMAIN BuildOrder : AddNode(BuildOrder[i])
      BY <2>1 DEF BuildNode
    <3>2. BuildOrder[i] \in Node
      BY QueueFacts
    <3> QED
      BY <3>1, <3>2 DEF Next, Edit
  <2>2. CASE BuildEdge
    BY <2>2 DEF BuildEdge, Next, Edit
  <2>3. CASE BuildDone
    BY <2>3 DEF BuildDone
  <2> QED
    BY <1>1, <2>1, <2>2, <2>3 DEF Building
<1>2. CASE UserStep
  <2>1. ASSUME NEW n \in EventNode, NEW v \in TriggerPayload, UserTrigger(n, v)
        PROVE  [Next]_vars
    BY <2>1 DEF UserTrigger, Next, Edit
  <2> QED
    BY <1>2, <2>1 DEF UserStep, InjectEvent, Publish, SetStore, InjectRule, Stop
<1>3. CASE Start \/ TickOnce
  BY <1>3 DEF Start, TickOnce
<1>4. CASE LoopStep
  <2>1. ASSUME NEW n \in EventNode, SyncEventNode(n)
        PROVE  [Next]_vars
    <3>1. PICK last \in Matching(n) : Trigger(n, bus[last].data)
      BY <2>1 DEF SyncEventNode
    <3>2. bus[last] \in Event
      BY QueueFacts DEF EventsTyped, Matching
    <3>3. bus[last].data \in Value
      BY <3>2 DEF Event
    <3> QED
      BY <3>1, <3>3 DEF Next, Edit
  <2>2. CASE BeginGraphTick
    BY <2>2 DEF BeginGraphTick, Next
  <2>3. CASE GraphStep
    <3>1. ASSUME NEW n \in ActionNode, RunAction(n)
          PROVE  Fire
      <4>1. PICK v \in Outcome[n] : FireAction(n, v)
        BY <3>1 DEF RunAction
      <4>2. v \in Value \cup {None}
        OBVIOUS
      <4> QED
        BY <4>1, <4>2 DEF Fire
    <3>2. ASSUME NEW n \in ConditionNode, RunCondition(n)
          PROVE  Fire
      BY <3>2 DEF RunCondition, Fire
    <3>3. ASSUME NEW n \in EventNode, RunEvent(n)
          PROVE  Fire
      BY <3>3 DEF RunEvent, Fire
    <3>4. ASSUME NEW n \in ActionNode, RunRaises(n)
          PROVE  Fire
      BY <3>4 DEF RunRaises, Fire
    <3> QED
      BY <2>3, <3>1, <3>2, <3>3, <3>4
         DEF GraphStep, GraphWave, GraphDone, Next, TickStep
  <2>4. CASE CompileNode \/ CompileEdge
    <3>1. ASSUME NEW r \in Rule, NEW i \in DOMAIN RuleNodes[r],
                 AddNode(RuleNodes[r][i])
          PROVE  [Next]_vars
      <4>1. RuleNodes[r][i] \in Node
        BY LoopConstants
      <4> QED
        BY <3>1, <4>1 DEF Next, Edit
    <3>2. ASSUME NEW r \in Rule, NEW e \in Links(r), AddEdge(e[1], e[2])
          PROVE  [Next]_vars
      <4>1. e \in Edge
        BY LoopConstants
      <4> QED
        BY <3>2, <4>1 DEF Next, Edit
    <3> QED
      BY <2>4, <3>1, <3>2 DEF CompileNode, CompileEdge
  <2>5. CASE LoopAgain \/ DrainLayers \/ PublishNext \/ SubscribersReturn
             \/ WriteNext \/ WriteDone \/ CompileDone \/ InjectDone
    BY <2>5 DEF LoopAgain, DrainLayers, PublishNext, SubscribersReturn,
                WriteNext, WriteDone, CompileDone, InjectDone
  <2>6. CASE LoopExit \/ SubscriberRaises \/ RuleRefused \/ CallbackRaises
             \/ OnceReturns \/ NextTick \/ Break
    BY <2>6 DEF LoopExit, SubscriberRaises, RuleRefused, CallbackRaises,
                OnceReturns, NextTick, Break, Leave, Abort
  <2> QED
    BY <1>4, <2>1, <2>2, <2>3, <2>4, <2>5, <2>6 DEF LoopStep
<1>5. CASE UNCHANGED allVars
  BY <1>5 DEF allVars
<1> QED
  BY <1>1, <1>2, <1>3, <1>4, <1>5 DEF LoopNext

\* The loop uses the graph as CausalGraph lets a client use it.
LEMMA LoopUsesGraph == LoopSpec => Spec
<1>1. LoopInit => Init /\ EventsTyped
  BY QueueFacts DEF LoopInit, EventsTyped
<1> QED
  BY <1>1, EventsStep, LoopStepIsGraphStep, PTL DEF LoopSpec, Spec

\* What is proved of the scheduler is so inside the loop: effects run once,
\* causes come first and are seen, ticks drain, the history explains the nodes.
COROLLARY SchedulerInLoop ==
    LoopSpec => /\ [](TypeOK /\ FireOnce /\ HistoryExplainsNodes /\ ConsumersSeeCauses)
                /\ CausesFirst /\ TickDrains
<1>1. Spec => [](TypeOK /\ FireOnce /\ HistoryExplainsNodes /\ ConsumersSeeCauses)
  BY TypeCorrect, FiresOnce, HistoryIsExplanation, CausesVisible, PTL
<1> QED
  BY <1>1, LoopUsesGraph, CausalOrder, TickRunsToQuiescence, PTL

-----------------------------------------------------------------------------
(* A tick that executed nothing.                                           *)

\* The graph is inside its tick() exactly while the loop waits for it.
Phases == phase = "tick" <=> pc = "graph"

\* Outside a call of start() or tick_once() no tick is under way.
Callers ==
    caller = "none" => pc \in {"build", "idle", "inject"}

\* The list of executed nodes starts out empty in every tick.
StartsEmpty ==
    \/ caller = "none"
    \/ pc \in {"build", "idle", "loop", "drain", "publish", "subscribers", "hotload"}
    => executed = <<>>

\* While nothing is reported, only actions that raised have been attempted:
\* events and conditions are reported whatever comes of them.
OnlyRaised == pc = "graph" /\ executed = <<>> => attempted \subseteq ActionNode

LInv == EventsTyped /\ Phases /\ Callers /\ StartsEmpty /\ OnlyRaised

\* What a step of the graph's tick does to the loop.
LEMMA GraphStepFacts ==
    ASSUME GraphStep
    PROVE  /\ pc = "graph" /\ caller' = caller
           /\ \/ pc' = "graph" /\ phase' = phase
              \/ pc' = "write" /\ phase' = "idle" /\ EndTick
<1> USE DEF loopVars, callVars, eventLists, locals, Executed
<1>1. CASE GraphWave
  BY <1>1 DEF GraphWave, NextWave
<1>2. ASSUME NEW n \in EventNode, RunEvent(n)
      PROVE  pc = "graph" /\ pc' = "graph" /\ caller' = caller /\ phase' = phase
  BY <1>2 DEF RunEvent, FireEvent, Return, Attempt
<1>3. ASSUME NEW n \in ConditionNode, RunCondition(n)
      PROVE  pc = "graph" /\ pc' = "graph" /\ caller' = caller /\ phase' = phase
  BY <1>3 DEF RunCondition, FireCondition, Return, Attempt
<1>4. ASSUME NEW n \in ActionNode, RunAction(n) \/ RunRaises(n)
      PROVE  pc = "graph" /\ pc' = "graph" /\ caller' = caller /\ phase' = phase
  BY <1>4 DEF RunAction, FireAction, Return, Attempt, RunRaises, FailAction, Raise
<1>5. CASE GraphDone
  BY <1>5 DEF GraphDone, EndTick
<1> QED
  BY <1>1, <1>2, <1>3, <1>4, <1>5 DEF GraphStep

\* A step of the graph's tick reports a node or attempts an action in vain.
LEMMA GraphStepReports ==
    ASSUME GraphStep, OnlyRaised, pc' = "graph", executed' = <<>>
    PROVE  attempted' \subseteq ActionNode
<1> USE DEF loopVars, callVars, eventLists, locals, OnlyRaised
<1>1. CASE GraphWave
  BY <1>1 DEF GraphWave, NextWave
<1>2. \A n : executed' # Append(executed, n)
  OBVIOUS
<1>3. ASSUME NEW n \in ActionNode, RunRaises(n)
      PROVE  attempted' \subseteq ActionNode
  BY <1>3 DEF RunRaises, FailAction, Raise, Attempt
<1>4. ~GraphDone
  BY DEF GraphDone
<1> QED
  BY <1>1, <1>2, <1>3, <1>4
     DEF GraphStep, RunEvent, RunCondition, RunAction, Executed

\* The invariant is inductive, given that of the graph.
LEMMA LInvStep == IInv /\ LInv /\ [LoopNext]_allVars => LInv'
<1> SUFFICES ASSUME IInv, LInv, [LoopNext]_allVars PROVE LInv'
  OBVIOUS
<1>1. EventsTyped'
  BY EventsStep DEF LInv
<1>2. phase = "idle" => attempted = {}
  BY DEF IInv, Quiet
<1> USE DEF LInv, Phases, Callers, StartsEmpty, OnlyRaised,
            loopVars, callVars, eventLists, locals
<1>3. CASE Building
  BY <1>1, <1>3 DEF Building, BuildNode, BuildEdge, BuildDone, AddNode, AddEdge,
                    tickVars, vars
<1>4. CASE UserStep
  BY <1>1, <1>4 DEF UserStep, InjectEvent, Publish, UserTrigger, Trigger, SetStore,
                    InjectRule, Stop, tickVars, vars
<1>5. CASE Start \/ TickOnce
  BY <1>1, <1>5 DEF Start, TickOnce, vars
<1>6. CASE LoopStep
  <2>1. CASE DrainLayers \/ PublishNext \/ LoopAgain \/ SubscribersReturn
             \/ WriteNext \/ WriteDone \/ CompileDone \/ InjectDone
    BY <1>1, <2>1 DEF DrainLayers, PublishNext, LoopAgain, SubscribersReturn,
                      WriteNext, WriteDone, CompileDone, InjectDone, vars
  <2>2. CASE BeginGraphTick
    BY <1>1, <1>2, <2>2 DEF BeginGraphTick, BeginTick
  <2>3. CASE CompileNode \/ CompileEdge \/ \E n \in EventNode : SyncEventNode(n)
    BY <1>1, <2>3 DEF CompileNode, CompileEdge, SyncEventNode, AddNode, AddEdge,
                      Trigger, tickVars
  <2>4. CASE LoopExit \/ SubscriberRaises \/ RuleRefused \/ CallbackRaises
             \/ OnceReturns \/ NextTick \/ Break
    <3>1. /\ executed' = <<>> /\ phase' = phase /\ pc # "graph"
          /\ \/ pc' = "idle" /\ caller' = "none"
             \/ pc' = "loop" /\ caller' = caller /\ caller = "start"
      BY <2>4
         DEF LoopExit, SubscriberRaises, RuleRefused, CallbackRaises, OnceReturns,
             NextTick, Break, Leave, Abort, ForgetLocals, Injecting, vars
    <3> QED
      BY <1>1, <3>1
  <2>5. CASE GraphStep
    BY <1>1, <2>5, GraphStepFacts, GraphStepReports
  <2> QED
    BY <1>6, <2>1, <2>2, <2>3, <2>4, <2>5 DEF LoopStep
<1>7. CASE UNCHANGED allVars
  BY <1>1, <1>7 DEF allVars, vars
<1> QED
  BY <1>3, <1>4, <1>5, <1>6, <1>7 DEF LoopNext

\* Both invariants hold in every reachable state of the loop.
LEMMA LoopInvariant == LoopSpec => [](IInv /\ LInv)
<1>1. LoopInit => LInv
  BY QueueFacts DEF LoopInit, Init, LInv, EventsTyped, Phases, Callers,
                    StartsEmpty, OnlyRaised
<1>2. LoopSpec => []IInv
  BY LoopUsesGraph, InvariantHolds, PTL
<1> QED
  BY <1>1, <1>2, LInvStep, PTL DEF LoopSpec

\* When a tick executed nothing, and start() therefore returns, no node is
\* ready, although nodes that failed are not among the executed.
THEOREM NothingRanMeansQuiescent == LoopSpec => QuiescentWhenNothingRan
<1>1. IInv /\ LInv /\ [LoopNext]_allVars =>
        [pc = "graph" /\ pc' = "write" /\ executed = <<>> => Ready = {}]_allVars
  <2> SUFFICES ASSUME IInv, LInv, LoopNext,
                      pc = "graph", pc' = "write", executed = <<>>
               PROVE  Ready = {}
    OBVIOUS
  <2>1. GraphStep
    BY DEF LoopNext, Building, BuildNode, BuildEdge, BuildDone, UserStep,
           InjectEvent, Publish, UserTrigger, SetStore, InjectRule, Stop, Start,
           TickOnce, LoopStep, LoopAgain, LoopExit, DrainLayers, PublishNext,
           SubscribersReturn, SubscriberRaises, SyncEventNode, BeginGraphTick,
           WriteNext, WriteDone, CompileNode, CompileEdge, CompileDone, RuleRefused,
           InjectDone, CallbackRaises, OnceReturns, NextTick, Break, Injecting, loopVars
  <2>2. EndTick
    BY <2>1, GraphStepFacts
  <2>3. attempted \subseteq ActionNode
    BY DEF LInv, OnlyRaised
  <2>4. ASSUME NEW n \in Ready PROVE FALSE
    <3>1. n \in attempted /\ n \in ActionNode /\ state[n] \notin {"DONE", "FAILED"}
      BY <2>2, <2>3 DEF EndTick, Ready
    <3> QED
      BY <3>1, NodeKinds DEF IInv, AttemptedSettled
  <2> QED
    BY <2>4
<1> QED
  BY <1>1, LoopInvariant, PTL DEF LoopSpec, QuiescentWhenNothingRan

-----------------------------------------------------------------------------
(* What a step does to the nodes, inside the graph's tick and outside it.  *)

\* A step of the graph's tick computes a wave, ends the tick or executes a
\* node; one that did not raise is put on the list of the executed.
LEMMA GraphStepRuns ==
    ASSUME TypeOK, GraphStep
    PROVE  \/ NextWave /\ UNCHANGED loopVars
           \/ GraphDone
           \/ \E n \in Node, outcome \in {"done", "false", "error"}, v \in Result,
                 st \in {"PENDING", "DONE", "FAILED"}, r \in Result :
                 /\ Executes(n, outcome, v, st, r)
                 /\ \/ outcome # "error" /\ Executed(n)
                    \/ outcome = "error" /\ pc = "graph" /\ UNCHANGED loopVars
<1> DEFINE Ran == \E n \in Node, outcome \in {"done", "false", "error"}, v \in Result,
                     st \in {"PENDING", "DONE", "FAILED"}, r \in Result :
                     /\ Executes(n, outcome, v, st, r)
                     /\ \/ outcome # "error" /\ Executed(n)
                        \/ outcome = "error" /\ pc = "graph" /\ UNCHANGED loopVars
<1>1. ASSUME NEW n \in EventNode, RunEvent(n) PROVE Ran
  <2>1. eventValue[n] \in Result /\ n \in Node
    BY DEF TypeOK, Result, Node
  <2>2. Executes(n, "done", eventValue[n], "DONE", eventValue[n]) /\ Executed(n)
    BY <1>1, <2>1 DEF RunEvent, FireEvent, Return, Executes
  <2> QED
    BY <2>1, <2>2
<1>2. ASSUME NEW n \in ConditionNode, RunCondition(n) PROVE Ran
  <2>1. "true" \in Result /\ "false" \in Result /\ n \in Node
    BY DEF Result, Node
  <2>2. \/ Executes(n, "done", "true", "DONE", "true") /\ Executed(n)
        \/ Executes(n, "false", "false", "PENDING", "false") /\ Executed(n)
    BY <1>2, <2>1 DEF RunCondition, FireCondition, Return, Executes
  <2> QED
    BY <2>1, <2>2
<1>3. ASSUME NEW n \in ActionNode, RunAction(n) PROVE Ran
  <2>1. PICK v \in Outcome[n] : FireAction(n, v) /\ Executed(n)
    BY <1>3 DEF RunAction
  <2>2. v \in Result /\ n \in Node
    BY LoopConstants DEF Result, Node
  <2>3. Executes(n, "done", v, "DONE", v)
    BY <2>1, <2>2 DEF FireAction, Return, Executes
  <2> QED
    BY <2>1, <2>2, <2>3
<1>4. ASSUME NEW n \in ActionNode, RunRaises(n) PROVE Ran
  <2>1. result[n] \in Result /\ None \in Result /\ n \in Node /\ n \notin EventNode
    BY NodeKinds DEF TypeOK, Result, Node
  <2>2. Executes(n, "error", None, "FAILED", result[n])
    BY <1>4, <2>1 DEF RunRaises, FailAction, Raise, Executes
  <2>3. pc = "graph" /\ UNCHANGED loopVars
    BY <1>4 DEF RunRaises
  <2> QED
    BY <2>1, <2>2, <2>3
<1> QED
  BY <1>1, <1>2, <1>3, <1>4 DEF GraphStep, GraphWave

\* Every other step leaves alone what the nodes have done; it may trigger a
\* node, by hand or because an event waits for it, or register one.
LEMMA OutsideGraphStep ==
    ASSUME [LoopNext]_allVars, ~GraphStep
    PROVE  /\ history' = history /\ result' = result /\ wave' = wave
           /\ nodes \subseteq nodes' /\ edges \subseteq edges'
           /\ \/ UNCHANGED <<state, triggered>>
              \/ \E n \in EventNode :
                    /\ n \in HandTriggered \/ n \in Awaited
                    /\ state' = [state EXCEPT ![n] = "READY"]
                    /\ triggered' = [triggered EXCEPT ![n] = TRUE]
<1> USE DEF vars, graphVars, eventVars, tickVars
<1>1. CASE Building
  BY <1>1 DEF Building, BuildNode, BuildEdge, BuildDone, AddNode, AddEdge
<1>2. CASE UserStep
  <2>1. ASSUME NEW n \in HandTriggered, NEW v \in TriggerPayload, UserTrigger(n, v)
        PROVE  /\ n \in EventNode
               /\ history' = history /\ result' = result /\ wave' = wave
               /\ nodes' = nodes /\ edges' = edges
               /\ state' = [state EXCEPT ![n] = "READY"]
               /\ triggered' = [triggered EXCEPT ![n] = TRUE]
    BY <2>1, LoopConstants DEF UserTrigger, Trigger
  <2> QED
    BY <1>2, <2>1 DEF UserStep, InjectEvent, Publish, SetStore, InjectRule, Stop
<1>3. CASE Start \/ TickOnce
  BY <1>3 DEF Start, TickOnce
<1>4. CASE LoopStep
  <2>1. ASSUME NEW n \in EventNode, SyncEventNode(n)
        PROVE  /\ n \in Awaited
               /\ history' = history /\ result' = result /\ wave' = wave
               /\ nodes' = nodes /\ edges' = edges
               /\ state' = [state EXCEPT ![n] = "READY"]
               /\ triggered' = [triggered EXCEPT ![n] = TRUE]
    BY <2>1 DEF SyncEventNode, Trigger
  <2>2. CASE LoopAgain \/ DrainLayers \/ PublishNext \/ SubscribersReturn
             \/ WriteNext \/ WriteDone \/ CompileDone \/ InjectDone
    BY <2>2 DEF LoopAgain, DrainLayers, PublishNext, SubscribersReturn,
                WriteNext, WriteDone, CompileDone, InjectDone
  <2>3. CASE LoopExit \/ SubscriberRaises \/ RuleRefused \/ CallbackRaises
             \/ OnceReturns \/ NextTick \/ Break
    BY <2>3 DEF LoopExit, SubscriberRaises, RuleRefused, CallbackRaises,
                OnceReturns, NextTick, Break, Leave, Abort
  <2>4. CASE CompileNode \/ CompileEdge \/ BeginGraphTick
    BY <2>4 DEF CompileNode, CompileEdge, AddNode, AddEdge, BeginGraphTick, BeginTick
  <2> QED
    BY <1>4, <2>1, <2>2, <2>3, <2>4 DEF LoopStep
<1>5. CASE UNCHANGED allVars
  BY <1>5 DEF allVars
<1> QED
  BY <1>1, <1>2, <1>3, <1>4, <1>5 DEF LoopNext

-----------------------------------------------------------------------------
(* Event nodes and the bus.                                                *)

\* An event node runs only when it has been triggered.
WaveTriggered == \A n \in wave \cap EventNode : triggered[n]

\* Once it has fired, an event node that nobody triggers by hand is DONE and
\* keeps its mark, so that no later event of its type triggers it again.
FiredForGood ==
    \A n \in EventNode \ HandTriggered :
        (\E i \in DOMAIN history : history[i].node = n) => state[n] = "DONE" /\ triggered[n]

FireInv == WaveTriggered /\ FiredForGood /\ BusFiresOnce

\* Every step of the loop keeps what is known of triggers and bus entries.
LEMMA FireInvStep == IInv /\ FireInv /\ [LoopNext]_allVars => FireInv'
<1> SUFFICES ASSUME IInv, FireInv, [LoopNext]_allVars PROVE FireInv'
  OBVIOUS
<1> USE DEF FireInv
<1>1. TypeOK /\ WaveReady
  BY DEF IInv
<1>2. CASE ~GraphStep
  <2>1. history' = history /\ wave' = wave
    BY <1>2, OutsideGraphStep
  <2>2. \/ UNCHANGED <<state, triggered>>
        \/ \E n \in EventNode :
              /\ n \in HandTriggered \/ n \in Awaited
              /\ state' = [state EXCEPT ![n] = "READY"]
              /\ triggered' = [triggered EXCEPT ![n] = TRUE]
    BY <1>2, OutsideGraphStep
  <2>3. CASE UNCHANGED <<state, triggered>>
    BY <2>1, <2>3 DEF WaveTriggered, FiredForGood, BusFiresOnce
  <2>4. ASSUME NEW n \in EventNode, n \in HandTriggered \/ n \in Awaited,
               state' = [state EXCEPT ![n] = "READY"],
               triggered' = [triggered EXCEPT ![n] = TRUE]
        PROVE  FireInv'
    <3>1. n \in Awaited => ~triggered[n]
      BY DEF Awaited
    <3>2. /\ \A m \in Node \ {n} : state'[m] = state[m]
          /\ \A m \in EventNode \ {n} : triggered'[m] = triggered[m]
          /\ triggered'[n] = TRUE
      BY <2>4, <1>1 DEF TypeOK
    <3> QED
      BY <2>1, <2>4, <3>1, <3>2, <1>1
         DEF WaveTriggered, FiredForGood, BusFiresOnce, TypeOK, Node
  <2> QED
    BY <2>2, <2>3, <2>4
<1>3. CASE GraphStep
  <2>1. CASE NextWave
    BY <2>1 DEF NextWave, Ready, WaveTriggered, FiredForGood, BusFiresOnce,
                eventVars
  <2>2. CASE GraphDone
    BY <2>2 DEF GraphDone, EndTick, WaveTriggered, FiredForGood, BusFiresOnce,
                eventVars
  <2>3. ASSUME NEW n \in Node, NEW outcome \in {"done", "false", "error"},
               NEW v \in Result, NEW st \in {"PENDING", "DONE", "FAILED"},
               NEW r \in Result, Executes(n, outcome, v, st, r)
        PROVE  FireInv'
    <3>1. /\ n \in wave /\ wave' = wave \ {n} /\ triggered' = triggered
          /\ history' = Append(history, Entry(n, outcome, v))
      BY <2>3 DEF Executes, Attempt, eventVars
    <3>2. /\ \A m \in Node \ {n} : state'[m] = state[m]
          /\ state'[n] = st
          /\ n \in EventNode => st = "DONE"
      BY <2>3, <1>1, NodeKinds DEF Executes, TypeOK
    <3>3. /\ Len(history) \in Nat /\ DOMAIN history = 1 .. Len(history)
          /\ DOMAIN history' = 1 .. (Len(history) + 1)
          /\ \A i \in DOMAIN history : history'[i] = history[i]
          /\ history'[Len(history) + 1].node = n
      BY <3>1, <1>1, HistoryGrows
    <3>4. state[n] # "DONE"
      BY <3>1, <1>1 DEF WaveReady
    <3>5. WaveTriggered'
      BY <3>1 DEF WaveTriggered
    <3>6. FiredForGood'
      BY <3>1, <3>2, <3>3 DEF FiredForGood, WaveTriggered, Node
    <3>7. BusFiresOnce'
      BY <3>3, <3>4 DEF FiredForGood, BusFiresOnce
    <3> QED
      BY <3>5, <3>6, <3>7
  <2> QED
    BY <1>1, <1>3, <2>1, <2>2, <2>3, GraphStepRuns
<1> QED
  BY <1>2, <1>3

\* An event node that nobody triggers by hand fires once, although the bus
\* keeps its history and every tick searches it.
THEOREM EventsFireOnce == LoopSpec => []BusFiresOnce
<1>1. LoopInit => FireInv
  BY DEF LoopInit, Init, FireInv, WaveTriggered, FiredForGood, BusFiresOnce
<1>2. FireInv => BusFiresOnce
  BY DEF FireInv
<1> QED
  BY <1>1, <1>2, LoopInvariant, FireInvStep, PTL DEF LoopSpec

-----------------------------------------------------------------------------
(* The types of the loop's variables.                                      *)

\* A sequence over a set is one over any larger set.
LEMMA SeqWidens ==
    ASSUME NEW S, NEW T, S \subseteq T, NEW q \in Seq(S)
    PROVE  q \in Seq(T)
OBVIOUS

\* One sequence over a set behind another is one over the set.
LEMMA ConcatTyped ==
    ASSUME NEW S, NEW p \in Seq(S), NEW q \in Seq(S)
    PROVE  p \o q \in Seq(S)
OBVIOUS

\* Where the members of both are.
LEMMA ConcatPlaces ==
    ASSUME NEW S, NEW p \in Seq(S), NEW q \in Seq(S)
    PROVE  /\ \A i \in DOMAIN p : i \in DOMAIN (p \o q) /\ (p \o q)[i] = p[i]
           /\ \A i \in DOMAIN q : /\ Len(p) + i \in DOMAIN (p \o q)
                                 /\ (p \o q)[Len(p) + i] = q[i]
OBVIOUS

\* What is in a sequence is its head or in its tail.
LEMMA TailFacts ==
    ASSUME NEW S, NEW q \in Seq(S), q # <<>>
    PROVE  /\ Tail(q) \in Seq(S)
           /\ \A i \in DOMAIN q :
                \/ q[i] = Head(q)
                \/ \E j \in DOMAIN Tail(q) : Tail(q)[j] = q[i]
<1>1. \A i \in DOMAIN q : i # 1 => i - 1 \in DOMAIN Tail(q) /\ Tail(q)[i - 1] = q[i]
  OBVIOUS
<1>2. Tail(q) \in Seq(S) /\ Head(q) = q[1]
  OBVIOUS
<1> QED
  BY <1>1, <1>2, Zenon

\* What is written back keeps to the values of the store.
LEMMA UpdatedTyped ==
    ASSUME NEW data \in [Key -> Val \cup {Missing}], NEW v
    PROVE  Updated(data, v) \in [Key -> Val \cup {Missing}]
<1>1. CASE v \in DOMAIN Writes
  <2>1. \A k \in DOMAIN Writes[v] : Writes[v][k] \in Val
    BY <1>1, LoopConstants
  <2> QED
    BY <1>1, <2>1 DEF Updated
<1>2. CASE v \notin DOMAIN Writes
  BY <1>2 DEF Updated
<1> QED
  BY <1>1, <1>2

\* Where the call may be, who made it, how many ticks there were.
CallTyped ==
    /\ pc \in {"build", "idle", "loop", "drain", "publish", "subscribers",
               "graph", "write", "inject", "hotload", "callbacks"}
    /\ caller \in {"none", "start", "once"}
    /\ ticks \in 0 .. TickBound
    /\ running \in BOOLEAN

\* What is stored, and the data of the tick under way.
DataTyped ==
    /\ store \in [Key -> Val \cup {Missing}]
    /\ snap \in [Key -> Val \cup {Missing}]
    /\ executed \in Seq(nodes)
    /\ written \in 0 .. Len(executed)
    /\ pending \in Seq(Rule \cup {Garbled})
    /\ meanwhile \in [Key -> Val \cup {Missing}]

\* Every step keeps the types of the locals of a call.
LEMMA CallTypedStep == CallTyped /\ [LoopNext]_allVars => CallTyped'
<1> SUFFICES ASSUME CallTyped, [LoopNext]_allVars PROVE CallTyped'
  OBVIOUS
<1>0. MaxTicks \in Nat /\ TickBound \in Nat /\ MaxTicks <= TickBound
  BY LoopBounds
<1> USE DEF CallTyped, loopVars, callVars, eventLists, locals
<1>1. CASE Building
  BY <1>1 DEF Building, BuildNode, BuildEdge, BuildDone
<1>2. CASE UserStep
  BY <1>2 DEF UserStep, InjectEvent, Publish, UserTrigger, SetStore, InjectRule, Stop
<1>3. CASE Start
  BY <1>3 DEF Start
<1>4. CASE TickOnce
  BY <1>0, <1>4 DEF TickOnce
<1>5. CASE LoopStep
  <2>1. CASE DrainLayers \/ PublishNext \/ SubscribersReturn \/ BeginGraphTick
             \/ WriteNext \/ WriteDone \/ CompileNode \/ CompileEdge
             \/ CompileDone \/ InjectDone \/ \E n \in EventNode : SyncEventNode(n)
    BY <2>1 DEF DrainLayers, PublishNext, SubscribersReturn,
                BeginGraphTick, WriteNext, WriteDone, CompileNode, CompileEdge,
                CompileDone, InjectDone, SyncEventNode
  <2>2. CASE LoopExit \/ SubscriberRaises \/ RuleRefused \/ CallbackRaises
             \/ OnceReturns \/ NextTick \/ Break
    BY <2>2 DEF LoopExit, SubscriberRaises, RuleRefused, CallbackRaises,
                OnceReturns, NextTick, Break, Leave, Abort
  <2>3. CASE GraphStep
    BY <2>3 DEF GraphStep, GraphWave, RunEvent, RunCondition, RunAction,
                RunRaises, GraphDone, Executed
  <2>4. CASE LoopAgain
    BY <1>0, <2>4 DEF LoopAgain
  <2> QED
    BY <1>5, <2>1, <2>2, <2>3, <2>4 DEF LoopStep
<1>6. CASE UNCHANGED allVars
  BY <1>6 DEF allVars
<1> QED
  BY <1>1, <1>2, <1>3, <1>4, <1>5, <1>6 DEF LoopNext

\* Every step keeps the types of the store, the results and the bus.
LEMMA DataTypedStep == TypeOK /\ DataTyped /\ [LoopNext]_allVars => DataTyped'
<1> SUFFICES ASSUME TypeOK, DataTyped, [LoopNext]_allVars PROVE DataTyped'
  OBVIOUS
<1>0. NoData \in [Key -> Val \cup {Missing}]
  BY DEF NoData
<1> USE DEF DataTyped, loopVars, callVars, eventLists, locals
<1>1. CASE GraphStep
  <2>1. CASE NextWave /\ UNCHANGED loopVars
    BY <2>1 DEF NextWave, graphVars
  <2>2. CASE GraphDone
    BY <2>2 DEF GraphDone, EndTick, graphVars
  <2>3. ASSUME NEW n \in Node, NEW outcome \in {"done", "false", "error"},
               NEW v \in Result, NEW st \in {"PENDING", "DONE", "FAILED"},
               NEW r \in Result, Executes(n, outcome, v, st, r),
               Executed(n) \/ UNCHANGED loopVars
        PROVE  DataTyped'
    <3>1. n \in nodes /\ nodes' = nodes
      BY <2>3 DEF Executes, Attempt, TypeOK, graphVars
    <3>2. CASE Executed(n)
      <4>1. executed' = Append(executed, n)
        BY <3>2 DEF Executed
      <4>2. executed' \in Seq(nodes) /\ Len(executed') = Len(executed) + 1
            /\ Len(executed) \in Nat
        BY <3>1, <4>1
      <4>3. written' \in 0 .. Len(executed')
        BY <3>2, <4>2 DEF Executed
      <4> QED
        BY <3>1, <3>2, <4>2, <4>3 DEF Executed
    <3>3. CASE UNCHANGED loopVars
      BY <3>1, <3>3
    <3> QED
      BY <2>3, <3>2, <3>3
  <2> QED
    BY <1>1, <2>1, <2>2, <2>3, GraphStepRuns
<1>2. CASE ~GraphStep
  <2>1. executed \in Seq(nodes')
    BY <1>2, OutsideGraphStep, SeqWidens
  <2>2. <<>> \in Seq(nodes') /\ Len(<<>>) = 0 /\ Len(executed) \in Nat
    OBVIOUS
  <2>3. CASE Building
    BY <2>1, <2>3 DEF Building, BuildNode, BuildEdge, BuildDone
  <2>4. CASE UserStep
    <3>1. ASSUME NEW r \in UserRules, InjectRule(r) PROVE DataTyped'
      <4>1. pending' = <<r>> /\ r \in Rule \cup {Garbled}
        BY <3>1, LoopConstants DEF InjectRule
      <4> QED
        BY <3>1, <4>1, <2>1 DEF InjectRule
    <3>2. ASSUME NEW k \in Key, NEW v \in Val, SetStore(k, v) PROVE DataTyped'
      BY <3>2, <2>1 DEF SetStore
    <3> QED
      BY <2>1, <2>4, <3>1, <3>2 DEF UserStep, InjectEvent, Publish, UserTrigger, Stop
  <2>5. CASE Start \/ TickOnce
    BY <2>1, <2>5 DEF Start, TickOnce
  <2>6. CASE LoopStep
    <3>1. CASE LoopAgain \/ DrainLayers \/ PublishNext \/ SubscribersReturn
               \/ BeginGraphTick \/ WriteDone \/ CompileNode \/ CompileEdge
               \/ InjectDone \/ \E n \in EventNode : SyncEventNode(n)
      BY <1>0, <2>1, <3>1 DEF LoopAgain, DrainLayers, PublishNext, SubscribersReturn,
                  BeginGraphTick, WriteDone, CompileNode, CompileEdge, InjectDone,
                  SyncEventNode
    <3>2. CASE LoopExit \/ SubscriberRaises \/ RuleRefused \/ CallbackRaises
               \/ OnceReturns \/ NextTick \/ Break
      <4>1. UNCHANGED store /\ ForgetLocals
        BY <3>2 DEF LoopExit, SubscriberRaises, RuleRefused, CallbackRaises,
                    OnceReturns, NextTick, Break, Leave, Abort
      <4> QED
        BY <1>0, <2>2, <4>1 DEF ForgetLocals
    <3>3. CASE WriteNext
      <4> DEFINE v == result[executed[written + 1]]
      <4>1. /\ store' = store \/ store' = Updated(store, v)
            /\ \/ pending' = pending
               \/ v \in DOMAIN Emits /\ pending' = pending \o Emits[v]
            /\ written < Len(executed) /\ written' = written + 1
            /\ executed' = executed /\ snap' = snap /\ meanwhile' = meanwhile
        BY <3>3 DEF WriteNext
      <4> HIDE DEF v
      <4>2. store' \in [Key -> Val \cup {Missing}]
        BY <4>1, UpdatedTyped
      <4>3. pending' \in Seq(Rule \cup {Garbled})
        <5>1. \A u \in DOMAIN Emits : Emits[u] \in Seq(Rule \cup {Garbled})
          BY LoopConstants
        <5>2. CASE pending' = pending
          BY <5>2
        <5>3. CASE v \in DOMAIN Emits /\ pending' = pending \o Emits[v]
          <6> DEFINE Texts == Rule \cup {Garbled}
          <6>1. Emits[v] \in Seq(Texts) /\ pending \in Seq(Texts)
            BY <5>1, <5>3
          <6> HIDE DEF Texts
          <6>2. pending \o Emits[v] \in Seq(Texts)
            BY <6>1, ConcatTyped
          <6> QED
            BY <5>3, <6>2 DEF Texts
        <5> QED
          BY <4>1, <5>2, <5>3
      <4>4. written' \in 0 .. Len(executed')
        BY <2>2, <4>1
      <4> QED
        BY <2>1, <4>1, <4>2, <4>3, <4>4
    <3>4. CASE CompileDone
      BY <2>1, <3>4, QueueFacts DEF CompileDone, Injecting
    <3> QED
      BY <1>2, <2>6, <3>1, <3>2, <3>3, <3>4 DEF LoopStep
  <2>7. CASE UNCHANGED allVars
    BY <2>1, <2>7 DEF allVars
  <2> QED
    BY <2>3, <2>4, <2>5, <2>6, <2>7 DEF LoopNext
<1> QED
  BY <1>1, <1>2

\* In every behaviour of the loop its variables keep to their types.
THEOREM LoopTypes == LoopSpec => []LoopTypeOK
<1>1. LoopInit => CallTyped /\ DataTyped
  <2>1. TickBound \in Nat
    BY LoopBounds
  <2>2. LoopInit => CallTyped
    <3>1. 0 \in 0 .. TickBound
      BY <2>1
    <3> QED
      BY <3>1, Zenon DEF LoopInit, CallTyped
  <2>3. <<>> \in Seq(nodes) /\ <<>> \in Seq(Rule \cup {Garbled}) /\ 0 \in 0 .. Len(<<>>)
    OBVIOUS
  <2>4. NoData \in [Key -> Val \cup {Missing}]
    BY DEF NoData
  <2>5. LoopInit => DataTyped
    BY <2>3, <2>4 DEF LoopInit, DataTyped
  <2> QED
    BY <2>2, <2>5
<1>2. IInv /\ DataTyped /\ [LoopNext]_allVars => DataTyped'
  BY DataTypedStep DEF IInv
<1>3. LInv /\ CallTyped /\ DataTyped => LoopTypeOK
  BY DEF LInv, EventsTyped, Phases, CallTyped, DataTyped, LoopTypeOK
<1> QED
  BY <1>1, <1>2, <1>3, LoopInvariant, CallTypedStep, PTL DEF LoopSpec

-----------------------------------------------------------------------------
(* From the results of a tick to the store and to the graph.               *)

\* A callable sets a key of the store.
SetMeanwhile ==
    \E k \in Key, v \in Val :
        /\ store' = [store EXCEPT ![k] = v]
        /\ meanwhile' = [meanwhile EXCEPT ![k] = v]

\* Where the loop can go from where it is, when the graph does not step.
LEMMA StepsFrom ==
    ASSUME [LoopNext]_allVars, ~GraphStep
    PROVE  /\ pc = "graph" => /\ pc' = pc /\ UNCHANGED <<snap, executed, written, pending>>
                              /\ SetMeanwhile \/ UNCHANGED <<store, meanwhile>>
           /\ pc = "write" => WriteNext \/ WriteDone \/ UNCHANGED loopVars
           /\ pc = "inject" => \/ pc' = pc /\ pending' = pending
                               \/ CompileDone \/ RuleRefused \/ InjectDone
           /\ pc \notin {"graph", "write", "inject"} =>
                 /\ pc' # "write"
                 /\ pc' = "graph" => snap' = store /\ store' = store /\ meanwhile' = meanwhile
<1> USE DEF loopVars, callVars, eventLists, locals
<1>1. CASE Building
  BY <1>1 DEF Building, BuildNode, BuildEdge, BuildDone
<1>2. CASE UserStep
  <2>1. ASSUME NEW k \in Key, NEW v \in Val, SetStore(k, v)
        PROVE  /\ pc' = pc /\ UNCHANGED <<snap, executed, written, pending>>
               /\ pc \notin {"write", "inject"}
               /\ pc = "graph" => SetMeanwhile
    BY <2>1 DEF SetStore, InUserCode, SetMeanwhile
  <2>2. ASSUME NEW r \in UserRules, InjectRule(r)
        PROVE  pc \notin {"graph", "write", "inject"} /\ pc' \in {"inject", "hotload"}
    BY <2>2 DEF InjectRule
  <2> QED
    BY <1>2, <2>1, <2>2 DEF UserStep, InjectEvent, Publish, UserTrigger, Stop, InUserCode
<1>3. CASE Start \/ TickOnce
  BY <1>3 DEF Start, TickOnce
<1>4. CASE LoopStep
  <2>1. CASE LoopAgain \/ DrainLayers \/ PublishNext \/ SubscribersReturn
             \/ BeginGraphTick \/ \E n \in EventNode : SyncEventNode(n)
    BY <2>1 DEF LoopAgain, DrainLayers, PublishNext, SubscribersReturn,
                BeginGraphTick, SyncEventNode
  <2>2. CASE LoopExit \/ SubscriberRaises \/ CallbackRaises \/ OnceReturns
             \/ NextTick \/ Break
    BY <2>2 DEF LoopExit, SubscriberRaises, CallbackRaises, OnceReturns, NextTick,
                Break, Leave, Abort
  <2>3. CASE CompileNode \/ CompileEdge
    BY <2>3 DEF CompileNode, CompileEdge, Injecting
  <2>4. CASE WriteNext \/ WriteDone
    BY <2>4 DEF WriteNext, WriteDone
  <2>5. CASE CompileDone \/ RuleRefused \/ InjectDone
    BY <2>5 DEF CompileDone, RuleRefused, InjectDone, Injecting, Abort
  <2> QED
    BY <1>4, <2>1, <2>2, <2>3, <2>4, <2>5 DEF LoopStep
<1>5. CASE UNCHANGED allVars
  BY <1>5 DEF allVars
<1> QED
  BY <1>1, <1>2, <1>3, <1>4, <1>5 DEF LoopNext

\* Nothing is written, and no rule pending, before the graph has run; when the
\* callbacks run, no rule is pending any more.  Only callables set keys meanwhile.
FreshLocals ==
    /\ pc \in {"build", "idle", "loop", "drain", "publish", "subscribers", "graph"}
         => written = 0 /\ pending = <<>>
    /\ pc = "hotload" => written = 0
    /\ pc = "callbacks" => pending = <<>>
    /\ pc \notin {"graph", "write"} => meanwhile = NoData

\* The locals of one step of _do_tick are empty until that step begins.
LEMMA FreshLocalsStep ==
    IInv /\ LInv /\ LoopTypeOK /\ FreshLocals /\ [LoopNext]_allVars => FreshLocals'
<1> SUFFICES ASSUME LInv, LoopTypeOK, FreshLocals, [LoopNext]_allVars
             PROVE  FreshLocals'
  OBVIOUS
<1> USE DEF FreshLocals, loopVars, callVars, eventLists, locals
<1>1. CASE Building
  BY <1>1 DEF Building, BuildNode, BuildEdge, BuildDone
<1>2. CASE UserStep
  BY <1>2 DEF UserStep, InjectEvent, Publish, UserTrigger, SetStore, InjectRule, Stop,
              InUserCode
<1>3. CASE Start \/ TickOnce
  BY <1>3 DEF Start, TickOnce
<1>4. CASE LoopStep
  <2>1. CASE LoopAgain \/ DrainLayers \/ PublishNext \/ SubscribersReturn
             \/ BeginGraphTick \/ \E n \in EventNode : SyncEventNode(n)
    BY <2>1 DEF LoopAgain, DrainLayers, PublishNext, SubscribersReturn,
                BeginGraphTick, SyncEventNode
  <2>2. CASE LoopExit \/ SubscriberRaises \/ CallbackRaises \/ OnceReturns
             \/ NextTick \/ Break \/ RuleRefused
    BY <2>2 DEF LoopExit, SubscriberRaises, CallbackRaises, OnceReturns, NextTick,
                Break, RuleRefused, Leave, Abort, ForgetLocals
  <2>3. CASE CompileNode \/ CompileEdge \/ WriteNext \/ WriteDone \/ CompileDone
    BY <2>3 DEF CompileNode, CompileEdge, WriteNext, WriteDone, CompileDone, Injecting
  <2>4. CASE InjectDone
    <3>1. caller = "none" => executed = <<>>
      BY DEF LInv, StartsEmpty
    <3>2. caller = "none" => written = 0
      BY <3>1 DEF LoopTypeOK
    <3> QED
      BY <2>4, <3>2 DEF InjectDone
  <2>5. CASE GraphStep
    BY <2>5 DEF GraphStep, GraphWave, RunEvent, RunCondition, RunAction,
                RunRaises, GraphDone, Executed
  <2> QED
    BY <1>4, <2>1, <2>2, <2>3, <2>4, <2>5 DEF LoopStep
<1>5. CASE UNCHANGED allVars
  BY <1>5 DEF allVars
<1> QED
  BY <1>1, <1>2, <1>3, <1>4, <1>5 DEF LoopNext

\* All that is known of the loop so far.
LoopInv == IInv /\ LInv /\ LoopTypeOK /\ FreshLocals

\* All of it holds in every behaviour of the loop.
LEMMA LoopInvHolds == LoopSpec => []LoopInv
<1>1. LoopInit => FreshLocals
  BY DEF LoopInit, FreshLocals
<1>2. LoopSpec => [](IInv /\ LInv /\ LoopTypeOK)
  BY LoopInvariant, LoopTypes, PTL
<1> QED
  BY <1>1, <1>2, FreshLocalsStep, PTL DEF LoopSpec, LoopInv

-----------------------------------------------------------------------------
(* The store.                                                              *)

\* The result of the i-th node executed goes to the store, under k.
Wrote(i, k) ==
    /\ result[executed[i]] \in DOMAIN Writes \ DOMAIN Emits
    /\ k \in DOMAIN Writes[result[executed[i]]]

\* While results are written back, what is under a key comes from the last of
\* those written so far that has the key, or it is what was there before.
WrittenSoFar ==
    /\ pc = "graph" => \A k \in Key : store[k] = Otherwise(k)
    /\ pc = "write" =>
         \A k \in Key :
            \/ store[k] = Otherwise(k) /\ \A i \in 1 .. written : ~Wrote(i, k)
            \/ \E i \in 1 .. written :
                  /\ Wrote(i, k) /\ store[k] = Writes[result[executed[i]]][k]
                  /\ \A j \in 1 .. written : Wrote(j, k) => j <= i

\* Every step keeps what the part of the results written so far says.
LEMMA WrittenStep == LoopInv /\ WrittenSoFar /\ [LoopNext]_allVars => WrittenSoFar'
<1> SUFFICES ASSUME LoopInv, WrittenSoFar, [LoopNext]_allVars PROVE WrittenSoFar'
  OBVIOUS
<1>1. CASE GraphStep
  <2>1. pc = "graph" /\ written = 0 /\ \A k \in Key : store[k] = Otherwise(k)
    BY <1>1, GraphStepFacts DEF LoopInv, FreshLocals, WrittenSoFar
  <2>2. UNCHANGED <<store, snap, written, meanwhile>>
    BY <1>1 DEF GraphStep, GraphWave, RunEvent, RunCondition, RunAction,
                RunRaises, GraphDone, Executed, loopVars, locals
  <2> QED
    BY <2>1, <2>2 DEF WrittenSoFar, Otherwise
<1>2. CASE ~GraphStep /\ pc # "write"
  <2>1. CASE pc = "inject"
    <3>1. pc' \notin {"graph", "write"}
      BY <1>2, <2>1, StepsFrom DEF CompileDone, RuleRefused, Abort, InjectDone
    <3> QED
      BY <3>1 DEF WrittenSoFar
  <2>2. CASE pc = "graph"
    <3>1. pc' = pc /\ UNCHANGED snap /\ (SetMeanwhile \/ UNCHANGED <<store, meanwhile>>)
      BY <1>2, <2>2, StepsFrom
    <3>2. CASE UNCHANGED <<store, meanwhile>>
      BY <2>2, <3>1, <3>2 DEF WrittenSoFar, Otherwise
    <3>3. ASSUME NEW k \in Key, NEW v \in Val, store' = [store EXCEPT ![k] = v],
                 meanwhile' = [meanwhile EXCEPT ![k] = v]
          PROVE  WrittenSoFar'
      <4>1. /\ store \in [Key -> Val \cup {Missing}] /\ meanwhile \in [Key -> Val \cup {Missing}]
            /\ v # Missing
        BY LoopConstants DEF LoopInv, LoopTypeOK
      <4>2. \A h \in Key : store'[h] = Otherwise(h)'
        BY <2>2, <3>1, <3>3, <4>1 DEF WrittenSoFar, Otherwise
      <4> QED
        BY <2>2, <3>1, <4>2 DEF WrittenSoFar
    <3> QED
      BY <3>1, <3>2, <3>3 DEF SetMeanwhile
  <2>3. CASE pc \notin {"graph", "write", "inject"}
    <3>1. pc' # "write" /\ (pc' = "graph" => snap' = store /\ store' = store
                                             /\ meanwhile' = meanwhile)
      BY <1>2, <2>3, StepsFrom
    <3>2. meanwhile = NoData
      BY <2>3 DEF LoopInv, FreshLocals
    <3> QED
      BY <3>1, <3>2 DEF WrittenSoFar, Otherwise, NoData
  <2> QED
    BY <1>2, <2>1, <2>2, <2>3
<1>3. CASE ~GraphStep /\ pc = "write"
  <2>1. result' = result
    BY <1>3, OutsideGraphStep
  <2>2. CASE UNCHANGED loopVars
    BY <1>3, <2>1, <2>2 DEF WrittenSoFar, Wrote, Otherwise, loopVars, locals
  <2>3. CASE WriteDone
    BY <2>3 DEF WriteDone, WrittenSoFar
  <2>4. CASE WriteNext
    <3> DEFINE w == written + 1
               v == result[executed[w]]
    <3>1. /\ executed' = executed /\ snap' = snap /\ written' = w /\ pc' = pc
          /\ meanwhile' = meanwhile
          /\ \/ v \in DOMAIN Emits /\ store' = store
             \/ v \notin DOMAIN Emits /\ store' = Updated(store, v)
      BY <2>4 DEF WriteNext
    <3>2. \A i, k : Wrote(i, k)' <=> Wrote(i, k)
      BY <2>1, <3>1 DEF Wrote
    <3>3. ASSUME NEW k \in Key
          PROVE  \/ store'[k] = store[k] /\ ~Wrote(w, k)
                 \/ store'[k] = Writes[v][k] /\ Wrote(w, k)
      BY <3>1 DEF Wrote, Updated
    <3>4. written \in Nat
      BY DEF LoopInv, LoopTypeOK
    <3>0. \A k : Otherwise(k)' = Otherwise(k)
      BY <3>1 DEF Otherwise
    <3> SUFFICES ASSUME NEW k \in Key
                 PROVE  \/ store'[k] = Otherwise(k) /\ \A i \in 1 .. w : ~Wrote(i, k)
                        \/ \E i \in 1 .. w :
                              /\ Wrote(i, k) /\ store'[k] = Writes[result[executed[i]]][k]
                              /\ \A j \in 1 .. w : Wrote(j, k) => j <= i
      BY <1>3, <2>1, <3>0, <3>1, <3>2 DEF WrittenSoFar
    <3>5. CASE store'[k] = store[k] /\ ~Wrote(w, k)
      BY <1>3, <3>4, <3>5 DEF WrittenSoFar
    <3>6. CASE store'[k] = Writes[v][k] /\ Wrote(w, k)
      BY <3>4, <3>6
    <3> QED
      BY <3>3, <3>5, <3>6
  <2> QED
    BY <1>3, <2>2, <2>3, <2>4, StepsFrom
<1> QED
  BY <1>1, <1>2, <1>3

\* What a tick changes in the store is the result of a node that it executed,
\* the last with that key; all else is as in the snapshot, or as a callable set it.
THEOREM StoreChangesAreCaused == LoopSpec => CausalConsistency
<1>1. LoopInit => WrittenSoFar
  BY DEF LoopInit, WrittenSoFar
<1>2. LoopInv /\ WrittenSoFar /\ [LoopNext]_allVars =>
        [pc = "write" /\ pc' = "inject" =>
           \A k \in Key :
              \/ /\ store[k] = Otherwise(k)
                 /\ \A i \in DOMAIN executed : ~Wrote(i, k)
              \/ \E i \in DOMAIN executed :
                    /\ Wrote(i, k) /\ store[k] = Writes[result[executed[i]]][k]
                    /\ \A j \in DOMAIN executed : Wrote(j, k) => j <= i]_allVars
  <2> SUFFICES ASSUME LoopInv, WrittenSoFar, LoopNext, pc = "write", pc' = "inject"
               PROVE  DOMAIN executed = 1 .. written
    BY DEF WrittenSoFar
  <2>1. ~GraphStep
    BY GraphStepFacts
  <2>2. WriteDone
    BY <2>1, StepsFrom DEF WriteNext, loopVars
  <2>3. executed \in Seq(nodes)
    BY DEF LoopInv, LoopTypeOK
  <2> QED
    BY <2>2, <2>3 DEF WriteDone
<1> QED
  BY <1>1, <1>2, LoopInvHolds, WrittenStep, PTL DEF LoopSpec, CausalConsistency, Wrote

-----------------------------------------------------------------------------
(* The rules that nodes emit.                                              *)

\* Every rule that a node emits is one the parser accepts.  Otherwise the
\* refused rule ends the call, and those that were to follow it are lost.
EmittedRulesParse == \A v \in DOMAIN Emits : Emits[v] \in Seq(Rule)

\* n is done and its result is a rule emission.
Emitted(n) == n \in nodes /\ state[n] = "DONE" /\ result[n] \in DOMAIN Emits

RulesOf(n) == {Emits[result[n]][i] : i \in DOMAIN Emits[result[n]]}

Arrived(n) == \A r \in RulesOf(n) : Compiled(r)

\* The rules of a node are in the graph, or the node is among those whose
\* results are still to be collected, or what is missing is pending; then no
\* rule that is pending can be refused.
Delivered(n) ==
    \/ Arrived(n)
    \/ pc = "graph" /\ \E i \in DOMAIN executed : executed[i] = n
    \/ pc = "write" /\ \E i \in DOMAIN executed : i > written /\ executed[i] = n
    \/ /\ pc \in {"write", "inject"} /\ pending \in Seq(Rule)
       /\ \A r \in RulesOf(n) : Compiled(r) \/ \E i \in DOMAIN pending : pending[i] = r

RulesDelivered ==
    /\ pc = "write" => pending \in Seq(Rule)
    /\ \A n : Emitted(n) => Delivered(n)

\* Outside the graph's tick nothing is emitted, and no rule leaves the graph.
LEMMA RulesStay ==
    ASSUME LoopInv, [LoopNext]_allVars, ~GraphStep
    PROVE  /\ \A n : Emitted(n)' => Emitted(n)
           /\ \A n : RulesOf(n)' = RulesOf(n)
           /\ \A r : Compiled(r) => Compiled(r)'
           /\ \A n : Arrived(n) => Arrived(n)'
<1>1. /\ result' = result /\ nodes \subseteq nodes' /\ edges \subseteq edges'
      /\ nodes' \subseteq Node
  <2>1. TypeOK'
    BY LoopStepIsGraphStep, TypeStep DEF LoopInv, LInv, IInv
  <2> QED
    BY <2>1, OutsideGraphStep DEF TypeOK
<1>2. \A n \in Node : state'[n] = "DONE" => state[n] = "DONE"
  BY OutsideGraphStep DEF LoopInv, IInv, TypeOK
<1>3. \A n \in Node \ nodes : state[n] # "DONE"
  BY DEF LoopInv, IInv, Unregistered
<1>4. \A n : Emitted(n)' => Emitted(n)
  BY <1>1, <1>2, <1>3 DEF Emitted
<1>5. \A r : Compiled(r) => Compiled(r)'
  BY <1>1 DEF Compiled
<1>6. \A n : RulesOf(n)' = RulesOf(n)
  BY <1>1 DEF RulesOf
<1> QED
  BY <1>4, <1>5, <1>6 DEF Arrived

\* A node's execution puts it on the list of those to collect from.
LEMMA GraphStepDelivers ==
    ASSUME LoopInv, RulesDelivered, GraphStep
    PROVE  RulesDelivered'
<1>1. pc = "graph" /\ TypeOK /\ executed \in Seq(nodes) /\ written = 0 /\ pending = <<>>
  BY GraphStepFacts DEF LoopInv, IInv, LoopTypeOK, FreshLocals
<1>2. \A r : nodes' = nodes /\ edges' = edges => Compiled(r)' = Compiled(r)
  BY DEF Compiled
<1>3. ASSUME UNCHANGED <<nodes, edges, state, result, executed, written, pending>>,
             pc' \in {"graph", "write"}
      PROVE  RulesDelivered'
  <2>1. \A n : /\ Emitted(n)' <=> Emitted(n) 
               /\ Arrived(n)' <=> Arrived(n)
    BY <1>2, <1>3 DEF Emitted, Arrived, RulesOf
  <2>2. <<>> \in Seq(Rule) /\ \A i \in DOMAIN executed : i > 0
    BY <1>1
  <2> QED
    BY <1>1, <1>3, <2>1, <2>2 DEF RulesDelivered, Delivered
<1>4. CASE NextWave /\ UNCHANGED loopVars
  BY <1>1, <1>3, <1>4 DEF NextWave, graphVars, loopVars, locals
<1>5. CASE GraphDone
  BY <1>1, <1>3, <1>5 DEF GraphDone, EndTick, graphVars, locals
<1>6. ASSUME NEW n \in Node, NEW outcome \in {"done", "false", "error"},
             NEW v \in Result, NEW st \in {"PENDING", "DONE", "FAILED"},
             NEW r \in Result, Executes(n, outcome, v, st, r),
             \/ outcome # "error" /\ Executed(n)
             \/ outcome = "error" /\ pc = "graph" /\ UNCHANGED loopVars
      PROVE  RulesDelivered'
  <2>1. /\ nodes' = nodes /\ edges' = edges /\ pc' = "graph" /\ n \in nodes
        /\ \A m \in nodes \ {n} : state'[m] = state[m] /\ result'[m] = result[m]
        /\ state'[n] = st
    BY <1>1, <1>6 DEF Executes, Attempt, TypeOK, graphVars, Executed, loopVars
  <2>2. executed' = executed \/ executed' = Append(executed, n)
    BY <1>6 DEF Executed, loopVars, locals
  <2>3. \A m : (\E i \in DOMAIN executed : executed[i] = m)
                  => \E i \in DOMAIN executed' : executed'[i] = m
    BY <1>1, <2>1, <2>2
  <2>4. \A m \in nodes \ {n} : /\ Emitted(m)' <=> Emitted(m)
                               /\ Arrived(m)' <=> Arrived(m)
    BY <1>2, <2>1 DEF Emitted, Arrived, RulesOf
  <2>5. Emitted(n)' => \E i \in DOMAIN executed' : executed'[i] = n
    <3> SUFFICES ASSUME Emitted(n)' PROVE \E i \in DOMAIN executed' : executed'[i] = n
      OBVIOUS
    <3>1. outcome # "error"
      BY <1>6, <2>1 DEF Executes, Emitted
    <3>2. executed' = Append(executed, n)
      BY <1>6, <3>1 DEF Executed
    <3>3. Len(executed) + 1 \in DOMAIN executed' /\ executed'[Len(executed) + 1] = n
      BY <1>1, <2>1, <3>2
    <3> QED
      BY <3>3
  <2>6. \A m : Emitted(m)' => m \in nodes
    BY <2>1 DEF Emitted
  <2> QED
    BY <1>1, <2>1, <2>3, <2>4, <2>5, <2>6 DEF RulesDelivered, Delivered
<1> QED
  BY <1>1, <1>4, <1>5, <1>6, GraphStepRuns

\* Collecting a result makes its rules pending.
LEMMA WriteDelivers ==
    ASSUME EmittedRulesParse, LoopInv, RulesDelivered, WriteNext, [LoopNext]_allVars
    PROVE  RulesDelivered'
<1> DEFINE v == result[executed[written + 1]]
<1>1. /\ pc = "write" /\ pc' = "write" /\ executed' = executed /\ written' = written + 1
      /\ \/ v \in DOMAIN Emits /\ pending' = pending \o Emits[v]
         \/ v \notin DOMAIN Emits /\ pending' = pending
  BY DEF WriteNext
<1>2. pending \in Seq(Rule) /\ written \in Nat /\ executed \in Seq(nodes)
  BY <1>1 DEF RulesDelivered, LoopInv, LoopTypeOK
<1>3. ~GraphStep
  BY <1>1, GraphStepFacts
<1>4. /\ pending' \in Seq(Rule)
      /\ \A i \in DOMAIN pending : \E j \in DOMAIN pending' : pending'[j] = pending[i]
      /\ v \in DOMAIN Emits =>
           \A i \in DOMAIN Emits[v] : \E j \in DOMAIN pending' : pending'[j] = Emits[v][i]
  <2>1. CASE v \in DOMAIN Emits
    <3>1. Emits[v] \in Seq(Rule)
      BY <2>1 DEF EmittedRulesParse
    <3>2. pending' = pending \o Emits[v]
      BY <1>1, <2>1
    <3> HIDE DEF v
    <3>3. pending' \in Seq(Rule)
      BY <1>2, <3>1, <3>2, ConcatTyped
    <3>4. \A i \in DOMAIN pending : i \in DOMAIN pending' /\ pending'[i] = pending[i]
      BY <1>2, <3>1, <3>2, ConcatPlaces
    <3>5. \A i \in DOMAIN Emits[v] : /\ Len(pending) + i \in DOMAIN pending'
                                     /\ pending'[Len(pending) + i] = Emits[v][i]
      <4>1. \A i \in DOMAIN Emits[v] :
               /\ Len(pending) + i \in DOMAIN (pending \o Emits[v])
               /\ (pending \o Emits[v])[Len(pending) + i] = Emits[v][i]
        BY <1>2, <3>1, ConcatPlaces, SMTT(30)
      <4> QED
        BY <3>2, <4>1, Zenon
    <3> QED
      BY <3>3, <3>4, <3>5, Zenon
  <2>2. CASE v \notin DOMAIN Emits
    BY <1>1, <1>2, <2>2
  <2> QED
    BY <2>1, <2>2
<1>5. ASSUME NEW n, Emitted(n)' PROVE Delivered(n)'
  <2>1. Emitted(n) /\ Delivered(n)
    BY <1>3, <1>5, RulesStay DEF RulesDelivered
  <2>2. /\ RulesOf(n)' = RulesOf(n) /\ (Arrived(n) => Arrived(n)')
        /\ \A r : Compiled(r) => Compiled(r)'
    BY <1>3, RulesStay
  <2>3. CASE Arrived(n)
    BY <2>2, <2>3 DEF Delivered
  <2>4. ASSUME NEW i \in DOMAIN executed, i > written, executed[i] = n
        PROVE  Delivered(n)'
    <3>1. CASE i > written + 1
      BY <1>1, <2>4, <3>1 DEF Delivered
    <3>2. CASE i = written + 1
      <4>1. v = result[n]
        BY <2>4, <3>2
      <4>2. \A r \in RulesOf(n) : \E j \in DOMAIN pending' : pending'[j] = r
        BY <1>4, <2>1, <4>1 DEF RulesOf, Emitted
      <4> QED
        BY <1>1, <1>4, <2>2, <4>2 DEF Delivered
    <3> QED
      BY <1>2, <2>4, <3>1, <3>2
  <2>5. CASE \A r \in RulesOf(n) : Compiled(r) \/ \E i \in DOMAIN pending : pending[i] = r
    BY <1>1, <1>4, <2>2, <2>5 DEF Delivered
  <2> QED
    BY <1>1, <2>1, <2>3, <2>4, <2>5 DEF Delivered
<1> QED
  BY <1>4, <1>5 DEF RulesDelivered

\* A pending rule leaves the list when it is in the graph.
LEMMA InjectDelivers ==
    ASSUME LoopInv, RulesDelivered, pc = "inject", ~GraphStep, [LoopNext]_allVars
    PROVE  RulesDelivered'
<1>1. pc' # "write"
  BY StepsFrom DEF CompileDone, RuleRefused, Abort, InjectDone
<1>2. ASSUME NEW n, Emitted(n)' PROVE Delivered(n)'
  <2>1. Emitted(n) /\ Delivered(n)
    BY <1>2, RulesStay DEF RulesDelivered
  <2>2. /\ RulesOf(n)' = RulesOf(n) /\ (Arrived(n) => Arrived(n)')
        /\ \A r : Compiled(r) => Compiled(r)'
    BY RulesStay
  <2>3. CASE Arrived(n)
    BY <2>2, <2>3 DEF Delivered
  <2>4. ASSUME pending \in Seq(Rule),
               \A r \in RulesOf(n) : Compiled(r) \/ \E i \in DOMAIN pending : pending[i] = r
        PROVE  Delivered(n)'
    <3>1. CASE pc' = pc /\ pending' = pending
      BY <2>2, <2>4, <3>1 DEF Delivered
    <3>2. CASE CompileDone
      <4>1. /\ pc' = pc /\ pending # <<>> /\ pending' = Tail(pending)
            /\ Compiled(Head(pending))
        BY <3>2 DEF CompileDone, Injecting
      <4>2. /\ pending' \in Seq(Rule)
            /\ \A i \in DOMAIN pending :
                 \/ pending[i] = Head(pending)
                 \/ \E j \in DOMAIN pending' : pending'[j] = pending[i]
        BY <2>4, <4>1, TailFacts
      <4> QED
        BY <2>2, <2>4, <4>1, <4>2 DEF Delivered
    <3>3. CASE RuleRefused
      <4>1. Head(pending) \in Rule
        BY <2>4, <3>3 DEF RuleRefused, Injecting
      <4> QED
        BY <3>3, <4>1, LoopConstants DEF RuleRefused
    <3>4. CASE InjectDone
      <4>1. Arrived(n)
        BY <2>4, <3>4 DEF InjectDone, Arrived
      <4> QED
        BY <2>3, <4>1
    <3> QED
      BY <3>1, <3>2, <3>3, <3>4, StepsFrom
  <2> QED
    BY <2>1, <2>3, <2>4 DEF Delivered
<1> QED
  BY <1>1, <1>2 DEF RulesDelivered

\* Every step keeps the rules emitted on their way to the graph.
LEMMA DeliveryStep ==
    ASSUME EmittedRulesParse, LoopInv, RulesDelivered, [LoopNext]_allVars
    PROVE  RulesDelivered'
<1>1. CASE GraphStep
  BY <1>1, GraphStepDelivers
<1>2. CASE ~GraphStep /\ pc = "inject"
  BY <1>2, InjectDelivers
<1>3. CASE ~GraphStep /\ pc = "write"
  <2>1. CASE WriteNext
    BY <2>1, WriteDelivers
  <2>2. CASE WriteDone \/ UNCHANGED loopVars
    <3>1. /\ executed' = executed /\ written' = written /\ pending' = pending
          /\ pc' = "inject" => written = Len(executed)
          /\ pc' \in {"inject", "write"}
      BY <1>3, <2>2 DEF WriteDone, loopVars, locals
    <3>2. executed \in Seq(nodes)
      BY DEF LoopInv, LoopTypeOK
    <3>3. ASSUME NEW n, Emitted(n)' PROVE Delivered(n)'
      <4>1. Delivered(n)
        BY <1>3, <3>3, RulesStay DEF RulesDelivered
      <4> QED
        BY <1>3, <3>1, <3>2, <4>1, RulesStay DEF Delivered
    <3> QED
      BY <1>3, <3>1, <3>3 DEF RulesDelivered
  <2> QED
    BY <1>3, <2>1, <2>2, StepsFrom
<1>4. CASE ~GraphStep /\ pc \notin {"write", "inject"}
  <2>1. pc' # "write"
    BY <1>4, StepsFrom
  <2>2. ASSUME NEW n, Emitted(n)' PROVE Delivered(n)'
    <3>1. Emitted(n) /\ Delivered(n) /\ (Arrived(n) => Arrived(n)')
      BY <1>4, <2>2, RulesStay DEF RulesDelivered
    <3> QED
      BY <1>4, <3>1, StepsFrom DEF Delivered
  <2> QED
    BY <2>1, <2>2 DEF RulesDelivered
<1> QED
  BY <1>1, <1>2, <1>3, <1>4

\* When the graph runs, the rules that nodes emitted in earlier ticks are in it,
\* if the parser accepts all of them.
THEOREM RulesArrive == ASSUME EmittedRulesParse PROVE LoopSpec => EmittedRulesArrive
<1>1. LoopInit => RulesDelivered
  BY DEF LoopInit, Init, RulesDelivered, Emitted
<1>2. LoopInv /\ RulesDelivered /\ [LoopNext]_allVars =>
        [pc = "publish" /\ pc' = "graph" =>
           \A n \in nodes :
              state[n] = "DONE" /\ result[n] \in DOMAIN Emits =>
                LET emitted == Emits[result[n]]
                IN  \A i \in DOMAIN emitted : emitted[i] \in Rule => Compiled(emitted[i])]_allVars
  BY DEF RulesDelivered, Emitted, Delivered, Arrived, RulesOf
<1>3. LoopInv /\ RulesDelivered /\ [LoopNext]_allVars => RulesDelivered'
  BY DeliveryStep
<1> QED
  BY <1>1, <1>2, <1>3, LoopInvHolds, PTL DEF LoopSpec, EmittedRulesArrive

-----------------------------------------------------------------------------
(* What compiled rules do.                                                 *)

\* The nodes of a rule, its condition first.
LEMMA ChainFacts ==
    ASSUME NEW r \in Rule
    PROVE  /\ Len(RuleNodes[r]) \in Nat /\ Len(RuleNodes[r]) >= 2
           /\ DOMAIN RuleNodes[r] = 1 .. Len(RuleNodes[r])
           /\ RuleNodes[r][1] \in ConditionNode
           /\ \A i \in 1 .. Len(RuleNodes[r]) :
                 /\ RuleNodes[r][i] \in Node \ EventNode
                 /\ RuleNodes[r][i] \in NodesOfRule(r)
                 /\ i > 1 => RuleNodes[r][i] \in ActionNode
                 /\ \A j \in 1 .. Len(RuleNodes[r]) :
                       RuleNodes[r][i] = RuleNodes[r][j] => i = j
<1>1. RuleNodes[r] \in Seq(Node)
  BY LoopConstants
<1>2. /\ Len(RuleNodes[r]) >= 2 /\ RuleNodes[r][1] \in ConditionNode
      /\ \A i, j \in DOMAIN RuleNodes[r] :
            /\ i > 1 => RuleNodes[r][i] \in ActionNode
            /\ i # j => RuleNodes[r][i] # RuleNodes[r][j]
  BY RulesAreNew
<1>3. Len(RuleNodes[r]) \in Nat /\ DOMAIN RuleNodes[r] = 1 .. Len(RuleNodes[r])
  BY <1>1
<1>4. \A i \in DOMAIN RuleNodes[r] : RuleNodes[r][i] \in NodesOfRule(r)
  BY DEF NodesOfRule
<1>5. \A i \in DOMAIN RuleNodes[r] : RuleNodes[r][i] \in Node \ EventNode
  <2> SUFFICES ASSUME NEW i \in DOMAIN RuleNodes[r]
               PROVE  RuleNodes[r][i] \in ConditionNode \cup ActionNode
    BY NodeKinds DEF Node
  <2> QED
    BY <1>2, <1>3
<1> QED
  BY <1>2, <1>3, <1>4, <1>5

\* An edge of a rule leads from one of its nodes to the next.
LEMMA LinkFacts ==
    ASSUME NEW r \in Rule, NEW e \in Links(r)
    PROVE  /\ e[1] \in NodesOfRule(r) /\ e[2] \in NodesOfRule(r)
           /\ \E i \in 2 .. Len(RuleNodes[r]) :
                 e[1] = RuleNodes[r][i - 1] /\ e[2] = RuleNodes[r][i]
<1>1. PICK i \in 2 .. Len(RuleNodes[r]) : e = <<RuleNodes[r][i - 1], RuleNodes[r][i]>>
  BY DEF Links
<1>2. i \in 1 .. Len(RuleNodes[r]) /\ i - 1 \in 1 .. Len(RuleNodes[r])
  BY ChainFacts
<1> QED
  BY <1>1, <1>2, ChainFacts

\* Only the links of a rule lead to its nodes.
RuleEdges ==
    \A r \in Rule, e \in edges : e[2] \in NodesOfRule(r) => e \in Links(r)

\* A rule of which a node is in the graph is there, or is being compiled.
WholeRules ==
    \A r \in Rule : NodesOfRule(r) \cap nodes # {} =>
        Compiled(r) \/ (Injecting /\ Head(pending) = r)

\* What ran of a rule is a beginning of it.
ChainOrder ==
    \A r \in Rule : \A i \in 2 .. Len(RuleNodes[r]) :
        state[RuleNodes[r][i]] \in {"DONE", "FAILED"} => state[RuleNodes[r][i - 1]] = "DONE"

\* The predicates of the loop do not raise, and are evaluated on the snapshot.
ConditionsTold ==
    \A n \in ConditionNode :
        /\ state[n] # "FAILED"
        /\ pc = "graph" /\ n \in attempted /\ state[n] # "DONE" => ~Holds(n, snap)

RuleInv == RuleEdges /\ WholeRules /\ ChainOrder /\ ConditionsTold

\* The compilation of a rule goes on to its end.
LEMMA CompilesOn ==
    ASSUME [LoopNext]_allVars, Injecting
    PROVE  \/ pc' = pc /\ pending' = pending
           \/ CompileDone
           \/ Head(pending) = Garbled
<1>1. pc \in {"inject", "hotload"} /\ pending # <<>>
  BY DEF Injecting
<1> USE DEF loopVars, callVars, eventLists, locals
<1>2. CASE Building
  BY <1>1, <1>2 DEF Building, BuildNode, BuildEdge, BuildDone
<1>3. CASE UserStep
  BY <1>1, <1>3 DEF UserStep, InjectEvent, Publish, UserTrigger, SetStore, InjectRule,
                    Stop, InUserCode
<1>4. CASE LoopStep
  <2>1. CASE GraphStep
    BY <1>1, <2>1, GraphStepFacts
  <2>2. CASE ~GraphStep
    BY <1>1, <1>4, <2>2
       DEF LoopStep, LoopAgain, LoopExit, DrainLayers, PublishNext, SubscribersReturn,
           SubscriberRaises, SyncEventNode, BeginGraphTick, WriteNext, WriteDone,
           CompileNode, CompileEdge, RuleRefused, InjectDone, CallbackRaises,
           OnceReturns, NextTick, Break
  <2> QED
    BY <2>1, <2>2
<1>5. CASE Start \/ TickOnce \/ UNCHANGED allVars
  BY <1>1, <1>5 DEF Start, TickOnce, allVars
<1> QED
  BY <1>2, <1>3, <1>4, <1>5 DEF LoopNext

\* The graph grows by a node or an edge of the client's, or of the rule that is
\* being compiled.
GrowsByNode(N) == edges' = edges /\ \E n \in N : nodes' = nodes \cup {n}
GrowsByEdge(E) == nodes' = nodes /\ \E e \in E : edges' = edges \cup {e}

\* Nothing else makes it grow.
LEMMA GraphGrowth ==
    ASSUME LoopInv, [LoopNext]_allVars
    PROVE  \/ nodes' = nodes /\ edges' = edges
           \/ GrowsByNode(Built) \/ GrowsByEdge(BuildEdges)
           \/ /\ Injecting /\ Head(pending) \in Rule /\ pc' = pc /\ pending' = pending
              /\ \/ GrowsByNode(NodesOfRule(Head(pending)))
                 \/ GrowsByEdge(Links(Head(pending)))
<1> USE DEF vars, graphVars
<1>1. CASE GraphStep
  <2>1. CASE NextWave \/ GraphDone
    BY <2>1 DEF NextWave, GraphDone, EndTick
  <2>2. ASSUME NEW n \in Node, NEW outcome \in {"done", "false", "error"},
               NEW v \in Result, NEW st \in {"PENDING", "DONE", "FAILED"},
               NEW r \in Result, Executes(n, outcome, v, st, r)
        PROVE  nodes' = nodes /\ edges' = edges
    BY <2>2 DEF Executes, Attempt
  <2> QED
    BY <1>1, <2>1, <2>2, GraphStepRuns DEF LoopInv, IInv
<1>2. CASE Building
  <2>1. ASSUME NEW i \in DOMAIN BuildOrder, AddNode(BuildOrder[i])
        PROVE  GrowsByNode(Built)
    <3>1. BuildOrder[i] \in Built
      BY DEF Built
    <3> QED
      BY <2>1, <3>1 DEF AddNode, GrowsByNode
  <2>2. ASSUME NEW e \in BuildEdges, AddEdge(e[1], e[2]) PROVE GrowsByEdge(BuildEdges)
    <3>1. e = <<e[1], e[2]>>
      BY LoopConstants, NodeKinds
    <3> QED
      BY <2>2, <3>1 DEF AddEdge, GrowsByEdge
  <2> QED
    BY <1>2, <2>1, <2>2 DEF Building, BuildNode, BuildEdge, BuildDone
<1>3. CASE UserStep
  BY <1>3 DEF UserStep, InjectEvent, Publish, UserTrigger, Trigger, SetStore, InjectRule,
              Stop
<1>4. CASE Start \/ TickOnce \/ UNCHANGED allVars
  BY <1>4 DEF Start, TickOnce, allVars
<1>5. CASE CompileNode
  <2>1. PICK i \in DOMAIN RuleNodes[Head(pending)] : AddNode(RuleNodes[Head(pending)][i])
    BY <1>5 DEF CompileNode
  <2>2. RuleNodes[Head(pending)][i] \in NodesOfRule(Head(pending))
    BY DEF NodesOfRule
  <2>3. GrowsByNode(NodesOfRule(Head(pending)))
    BY <2>1, <2>2 DEF AddNode, GrowsByNode
  <2> QED
    BY <1>5, <2>3 DEF CompileNode, loopVars, locals
<1>6. CASE CompileEdge
  <2>1. PICK e \in Links(Head(pending)) : AddEdge(e[1], e[2])
    BY <1>6 DEF CompileEdge
  <2>2. e = <<e[1], e[2]>>
    BY DEF Links
  <2>3. GrowsByEdge(Links(Head(pending)))
    BY <2>1, <2>2 DEF AddEdge, GrowsByEdge
  <2> QED
    BY <1>6, <2>3 DEF CompileEdge, loopVars, locals
<1>7. CASE LoopStep /\ ~GraphStep /\ ~CompileNode /\ ~CompileEdge
  <2>1. CASE BeginGraphTick \/ \E n \in EventNode : SyncEventNode(n)
    BY <2>1 DEF BeginGraphTick, BeginTick, SyncEventNode, Trigger
  <2>2. CASE LoopAgain \/ DrainLayers \/ PublishNext \/ SubscribersReturn
             \/ WriteNext \/ WriteDone \/ CompileDone \/ InjectDone
    BY <2>2 DEF LoopAgain, DrainLayers, PublishNext, SubscribersReturn,
                WriteNext, WriteDone, CompileDone, InjectDone
  <2>3. CASE LoopExit \/ SubscriberRaises \/ RuleRefused \/ CallbackRaises
             \/ OnceReturns \/ NextTick \/ Break
    BY <2>3 DEF LoopExit, SubscriberRaises, RuleRefused, CallbackRaises,
                OnceReturns, NextTick, Break, Leave, Abort
  <2> QED
    BY <1>7, <2>1, <2>2, <2>3 DEF LoopStep
<1> QED
  BY <1>1, <1>2, <1>3, <1>4, <1>5, <1>6, <1>7 DEF LoopNext

\* Rules stay whole and apart.
LEMMA RulesStayWhole ==
    ASSUME LoopInv, RuleEdges, WholeRules, [LoopNext]_allVars
    PROVE  RuleEdges' /\ WholeRules'
<1>1. \A r : nodes \subseteq nodes' /\ edges \subseteq edges' /\ Compiled(r) => Compiled(r)'
  BY DEF Compiled
<1>2. /\ \A e \in BuildEdges : e[2] \in Built
      /\ \A r \in Rule : NodesOfRule(r) \cap Built = {}
      /\ \A q, r \in Rule : q # r => NodesOfRule(q) \cap NodesOfRule(r) = {}
  BY RulesAreNew
<1>3. ASSUME NEW r \in Rule, Compiled(r) \/ (Injecting /\ Head(pending) = r),
             nodes \subseteq nodes', edges \subseteq edges'
      PROVE  Compiled(r)' \/ (Injecting /\ Head(pending) = r)'
  <2>1. CASE Compiled(r)
    BY <1>1, <1>3, <2>1
  <2>2. CASE Injecting /\ Head(pending) = r
    <3>1. Head(pending) # Garbled
      BY <2>2, LoopConstants
    <3>2. CASE pc' = pc /\ pending' = pending
      BY <2>2, <3>2 DEF Injecting
    <3>3. CASE CompileDone
      BY <1>1, <1>3, <2>2, <3>3 DEF CompileDone
    <3> QED
      BY <2>2, <3>1, <3>2, <3>3, CompilesOn
  <2> QED
    BY <1>3, <2>1, <2>2
<1>4. CASE nodes' = nodes /\ edges' = edges
  BY <1>3, <1>4 DEF RuleEdges, WholeRules
<1>5. CASE GrowsByNode(Built)
  <2>1. PICK n \in Built : nodes' = nodes \cup {n} /\ edges' = edges
    BY <1>5 DEF GrowsByNode
  <2> QED
    BY <1>2, <1>3, <2>1 DEF RuleEdges, WholeRules
<1>6. CASE GrowsByEdge(BuildEdges)
  <2>1. PICK e \in BuildEdges : nodes' = nodes /\ edges' = edges \cup {e}
    BY <1>6 DEF GrowsByEdge
  <2> QED
    BY <1>2, <1>3, <2>1 DEF RuleEdges, WholeRules
<1>7. ASSUME Injecting, Head(pending) \in Rule, pc' = pc, pending' = pending
      PROVE  /\ GrowsByNode(NodesOfRule(Head(pending))) => RuleEdges' /\ WholeRules'
             /\ GrowsByEdge(Links(Head(pending))) => RuleEdges' /\ WholeRules'
  <2>1. PICK q \in Rule : q = Head(pending)
    BY <1>7
  <2>2. Injecting' /\ Head(pending)' = q
    BY <1>7, <2>1 DEF Injecting
  <2>3. ASSUME NEW n \in NodesOfRule(q), nodes' = nodes \cup {n}, edges' = edges
        PROVE  RuleEdges' /\ WholeRules'
    <3>1. RuleEdges'
      BY <2>3 DEF RuleEdges
    <3>2. \A r \in Rule : r # q => NodesOfRule(r) \cap nodes' = NodesOfRule(r) \cap nodes
      BY <1>2, <2>3
    <3> QED
      BY <1>3, <2>2, <2>3, <3>1, <3>2 DEF WholeRules
  <2>4. ASSUME NEW e \in Links(q), nodes' = nodes, edges' = edges \cup {e}
        PROVE  RuleEdges' /\ WholeRules'
    <3>1. e[2] \in NodesOfRule(q)
      BY LinkFacts
    <3>2. RuleEdges'
      BY <1>2, <2>4, <3>1 DEF RuleEdges
    <3> QED
      BY <1>3, <2>4, <3>2 DEF WholeRules
  <2> QED
    BY <2>1, <2>3, <2>4 DEF GrowsByNode, GrowsByEdge
<1> QED
  BY <1>4, <1>5, <1>6, <1>7, GraphGrowth

\* The one cause of a node of a compiled rule is the node before it.
LEMMA RulePreds ==
    ASSUME RuleEdges, NEW r \in Rule, Compiled(r)
    PROVE  /\ Preds(RuleNodes[r][1]) = {}
           /\ \A i \in 2 .. Len(RuleNodes[r]) :
                 Preds(RuleNodes[r][i]) = {RuleNodes[r][i - 1]}
<1>1. ASSUME NEW p \in nodes, NEW i \in 1 .. Len(RuleNodes[r]),
             <<p, RuleNodes[r][i]>> \in edges
      PROVE  i > 1 /\ p = RuleNodes[r][i - 1]
  <2>1. <<p, RuleNodes[r][i]>> \in Links(r)
    BY <1>1, ChainFacts DEF RuleEdges
  <2>2. PICK j \in 2 .. Len(RuleNodes[r]) :
           p = RuleNodes[r][j - 1] /\ RuleNodes[r][i] = RuleNodes[r][j]
    BY <2>1, LinkFacts
  <2>3. j \in 1 .. Len(RuleNodes[r]) /\ i = j
    BY <2>2, ChainFacts
  <2> QED
    BY <2>2, <2>3
<1>2. Preds(RuleNodes[r][1]) = {}
  BY <1>1, ChainFacts DEF Preds
<1>3. ASSUME NEW i \in 2 .. Len(RuleNodes[r])
      PROVE  Preds(RuleNodes[r][i]) = {RuleNodes[r][i - 1]}
  <2>1. i \in 1 .. Len(RuleNodes[r]) /\ i - 1 \in 1 .. Len(RuleNodes[r])
    BY ChainFacts
  <2>2. RuleNodes[r][i - 1] \in nodes /\ <<RuleNodes[r][i - 1], RuleNodes[r][i]>> \in edges
    BY <2>1, ChainFacts DEF Compiled, Links
  <2> QED
    BY <1>1, <2>1, <2>2 DEF Preds
<1> QED
  BY <1>2, <1>3

\* A node that completed and is no event is DONE.
LEMMA CompletedIsDone ==
    ASSUME IInv, NEW n \in Completed(history), n \in nodes, n \notin EventNode
    PROVE  state[n] = "DONE"
<1>1. state[n] \notin {"PENDING", "READY"}
  BY DEF IInv, FreshRuns, Completed, TypeOK
<1>2. state[n] # "FAILED"
  <2> DEFINE About == {k \in DOMAIN history : history[k].node = n}
  <2>1. PICK h \in DOMAIN history : history[h].node = n /\ history[h].outcome = "done"
    BY DEF Completed
  <2>2. \A k \in About : k <= h
    BY <2>1 DEF IInv, FireOnce, TypeOK
  <2>3. LastAbout(n, h)
    BY <2>1, <2>2 DEF LastAbout
  <2> QED
    BY <2>1, <2>3 DEF IInv, HistoryExplainsNodes, AccountsFor
<1> QED
  BY <1>1, <1>2 DEF IInv, TypeOK

\* Nodes other than events keep what they are while the graph is not ticking, and
\* the snapshot is taken before any is attempted.
LEMMA RulesRest ==
    ASSUME LoopInv, ChainOrder, ConditionsTold, [LoopNext]_allVars, ~GraphStep
    PROVE  ChainOrder' /\ ConditionsTold'
<1>1. TypeOK /\ Quiet
  BY DEF LoopInv, IInv
<1>2. \A n \in Node \ EventNode : state'[n] = state[n]
  BY <1>1, OutsideGraphStep DEF TypeOK
<1>3. ChainOrder'
  <2> SUFFICES ASSUME NEW r \in Rule, NEW i \in 2 .. Len(RuleNodes[r]),
                      state'[RuleNodes[r][i]] \in {"DONE", "FAILED"}
               PROVE  state'[RuleNodes[r][i - 1]] = "DONE"
    BY DEF ChainOrder
  <2>1. i \in 1 .. Len(RuleNodes[r]) /\ i - 1 \in 1 .. Len(RuleNodes[r])
    BY ChainFacts
  <2> QED
    BY <1>2, <2>1, ChainFacts DEF ChainOrder
<1>4. ASSUME pc' = "graph" PROVE attempted' = {} \/ (pc = "graph" /\ attempted' = attempted
                                                  /\ snap' = snap)
  <2>1. CASE pc = "graph"
    <3>1. UserStep \/ UNCHANGED allVars
      BY <2>1
         DEF LoopNext, Building, BuildNode, BuildEdge, BuildDone, Start, TickOnce, LoopStep,
             LoopAgain, LoopExit, DrainLayers, PublishNext, SubscribersReturn,
             SubscriberRaises, SyncEventNode, BeginGraphTick, WriteNext, WriteDone,
             CompileNode, CompileEdge, CompileDone, RuleRefused, InjectDone,
             CallbackRaises, OnceReturns, NextTick, Break, Injecting
    <3>2. attempted' = attempted
      BY <3>1 DEF UserStep, InjectEvent, Publish, UserTrigger, Trigger, SetStore, InjectRule,
                  Stop, vars, tickVars, allVars
    <3> QED
      BY <2>1, <3>2, StepsFrom
  <2>2. CASE pc # "graph"
    <3>1. attempted = {} /\ attempted' = attempted
      <4>1. phase = "idle"
        BY <1>1, <2>2 DEF LoopInv, LInv, Phases, TypeOK
      <4>2. phase' = "tick"
        BY <1>4, LInvStep DEF LoopInv, LInv, Phases
      <4>3. BeginGraphTick
        BY <1>4, <2>2
           DEF LoopNext, Building, BuildNode, BuildEdge, BuildDone, UserStep, InjectEvent,
               Publish, UserTrigger, SetStore, InjectRule, Stop, Start, TickOnce,
               LoopStep, LoopAgain, LoopExit, DrainLayers, PublishNext,
               SubscribersReturn, SubscriberRaises, SyncEventNode, WriteNext, WriteDone,
               CompileNode, CompileEdge, CompileDone, RuleRefused, InjectDone,
               CallbackRaises, OnceReturns, NextTick, Break, Leave, Abort, loopVars,
               allVars
      <4> QED
        BY <1>1, <4>1, <4>3 DEF Quiet, BeginGraphTick, BeginTick
    <3> QED
      BY <3>1
  <2> QED
    BY <2>1, <2>2
<1>5. ConditionsTold'
  <2>1. \A n \in ConditionNode : state'[n] = state[n]
    BY <1>2, NodeKinds DEF Node
  <2> QED
    BY <1>4, <2>1 DEF ConditionsTold, Holds
<1> QED
  BY <1>3, <1>5

\* A node of a rule runs when what stands before it has, and a condition as the
\* snapshot says.
LEMMA RulesRun ==
    ASSUME LoopInv, RuleInv, [LoopNext]_allVars, GraphStep
    PROVE  ChainOrder' /\ ConditionsTold'
<1>1. TypeOK /\ pc = "graph" /\ WaveReady /\ HistoryExplainsNodes /\ OutcomeKinds
  BY GraphStepFacts DEF LoopInv, IInv
<1>2. CASE NextWave /\ UNCHANGED loopVars
  BY <1>2 DEF NextWave, RuleInv, ChainOrder, ConditionsTold, Holds, loopVars, locals
<1>3. CASE GraphDone
  BY <1>3 DEF GraphDone, EndTick, RuleInv, ChainOrder, ConditionsTold
<1>4. ASSUME NEW n \in Node, NEW outcome \in {"done", "false", "error"},
             NEW v \in Result, NEW st \in {"PENDING", "DONE", "FAILED"},
             NEW x \in Result, Executes(n, outcome, v, st, x)
      PROVE  ChainOrder'
  <2>1. /\ n \in wave /\ n \in nodes
        /\ \A m \in Node \ {n} : state'[m] = state[m]
        /\ state[n] \notin {"DONE", "FAILED"}
    BY <1>1, <1>4 DEF Executes, Attempt, TypeOK, WaveReady
  <2> SUFFICES ASSUME NEW r \in Rule, NEW i \in 2 .. Len(RuleNodes[r]),
                      state'[RuleNodes[r][i]] \in {"DONE", "FAILED"}
               PROVE  state'[RuleNodes[r][i - 1]] = "DONE"
    BY DEF ChainOrder
  <2>2. /\ i \in 1 .. Len(RuleNodes[r]) /\ i - 1 \in 1 .. Len(RuleNodes[r])
        /\ RuleNodes[r][i] # RuleNodes[r][i - 1]
        /\ RuleNodes[r][i] \in Node \ EventNode /\ RuleNodes[r][i - 1] \in Node \ EventNode
        /\ RuleNodes[r][i] \in NodesOfRule(r)
    <3>1. i \in 1 .. Len(RuleNodes[r]) /\ i - 1 \in 1 .. Len(RuleNodes[r]) /\ i # i - 1
      BY ChainFacts
    <3> QED
      BY <3>1, ChainFacts
  <2>3. CASE RuleNodes[r][i] # n
    <3>1. state[RuleNodes[r][i - 1]] = "DONE"
      BY <2>1, <2>2, <2>3 DEF RuleInv, ChainOrder
    <3> QED
      BY <2>1, <2>2, <3>1
  <2>4. CASE RuleNodes[r][i] = n
    <3>1. Compiled(r)
      BY <1>1, <2>1, <2>2, <2>4 DEF RuleInv, WholeRules, Injecting
    <3>2. RuleNodes[r][i - 1] \in Preds(n)
      BY <2>4, <3>1, RulePreds DEF RuleInv
    <3>3. RuleNodes[r][i - 1] \in Completed(history) /\ RuleNodes[r][i - 1] \in nodes
      BY <1>1, <2>1, <3>2 DEF WaveReady, Preds
    <3>4. state[RuleNodes[r][i - 1]] = "DONE"
      BY <2>2, <3>3, CompletedIsDone DEF LoopInv
    <3> QED
      BY <2>1, <2>2, <2>4, <3>4
  <2> QED
    BY <2>3, <2>4
<1>5. ASSUME NEW n \in ConditionNode, RunCondition(n) PROVE ConditionsTold'
  <2>1. /\ state' = [state EXCEPT ![n] = IF Holds(n, snap) THEN "DONE" ELSE "PENDING"]
        /\ attempted' = attempted \cup {n} /\ snap' = snap
    BY <1>5 DEF RunCondition, FireCondition, Return, Attempt, Executed
  <2> QED
    BY <1>1, <2>1 DEF ConditionsTold, RuleInv, TypeOK, Holds, Node
<1>6. ASSUME NEW n \in EventNode \cup ActionNode, RunEvent(n) \/ RunAction(n) \/ RunRaises(n)
      PROVE  ConditionsTold'
  <2>1. /\ n \notin ConditionNode /\ attempted' = attempted \cup {n} /\ snap' = snap
        /\ \A m \in ConditionNode : state'[m] = state[m]
    <3>1. n \notin ConditionNode /\ n \in Node
      BY NodeKinds DEF Node
    <3>2. /\ attempted' = attempted \cup {n} /\ snap' = snap
          /\ \E s \in {"DONE", "FAILED"} : state' = [state EXCEPT ![n] = s]
      BY <1>6 DEF RunEvent, RunAction, RunRaises, FireEvent, FireAction, FailAction, Return,
                  Raise, Attempt, Executed, loopVars, locals
    <3> QED
      BY <1>1, <3>1, <3>2 DEF TypeOK, Node
  <2> QED
    BY <1>1, <2>1 DEF ConditionsTold, RuleInv, Holds
<1>7. ChainOrder'
  BY <1>1, <1>2, <1>3, <1>4, GraphStepRuns
<1>8. ConditionsTold'
  BY <1>2, <1>3, <1>5, <1>6 DEF GraphStep, GraphWave
<1> QED
  BY <1>7, <1>8

\* A rule in the graph takes effect from the next tick on: its condition as soon
\* as it holds, and each of its actions when what stands before it has completed,
\* in every behaviour of the loop, whoever emitted or injected it and when.
THEOREM CompiledRulesRun == LoopSpec => RulesTakeEffect
<1>1. LoopInit => RuleInv
  <2>1. LoopInit => RuleEdges /\ WholeRules
    BY DEF LoopInit, Init, RuleEdges, WholeRules
  <2>2. LoopInit => ChainOrder
    <3> SUFFICES ASSUME LoopInit, NEW r \in Rule, NEW i \in 2 .. Len(RuleNodes[r])
                 PROVE  state[RuleNodes[r][i]] \notin {"DONE", "FAILED"}
      BY DEF ChainOrder
    <3>1. i \in 1 .. Len(RuleNodes[r])
      BY ChainFacts
    <3> QED
      BY <3>1, ChainFacts DEF LoopInit, Init
  <2>3. LoopInit => ConditionsTold
    BY DEF LoopInit, Init, ConditionsTold, Node
  <2> QED
    BY <2>1, <2>2, <2>3 DEF RuleInv
<1>2. LoopInv /\ RuleInv /\ [LoopNext]_allVars => RuleInv'
  BY RulesStayWhole, RulesRest, RulesRun DEF RuleInv
<1>3. LoopInv /\ RuleInv /\ [LoopNext]_allVars =>
        [pc = "graph" /\ pc' = "write" =>
           \A r \in {q \in Rule : Compiled(q)} :
              LET chain == RuleNodes[r]
              IN  /\ Holds(chain[1], snap) => state[chain[1]] = "DONE"
                  /\ \A i \in 2 .. Len(chain) :
                        state[chain[i]] \in {"DONE", "FAILED"} <=> state[chain[i - 1]] = "DONE"
        ]_allVars
  <2> SUFFICES ASSUME LoopInv, RuleInv, LoopNext, pc = "graph", pc' = "write",
                      NEW r \in Rule, Compiled(r)
               PROVE  /\ Holds(RuleNodes[r][1], snap) => state[RuleNodes[r][1]] = "DONE"
                      /\ \A i \in 2 .. Len(RuleNodes[r]) :
                            state[RuleNodes[r][i]] \in {"DONE", "FAILED"}
                              <=> state[RuleNodes[r][i - 1]] = "DONE"
    OBVIOUS
  <2>1. EndTick
    <3>1. GraphStep
      BY StepsFrom
    <3> QED
      BY <3>1, GraphStepFacts
  <2>2. TypeOK /\ AttemptedSettled
    BY DEF LoopInv, IInv
  <2>3. \A n \in Ready : n \in attempted
    BY <2>1 DEF EndTick
  <2>4. \A n \in Node : state[n] \in {"PENDING", "READY", "DONE", "FAILED"}
    BY <2>2 DEF TypeOK
  <2>5. ASSUME Holds(RuleNodes[r][1], snap) PROVE state[RuleNodes[r][1]] = "DONE"
    <3> DEFINE c == RuleNodes[r][1]
    <3>1. /\ c \in ConditionNode /\ c \in Node \ EventNode /\ c \in nodes /\ Preds(c) = {}
      <4>1. 1 \in 1 .. Len(RuleNodes[r]) /\ 1 \in DOMAIN RuleNodes[r]
        BY ChainFacts
      <4> QED
        BY <4>1, ChainFacts, RulePreds DEF RuleInv, Compiled
    <3>2. state[c] # "FAILED" /\ (c \in attempted /\ state[c] # "DONE" => ~Holds(c, snap))
      BY <3>1 DEF RuleInv, ConditionsTold
    <3> HIDE DEF c
    <3>3. state[c] \in {"PENDING", "READY"} => c \in attempted
      BY <2>3, <3>1 DEF Ready
    <3> QED
      BY <2>4, <2>5, <3>1, <3>2, <3>3 DEF c
  <2>6. ASSUME NEW i \in 2 .. Len(RuleNodes[r]), state[RuleNodes[r][i - 1]] = "DONE"
        PROVE  state[RuleNodes[r][i]] \in {"DONE", "FAILED"}
    <3> DEFINE a == RuleNodes[r][i]
    <3>1. /\ a \in ActionNode /\ a \in Node \ EventNode /\ a \in nodes
          /\ Preds(a) = {RuleNodes[r][i - 1]}
      <4>1. i \in 1 .. Len(RuleNodes[r]) /\ i > 1 /\ i \in DOMAIN RuleNodes[r]
        BY ChainFacts
      <4> QED
        BY <4>1, ChainFacts, RulePreds DEF RuleInv, Compiled
    <3> HIDE DEF a
    <3>2. state[a] \in {"PENDING", "READY"} => a \in attempted
      BY <2>3, <2>6, <3>1 DEF Ready
    <3> QED
      BY <2>2, <2>4, <3>1, <3>2, NodeKinds DEF AttemptedSettled, a
  <2> QED
    BY <2>5, <2>6 DEF RuleInv, ChainOrder
<1> QED
  BY <1>1, <1>2, <1>3, LoopInvHolds, PTL DEF LoopSpec, RulesTakeEffect

-----------------------------------------------------------------------------
(* What becomes of an event.                                               *)

\* The record only observes the loop.
LEMMA DeliveryIsLoop == DeliverySpec => LoopSpec
<1>1. DeliveryInit => LoopInit
  BY DEF DeliveryInit
<1>2. [DeliveryNext]_deliveryVars => [LoopNext]_allVars
  BY DEF DeliveryNext, deliveryVars
<1> QED
  BY <1>1, <1>2, PTL DEF DeliverySpec, LoopSpec

\* All that is known of the loop holds beside the record.
LEMMA LoopInvBeside == DeliverySpec => []LoopInv
  BY DeliveryIsLoop, LoopInvHolds, PTL

Telling == pc \in {"subscribers", "hotload"}

\* What a step may do to the lists of events and to the record.
EventSent ==
    /\ pc' = pc
    /\ \E ev \in Event : Fresh(ev) /\ queue' = Append(queue, ev) /\ sent' = Append(sent, ev)
    /\ UNCHANGED <<draining, bus, drains, raised, heard>>

EventPublished ==
    /\ pc' = pc /\ pc # "publish"
    /\ \E ev \in Event : Fresh(ev) /\ bus' = Append(bus, ev)
    /\ UNCHANGED <<queue, draining, sent, drains, raised, heard>>

LayersDrained ==
    /\ pc = "drain" /\ pc' = "publish"
    /\ draining' = queue /\ queue' = <<>> /\ drains' = drains \cup {Len(sent)}
    /\ UNCHANGED <<bus, sent, raised, heard>>

SubscribersTold ==
    /\ pc = "publish" /\ pc' = "subscribers" /\ draining # <<>>
    /\ bus' = Append(bus, Head(draining)) /\ draining' = Tail(draining)
    /\ UNCHANGED <<queue, sent, drains, raised, heard>>

SubscriberRaised ==
    /\ Telling /\ pc' = "idle"
    /\ draining' = <<>> /\ raised' = raised \cup BeingTold
    /\ UNCHANGED <<queue, bus, sent, drains, heard>>

GraphBegun ==
    /\ pc = "publish" /\ pc' = "graph" /\ draining = <<>> /\ Awaited = {}
    /\ heard' = Append(heard, Len(bus))
    /\ UNCHANGED <<queue, draining, bus, sent, drains, raised>>

Elsewhere ==
    /\ UNCHANGED <<queue, draining, bus, sent, drains, raised, heard>>
    /\ \/ pc' = pc
       \/ Telling /\ (Telling' \/ pc' = "publish")
       \/ pc \notin {"publish", "subscribers", "hotload"} /\ pc' # "publish" /\ ~Telling'
             /\ pc' \notin {"build", "graph"}

\* Nothing is drained but what is being published.
Resting == pc # "publish" /\ ~Telling => draining = <<>>

\* Appending makes a sequence longer, by the appended.
LEMMA LongerByOne ==
    ASSUME NEW S, NEW q \in Seq(S), NEW e
    PROVE  /\ Len(Append(q, e)) = Len(q) + 1 /\ Len(q) \in Nat
           /\ Append(q, e)[Len(Append(q, e))] = e
           /\ Append(q, e) # q
OBVIOUS

\* A step that lets the lists of events and pc alone leaves the record alone.
LEMMA NothingToRecord ==
    ASSUME LoopTypeOK, UNCHANGED <<queue, bus>>, Observe
    PROVE  /\ sent' = sent
           /\ pc # "drain" => drains' = drains
           /\ ~(Telling /\ pc' = "idle") => raised' = raised
           /\ ~(pc = "publish" /\ pc' = "graph") => heard' = heard
<1>1. ~(Len(queue') > Len(queue))
  <2>1. Len(queue) \in Nat
    BY DEF LoopTypeOK
  <2> QED
    BY <2>1
<1> QED
  BY <1>1 DEF Observe, Telling

\* Every step of the loop does one of these to them.
LEMMA DeliveryKinds ==
    ASSUME LoopInv, Resting, [DeliveryNext]_deliveryVars
    PROVE  \/ EventSent \/ EventPublished \/ LayersDrained \/ SubscribersTold
           \/ SubscriberRaised \/ GraphBegun \/ Elsewhere
<1> USE DEF loopVars, callVars, eventLists, locals, Telling
<1>0. LoopTypeOK
  BY DEF LoopInv
<1>1. CASE UNCHANGED deliveryVars
  BY <1>1 DEF deliveryVars, allVars, record, Elsewhere
<1>2. ASSUME NEW ev \in Event, InjectEvent(ev), NewEvents, Observe PROVE EventSent
  <2>1. queue \in Seq(Event) /\ Len(queue) \in Nat
    BY <1>0 DEF LoopTypeOK
  <2>2. queue' = Append(queue, ev) /\ pc' = pc /\ UNCHANGED <<draining, bus>>
        /\ pc \notin {"drain", "publish"}
    BY <1>2 DEF InjectEvent, InUserCode
  <2>3. Len(queue') > Len(queue) /\ queue'[Len(queue')] = ev
    BY <2>1, <2>2, LongerByOne
  <2>4. sent' = Append(sent, ev) /\ Fresh(ev) /\ UNCHANGED <<drains, heard>>
    BY <1>2, <2>2, <2>3 DEF NewEvents, Observe
  <2>5. raised' = raised
    BY <1>2, <2>2 DEF Observe
  <2> QED
    BY <2>2, <2>4, <2>5 DEF EventSent
<1>3. ASSUME NEW ev \in Event, Publish(ev), NewEvents, Observe PROVE EventPublished
  <2>1. bus \in Seq(Event) /\ Len(bus) \in Nat /\ Len(queue) \in Nat
    BY <1>0 DEF LoopTypeOK
  <2>2. bus' = Append(bus, ev) /\ pc' = pc /\ UNCHANGED <<draining, queue>>
        /\ pc \notin {"drain", "publish"}
    BY <1>3 DEF Publish, InUserCode
  <2>3. Len(bus') > Len(bus) /\ bus'[Len(bus')] = ev
    BY <2>1, <2>2, LongerByOne
  <2>4. ~(Len(queue') > Len(queue))
    BY <2>1, <2>2
  <2>5. Fresh(ev)
    BY <1>3, <2>2, <2>3 DEF NewEvents
  <2>6. UNCHANGED <<sent, drains, raised, heard>>
    BY <1>3, <2>2, <2>4 DEF Observe
  <2> QED
    BY <2>2, <2>5, <2>6 DEF EventPublished
<1>4. ASSUME DrainLayers, Observe PROVE LayersDrained
  <2>1. pc = "drain" /\ pc' = "publish" /\ draining' = queue /\ queue' = <<>> /\ bus' = bus
    BY <1>4 DEF DrainLayers
  <2>2. ~(Len(queue') > Len(queue))
    <3>1. Len(queue) \in Nat /\ Len(<<>>) = 0
      BY <1>0 DEF LoopTypeOK
    <3> QED
      BY <2>1, <3>1
  <2> QED
    BY <1>4, <2>1, <2>2 DEF Observe, LayersDrained
<1>5. ASSUME PublishNext, Observe PROVE SubscribersTold
  <2>1. Len(queue) \in Nat
    BY <1>0 DEF LoopTypeOK
  <2> QED
    BY <1>5, <2>1 DEF PublishNext, Observe, SubscribersTold
<1>6. ASSUME SubscriberRaises \/ RuleRefused \/ CallbackRaises, Observe
      PROVE  SubscriberRaised \/ Elsewhere
  <2>1. /\ pc \in {"subscribers", "inject", "hotload", "callbacks"} /\ pc' = "idle"
        /\ draining' = <<>> /\ UNCHANGED <<queue, bus>>
    BY <1>6 DEF SubscriberRaises, RuleRefused, CallbackRaises, Injecting, Abort, ForgetLocals
  <2> QED
    BY <1>0, <1>6, <2>1, NothingToRecord
       DEF Resting, SubscriberRaised, Elsewhere, Observe
<1>7. ASSUME BeginGraphTick, Observe PROVE GraphBegun
  <2>1. /\ pc = "publish" /\ pc' = "graph" /\ draining = <<>> /\ Awaited = {}
        /\ UNCHANGED <<queue, draining, bus>>
    BY <1>7 DEF BeginGraphTick
  <2>2. heard' = Append(heard, Len(bus))
    BY <1>7, <2>1 DEF Observe
  <2> QED
    BY <1>0, <1>7, <2>1, <2>2, NothingToRecord DEF GraphBegun
<1>8. ASSUME UNCHANGED <<queue, draining, bus>>, Observe, pc # "drain",
             \/ pc' = pc
             \/ Telling /\ (Telling' \/ pc' = "publish")
             \/ pc \notin {"publish", "subscribers", "hotload"} /\ pc' # "publish" /\ ~Telling'
                   /\ pc' \notin {"build", "graph"}
      PROVE  Elsewhere
  BY <1>0, <1>8, NothingToRecord DEF Elsewhere
<1>9. ASSUME UserStep, NewEvents, Observe
      PROVE  EventSent \/ EventPublished \/ Elsewhere
  <2>1. ASSUME NEW n \in HandTriggered, NEW v \in TriggerPayload, UserTrigger(n, v)
        PROVE  Elsewhere
    BY <1>8, <1>9, <2>1 DEF UserTrigger, InUserCode
  <2>2. ASSUME NEW k \in Key, NEW v \in Val, SetStore(k, v) PROVE Elsewhere
    BY <1>8, <1>9, <2>2 DEF SetStore, InUserCode
  <2>3. ASSUME NEW r \in UserRules, InjectRule(r) PROVE Elsewhere
    BY <1>8, <1>9, <2>3 DEF InjectRule
  <2>4. CASE Stop
    BY <1>8, <1>9, <2>4 DEF Stop, InUserCode
  <2> QED
    BY <1>2, <1>3, <1>9, <2>1, <2>2, <2>3, <2>4 DEF UserStep
<1>10. ASSUME GraphStep, Observe PROVE Elsewhere
  <2>1. UNCHANGED <<queue, draining, bus>>
    BY <1>10 DEF GraphStep, GraphWave, RunEvent, RunCondition, RunAction, RunRaises,
                 GraphDone, Executed
  <2> QED
    BY <1>8, <1>10, <2>1, GraphStepFacts
<1>11. ASSUME Building \/ Start \/ TickOnce, Observe PROVE Elsewhere
  <2>1. UNCHANGED <<queue, draining, bus>> /\ pc # "drain"
    BY <1>11 DEF Building, BuildNode, BuildEdge, BuildDone, Start, TickOnce
  <2>2. pc' = pc \/ (pc \in {"build", "idle"} /\ pc' \in {"idle", "loop", "drain"})
    BY <1>11 DEF Building, BuildNode, BuildEdge, BuildDone, Start, TickOnce
  <2> QED
    BY <1>8, <1>11, <2>1, <2>2
<1>12. ASSUME LoopStep, ~GraphStep, Observe,
              ~DrainLayers, ~PublishNext, ~BeginGraphTick,
              ~SubscriberRaises, ~RuleRefused, ~CallbackRaises
       PROVE  Elsewhere
  <2>1. CASE LoopAgain \/ SubscribersReturn \/ WriteNext \/ WriteDone \/ CompileNode
             \/ CompileEdge \/ CompileDone \/ \E n \in EventNode : SyncEventNode(n)
    BY <1>8, <1>12, <2>1
       DEF LoopAgain, SubscribersReturn, WriteNext, WriteDone, CompileNode, CompileEdge,
           CompileDone, Injecting, SyncEventNode
  <2>2. CASE LoopExit \/ OnceReturns \/ NextTick \/ Break
    <3>1. pc \in {"loop", "callbacks"} /\ pc' \in {"idle", "loop"} /\ draining' = <<>>
          /\ UNCHANGED <<queue, bus>>
      BY <2>2 DEF LoopExit, OnceReturns, NextTick, Break, Leave, ForgetLocals
    <3> QED
      BY <1>8, <1>12, <3>1 DEF Resting
  <2>3. CASE InjectDone
    BY <1>8, <1>12, <2>3 DEF InjectDone
  <2> QED
    BY <1>12, <2>1, <2>2, <2>3 DEF LoopStep
<1> QED
  BY <1>1, <1>4, <1>5, <1>6, <1>7, <1>9, <1>10, <1>11, <1>12
     DEF DeliveryNext, LoopNext, LoopStep

\* How many of the sent events have been drained, and how many of them are on
\* the bus or lost.
Drained == Len(sent) - Len(queue)
Past == Drained - Len(draining)

\* The queue and what is drained are the end of what has been sent.
Placed ==
    /\ sent \in Seq(Event) /\ Len(queue) + Len(draining) <= Len(sent)
    /\ \A x \in DOMAIN queue : queue[x] = sent[Drained + x]
    /\ \A x \in DOMAIN draining : draining[x] = sent[Past + x]
    /\ Resting

\* No two sent events have the same data.
Distinct == \A i, j \in DOMAIN sent : sent[i].data = sent[j].data => i = j

\* What is on the bus of them is there in order.
BusInOrder ==
    \A p \in DOMAIN bus, i \in DOMAIN sent :
        bus[p] = sent[i] =>
            /\ i <= Past
            /\ \A q \in DOMAIN bus, j \in DOMAIN sent : bus[q] = sent[j] => (i < j <=> p < q)

\* No drain falls between what is drained now.
DrainsKnown ==
    /\ drains \subseteq 0 .. Drained
    /\ pc = "publish" \/ Telling => Drained \in drains
    /\ pc = "publish" => \A d \in drains : d <= Past \/ d = Drained
    /\ Telling => \A d \in drains : d < Past \/ d = Drained

\* Subscribers are told of the last.
TellsLast == Telling => Past \in DOMAIN sent /\ OnBus(sent[Past])

\* Raised at are events on the bus, drained before what is drained next.
RaisedKnown ==
    \A j \in raised :
        j \in DOMAIN sent /\ OnBus(sent[j]) /\ \E d \in drains : j <= d /\ d <= Past

\* Of the events drained by now those are lost that an exception stopped.
LostKnown ==
    \A i \in DOMAIN sent : i <= Past =>
        (OnBus(sent[i]) <=> \A j \in raised : j < i => ~DrainedTogether(j, i))

\* Where each event is.
DeliveryInv ==
    /\ Placed /\ Distinct /\ BusInOrder /\ DrainsKnown /\ TellsLast
    /\ RaisedKnown /\ LostKnown


\* The lengths of the lists.
LEMMA ListLengths ==
    ASSUME LoopTypeOK, Placed
    PROVE  /\ Len(queue) \in Nat /\ Len(draining) \in Nat /\ Len(bus) \in Nat /\ Len(sent) \in Nat
           /\ DOMAIN queue = 1 .. Len(queue) /\ DOMAIN draining = 1 .. Len(draining)
           /\ DOMAIN bus = 1 .. Len(bus) /\ DOMAIN sent = 1 .. Len(sent)
           /\ Drained \in Nat /\ Past \in Nat /\ Past <= Drained /\ Drained <= Len(sent)
           /\ Past + Len(draining) = Drained /\ Drained + Len(queue) = Len(sent)
  BY DEF LoopTypeOK, Placed, Drained, Past

\* The members of a sequence longer by one.
LEMMA AppendMembers ==
    ASSUME NEW S, NEW q \in Seq(S), NEW e \in S
    PROVE  /\ Append(q, e) \in Seq(S) /\ Len(q) \in Nat /\ DOMAIN q = 1 .. Len(q)
           /\ Len(Append(q, e)) = Len(q) + 1
           /\ DOMAIN Append(q, e) = 1 .. (Len(q) + 1)
           /\ \A x \in 1 .. Len(q) : Append(q, e)[x] = q[x]
           /\ Append(q, e)[Len(q) + 1] = e
OBVIOUS

\* A new event is sent.
LEMMA SentKeeps == LoopTypeOK /\ DeliveryInv /\ EventSent => DeliveryInv'
<1> SUFFICES ASSUME LoopTypeOK, DeliveryInv, EventSent PROVE DeliveryInv'
  OBVIOUS
<1>1. PICK ev \in Event : Fresh(ev) /\ queue' = Append(queue, ev) /\ sent' = Append(sent, ev)
  BY DEF EventSent
<1>2. UNCHANGED <<pc, draining, bus, drains, raised>>
  BY DEF EventSent
<1>3. queue \in Seq(Event) /\ sent \in Seq(Event) /\ Placed
  BY DEF LoopTypeOK, DeliveryInv, Placed
<1>4. /\ DOMAIN queue = 1 .. Len(queue) /\ DOMAIN sent = 1 .. Len(sent)
      /\ Len(queue) \in Nat /\ Len(draining) \in Nat /\ Len(sent) \in Nat
      /\ Drained + Len(queue) = Len(sent) /\ Past + Len(draining) = Drained
      /\ Drained \in Nat /\ Past \in Nat /\ DOMAIN draining = 1 .. Len(draining)
  BY <1>3, ListLengths
<1>5. /\ sent' \in Seq(Event) /\ Len(sent') = Len(sent) + 1 /\ Len(queue') = Len(queue) + 1
      /\ DOMAIN queue' = 1 .. (Len(queue) + 1) /\ DOMAIN sent' = 1 .. (Len(sent) + 1)
      /\ \A x \in 1 .. Len(queue) : queue'[x] = queue[x]
      /\ \A x \in 1 .. Len(sent) : sent'[x] = sent[x]
      /\ queue'[Len(queue) + 1] = ev /\ sent'[Len(sent) + 1] = ev
  BY <1>1, <1>3, AppendMembers
<1>6. Drained' = Drained /\ Past' = Past
  BY <1>2, <1>4, <1>5 DEF Drained, Past
<1>7. /\ \A i \in 1 .. Len(sent) : sent[i].data # ev.data
      /\ \A p \in DOMAIN bus : bus[p] # ev
  BY <1>1, <1>4 DEF Fresh
<1>8. \A p \in DOMAIN bus, i \in DOMAIN sent' :
         bus[p] = sent'[i] => i \in DOMAIN sent /\ bus[p] = sent[i]
  BY <1>4, <1>5, <1>7
<1>9. Placed'
  <2>1. Len(queue') + Len(draining') <= Len(sent')
    BY <1>2, <1>3, <1>4, <1>5 DEF Placed
  <2>2. \A x \in DOMAIN queue' : queue'[x] = sent'[Drained + x]
    <3> SUFFICES ASSUME NEW x \in DOMAIN queue' PROVE queue'[x] = sent'[Drained + x]
      OBVIOUS
    <3>1. CASE x = Len(queue) + 1
      BY <1>4, <1>5, <3>1
    <3>2. CASE x \in 1 .. Len(queue)
      <4>1. Drained + x \in 1 .. Len(sent)
        BY <1>4, <3>2
      <4>2. queue[x] = sent[Drained + x]
        BY <1>3, <1>4, <3>2 DEF Placed
      <4> QED
        BY <1>5, <3>2, <4>1, <4>2
    <3> QED
      BY <1>4, <1>5, <3>1, <3>2
  <2>3. \A x \in DOMAIN draining : draining[x] = sent'[Past + x]
    <3> SUFFICES ASSUME NEW x \in DOMAIN draining PROVE draining[x] = sent'[Past + x]
      OBVIOUS
    <3>1. Past + x \in 1 .. Len(sent)
      BY <1>4
    <3> QED
      BY <1>3, <1>5, <3>1 DEF Placed
  <2> QED
    BY <1>2, <1>3, <1>5, <1>6, <2>1, <2>2, <2>3 DEF Placed, Resting, Telling
<1>10. Distinct'
  BY <1>4, <1>5, <1>7 DEF DeliveryInv, Distinct
<1>11. BusInOrder'
  BY <1>2, <1>6, <1>8 DEF DeliveryInv, BusInOrder
<1>12. DrainsKnown'
  BY <1>2, <1>6 DEF DeliveryInv, DrainsKnown, Telling
<1>13. TellsLast' /\ RaisedKnown'
  <2>1. \A i \in DOMAIN sent : i \in DOMAIN sent' /\ sent'[i] = sent[i]
    BY <1>4, <1>5
  <2>2. TellsLast'
    BY <1>2, <1>6, <2>1 DEF DeliveryInv, TellsLast, OnBus, Telling
  <2>3. RaisedKnown'
    BY <1>2, <1>6, <2>1 DEF DeliveryInv, RaisedKnown, OnBus
  <2> QED
    BY <2>2, <2>3
<1>14. LostKnown'
  <2>1. \A i \in DOMAIN sent' : i <= Past => i \in DOMAIN sent /\ sent'[i] = sent[i]
    BY <1>4, <1>5
  <2> QED
    BY <1>2, <1>6, <2>1 DEF DeliveryInv, LostKnown, OnBus, DrainedTogether
<1> QED
  BY <1>9, <1>10, <1>11, <1>12, <1>13, <1>14 DEF DeliveryInv

\* User code publishes an event of its own.
LEMMA PublishedKeeps == LoopTypeOK /\ DeliveryInv /\ EventPublished => DeliveryInv'
<1> SUFFICES ASSUME LoopTypeOK, DeliveryInv, EventPublished PROVE DeliveryInv'
  OBVIOUS
<1>1. PICK ev \in Event : Fresh(ev) /\ bus' = Append(bus, ev)
  BY DEF EventPublished
<1>2. UNCHANGED <<pc, queue, draining, sent, drains, raised>>
  BY DEF EventPublished
<1>3. /\ DOMAIN bus = 1 .. Len(bus) /\ DOMAIN bus' = 1 .. (Len(bus) + 1) /\ Len(bus) \in Nat
      /\ \A x \in 1 .. Len(bus) : bus'[x] = bus[x]
      /\ bus'[Len(bus) + 1] = ev
  BY <1>1, AppendMembers DEF LoopTypeOK
<1>4. Drained' = Drained /\ Past' = Past
  BY <1>2 DEF Drained, Past
<1>5. \A i \in DOMAIN sent : sent[i] # ev
  BY <1>1 DEF Fresh
<1>6. \A p \in DOMAIN bus', i \in DOMAIN sent :
         bus'[p] = sent[i] => p \in DOMAIN bus /\ bus[p] = sent[i]
  BY <1>3, <1>5
<1>7. \A i \in DOMAIN sent : OnBus(sent[i])' <=> OnBus(sent[i])
  <2>1. \A i \in DOMAIN sent :
           (\E p \in DOMAIN bus' : bus'[p] = sent[i]) <=> \E p \in DOMAIN bus : bus[p] = sent[i]
    BY <1>3, <1>6
  <2> QED
    BY <1>2, <2>1 DEF OnBus
<1>8. Placed' /\ Distinct' /\ DrainsKnown'
  BY <1>2, <1>4
     DEF DeliveryInv, Placed, Distinct, DrainsKnown, Telling, Resting
<1>9. BusInOrder'
  BY <1>2, <1>4, <1>6 DEF DeliveryInv, BusInOrder
<1>10. TellsLast' /\ RaisedKnown'
  BY <1>2, <1>4, <1>7 DEF DeliveryInv, TellsLast, RaisedKnown, Telling
<1>11. LostKnown'
  BY <1>2, <1>4, <1>7 DEF DeliveryInv, LostKnown, DrainedTogether
<1> QED
  BY <1>8, <1>9, <1>10, <1>11 DEF DeliveryInv

\* A tick drains the layers.
LEMMA DrainedKeeps == LoopTypeOK /\ DeliveryInv /\ LayersDrained => DeliveryInv'
<1> SUFFICES ASSUME LoopTypeOK, DeliveryInv, LayersDrained PROVE DeliveryInv'
  OBVIOUS
<1>1. /\ pc = "drain" /\ pc' = "publish" /\ draining' = queue /\ queue' = <<>>
      /\ drains' = drains \cup {Len(sent)} /\ UNCHANGED <<bus, sent, raised>>
  BY DEF LayersDrained
<1>2. /\ Len(queue) \in Nat /\ Len(draining) \in Nat /\ Len(sent) \in Nat
      /\ Drained + Len(queue) = Len(sent) /\ Past + Len(draining) = Drained
      /\ Drained \in Nat /\ Past \in Nat /\ DOMAIN sent = 1 .. Len(sent)
  BY ListLengths DEF DeliveryInv
<1>3. draining = <<>> /\ Past = Drained
  BY <1>1, <1>2 DEF DeliveryInv, Placed, Resting, Telling
<1>4. Drained' = Len(sent) /\ Past' = Past
  BY <1>1, <1>2, <1>3 DEF Drained, Past
<1>5. Placed'
  BY <1>1, <1>2, <1>3, <1>4 DEF DeliveryInv, Placed, Resting
<1>6. Distinct' /\ BusInOrder' /\ TellsLast'
  BY <1>1, <1>4 DEF DeliveryInv, Distinct, BusInOrder, TellsLast, Telling
<1>7. DrainsKnown'
  <2>1. \A d \in drains : d \in 0 .. Drained
    BY DEF DeliveryInv, DrainsKnown
  <2> QED
    BY <1>1, <1>2, <1>3, <1>4, <2>1 DEF DrainsKnown, Telling
<1>8. RaisedKnown'
  BY <1>1, <1>4 DEF DeliveryInv, RaisedKnown, OnBus
<1>9. LostKnown'
  <2>1. \A i \in DOMAIN sent, j \in raised :
           i <= Past => (DrainedTogether(j, i)' <=> DrainedTogether(j, i))
    <3>1. \A i \in DOMAIN sent : i <= Past => ~(Len(sent) < i)
      BY <1>2
    <3> QED
      BY <1>1, <3>1 DEF DrainedTogether
  <2> QED
    BY <1>1, <1>4, <2>1 DEF DeliveryInv, LostKnown, OnBus
<1> QED
  BY <1>5, <1>6, <1>7, <1>8, <1>9 DEF DeliveryInv

\* Subscribers are told of the next of them.
LEMMA ToldKeeps == LoopTypeOK /\ DeliveryInv /\ SubscribersTold => DeliveryInv'
<1> SUFFICES ASSUME LoopTypeOK, DeliveryInv, SubscribersTold PROVE DeliveryInv'
  OBVIOUS
<1>1. /\ pc = "publish" /\ pc' = "subscribers" /\ draining # <<>>
      /\ bus' = Append(bus, Head(draining)) /\ draining' = Tail(draining)
      /\ UNCHANGED <<queue, sent, drains, raised>>
  BY DEF SubscribersTold
<1>2. /\ Len(queue) \in Nat /\ Len(draining) \in Nat /\ Len(sent) \in Nat
      /\ Drained + Len(queue) = Len(sent) /\ Past + Len(draining) = Drained
      /\ Drained \in Nat /\ Past \in Nat /\ DOMAIN sent = 1 .. Len(sent)
      /\ DOMAIN draining = 1 .. Len(draining)
  BY ListLengths DEF DeliveryInv
<1>3. draining \in Seq(Event) /\ bus \in Seq(Event)
  BY DEF LoopTypeOK
<1>4. /\ Len(draining) >= 1 /\ Head(draining) = draining[1] /\ Head(draining) \in Event
      /\ Len(Tail(draining)) = Len(draining) - 1
      /\ DOMAIN Tail(draining) = 1 .. (Len(draining) - 1)
      /\ \A x \in 1 .. (Len(draining) - 1) : Tail(draining)[x] = draining[x + 1]
  BY <1>1, <1>3
<1> DEFINE t == Past + 1
<1>5. t \in DOMAIN sent /\ Head(draining) = sent[t] /\ t \in Nat
  BY <1>2, <1>4 DEF DeliveryInv, Placed
<1>6. Drained' = Drained /\ Past' = t
  BY <1>1, <1>2, <1>4 DEF Drained, Past
<1>7. /\ DOMAIN bus = 1 .. Len(bus) /\ DOMAIN bus' = 1 .. (Len(bus) + 1) /\ Len(bus) \in Nat
      /\ \A x \in 1 .. Len(bus) : bus'[x] = bus[x]
      /\ bus'[Len(bus) + 1] = sent[t]
  BY <1>1, <1>3, <1>4, <1>5, AppendMembers
<1>8. \A i \in DOMAIN sent : sent[i] = sent[t] => i = t
  BY <1>5 DEF DeliveryInv, Distinct
<1>9. \A p \in DOMAIN bus', i \in DOMAIN sent :
         bus'[p] = sent[i] <=> \/ p \in DOMAIN bus /\ bus[p] = sent[i]
                               \/ p = Len(bus) + 1 /\ i = t
  BY <1>7, <1>8
<1>10. \A p \in DOMAIN bus, i \in DOMAIN sent : bus[p] = sent[i] => i <= Past
  BY DEF DeliveryInv, BusInOrder
<1>11. \A i \in DOMAIN sent : OnBus(sent[i])' <=> OnBus(sent[i]) \/ i = t
  <2>1. \A i \in DOMAIN sent :
           (\E p \in DOMAIN bus' : bus'[p] = sent[i])
             <=> (\E p \in DOMAIN bus : bus[p] = sent[i]) \/ i = t
    BY <1>7, <1>9
  <2> QED
    BY <1>1, <2>1 DEF OnBus
<1> HIDE DEF t
<1>12. t = Past + 1
  BY DEF t
<1>13. Placed'
  <2>1. Len(queue') + Len(draining') <= Len(sent')
    BY <1>1, <1>2, <1>4
  <2>2. \A x \in DOMAIN draining' : draining'[x] = sent[t + x]
    <3> SUFFICES ASSUME NEW x \in 1 .. (Len(draining) - 1)
                 PROVE  Tail(draining)[x] = sent[t + x]
      BY <1>1, <1>4
    <3>1. x + 1 \in DOMAIN draining /\ Past + (x + 1) = t + x
      BY <1>2, <1>12
    <3> QED
      BY <1>4, <3>1 DEF DeliveryInv, Placed
  <2> QED
    BY <1>1, <1>6, <2>1, <2>2 DEF DeliveryInv, Placed, Resting, Telling
<1>14. Distinct'
  BY <1>1 DEF DeliveryInv, Distinct
<1>15. BusInOrder'
  <2> SUFFICES ASSUME NEW p \in DOMAIN bus', NEW i \in DOMAIN sent, bus'[p] = sent[i]
               PROVE  /\ i <= t
                      /\ \A q \in DOMAIN bus', j \in DOMAIN sent :
                            bus'[q] = sent[j] => (i < j <=> p < q)
    BY <1>1, <1>6 DEF BusInOrder
  <2>1. CASE p \in DOMAIN bus /\ bus[p] = sent[i]
    <3>1. \A q \in DOMAIN bus, j \in DOMAIN sent : bus[q] = sent[j] => (i < j <=> p < q)
      BY <2>1 DEF DeliveryInv, BusInOrder
    <3> QED
      BY <1>2, <1>7, <1>9, <1>10, <1>12, <2>1, <3>1
  <2>2. CASE p = Len(bus) + 1 /\ i = t
    BY <1>2, <1>7, <1>9, <1>10, <1>12, <2>2
  <2> QED
    BY <1>9, <2>1, <2>2
<1>16. DrainsKnown'
  <2>1. \A d \in drains : d \in 0 .. Drained /\ (d <= Past \/ d = Drained)
    BY <1>1 DEF DeliveryInv, DrainsKnown
  <2>2. \A d \in drains : d < t \/ d = Drained
    BY <1>2, <1>12, <2>1
  <2> QED
    BY <1>1, <1>6, <2>2 DEF DeliveryInv, DrainsKnown, Telling
<1>17. TellsLast'
  BY <1>1, <1>5, <1>6, <1>7 DEF TellsLast, OnBus
<1>18. RaisedKnown'
  <2>1. \A d \in drains : d <= Past => d <= t
    <3>1. \A d \in drains : d \in 0 .. Drained
      BY DEF DeliveryInv, DrainsKnown
    <3> QED
      BY <1>2, <1>12, <3>1
  <2> QED
    BY <1>1, <1>6, <1>11, <2>1 DEF DeliveryInv, RaisedKnown
<1>19. LostKnown'
  <2>1. ASSUME NEW j \in raised, j < t PROVE ~DrainedTogether(j, t)
    <3>1. PICK d \in drains : j <= d /\ d <= Past
      BY DEF DeliveryInv, RaisedKnown
    <3>2. d \in 0 .. Drained
      BY DEF DeliveryInv, DrainsKnown
    <3>3. d < t
      BY <1>2, <1>12, <3>1, <3>2
    <3> QED
      BY <3>1, <3>3 DEF DrainedTogether
  <2>2. ASSUME NEW i \in DOMAIN sent, i <= t
        PROVE  OnBus(sent[i])' <=> \A j \in raised : j < i => ~DrainedTogether(j, i)
    <3>1. CASE i = t
      BY <1>11, <2>1, <3>1
    <3>2. CASE i # t
      <4>1. i <= Past
        BY <1>2, <1>12, <2>2, <3>2
      <4> QED
        BY <1>11, <3>2, <4>1 DEF DeliveryInv, LostKnown
    <3> QED
      BY <3>1, <3>2
  <2>3. \A i \in DOMAIN sent, j \in raised : DrainedTogether(j, i)' <=> DrainedTogether(j, i)
    BY <1>1 DEF DrainedTogether
  <2> QED
    BY <1>1, <1>6, <2>2, <2>3 DEF LostKnown
<1> QED
  BY <1>13, <1>14, <1>15, <1>16, <1>17, <1>18, <1>19 DEF DeliveryInv

\* Subscribers that are told of an event are told of the last that is on the bus.
LEMMA ToldOfLast ==
    ASSUME LoopTypeOK, DeliveryInv, Telling
    PROVE  BeingTold = {Past}
<1>1. Past \in DOMAIN sent /\ OnBus(sent[Past])
  BY DEF DeliveryInv, TellsLast
<1>2. \A i \in DOMAIN sent : OnBus(sent[i]) => i <= Past
  BY DEF DeliveryInv, BusInOrder, OnBus
<1>3. DOMAIN sent = 1 .. Len(sent) /\ Len(sent) \in Nat /\ Past \in Nat
  BY ListLengths DEF DeliveryInv
<1>4. \A j \in (Past + 1) .. Len(sent) : ~OnBus(sent[j])
  BY <1>2, <1>3
<1>5. \A i \in DOMAIN sent : OnBus(sent[i]) /\ i # Past => Past \in (i + 1) .. Len(sent)
  BY <1>1, <1>2, <1>3
<1> QED
  BY <1>1, <1>4, <1>5 DEF BeingTold

\* One of them raises.
LEMMA RaisedKeeps == LoopTypeOK /\ DeliveryInv /\ SubscriberRaised => DeliveryInv'
<1> SUFFICES ASSUME LoopTypeOK, DeliveryInv, SubscriberRaised PROVE DeliveryInv'
  OBVIOUS
<1>1. /\ Telling /\ pc' = "idle" /\ draining' = <<>> /\ raised' = raised \cup {Past}
      /\ UNCHANGED <<queue, bus, sent, drains>>
  BY ToldOfLast DEF SubscriberRaised
<1>2. /\ Len(queue) \in Nat /\ Len(draining) \in Nat /\ Len(sent) \in Nat
      /\ Drained + Len(queue) = Len(sent) /\ Past <= Drained
      /\ Drained \in Nat /\ Past \in Nat /\ DOMAIN sent = 1 .. Len(sent)
  BY ListLengths DEF DeliveryInv
<1>3. Drained' = Drained /\ Past' = Drained
  BY <1>1, <1>2 DEF Drained, Past
<1>4. /\ Past \in DOMAIN sent /\ OnBus(sent[Past]) /\ Drained \in drains
      /\ \A d \in drains : d \in 0 .. Drained /\ (d < Past \/ d = Drained)
  BY <1>1 DEF DeliveryInv, TellsLast, DrainsKnown
<1>5. \A i \in DOMAIN sent : OnBus(sent[i])' <=> OnBus(sent[i])
  BY <1>1 DEF OnBus
<1>6. \A i \in DOMAIN sent : OnBus(sent[i]) => i <= Past
  BY DEF DeliveryInv, BusInOrder, OnBus
<1>7. Placed' /\ Distinct' /\ DrainsKnown' /\ TellsLast'
  BY <1>1, <1>2, <1>3
     DEF DeliveryInv, Placed, Distinct, DrainsKnown, TellsLast, Telling, Resting
<1>8. BusInOrder'
  <2>1. \A i \in DOMAIN sent : i <= Past => i <= Drained
    BY <1>2
  <2> QED
    BY <1>1, <1>3, <2>1 DEF DeliveryInv, BusInOrder
<1>9. RaisedKnown'
  <2>1. \A d \in drains : d <= Drained
    BY <1>4
  <2> QED
    BY <1>1, <1>2, <1>3, <1>4, <1>5, <2>1 DEF DeliveryInv, RaisedKnown
<1>10. LostKnown'
  <2>1. ASSUME NEW i \in DOMAIN sent, i <= Drained
        PROVE  OnBus(sent[i]) <=> \A j \in raised' : j < i => ~DrainedTogether(j, i)
    <3>1. CASE i <= Past
      BY <1>1, <1>2, <3>1 DEF DeliveryInv, LostKnown
    <3>2. CASE ~(i <= Past)
      <4>1. \A d \in drains : ~(Past <= d /\ d < i)
        BY <1>2, <1>4, <2>1
      <4>2. Past < i /\ Past \in raised' /\ ~OnBus(sent[i])
        BY <1>1, <1>2, <1>6, <3>2
      <4> QED
        BY <4>1, <4>2 DEF DrainedTogether
    <3> QED
      BY <3>1, <3>2
  <2>2. \A i \in DOMAIN sent, j \in raised' : DrainedTogether(j, i)' <=> DrainedTogether(j, i)
    BY <1>1 DEF DrainedTogether
  <2> QED
    BY <1>1, <1>3, <1>5, <2>1, <2>2 DEF LostKnown
<1> QED
  BY <1>7, <1>8, <1>9, <1>10 DEF DeliveryInv

\* Other steps leave every event where it is.
LEMMA ElsewhereKeeps == LoopTypeOK /\ DeliveryInv /\ (Elsewhere \/ GraphBegun) => DeliveryInv'
<1> SUFFICES ASSUME LoopTypeOK, DeliveryInv, Elsewhere \/ GraphBegun PROVE DeliveryInv'
  OBVIOUS
<1>1. UNCHANGED <<queue, draining, bus, sent, drains, raised>>
  BY DEF Elsewhere, GraphBegun
<1>2. Drained' = Drained /\ Past' = Past
  BY <1>1 DEF Drained, Past
<1>3. Resting'
  BY <1>1 DEF DeliveryInv, Placed, Resting, Telling, Elsewhere, GraphBegun
<1>4. Placed' /\ Distinct' /\ BusInOrder' /\ RaisedKnown' /\ LostKnown'
  BY <1>1, <1>2, <1>3
     DEF DeliveryInv, Placed, Distinct, BusInOrder, RaisedKnown, LostKnown, OnBus,
         DrainedTogether
<1>5. DrainsKnown'
  <2>1. \A d \in drains : d < Past => d <= Past
    <3>1. Past \in Nat /\ Drained \in Nat
      BY ListLengths DEF DeliveryInv
    <3> QED
      BY <3>1 DEF DeliveryInv, DrainsKnown
  <2> QED
    BY <1>1, <1>2, <2>1 DEF DeliveryInv, DrainsKnown, Telling, Elsewhere, GraphBegun
<1>6. TellsLast'
  BY <1>1, <1>2 DEF DeliveryInv, TellsLast, OnBus, Telling, Elsewhere, GraphBegun
<1> QED
  BY <1>4, <1>5, <1>6 DEF DeliveryInv

\* What is on the road is on the bus, or comes after what is, in the order of
\* sending.
LEMMA RoadPlaces ==
    ASSUME LoopTypeOK, DeliveryInv, NEW p \in DOMAIN Road, NEW i \in DOMAIN sent,
           Road[p] = sent[i]
    PROVE  \/ p \in DOMAIN bus /\ bus[p] = sent[i] /\ i <= Past
           \/ p = Len(bus) + (i - Past) /\ i > Past
<1>1. /\ Len(queue) \in Nat /\ Len(draining) \in Nat /\ Len(sent) \in Nat /\ Len(bus) \in Nat
      /\ Drained + Len(queue) = Len(sent) /\ Past + Len(draining) = Drained
      /\ Drained \in Nat /\ Past \in Nat /\ DOMAIN sent = 1 .. Len(sent)
      /\ DOMAIN draining = 1 .. Len(draining) /\ DOMAIN queue = 1 .. Len(queue)
      /\ DOMAIN bus = 1 .. Len(bus)
  BY ListLengths DEF DeliveryInv
<1>2. queue \in Seq(Event) /\ draining \in Seq(Event) /\ bus \in Seq(Event)
  BY DEF LoopTypeOK
<1>3. /\ DOMAIN Road = 1 .. (Len(bus) + Len(draining) + Len(queue))
      /\ \A x \in 1 .. Len(bus) : Road[x] = bus[x]
      /\ \A x \in 1 .. Len(draining) : Road[Len(bus) + x] = draining[x]
      /\ \A x \in 1 .. Len(queue) : Road[Len(bus) + Len(draining) + x] = queue[x]
  BY <1>1, <1>2 DEF Road
<1>4. \A j \in DOMAIN sent : sent[j] = sent[i] => j = i
  BY DEF DeliveryInv, Distinct
<1>5. CASE p \in 1 .. Len(bus)
  BY <1>1, <1>3, <1>5 DEF DeliveryInv, BusInOrder
<1>6. CASE p \in (Len(bus) + 1) .. (Len(bus) + Len(draining))
  <2> DEFINE x == p - Len(bus)
  <2>1. x \in 1 .. Len(draining) /\ p = Len(bus) + x
    BY <1>1, <1>6
  <2> HIDE DEF x
  <2>2. draining[x] = sent[Past + x]
    BY <1>1, <2>1 DEF DeliveryInv, Placed
  <2>6. Past + x \in DOMAIN sent
    <3>1. x \in Nat /\ x >= 1 /\ Past + x <= Drained /\ Drained <= Len(sent)
      BY <1>1, <2>1
    <3> QED
      BY <1>1, <3>1
  <2>3. i = Past + x
    BY <1>3, <1>4, <2>1, <2>2, <2>6
  <2> QED
    BY <1>1, <2>1, <2>3
<1>7. CASE p \in (Len(bus) + Len(draining) + 1) .. (Len(bus) + Len(draining) + Len(queue))
  <2> DEFINE x == p - (Len(bus) + Len(draining))
  <2>1. x \in 1 .. Len(queue) /\ p = Len(bus) + Len(draining) + x
    BY <1>1, <1>7
  <2> HIDE DEF x
  <2>2. Drained + x \in DOMAIN sent /\ queue[x] = sent[Drained + x]
    BY <1>1, <2>1 DEF DeliveryInv, Placed
  <2>3. i = Drained + x
    BY <1>3, <1>4, <2>1, <2>2
  <2>4. Len(draining) = Drained - Past /\ x >= 1 /\ x \in Nat
    BY <1>1, <2>1
  <2>5. i > Past /\ p = Len(bus) + (i - Past)
    BY <1>1, <2>1, <2>3, <2>4
  <2> QED
    BY <2>5
<1> QED
  BY <1>1, <1>3, <1>5, <1>6, <1>7

\* A sent event that is not past is on the road, and a past one if on the bus.
LEMMA RoadHolds ==
    ASSUME LoopTypeOK, DeliveryInv, NEW i \in DOMAIN sent
    PROVE  OnRoad(sent[i]) <=> OnBus(sent[i]) \/ i > Past
<1>1. /\ Len(queue) \in Nat /\ Len(draining) \in Nat /\ Len(sent) \in Nat /\ Len(bus) \in Nat
      /\ Drained + Len(queue) = Len(sent) /\ Past + Len(draining) = Drained
      /\ Drained \in Nat /\ Past \in Nat /\ DOMAIN sent = 1 .. Len(sent)
      /\ DOMAIN draining = 1 .. Len(draining) /\ DOMAIN queue = 1 .. Len(queue)
      /\ DOMAIN bus = 1 .. Len(bus)
  BY ListLengths DEF DeliveryInv
<1>2. queue \in Seq(Event) /\ draining \in Seq(Event) /\ bus \in Seq(Event)
  BY DEF LoopTypeOK
<1>3. /\ DOMAIN Road = 1 .. (Len(bus) + Len(draining) + Len(queue))
      /\ \A x \in 1 .. Len(bus) : Road[x] = bus[x]
      /\ \A x \in 1 .. Len(draining) : Road[Len(bus) + x] = draining[x]
      /\ \A x \in 1 .. Len(queue) : Road[Len(bus) + Len(draining) + x] = queue[x]
  BY <1>1, <1>2 DEF Road
<1>4. OnRoad(sent[i]) => OnBus(sent[i]) \/ i > Past
  BY RoadPlaces DEF OnRoad, OnBus
<1>5. OnBus(sent[i]) => OnRoad(sent[i])
  <2>1. \A p \in DOMAIN bus : p \in DOMAIN Road /\ Road[p] = bus[p]
    BY <1>1, <1>3
  <2> QED
    BY <2>1 DEF OnRoad, OnBus
<1>6. CASE i > Past /\ i <= Drained
  <2>1. i - Past \in 1 .. Len(draining) /\ Past + (i - Past) = i
    BY <1>1, <1>6
  <2>2. draining[i - Past] = sent[i]
    BY <1>1, <2>1 DEF DeliveryInv, Placed
  <2>3. Len(bus) + (i - Past) \in DOMAIN Road
    BY <1>1, <1>3, <2>1
  <2> QED
    BY <1>3, <1>6, <2>1, <2>2, <2>3 DEF OnRoad
<1>7. CASE i > Drained
  <2> DEFINE x == i - Drained
  <2>1. x \in 1 .. Len(queue) /\ Drained + x = i /\ i > Past
    BY <1>1, <1>7
  <2> HIDE DEF x
  <2>2. queue[x] = sent[i]
    BY <1>1, <2>1 DEF DeliveryInv, Placed
  <2>3. Len(bus) + Len(draining) + x \in DOMAIN Road
    BY <1>1, <1>3, <2>1
  <2> QED
    BY <1>3, <2>1, <2>2, <2>3 DEF OnRoad
<1> QED
  BY <1>1, <1>4, <1>5, <1>6, <1>7

\* It holds in every behaviour.
LEMMA DeliveryInvHolds == DeliverySpec => []DeliveryInv
<1>1. DeliveryInit => DeliveryInv
  <2> SUFFICES ASSUME DeliveryInit PROVE DeliveryInv
    OBVIOUS
  <2>1. /\ queue = <<>> /\ draining = <<>> /\ bus = <<>> /\ sent = <<>> /\ drains = {}
        /\ raised = {} /\ pc = "build"
    BY DEF DeliveryInit, LoopInit
  <2>2. Len(<<>>) = 0 /\ DOMAIN <<>> = {} /\ <<>> \in Seq(Event)
    OBVIOUS
  <2>3. Len(queue) = 0 /\ Len(draining) = 0 /\ Len(sent) = 0
    BY <2>1
  <2>4. Drained = 0 /\ Past = 0
    BY <2>3 DEF Drained, Past
  <2> QED
    BY <2>1, <2>2, <2>3, <2>4
       DEF DeliveryInv, Placed, Resting, Telling, Distinct, BusInOrder, DrainsKnown,
           TellsLast, RaisedKnown, LostKnown
<1>2. LoopInv /\ DeliveryInv /\ [DeliveryNext]_deliveryVars => DeliveryInv'
  <2> SUFFICES ASSUME LoopInv, DeliveryInv, [DeliveryNext]_deliveryVars PROVE DeliveryInv'
    OBVIOUS
  <2>1. LoopTypeOK /\ Resting
    BY DEF LoopInv, DeliveryInv, Placed
  <2> QED
    BY <2>1, DeliveryKinds, SentKeeps, PublishedKeeps, DrainedKeeps, ToldKeeps, RaisedKeeps,
       ElsewhereKeeps
<1> QED
  BY <1>1, <1>2, LoopInvBeside, PTL DEF DeliverySpec

\* The layers, the tick and the bus hold the events in the order in which they
\* were sent, and lost are those that an exception kept from the bus, for every
\* interleaving of user code with any number of ticks.
THEOREM EventsInOrder == DeliverySpec => []EventsArriveInOrder
<1>1. LoopInv /\ DeliveryInv => EventsArriveInOrder
  <2> SUFFICES ASSUME LoopInv, DeliveryInv PROVE EventsArriveInOrder
    OBVIOUS
  <2>0. LoopTypeOK
    BY DEF LoopInv
  <2>1. /\ DOMAIN sent = 1 .. Len(sent) /\ Len(sent) \in Nat /\ Past \in Nat
        /\ Len(bus) \in Nat /\ DOMAIN bus = 1 .. Len(bus) /\ Past <= Drained /\ Drained \in Nat
    BY <2>0, ListLengths DEF DeliveryInv
  <2>2. ASSUME NEW i \in DOMAIN sent, NEW j \in DOMAIN sent,
               NEW p \in DOMAIN Road, NEW q \in DOMAIN Road,
               Road[p] = sent[i], Road[q] = sent[j]
        PROVE  i < j <=> p < q
    <3>1. \/ p \in DOMAIN bus /\ bus[p] = sent[i] /\ i <= Past
          \/ p = Len(bus) + (i - Past) /\ i > Past
      BY <2>0, <2>2, RoadPlaces
    <3>2. \/ q \in DOMAIN bus /\ bus[q] = sent[j] /\ j <= Past
          \/ q = Len(bus) + (j - Past) /\ j > Past
      BY <2>0, <2>2, RoadPlaces
    <3>3. p \in DOMAIN bus /\ bus[p] = sent[i] /\ q \in DOMAIN bus /\ bus[q] = sent[j]
            => (i < j <=> p < q)
      BY DEF DeliveryInv, BusInOrder
    <3> QED
      BY <2>1, <3>1, <3>2, <3>3
  <2>3. ASSUME NEW i \in DOMAIN sent
        PROVE  ~OnRoad(sent[i]) <=> \E j \in raised : j < i /\ DrainedTogether(j, i)
    <3>1. CASE i <= Past
      <4>1. OnRoad(sent[i]) <=> OnBus(sent[i])
        BY <2>0, <2>1, <3>1, RoadHolds
      <4> QED
        BY <3>1, <4>1 DEF DeliveryInv, LostKnown
    <3>2. CASE i > Past
      <4>1. ASSUME NEW j \in raised PROVE ~DrainedTogether(j, i)
        <5>1. PICK d \in drains : j <= d /\ d <= Past
          BY DEF DeliveryInv, RaisedKnown
        <5>2. d \in 0 .. Drained
          BY DEF DeliveryInv, DrainsKnown
        <5>3. d < i
          BY <2>1, <3>2, <5>1, <5>2
        <5> QED
          BY <5>1, <5>3 DEF DrainedTogether
      <4> QED
        BY <2>0, <3>2, <4>1, RoadHolds
    <3> QED
      BY <2>1, <3>1, <3>2
  <2> QED
    BY <2>2, <2>3 DEF EventsArriveInOrder, DeliveryInv, RaisedKnown
<1> QED
  BY <1>1, DeliveryInvHolds, LoopInvBeside, PTL

\* For each tick of the graph the record has how long the bus history was.
HeardTyped ==
    /\ heard \in Seq(Nat) /\ \A h \in DOMAIN heard : heard[h] <= Len(bus)
    /\ pc = "build" => heard = <<>>
    /\ pc = "graph" => heard # <<>>

\* The event at p is the latest for n among the first m of the bus.
LatestBy(n, m, p) ==
    p \in Matching(n) /\ p <= m /\ \A q \in Matching(n) : q <= m => q <= p

\* Every tick syncs the event nodes that wait.
HeardTriggers ==
    \A n \in nodes \cap EventNode, h \in DOMAIN heard : HeardBy(n, heard[h]) => triggered[n]

\* An event node is synced in a tick, and until the tick of the graph begins it
\* has the data of the latest event.
JustSynced(n) ==
    /\ pc = "publish" /\ draining = <<>>
    /\ \E p \in DOMAIN bus : LatestBy(n, Len(bus), p) /\ eventValue[n] = bus[p].data

HeardCauses ==
    \A n \in EventNode \ HandTriggered :
        triggered[n] => JustSynced(n) \/ \E h \in DOMAIN heard : HeardBy(n, heard[h])

\* It keeps what it had when the first tick that heard an event for it began.
FirstHeard ==
    \A n \in (nodes \cap EventNode) \ HandTriggered, h \in DOMAIN heard :
        HeardBy(n, heard[h]) /\ (\A g \in 1 .. (h - 1) : ~HeardBy(n, heard[g])) =>
            \E p \in DOMAIN bus : LatestBy(n, heard[h], p) /\ eventValue[n] = bus[p].data

\* What event nodes have heard.
HeardInv == HeardTyped /\ HeardTriggers /\ HeardCauses /\ FirstHeard

\* Nothing, or one event, is put at its end.
BusAppended == bus' = bus \/ \E ev \in Event : bus' = Append(bus, ev)

\* The bus history only grows, so that what a tick has heard remains so.
LEMMA BusGrows ==
    ASSUME LoopTypeOK, BusAppended
    PROVE  /\ Len(bus) \in Nat /\ Len(bus') \in Nat /\ Len(bus) <= Len(bus')
           /\ \A p \in DOMAIN bus : p \in DOMAIN bus' /\ bus'[p] = bus[p]
           /\ \A n : /\ Matching(n) \subseteq 1 .. Len(bus)
                     /\ Matching(n)' \subseteq 1 .. Len(bus')
                     /\ Matching(n) \subseteq Matching(n)'
                     /\ \A p \in Matching(n)' : p <= Len(bus) => p \in Matching(n)
<1>1. bus \in Seq(Event) /\ Len(bus) \in Nat /\ DOMAIN bus = 1 .. Len(bus)
  BY DEF LoopTypeOK
<1>2. /\ Len(bus') \in Nat /\ Len(bus) <= Len(bus') /\ DOMAIN bus' = 1 .. Len(bus')
      /\ \A p \in DOMAIN bus : p \in DOMAIN bus' /\ bus'[p] = bus[p]
  <2>1. CASE bus' = bus
    BY <1>1, <2>1
  <2>2. ASSUME NEW ev \in Event, bus' = Append(bus, ev)
        PROVE  /\ Len(bus') \in Nat /\ Len(bus) <= Len(bus') /\ DOMAIN bus' = 1 .. Len(bus')
               /\ \A p \in DOMAIN bus : p \in DOMAIN bus' /\ bus'[p] = bus[p]
    <3>1. /\ Len(bus') = Len(bus) + 1 /\ DOMAIN bus' = 1 .. (Len(bus) + 1)
          /\ \A x \in 1 .. Len(bus) : bus'[x] = bus[x]
      BY <1>1, <2>2, AppendMembers
    <3> QED
      BY <1>1, <3>1
  <2> QED
    BY <2>1, <2>2 DEF BusAppended
<1>3. /\ \A n : Matching(n)' = {p \in DOMAIN bus' : bus'[p].type = TypeOf[n]}
      /\ \A n : Matching(n) = {p \in DOMAIN bus : bus[p].type = TypeOf[n]}
  BY DEF Matching
<1>4. \A p \in DOMAIN bus' : p <= Len(bus) => p \in DOMAIN bus
  BY <1>1, <1>2
<1>5. \A n : /\ Matching(n) \subseteq 1 .. Len(bus)
             /\ Matching(n)' \subseteq 1 .. Len(bus')
             /\ Matching(n) \subseteq Matching(n)'
             /\ \A p \in Matching(n)' : p <= Len(bus) => p \in Matching(n)
  <2> SUFFICES ASSUME NEW n
               PROVE  /\ Matching(n) \subseteq 1 .. Len(bus)
                      /\ Matching(n)' \subseteq 1 .. Len(bus')
                      /\ Matching(n) \subseteq Matching(n)'
                      /\ \A p \in Matching(n)' : p <= Len(bus) => p \in Matching(n)
    OBVIOUS
  <2> QED
    BY <1>1, <1>2, <1>3, <1>4
<1> QED
  BY <1>1, <1>2, <1>5

\* Nobody takes a trigger back; event nodes are registered by the client, and
\* triggered by user code or by the sync.
LEMMA TriggerKinds ==
    ASSUME LoopInv, [LoopNext]_allVars
    PROVE  /\ pc # "build" => nodes' \cap EventNode = nodes \cap EventNode
           /\ \/ UNCHANGED <<triggered, eventValue>>
              \/ /\ bus' = bus
                 /\ \E n \in HandTriggered, v \in Value \cup {None} :
                       /\ triggered' = [triggered EXCEPT ![n] = TRUE]
                       /\ eventValue' = [eventValue EXCEPT ![n] = v]
                 /\ pc # "publish"
              \/ \E n \in EventNode : SyncEventNode(n)
           /\ BeginGraphTick => UNCHANGED <<triggered, eventValue>>
<1> USE DEF vars, graphVars, eventVars
<1>0. BeginGraphTick => UNCHANGED <<triggered, eventValue>>
  BY DEF BeginGraphTick, BeginTick
<1>1. CASE GraphStep
  <2>1. CASE NextWave \/ GraphDone
    BY <2>1, <1>0 DEF NextWave, GraphDone, EndTick
  <2>2. ASSUME NEW n \in Node, NEW outcome \in {"done", "false", "error"},
               NEW v \in Result, NEW st \in {"PENDING", "DONE", "FAILED"},
               NEW r \in Result, Executes(n, outcome, v, st, r)
        PROVE  nodes' = nodes /\ UNCHANGED <<triggered, eventValue>>
    BY <2>2 DEF Executes, Attempt
  <2> QED
    BY <1>0, <1>1, <2>1, <2>2, GraphStepRuns DEF LoopInv, IInv
<1>2. CASE Building
  BY <1>0, <1>2 DEF Building, BuildNode, BuildEdge, BuildDone, AddNode, AddEdge
<1>3. CASE UserStep
  <2>1. ASSUME NEW n \in HandTriggered, NEW v \in TriggerPayload, UserTrigger(n, v)
        PROVE  /\ nodes' = nodes /\ bus' = bus /\ v \in Value \cup {None}
               /\ triggered' = [triggered EXCEPT ![n] = TRUE]
               /\ eventValue' = [eventValue EXCEPT ![n] = v]
               /\ pc # "publish"
    BY <2>1, LoopConstants DEF UserTrigger, Trigger, InUserCode, loopVars, eventLists
  <2>2. CASE \E n \in HandTriggered, v \in TriggerPayload : UserTrigger(n, v)
    BY <1>0, <2>1, <2>2
  <2>3. CASE ~(\E n \in HandTriggered, v \in TriggerPayload : UserTrigger(n, v))
    BY <1>0, <1>3, <2>3 DEF UserStep, InjectEvent, Publish, SetStore, InjectRule, Stop
  <2> QED
    BY <2>2, <2>3
<1>4. CASE Start \/ TickOnce \/ UNCHANGED allVars
  BY <1>0, <1>4 DEF Start, TickOnce, allVars
<1>5. CASE CompileNode
  <2>1. PICK i \in DOMAIN RuleNodes[Head(pending)] : AddNode(RuleNodes[Head(pending)][i])
    BY <1>5 DEF CompileNode
  <2>2. RuleNodes[Head(pending)][i] \notin EventNode
    <3>1. Head(pending) \in Rule
      BY <1>5 DEF CompileNode
    <3> QED
      BY <3>1, ChainFacts
  <2> QED
    BY <1>0, <2>1, <2>2 DEF AddNode
<1>6. CASE CompileEdge
  BY <1>0, <1>6 DEF CompileEdge, AddEdge
<1>7. CASE LoopStep /\ ~GraphStep /\ ~CompileNode /\ ~CompileEdge
  <2>1. CASE BeginGraphTick
    BY <1>0, <2>1 DEF BeginGraphTick, BeginTick
  <2>2. CASE LoopAgain \/ DrainLayers \/ PublishNext \/ SubscribersReturn
             \/ WriteNext \/ WriteDone \/ CompileDone \/ InjectDone
    BY <1>0, <2>2 DEF LoopAgain, DrainLayers, PublishNext, SubscribersReturn,
                WriteNext, WriteDone, CompileDone, InjectDone
  <2>3. CASE LoopExit \/ SubscriberRaises \/ RuleRefused \/ CallbackRaises
             \/ OnceReturns \/ NextTick \/ Break
    BY <1>0, <2>3 DEF LoopExit, SubscriberRaises, RuleRefused, CallbackRaises,
                OnceReturns, NextTick, Break, Leave, Abort
  <2>4. CASE \E n \in EventNode : SyncEventNode(n)
    BY <1>0, <2>4 DEF SyncEventNode, Trigger
  <2> QED
    BY <1>7, <2>1, <2>2, <2>3, <2>4 DEF LoopStep
<1> QED
  BY <1>1, <1>2, <1>3, <1>4, <1>5, <1>6, <1>7 DEF LoopNext

\* A tick of the graph begins by a step of the loop's own.
LEMMA BegunIsBegin ==
    ASSUME [LoopNext]_allVars, GraphBegun
    PROVE  BeginGraphTick
<1>1. pc = "publish" /\ pc' = "graph"
  BY DEF GraphBegun
<1> QED
  BY <1>1, GraphStepFacts
     DEF LoopNext, Building, BuildNode, BuildEdge, BuildDone, UserStep, InjectEvent,
         Publish, UserTrigger, SetStore, InjectRule, Stop, Start, TickOnce, LoopStep,
         LoopAgain, LoopExit, DrainLayers, PublishNext, SubscribersReturn,
         SubscriberRaises, SyncEventNode, WriteNext, WriteDone, CompileNode, CompileEdge,
         CompileDone, RuleRefused, InjectDone, Injecting, CallbackRaises, OnceReturns,
         NextTick, Break, Leave, Abort, loopVars, allVars

\* What a step of the kinds above does to the record of the ticks.
LEMMA HeardKinds ==
    ASSUME LoopTypeOK, HeardTyped,
           \/ EventSent \/ EventPublished \/ LayersDrained \/ SubscribersTold
           \/ SubscriberRaised \/ GraphBegun \/ Elsewhere
    PROVE  /\ BusAppended
           /\ HeardTyped'
           /\ \/ heard' = heard
              \/ GraphBegun /\ heard' = Append(heard, Len(bus)) /\ bus' = bus
           /\ \A h \in DOMAIN heard : h \in DOMAIN heard' /\ heard'[h] = heard[h]
           /\ \A h \in DOMAIN heard' :
                 h \notin DOMAIN heard => GraphBegun /\ heard'[h] = Len(bus)
           /\ pc = "publish" /\ draining = <<>> =>
                 bus' = bus /\ (GraphBegun \/ (pc' = pc /\ draining' = draining))
<1>1. BusAppended
  <2>1. SubscribersTold => Head(draining) \in Event
    BY DEF LoopTypeOK, SubscribersTold
  <2> QED
    BY <2>1 DEF EventSent, EventPublished, LayersDrained, SubscribersTold, SubscriberRaised,
                GraphBegun, Elsewhere, BusAppended
<1>2. \/ heard' = heard
      \/ GraphBegun /\ heard' = Append(heard, Len(bus)) /\ bus' = bus
  BY DEF EventSent, EventPublished, LayersDrained, SubscribersTold, SubscriberRaised,
         GraphBegun, Elsewhere
<1>3. /\ Len(bus) \in Nat /\ Len(bus') \in Nat /\ Len(bus) <= Len(bus')
  BY <1>1, BusGrows
<1>4. /\ heard \in Seq(Nat) /\ DOMAIN heard = 1 .. Len(heard) /\ Len(heard) \in Nat
      /\ \A h \in DOMAIN heard : heard[h] \in Nat /\ heard[h] <= Len(bus)
  BY DEF HeardTyped
<1>5. /\ heard' \in Seq(Nat)
      /\ \A h \in DOMAIN heard : h \in DOMAIN heard' /\ heard'[h] = heard[h]
      /\ \A h \in DOMAIN heard' : h \notin DOMAIN heard => GraphBegun /\ heard'[h] = Len(bus)
      /\ GraphBegun => heard' # <<>>
  <2>1. CASE heard' = heard /\ ~GraphBegun
    BY <1>4, <2>1
  <2>2. CASE GraphBegun
    <3>1. heard' = Append(heard, Len(bus))
      BY <2>2 DEF GraphBegun
    <3>2. /\ heard' \in Seq(Nat) /\ DOMAIN heard' = 1 .. (Len(heard) + 1)
          /\ \A h \in 1 .. Len(heard) : heard'[h] = heard[h]
          /\ heard'[Len(heard) + 1] = Len(bus)
      BY <1>3, <1>4, <3>1, AppendMembers
    <3>3. heard' # <<>>
      BY <1>4, <3>2
    <3> QED
      BY <1>4, <2>2, <3>2, <3>3
  <2> QED
    BY <1>2, <2>1, <2>2
<1>6. HeardTyped'
  <2>1. \A h \in DOMAIN heard' : heard'[h] <= Len(bus')
    BY <1>3, <1>4, <1>5
  <2>2. pc' = "build" => pc = "build"
    BY DEF EventSent, EventPublished, LayersDrained, SubscribersTold, SubscriberRaised,
           GraphBegun, Elsewhere, Telling
  <2>3. pc' = "graph" => pc = "graph" \/ GraphBegun
    BY DEF EventSent, EventPublished, LayersDrained, SubscribersTold, SubscriberRaised,
           Elsewhere, Telling
  <2>4. pc = "build" => ~GraphBegun
    BY DEF GraphBegun
  <2> QED
    BY <1>2, <1>5, <2>1, <2>2, <2>3, <2>4 DEF HeardTyped
<1>7. pc = "publish" /\ draining = <<>> =>
        bus' = bus /\ (GraphBegun \/ (pc' = pc /\ draining' = draining))
  <2>1. GraphBegun => bus' = bus
    BY DEF GraphBegun
  <2> QED
    BY <2>1 DEF EventSent, EventPublished, LayersDrained, SubscribersTold,
                SubscriberRaised, Elsewhere, Telling
<1> QED
  BY <1>1, <1>2, <1>5, <1>6, <1>7

\* What event nodes have heard keeps explaining them.
LEMMA HeardStep ==
    LoopInv /\ DeliveryInv /\ HeardInv /\ [DeliveryNext]_deliveryVars => HeardInv'
<1> SUFFICES ASSUME LoopInv, DeliveryInv, HeardInv, [DeliveryNext]_deliveryVars
             PROVE  HeardInv'
  OBVIOUS
<1>0. LoopTypeOK /\ HeardTyped /\ TypeOK
  BY DEF LoopInv, HeardInv, IInv
<1>1. [LoopNext]_allVars
  BY DEF DeliveryNext, deliveryVars
<1>2. \/ EventSent \/ EventPublished \/ LayersDrained \/ SubscribersTold
      \/ SubscriberRaised \/ GraphBegun \/ Elsewhere
  BY DeliveryKinds DEF DeliveryInv, Placed
<1>3. /\ BusAppended
      /\ HeardTyped'
      /\ \A h \in DOMAIN heard : h \in DOMAIN heard' /\ heard'[h] = heard[h]
      /\ \A h \in DOMAIN heard' : h \notin DOMAIN heard => GraphBegun /\ heard'[h] = Len(bus)
      /\ pc = "publish" /\ draining = <<>> =>
            bus' = bus /\ (GraphBegun \/ (pc' = pc /\ draining' = draining))
  BY <1>0, <1>2, HeardKinds
<1>4. /\ Len(bus) \in Nat
      /\ \A p \in DOMAIN bus : p \in DOMAIN bus' /\ bus'[p] = bus[p]
      /\ \A n : /\ Matching(n) \subseteq 1 .. Len(bus)
                /\ Matching(n) \subseteq Matching(n)'
                /\ \A p \in Matching(n)' : p <= Len(bus) => p \in Matching(n)
  BY <1>0, <1>3, BusGrows
<1>5. /\ pc # "build" => nodes' \cap EventNode = nodes \cap EventNode
      /\ \/ UNCHANGED <<triggered, eventValue>>
         \/ /\ bus' = bus /\ pc # "publish"
            /\ \E n \in HandTriggered, v \in Value \cup {None} :
                  /\ triggered' = [triggered EXCEPT ![n] = TRUE]
                  /\ eventValue' = [eventValue EXCEPT ![n] = v]
         \/ \E n \in EventNode : SyncEventNode(n)
      /\ GraphBegun => UNCHANGED <<triggered, eventValue>>
  BY <1>1, TriggerKinds, BegunIsBegin
<1>6. \A h \in DOMAIN heard : heard[h] \in Nat /\ heard[h] <= Len(bus)
  BY <1>0 DEF HeardTyped
<1>7. \A n, m : m \in Nat /\ m <= Len(bus) =>
         /\ (\E p \in Matching(n)' : p <= m) <=> HeardBy(n, m)
         /\ \A p : (p \in Matching(n)' /\ p <= m /\ \A q \in Matching(n)' : q <= m => q <= p)
                     <=> LatestBy(n, m, p)
  <2>1. \A n, m, p : m \in Nat /\ m <= Len(bus) /\ p \in Matching(n)' /\ p <= m
                        => p \in Matching(n)
    <3>1. \A n : Matching(n)' \subseteq Nat
      <4>1. Len(bus') \in Nat /\ \A n : Matching(n)' \subseteq 1 .. Len(bus')
        BY <1>0, <1>3, BusGrows
      <4> QED
        BY <4>1
    <3> QED
      BY <1>4, <3>1
  <2> QED
    BY <1>4, <2>1 DEF HeardBy, LatestBy
<1>8. \A n \in EventNode : triggered[n] => triggered'[n]
  BY <1>0, <1>5, LoopConstants DEF TypeOK, SyncEventNode, Trigger
<1>9. pc = "build" => heard' = <<>>
  <2>1. pc = "build" => heard' = heard
    BY <1>2 DEF EventSent, EventPublished, LayersDrained, SubscribersTold,
                SubscriberRaised, GraphBegun, Elsewhere
  <2> QED
    BY <1>0, <2>1 DEF HeardTyped
<1>10. \A n \in nodes' \cap EventNode, h \in DOMAIN heard' : n \in nodes
  <2>1. DOMAIN <<>> = {}
    OBVIOUS
  <2> QED
    BY <1>5, <1>9, <2>1
<1>11. ASSUME NEW n \in EventNode \ HandTriggered, triggered[n], GraphBegun
       PROVE  /\ eventValue'[n] = eventValue[n] /\ triggered'[n]
              /\ \/ \E h \in DOMAIN heard : HeardBy(n, heard[h])
                 \/ \E p \in DOMAIN bus : LatestBy(n, Len(bus), p) /\ eventValue[n] = bus[p].data
  BY <1>5, <1>11 DEF HeardInv, HeardCauses, JustSynced
<1>12. HeardTriggers'
  <2> SUFFICES ASSUME NEW n \in nodes' \cap EventNode, NEW h \in DOMAIN heard',
                      NEW p \in Matching(n)', p <= heard'[h]
               PROVE  triggered'[n]
    BY DEF HeardTriggers, HeardBy
  <2>1. CASE h \in DOMAIN heard
    <3>1. HeardBy(n, heard[h])
      BY <1>3, <1>6, <1>7, <2>1
    <3> QED
      BY <1>8, <1>10, <2>1, <3>1 DEF HeardInv, HeardTriggers
  <2>2. CASE h \notin DOMAIN heard
    <3>1. GraphBegun /\ HeardBy(n, Len(bus))
      BY <1>3, <1>4, <1>7, <2>2
    <3>2. Matching(n) # {} /\ Awaited = {} /\ n \in nodes \cap EventNode
      BY <1>10, <3>1 DEF HeardBy, GraphBegun
    <3> QED
      BY <1>8, <3>2 DEF Awaited
  <2> QED
    BY <2>1, <2>2
<1>13. HeardCauses'
  <2> SUFFICES ASSUME NEW n \in EventNode \ HandTriggered, triggered'[n]
               PROVE  JustSynced(n)' \/ \E h \in DOMAIN heard' : HeardBy(n, heard[h])'
    BY DEF HeardCauses
  <2>1. CASE \E h \in DOMAIN heard : HeardBy(n, heard[h])
    <3>1. PICK h \in DOMAIN heard : HeardBy(n, heard[h])
      BY <2>1
    <3>2. h \in DOMAIN heard' /\ \E p \in Matching(n)' : p <= heard'[h]
      BY <1>3, <1>6, <1>7, <3>1
    <3> QED
      BY <3>2 DEF HeardBy
  <2>2. CASE triggered[n] /\ JustSynced(n)
    <3>1. CASE GraphBegun
      <4>1. PICK p \in DOMAIN bus : LatestBy(n, Len(bus), p)
        BY <2>2 DEF JustSynced
      <4>2. HeardBy(n, Len(bus))
        BY <4>1 DEF LatestBy, HeardBy
      <4>3. heard' = Append(heard, Len(bus))
        BY <3>1 DEF GraphBegun
      <4>4. Len(heard) + 1 \in DOMAIN heard' /\ heard'[Len(heard) + 1] = Len(bus)
        BY <1>0, <1>4, <4>3, AppendMembers DEF HeardTyped
      <4>5. \E q \in Matching(n)' : q <= heard'[Len(heard) + 1]
        BY <1>4, <1>7, <4>2, <4>4
      <4> QED
        BY <4>4, <4>5 DEF HeardBy
    <3>2. CASE ~GraphBegun
      <4>1. bus' = bus /\ pc' = pc /\ draining' = draining
        BY <1>3, <2>2, <3>2 DEF JustSynced
      <4>2. eventValue'[n] = eventValue[n]
        <5>1. ASSUME NEW m \in EventNode, SyncEventNode(m) PROVE m # n
          BY <2>2, <5>1 DEF SyncEventNode, Awaited
        <5>2. ASSUME NEW m \in EventNode, SyncEventNode(m)
              PROVE  eventValue'[n] = eventValue[n]
          BY <1>0, <5>1, <5>2 DEF SyncEventNode, Trigger, TypeOK
        <5> QED
          BY <1>5, <2>2, <5>2 DEF JustSynced
      <4>3. JustSynced(n)'
        BY <2>2, <4>1, <4>2 DEF JustSynced, LatestBy, Matching
      <4> QED
        BY <4>3
    <3> QED
      BY <3>1, <3>2
  <2>3. CASE ~triggered[n]
    <3>1. n \notin HandTriggered /\ SyncEventNode(n)
      <4>1. ASSUME NEW m \in EventNode, m # n, triggered' = [triggered EXCEPT ![m] = TRUE]
            PROVE  FALSE
        BY <1>0, <2>3, <4>1 DEF TypeOK
      <4> QED
        BY <1>5, <2>3, <4>1, LoopConstants DEF SyncEventNode, Trigger
    <3>2. /\ pc = "publish" /\ draining = <<>> /\ bus' = bus /\ pc' = pc /\ draining' = draining
          /\ \E last \in Matching(n) : /\ \A i \in Matching(n) : i <= last
                                       /\ eventValue'[n] = bus[last].data
      BY <1>0, <3>1 DEF SyncEventNode, Trigger, TypeOK, loopVars, eventLists
    <3>3. PICK last \in Matching(n) : /\ \A i \in Matching(n) : i <= last
                                      /\ eventValue'[n] = bus[last].data
      BY <3>2
    <3>4. Matching(n)' = Matching(n) /\ last \in DOMAIN bus /\ last <= Len(bus)
      BY <1>4, <3>2 DEF Matching
    <3>5. LatestBy(n, Len(bus), last)'
      BY <3>2, <3>3, <3>4 DEF LatestBy
    <3> QED
      BY <3>2, <3>3, <3>4, <3>5 DEF JustSynced
  <2> QED
    BY <2>1, <2>2, <2>3 DEF HeardInv, HeardCauses
<1>14. FirstHeard'
  <2> SUFFICES ASSUME NEW n \in (nodes' \cap EventNode) \ HandTriggered,
                      NEW h \in DOMAIN heard', HeardBy(n, heard[h])',
                      \A g \in 1 .. (h - 1) : ~HeardBy(n, heard[g])'
               PROVE  \E p \in DOMAIN bus' :
                         LatestBy(n, heard[h], p)' /\ eventValue'[n] = bus'[p].data
    BY DEF FirstHeard
  <2>0. n \in nodes /\ n \in EventNode /\ n \notin HandTriggered
    BY <1>10
  <2>1. DOMAIN heard = 1 .. Len(heard) /\ DOMAIN heard' = 1 .. Len(heard')
        /\ Len(heard) \in Nat /\ Len(heard') \in Nat
    BY <1>0, <1>3 DEF HeardTyped
  <2>2. CASE h \in DOMAIN heard
    <3>1. HeardBy(n, heard[h])
      BY <1>3, <1>6, <1>7, <2>2 DEF HeardBy
    <3>2. \A g \in 1 .. (h - 1) : ~HeardBy(n, heard[g])
      <4> SUFFICES ASSUME NEW g \in 1 .. (h - 1), HeardBy(n, heard[g]) PROVE FALSE
        OBVIOUS
      <4>1. g \in DOMAIN heard
        BY <2>1, <2>2
      <4>2. \E p \in Matching(n)' : p <= heard'[g]
        BY <1>3, <1>6, <1>7, <4>1
      <4> QED
        BY <4>2 DEF HeardBy
    <3>3. PICK p \in DOMAIN bus : LatestBy(n, heard[h], p) /\ eventValue[n] = bus[p].data
      BY <2>0, <2>2, <3>1, <3>2 DEF HeardInv, FirstHeard
    <3>4. LatestBy(n, heard[h], p)'
      BY <1>3, <1>6, <1>7, <2>2, <3>3 DEF LatestBy
    <3>5. eventValue'[n] = eventValue[n]
      <4>1. triggered[n]
        BY <2>0, <2>2, <3>1 DEF HeardInv, HeardTriggers
      <4>2. ASSUME NEW m \in EventNode, SyncEventNode(m)
            PROVE  eventValue'[n] = eventValue[n]
        BY <1>0, <2>0, <4>1, <4>2 DEF SyncEventNode, Trigger, TypeOK, Awaited
      <4> QED
        BY <1>0, <1>5, <2>0, <4>2, LoopConstants DEF TypeOK
    <3> QED
      BY <1>4, <3>3, <3>4, <3>5
  <2>3. CASE h \notin DOMAIN heard
    <3>1. GraphBegun /\ heard'[h] = Len(bus) /\ bus' = bus
      BY <1>3, <2>3 DEF GraphBegun
    <3>2. \A g \in DOMAIN heard : ~HeardBy(n, heard[g])
      <4> SUFFICES ASSUME NEW g \in DOMAIN heard, HeardBy(n, heard[g]) PROVE FALSE
        OBVIOUS
      <4>1. g \in 1 .. (h - 1)
        BY <2>1, <2>3
      <4>2. \E p \in Matching(n)' : p <= heard'[g]
        BY <1>3, <1>6, <1>7
      <4> QED
        BY <4>1, <4>2 DEF HeardBy
    <3>3. triggered[n]
      <4>1. HeardTriggers'
        BY <1>12
      <4>2. triggered'[n]
        BY <4>1 DEF HeardTriggers
      <4> QED
        BY <1>5, <3>1, <4>2
    <3>4. PICK p \in DOMAIN bus : LatestBy(n, Len(bus), p) /\ eventValue[n] = bus[p].data
      BY <1>11, <2>0, <3>1, <3>2, <3>3
    <3>5. LatestBy(n, heard[h], p)'
      BY <1>4, <1>7, <3>1, <3>4 DEF LatestBy
    <3> QED
      BY <1>4, <1>5, <3>1, <3>4, <3>5
  <2> QED
    BY <2>2, <2>3
<1> QED
  BY <1>3, <1>12, <1>13, <1>14 DEF HeardInv

\* All that is known of events and ticks.
LEMMA HeardInvHolds == DeliverySpec => [](LoopInv /\ DeliveryInv /\ HeardInv)
<1>1. DeliveryInit => HeardInv
  <2> SUFFICES ASSUME DeliveryInit PROVE HeardInv
    OBVIOUS
  <2>1. heard = <<>> /\ pc = "build" /\ DOMAIN heard = {} /\ heard \in Seq(Nat)
        /\ triggered = [n \in EventNode |-> FALSE]
    BY DEF DeliveryInit, LoopInit, Init
  <2> QED
    BY <2>1 DEF HeardInv, HeardTyped, HeardTriggers, HeardCauses, FirstHeard
<1> QED
  BY <1>1, DeliveryInvHolds, HeardStep, LoopInvBeside, PTL DEF DeliverySpec

\* An event node shows the latest event of the first tick that heard one.
THEOREM FirstTickIsKept == DeliverySpec => []FirstTickDecides
<1>1. LoopInv /\ DeliveryInv /\ HeardInv => FirstTickDecides
  <2> SUFFICES ASSUME LoopInv, HeardInv, pc # "publish",
                      NEW n \in (nodes \cap EventNode) \ HandTriggered
               PROVE  /\ triggered[n] => \E h \in DOMAIN heard : HeardBy(n, heard[h])
                      /\ \A h \in DOMAIN heard :
                           HeardBy(n, heard[h])
                             /\ (\A g \in 1 .. (h - 1) : ~HeardBy(n, heard[g]))
                             => /\ triggered[n]
                                /\ eventValue[n] = bus[LatestHeard(n, heard[h])].data
    BY DEF FirstTickDecides
  <2>1. triggered[n] => \E h \in DOMAIN heard : HeardBy(n, heard[h])
    BY DEF HeardInv, HeardCauses, JustSynced
  <2>2. ASSUME NEW h \in DOMAIN heard, HeardBy(n, heard[h]),
               \A g \in 1 .. (h - 1) : ~HeardBy(n, heard[g])
        PROVE  triggered[n] /\ eventValue[n] = bus[LatestHeard(n, heard[h])].data
    <3>1. triggered[n]
      BY <2>2 DEF HeardInv, HeardTriggers
    <3>2. PICK p \in DOMAIN bus : LatestBy(n, heard[h], p) /\ eventValue[n] = bus[p].data
      BY <2>2 DEF HeardInv, FirstHeard
    <3>3. \A q, r \in Matching(n) : q <= r /\ r <= q => q = r
      <4>1. Matching(n) \subseteq Nat
        BY DEF Matching, LoopInv, LoopTypeOK
      <4> QED
        BY <4>1
    <3>4. LatestHeard(n, heard[h]) = p
      <4>1. \A q : LatestBy(n, heard[h], q) => q = p
        BY <3>2, <3>3 DEF LatestBy
      <4> QED
        BY <3>2, <4>1 DEF LatestHeard, LatestBy
    <3> QED
      BY <3>1, <3>2, <3>4
  <2> QED
    BY <2>1, <2>2
<1> QED
  BY <1>1, HeardInvHolds, PTL

\* An event node that is attempted completes: events are neither false nor fail.
EventsComplete ==
    \A n \in EventNode : /\ state[n] # "FAILED"
                         /\ n \in attempted => n \in Completed(history)

\* In every step of the scheduler.
LEMMA EventsCompleteStep == IInv /\ EventsComplete /\ [Next]_vars => EventsComplete'
<1> SUFFICES ASSUME IInv, EventsComplete, [Next]_vars PROVE EventsComplete'
  OBVIOUS
<1>1. TypeOK /\ Quiet
  BY DEF IInv
<1> USE DEF graphVars, eventVars, tickVars
<1>2. CASE Fire
  <2>1. PICK n \in Node, outcome \in {"done", "false", "error"}, v \in Result,
             st \in {"PENDING", "DONE", "FAILED"}, r \in Result :
             Executes(n, outcome, v, st, r)
    BY <1>1, <1>2, FireExecutes
  <2>2. /\ state' = [state EXCEPT ![n] = st] /\ attempted' = attempted \cup {n}
        /\ history' = Append(history, Entry(n, outcome, v))
        /\ n \in EventNode => outcome = "done" /\ st = "DONE"
    BY <2>1, NodeKinds DEF Executes, Attempt
  <2>3. /\ Completed(history) \subseteq Completed(history')
        /\ outcome = "done" => n \in Completed(history')
    BY <1>1, <2>2, HistoryGrows
  <2> QED
    BY <1>1, <2>2, <2>3 DEF EventsComplete, TypeOK, Node
<1>3. CASE Reset
  BY <1>1, <1>3 DEF Reset, Quiet, EventsComplete, Node
<1>4. CASE \E n \in EventNode, v \in Value \cup {None} : Trigger(n, v)
  <2>1. PICK n \in EventNode, v \in Value \cup {None} : Trigger(n, v)
    BY <1>4
  <2> QED
    BY <1>1, <2>1 DEF Trigger, EventsComplete, TypeOK, Node
<1>5. CASE (\E n \in Node : AddNode(n)) \/ (\E e \in Edge : AddEdge(e[1], e[2]))
  BY <1>5 DEF AddNode, AddEdge, EventsComplete
<1>6. CASE BeginTick \/ NextWave \/ EndTick \/ UNCHANGED vars
  BY <1>6 DEF BeginTick, NextWave, EndTick, vars, EventsComplete
<1> QED
  BY <1>2, <1>3, <1>4, <1>5, <1>6 DEF Next, Edit, TickStep

\* Each tick fires what has heard an event and may run, in whatever tick its
\* causes completed.
THEOREM HeardFire == DeliverySpec => HeardEventsFire
<1>1. LoopSpec => []EventsComplete
  <2>1. Init => EventsComplete
    BY DEF Init, EventsComplete, Node
  <2> QED
    BY <2>1, EventsCompleteStep, InvariantHolds, LoopUsesGraph, PTL DEF Spec
<1>2. LoopInv /\ HeardInv /\ EventsComplete /\ [DeliveryNext]_deliveryVars =>
        [ pc = "graph" /\ pc' = "write" =>
            \A n \in nodes \cap EventNode :
               /\ HeardBy(n, heard[Len(heard)])
               /\ \A p \in Preds(n) : state[p] = "DONE"
               => n \in Completed(history) ]_deliveryVars
  <2> SUFFICES ASSUME LoopInv, HeardInv, EventsComplete, DeliveryNext,
                      pc = "graph", pc' = "write", NEW n \in nodes \cap EventNode,
                      HeardBy(n, heard[Len(heard)]), \A p \in Preds(n) : state[p] = "DONE"
               PROVE  n \in Completed(history)
    OBVIOUS
  <2>1. EndTick
    <3>1. [LoopNext]_allVars
      BY DEF DeliveryNext
    <3>2. GraphStep
      BY <3>1, StepsFrom
    <3> QED
      BY <3>2, GraphStepFacts
  <2>2. Len(heard) \in DOMAIN heard
    BY DEF HeardInv, HeardTyped
  <2>3. triggered[n]
    BY <2>2 DEF HeardInv, HeardTriggers
  <2>4. state[n] \in {"PENDING", "READY", "DONE"}
    BY DEF LoopInv, IInv, TypeOK, EventsComplete, Node
  <2>5. CASE state[n] = "DONE"
    BY <2>5 DEF LoopInv, IInv, DoneRecorded
  <2>6. CASE state[n] \in {"PENDING", "READY"}
    <3>1. n \in Ready
      BY <2>3, <2>6 DEF Ready
    <3> QED
      BY <2>1, <3>1 DEF EndTick, EventsComplete
  <2> QED
    BY <2>4, <2>5, <2>6
<1> QED
  BY <1>1, <1>2, DeliveryIsLoop, HeardInvHolds, PTL DEF DeliverySpec, HeardEventsFire

-----------------------------------------------------------------------------
(* A tick as a relation.                                                   *)

\* What decides a run, for the ticks to be the same each time: the graph it
\* begins with, the actions with a callable, and the events on the bus.
Given(n0, e0) == [nodes |-> n0, edges |-> e0, bound |-> Bound, bus |-> bus]

\* The graph when the rules R have been compiled into it.
GraphNodes(in, R) == in.nodes \cup UNION {NodesOfRule(r) : r \in R}
GraphEdges(in, R) == in.edges \cup UNION {Links(r) : r \in R}

\* The event nodes that an event on b is for, and the data of the latest.
Called(b) == {n \in EventNode : \E i \in DOMAIN b : b[i].type = TypeOf[n]}

IsLatest(b, n, i) ==
    /\ i \in DOMAIN b /\ b[i].type = TypeOf[n]
    /\ \A j \in DOMAIN b : b[j].type = TypeOf[n] => j <= i

LatestData(b, n) == b[CHOOSE i \in DOMAIN b : IsLatest(b, n, i)].data

\* s is a moment between two ticks: the rules compiled so far, the nodes that
\* are DONE and FAILED, the store, and what the history tells of the nodes.

\* Does n's execution succeed, what does it yield then, what is told of it?
Succeeds(in, s, n) ==
    /\ n \in ConditionNode => Holds(n, s.store)
    /\ n \in ActionNode => n \notin Failing \cap in.bound

Gives(in, n) ==
    IF n \in EventNode THEN LatestData(in.bus, n)
    ELSE IF n \in ConditionNode THEN "true"
    ELSE IF n \in in.bound THEN Does[n] ELSE None

Tells(in, s, n) ==
    IF Succeeds(in, s, n) THEN Entry(n, "done", Gives(in, n))
    ELSE IF n \in ConditionNode THEN Entry(n, "false", "false")
    ELSE Entry(n, "error", None)

\* n can be executed in the tick when the nodes of S have been.
MayRun(in, s, n, S) ==
    /\ n \notin s.done \cup s.failed
    /\ n \in EventNode => n \in Called(in.bus)
    /\ \A p \in GraphNodes(in, s.rules) :
          <<p, n>> \in GraphEdges(in, s.rules) =>
             p \in s.done \/ (p \in S /\ Succeeds(in, s, p))

Closed(in, s, S) ==
    \A n \in GraphNodes(in, s.rules) : MayRun(in, s, n, S) => n \in S

\* The nodes that are executed in the tick, in whatever order.
Runs(in, s) ==
    {n \in GraphNodes(in, s.rules) :
        \A S \in SUBSET GraphNodes(in, s.rules) : Closed(in, s, S) => n \in S}

\* The tick reports that nothing was executed.
Still(in, s) == \A n \in Runs(in, s) : n \in ActionNode /\ ~Succeeds(in, s, n)

\* a is a cause of b, near or far, in a graph.
LeadsIn(N, E, a, b) ==
    \A S \in SUBSET N : a \in S /\ (\A e \in E : e[1] \in S => e[2] \in S) => b \in S

\* The nodes of the tick that write key k.
Writers(in, s, k) ==
    {n \in Runs(in, s) :
        /\ Succeeds(in, s, n)
        /\ Gives(in, n) \in DOMAIN Writes \ DOMAIN Emits
        /\ k \in DOMAIN Writes[Gives(in, n)]}

\* What the store may hold after the tick: of the nodes that write a key, one
\* that leads to no other has the last word.
Stores(in, s, data) ==
    /\ data \in [Key -> Val \cup {Missing}]
    /\ \A k \in Key :
          IF Writers(in, s, k) = {} THEN data[k] = s.store[k]
          ELSE \E n \in Writers(in, s, k) :
                  /\ data[k] = Writes[Gives(in, n)][k]
                  /\ \A m \in Writers(in, s, k) :
                        LeadsIn(GraphNodes(in, s.rules), GraphEdges(in, s.rules), n, m) => m = n

\* The rules that the tick emits.
NewRules(in, s) ==
    {r \in Rule : \E n \in Runs(in, s) :
        /\ Succeeds(in, s, n) /\ Gives(in, n) \in DOMAIN Emits
        /\ \E i \in DOMAIN Emits[Gives(in, n)] : Emits[Gives(in, n)][i] = r}

\* The moment after the tick, and before the first one.
After(in, s, data) ==
    [rules  |-> s.rules \cup NewRules(in, s),
     done   |-> s.done \cup {n \in Runs(in, s) : Succeeds(in, s, n)},
     failed |-> s.failed \cup {n \in Runs(in, s) \cap ActionNode : ~Succeeds(in, s, n)},
     store  |-> data,
     count  |-> [n \in Node |-> s.count[n] + IF n \in Runs(in, s) THEN 1 ELSE 0],
     told   |-> s.told \cup {<<Tells(in, s, n), s.count[n] + 1>> : n \in Runs(in, s)}]

Beginning(data) ==
    [rules |-> {}, done |-> {}, failed |-> {}, store |-> data,
     count |-> [n \in Node |-> 0], told |-> {}]

Ticks(in, s, u) == \E data : Stores(in, s, data) /\ u = After(in, s, data)

-----------------------------------------------------------------------------
(* What a tick depends on.                                                 *)

\* Both runs have the same graph and, for the nodes of N, the same functions
\* and the same events.
Agree(in, jn, N) ==
    /\ in.nodes = jn.nodes /\ in.edges = jn.edges
    /\ \A n \in N : n \in in.bound <=> n \in jn.bound
    /\ \A n \in N \cap EventNode :
          /\ n \in Called(in.bus) <=> n \in Called(jn.bus)
          /\ LatestData(in.bus, n) = LatestData(jn.bus, n)

\* What runs, what it yields and what is told of it is the same for inputs that agree.
LEMMA AgreedRuns ==
    ASSUME NEW in, NEW jn, NEW s, Agree(in, jn, GraphNodes(in, s.rules))
    PROVE  /\ GraphNodes(in, s.rules) = GraphNodes(jn, s.rules)
           /\ GraphEdges(in, s.rules) = GraphEdges(jn, s.rules)
           /\ \A n \in GraphNodes(in, s.rules) :
                 /\ Succeeds(in, s, n) <=> Succeeds(jn, s, n)
                 /\ Gives(in, n) = Gives(jn, n)
                 /\ Tells(in, s, n) = Tells(jn, s, n)
           /\ Runs(in, s) = Runs(jn, s)
<1>1. /\ GraphNodes(in, s.rules) = GraphNodes(jn, s.rules)
      /\ GraphEdges(in, s.rules) = GraphEdges(jn, s.rules)
  BY DEF Agree, GraphNodes, GraphEdges
<1> DEFINE N == GraphNodes(in, s.rules)
<1>2. ASSUME NEW n \in N
      PROVE  Succeeds(in, s, n) <=> Succeeds(jn, s, n)
  BY DEF Agree, Succeeds
<1>3. ASSUME NEW n \in N
      PROVE  Gives(in, n) = Gives(jn, n)
  BY DEF Agree, Gives
<1>4. ASSUME NEW n \in N
      PROVE  Tells(in, s, n) = Tells(jn, s, n)
  BY <1>2, <1>3 DEF Tells
<1>5. ASSUME NEW S \in SUBSET N, NEW n \in N
      PROVE  MayRun(in, s, n, S) <=> MayRun(jn, s, n, S)
  <2>1. n \in EventNode => (n \in Called(in.bus) <=> n \in Called(jn.bus))
    BY DEF Agree
  <2> HIDE DEF N
  <2>2. GraphNodes(in, s.rules) = N /\ GraphNodes(jn, s.rules) = N
    BY <1>1 DEF N
  <2> QED
    BY <1>1, <1>2, <2>1, <2>2 DEF MayRun
<1>6. ASSUME NEW S \in SUBSET N
      PROVE  Closed(in, s, S) <=> Closed(jn, s, S)
  BY <1>1, <1>5 DEF Closed
<1>7. Runs(in, s) = Runs(jn, s)
  BY <1>1, <1>6 DEF Runs
<1> QED
  BY <1>1, <1>2, <1>3, <1>4, <1>7

\* So is what a tick may lead to.
LEMMA AgreedTicks ==
    ASSUME NEW in, NEW jn, NEW s, Agree(in, jn, GraphNodes(in, s.rules))
    PROVE  /\ Still(in, s) <=> Still(jn, s)
           /\ \A k : Writers(in, s, k) = Writers(jn, s, k)
           /\ \A data : Stores(in, s, data) <=> Stores(jn, s, data)
           /\ \A data : After(in, s, data) = After(jn, s, data)
           /\ \A u : Ticks(in, s, u) <=> Ticks(jn, s, u)
<1> DEFINE X == Runs(in, s)
<1>1. /\ GraphNodes(in, s.rules) = GraphNodes(jn, s.rules)
      /\ GraphEdges(in, s.rules) = GraphEdges(jn, s.rules)
      /\ X = Runs(jn, s)
  BY AgreedRuns
<1>0. X \subseteq GraphNodes(in, s.rules)
  BY DEF Runs
<1>2. \A n \in X : /\ Succeeds(in, s, n) <=> Succeeds(jn, s, n)
                   /\ Gives(in, n) = Gives(jn, n)
                   /\ Tells(in, s, n) = Tells(jn, s, n)
  BY <1>0, AgreedRuns
<1> HIDE DEF X
<1>3. Runs(in, s) = X /\ Runs(jn, s) = X
  BY <1>1 DEF X
<1>4. Still(in, s) <=> Still(jn, s)
  BY <1>2, <1>3 DEF Still
<1>5. \A k : Writers(in, s, k) = Writers(jn, s, k)
  BY <1>2, <1>3 DEF Writers
<1>6. \A k, n : n \in Writers(in, s, k) => Gives(in, n) = Gives(jn, n)
  BY <1>2, <1>3 DEF Writers
<1>7. \A data : Stores(in, s, data) <=> Stores(jn, s, data)
  BY <1>1, <1>5, <1>6 DEF Stores
<1>8. NewRules(in, s) = NewRules(jn, s)
  BY <1>2, <1>3 DEF NewRules
<1>9. /\ {n \in X : Succeeds(in, s, n)} = {n \in X : Succeeds(jn, s, n)}
      /\ {n \in X \cap ActionNode : ~Succeeds(in, s, n)}
           = {n \in X \cap ActionNode : ~Succeeds(jn, s, n)}
      /\ {<<Tells(in, s, n), s.count[n] + 1>> : n \in X}
           = {<<Tells(jn, s, n), s.count[n] + 1>> : n \in X}
  BY <1>2
<1>10. \A data : After(in, s, data) = After(jn, s, data)
  BY <1>3, <1>8, <1>9 DEF After
<1> QED
  BY <1>4, <1>5, <1>7, <1>10 DEF Ticks

\* Of the writers of a key any two agree unless one leads to the other.
NoRace(in, s) ==
    \A k \in Key : \A a, b \in Writers(in, s, k) :
        \/ LeadsIn(GraphNodes(in, s.rules), GraphEdges(in, s.rules), a, b)
        \/ LeadsIn(GraphNodes(in, s.rules), GraphEdges(in, s.rules), b, a)
        \/ Writes[Gives(in, a)][k] = Writes[Gives(in, b)][k]

\* Then a tick has one outcome.
LEMMA TickDetermined ==
    ASSUME NEW in, NEW s, NEW u, NEW w, Ticks(in, s, u), Ticks(in, s, w), NoRace(in, s)
    PROVE  u = w
<1>1. PICK d : Stores(in, s, d) /\ u = After(in, s, d)
  BY DEF Ticks
<1>2. PICK f : Stores(in, s, f) /\ w = After(in, s, f)
  BY DEF Ticks
<1>3. ASSUME NEW k \in Key PROVE d[k] = f[k]
  <2>1. CASE Writers(in, s, k) = {}
    BY <1>1, <1>2, <2>1 DEF Stores
  <2>2. CASE Writers(in, s, k) # {}
    <3> DEFINE L(a, b) == LeadsIn(GraphNodes(in, s.rules), GraphEdges(in, s.rules), a, b)
    <3>1. PICK a \in Writers(in, s, k) :
             d[k] = Writes[Gives(in, a)][k] /\ \A m \in Writers(in, s, k) : L(a, m) => m = a
      BY <1>1, <2>2 DEF Stores
    <3>2. PICK b \in Writers(in, s, k) :
             f[k] = Writes[Gives(in, b)][k] /\ \A m \in Writers(in, s, k) : L(b, m) => m = b
      BY <1>2, <2>2 DEF Stores
    <3>3. L(a, b) \/ L(b, a) \/ Writes[Gives(in, a)][k] = Writes[Gives(in, b)][k]
      BY DEF NoRace
    <3> HIDE DEF L
    <3> QED
      BY <3>1, <3>2, <3>3
  <2> QED
    BY <2>1, <2>2
<1>4. d = f
  <2>1. d \in [Key -> Val \cup {Missing}] /\ f \in [Key -> Val \cup {Missing}]
    BY <1>1, <1>2 DEF Stores
  <2> QED
    BY <1>3, <2>1
<1> QED
  BY <1>1, <1>2, <1>4

\* How often the history tells of n.
Count(h, n) == Cardinality({i \in 1 .. Len(h) : h[i].node = n})

\* One more entry in the history: it is told of, numbered after its like.
LEMMA ToldAppended ==
    ASSUME NEW S, NEW h \in Seq(S), NEW e \in S
    PROVE  /\ Told(Append(h, e)) = Told(h) \cup {<<e, Count(h, e.node) + 1>>}
           /\ \A n : /\ Count(h, n) \in Nat
                     /\ Count(Append(h, e), n) = Count(h, n) + IF n = e.node THEN 1 ELSE 0
<1> DEFINE g == Append(h, e)
           l == Len(h)
           Of(q, i, n) == {j \in 1 .. i : q[j].node = n}
<1>1. /\ l \in Nat /\ DOMAIN h = 1 .. l /\ Len(g) = l + 1 /\ DOMAIN g = 1 .. l + 1
      /\ g[l + 1] = e /\ \A i \in 1 .. l : g[i] = h[i]
  BY AppendFacts
<1>2. ASSUME NEW n, NEW i \in 0 .. l
      PROVE  Of(g, i, n) = Of(h, i, n) /\ IsFiniteSet(Of(h, i, n))
  <2>1. \A j \in 1 .. i : g[j] = h[j]
    BY <1>1
  <2>2. IsFiniteSet(1 .. i)
    <3>1. 1 \in Int /\ i \in Int
      BY <1>1
    <3> QED
      BY <3>1, FS_Interval
  <2>3. IsFiniteSet(Of(h, i, n))
    BY <2>2, FS_Subset
  <2> QED
    BY <2>1, <2>3
<1>6. ASSUME NEW n
      PROVE  IsFiniteSet(Of(h, l, n)) /\ Cardinality(Of(h, l, n)) \in Nat
  <2>1. l \in 0 .. l
    BY <1>1
  <2> HIDE DEF Of
  <2> QED
    BY <1>2, <2>1, FS_CardinalityType
<1>3. ASSUME NEW n
      PROVE  Cardinality(Of(g, l + 1, n)) = Cardinality(Of(h, l, n)) + (IF n = e.node THEN 1 ELSE 0)
  <2>1. 1 .. (l + 1) = (1 .. l) \cup {l + 1} /\ l + 1 \notin 1 .. l
    BY <1>1
  <2>2. CASE n = e.node
    <3>1. Of(g, l + 1, n) = Of(h, l, n) \cup {l + 1} /\ l + 1 \notin Of(h, l, n)
      BY <1>1, <2>1, <2>2
    <3> HIDE DEF Of
    <3> QED
      BY <1>6, <2>2, <3>1, FS_AddElement
  <2>3. CASE n # e.node
    <3>1. Of(g, l + 1, n) = Of(h, l, n)
      BY <1>1, <2>1, <2>3
    <3> HIDE DEF Of
    <3> QED
      BY <1>6, <2>3, <3>1
  <2> QED
    BY <2>2, <2>3
<1>4. ASSUME NEW n
      PROVE  Count(h, n) \in Nat /\ Count(g, n) = Count(h, n) + IF n = e.node THEN 1 ELSE 0
  <2>1. Count(h, n) = Cardinality(Of(h, l, n)) /\ Count(g, n) = Cardinality(Of(g, l + 1, n))
    BY <1>1 DEF Count
  <2>2. Count(h, n) \in Nat
    BY <1>6, <2>1
  <2> HIDE DEF Of
  <2> QED
    BY <1>3, <2>1, <2>2
<1>5. Told(g) = Told(h) \cup {<<e, Count(h, e.node) + 1>>}
  <2> DEFINE T(q, i) == <<q[i], Cardinality(Of(q, i, q[i].node))>>
  <2>1. Told(g) = {T(g, i) : i \in 1 .. l + 1} /\ Told(h) = {T(h, i) : i \in 1 .. l}
    BY <1>1 DEF Told
  <2>2. T(g, l + 1) = <<e, Count(h, e.node) + 1>>
    <3>1. Cardinality(Of(g, l + 1, e.node)) = Count(g, e.node)
      BY <1>1 DEF Count
    <3> HIDE DEF Of
    <3> QED
      BY <1>1, <1>4, <3>1
  <2>3. \A i \in 1 .. l : T(g, i) = T(h, i)
    <3> SUFFICES ASSUME NEW i \in 1 .. l PROVE T(g, i) = T(h, i)
      OBVIOUS
    <3>1. g[i] = h[i] /\ i \in 0 .. l
      BY <1>1
    <3>2. Of(g, i, h[i].node) = Of(h, i, h[i].node)
      BY <1>2, <3>1
    <3> HIDE DEF Of
    <3> QED
      BY <3>1, <3>2
  <2>4. 1 .. l + 1 = (1 .. l) \cup {l + 1}
    BY <1>1
  <2> HIDE DEF T
  <2>5. {T(g, i) : i \in 1 .. l + 1} = {T(g, i) : i \in 1 .. l} \cup {T(g, l + 1)}
    BY <2>4
  <2>6. {T(g, i) : i \in 1 .. l} = {T(h, i) : i \in 1 .. l}
    BY <2>3
  <2> QED
    BY <2>1, <2>2, <2>5, <2>6
<1> QED
  BY <1>4, <1>5

\* Nothing is told by an empty history.
LEMMA NothingTold == Told(<<>>) = {} /\ \A n : Count(<<>>, n) = 0
<1>1. \A n : {i \in 1 .. Len(<<>>) : (<<>>)[i].node = n} = {}
  OBVIOUS
<1>2. \A n : Count(<<>>, n) = 0
  <2> SUFFICES ASSUME NEW n PROVE Count(<<>>, n) = 0
    OBVIOUS
  <2>1. {i \in 1 .. Len(<<>>) : (<<>>)[i].node = n} = {}
    BY <1>1
  <2> QED
    BY <2>1, FS_EmptySet DEF Count
<1>3. Told(<<>>) = {}
  BY DEF Told
<1> QED
  BY <1>2, <1>3

-----------------------------------------------------------------------------
(* One tick of the graph.                                                  *)

\* No event came after the run began, or there is nobody to hear it.
Settled == nodes \cap EventNode # {} => ~late

\* The nodes are as in moment s, and the history and the store, too.
Same(s) ==
    /\ s.count \in [Node -> Nat] /\ store = s.store
    /\ \A n \in Node : /\ state[n] = "DONE" <=> n \in s.done
                       /\ state[n] = "FAILED" <=> n \in s.failed
                       /\ Count(history, n) = s.count[n]
    /\ Told(history) = s.told

\* How the execution of n in the tick after moment s leaves it.
LeftIn(in, s, n) ==
    IF Succeeds(in, s, n) THEN "DONE"
    ELSE IF n \in ConditionNode THEN "PENDING" ELSE "FAILED"

\* Of the tick after moment s, the nodes of A have been executed.
Within(in, s, A) ==
    /\ s.count \in [Node -> Nat] /\ A \subseteq Runs(in, s)
    /\ \A n \in Node \ A : /\ state[n] = "DONE" <=> n \in s.done
                           /\ state[n] = "FAILED" <=> n \in s.failed
    /\ \A n \in A : /\ state[n] = LeftIn(in, s, n)
                    /\ Succeeds(in, s, n) => result[n] = Gives(in, n)
                    /\ n \in ConditionNode /\ ~Succeeds(in, s, n) => result[n] = "false"
    /\ Told(history) = s.told \cup {<<Tells(in, s, n), s.count[n] + 1>> : n \in A}
    /\ \A n \in Node : Count(history, n) = s.count[n] + IF n \in A THEN 1 ELSE 0

\* Those that did not raise are reported.
Reported(in, s, A) ==
    \A n : (\E i \in DOMAIN executed : executed[i] = n)
             <=> n \in A /\ (n \in ActionNode => Succeeds(in, s, n))

\* Each is reported once, and what leads to a node was executed before it.
Ordered(s) ==
    /\ \A i, j \in DOMAIN executed : executed[i] = executed[j] => i = j
    /\ \A i \in DOMAIN executed : \A m \in nodes :
          LeadsIn(nodes, edges, m, executed[i]) /\ m # executed[i] =>
             m \in s.done \/ \E j \in 1 .. (i - 1) : executed[j] = m

GraphIs(in, s) == nodes = GraphNodes(in, s.rules) /\ edges = GraphEdges(in, s.rules)

\* The graph's tick after moment s is under way.
InGraph(in, s) ==
    /\ GraphIs(in, s) /\ store = s.store /\ snap = s.store
    /\ Within(in, s, attempted) /\ Reported(in, s, attempted) /\ Ordered(s)
    /\ \A n \in nodes \cap EventNode : n \in Called(bus) => triggered[n]
    /\ \A n \in wave : n \in Ready /\ n \notin attempted

\* The causes of what has run are DONE.
PredsDone ==
    \A n \in nodes :
        state[n] \in {"DONE", "FAILED"} \/ n \in attempted =>
           \A p \in Preds(n) : state[p] = "DONE"

\* An event node runs when it was triggered, with the latest event on the bus.
EventInv ==
    \A n \in EventNode :
        /\ triggered[n] => /\ n \in nodes /\ n \in Called(bus)
                           /\ eventValue[n] = LatestData(bus, n)
        /\ state[n] \in {"DONE", "FAILED"} => triggered[n]

\* The execution of n, whatever its kind.
OneRun(in, s, n) ==
    /\ n \in wave
    /\ wave' = wave \ {n} /\ attempted' = attempted \cup {n}
    /\ history' = Append(history, Tells(in, s, n))
    /\ state' = [state EXCEPT ![n] = LeftIn(in, s, n)]
    /\ result' = [result EXCEPT ![n] =
                    IF Succeeds(in, s, n) THEN Gives(in, n)
                    ELSE IF n \in ConditionNode THEN "false" ELSE result[n]]
    /\ executed' = IF n \in ActionNode /\ ~Succeeds(in, s, n) THEN executed
                   ELSE Append(executed, n)
    /\ UNCHANGED <<nodes, edges, triggered, eventValue, phase, pc, caller, ticks, running,
                   queue, draining, bus, store, snap, written, pending>>

\* What runs in a tick has not run before, and an event node has been called.
LEMMA RunFresh ==
    ASSUME NEW in, NEW s, NEW n \in Runs(in, s)
    PROVE  /\ n \in GraphNodes(in, s.rules)
           /\ n \notin s.done \cup s.failed
           /\ n \in EventNode => n \in Called(in.bus)
<1> DEFINE N == GraphNodes(in, s.rules)
           S == {m \in N : /\ m \notin s.done \cup s.failed
                           /\ m \in EventNode => m \in Called(in.bus)}
<1>1. S \in SUBSET N
  OBVIOUS
<1>2. Closed(in, s, S)
  BY DEF Closed, MayRun
<1>3. n \in S
  <2> HIDE DEF S
  <2> QED
    BY <1>1, <1>2 DEF Runs
<1> QED
  BY <1>3

\* A node whose turn it is belongs to those that the tick executes.
LEMMA TurnRuns ==
    ASSUME NEW in, NEW s, in.bus = bus, TypeOK, EventInv, InGraph(in, s),
           NEW n \in wave
    PROVE  n \in Runs(in, s)
<1>1. n \in Ready /\ n \notin attempted /\ n \in nodes
  BY DEF InGraph, Ready
<1>2. nodes = GraphNodes(in, s.rules) /\ edges = GraphEdges(in, s.rules)
  BY DEF InGraph, GraphIs
<1>3. n \notin s.done \cup s.failed
  <2>1. n \in Node
    BY <1>1 DEF TypeOK
  <2> QED
    BY <1>1, <2>1 DEF InGraph, Within, Ready
<1>4. n \in EventNode => n \in Called(in.bus)
  BY <1>1 DEF EventInv, Ready
<1>5. ASSUME NEW S \in SUBSET GraphNodes(in, s.rules), Closed(in, s, S)
      PROVE  n \in S
  <2>1. ASSUME NEW p \in Preds(n) PROVE p \in s.done \/ (p \in S /\ Succeeds(in, s, p))
    <3>1. state[p] = "DONE" /\ p \in Node
      BY <1>1 DEF Ready, Preds, TypeOK
    <3>2. CASE p \in attempted
      <4>1. p \in Runs(in, s) /\ state[p] = LeftIn(in, s, p)
        BY <3>2 DEF InGraph, Within
      <4>2. p \in S
        BY <1>5, <4>1 DEF Runs
      <4> QED
        BY <3>1, <4>1, <4>2 DEF LeftIn
    <3>3. CASE p \notin attempted
      BY <3>1, <3>3 DEF InGraph, Within
    <3> QED
      BY <3>2, <3>3
  <2>2. MayRun(in, s, n, S)
    BY <1>2, <1>3, <1>4, <2>1 DEF MayRun, Preds
  <2> QED
    BY <1>1, <1>2, <1>5, <2>2 DEF Closed
<1> QED
  BY <1>1, <1>2, <1>5 DEF Runs

\* When no node is ready that was not attempted, all of them have been.
LEMMA AllRan ==
    ASSUME NEW in, NEW s, in.bus = bus, TypeOK, InGraph(in, s), Ready \ attempted = {}
    PROVE  attempted = Runs(in, s)
<1>1. nodes = GraphNodes(in, s.rules) /\ edges = GraphEdges(in, s.rules)
  BY DEF InGraph, GraphIs
<1>2. attempted \subseteq Runs(in, s)
  BY DEF InGraph, Within
<1>3. ASSUME NEW n \in nodes, MayRun(in, s, n, attempted), n \notin attempted
      PROVE  FALSE
  <2>1. n \in Node /\ state[n] \in {"PENDING", "READY"}
    BY <1>3 DEF TypeOK, InGraph, Within, MayRun
  <2>2. ASSUME NEW p \in Preds(n) PROVE state[p] = "DONE"
    <3>1. p \in nodes /\ p \in Node
      BY DEF Preds, TypeOK
    <3>2. p \in s.done \/ (p \in attempted /\ Succeeds(in, s, p))
      BY <1>1, <1>3, <3>1 DEF MayRun, Preds
    <3>3. CASE p \in attempted
      <4>1. p \in Runs(in, s) /\ state[p] = LeftIn(in, s, p)
        BY <3>3 DEF InGraph, Within
      <4>2. p \notin s.done
        BY <4>1, RunFresh
      <4> QED
        BY <3>2, <4>1, <4>2 DEF LeftIn
    <3>4. CASE p \notin attempted
      BY <3>1, <3>2, <3>4 DEF InGraph, Within
    <3> QED
      BY <3>3, <3>4
  <2>3. n \in EventNode => triggered[n]
    BY <1>3 DEF MayRun, InGraph
  <2>4. n \in Ready
    BY <2>1, <2>2, <2>3 DEF Ready
  <2> QED
    BY <1>3, <2>4
<1>4. Closed(in, s, attempted)
  BY <1>1, <1>3 DEF Closed
<1>5. attempted \in SUBSET GraphNodes(in, s.rules)
  BY <1>1 DEF TypeOK
<1> QED
  BY <1>2, <1>4, <1>5 DEF Runs

\* What leads to a node that is ready is DONE.
LEMMA LeadersDone ==
    ASSUME TypeOK, PredsDone, NEW n \in Ready, NEW m \in nodes,
           LeadsIn(nodes, edges, m, n), m # n
    PROVE  state[m] = "DONE"
<1> DEFINE S == {x \in nodes : state[x] # "DONE" /\ x # n}
<1>1. ASSUME NEW e \in edges, e[1] \in S PROVE e[2] \in S
  <2>1. e = <<e[1], e[2]>> /\ e[2] \in nodes /\ e[1] \in Preds(e[2])
    BY DEF TypeOK, Preds
  <2>2. e[2] # n
    BY <1>1, <2>1 DEF Ready
  <2>3. state[e[2]] # "DONE"
    BY <1>1, <2>1 DEF PredsDone
  <2> QED
    BY <2>1, <2>2, <2>3
<1>2. S \in SUBSET nodes
  OBVIOUS
<1>3. n \notin S
  OBVIOUS
<1>4. m \notin S
  <2> HIDE DEF S
  <2> QED
    BY <1>1, <1>2, <1>3 DEF LeadsIn
<1> QED
  BY <1>4

\* In either run an execution is what the moment before the tick says.
LEMMA RunsAsTold ==
    ASSUME NEW in, NEW s, in = Given(in.nodes, in.edges), LoopInv, EventInv,
           InGraph(in, s), GraphStep, CallablesArePure
    PROVE  \/ NextWave /\ UNCHANGED loopVars
           \/ GraphDone
           \/ \E n \in Node : OneRun(in, s, n)
<1> USE DEF loopVars, callVars, eventLists, locals
<1>1. in.bound = Bound /\ in.bus = bus
  BY DEF Given
<1>2. TypeOK /\ history \in Seq(EntrySet)
  BY DEF LoopInv, IInv, TypeOK, EntrySet
<1>3. ASSUME NEW e \in EntrySet, history' = Append(history, e)
      PROVE  /\ e.node \in ActionNode =>
                  IF e.node \in Failing \cap Bound THEN e.outcome = "error"
                  ELSE e.outcome = "done" /\ e.result = Returns(e.node)
  <2>1. Len(history') > Len(history) /\ history'[Len(history')] = e
    BY <1>2, <1>3, AppendFacts
  <2> QED
    BY <2>1 DEF CallablesArePure
<1>4. ASSUME NEW n \in EventNode, RunEvent(n)
      PROVE  OneRun(in, s, n)
  <2>1. n \in wave /\ n \notin ConditionNode /\ n \notin ActionNode
    BY <1>4, NodeKinds DEF RunEvent, FireEvent, Return, Attempt
  <2>2. eventValue[n] = LatestData(bus, n)
    BY <2>1 DEF InGraph, Ready, EventInv
  <2>3. Succeeds(in, s, n) /\ Gives(in, n) = eventValue[n]
        /\ Tells(in, s, n) = Entry(n, "done", eventValue[n])
    BY <1>1, <2>1, <2>2 DEF Succeeds, Gives, Tells
  <2> QED
    BY <1>4, <2>1, <2>3 DEF RunEvent, FireEvent, Return, Attempt, Executed, OneRun, LeftIn,
                            graphVars, eventVars
<1>5. ASSUME NEW n \in ConditionNode, RunCondition(n)
      PROVE  OneRun(in, s, n)
  <2>1. n \notin EventNode /\ n \notin ActionNode /\ snap = s.store
    BY NodeKinds DEF InGraph
  <2>2. Succeeds(in, s, n) <=> Holds(n, snap)
    BY <2>1 DEF Succeeds
  <2>3. Gives(in, n) = "true"
    BY <2>1 DEF Gives
  <2>4. CASE Holds(n, snap)
    BY <1>5, <2>1, <2>2, <2>3, <2>4
       DEF RunCondition, FireCondition, Return, Attempt, Executed, OneRun, LeftIn, Tells,
           graphVars, eventVars
  <2>5. CASE ~Holds(n, snap)
    BY <1>5, <2>1, <2>2, <2>3, <2>5
       DEF RunCondition, FireCondition, Return, Attempt, Executed, OneRun, LeftIn, Tells,
           graphVars, eventVars
  <2> QED
    BY <2>4, <2>5
<1>6. ASSUME NEW n \in ActionNode, NEW v \in Outcome[n], FireAction(n, v), Executed(n)
      PROVE  OneRun(in, s, n)
  <2>1. n \notin EventNode /\ n \notin ConditionNode /\ n \in Node
    BY NodeKinds DEF Node
  <2>2. Entry(n, "done", v) \in EntrySet /\ history' = Append(history, Entry(n, "done", v))
    <3>1. v \in Result
      BY LoopConstants DEF Result
    <3> QED
      BY <1>6, <2>1, <3>1 DEF FireAction, Return, Attempt, Entry, EntrySet
  <2>3. n \notin Failing \cap Bound /\ v = Returns(n)
    BY <1>3, <2>2 DEF Entry
  <2>4. Succeeds(in, s, n) /\ Gives(in, n) = v
    BY <1>1, <2>1, <2>3 DEF Succeeds, Gives, Returns
  <2> QED
    BY <1>6, <2>1, <2>4 DEF FireAction, Return, Attempt, Executed, OneRun, LeftIn, Tells,
                            graphVars, eventVars
<1>7. ASSUME NEW n \in ActionNode, RunRaises(n)
      PROVE  OneRun(in, s, n)
  <2>1. n \notin EventNode /\ n \notin ConditionNode /\ n \in Node
    BY NodeKinds DEF Node
  <2>2. Entry(n, "error", None) \in EntrySet
        /\ history' = Append(history, Entry(n, "error", None))
    BY <1>7, <2>1 DEF RunRaises, FailAction, Raise, Attempt, Entry, EntrySet, Result
  <2>3. n \in Failing \cap Bound
    BY <1>3, <2>2 DEF Entry
  <2>4. ~Succeeds(in, s, n)
    BY <1>1, <2>3 DEF Succeeds
  <2> QED
    BY <1>7, <2>1, <2>4 DEF RunRaises, FailAction, Raise, Attempt, OneRun, LeftIn, Tells,
                            graphVars, eventVars
<1> QED
  BY <1>4, <1>5, <1>6, <1>7 DEF GraphStep, GraphWave, RunAction, Node

\* An execution takes the tick further.
LEMMA OneRunKeeps ==
    ASSUME NEW in, NEW s, in = Given(in.nodes, in.edges), LoopInv, EventInv,
           InGraph(in, s), PredsDone, NEW n \in Node, OneRun(in, s, n)
    PROVE  InGraph(in, s)' /\ PredsDone'
<1>1. in.bound = Bound /\ in.bus = bus
  BY DEF Given
<1>2. TypeOK /\ history \in Seq(EntrySet) /\ executed \in Seq(nodes)
  BY DEF LoopInv, IInv, TypeOK, EntrySet, LoopTypeOK
<1> DEFINE A == attempted
           B == attempted \cup {n}
<1>3. n \in wave /\ n \in nodes /\ n \in Ready /\ n \notin A /\ n \in Runs(in, s)
      /\ \A p \in Preds(n) : state[p] = "DONE"
  BY <1>1, <1>2, TurnRuns DEF OneRun, InGraph, Ready
<1>4. /\ nodes' = nodes /\ edges' = edges /\ attempted' = B /\ wave' = wave \ {n}
      /\ triggered' = triggered /\ bus' = bus /\ store' = store /\ snap' = snap
      /\ \A m \in Node : state'[m] = IF m = n THEN LeftIn(in, s, n) ELSE state[m]
      /\ \A m \in Node : m # n => result'[m] = result[m]
      /\ Succeeds(in, s, n) => result'[n] = Gives(in, n)
      /\ n \in ConditionNode /\ ~Succeeds(in, s, n) => result'[n] = "false"
  BY <1>2 DEF OneRun, TypeOK
<1>5. Tells(in, s, n) \in EntrySet
  <2>1. Gives(in, n) \in Result
    <3>1. CASE n \in EventNode
      <4>1. Gives(in, n) = eventValue[n]
        BY <1>1, <1>3, <3>1 DEF Gives, Ready, EventInv
      <4> QED
        BY <1>2, <3>1, <4>1 DEF TypeOK, Result
    <3>2. CASE n \in ConditionNode
      BY <3>2, NodeKinds DEF Gives, Result
    <3>3. CASE n \in ActionNode
      <4>1. {Does[n], None} \subseteq Value \cup {None}
        BY <3>3, ReplayConstants, LoopConstants
      <4> QED
        BY <3>3, <4>1, NodeKinds DEF Gives, Result
    <3> QED
      BY <3>1, <3>2, <3>3 DEF Node
  <2> QED
    BY <2>1 DEF Tells, Entry, EntrySet, Result
<1>6. Tells(in, s, n).node = n
  BY DEF Tells, Entry
<1>7. /\ Told(history') = Told(history) \cup {<<Tells(in, s, n), Count(history, n) + 1>>}
      /\ \A m \in Node : /\ Count(history, m) \in Nat
                         /\ Count(history', m) = Count(history, m) + IF m = n THEN 1 ELSE 0
  BY <1>2, <1>5, <1>6, ToldAppended DEF OneRun
<1>8. Within(in, s, A) /\ Reported(in, s, A) /\ Ordered(s) /\ GraphIs(in, s)
      /\ A \subseteq Runs(in, s)
  BY DEF InGraph, Within
<1>9. Within(in, s, attempted)'
  <2>1. \A m \in Node \ B : /\ state'[m] = "DONE" <=> m \in s.done
                            /\ state'[m] = "FAILED" <=> m \in s.failed
    BY <1>4, <1>8 DEF Within
  <2>2. \A m \in B : /\ state'[m] = LeftIn(in, s, m)
                     /\ Succeeds(in, s, m) => result'[m] = Gives(in, m)
                     /\ m \in ConditionNode /\ ~Succeeds(in, s, m) => result'[m] = "false"
    <3>1. A \subseteq Node
      BY <1>2 DEF TypeOK
    <3> QED
      BY <1>3, <1>4, <1>8, <3>1 DEF Within
  <2>3. Count(history, n) = s.count[n] /\ s.count[n] \in Nat
    BY <1>3, <1>8 DEF Within
  <2>4. Told(history') = s.told \cup {<<Tells(in, s, m), s.count[m] + 1>> : m \in B}
    <3>1. Told(history) = s.told \cup {<<Tells(in, s, m), s.count[m] + 1>> : m \in A}
      BY <1>8 DEF Within
    <3> DEFINE T(m) == <<Tells(in, s, m), s.count[m] + 1>>
    <3>2. <<Tells(in, s, n), Count(history, n) + 1>> = T(n)
      BY <2>3
    <3> HIDE DEF T
    <3>3. {T(m) : m \in B} = {T(m) : m \in A} \cup {T(n)}
      OBVIOUS
    <3>4. {<<Tells(in, s, m), s.count[m] + 1>> : m \in A} = {T(m) : m \in A}
          /\ {<<Tells(in, s, m), s.count[m] + 1>> : m \in B} = {T(m) : m \in B}
      BY DEF T
    <3> QED
      BY <1>7, <3>1, <3>2, <3>3, <3>4
  <2>5. \A m \in Node : Count(history', m) = s.count[m] + IF m \in B THEN 1 ELSE 0
    <3>1. \A m \in Node : Count(history, m) = s.count[m] + IF m \in A THEN 1 ELSE 0
      BY <1>8 DEF Within
    <3>2. \A m \in Node : s.count[m] \in Nat
      BY <1>8 DEF Within
    <3>3. \A m \in Node : m \in B <=> m \in A \/ m = n
      OBVIOUS
    <3> HIDE DEF A, B
    <3>4. n \notin A
      BY <1>3
    <3> QED
      BY <1>7, <3>1, <3>2, <3>3, <3>4
  <2>6. s.count \in [Node -> Nat] /\ B \subseteq Runs(in, s)
    BY <1>3, <1>8 DEF Within
  <2>7. attempted' = B
    BY <1>4
  <2> HIDE DEF A, B
  <2> QED
    BY <2>1, <2>2, <2>4, <2>5, <2>6, <2>7 DEF Within
<1>10. ASSUME n \in ActionNode => Succeeds(in, s, n)
       PROVE  Reported(in, s, attempted)' /\ Ordered(s)'
  <2>1. executed' = Append(executed, n)
    BY <1>10 DEF OneRun
  <2> DEFINE l == Len(executed)
  <2>2. /\ l \in Nat /\ DOMAIN executed = 1 .. l /\ DOMAIN executed' = 1 .. l + 1
        /\ executed'[l + 1] = n /\ \A i \in 1 .. l : executed'[i] = executed[i]
    BY <1>2, <1>3, <2>1, AppendFacts
  <2> HIDE DEF l
  <2>3. ASSUME NEW m
        PROVE  (\E i \in DOMAIN executed' : executed'[i] = m)
                 <=> (\E i \in DOMAIN executed : executed[i] = m) \/ m = n
    BY <2>2
  <2>4. Reported(in, s, attempted)'
    BY <1>4, <1>8, <1>10, <2>3 DEF Reported
  <2>5. ASSUME NEW m \in nodes, LeadsIn(nodes, edges, m, n), m # n
        PROVE  m \in s.done \/ \E j \in 1 .. l : executed'[j] = m
    <3>1. state[m] = "DONE" /\ m \in Node
      BY <1>2, <1>3, <2>5, LeadersDone DEF TypeOK
    <3>2. CASE m \in A
      <4>1. Succeeds(in, s, m)
        BY <1>8, <3>1, <3>2 DEF Within, LeftIn
      <4> QED
        BY <1>8, <2>2, <3>2, <4>1 DEF Reported
    <3>3. CASE m \notin A
      BY <1>8, <3>1, <3>3 DEF Within
    <3> QED
      BY <3>2, <3>3
  <2>6. ASSUME NEW i \in 1 .. l, NEW m \in nodes, LeadsIn(nodes, edges, m, executed'[i]),
               m # executed'[i]
        PROVE  m \in s.done \/ \E j \in 1 .. (i - 1) : executed'[j] = m
    <3>1. m \in s.done \/ \E j \in 1 .. (i - 1) : executed[j] = m
      BY <1>8, <2>2, <2>6 DEF Ordered
    <3>2. \A j \in 1 .. (i - 1) : executed'[j] = executed[j]
      BY <2>2
    <3> QED
      BY <3>1, <3>2
  <2>7. ASSUME NEW i \in 1 .. l + 1, NEW m \in nodes, LeadsIn(nodes, edges, m, executed'[i]),
               m # executed'[i]
        PROVE  m \in s.done \/ \E j \in 1 .. (i - 1) : executed'[j] = m
    <3>1. CASE i = l + 1
      <4>1. l = i - 1
        BY <2>2, <3>1
      <4> QED
        BY <2>2, <2>5, <2>7, <3>1, <4>1
    <3>2. CASE i \in 1 .. l
      BY <2>6, <2>7, <3>2
    <3> QED
      BY <2>2, <3>1, <3>2
  <2>8. ASSUME NEW i \in 1 .. l + 1, NEW j \in 1 .. l + 1, executed'[i] = executed'[j]
        PROVE  i = j
    <3>1. \A h \in 1 .. l : executed[h] # n
      BY <1>3, <1>8, <2>2 DEF Reported
    <3>2. i \in 1 .. l /\ j \in 1 .. l => i = j
      BY <1>8, <2>2, <2>8 DEF Ordered
    <3> QED
      BY <2>2, <2>8, <3>1, <3>2
  <2>9. Ordered(s)'
    BY <1>4, <2>2, <2>7, <2>8 DEF Ordered
  <2> QED
    BY <2>4, <2>9
<1>11. ASSUME n \in ActionNode, ~Succeeds(in, s, n)
       PROVE  Reported(in, s, attempted)' /\ Ordered(s)'
  <2>1. executed' = executed
    BY <1>11 DEF OneRun
  <2> QED
    BY <1>4, <1>8, <1>11, <2>1 DEF Reported, Ordered
<1>12. \A m \in wave' : m \in Ready' /\ m \notin B
  <2>1. \A m \in wave : m \in Ready /\ m \notin A
    BY DEF InGraph
  <2>2. \A p \in nodes : state[p] = "DONE" => p # n
    BY <1>3 DEF Ready
  <2>3. Preds(n)' = Preds(n) /\ \A m \in wave : Preds(m)' = Preds(m)
    BY <1>4 DEF Preds
  <2>4. nodes \subseteq Node
    BY <1>2 DEF TypeOK
  <2> SUFFICES ASSUME NEW m \in wave' PROVE m \in Ready' /\ m \notin B
    OBVIOUS
  <2>5. m \in wave /\ m # n
    BY <1>4
  <2>6. m \in nodes /\ state'[m] = state[m] /\ \A p \in Preds(m) : state'[p] = state[p]
    BY <1>4, <2>1, <2>2, <2>4, <2>5 DEF Ready, Preds
  <2> QED
    BY <1>4, <2>1, <2>3, <2>5, <2>6 DEF Ready
<1>13. InGraph(in, s)'
  <2>1. GraphIs(in, s)' /\ store' = s.store /\ snap' = s.store
    BY <1>4, <1>8 DEF GraphIs, InGraph
  <2>2. \A m \in nodes' \cap EventNode : m \in Called(bus') => triggered'[m]
    BY <1>4 DEF InGraph
  <2>3. Within(in, s, attempted)' /\ Reported(in, s, attempted)' /\ Ordered(s)'
    BY <1>4, <1>9, <1>10, <1>11
  <2> QED
    BY <1>4, <1>12, <2>1, <2>2, <2>3 DEF InGraph
<1>14. PredsDone'
  <2> SUFFICES ASSUME NEW m \in nodes, state'[m] \in {"DONE", "FAILED"} \/ m \in B,
                      NEW p \in Preds(m)
               PROVE  state'[p] = "DONE"
    BY <1>4 DEF PredsDone, Preds
  <2>1. m \in Node /\ p \in Node /\ p \in nodes
    BY <1>2 DEF TypeOK, Preds
  <2>2. state[p] = "DONE"
    BY <1>3, <1>4, <2>1 DEF PredsDone
  <2>3. p # n
    BY <1>3, <2>2 DEF Ready
  <2> QED
    BY <1>4, <2>1, <2>2, <2>3
<1> QED
  BY <1>13, <1>14

-----------------------------------------------------------------------------
(* From the results to the next moment.                                    *)

\* The rules of the results written so far are pending.
PendingSoFar ==
    \A r : (\E i \in DOMAIN pending : pending[i] = r)
             <=> \E j \in 1 .. written :
                    /\ result[executed[j]] \in DOMAIN Emits
                    /\ \E i \in DOMAIN Emits[result[executed[j]]] :
                          Emits[result[executed[j]]][i] = r

\* The results of the tick after moment s are being written back.
InWrite(in, s) ==
    /\ GraphIs(in, s) /\ snap = s.store
    /\ Within(in, s, Runs(in, s)) /\ Reported(in, s, Runs(in, s)) /\ Ordered(s)
    /\ PendingSoFar

\* When the graph's tick returns, every node that could run has run.
LEMMA GraphReturns ==
    ASSUME NEW in, NEW s, in.bus = bus, LoopInv, InGraph(in, s), GraphDone
    PROVE  InWrite(in, s)'
<1> USE DEF loopVars, callVars, eventLists, locals
<1>1. Ready \ attempted = {} /\ pc = "graph"
      /\ UNCHANGED <<nodes, edges, state, result, history, executed, snap, written, pending>>
  BY DEF GraphDone, EndTick, graphVars
<1>2. attempted = Runs(in, s)
  BY <1>1, AllRan DEF LoopInv, IInv
<1>3. written = 0 /\ pending = <<>>
  BY <1>1 DEF LoopInv, FreshLocals
<1>4. GraphIs(in, s) /\ snap = s.store /\ Ordered(s)
      /\ Within(in, s, Runs(in, s)) /\ Reported(in, s, Runs(in, s))
  BY <1>2 DEF InGraph
<1>5. Within(in, s, Runs(in, s))' /\ Reported(in, s, Runs(in, s))' /\ Ordered(s)'
      /\ GraphIs(in, s)'
  BY <1>1, <1>4 DEF Within, Reported, Ordered, GraphIs
<1>6. PendingSoFar'
  BY <1>1, <1>3 DEF PendingSoFar
<1> QED
  BY <1>1, <1>4, <1>5, <1>6 DEF InWrite

\* r is an element of sequence p.
IsIn(r, p) == \E i \in DOMAIN p : p[i] = r

\* The elements of a concatenation.
LEMMA ConcatElements ==
    ASSUME NEW S, NEW p \in Seq(S), NEW q \in Seq(S), NEW r
    PROVE  IsIn(r, p \o q) <=> IsIn(r, p) \/ IsIn(r, q)
<1> DEFINE l == Len(p)
           k == Len(q)
<1>1. /\ l \in Nat /\ k \in Nat /\ DOMAIN p = 1 .. l /\ DOMAIN q = 1 .. k
      /\ DOMAIN (p \o q) = 1 .. l + k
      /\ \A i \in 1 .. l : (p \o q)[i] = p[i]
      /\ \A i \in 1 .. k : (p \o q)[l + i] = q[i]
  OBVIOUS
<1> HIDE DEF l, k
<1>2. ASSUME NEW i \in 1 .. l + k, (p \o q)[i] = r
      PROVE  (\E j \in 1 .. l : p[j] = r) \/ (\E j \in 1 .. k : q[j] = r)
  <2>1. CASE i \in 1 .. l
    BY <1>1, <1>2, <2>1
  <2>2. CASE i \notin 1 .. l
    <3>1. i - l \in 1 .. k /\ l + (i - l) = i
      BY <1>1, <2>2
    <3>2. q[i - l] = r
      BY <1>1, <1>2, <3>1
    <3> QED
      BY <3>1, <3>2
  <2> QED
    BY <2>1, <2>2
<1>3. ASSUME NEW j \in 1 .. l, p[j] = r PROVE \E i \in 1 .. l + k : (p \o q)[i] = r
  <2>1. j \in 1 .. l + k
    BY <1>1
  <2> QED
    BY <1>1, <1>3, <2>1
<1>4. ASSUME NEW j \in 1 .. k, q[j] = r PROVE \E i \in 1 .. l + k : (p \o q)[i] = r
  <2>1. l + j \in 1 .. l + k
    BY <1>1
  <2> QED
    BY <1>1, <1>4, <2>1
<1> QED
  BY <1>1, <1>2, <1>3, <1>4 DEF IsIn

\* One result of the tick is written back.
LEMMA WriteKeeps ==
    ASSUME NEW in, NEW s, LoopInv, InWrite(in, s), WriteNext
    PROVE  InWrite(in, s)'
<1> DEFINE v == result[executed[written + 1]]
<1>1. /\ UNCHANGED <<nodes, edges, state, result, history, executed, snap>>
      /\ written' = written + 1 /\ written \in Nat
      /\ \/ v \in DOMAIN Emits /\ pending' = pending \o Emits[v]
         \/ v \notin DOMAIN Emits /\ pending' = pending
  BY DEF WriteNext, vars, LoopInv, LoopTypeOK
<1> HIDE DEF v
<1>2. GraphIs(in, s)' /\ snap' = s.store /\ Within(in, s, Runs(in, s))'
      /\ Reported(in, s, Runs(in, s))' /\ Ordered(s)'
  BY <1>1 DEF InWrite, Within, Reported, Ordered, GraphIs
<1>3. ASSUME NEW r
      PROVE  (\E i \in DOMAIN pending' : pending'[i] = r)
               <=> \/ \E i \in DOMAIN pending : pending[i] = r
                   \/ v \in DOMAIN Emits /\ \E i \in DOMAIN Emits[v] : Emits[v][i] = r
  <2>1. CASE v \in DOMAIN Emits
    <3> DEFINE Texts == Rule \cup {Garbled}
    <3>1. pending \in Seq(Texts) /\ Emits[v] \in Seq(Texts)
      BY <2>1, LoopConstants DEF LoopInv, LoopTypeOK
    <3> HIDE DEF Texts
    <3>2. IsIn(r, pending \o Emits[v]) <=> IsIn(r, pending) \/ IsIn(r, Emits[v])
      BY <3>1, ConcatElements
    <3>3. pending' = pending \o Emits[v]
      BY <1>1, <2>1
    <3> QED
      BY <2>1, <3>2, <3>3, Zenon DEF IsIn
  <2>2. CASE v \notin DOMAIN Emits
    BY <1>1, <2>2
  <2> QED
    BY <2>1, <2>2
<1> DEFINE Of(j, r) == /\ result[executed[j]] \in DOMAIN Emits
                       /\ \E i \in DOMAIN Emits[result[executed[j]]] :
                             Emits[result[executed[j]]][i] = r
<1>4. ASSUME NEW r
      PROVE  (\E j \in 1 .. written + 1 : Of(j, r))
               <=> (\E j \in 1 .. written : Of(j, r)) \/ Of(written + 1, r)
  <2>1. 1 .. written + 1 = (1 .. written) \cup {written + 1}
    BY <1>1
  <2> HIDE DEF Of
  <2> QED
    BY <2>1
<1>5. \A r : (\E i \in DOMAIN pending : pending[i] = r) <=> \E j \in 1 .. written : Of(j, r)
  BY Zenon DEF InWrite, PendingSoFar
<1>6. \A r : Of(written + 1, r)
               <=> v \in DOMAIN Emits /\ \E i \in DOMAIN Emits[v] : Emits[v][i] = r
  BY Zenon DEF v
<1>7. \A r : (\E i \in DOMAIN pending' : pending'[i] = r)
               <=> \E j \in 1 .. written' : Of(j, r)
  <2> HIDE DEF Of
  <2> QED
    BY <1>1, <1>3, <1>4, <1>5, <1>6
<1>8. PendingSoFar'
  <2>1. result' = result /\ executed' = executed
    BY <1>1
  <2> QED
    BY <1>7, <2>1, Zenon DEF PendingSoFar
<1> QED
  BY <1>2, <1>8 DEF InWrite

\* The result of a reported node is what it yields if it succeeds.
LEMMA ReportedResult ==
    ASSUME NEW in, NEW s, InWrite(in, s), NEW i \in DOMAIN executed
    PROVE  /\ executed[i] \in Runs(in, s)
           /\ \/ /\ Succeeds(in, s, executed[i])
                 /\ result[executed[i]] = Gives(in, executed[i])
              \/ ~Succeeds(in, s, executed[i]) /\ result[executed[i]] = "false"
<1> DEFINE n == executed[i]
<1>1. n \in Runs(in, s) /\ (n \in ActionNode => Succeeds(in, s, n))
  BY DEF InWrite, Reported
<1>2. n \notin ActionNode /\ n \notin ConditionNode => Succeeds(in, s, n)
  BY DEF Succeeds
<1> QED
  BY <1>1, <1>2 DEF InWrite, Within

\* What is emitted goes to the graph and what is written to the store.
LEMMA MomentReached ==
    ASSUME NEW in, NEW s, LoopInv, WrittenSoFar, InWrite(in, s), WriteDone, meanwhile = NoData,
           s.rules \subseteq Rule
    PROVE  /\ Ticks(in, s, After(in, s, store))
           /\ Same(After(in, s, store))
           /\ executed = <<>> <=> Still(in, s)
           /\ \A r \in Rule : (\E i \in DOMAIN pending : pending[i] = r) <=> r \in NewRules(in, s)
<1> DEFINE X == Runs(in, s)
           l == Len(executed)
           u == After(in, s, store)
<1>1. /\ l \in Nat /\ DOMAIN executed = 1 .. l /\ written = l /\ pc = "write"
      /\ store \in [Key -> Val \cup {Missing}]
  BY DEF WriteDone, LoopInv, LoopTypeOK
<1>2. "false" \notin DOMAIN Writes /\ "false" \notin DOMAIN Emits
  BY ReplayConstants, Sentinels
<1>3. ASSUME NEW n PROVE (\E i \in 1 .. l : executed[i] = n)
                           <=> n \in X /\ (n \in ActionNode => Succeeds(in, s, n))
  BY <1>1 DEF InWrite, Reported
<1>4. ASSUME NEW i \in 1 .. l
      PROVE  /\ executed[i] \in X
             /\ \/ Succeeds(in, s, executed[i]) /\ result[executed[i]] = Gives(in, executed[i])
                \/ ~Succeeds(in, s, executed[i]) /\ result[executed[i]] = "false"
  BY <1>1, ReportedResult
<1>5. ASSUME NEW i \in 1 .. l, NEW k
      PROVE  Wrote(i, k) <=> executed[i] \in Writers(in, s, k)
  <2> HIDE DEF l
  <2> QED
    BY <1>2, <1>4 DEF Wrote, Writers
<1>6. ASSUME NEW k \in Key
      PROVE  IF Writers(in, s, k) = {} THEN store[k] = s.store[k]
             ELSE \E n \in Writers(in, s, k) :
                  /\ store[k] = Writes[Gives(in, n)][k]
                  /\ \A m \in Writers(in, s, k) :
                        LeadsIn(GraphNodes(in, s.rules), GraphEdges(in, s.rules), n, m) => m = n
  <2>0. \A m \in Writers(in, s, k) : m \in X /\ \E j \in 1 .. l : executed[j] = m
    BY <1>3 DEF Writers
  <2>1. CASE store[k] = snap[k] /\ \A i \in 1 .. l : ~Wrote(i, k)
    <3>1. Writers(in, s, k) = {}
      BY <1>5, <2>0, <2>1
    <3> QED
      BY <2>1, <3>1 DEF InWrite
  <2>2. ASSUME NEW i \in 1 .. l, Wrote(i, k), store[k] = Writes[result[executed[i]]][k],
               \A j \in 1 .. l : Wrote(j, k) => j <= i
        PROVE  \E n \in Writers(in, s, k) :
                  /\ store[k] = Writes[Gives(in, n)][k]
                  /\ \A m \in Writers(in, s, k) :
                        LeadsIn(GraphNodes(in, s.rules), GraphEdges(in, s.rules), n, m) => m = n
    <3> DEFINE n == executed[i]
    <3>1. n \in Writers(in, s, k) /\ n \in X /\ result[n] = Gives(in, n)
      <4> HIDE DEF l, X
      <4> QED
        BY <1>2, <1>4, <1>5, <2>2 DEF Writers
    <3>2. ASSUME NEW m \in Writers(in, s, k), LeadsIn(nodes, edges, n, m), m # n PROVE FALSE
      <4>1. PICK j \in 1 .. l : executed[j] = m
        BY <2>0
      <4>2. j <= i
        BY <1>5, <2>2, <4>1
      <4>3. n \notin s.done /\ n \in nodes
        <5>1. n \in GraphNodes(in, s.rules) /\ n \notin s.done
          BY <3>1, RunFresh
        <5> QED
          BY <5>1 DEF InWrite, GraphIs
      <4>4. PICK h \in 1 .. (j - 1) : executed[h] = n
        BY <1>1, <3>2, <4>1, <4>3 DEF InWrite, Ordered
      <4>5. h \in 1 .. l /\ h # i
        BY <1>1, <4>2
      <4> QED
        BY <1>1, <4>4, <4>5 DEF InWrite, Ordered
    <3>3. GraphNodes(in, s.rules) = nodes /\ GraphEdges(in, s.rules) = edges
      BY DEF InWrite, GraphIs
    <3>4. \A m \in Writers(in, s, k) : LeadsIn(nodes, edges, n, m) => m = n
      BY <3>2
    <3>5. store[k] = Writes[Gives(in, n)][k]
      BY <2>2, <3>1
    <3> QED
      BY <3>1, <3>3, <3>4, <3>5, Zenon
  <2>3. \/ store[k] = snap[k] /\ \A i \in 1 .. l : ~Wrote(i, k)
        \/ \E i \in 1 .. l :
              /\ Wrote(i, k) /\ store[k] = Writes[result[executed[i]]][k]
              /\ \A j \in 1 .. l : Wrote(j, k) => j <= i
    <3>1. Otherwise(k) = snap[k]
      BY DEF Otherwise, NoData
    <3> QED
      BY <1>1, <3>1 DEF WrittenSoFar
  <2> HIDE DEF l, X
  <2> QED
    BY <2>1, <2>2, <2>3
<1>7. Stores(in, s, store)
  BY <1>1, <1>6, Zenon DEF Stores
<1>8. Ticks(in, s, u)
  BY <1>7 DEF Ticks
<1>9. executed = <<>> <=> Still(in, s)
  <2>1. executed = <<>> <=> ~ \E i \in 1 .. l : TRUE
    BY <1>1 DEF LoopInv, LoopTypeOK
  <2>2. \A n \in X : n \in ActionNode /\ ~Succeeds(in, s, n)
                       <=> ~(n \in ActionNode => Succeeds(in, s, n))
    OBVIOUS
  <2> HIDE DEF l
  <2>3. (\E i \in 1 .. l : TRUE) <=> \E n \in X : n \in ActionNode => Succeeds(in, s, n)
    BY <1>3, <1>4
  <2> QED
    BY <2>1, <2>2, <2>3 DEF Still
<1>10. ASSUME NEW r \in Rule
       PROVE  (\E i \in DOMAIN pending : pending[i] = r) <=> r \in NewRules(in, s)
  <2> DEFINE Has(v) == v \in DOMAIN Emits /\ \E i \in DOMAIN Emits[v] : Emits[v][i] = r
  <2>1. (\E i \in DOMAIN pending : pending[i] = r) <=> \E j \in 1 .. l : Has(result[executed[j]])
    BY <1>1, Zenon DEF InWrite, PendingSoFar
  <2>2. r \in NewRules(in, s) <=> \E n \in X : Succeeds(in, s, n) /\ Has(Gives(in, n))
    BY DEF NewRules
  <2>3. ~Has("false")
    BY <1>2
  <2> HIDE DEF Has, X, l
  <2>4. ASSUME NEW j \in 1 .. l, Has(result[executed[j]])
        PROVE  \E n \in X : Succeeds(in, s, n) /\ Has(Gives(in, n))
    BY <1>4, <2>3, <2>4
  <2>5. ASSUME NEW n \in X, Succeeds(in, s, n), Has(Gives(in, n))
        PROVE  \E j \in 1 .. l : Has(result[executed[j]])
    <3>1. PICK j \in 1 .. l : executed[j] = n
      BY <1>3, <2>5
    <3>2. result[executed[j]] = Gives(in, n)
      BY <1>4, <2>5, <3>1
    <3> QED
      BY <2>5, <3>2
  <2> QED
    BY <2>1, <2>2, <2>4, <2>5
<1>11. Same(u)
  <2>1. s.count \in [Node -> Nat] /\ u.count \in [Node -> Nat]
    BY DEF InWrite, Within, After
  <2>2. ASSUME NEW n \in Node
        PROVE  /\ state[n] = "DONE" <=> n \in u.done
               /\ state[n] = "FAILED" <=> n \in u.failed
    <3>0. /\ n \in u.done <=> n \in s.done \/ (n \in X /\ Succeeds(in, s, n))
          /\ n \in u.failed <=>
                n \in s.failed \/ (n \in X /\ n \in ActionNode /\ ~Succeeds(in, s, n))
      BY DEF After
    <3>1. CASE n \in X
      <4>1. n \notin s.done \cup s.failed
        BY <3>1, RunFresh
      <4>2. state[n] = LeftIn(in, s, n)
        BY <3>1 DEF InWrite, Within
      <4>3. Succeeds(in, s, n) \/ n \in ConditionNode \/ n \in ActionNode
        BY DEF Succeeds
      <4>4. n \in ConditionNode => n \notin ActionNode
        BY NodeKinds
      <4> HIDE DEF X
      <4> QED
        BY <3>0, <3>1, <4>1, <4>2, <4>3, <4>4 DEF LeftIn
    <3>2. CASE n \notin X
      BY <3>0, <3>2 DEF InWrite, Within
    <3> QED
      BY <3>1, <3>2
  <2>3. \A n \in Node : Count(history, n) = u.count[n]
    BY DEF InWrite, Within, After
  <2>4. Told(history) = u.told
    BY DEF InWrite, Within, After
  <2>5. store = u.store
    BY DEF After
  <2> HIDE DEF u
  <2> QED
    BY <2>1, <2>2, <2>3, <2>4, <2>5 DEF Same
<1> QED
  BY <1>8, <1>9, <1>10, <1>11

-----------------------------------------------------------------------------
(* Moments.                                                                *)

\* The graph that a run begins with holds no node of a rule emitted later.
GoodGraph(in) ==
    /\ in.nodes \subseteq Node /\ in.edges \subseteq in.nodes \X in.nodes
    /\ in.nodes \cap EmittedNodes = {}

\* s can be met in a run: what has run was in the graph, and so were its causes.
Moment(in, s) ==
    /\ s.rules \subseteq Rule /\ s.count \in [Node -> Nat]
    /\ s.done \cup s.failed \subseteq GraphNodes(in, s.rules)
    /\ \A n \in s.done \cup s.failed : \A p \in GraphNodes(in, s.rules) :
          <<p, n>> \in GraphEdges(in, s.rules) => p \in s.done

\* The nodes and the edges that one rule is compiled into.
LEMMA RuleGraph ==
    ASSUME NEW r \in Rule
    PROVE  /\ NodesOfRule(r) \subseteq EmittedNodes /\ NodesOfRule(r) \subseteq Node
           /\ Links(r) \subseteq NodesOfRule(r) \X NodesOfRule(r)
<1>1. RuleNodes[r] \in Seq(Node)
  BY LoopConstants
<1>2. \A i \in 2 .. Len(RuleNodes[r]) : i \in DOMAIN RuleNodes[r] /\ i - 1 \in DOMAIN RuleNodes[r]
  BY <1>1
<1> QED
  BY <1>1, <1>2 DEF NodesOfRule, EmittedNodes, Links

\* The edges of a graph join its nodes, and rules add no edge to a node that is
\* there already.
LEMMA GraphFacts ==
    ASSUME NEW in, GoodGraph(in), NEW Q, Q \subseteq Rule
    PROVE  /\ GraphNodes(in, Q) \subseteq Node
           /\ GraphEdges(in, Q) \subseteq GraphNodes(in, Q) \X GraphNodes(in, Q)
           /\ \A R \in SUBSET Q :
                 /\ GraphNodes(in, R) \subseteq GraphNodes(in, Q)
                 /\ GraphEdges(in, R) \subseteq GraphEdges(in, Q)
                 /\ \A e \in GraphEdges(in, Q) :
                       e[2] \in GraphNodes(in, R) => e \in GraphEdges(in, R)
<1>1. \A r \in Q : /\ NodesOfRule(r) \subseteq EmittedNodes /\ NodesOfRule(r) \subseteq Node
                   /\ Links(r) \subseteq NodesOfRule(r) \X NodesOfRule(r)
  BY RuleGraph
<1>2. GraphNodes(in, Q) \subseteq Node
  BY <1>1 DEF GraphNodes, GoodGraph
<1>3. GraphEdges(in, Q) \subseteq GraphNodes(in, Q) \X GraphNodes(in, Q)
  <2> SUFFICES ASSUME NEW e \in GraphEdges(in, Q)
               PROVE  e \in GraphNodes(in, Q) \X GraphNodes(in, Q)
    OBVIOUS
  <2>1. CASE e \in in.edges
    BY <2>1 DEF GoodGraph, GraphNodes
  <2>2. ASSUME NEW r \in Q, e \in Links(r)
        PROVE  e \in GraphNodes(in, Q) \X GraphNodes(in, Q)
    BY <1>1, <2>2 DEF GraphNodes
  <2> QED
    BY <2>1, <2>2 DEF GraphEdges
<1>4. ASSUME NEW R \in SUBSET Q, NEW e \in GraphEdges(in, Q), e[2] \in GraphNodes(in, R)
      PROVE  e \in GraphEdges(in, R)
  <2>1. CASE e \in in.edges
    BY <2>1 DEF GraphEdges
  <2>2. ASSUME NEW r \in Q, e \in Links(r)
        PROVE  e \in GraphEdges(in, R)
    <3>1. e[2] \in NodesOfRule(r) /\ e[2] \in EmittedNodes
      BY <1>1, <2>2
    <3>2. PICK q \in R : e[2] \in NodesOfRule(q)
      BY <1>4, <3>1 DEF GraphNodes, GoodGraph
    <3>3. q = r
      BY <3>1, <3>2, NodesAreNew
    <3> QED
      BY <2>2, <3>3 DEF GraphEdges
  <2> QED
    BY <1>4, <2>1, <2>2 DEF GraphEdges
<1>5. \A R \in SUBSET Q : /\ GraphNodes(in, R) \subseteq GraphNodes(in, Q)
                          /\ GraphEdges(in, R) \subseteq GraphEdges(in, Q)
  BY DEF GraphNodes, GraphEdges
<1> QED
  BY <1>2, <1>3, <1>4, <1>5

\* A cause in the grown graph was a cause in the graph it has grown from.
LEMMA LeadsBack ==
    ASSUME NEW in, GoodGraph(in), NEW Q, Q \subseteq Rule, NEW R \in SUBSET Q,
           NEW a \in GraphNodes(in, R), NEW b \in GraphNodes(in, R),
           LeadsIn(GraphNodes(in, Q), GraphEdges(in, Q), a, b)
    PROVE  LeadsIn(GraphNodes(in, R), GraphEdges(in, R), a, b)
<1> DEFINE N == GraphNodes(in, R)
           M == GraphNodes(in, Q)
<1>1. SUFFICES ASSUME NEW S \in SUBSET N, a \in S,
                      \A e \in GraphEdges(in, R) : e[1] \in S => e[2] \in S
               PROVE  b \in S
  BY DEF LeadsIn
<1> DEFINE T == S \cup (M \ N)
<1>2. ASSUME NEW e \in GraphEdges(in, Q), e[1] \in T PROVE e[2] \in T
  <2>1. e[2] \in M
    BY GraphFacts
  <2>2. CASE e[2] \in N
    <3>1. e \in GraphEdges(in, R)
      BY <2>2, GraphFacts
    <3>2. R \subseteq Rule
      OBVIOUS
    <3>3. e[1] \in N
      <4>1. GraphEdges(in, R) \subseteq N \X N
        BY <3>2, GraphFacts
      <4> QED
        BY <3>1, <4>1
    <3> QED
      BY <1>1, <1>2, <3>1, <3>3
  <2> QED
    BY <2>1, <2>2
<1>3. T \in SUBSET M /\ a \in T
  <2>1. N \subseteq M
    BY GraphFacts
  <2> QED
    BY <1>1, <2>1
<1>4. b \in T
  <2> HIDE DEF T, N
  <2> QED
    BY <1>2, <1>3 DEF LeadsIn
<1> QED
  BY <1>4

\* What runs in a tick could run after what else runs in it.
LEMMA RunsSupported ==
    ASSUME NEW in, NEW s, NEW n \in Runs(in, s)
    PROVE  MayRun(in, s, n, Runs(in, s))
<1> DEFINE N == GraphNodes(in, s.rules)
           X == Runs(in, s)
           S == {m \in X : MayRun(in, s, m, X)}
<1>1. X \subseteq N
  BY DEF Runs
<1>2. ASSUME NEW m \in N, NEW A \in SUBSET N, Closed(in, s, A), MayRun(in, s, m, X)
      PROVE  m \in A
  <2>1. X \subseteq A
    BY <1>2 DEF Runs
  <2>2. MayRun(in, s, m, A)
    <3> HIDE DEF X
    <3> QED
      BY <1>2, <2>1 DEF MayRun
  <2> QED
    BY <1>2, <2>2 DEF Closed
<1>3. ASSUME NEW m \in N, MayRun(in, s, m, X) PROVE m \in X
  BY <1>2, <1>3 DEF Runs
<1>4. Closed(in, s, S)
  <2> SUFFICES ASSUME NEW m \in N, MayRun(in, s, m, S) PROVE m \in S
    BY DEF Closed
  <2>1. MayRun(in, s, m, X)
    <3>1. S \subseteq X
      OBVIOUS
    <3> HIDE DEF S, X
    <3> QED
      BY <3>1 DEF MayRun
  <2>2. m \in X
    BY <1>3, <2>1
  <2> QED
    BY <2>1, <2>2
<1>5. S \in SUBSET N
  BY <1>1
<1>6. n \in S
  <2> HIDE DEF S
  <2> QED
    BY <1>4, <1>5 DEF Runs
<1> QED
  BY <1>6

\* From moment to moment: nothing that was done is undone.
LEMMA MomentNext ==
    ASSUME NEW in, GoodGraph(in), NEW s, Moment(in, s), NEW data
    PROVE  /\ Moment(in, After(in, s, data))
           /\ s.rules \subseteq After(in, s, data).rules
           /\ s.done \subseteq After(in, s, data).done
<1> DEFINE u == After(in, s, data)
           X == Runs(in, s)
<1>1. /\ u.rules = s.rules \cup NewRules(in, s)
      /\ u.done = s.done \cup {n \in X : Succeeds(in, s, n)}
      /\ u.failed = s.failed \cup {n \in X \cap ActionNode : ~Succeeds(in, s, n)}
      /\ u.count = [n \in Node |-> s.count[n] + IF n \in X THEN 1 ELSE 0]
  BY DEF After
<1> HIDE DEF u
<1>2. u.rules \subseteq Rule /\ s.rules \in SUBSET u.rules /\ s.rules \subseteq Rule
  BY <1>1 DEF NewRules, Moment
<1>3. u.count \in [Node -> Nat]
  BY <1>1 DEF Moment
<1>4. X \subseteq GraphNodes(in, s.rules)
  BY DEF Runs
<1>5. GraphNodes(in, s.rules) \subseteq GraphNodes(in, u.rules)
  BY <1>2, GraphFacts
<1>6. u.done \cup u.failed \subseteq GraphNodes(in, s.rules)
  BY <1>1, <1>4 DEF Moment
<1>7. ASSUME NEW n \in u.done \cup u.failed, NEW p \in GraphNodes(in, u.rules),
             <<p, n>> \in GraphEdges(in, u.rules)
      PROVE  p \in u.done
  <2>1. <<p, n>> \in GraphEdges(in, s.rules)
    <3>1. <<p, n>>[2] \in GraphNodes(in, s.rules)
      BY <1>6
    <3> QED
      BY <1>2, <1>7, <3>1, GraphFacts
  <2>2. p \in GraphNodes(in, s.rules)
    BY <1>2, <2>1, GraphFacts
  <2>3. CASE n \in X
    <3>1. MayRun(in, s, n, X)
      BY <2>3, RunsSupported
    <3> HIDE DEF X
    <3>2. p \in s.done \/ (p \in X /\ Succeeds(in, s, p))
      BY <2>1, <2>2, <3>1 DEF MayRun
    <3> QED
      BY <1>1, <3>2
  <2>4. CASE n \in s.done \cup s.failed
    BY <1>1, <2>1, <2>2, <2>4 DEF Moment
  <2> QED
    BY <1>1, <2>3, <2>4
<1>8. Moment(in, u)
  BY <1>2, <1>3, <1>5, <1>6, <1>7 DEF Moment
<1> QED
  BY <1>1, <1>8 DEF u

\* A run can begin in any store.
LEMMA MomentFirst ==
    ASSUME NEW in, NEW data
    PROVE  Moment(in, Beginning(data))
BY DEF Moment, Beginning

-----------------------------------------------------------------------------
(* The nodes of a text.                                                    *)

\* What a line may hold.
Clauses == [kw : {"IF"}, node : ConditionNode] \cup [kw : {"THEN", "CAUSE"}, node : ActionNode]
             \cup {DSL!Noise}

\* Nodes that the clauses of a text are compiled into.
TextNode == (ConditionNode \cup ActionNode) \ (EmittedNodes \cup Built)

\* The lines that are in a block.
BlockLine == {line \in Lines : ~DSL!Separator(line)}

Block == Seq(BlockLine) \ {<<>>}

\* The rules that a parser can return.
GoodRules(asts) == asts \in Seq(Seq(TextNode))

\* What is left of a text when i of its lines have been taken, as a function of i.
TakenUpTo(source) ==
    [0 .. Len(source) -> [blocks : Seq(Block), current : Seq(BlockLine)]]

\* SplitRuleBlocks, line by line: the blocks are made of the lines of the text.
LEMMA LinesTakenStep ==
    ASSUME NEW source \in Seq(Lines)
    PROVE  \E acc \in TakenUpTo(source) :
              /\ acc[0] = [blocks |-> <<>>, current |-> <<>>]
              /\ \A i \in 1 .. Len(source) : acc[i] = DSL!Take(acc[i - 1], source[i])
              /\ DSL!LinesTaken(source) = acc[Len(source)]
<1> DEFINE n == Len(source)
           S == [blocks : Seq(Block), current : Seq(BlockLine)]
           zero == [blocks |-> <<>>, current |-> <<>>]
           step == [p \in (1 .. n) \X S |-> DSL!Take(p[2], source[p[1]])]
           Is(f) == f = [i \in 0 .. n |-> IF i = 0 THEN zero ELSE DSL!Take(f[i - 1], source[i])]
<1>1. n \in Nat /\ \A i \in 1 .. n : source[i] \in Lines
  OBVIOUS
<1>2. zero \in S
  OBVIOUS
<1>3. ASSUME NEW a \in S, NEW line \in Lines PROVE DSL!Take(a, line) \in S
  <2> USE DEF DSL!Take
  <2>1. CASE ~DSL!Separator(line)
    <3>1. Append(a.current, line) \in Seq(BlockLine)
      BY <2>1 DEF BlockLine
    <3> QED
      BY <2>1, <3>1
  <2>2. CASE DSL!Separator(line) /\ a.current = <<>>
    BY <2>2
  <2>3. CASE DSL!Separator(line) /\ a.current # <<>>
    <3> DEFINE B == Block
    <3>1. a.current \in B /\ a.blocks \in Seq(B)
      BY <2>3 DEF Block
    <3> HIDE DEF B
    <3>2. Append(a.blocks, a.current) \in Seq(B)
      BY <3>1
    <3>3. [blocks |-> Append(a.blocks, a.current), current |-> <<>>] \in S
      BY <3>2 DEF B
    <3> HIDE DEF S
    <3> QED
      BY <2>3, <3>3
  <2> QED
    BY <2>1, <2>2, <2>3
<1> HIDE DEF S, zero
<1>4. step \in [(1 .. n) \X S -> S]
  BY <1>1, <1>3
<1>5. PICK f : Recursion(f, n, S, zero, step)
  <2> HIDE DEF step, n
  <2> QED
    BY <1>1, <1>2, <1>4, PrimitiveRecursion
<1>6. Is(f)
  <2>1. f \in [0 .. n -> S] /\ f[0] = zero /\ \A i \in 1 .. n : f[i] = step[<<i, f[i - 1]>>]
    BY <1>5 DEF Recursion
  <2>2. \A i \in 1 .. n : f[i - 1] \in S
    BY <2>1
  <2>3. \A i \in 1 .. n : f[i] = DSL!Take(f[i - 1], source[i])
    BY <2>1, <2>2
  <2>4. \A i \in 0 .. n : f[i] = IF i = 0 THEN zero ELSE DSL!Take(f[i - 1], source[i])
    BY <2>1, <2>3
  <2> HIDE DEF step
  <2> QED
    BY <2>1, <2>4
<1> DEFINE g == CHOOSE f_ : Is(f_)
<1>7. Is(g)
  <2> HIDE DEF Is
  <2> QED
    BY <1>6, Zenon
<1>8. DSL!LinesTaken(source) = g[n]
  BY Zenon DEF DSL!LinesTaken, zero
<1> HIDE DEF g
<1> DEFINE T == {i \in Nat : i <= n => g[i] \in S}
<1>9. 0 \in T
  BY <1>1, <1>2, <1>7
<1>10. ASSUME NEW i \in Nat, i \in T PROVE i + 1 \in T
  <2> SUFFICES ASSUME i + 1 <= n PROVE g[i + 1] \in S
    OBVIOUS
  <2>1. g[i] \in S /\ i + 1 \in 1 .. n /\ i + 1 \in 0 .. n /\ i + 1 # 0 /\ (i + 1) - 1 = i
    BY <1>1, <1>10
  <2>2. g[i + 1] = DSL!Take(g[i], source[i + 1])
    BY <1>7, <2>1
  <2> QED
    BY <1>1, <1>3, <2>1, <2>2
<1>11. \A i \in Nat : i \in T
  <2> HIDE DEF T
  <2> QED
    BY <1>9, <1>10, SetInduction
<1>12. g \in [0 .. n -> S]
  <2>1. \A i \in 0 .. n : i \in Nat /\ i <= n
    BY <1>1
  <2>2. \A i \in 0 .. n : g[i] \in S
    BY <1>11, <2>1
  <2> QED
    BY <1>7, <2>2
<1>13. g \in TakenUpTo(source)
  BY <1>12 DEF TakenUpTo, S, n
<1>14. g[0] = zero /\ \A i \in 1 .. n : g[i] = DSL!Take(g[i - 1], source[i])
  <2>1. 0 \in 0 .. n /\ \A i \in 1 .. n : i \in 0 .. n /\ i # 0
    BY <1>1
  <2> QED
    BY <1>7, <2>1
<1> QED
  BY <1>8, <1>13, <1>14, Zenon DEF zero, n

\* So every block is a sequence of lines of the text, and so is what is left.
LEMMA LinesTakenTyped ==
    ASSUME NEW source \in Seq(Lines)
    PROVE  DSL!LinesTaken(source) \in [blocks : Seq(Block), current : Seq(BlockLine)]
<1>1. Len(source) \in 0 .. Len(source)
  OBVIOUS
<1> QED
  BY <1>1, LinesTakenStep DEF TakenUpTo

\* No block is empty, and none has a separator.
LEMMA BlocksTyped ==
    ASSUME NEW source \in Seq(Lines)
    PROVE  DSL!SplitRuleBlocks(source) \in Seq(Block)
<1> DEFINE end == DSL!LinesTaken(source)
           B == Block
<1>1. end.blocks \in Seq(B) /\ end.current \in Seq(BlockLine)
  BY LinesTakenTyped
<1> HIDE DEF end
<1>2. end.current # <<>> => end.current \in B
  BY <1>1 DEF Block
<1> HIDE DEF B
<1>3. end.current # <<>> => Append(end.blocks, end.current) \in Seq(B)
  BY <1>1, <1>2
<1>4. DSL!SplitRuleBlocks(source)
        = IF end.current = <<>> THEN end.blocks ELSE Append(end.blocks, end.current)
  BY DEF DSL!SplitRuleBlocks, end
<1> QED
  BY <1>1, <1>3, <1>4 DEF B

\* What the first clause of a line of a block is compiled into.
LEMMA ClauseNode ==
    ASSUME NEW line \in BlockLine, NEW i \in DOMAIN line
    PROVE  /\ line \in Seq(Clauses) /\ line # <<>>
           /\ line[i].kw = "IF" => line[i].node \in TextNode
           /\ line[i].kw \in {"THEN", "CAUSE"} => line[i].node \in TextNode
<1>1. line \in Lines /\ line \notin {DSL!Blank, DSL!Dashes}
  BY DEF BlockLine, DSL!Separator
<1>2. line \in Seq(Clauses) /\ line # <<>>
  BY <1>1, ReplayConstants DEF DSL!Line, DSL!Blank, Clauses
<1>3. line[i] \in Clauses
  BY <1>2
<1>4. line[i].kw \in {"IF", "THEN", "CAUSE"} => line[i].node \in DSL!NodesOn(line)
  BY DEF DSL!NodesOn
<1>5. DSL!NodesOn(line) \cap (EmittedNodes \cup Built) = {}
  BY <1>1, NodesAreNew
<1> QED
  BY <1>2, <1>3, <1>4, <1>5 DEF Clauses, TextNode, DSL!Noise

\* A block that the parser accepts gives a rule of nodes.
LEMMA RuleTyped ==
    ASSUME NEW block \in Block, DSL!ParsesBlock(block)
    PROVE  DSL!RuleAST(block) \in Seq(TextNode)
<1> DEFINE lines == DSL!NormalizeBlock(block)
           l == Len(lines)
<1>1. block \in Seq(BlockLine) /\ block # <<>> /\ 1 \in DOMAIN block
  BY DEF Block
<1>2. /\ l \in Nat /\ l >= 1 /\ DOMAIN lines = 1 .. l
      /\ \A i \in 1 .. l :
            lines[i][1].kw \in {"IF", "THEN", "CAUSE"} => lines[i][1].node \in TextNode
  <2> DEFINE line == block[1]
             Piece(clause) == IF clause.kw # "IF" /\ clause.node \in Quoting THEN <<DSL!Noise>>
                              ELSE <<clause>>
  <2>1. line \in BlockLine
    BY <1>1
  <2>2. line \in Seq(Clauses) /\ line # <<>>
    <3>1. line # <<>> /\ line \in Seq(Clauses)
      BY <2>1, ReplayConstants
         DEF BlockLine, DSL!Separator, DSL!Blank, DSL!Line, DSL!Dashes, Clauses
    <3> QED
      BY <3>1
  <2>3. CASE lines = block
    <3>1. \A i \in 1 .. Len(block) : block[i] \in BlockLine
      BY <1>1
    <3>2. \A i \in 1 .. Len(block) : 1 \in DOMAIN block[i]
      <4> SUFFICES ASSUME NEW b \in BlockLine PROVE 1 \in DOMAIN b
        BY <3>1
      <4>1. b # <<>> /\ b \in Seq(Clauses)
        BY ReplayConstants DEF BlockLine, DSL!Separator, DSL!Blank, DSL!Line, DSL!Dashes, Clauses
      <4> QED
        BY <4>1
    <3>3. \A i \in 1 .. Len(block) :
             block[i][1].kw \in {"IF", "THEN", "CAUSE"} => block[i][1].node \in TextNode
      BY <3>1, <3>2, ClauseNode
    <3> HIDE DEF lines
    <3> QED
      BY <1>1, <2>3, <3>3
  <2>4. CASE lines = [k \in DOMAIN line |-> Piece(line[k])]
    <3>1. /\ DOMAIN line = 1 .. Len(line) /\ Len(line) \in Nat /\ Len(line) >= 1
      BY <2>2
    <3>2. l = Len(line) /\ DOMAIN lines = 1 .. Len(line)
      <4> HIDE DEF lines, Piece
      <4> QED
        BY <2>4, <3>1
    <3>3. ASSUME NEW k \in 1 .. Len(line), lines[k][1].kw \in {"IF", "THEN", "CAUSE"}
          PROVE  lines[k][1].node \in TextNode
      <4>1. lines[k] = Piece(line[k]) /\ k \in DOMAIN line
        <5> HIDE DEF lines, Piece
        <5> QED
          BY <2>4, <3>1
      <4>2. DSL!Noise.kw \notin {"IF", "THEN", "CAUSE"}
        BY DEF DSL!Noise
      <4>3. lines[k][1] = line[k]
        <5> HIDE DEF lines
        <5> QED
          BY <3>3, <4>1, <4>2
      <4> QED
        BY <2>1, <3>3, <4>1, <4>3, ClauseNode
    <3> HIDE DEF lines, l
    <3> QED
      BY <3>1, <3>2, <3>3
  <2>5. lines = block \/ lines = [k \in DOMAIN line |-> Piece(line[k])]
    BY DEF DSL!NormalizeBlock
  <2> QED
    BY <2>3, <2>4, <2>5
<1> HIDE DEF lines
<1>3. /\ lines[1][1].kw = "IF"
      /\ \A i \in 2 .. l : lines[i][1].kw \in {"THEN", "CAUSE"}
      /\ \E i \in 2 .. l : lines[i][1].kw = "THEN"
  <2>1. /\ DSL!IsCondition(lines[1]) /\ \A i \in 2 .. l : DSL!IsAction(lines[i])
        /\ \E i \in 2 .. l : \A j \in 2 .. l : lines[j][1].kw = "THEN" <=> j = i
    BY DEF DSL!ParsesBlock, lines
  <2>2. \E i \in 2 .. l : lines[i][1].kw = "THEN"
    BY <2>1
  <2> QED
    BY <2>1, <2>2 DEF DSL!IsCondition, DSL!IsAction
<1> DEFINE then == CHOOSE i \in DOMAIN lines : lines[i][1].kw = "THEN"
           Place(k) == IF k = 1 \/ k > then THEN k ELSE IF k = 2 THEN then ELSE k - 1
           ast == [k \in DOMAIN lines |-> lines[Place(k)][1].node]
<1>4. then \in 2 .. l
  <2>1. then \in 1 .. l /\ lines[then][1].kw = "THEN"
    <3>1. \E i \in DOMAIN lines : lines[i][1].kw = "THEN"
      <4>1. \A i \in 2 .. l : i \in DOMAIN lines
        BY <1>2
      <4> QED
        BY <1>3, <4>1
    <3>2. then \in DOMAIN lines /\ lines[then][1].kw = "THEN"
      BY <3>1, Zenon
    <3> QED
      BY <1>2, <3>2
  <2>2. then # 1
    BY <1>3, <2>1
  <2> HIDE DEF then
  <2> QED
    BY <1>2, <2>1, <2>2
<1> HIDE DEF then
<1>5. ASSUME NEW k \in 1 .. l PROVE lines[Place(k)][1].node \in TextNode
  <2>1. Place(k) \in 1 .. l
    BY <1>2, <1>4
  <2>2. lines[Place(k)][1].kw \in {"IF", "THEN", "CAUSE"}
    <3> HIDE DEF Place
    <3>1. Place(k) = 1 \/ Place(k) \in 2 .. l
      BY <1>2, <2>1
    <3> QED
      BY <1>3, <3>1
  <2> HIDE DEF Place
  <2> QED
    BY <1>2, <2>1, <2>2
<1>6. ast \in [1 .. l -> TextNode]
  <2> HIDE DEF Place
  <2> QED
    BY <1>2, <1>5
<1>7. ast \in Seq(TextNode)
  <2> HIDE DEF ast
  <2> QED
    BY <1>2, <1>6
<1>8. DSL!RuleAST(block) = ast
  BY DEF DSL!RuleAST, then, lines
<1> QED
  BY <1>7, <1>8

\* Parsing yields rules whose nodes are for a condition or an action, and new.
LEMMA ParsedGood ==
    ASSUME NEW source \in Seq(Lines), DSL!Parses(source)
    PROVE  GoodRules(DSL!Parsed(source))
<1> DEFINE B == Block
           blocks == DSL!SplitRuleBlocks(source)
           asts == [b \in DOMAIN blocks |-> DSL!RuleAST(blocks[b])]
           A == Seq(TextNode)
<1>1. blocks \in Seq(B)
  BY BlocksTyped
<1>2. \A b \in DOMAIN blocks : DSL!ParsesBlock(blocks[b])
  BY DEF DSL!Parses
<1>3. DSL!Parsed(source) = asts
  BY DEF DSL!Parsed
<1>4. \A b \in B : DSL!ParsesBlock(b) => DSL!RuleAST(b) \in A
  BY RuleTyped
<1> HIDE DEF blocks, B, A
<1>5. Len(blocks) \in Nat /\ DOMAIN blocks = 1 .. Len(blocks)
      /\ \A b \in DOMAIN blocks : blocks[b] \in B
  BY <1>1
<1>6. asts \in [1 .. Len(blocks) -> A]
  BY <1>2, <1>4, <1>5
<1>7. asts \in Seq(A)
  <2> HIDE DEF asts
  <2> QED
    BY <1>5, <1>6
<1> QED
  BY <1>3, <1>7 DEF GoodRules, A

\* The nodes and edges that rules are compiled into.
LEMMA RulesGraph ==
    ASSUME NEW asts, GoodRules(asts)
    PROVE  /\ DSL!NodesOf(asts) \subseteq TextNode
           /\ DSL!EdgesOf(asts) \subseteq DSL!NodesOf(asts) \X DSL!NodesOf(asts)
<1> DEFINE A == Seq(TextNode)
<1>1. \A i \in DOMAIN asts : asts[i] \in A
  <2> HIDE DEF A
  <2> QED
    BY DEF GoodRules, A
<1>2. \A i \in DOMAIN asts : /\ \A k \in DOMAIN asts[i] : asts[i][k] \in TextNode
                             /\ \A k \in 2 .. Len(asts[i]) :
                                   k \in DOMAIN asts[i] /\ k - 1 \in DOMAIN asts[i]
  <2> SUFFICES ASSUME NEW r \in A
               PROVE  /\ \A k \in DOMAIN r : r[k] \in TextNode
                      /\ \A k \in 2 .. Len(r) : k \in DOMAIN r /\ k - 1 \in DOMAIN r
    BY <1>1
  <2> QED
    OBVIOUS
<1>3. DSL!NodesOf(asts) \subseteq TextNode
  BY <1>2 DEF DSL!NodesOf
<1>4. ASSUME NEW e \in DSL!EdgesOf(asts) PROVE e \in DSL!NodesOf(asts) \X DSL!NodesOf(asts)
  <2>1. PICK i \in DOMAIN asts : e \in {<<asts[i][k - 1], asts[i][k]>> : k \in 2 .. Len(asts[i])}
    BY DEF DSL!EdgesOf
  <2>2. PICK k \in 2 .. Len(asts[i]) : e = <<asts[i][k - 1], asts[i][k]>>
    BY <2>1
  <2>3. k \in DOMAIN asts[i] /\ k - 1 \in DOMAIN asts[i]
    BY <1>2
  <2> QED
    BY <2>2, <2>3 DEF DSL!NodesOf
<1> QED
  BY <1>3, <1>4

-----------------------------------------------------------------------------
(* The stages.                                                             *)

\* What the loop's own proofs know of it.
LoopHeld == LoopInv /\ WrittenSoFar

\* It goes on holding, whatever the loop and its user do.
LEMMA LoopHeldStep == LoopHeld /\ [LoopNext]_allVars => LoopHeld'
<1> SUFFICES ASSUME LoopHeld, [LoopNext]_allVars PROVE LoopHeld'
  OBVIOUS
<1>1. IInv /\ LInv /\ LoopTypeOK /\ FreshLocals /\ WrittenSoFar /\ TypeOK /\ EventsTyped
  BY DEF LoopHeld, LoopInv, IInv, LInv
<1>2. IInv' /\ LInv'
  BY <1>1, LoopStepIsGraphStep, IInvStep, LInvStep
<1>3. CallTyped'
  BY <1>1, CallTypedStep DEF CallTyped, LoopTypeOK
<1>4. DataTyped'
  BY <1>1, DataTypedStep DEF DataTyped, LoopTypeOK
<1>5. LoopTypeOK'
  BY <1>2, <1>3, <1>4 DEF LInv, EventsTyped, Phases, CallTyped, DataTyped, LoopTypeOK
<1>6. FreshLocals'
  BY <1>1, FreshLocalsStep
<1>7. WrittenSoFar'
  BY <1>1, WrittenStep DEF LoopInv
<1> QED
  BY <1>2, <1>5, <1>6, <1>7 DEF LoopHeld, LoopInv

\* A graph in which nothing has happened.
Unrun ==
    /\ history = <<>> /\ wave = {} /\ attempted = {} /\ phase = "idle"
    /\ state = [n \in Node |-> "PENDING"] /\ result = [n \in Node |-> None]

\* Of such a graph the scheduler's invariant holds.
LEMMA UnrunHeld ==
    ASSUME TypeOK', Unrun'
    PROVE  IInv'
<1>1. DOMAIN history' = {}
  BY DEF Unrun
<1> QED
  BY <1>1 DEF Unrun, IInv, DoneRecorded, WaveReady, Unregistered, OutcomeKinds, FreshRuns,
              ContextCurrent, AttemptedSettled, Quiet, FireOnce, HistoryExplainsNodes,
              ConsumersSeeCauses, TypeOK

\* The loop at rest: no call is under way, and nothing is left of an earlier one.
AtRest ==
    /\ pc = "idle" /\ caller = "none"
    /\ executed = <<>> /\ draining = <<>> /\ pending = <<>> /\ written = 0
    /\ meanwhile = NoData

\* What is known of the loop comes down to this between two calls.
LEMMA RestHeld ==
    ASSUME IInv', phase' = "idle", AtRest', EventsTyped', ticks' \in 0 .. TickBound,
           running' \in BOOLEAN, store' \in [Key -> Val \cup {Missing}],
           snap' \in [Key -> Val \cup {Missing}]
    PROVE  LoopHeld'
<1>1. <<>> \in Seq(nodes') /\ <<>> \in Seq(Rule \cup {Garbled}) /\ 0 \in 0 .. Len(<<>>)
  OBVIOUS
<1>2. LInv'
  BY DEF LInv, AtRest, Phases, Callers, StartsEmpty, OnlyRaised
<1>3. LoopTypeOK'
  <2>1. meanwhile' \in [Key -> Val \cup {Missing}]
    BY DEF AtRest, NoData
  <2> QED
    BY <1>1, <2>1 DEF LoopTypeOK, AtRest, EventsTyped
<1>4. FreshLocals' /\ WrittenSoFar'
  <2>1. meanwhile' = NoData /\ NoData' = NoData
    BY DEF AtRest, NoData
  <2> QED
    BY <2>1 DEF FreshLocals, WrittenSoFar, AtRest
<1> QED
  BY <1>2, <1>3, <1>4 DEF LoopHeld, LoopInv

\* start() is called, with a store and a bus that are given.
LEMMA CallHeld ==
    ASSUME LoopHeld, AtRest, IInv', phase' = "idle",
           UNCHANGED <<snap, executed, written, pending, meanwhile>>,
           pc' = "loop", caller' = "start", running' = TRUE, EventsTyped',
           ticks' \in 0 .. TickBound, store' \in [Key -> Val \cup {Missing}]
    PROVE  LoopHeld'
<1>2. <<>> \in Seq(nodes') /\ <<>> \in Seq(Rule \cup {Garbled}) /\ 0 \in 0 .. Len(<<>>)
  OBVIOUS
<1>3. snap \in [Key -> Val \cup {Missing}]
  BY DEF LoopHeld, LoopInv, LoopTypeOK
<1>4. LInv'
  BY DEF LInv, Phases, Callers, StartsEmpty, OnlyRaised, AtRest
<1>5. LoopTypeOK'
  <2>1. meanwhile' \in [Key -> Val \cup {Missing}]
    BY DEF AtRest, NoData
  <2> QED
    BY <1>2, <1>3, <2>1 DEF LoopTypeOK, EventsTyped, AtRest
<1>6. FreshLocals' /\ WrittenSoFar'
  <2>1. meanwhile' = NoData /\ NoData' = NoData
    BY DEF AtRest, NoData
  <2> QED
    BY <2>1 DEF FreshLocals, WrittenSoFar, AtRest
<1> QED
  BY <1>4, <1>5, <1>6 DEF LoopHeld, LoopInv

\* Of the calls of the loop, where the runs can be.
CallInv ==
    stage \in {"run", "replay"} =>
        /\ pc \notin {"build", "hotload"} /\ ticks <= MaxTicks /\ meanwhile = NoData
        /\ pc = "idle" => AtRest
        /\ pc # "idle" => caller = "start" /\ running
        /\ pc \notin {"loop", "idle"} => ticks > 0

\* Events wait only in the first tick, and nobody has heard one by then.
QueueInv ==
    stage \in {"run", "replay"} =>
        /\ ~late /\ queue # <<>> =>
              /\ \/ pc \in {"loop", "idle"} /\ ticks = 0
                 \/ pc = "drain" /\ ticks = 1
              /\ \A n \in EventNode : ~triggered[n]
        /\ ~late /\ draining # <<>> =>
              /\ pc \in {"publish", "subscribers"} /\ ticks = 1
              /\ \A n \in EventNode : ~triggered[n]
        /\ stage = "replay" => queue = <<>> /\ draining = <<>>
        /\ draining # <<>> => pc \in {"publish", "subscribers"}

\* What the steps of graph.tick() leave alone.
LEMMA GraphStepLeaves ==
    ASSUME GraphStep
    PROVE  /\ UNCHANGED <<nodes, edges, triggered, eventValue, callVars, eventLists, store, snap,
                          meanwhile>>
           /\ pc = "graph" /\ pc' \in {"graph", "write"}
<1> USE DEF loopVars, callVars, eventLists, locals, graphVars, eventVars, vars
<1>1. CASE GraphWave
  BY <1>1 DEF GraphWave, NextWave
<1>2. ASSUME NEW n \in EventNode, RunEvent(n)
      PROVE  /\ UNCHANGED <<nodes, edges, triggered, eventValue, callVars, eventLists, store, snap,
                          meanwhile>>
             /\ pc = "graph" /\ pc' \in {"graph", "write"}
  BY <1>2 DEF RunEvent, FireEvent, Return, Attempt, Executed
<1>3. ASSUME NEW n \in ConditionNode, RunCondition(n)
      PROVE  /\ UNCHANGED <<nodes, edges, triggered, eventValue, callVars, eventLists, store, snap,
                          meanwhile>>
             /\ pc = "graph" /\ pc' \in {"graph", "write"}
  BY <1>3 DEF RunCondition, FireCondition, Return, Attempt, Executed
<1>4. ASSUME NEW n \in ActionNode, RunAction(n) \/ RunRaises(n)
      PROVE  /\ UNCHANGED <<nodes, edges, triggered, eventValue, callVars, eventLists, store, snap,
                          meanwhile>>
             /\ pc = "graph" /\ pc' \in {"graph", "write"}
  BY <1>4 DEF RunAction, RunRaises, FireAction, FailAction, Return, Raise, Attempt, Executed
<1>5. CASE GraphDone
  BY <1>5 DEF GraphDone, EndTick
<1> QED
  BY <1>1, <1>2, <1>3, <1>4, <1>5 DEF GraphStep

\* Nothing raises in a run.
RunCase ==
    \/ LoopAgain \/ LoopExit \/ DrainLayers \/ PublishNext \/ SubscribersReturn
    \/ \E n \in EventNode : SyncEventNode(n)
    \/ BeginGraphTick \/ GraphStep \/ WriteNext \/ WriteDone
    \/ CompileNode \/ CompileEdge \/ CompileDone \/ InjectDone \/ NextTick \/ Break

\* The steps of a run.
LEMMA RunCases ==
    ASSUME RunStep, CallInv
    PROVE  RunCase /\ LoopNext /\ UNCHANGED replayVars
<1>1. stage \in {"run", "replay"} /\ LoopStep /\ UNCHANGED replayVars /\ (pc' = "idle" => ~running')
  BY DEF RunStep
<1>2. ~SubscriberRaises /\ ~RuleRefused /\ ~CallbackRaises
  BY <1>1 DEF SubscriberRaises, RuleRefused, CallbackRaises, Abort, CallInv, Injecting
<1>3. ~OnceReturns
  BY <1>1 DEF OnceReturns, CallInv
<1> QED
  BY <1>1, <1>2, <1>3 DEF LoopStep, RunCase, LoopNext

\* A run stays within one call of start().
LEMMA CallStep ==
    ASSUME LoopHeld, CallInv, RunStep
    PROVE  CallInv'
<1>1. RunCase /\ UNCHANGED replayVars /\ stage \in {"run", "replay"}
  BY RunCases DEF RunStep
<1>2. ticks \in Nat /\ MaxTicks \in Nat /\ running \in BOOLEAN
  BY LoopBounds DEF LoopHeld, LoopInv, LoopTypeOK
<1>3. stage' = stage
  BY <1>1 DEF replayVars
<1> USE DEF CallInv, vars, loopVars, callVars, eventLists, locals, ForgetLocals, AtRest
<1>4. CASE LoopAgain
  BY <1>1, <1>2, <1>3, <1>4 DEF LoopAgain
<1>5. CASE LoopExit \/ NextTick \/ Break
  BY <1>1, <1>2, <1>3, <1>5 DEF LoopExit, NextTick, Break, Leave
<1>6. CASE DrainLayers \/ PublishNext \/ SubscribersReturn
  BY <1>1, <1>2, <1>3, <1>6 DEF DrainLayers, PublishNext, SubscribersReturn
<1>7. CASE BeginGraphTick \/ \E n \in EventNode : SyncEventNode(n)
  BY <1>1, <1>2, <1>3, <1>7 DEF SyncEventNode, BeginGraphTick
<1>8. CASE GraphStep
  BY <1>1, <1>2, <1>3, <1>8, GraphStepLeaves
<1>9. CASE WriteNext \/ WriteDone
  BY <1>1, <1>2, <1>3, <1>9 DEF WriteNext, WriteDone
<1>10. CASE CompileNode \/ CompileEdge \/ CompileDone \/ InjectDone
  BY <1>1, <1>2, <1>3, <1>10
     DEF CompileNode, CompileEdge, CompileDone, InjectDone, Injecting
<1> QED
  BY <1>1, <1>4, <1>5, <1>6, <1>7, <1>8, <1>9, <1>10 DEF RunCase

\* Events leave the queue and the layers in the first tick.
LEMMA QueueStep ==
    ASSUME LoopHeld, CallInv, QueueInv, RunStep
    PROVE  QueueInv'
<1>1. RunCase /\ UNCHANGED replayVars /\ stage \in {"run", "replay"}
  BY RunCases DEF RunStep
<1>2. ticks \in Nat
  BY LoopBounds DEF LoopHeld, LoopInv, LoopTypeOK
<1>3. stage' = stage /\ late' = late
  BY <1>1 DEF replayVars
<1> USE DEF QueueInv, vars, loopVars, callVars, eventLists, locals, ForgetLocals,
            eventVars
<1>4. CASE LoopAgain
  BY <1>1, <1>2, <1>3, <1>4 DEF LoopAgain
<1>5. CASE LoopExit \/ NextTick \/ Break
  BY <1>1, <1>2, <1>3, <1>5 DEF LoopExit, NextTick, Break, Leave
<1>6. CASE DrainLayers \/ SubscribersReturn
  BY <1>1, <1>2, <1>3, <1>6 DEF DrainLayers, SubscribersReturn
<1>11. CASE PublishNext
  BY <1>1, <1>2, <1>3, <1>11 DEF PublishNext
<1>12. ASSUME NEW n \in EventNode, SyncEventNode(n) PROVE QueueInv'
  BY <1>1, <1>2, <1>3, <1>12 DEF SyncEventNode
<1>7. CASE BeginGraphTick
  BY <1>1, <1>2, <1>3, <1>7 DEF BeginGraphTick, BeginTick
<1>8. CASE GraphStep
  BY <1>1, <1>2, <1>3, <1>8, GraphStepLeaves
<1>9. CASE WriteNext \/ WriteDone
  BY <1>1, <1>2, <1>3, <1>9 DEF WriteNext, WriteDone
<1>10. CASE CompileNode \/ CompileEdge
  BY <1>1, <1>2, <1>3, <1>10 DEF CompileNode, CompileEdge, AddNode, AddEdge
<1>13. CASE CompileDone \/ InjectDone
  BY <1>1, <1>2, <1>3, <1>13 DEF CompileDone, InjectDone
<1> QED
  BY <1>1, <1>4, <1>5, <1>6, <1>7, <1>8, <1>9, <1>10, <1>11, <1>12, <1>13 DEF RunCase

\* Before the run the graph is as it was compiled.
ReadyInv ==
    stage = "ready" =>
        /\ AtRest /\ Unrun /\ triggered = [n \in EventNode |-> FALSE]
        /\ ticks = 0 /\ ~late
        /\ nodes \cap EmittedNodes = {}
        /\ ~base => nodes = DSL!NodesOf(rules) /\ edges = DSL!EdgesOf(rules)

\* While the text is written nothing else has happened.
WriteInv ==
    stage = "write" => LoopInit /\ ~late /\ base = FALSE /\ text \in Seq(Lines)

\* A graph of rules has no event nodes.
TextInv == stage \in {"ready", "run"} /\ ~base => nodes \cap EventNode = {}

\* What is known of each stage.
StageInv ==
    /\ stage \in {"write", "raised", "ready", "run", "replay"}
    /\ stage # "raised" => LoopHeld /\ GoodRules(rules) /\ initial \in [Key -> Val \cup {Missing}]
    /\ WriteInv /\ ReadyInv /\ CallInv /\ QueueInv /\ TextInv

\* A run adds to the graph only nodes of the rules that it emits.
LEMMA NodesStep ==
    ASSUME LoopHeld, CallInv, RunStep
    PROVE  /\ nodes' \cap EventNode = nodes \cap EventNode
           /\ nodes' \subseteq nodes \cup EmittedNodes
<1>1. RunCase
  BY RunCases
<1>2. CASE CompileNode
  <2>1. PICK i \in DOMAIN RuleNodes[Head(pending)] :
           nodes' = nodes \cup {RuleNodes[Head(pending)][i]} /\ Head(pending) \in Rule
    BY <1>2 DEF CompileNode, AddNode
  <2>2. RuleNodes[Head(pending)][i] \in EmittedNodes
    BY <2>1 DEF EmittedNodes, NodesOfRule
  <2> QED
    BY <2>1, <2>2, ReplayConstants
<1>3. CASE ~CompileNode
  <2>1. nodes' = nodes
    <3> USE DEF vars, graphVars, loopVars
    <3>1. CASE GraphStep
      BY <3>1, GraphStepLeaves
    <3>2. CASE ~GraphStep
      BY <1>1, <1>3, <3>2
         DEF RunCase, LoopAgain, LoopExit, NextTick, Break, Leave, DrainLayers, PublishNext,
             SubscribersReturn, SyncEventNode, Trigger, BeginGraphTick, BeginTick, WriteNext,
             WriteDone, CompileEdge, AddEdge, CompileDone, InjectDone
    <3> QED
      BY <3>1, <3>2
  <2> QED
    BY <2>1
<1> QED
  BY <1>2, <1>3

\* A graph of rules, with the client's own nodes or without.
LEMMA GraphCompiled ==
    ASSUME NEW asts, GoodRules(asts), NEW withOwn \in BOOLEAN, GraphOf(withOwn, asts)
    PROVE  /\ nodes' \subseteq Node /\ edges' \subseteq nodes' \X nodes'
           /\ nodes' \cap EmittedNodes = {}
           /\ ~withOwn => /\ nodes' = DSL!NodesOf(asts) /\ edges' = DSL!EdgesOf(asts)
                          /\ nodes' \cap EventNode = {}
<1>1. /\ DSL!NodesOf(asts) \subseteq TextNode
      /\ DSL!EdgesOf(asts) \subseteq DSL!NodesOf(asts) \X DSL!NodesOf(asts)
  BY RulesGraph
<1>2. Built \subseteq Node /\ BuildEdges \subseteq Built \X Built /\ EmittedNodes \cap Built = {}
  BY LoopConstants, ReplayConstants, NodesAreNew DEF Built
<1>3. TextNode \subseteq Node /\ TextNode \cap EmittedNodes = {} /\ TextNode \cap EventNode = {}
  BY NodeKinds DEF TextNode, Node
<1>4. /\ nodes' = DSL!NodesOf(asts) \cup IF withOwn THEN Built ELSE {}
      /\ edges' = DSL!EdgesOf(asts) \cup IF withOwn THEN BuildEdges ELSE {}
  BY DEF GraphOf
<1>5. CASE withOwn
  BY <1>1, <1>2, <1>3, <1>4, <1>5
<1>6. CASE ~withOwn
  BY <1>1, <1>3, <1>4, <1>6
<1> QED
  BY <1>5, <1>6

\* Compiling a text, alone or into a graph of the client's.
LEMMA CompiledStage ==
    ASSUME StageInv, stage = "write", NEW withOwn \in BOOLEAN, GraphOf(withOwn, rules'),
           GoodRules(rules'), pc' = "idle", stage' = "ready", base' = withOwn,
           UNCHANGED <<state, result, eventVars, history, tickVars, callVars, eventLists, store,
                       locals, initial, late>>
    PROVE  StageInv'
<1> USE DEF eventVars, tickVars, callVars, eventLists, locals
<1>1. LoopInit /\ ~late /\ LoopHeld /\ initial \in [Key -> Val \cup {Missing}]
  BY DEF StageInv, WriteInv
<1>2. /\ nodes' \subseteq Node /\ edges' \subseteq nodes' \X nodes'
      /\ nodes' \cap EmittedNodes = {}
      /\ ~withOwn => /\ nodes' = DSL!NodesOf(rules') /\ edges' = DSL!EdgesOf(rules')
                     /\ nodes' \cap EventNode = {}
  BY GraphCompiled
<1>3. Unrun' /\ AtRest' /\ triggered' = [n \in EventNode |-> FALSE] /\ ticks' = 0 /\ ~late'
  BY <1>1 DEF LoopInit, Init, Unrun, AtRest
<1>4. TypeOK'
  <2>1. TypeOK
    BY <1>1 DEF LoopHeld, LoopInv, IInv
  <2> QED
    BY <1>2, <1>3, <2>1 DEF TypeOK, Unrun
<1>5. IInv'
  BY <1>3, <1>4, UnrunHeld
<1>6. LoopHeld'
  <2>1. EventsTyped' /\ ticks' \in 0 .. TickBound /\ running' \in BOOLEAN
        /\ store' \in [Key -> Val \cup {Missing}] /\ snap' \in [Key -> Val \cup {Missing}]
    BY <1>1 DEF LoopHeld, LoopInv, LoopTypeOK, EventsTyped
  <2>2. phase' = "idle"
    BY <1>3 DEF Unrun
  <2> QED
    BY <1>3, <1>5, <2>1, <2>2, RestHeld
<1>7. ReadyInv'
  BY <1>2, <1>3 DEF ReadyInv
<1> QED
  BY <1>1, <1>2, <1>6, <1>7 DEF StageInv, WriteInv, CallInv, QueueInv, TextInv

\* The second run begins as the first one has.
LEMMA RunAgainHeld ==
    ASSUME StageInv, stage = "run", pc = "idle", IInv', phase' = "idle", RunAgain(initial, bus),
           stage' = "replay", UNCHANGED <<rules, initial>>
    PROVE  StageInv'
<1>1. LoopHeld /\ AtRest /\ GoodRules(rules) /\ initial \in [Key -> Val \cup {Missing}]
  BY DEF StageInv, CallInv
<1>2. EventsTyped' /\ ticks' \in 0 .. TickBound
  BY <1>1, LoopBounds DEF LoopHeld, LoopInv, LoopTypeOK, EventsTyped, RunAgain
<1>3. LoopHeld'
  BY <1>1, <1>2, CallHeld DEF RunAgain, locals
<1>4. CallInv' /\ QueueInv'
  BY <1>1, <1>2, LoopBounds DEF RunAgain, CallInv, QueueInv, AtRest, NoData, locals
<1> QED
  BY <1>1, <1>3, <1>4 DEF StageInv, WriteInv, ReadyInv, TextInv

\* Events from outside leave the stages as they are.
LEMMA OutsideStep ==
    ASSUME StageInv, EarlyEvent \/ LateEvent
    PROVE  StageInv'
<1>1. PICK ev \in Event : InjectEvent(ev) \/ Publish(ev)
  BY DEF EarlyEvent, LateEvent, EventFromOutside
<1>2. /\ stage \in {"ready", "run"} /\ LoopHeld /\ GoodRules(rules)
      /\ initial \in [Key -> Val \cup {Missing}]
  BY DEF EarlyEvent, LateEvent, StageInv
<1>3. LoopHeld'
  BY <1>1, <1>2, LoopHeldStep DEF LoopNext, UserStep
<1>4. /\ UNCHANGED <<vars, pc, callVars, draining, locals>>
      /\ UNCHANGED <<stage, rules, base, initial>>
      /\ stage = "ready" => late' = late
      /\ stage = "run" => late' = TRUE /\ pc = "callbacks"
  BY <1>1 DEF EarlyEvent, LateEvent, InjectEvent, Publish, replayVars
<1> USE DEF callVars, locals, vars
<1>5. ReadyInv'
  BY <1>4 DEF StageInv, ReadyInv, AtRest, Unrun
<1>6. CallInv'
  BY <1>2, <1>4 DEF StageInv, CallInv, AtRest
<1>7. QueueInv'
  BY <1>2, <1>4 DEF StageInv, QueueInv
<1> QED
  BY <1>2, <1>3, <1>4, <1>5, <1>6, <1>7 DEF StageInv, WriteInv, TextInv

\* What is known of each stage goes on holding.
LEMMA StageStep ==
    ASSUME StageInv, [ReplayNext]_everything
    PROVE  StageInv'
<1>1. CASE UNCHANGED everything
  <2>1. LoopHeld => LoopHeld'
    BY <1>1, LoopHeldStep DEF everything
  <2>2. LoopInit => LoopInit'
    BY <1>1 DEF everything, allVars, vars, loopVars, callVars, eventLists, locals, LoopInit, Init
  <2>3. ReadyInv' /\ CallInv' /\ QueueInv' /\ TextInv'
    BY <1>1 DEF everything, allVars, vars, loopVars, callVars, eventLists, locals, replayVars,
                StageInv, ReadyInv, CallInv, QueueInv, TextInv, AtRest, Unrun
  <2> QED
    BY <1>1, <2>1, <2>2, <2>3 DEF StageInv, WriteInv, everything, replayVars
<1>2. ASSUME NEW line \in Lines, WriteLine(line) PROVE StageInv'
  <2>1. LoopHeld => LoopHeld'
    BY <1>2, LoopHeldStep DEF WriteLine
  <2>2. LoopInit => LoopInit'
    BY <1>2 DEF WriteLine, allVars, vars, loopVars, callVars, eventLists, locals, LoopInit, Init
  <2>3. text \in Seq(Lines) => text' \in Seq(Lines)
    BY <1>2 DEF WriteLine
  <2> QED
    BY <1>2, <2>1, <2>2, <2>3
       DEF StageInv, WriteInv, WriteLine, ReadyInv, CallInv, QueueInv, TextInv
<1>3. CASE Compile
  <2>1. GoodRules(rules')
    BY <1>3, ParsedGood DEF Compile, StageInv, WriteInv
  <2>2. base' = FALSE
    BY <1>3 DEF Compile, StageInv, WriteInv
  <2> QED
    BY <1>3, <2>1, <2>2, CompiledStage DEF Compile
<1>4. ASSUME NEW withOwn \in BOOLEAN, InjectText(withOwn) PROVE StageInv'
  <2>1. CASE stage' = "ready"
    <3>1. DSL!Parses(text) /\ DSL!Compiles(rules') /\ rules' = DSL!Parsed(text)
      BY <1>4, <2>1 DEF InjectText
    <3>2. GoodRules(rules')
      BY <1>4, <3>1, ParsedGood DEF InjectText, StageInv, WriteInv
    <3>3. GraphOf(withOwn, rules')
      BY <1>4, <3>1 DEF InjectText, DSL!Compiles
    <3> QED
      BY <1>4, <2>1, <3>2, <3>3, CompiledStage DEF InjectText
  <2>2. CASE stage' = "raised"
    BY <2>2 DEF StageInv, WriteInv, ReadyInv, CallInv, QueueInv, TextInv
  <2> QED
    BY <1>4, <2>1, <2>2 DEF InjectText
<1>5. CASE EarlyEvent \/ LateEvent
  BY <1>5, OutsideStep
<1>6. ASSUME NEW snapshot \in Snapshots, FirstStart(snapshot) PROVE StageInv'
  <2>1. /\ LoopHeld /\ AtRest /\ Unrun /\ triggered = [n \in EventNode |-> FALSE]
        /\ ticks = 0 /\ ~late /\ (~base => nodes \cap EventNode = {}) /\ GoodRules(rules)
    BY <1>6 DEF FirstStart, StageInv, ReadyInv, TextInv
  <2>2. store' \in [Key -> Val \cup {Missing}] /\ initial' \in [Key -> Val \cup {Missing}]
    BY <1>6, ReplayConstants DEF FirstStart
  <2>3. EventsTyped' /\ ticks' \in 0 .. TickBound /\ IInv' /\ phase' = "idle"
    <3>1. IInv'
      <4>1. [Next]_vars
        BY <1>6 DEF FirstStart
      <4> QED
        BY <2>1, <4>1, IInvStep DEF LoopHeld, LoopInv
    <3> QED
      BY <1>6, <2>1, <3>1
         DEF FirstStart, LoopHeld, LoopInv, LoopTypeOK, EventsTyped, eventLists, vars, Unrun
  <2>4. LoopHeld'
    BY <1>6, <2>1, <2>2, <2>3, CallHeld DEF FirstStart, locals
  <2>6. CallInv'
    BY <1>6, <2>1, LoopBounds DEF FirstStart, CallInv, AtRest, NoData, locals
  <2>7. QueueInv'
    BY <1>6, <2>1 DEF FirstStart, QueueInv, vars, eventLists, AtRest
  <2>8. TextInv'
    BY <1>6, <2>1 DEF FirstStart, TextInv, vars
  <2>5. CallInv' /\ QueueInv' /\ TextInv'
    BY <2>6, <2>7, <2>8
  <2> QED
    BY <1>6, <2>1, <2>2, <2>4, <2>5 DEF FirstStart, StageInv, WriteInv, ReadyInv
<1>7. CASE RunStep
  <2>1. LoopHeld /\ CallInv /\ QueueInv /\ TextInv /\ stage \in {"run", "replay"}
    BY <1>7 DEF StageInv, RunStep
  <2>2. LoopNext /\ UNCHANGED replayVars
    BY <1>7, <2>1, RunCases
  <2>3. LoopHeld' /\ CallInv' /\ QueueInv'
    BY <1>7, <2>1, <2>2, LoopHeldStep, CallStep, QueueStep
  <2>4. TextInv'
    BY <1>7, <2>1, <2>2, NodesStep DEF TextInv, replayVars
  <2> QED
    BY <2>1, <2>2, <2>3, <2>4 DEF StageInv, WriteInv, ReadyInv, replayVars
<1>8. CASE Replay
  <2>1. stage = "run" /\ pc = "idle" /\ LoopHeld /\ GoodRules(rules) /\ CallInv
    BY <1>8 DEF Replay, Ended, StageInv
  <2>2. /\ nodes' \subseteq Node /\ edges' \subseteq nodes' \X nodes'
    BY <1>8, <2>1, GraphCompiled DEF Replay
  <2>3. TypeOK /\ Quiet /\ phase = "idle"
    <3>1. TypeOK /\ Quiet /\ Phases
      BY <2>1 DEF LoopHeld, LoopInv, IInv, LInv
    <3> QED
      BY <2>1, <3>1 DEF TypeOK, Phases
  <2>4. Unrun'
    BY <1>8, <2>3 DEF Replay, Unrun, tickVars, Quiet
  <2>5. TypeOK'
    BY <1>8, <2>2, <2>3, <2>4 DEF Replay, TypeOK, Unrun, tickVars, Result
  <2>6. IInv' /\ phase' = "idle"
    BY <2>4, <2>5, UnrunHeld DEF Unrun
  <2> QED
    BY <1>8, <2>1, <2>6, RunAgainHeld DEF Replay
<1>9. CASE ReplayGraph
  <2>1. stage = "run" /\ pc = "idle" /\ LoopHeld
    BY <1>9 DEF ReplayGraph, Ended, StageInv
  <2>2. IInv'
    <3>1. [Next]_vars
      BY <1>9 DEF ReplayGraph, Next, Edit
    <3> QED
      BY <2>1, <3>1, IInvStep DEF LoopHeld, LoopInv
  <2>3. phase' = "idle"
    BY <1>9 DEF ReplayGraph, Reset, tickVars
  <2> QED
    BY <1>9, <2>1, <2>2, <2>3, RunAgainHeld DEF ReplayGraph
<1> QED
  BY <1>1, <1>2, <1>3, <1>4, <1>5, <1>6, <1>7, <1>8, <1>9 DEF ReplayNext

-----------------------------------------------------------------------------
(* The ticks of a run.                                                     *)

\* The ticks whose results are in the store and in the rules to be compiled.
Over == IF pc \in {"drain", "publish", "subscribers", "graph", "write"} THEN ticks - 1 ELSE ticks

\* The rules emitted in the tick between moments s and u are being compiled.
Waiting == {r \in Rule : IsIn(r, pending)}

BeingInjected(in, s, u) ==
    /\ Same(u) /\ s.rules \subseteq u.rules /\ Waiting \subseteq u.rules
    /\ GraphNodes(in, s.rules \cup (u.rules \ Waiting)) \subseteq nodes
    /\ GraphEdges(in, s.rules \cup (u.rules \ Waiting)) \subseteq edges
    /\ nodes \subseteq GraphNodes(in, u.rules) /\ edges \subseteq GraphEdges(in, u.rules)

\* Where the run is.
Here(in, tr) ==
    /\ pc \notin {"graph", "write", "inject"} => GraphIs(in, tr[Over]) /\ Same(tr[Over])
    /\ pc = "graph" => InGraph(in, tr[Over]) /\ PredsDone
    /\ pc = "write" => InWrite(in, tr[Over])
    /\ pc = "inject" => BeingInjected(in, tr[ticks - 1], tr[ticks])

\* What is decided about going on.
Going(in, tr) ==
    /\ \A i \in 1 .. ticks - 1 : ~Still(in, tr[i - 1])
    /\ pc \in {"inject", "callbacks"} => (executed = <<>> <=> Still(in, tr[ticks - 1]))
    /\ pc = "loop" /\ ticks > 0 => ~Still(in, tr[ticks - 1])
    /\ pc = "idle" => ticks = MaxTicks \/ (ticks > 0 /\ Still(in, tr[ticks - 1]))

\* The moments of a run, m ticks long so far, that starts from this snapshot.
Trace(in, tr, snapshot, m) ==
    /\ tr[0] = Beginning(snapshot)
    /\ \A i \in 1 .. m : Ticks(in, tr[i - 1], tr[i])
    /\ \A i \in 0 .. m : Moment(in, tr[i])

\* tr tells of the run up to now.
RunInv(in, tr) ==
    /\ in = Given(in.nodes, in.edges) /\ GoodGraph(in)
    /\ Trace(in, tr, initial, Over) /\ Here(in, tr) /\ Going(in, tr)
    /\ EventInv

\* What the steps below are about.
Running == StageInv /\ Settled /\ stage \in {"run", "replay"}

\* What the steps of a run can count on.
LEMMA RunningFacts ==
    ASSUME Running
    PROVE  /\ LoopHeld /\ LoopInv /\ IInv /\ TypeOK /\ CallInv /\ QueueInv
           /\ ticks \in Nat /\ ticks <= MaxTicks /\ MaxTicks \in Nat
           /\ pc \notin {"loop", "idle"} => ticks > 0
           /\ Over \in Nat
<1>1. LoopHeld /\ LoopInv /\ IInv /\ TypeOK /\ CallInv /\ QueueInv
  BY DEF Running, StageInv, LoopHeld, LoopInv, IInv
<1>2. ticks \in Nat /\ MaxTicks \in Nat
  BY <1>1, LoopBounds DEF LoopInv, LoopTypeOK
<1> QED
  BY <1>1, <1>2 DEF CallInv, Running, Over

\* Steps that only go from one part of the loop to the next.
LEMMA MovesOn ==
    ASSUME Running, NEW in, NEW tr, RunInv(in, tr), initial' = initial, UNCHANGED how,
           LoopAgain \/ LoopExit \/ DrainLayers \/ SubscribersReturn \/ NextTick \/ Break
    PROVE  RunInv(in, tr)'
<1> USE DEF vars, callVars, eventLists, locals, ForgetLocals
<1>1. UNCHANGED <<nodes, edges, state, result, history, triggered, eventValue, store, bus>>
  BY DEF LoopAgain, LoopExit, DrainLayers, SubscribersReturn, NextTick, Break, Leave
<1>2. /\ pc \in {"loop", "drain", "subscribers", "callbacks"}
      /\ pc' \in {"loop", "drain", "publish", "idle"} /\ Over' = Over
  BY RunningFacts
     DEF LoopAgain, LoopExit, DrainLayers, SubscribersReturn, NextTick, Break, Leave, Over
<1>3. in = Given(in.nodes, in.edges)'
  BY <1>1 DEF RunInv, Given, Bound
<1>4. Trace(in, tr, initial, Over)'
  BY <1>2 DEF RunInv, Trace
<1>5. GraphIs(in, tr[Over])' /\ Same(tr[Over])'
  BY <1>1, <1>2 DEF RunInv, Here, GraphIs, Same
<1>6. EventInv'
  BY <1>1 DEF RunInv, EventInv
<1>7. Going(in, tr)'
  <2>0. Going(in, tr) /\ ticks \in Nat /\ (pc \notin {"loop", "idle"} => ticks > 0)
    BY RunningFacts DEF RunInv
  <2>1. CASE LoopAgain
    <3>1. pc = "loop" /\ pc' = "drain" /\ ticks' = ticks + 1
      BY <2>1 DEF LoopAgain
    <3>2. ASSUME NEW i \in 1 .. ticks PROVE ~Still(in, tr[i - 1])
      <4>1. CASE i = ticks
        BY <2>0, <3>1, <4>1 DEF Going
      <4>2. CASE i # ticks
        <5>1. i \in 1 .. ticks - 1
          BY <2>0, <4>2
        <5> QED
          BY <2>0, <5>1 DEF Going
      <4> QED
        BY <4>1, <4>2
    <3>3. ticks' - 1 = ticks
      BY <2>0, <3>1
    <3> QED
      BY <3>1, <3>2, <3>3 DEF Going
  <2>2. CASE LoopExit
    <3>1. pc = "loop" /\ pc' = "idle" /\ ticks' = ticks /\ ticks = MaxTicks
      BY <2>2, RunningFacts DEF LoopExit, Leave, CallInv, Running
    <3> QED
      BY <2>0, <3>1 DEF Going
  <2>3. CASE DrainLayers \/ SubscribersReturn
    <3>1. pc' = "publish" /\ ticks' = ticks
      BY <2>3 DEF DrainLayers, SubscribersReturn
    <3> QED
      BY <2>0, <3>1 DEF Going
  <2>4. CASE NextTick
    <3>1. pc' = "loop" /\ ticks' = ticks /\ pc = "callbacks" /\ executed # <<>>
      BY <2>4 DEF NextTick
    <3> QED
      BY <2>0, <3>1 DEF Going
  <2>5. CASE Break
    <3>1. pc' = "idle" /\ ticks' = ticks /\ pc = "callbacks" /\ executed = <<>>
      BY <2>5 DEF Break, Leave
    <3> QED
      BY <2>0, <3>1 DEF Going
  <2> QED
    BY <2>1, <2>2, <2>3, <2>4, <2>5
<1>8. Here(in, tr)'
  BY <1>2, <1>5 DEF Here
<1> QED
  BY <1>3, <1>4, <1>6, <1>7, <1>8 DEF RunInv

\* Where nobody waits for events, another bus makes no difference.
LEMMA BusIrrelevant ==
    ASSUME NEW in, NEW jn, GoodGraph(in), jn.nodes = in.nodes, jn.edges = in.edges,
           jn.bound = in.bound, in.nodes \cap EventNode = {}, NEW R, R \subseteq Rule
    PROVE  Agree(in, jn, GraphNodes(in, R))
<1>1. GraphNodes(in, R) \cap EventNode = {}
  <2>1. \A r \in R : NodesOfRule(r) \subseteq EmittedNodes
    BY RuleGraph
  <2> QED
    BY <2>1, ReplayConstants DEF GraphNodes
<1> QED
  BY <1>1 DEF Agree

\* What depends on the graph alone.
LEMMA SameGraph ==
    ASSUME NEW in, NEW jn, jn.nodes = in.nodes, jn.edges = in.edges
    PROVE  /\ \A R : GraphNodes(in, R) = GraphNodes(jn, R) /\ GraphEdges(in, R) = GraphEdges(jn, R)
           /\ GoodGraph(in) => GoodGraph(jn)
           /\ \A s : Moment(in, s) => Moment(jn, s)
           /\ \A s : GraphIs(in, s) => GraphIs(jn, s)
<1>1. \A R : GraphNodes(in, R) = GraphNodes(jn, R) /\ GraphEdges(in, R) = GraphEdges(jn, R)
  BY DEF GraphNodes, GraphEdges
<1>2. GoodGraph(in) => GoodGraph(jn)
  BY DEF GoodGraph
<1>3. \A s : Moment(in, s) => Moment(jn, s)
  BY <1>1 DEF Moment
<1>4. \A s : GraphIs(in, s) => GraphIs(jn, s)
  BY <1>1 DEF GraphIs
<1> QED
  BY <1>1, <1>2, <1>3, <1>4

\* The trace of a run is that of the run on another bus, if it has not begun or
\* nobody waits for events.
LEMMA BusChanges ==
    ASSUME Running, NEW in, NEW tr, RunInv(in, tr), initial' = initial, UNCHANGED how,
           UNCHANGED <<nodes, edges, state, result, history, triggered, eventValue, store,
                       ticks, executed>>,
           pc' = pc \/ (pc \in {"publish", "subscribers"} /\ pc' \in {"publish", "subscribers"}),
           pc \in {"publish", "callbacks"},
           \/ nodes \cap EventNode = {}
           \/ Over = 0 /\ pc = "publish" /\ \A n \in EventNode : ~triggered[n]
    PROVE  \E jn : RunInv(jn, tr)' /\ jn.nodes = in.nodes /\ jn.edges = in.edges
<1>0. PICK jn : jn = [nodes |-> in.nodes, edges |-> in.edges, bound |-> in.bound, bus |-> bus']
  OBVIOUS
<1>1. /\ in = Given(in.nodes, in.edges) /\ GoodGraph(in) /\ Trace(in, tr, initial, Over)
      /\ Going(in, tr) /\ EventInv /\ GraphIs(in, tr[Over]) /\ Same(tr[Over])
  BY DEF RunInv, Here
<1>2. in.bound = Bound /\ Over' = Over
  BY <1>1 DEF Given, Over
<1>3. /\ jn.nodes = in.nodes /\ jn.edges = in.edges /\ jn.bound = in.bound
      /\ jn = Given(jn.nodes, jn.edges)'
  BY <1>0, <1>2 DEF Given, Bound
<1>4. GoodGraph(jn) /\ GraphIs(jn, tr[Over]) /\ \A s : Moment(in, s) => Moment(jn, s)
  BY <1>1, <1>3, SameGraph
<1>5. Over \in Nat /\ ticks \in Nat /\ (pc = "publish" => ticks - 1 = Over)
      /\ (pc = "callbacks" => ticks = Over)
      /\ (pc = "callbacks" => ticks > 0)
  BY RunningFacts DEF Over
<1>6. \A i \in 0 .. Over : Moment(in, tr[i])
  BY <1>1 DEF Trace
<1>7. CASE nodes \cap EventNode = {}
  <2>1. in.nodes \cap EventNode = {}
    BY <1>1, <1>7 DEF GraphIs, GraphNodes
  <2>2. ASSUME NEW i \in 0 .. Over PROVE Agree(in, jn, GraphNodes(in, tr[i].rules))
    <3>1. tr[i].rules \subseteq Rule
      BY <1>6 DEF Moment
    <3> QED
      BY <1>1, <1>3, <2>1, <3>1, BusIrrelevant
  <2>3. ASSUME NEW i \in 0 .. Over
        PROVE  /\ Still(in, tr[i]) <=> Still(jn, tr[i])
               /\ \A u : Ticks(in, tr[i], u) <=> Ticks(jn, tr[i], u)
    BY <2>2, AgreedTicks
  <2>4. Trace(jn, tr, initial, Over)
    <3>1. \A i \in 1 .. Over : i - 1 \in 0 .. Over
      BY <1>5
    <3> QED
      BY <1>1, <1>4, <2>3, <3>1 DEF Trace
  <2>5. Going(jn, tr)'
    <3>1. \A i \in 1 .. ticks - 1 : i - 1 \in 0 .. Over
      BY <1>5
    <3>2. pc = "callbacks" => ticks - 1 \in 0 .. Over
      BY <1>5
    <3> QED
      BY <1>1, <2>3, <3>1, <3>2 DEF Going
  <2>6. EventInv'
    BY <1>1, <1>7 DEF EventInv
  <2>7. Here(jn, tr)'
    BY <1>1, <1>2, <1>4 DEF Here, GraphIs, Same
  <2>8. Trace(jn, tr, initial, Over)'
    BY <1>2, <2>4 DEF Trace
  <2> QED
    BY <1>3, <1>4, <2>5, <2>6, <2>7, <2>8 DEF RunInv
<1>8. CASE Over = 0 /\ pc = "publish" /\ \A n \in EventNode : ~triggered[n]
  <2>1. Trace(jn, tr, initial, Over)'
    BY <1>1, <1>2, <1>4, <1>8 DEF Trace
  <2>2. Going(jn, tr)'
    BY <1>1, <1>5, <1>8 DEF Going
  <2>3. EventInv'
    BY <1>1, <1>8 DEF EventInv
  <2>4. Here(jn, tr)'
    BY <1>1, <1>2, <1>4, <1>8 DEF Here, GraphIs, Same
  <2> QED
    BY <1>3, <1>4, <2>1, <2>2, <2>3, <2>4 DEF RunInv
<1> QED
  BY <1>7, <1>8

\* An event of the queue is published: nobody has been told of an earlier one.
LEMMA Publishes ==
    ASSUME Running, NEW in, NEW tr, RunInv(in, tr), PublishNext, initial' = initial, UNCHANGED how
    PROVE  \E jn : RunInv(jn, tr)' /\ jn.nodes = in.nodes /\ jn.edges = in.edges
<1>1. draining # <<>> /\ pc = "publish" /\ pc' = "subscribers"
      /\ UNCHANGED <<nodes, edges, state, result, history, triggered, eventValue, store,
                     ticks, executed>>
  BY DEF PublishNext, vars, callVars, locals
<1>2. CASE ~late
  <2>1. ticks = 1 /\ \A n \in EventNode : ~triggered[n]
    BY <1>1, <1>2, RunningFacts DEF QueueInv, Running
  <2>2. Over = 0
    BY <1>1, <2>1 DEF Over
  <2> QED
    BY <1>1, <2>1, <2>2, BusChanges
<1>3. CASE late
  BY <1>1, <1>3, BusChanges DEF Running, Settled
<1> QED
  BY <1>2, <1>3

\* The latest event of the type of n.
LEMMA LatestIs ==
    ASSUME NEW n \in EventNode, NEW last \in Matching(n), \A i \in Matching(n) : i <= last,
           bus \in Seq(Event)
    PROVE  n \in Called(bus) /\ bus[last].data = LatestData(bus, n)
<1>1. IsLatest(bus, n, last) /\ last \in DOMAIN bus
  BY DEF Matching, IsLatest
<1>2. DOMAIN bus \subseteq Int
  OBVIOUS
<1>3. ASSUME NEW i \in DOMAIN bus, IsLatest(bus, n, i) PROVE i = last
  BY <1>1, <1>2, <1>3 DEF IsLatest
<1>4. (CHOOSE i \in DOMAIN bus : IsLatest(bus, n, i)) = last
  BY <1>1, <1>3
<1> QED
  BY <1>1, <1>4 DEF LatestData, Called, IsLatest

\* _sync_event_nodes gives an event node the latest event.
LEMMA Hears ==
    ASSUME Running, NEW in, NEW tr, RunInv(in, tr), initial' = initial, UNCHANGED how,
           NEW n \in EventNode, SyncEventNode(n)
    PROVE  RunInv(in, tr)'
<1>1. /\ n \in nodes /\ ~triggered[n] /\ pc = "publish" /\ UNCHANGED loopVars
      /\ UNCHANGED <<nodes, edges, result, history>>
      /\ state' = [state EXCEPT ![n] = "READY"]
      /\ triggered' = [triggered EXCEPT ![n] = TRUE]
  BY DEF SyncEventNode, Awaited, Trigger, graphVars
<1>2. PICK last \in Matching(n) :
         /\ \A i \in Matching(n) : i <= last
         /\ eventValue' = [eventValue EXCEPT ![n] = bus[last].data]
  BY DEF SyncEventNode, Trigger
<1>3. TypeOK /\ bus \in Seq(Event)
  BY RunningFacts DEF LoopInv, LoopTypeOK
<1>4. n \in Called(bus) /\ bus[last].data = LatestData(bus, n)
  BY <1>2, <1>3, LatestIs
<1>5. /\ in = Given(in.nodes, in.edges) /\ GoodGraph(in) /\ Trace(in, tr, initial, Over)
      /\ Going(in, tr) /\ EventInv /\ GraphIs(in, tr[Over]) /\ Same(tr[Over])
  BY <1>1 DEF RunInv, Here
<1> USE DEF loopVars, callVars, eventLists, locals
<1>6. Over' = Over /\ n \in Node /\ state[n] \notin {"DONE", "FAILED"}
  BY <1>1, <1>5 DEF Over, EventInv, Node
<1>7. \A m \in Node : /\ state'[m] = "DONE" <=> state[m] = "DONE"
                      /\ state'[m] = "FAILED" <=> state[m] = "FAILED"
  BY <1>1, <1>3, <1>6 DEF TypeOK
<1>8. Same(tr[Over])'
  BY <1>1, <1>5, <1>6, <1>7 DEF Same
<1>9. GraphIs(in, tr[Over])' /\ in = Given(in.nodes, in.edges)'
  BY <1>1, <1>5, <1>6 DEF GraphIs, Given, Bound
<1>10. EventInv'
  BY <1>1, <1>2, <1>3, <1>4, <1>5, <1>7 DEF EventInv, TypeOK, Node
<1>11. Trace(in, tr, initial, Over)' /\ Going(in, tr)'
  BY <1>1, <1>5, <1>6 DEF Trace, Going
<1>12. Here(in, tr)'
  BY <1>1, <1>8, <1>9 DEF Here
<1> QED
  BY <1>5, <1>9, <1>10, <1>11, <1>12 DEF RunInv

\* The graph's tick begins, with nobody executed.
LEMMA Begins ==
    ASSUME Running, NEW in, NEW tr, RunInv(in, tr), initial' = initial, UNCHANGED how,
           BeginGraphTick
    PROVE  RunInv(in, tr)'
<1>1. /\ pc = "publish" /\ pc' = "graph" /\ snap' = store /\ Awaited = {}
      /\ UNCHANGED <<nodes, edges, state, result, triggered, eventValue, history, wave, attempted,
                     store, bus, ticks, executed>>
  BY DEF BeginGraphTick, BeginTick, graphVars, eventVars, callVars, eventLists
<1>2. /\ in = Given(in.nodes, in.edges) /\ GoodGraph(in) /\ Trace(in, tr, initial, Over)
      /\ Going(in, tr) /\ EventInv /\ GraphIs(in, tr[Over]) /\ Same(tr[Over])
  BY <1>1 DEF RunInv, Here
<1>3. TypeOK /\ Quiet /\ Phases /\ StartsEmpty /\ Over \in Nat /\ ticks \in Nat
  BY RunningFacts DEF LoopInv, IInv, LInv
<1>4. wave = {} /\ attempted = {} /\ executed = <<>>
  BY <1>1, <1>3 DEF Quiet, Phases, StartsEmpty, TypeOK
<1>5. Over' = Over
  BY <1>1 DEF Over
<1>0. PICK s : s = tr[Over]
  OBVIOUS
<1>6. Moment(in, s)
  BY <1>0, <1>2, <1>3 DEF Trace
<1>7. Within(in, s, attempted)' /\ Reported(in, s, attempted)' /\ Ordered(s)'
  <2>1. Same(s)
    BY <1>0, <1>2
  <2>2. \A n \in Node : s.count[n] + 0 = s.count[n]
    BY <2>1 DEF Same
  <2>3. Within(in, s, attempted)'
    BY <1>1, <1>4, <2>1, <2>2 DEF Same, Within
  <2>4. Reported(in, s, attempted)' /\ Ordered(s)'
    BY <1>1, <1>4 DEF Reported, Ordered
  <2> QED
    BY <2>3, <2>4
<1>8. \A n \in nodes \cap EventNode : n \in Called(bus) => triggered[n]
  BY <1>1 DEF Awaited, Called, Matching
<1>9. InGraph(in, s)'
  <2>1. GraphIs(in, s)' /\ store' = s.store /\ snap' = s.store
    BY <1>0, <1>1, <1>2 DEF GraphIs, Same
  <2>2. wave' = {} /\ \A n \in nodes' \cap EventNode : n \in Called(bus') => triggered'[n]
    BY <1>1, <1>4, <1>8
  <2> QED
    BY <1>7, <2>1, <2>2 DEF InGraph
<1>10. PredsDone'
  <2> SUFFICES ASSUME NEW n \in nodes, state[n] \in {"DONE", "FAILED"}, NEW p \in Preds(n)
               PROVE  state[p] = "DONE"
    BY <1>1, <1>4 DEF PredsDone, Preds
  <2>1. n \in Node /\ p \in Node /\ p \in nodes /\ <<p, n>> \in edges
    BY <1>3 DEF TypeOK, Preds
  <2>2. n \in s.done \cup s.failed
    BY <1>0, <1>2, <2>1 DEF Same
  <2>3. nodes = GraphNodes(in, s.rules) /\ edges = GraphEdges(in, s.rules)
    BY <1>0, <1>2 DEF GraphIs
  <2>4. p \in s.done
    BY <1>6, <2>1, <2>2, <2>3 DEF Moment
  <2> QED
    BY <1>0, <1>2, <2>1, <2>4 DEF Same
<1>11. in = Given(in.nodes, in.edges)' /\ EventInv'
  BY <1>1, <1>2 DEF Given, Bound, EventInv
<1>12. Trace(in, tr, initial, Over)' /\ Going(in, tr)'
  BY <1>1, <1>2, <1>5 DEF Trace, Going
<1>13. Here(in, tr)'
  <2>1. InGraph(in, tr[Over])'
    BY <1>0, <1>5, <1>9
  <2> QED
    BY <1>1, <1>10, <2>1 DEF Here
<1> QED
  BY <1>2, <1>11, <1>12, <1>13 DEF RunInv

\* A step of the graph's tick.
LEMMA GraphRuns ==
    ASSUME Running, NEW in, NEW tr, RunInv(in, tr), initial' = initial, UNCHANGED how,
           GraphStep, CallablesArePure
    PROVE  RunInv(in, tr)'
<1>0. PICK s : s = tr[Over]
  OBVIOUS
<1>1. /\ pc = "graph" /\ pc' \in {"graph", "write"}
      /\ UNCHANGED <<nodes, edges, triggered, eventValue, callVars, eventLists, store, snap>>
  BY GraphStepLeaves
<1>2. /\ in = Given(in.nodes, in.edges) /\ GoodGraph(in) /\ Trace(in, tr, initial, Over)
      /\ Going(in, tr) /\ EventInv /\ InGraph(in, s) /\ PredsDone
  BY <1>0, <1>1 DEF RunInv, Here
<1>3. LoopInv /\ TypeOK /\ ticks \in Nat /\ Over \in Nat
  BY RunningFacts
<1>4. Over' = Over
  BY <1>1 DEF Over, callVars
<1>5. in = Given(in.nodes, in.edges)'
  BY <1>1, <1>2 DEF Given, Bound, eventLists
<1>6. Trace(in, tr, initial, Over)' /\ Going(in, tr)'
  BY <1>1, <1>2, <1>4 DEF Trace, Going, callVars
<1>7. \/ NextWave /\ UNCHANGED loopVars
      \/ GraphDone
      \/ \E n \in Node : OneRun(in, s, n)
  BY <1>2, <1>3, RunsAsTold
<1>8. CASE NextWave /\ UNCHANGED loopVars
  <2>1. /\ UNCHANGED <<nodes, edges, state, result, triggered, eventValue, history, attempted>>
        /\ wave' = Ready \ attempted
    BY <1>8 DEF NextWave, graphVars, eventVars
  <2>2. Ready' = Ready
    BY <2>1 DEF Ready, Preds
  <2>3. Within(in, s, attempted)' /\ Reported(in, s, attempted)' /\ Ordered(s)' /\ GraphIs(in, s)'
    BY <1>2, <1>8, <2>1 DEF InGraph, Within, Reported, Ordered, GraphIs, loopVars, locals
  <2>4. InGraph(in, s)'
    BY <1>2, <1>8, <2>1, <2>2, <2>3 DEF InGraph, loopVars, locals, eventLists
  <2>5. PredsDone' /\ EventInv'
    BY <1>1, <1>2, <2>1 DEF PredsDone, Preds, EventInv, eventLists
  <2>6. pc' = "graph" /\ InGraph(in, tr[Over])'
    BY <1>0, <1>1, <1>4, <1>8, <2>4 DEF loopVars
  <2>7. Here(in, tr)'
    BY <2>5, <2>6 DEF Here
  <2> QED
    BY <1>2, <1>5, <1>6, <2>5, <2>7 DEF RunInv
<1>9. CASE GraphDone
  <2>1. in.bus = bus
    BY <1>2 DEF Given
  <2>2. InWrite(in, s)'
    BY <1>2, <1>3, <1>9, <2>1, GraphReturns
  <2>3. pc' = "write" /\ state' = state
    BY <1>9 DEF GraphDone, EndTick
  <2>4. EventInv'
    BY <1>1, <1>2, <2>3 DEF EventInv, eventLists
  <2>5. InWrite(in, tr[Over])'
    BY <1>0, <1>4, <2>2
  <2>6. Here(in, tr)'
    BY <2>3, <2>5 DEF Here
  <2> QED
    BY <1>2, <1>5, <1>6, <2>4, <2>6 DEF RunInv
<1>10. ASSUME NEW n \in Node, OneRun(in, s, n) PROVE RunInv(in, tr)'
  <2>1. InGraph(in, s)' /\ PredsDone'
    BY <1>2, <1>3, <1>10, OneRunKeeps
  <2>2. pc' = "graph" /\ n \in wave /\ state' = [state EXCEPT ![n] = LeftIn(in, s, n)]
    BY <1>1, <1>10 DEF OneRun
  <2>3. n \in EventNode => triggered[n]
    BY <1>2, <2>2 DEF InGraph, Ready
  <2>4. EventInv'
    BY <1>1, <1>2, <1>3, <2>2, <2>3 DEF EventInv, eventLists, TypeOK, Node
  <2>5. InGraph(in, tr[Over])'
    BY <1>0, <1>4, <2>1
  <2>6. Here(in, tr)'
    BY <2>1, <2>2, <2>5 DEF Here
  <2> QED
    BY <1>2, <1>5, <1>6, <2>4, <2>6 DEF RunInv
<1> QED
  BY <1>7, <1>8, <1>9, <1>10

\* A result is written back.
LEMMA WritesOn ==
    ASSUME Running, NEW in, NEW tr, RunInv(in, tr), initial' = initial, UNCHANGED how, WriteNext
    PROVE  RunInv(in, tr)'
<1>0. PICK s : s = tr[Over]
  OBVIOUS
<1>1. /\ pc = "write" /\ pc' = "write"
      /\ UNCHANGED <<nodes, edges, state, triggered, eventValue, bus, ticks, executed>>
  BY DEF WriteNext, vars, callVars, eventLists
<1>2. /\ in = Given(in.nodes, in.edges) /\ GoodGraph(in) /\ Trace(in, tr, initial, Over)
      /\ Going(in, tr) /\ EventInv /\ InWrite(in, s)
  BY <1>0, <1>1 DEF RunInv, Here
<1>3. Over' = Over
  BY <1>1 DEF Over
<1>4. InWrite(in, s)'
  BY <1>2, RunningFacts, WriteKeeps
<1>5. in = Given(in.nodes, in.edges)' /\ EventInv'
  BY <1>1, <1>2 DEF Given, Bound, EventInv
<1>6. Trace(in, tr, initial, Over)' /\ Going(in, tr)'
  BY <1>1, <1>2, <1>3 DEF Trace, Going
<1>7. InWrite(in, tr[Over])'
  BY <1>0, <1>3, <1>4
<1>8. Here(in, tr)'
  BY <1>1, <1>7 DEF Here
<1> QED
  BY <1>2, <1>5, <1>6, <1>8 DEF RunInv

\* The tick's results are in the store: another moment is reached.
LEMMA TickAdded ==
    ASSUME Running, NEW in, NEW tr, RunInv(in, tr), initial' = initial, UNCHANGED how, WriteDone
    PROVE  \E ur : RunInv(in, ur)'
<1>0. PICK s : s = tr[Over]
  OBVIOUS
<1>1. /\ pc = "write" /\ pc' = "inject" /\ UNCHANGED <<vars, callVars, eventLists, store>>
      /\ UNCHANGED <<snap, executed, written, pending>>
  BY DEF WriteDone
<1>2. /\ in = Given(in.nodes, in.edges) /\ GoodGraph(in) /\ Trace(in, tr, initial, Over)
      /\ Going(in, tr) /\ EventInv /\ InWrite(in, s)
  BY <1>0, <1>1 DEF RunInv, Here
<1>3. LoopInv /\ WrittenSoFar /\ ticks \in Nat /\ ticks > 0
  BY <1>1, RunningFacts DEF LoopHeld
<1>4. Over = ticks - 1 /\ Over' = ticks /\ ticks' = ticks /\ ticks - 1 \in Nat
  BY <1>1, <1>3 DEF Over, callVars
<1>5. Moment(in, s) /\ s.rules \subseteq Rule
  BY <1>0, <1>2, <1>4 DEF Trace, Moment
<1>6. PICK u : u = After(in, s, store)
  OBVIOUS
<1>7. /\ Ticks(in, s, u) /\ Same(u) /\ (executed = <<>> <=> Still(in, s))
      /\ \A r \in Rule : (\E i \in DOMAIN pending : pending[i] = r) <=> r \in NewRules(in, s)
  <2>1. meanwhile = NoData
    BY RunningFacts DEF CallInv, Running
  <2> QED
    BY <1>2, <1>3, <1>5, <1>6, <2>1, MomentReached
<1>8. Moment(in, u) /\ s.rules \subseteq u.rules /\ u.rules = s.rules \cup NewRules(in, s)
  BY <1>2, <1>5, <1>6, MomentNext DEF After
<1>9. PICK ur : ur = [i \in 0 .. ticks |-> IF i = ticks THEN u ELSE tr[i]]
  OBVIOUS
<1>10. ur[ticks] = u /\ (\A i \in 0 .. ticks - 1 : ur[i] = tr[i]) /\ ur[ticks - 1] = s
  BY <1>0, <1>3, <1>4, <1>9
<1>11. Trace(in, ur, initial, Over)'
  <2>1. ur[0] = Beginning(initial)
    BY <1>2, <1>4, <1>10 DEF Trace
  <2>2. ASSUME NEW i \in 1 .. ticks PROVE Ticks(in, ur[i - 1], ur[i])
    <3>1. CASE i = ticks
      BY <1>7, <1>10, <3>1
    <3>2. CASE i # ticks
      <4>1. i \in 1 .. ticks - 1 /\ i - 1 \in 0 .. ticks - 1 /\ i \in 0 .. ticks - 1
        BY <1>3, <3>2
      <4> QED
        BY <1>2, <1>4, <1>10, <4>1 DEF Trace
    <3> QED
      BY <3>1, <3>2
  <2>3. ASSUME NEW i \in 0 .. ticks PROVE Moment(in, ur[i])
    <3>1. CASE i = ticks
      BY <1>8, <1>10, <3>1
    <3>2. CASE i # ticks
      <4>1. i \in 0 .. ticks - 1
        BY <1>3, <3>2
      <4> QED
        BY <1>2, <1>4, <1>10, <4>1 DEF Trace
    <3> QED
      BY <3>1, <3>2
  <2> QED
    BY <1>4, <2>1, <2>2, <2>3 DEF Trace
<1>12. Going(in, ur)'
  <2>1. \A i \in 1 .. ticks - 1 : i - 1 \in 0 .. ticks - 1
    BY <1>3
  <2>2. \A i \in 1 .. ticks - 1 : ~Still(in, ur[i - 1])
    BY <1>2, <1>10, <2>1 DEF Going
  <2>3. executed' = executed
    BY <1>1 DEF locals
  <2> QED
    BY <1>1, <1>4, <1>7, <1>10, <2>2, <2>3 DEF Going
<1>13. BeingInjected(in, s, u)'
  <2>1. Same(u)'
    BY <1>1, <1>7 DEF Same, vars
  <2>2. pending' = pending /\ nodes' = nodes /\ edges' = edges
    BY <1>1 DEF locals, vars
  <2>3. Waiting' = NewRules(in, s)
    <3>1. NewRules(in, s) \subseteq Rule
      BY DEF NewRules
    <3>2. \A r \in Rule : IsIn(r, pending) <=> r \in NewRules(in, s)
      BY <1>7, Zenon DEF IsIn
    <3> QED
      BY <2>2, <3>1, <3>2 DEF Waiting
  <2>4. s.rules \cup (u.rules \ NewRules(in, s)) = s.rules
    BY <1>8
  <2>5. nodes = GraphNodes(in, s.rules) /\ edges = GraphEdges(in, s.rules)
    BY <1>2 DEF InWrite, GraphIs
  <2>6. nodes \subseteq GraphNodes(in, u.rules) /\ edges \subseteq GraphEdges(in, u.rules)
    BY <1>8, <2>5 DEF GraphNodes, GraphEdges
  <2>7. Waiting' \subseteq u.rules
    BY <1>8, <2>3
  <2> QED
    BY <1>8, <2>1, <2>2, <2>3, <2>4, <2>5, <2>6, <2>7 DEF BeingInjected
<1>14. Here(in, ur)'
  <2>1. BeingInjected(in, ur[ticks - 1], ur[ticks])'
    BY <1>4, <1>10, <1>13
  <2> QED
    BY <1>1, <2>1 DEF Here
<1>15. in = Given(in.nodes, in.edges)' /\ EventInv'
  BY <1>1, <1>2 DEF Given, Bound, EventInv, vars, eventLists
<1>16. RunInv(in, ur)'
  BY <1>2, <1>11, <1>12, <1>14, <1>15 DEF RunInv
<1> QED
  BY <1>16

\* The rules that a tick has emitted are compiled, one after the other.
LEMMA RulesCompiled ==
    ASSUME Running, NEW in, NEW tr, RunInv(in, tr), initial' = initial, UNCHANGED how,
           CompileNode \/ CompileEdge \/ CompileDone \/ InjectDone
    PROVE  RunInv(in, tr)'
<1>0. PICK s, u : s = tr[ticks - 1] /\ u = tr[ticks]
  OBVIOUS
<1>1. /\ pc = "inject" /\ UNCHANGED <<state, result, triggered, eventValue, history, ticks, store,
                                      executed, bus, caller>>
  <2>1. pc # "hotload"
    BY RunningFacts DEF CallInv, Running
  <2> QED
    BY <2>1 DEF CompileNode, CompileEdge, CompileDone, InjectDone, AddNode, AddEdge, vars,
                loopVars, callVars, eventLists, locals, eventVars, Injecting
<1>2. /\ in = Given(in.nodes, in.edges) /\ GoodGraph(in) /\ Trace(in, tr, initial, Over)
      /\ Going(in, tr) /\ EventInv /\ BeingInjected(in, s, u)
  BY <1>0, <1>1 DEF RunInv, Here
<1>3. LoopInv /\ ticks \in Nat /\ ticks > 0 /\ CallInv
  BY <1>1, RunningFacts
<1>4. /\ pending \in Seq(Rule \cup {Garbled}) /\ caller = "start" /\ Moment(in, u)
  <2>1. Moment(in, u)
    BY <1>0, <1>1, <1>2, <1>3 DEF Trace, Over
  <2> QED
    BY <1>1, <1>3, <2>1 DEF LoopInv, LoopTypeOK, CallInv, Running
<1>5. Same(u)'
  BY <1>1, <1>2 DEF BeingInjected, Same
<1>6. in = Given(in.nodes, in.edges)'
  BY <1>1, <1>2 DEF Given, Bound
<1>7. CASE InjectDone
  <2>1. pc' = "callbacks" /\ pending = <<>> /\ nodes' = nodes /\ edges' = edges
    BY <1>1, <1>4, <1>7 DEF InjectDone, vars
  <2>2. Waiting = {}
    BY <2>1 DEF Waiting, IsIn
  <2>3. s.rules \cup (u.rules \ Waiting) = u.rules
    BY <1>2, <2>2 DEF BeingInjected
  <2>4. GraphIs(in, u)'
    BY <1>2, <2>1, <2>3 DEF BeingInjected, GraphIs
  <2>5. Over' = Over /\ Over = ticks
    BY <1>1, <2>1 DEF Over
  <2>6. Here(in, tr)'
    BY <1>0, <1>5, <2>1, <2>4, <2>5 DEF Here
  <2>7. Trace(in, tr, initial, Over)' /\ Going(in, tr)'
    BY <1>1, <1>2, <2>1, <2>5 DEF Trace, Going
  <2>8. EventInv'
    BY <1>1, <1>2, <2>1 DEF EventInv
  <2> QED
    BY <1>2, <1>6, <2>6, <2>7, <2>8 DEF RunInv
<1>8. CASE CompileNode \/ CompileEdge \/ CompileDone
  <2> DEFINE r == Head(pending)
             Texts == Rule \cup {Garbled}
             K == s.rules \cup (u.rules \ Waiting)
  <2>1. pending # <<>> /\ r \in Rule /\ pc' = "inject"
    BY <1>1, <1>8 DEF CompileNode, CompileEdge, CompileDone, Injecting, loopVars
  <2>2. /\ Tail(pending) \in Seq(Texts)
        /\ \A i \in DOMAIN pending : pending[i] = r \/ IsIn(pending[i], Tail(pending))
        /\ IsIn(r, pending) /\ \A q : IsIn(q, Tail(pending)) => IsIn(q, pending)
    <3>1. pending \in Seq(Texts)
      BY <1>4
    <3> HIDE DEF Texts
    <3>2. \A i \in DOMAIN pending :
             pending[i] = r \/ \E j \in DOMAIN Tail(pending) : Tail(pending)[j] = pending[i]
      BY <2>1, <3>1, TailFacts
    <3>3. 1 \in DOMAIN pending /\ pending[1] = r
      BY <2>1, <3>1
    <3>4. \A j \in DOMAIN Tail(pending) :
             j + 1 \in DOMAIN pending /\ Tail(pending)[j] = pending[j + 1]
      BY <2>1, <3>1
    <3>5. \A q : IsIn(q, Tail(pending)) => IsIn(q, pending)
      BY <3>4 DEF IsIn
    <3>6. Tail(pending) \in Seq(Texts)
      BY <2>1, <3>1
    <3> QED
      BY <3>2, <3>3, <3>5, <3>6 DEF IsIn
  <2>3. r \in Waiting /\ r \in u.rules /\ u.rules \subseteq Rule
    BY <1>2, <1>4, <2>1, <2>2 DEF Waiting, BeingInjected, Moment
  <2>4. BeingInjected(in, s, u)' /\ nodes \subseteq nodes'
    <3>1. CASE CompileNode
      <4>1. PICK i \in DOMAIN RuleNodes[r] : nodes' = nodes \cup {RuleNodes[r][i]}
        BY <3>1 DEF CompileNode, AddNode
      <4>2. edges' = edges /\ pending' = pending
        BY <3>1 DEF CompileNode, AddNode, loopVars, locals
      <4>3. RuleNodes[r][i] \in GraphNodes(in, u.rules)
        BY <2>3 DEF GraphNodes, NodesOfRule
      <4>4. Waiting' = Waiting
        BY <4>2 DEF Waiting
      <4> QED
        BY <1>2, <1>5, <4>1, <4>2, <4>3, <4>4 DEF BeingInjected
    <3>2. CASE CompileEdge
      <4>1. PICK e \in Links(r) : edges' = edges \cup {<<e[1], e[2]>>}
        BY <3>2 DEF CompileEdge, AddEdge
      <4>2. nodes' = nodes /\ pending' = pending
        BY <3>2 DEF CompileEdge, AddEdge, loopVars, locals
      <4>3. <<e[1], e[2]>> \in GraphEdges(in, u.rules)
        BY <2>1, <2>3, RuleGraph DEF GraphEdges
      <4>4. Waiting' = Waiting
        BY <4>2 DEF Waiting
      <4> QED
        BY <1>2, <1>5, <4>1, <4>2, <4>3, <4>4 DEF BeingInjected
    <3>3. CASE CompileDone
      <4>1. pending' = Tail(pending) /\ Compiled(r) /\ nodes' = nodes /\ edges' = edges
        BY <3>3 DEF CompileDone, vars
      <4>2. Waiting \subseteq Waiting' \cup {r} /\ Waiting' \subseteq Waiting
        <5> HIDE DEF r, Texts
        <5>1. ASSUME NEW q, IsIn(q, pending) PROVE q = r \/ IsIn(q, Tail(pending))
          BY <2>2, <5>1 DEF IsIn
        <5> QED
          BY <2>2, <4>1, <5>1 DEF Waiting
      <4>3. NodesOfRule(r) \subseteq nodes /\ Links(r) \subseteq edges
        BY <4>1 DEF Compiled, NodesOfRule
      <4>4. GraphNodes(in, K) \subseteq nodes /\ GraphEdges(in, K) \subseteq edges
        BY <1>2 DEF BeingInjected
      <4> DEFINE M == s.rules \cup (u.rules \ Waiting')
      <4>5. M \subseteq K \cup {r}
        BY <4>2
      <4> HIDE DEF M, K, r
      <4>6. GraphNodes(in, M) \subseteq nodes /\ GraphEdges(in, M) \subseteq edges
        BY <4>3, <4>4, <4>5 DEF GraphNodes, GraphEdges
      <4>7. Waiting' \subseteq u.rules
        BY <1>2, <4>2 DEF BeingInjected
      <4> QED
        BY <1>2, <1>5, <4>1, <4>6, <4>7 DEF BeingInjected, M
    <3> QED
      BY <1>8, <3>1, <3>2, <3>3
  <2>5. Over' = Over
    BY <1>1, <2>1 DEF Over
  <2>6. Here(in, tr)'
    <3>1. BeingInjected(in, tr[ticks - 1], tr[ticks])'
      BY <1>0, <1>1, <2>4
    <3> QED
      BY <2>1, <3>1 DEF Here
  <2>7. Trace(in, tr, initial, Over)' /\ Going(in, tr)'
    BY <1>1, <1>2, <2>1, <2>5 DEF Trace, Going
  <2>8. EventInv'
    BY <1>1, <1>2, <2>4 DEF EventInv
  <2> QED
    BY <1>2, <1>6, <2>6, <2>7, <2>8 DEF RunInv
<1> QED
  BY <1>7, <1>8

-----------------------------------------------------------------------------
(* A run from its first step to its last.                                  *)

\* The run began with this graph, and its moments can be told.
RunOf(n0, e0) == \E in, tr : RunInv(in, tr) /\ in.nodes = n0 /\ in.edges = e0

\* Every step of a run goes on with it.
LEMMA RunGoesOn ==
    ASSUME Running, NEW n0, NEW e0, RunOf(n0, e0), RunStep
    PROVE  RunOf(n0, e0)'
<1>1. PICK in, tr : RunInv(in, tr) /\ in.nodes = n0 /\ in.edges = e0
  BY DEF RunOf
<1>2. RunCase /\ initial' = initial /\ UNCHANGED how /\ CallablesArePure
  <2>1. CallInv
    BY RunningFacts
  <2> QED
    BY <2>1, RunCases DEF RunStep, replayVars
<1>3. CASE LoopAgain \/ LoopExit \/ DrainLayers \/ SubscribersReturn \/ NextTick \/ Break
  <2>1. RunInv(in, tr)'
    BY <1>1, <1>2, <1>3, MovesOn
  <2> QED
    BY <1>1, <2>1 DEF RunOf
<1>4. CASE PublishNext
  <2>1. PICK jn : RunInv(jn, tr)' /\ jn.nodes = in.nodes /\ jn.edges = in.edges
    BY <1>1, <1>2, <1>4, Publishes
  <2> QED
    BY <1>1, <2>1 DEF RunOf
<1>5. CASE \E n \in EventNode : SyncEventNode(n)
  <2>1. RunInv(in, tr)'
    BY <1>1, <1>2, <1>5, Hears
  <2> QED
    BY <1>1, <2>1 DEF RunOf
<1>6. CASE BeginGraphTick
  <2>1. RunInv(in, tr)'
    BY <1>1, <1>2, <1>6, Begins
  <2> QED
    BY <1>1, <2>1 DEF RunOf
<1>7. CASE GraphStep
  <2>1. RunInv(in, tr)'
    BY <1>1, <1>2, <1>7, GraphRuns
  <2> QED
    BY <1>1, <2>1 DEF RunOf
<1>8. CASE WriteNext
  <2>1. RunInv(in, tr)'
    BY <1>1, <1>2, <1>8, WritesOn
  <2> QED
    BY <1>1, <2>1 DEF RunOf
<1>9. CASE WriteDone
  <2>1. PICK ur : RunInv(in, ur)'
    BY <1>1, <1>2, <1>9, TickAdded
  <2> QED
    BY <1>1, <2>1 DEF RunOf
<1>10. CASE CompileNode \/ CompileEdge \/ CompileDone \/ InjectDone
  <2>1. RunInv(in, tr)'
    BY <1>1, <1>2, <1>10, RulesCompiled
  <2> QED
    BY <1>1, <2>1 DEF RunOf
<1> QED
  BY <1>2, <1>3, <1>4, <1>5, <1>6, <1>7, <1>8, <1>9, <1>10 DEF RunCase

\* Steps that are none of the run.
LEMMA RunStays ==
    ASSUME NEW n0, NEW e0, RunOf(n0, e0), UNCHANGED everything
    PROVE  RunOf(n0, e0)'
<1>1. PICK in, tr : RunInv(in, tr) /\ in.nodes = n0 /\ in.edges = e0
  BY DEF RunOf
<1> USE DEF everything, allVars, vars, loopVars, callVars, eventLists, locals, replayVars,
            graphVars, eventVars, tickVars
<1>2. in = Given(in.nodes, in.edges)'
  BY <1>1 DEF RunInv, Given, Bound
<1>3. Over' = Over /\ Trace(in, tr, initial, Over)'
  BY <1>1 DEF RunInv, Over
<1>4. EventInv'
  BY <1>1 DEF RunInv, EventInv
<1>5. \A s : /\ GraphIs(in, s) => GraphIs(in, s)'
             /\ Same(s) => Same(s)'
  BY DEF GraphIs, Same
<1>6. \A s : InGraph(in, s) => InGraph(in, s)'
  BY <1>5 DEF InGraph, Within, Reported, Ordered, Ready, Preds
<1>7. PredsDone => PredsDone'
  BY DEF PredsDone, Preds
<1>8. \A s : InWrite(in, s) => InWrite(in, s)'
  BY <1>5 DEF InWrite, Within, Reported, Ordered, PredsDone, Preds, PendingSoFar
<1>9. \A s, u : BeingInjected(in, s, u) => BeingInjected(in, s, u)'
  BY <1>5 DEF BeingInjected, Waiting
<1>10. Here(in, tr)'
  BY <1>1, <1>3, <1>5, <1>6, <1>7, <1>8, <1>9 DEF RunInv, Here
<1>11. Going(in, tr)'
  BY <1>1 DEF RunInv, Going
<1>12. RunInv(in, tr)'
  BY <1>1, <1>2, <1>3, <1>4, <1>10, <1>11 DEF RunInv
<1> QED
  BY <1>1, <1>12 DEF RunOf

\* An event from a callback, for nobody in the graph to hear.
LEMMA RunUnheard ==
    ASSUME Running, Settled', NEW n0, NEW e0, RunOf(n0, e0), LateEvent
    PROVE  RunOf(n0, e0)'
<1>1. PICK in, tr : RunInv(in, tr) /\ in.nodes = n0 /\ in.edges = e0
  BY DEF RunOf
<1>2. /\ UNCHANGED <<nodes, edges, state, result, history, triggered, eventValue, store,
                     ticks, executed>>
      /\ pc = "callbacks" /\ pc' = pc /\ initial' = initial /\ UNCHANGED how
  BY DEF LateEvent, EventFromOutside, InjectEvent, Publish, vars, callVars, locals
<1>3. nodes \cap EventNode = {}
  <2>1. late'
    BY DEF LateEvent
  <2> QED
    BY <1>2, <2>1 DEF Settled
<1>4. PICK jn : RunInv(jn, tr)' /\ jn.nodes = in.nodes /\ jn.edges = in.edges
  BY <1>1, <1>2, <1>3, BusChanges
<1> QED
  BY <1>1, <1>4 DEF RunOf

\* A run begins.
LEMMA RunBegins ==
    ASSUME NEW n0, NEW e0, n0 = nodes', e0 = edges', n0 \subseteq Node, e0 \subseteq n0 \X n0,
           n0 \cap EmittedNodes = {}, pc' = "loop", ticks' = 0, store' = initial',
           history' = <<>>, \A n \in Node : state'[n] \notin {"DONE", "FAILED"}, EventInv'
    PROVE  RunOf(n0, e0)'
<1>1. PICK in : in = [nodes |-> n0, edges |-> e0, bound |-> Bound', bus |-> bus']
  OBVIOUS
<1>2. PICK s : s = Beginning(store')
  OBVIOUS
<1>3. PICK tr : tr = [i \in {0} |-> s]
  OBVIOUS
<1>4. /\ in.nodes = n0 /\ in.edges = e0 /\ tr[0] = s /\ Over' = 0
      /\ in = Given(in.nodes, in.edges)' /\ GoodGraph(in)
  BY <1>1, <1>3 DEF Given, Over, GoodGraph
<1>5. Moment(in, s)
  BY <1>2, MomentFirst
<1>6. /\ s.rules = {} /\ s.done = {} /\ s.failed = {} /\ s.store = store'
      /\ s.count = [n \in Node |-> 0] /\ s.told = {}
  BY <1>2 DEF Beginning
<1>7. Trace(in, tr, initial, Over)'
  BY <1>2, <1>4, <1>5 DEF Trace
<1>8. GraphIs(in, s)'
  BY <1>4, <1>6 DEF GraphIs, GraphNodes, GraphEdges
<1>9. Same(s)'
  BY <1>6, NothingTold DEF Same
<1>10. Here(in, tr)'
  BY <1>4, <1>8, <1>9 DEF Here
<1>11. Going(in, tr)'
  BY <1>4 DEF Going
<1>12. RunInv(in, tr)'
  BY <1>4, <1>7, <1>10, <1>11 DEF RunInv
<1> QED
  BY <1>4, <1>12 DEF RunOf

-----------------------------------------------------------------------------
(* A run that has ended.                                                   *)

\* What a run of T ticks leaves: a store, a history and a graph.
RanAs(in, tr, T, data, h, g) ==
    /\ GoodGraph(in) /\ T \in 0 .. MaxTicks
    /\ Trace(in, tr, initial, T)
    /\ \A i \in 1 .. T - 1 : ~Still(in, tr[i - 1])
    /\ T = MaxTicks \/ (T > 0 /\ Still(in, tr[T - 1]))
    /\ data = tr[T].store /\ Told(h) = tr[T].told
    /\ g = <<GraphNodes(in, tr[T].rules), GraphEdges(in, tr[T].rules)>>

\* When start() has returned.
LEMMA RunEnds ==
    ASSUME Running, NEW in, NEW tr, RunInv(in, tr), pc = "idle"
    PROVE  RanAs(in, tr, ticks, store, history, <<nodes, edges>>)
<1>1. Over = ticks
  BY DEF Over
<1>2. GoodGraph(in) /\ Trace(in, tr, initial, ticks) /\ Going(in, tr)
      /\ GraphIs(in, tr[ticks]) /\ Same(tr[ticks])
  BY <1>1 DEF RunInv, Here
<1>3. ticks \in 0 .. MaxTicks
  BY RunningFacts
<1> QED
  BY <1>2, <1>3 DEF RanAs, Going, GraphIs, Same

\* The first run, as it was kept.
FirstRun(jn, ur) ==
    /\ RanAs(jn, ur, first.ticks, first.store, first.history, first.graph)
    /\ first.bound = jn.bound \cap first.graph[1]

\* The second run begins with the first one kept.
LEMMA FirstKept ==
    ASSUME Running, NEW in, NEW tr, RunInv(in, tr), Ended, Keep, UNCHANGED initial
    PROVE  FirstRun(in, tr)'
<1>1. RanAs(in, tr, ticks, store, history, <<nodes, edges>>)
  BY RunEnds DEF Ended
<1>2. /\ first'.ticks = ticks /\ first'.store = store /\ first'.history = history
      /\ first'.graph = <<nodes, edges>> /\ first'.bound = Bound \cap nodes
  BY DEF Keep
<1>3. in.bound = Bound
  BY DEF RunInv, Given
<1> QED
  BY <1>1, <1>2, <1>3 DEF FirstRun, RanAs

-----------------------------------------------------------------------------
(* Both runs.                                                              *)

\* The first run, and that it began with the graph of the rules if with no more.
FirstInv ==
    stage = "run" /\ Settled =>
        \E n0, e0 : RunOf(n0, e0) /\ (~base => n0 = DSL!NodesOf(rules) /\ e0 = DSL!EdgesOf(rules))

\* The second run began with the graph of the first, and with its events.
SecondInv ==
    stage = "replay" /\ Settled =>
        \E jn, ur : FirstRun(jn, ur) /\ RunOf(jn.nodes, jn.edges) /\ bus = jn.bus

\* The first run begins.
LEMMA FirstStarts ==
    ASSUME StageInv, NEW snapshot \in Snapshots, FirstStart(snapshot)
    PROVE  FirstInv' /\ SecondInv'
<1>1. PICK n0, e0 : n0 = nodes' /\ e0 = edges'
  OBVIOUS
<1> USE DEF vars, graphVars, eventVars, tickVars
<1>2. ReadyInv /\ LoopHeld /\ stage = "ready"
  BY DEF StageInv, FirstStart
<1>3. Unrun /\ triggered = [n \in EventNode |-> FALSE] /\ ticks = 0 /\ nodes \cap EmittedNodes = {}
      /\ (~base => nodes = DSL!NodesOf(rules) /\ edges = DSL!EdgesOf(rules))
  BY <1>2 DEF ReadyInv
<1>4. nodes \subseteq Node /\ edges \subseteq nodes \X nodes
  BY <1>2 DEF LoopHeld, LoopInv, IInv, TypeOK
<1>5. /\ UNCHANGED <<nodes, edges, state, history, triggered, ticks, rules, base>>
      /\ pc' = "loop" /\ store' = initial' /\ stage' = "run"
  BY DEF FirstStart
<1>6. EventInv'
  BY <1>3, <1>5, NodeKinds DEF EventInv, Unrun, Node
<1>7. \A n \in Node : state'[n] \notin {"DONE", "FAILED"}
  BY <1>3, <1>5 DEF Unrun
<1>8. history' = <<>> /\ ticks' = 0
  BY <1>3, <1>5 DEF Unrun
<1>9. RunOf(n0, e0)'
  BY <1>1, <1>3, <1>4, <1>5, <1>6, <1>7, <1>8, RunBegins
<1>10. ~base' => n0 = DSL!NodesOf(rules)' /\ e0 = DSL!EdgesOf(rules)'
  BY <1>1, <1>3, <1>5
<1> QED
  BY <1>5, <1>9, <1>10 DEF FirstInv, SecondInv

\* Compiled from the text again, the graph is the one the first run began with.
LEMMA ReplayBegins ==
    ASSUME StageInv, FirstInv, Replay
    PROVE  SecondInv'
<1>1. /\ stage = "run" /\ pc = "idle" /\ ~base /\ Keep /\ UNCHANGED <<rules, initial>>
      /\ GraphOf(FALSE, rules) /\ RunAgain(initial, bus) /\ stage' = "replay"
      /\ history' = <<>> /\ state' = [n \in Node |-> "PENDING"]
      /\ triggered' = [n \in EventNode |-> FALSE]
  BY DEF Replay, Ended
<1>2. GoodRules(rules) /\ nodes \cap EventNode = {}
  BY <1>1 DEF StageInv, TextInv
<1>3. Settled /\ Running
  BY <1>1, <1>2 DEF Settled, Running
<1>4. PICK n0, e0 : RunOf(n0, e0) /\ n0 = DSL!NodesOf(rules) /\ e0 = DSL!EdgesOf(rules)
  BY <1>1, <1>3 DEF FirstInv
<1>5. PICK jn, ur : RunInv(jn, ur) /\ jn.nodes = n0 /\ jn.edges = e0
  BY <1>4 DEF RunOf
<1>6. FirstRun(jn, ur)'
  BY <1>1, <1>3, <1>5, FirstKept DEF Ended
<1>7. n0 = nodes' /\ e0 = edges'
  BY <1>1, <1>4 DEF GraphOf
<1>8. n0 \subseteq Node /\ e0 \subseteq n0 \X n0 /\ n0 \cap EmittedNodes = {}
  BY <1>5 DEF RunInv, GoodGraph
<1>9. pc' = "loop" /\ ticks' = 0 /\ store' = initial' /\ bus' = bus
  BY <1>1 DEF RunAgain
<1>10. EventInv'
  BY <1>1, NodeKinds DEF EventInv, Node
<1>11. \A n \in Node : state'[n] \notin {"DONE", "FAILED"}
  BY <1>1
<1>12. RunOf(n0, e0)'
  BY <1>1, <1>7, <1>8, <1>9, <1>10, <1>11, RunBegins
<1>13. bus' = jn.bus
  BY <1>5, <1>9 DEF RunInv, Given
<1> QED
  BY <1>5, <1>6, <1>12, <1>13 DEF SecondInv

\* Reset, the graph that no rule was added to is the one the run began with; what
\* is triggered stays so, by the same events.
LEMMA ReplayGraphBegins ==
    ASSUME StageInv, FirstInv, ReplayGraph
    PROVE  SecondInv'
<1> USE DEF graphVars, eventVars
<1>1. /\ stage = "run" /\ pc = "idle" /\ Keep /\ UNCHANGED <<rules, initial, late>>
      /\ \A r \in Rule : ~Compiled(r)
      /\ RunAgain(initial, bus) /\ stage' = "replay"
      /\ history' = <<>>
      /\ state' = [n \in Node |-> IF n \in nodes THEN "PENDING" ELSE state[n]]
      /\ UNCHANGED <<nodes, edges, triggered, eventValue>>
  BY DEF ReplayGraph, Reset, Ended
<1>2. LoopHeld /\ TypeOK /\ Unregistered
  BY <1>1 DEF StageInv, LoopHeld, LoopInv, IInv
<1> SUFFICES ASSUME Settled' PROVE SecondInv'
  BY DEF SecondInv
<1>3. Settled /\ Running
  BY <1>1 DEF Settled, Running
<1>4. PICK n0, e0 : RunOf(n0, e0)
  BY <1>1, <1>3 DEF FirstInv
<1>5. PICK jn, ur : RunInv(jn, ur) /\ jn.nodes = n0 /\ jn.edges = e0
  BY <1>4 DEF RunOf
<1>6. FirstRun(jn, ur)'
  BY <1>1, <1>3, <1>5, FirstKept DEF Ended
<1>7. n0 = nodes /\ e0 = edges
  <2>1. ticks \in Nat /\ Over = ticks
    BY <1>1, <1>3, RunningFacts DEF Over
  <2>2. PICK s : s = ur[ticks]
    OBVIOUS
  <2>3. GraphIs(jn, s) /\ Moment(jn, s)
    BY <1>1, <1>5, <2>1, <2>2 DEF RunInv, Here, Trace
  <2>4. s.rules = {}
    <3>1. SUFFICES ASSUME NEW r \in s.rules PROVE FALSE
      OBVIOUS
    <3>2. NodesOfRule(r) \subseteq nodes /\ Links(r) \subseteq edges /\ r \in Rule
      BY <2>3 DEF GraphIs, GraphNodes, GraphEdges, Moment
    <3>3. Compiled(r)
      BY <3>2 DEF Compiled, NodesOfRule
    <3> QED
      BY <1>1, <3>2, <3>3
  <2> QED
    BY <1>5, <2>3, <2>4 DEF GraphIs, GraphNodes, GraphEdges
<1>8. n0 \subseteq Node /\ e0 \subseteq n0 \X n0 /\ n0 \cap EmittedNodes = {} /\ EventInv
  BY <1>5 DEF RunInv, GoodGraph
<1>9. pc' = "loop" /\ ticks' = 0 /\ store' = initial' /\ bus' = bus
  BY <1>1 DEF RunAgain
<1>11. \A n \in Node : state'[n] \notin {"DONE", "FAILED"}
  BY <1>1, <1>2 DEF Unregistered
<1>10. EventInv'
  BY <1>1, <1>8, <1>9, <1>11 DEF EventInv, Node
<1>12. RunOf(n0, e0)'
  BY <1>1, <1>7, <1>8, <1>9, <1>10, <1>11, RunBegins
<1>13. bus' = jn.bus
  BY <1>5, <1>9 DEF RunInv, Given
<1> QED
  BY <1>5, <1>6, <1>12, <1>13 DEF SecondInv

\* A step of either run.
LEMMA BothRunOn ==
    ASSUME StageInv, FirstInv, SecondInv, RunStep
    PROVE  FirstInv' /\ SecondInv'
<1>1. stage \in {"run", "replay"} /\ UNCHANGED replayVars /\ LoopHeld /\ CallInv
  BY DEF RunStep, StageInv
<1>2. /\ stage' = stage /\ late' = late /\ rules' = rules /\ base' = base /\ first' = first
      /\ initial' = initial
  BY <1>1 DEF replayVars
<1>3. nodes' \cap EventNode = nodes \cap EventNode
  BY <1>1, NodesStep
<1>4. Settled' => Settled /\ Running
  BY <1>1, <1>2, <1>3 DEF Settled, Running
<1>5. FirstInv'
  <2> SUFFICES ASSUME stage = "run", Settled' PROVE FirstInv'
    BY <1>2 DEF FirstInv
  <2>1. PICK n0, e0 : RunOf(n0, e0) /\ (~base => n0 = DSL!NodesOf(rules) /\ e0 = DSL!EdgesOf(rules))
    BY <1>4 DEF FirstInv
  <2>2. RunOf(n0, e0)'
    BY <1>4, <2>1, RunGoesOn
  <2>3. ~base' => n0 = DSL!NodesOf(rules)' /\ e0 = DSL!EdgesOf(rules)'
    BY <1>2, <2>1
  <2> QED
    BY <2>2, <2>3 DEF FirstInv
<1>6. SecondInv'
  <2> SUFFICES ASSUME stage = "replay", Settled' PROVE SecondInv'
    BY <1>2 DEF SecondInv
  <2>1. PICK jn, ur : FirstRun(jn, ur) /\ RunOf(jn.nodes, jn.edges) /\ bus = jn.bus
    BY <1>4 DEF SecondInv
  <2>2. PICK n0, e0 : n0 = jn.nodes /\ e0 = jn.edges
    OBVIOUS
  <2>3. RunOf(n0, e0)'
    BY <1>4, <2>1, <2>2, RunGoesOn
  <2>4. FirstRun(jn, ur)'
    BY <1>2, <2>1 DEF FirstRun, RanAs
  <2>5. bus' = bus
    <3> USE DEF vars, loopVars, callVars, eventLists, locals, ForgetLocals
    <3>1. draining = <<>>
      BY DEF StageInv, QueueInv
    <3>2. RunCase
      BY <1>1, RunCases
    <3>3. ~PublishNext
      BY <3>1 DEF PublishNext
    <3>4. GraphStep => bus' = bus
      BY GraphStepLeaves
    <3> QED
      BY <3>2, <3>3, <3>4
         DEF RunCase, LoopAgain, LoopExit, NextTick, Break, Leave, DrainLayers, SubscribersReturn,
             SyncEventNode, BeginGraphTick, WriteNext, WriteDone, CompileNode, CompileEdge,
             CompileDone, InjectDone
  <2> QED
    BY <2>1, <2>2, <2>3, <2>4, <2>5 DEF SecondInv
<1> QED
  BY <1>5, <1>6

\* A step that changes nothing.
LEMMA BothStay ==
    ASSUME StageInv, FirstInv, SecondInv, UNCHANGED everything
    PROVE  FirstInv' /\ SecondInv'
<1>1. /\ UNCHANGED <<stage, late, rules, base, first, initial, bus, nodes>>
  BY DEF everything, allVars, vars, graphVars, loopVars, eventLists, replayVars
<1>2. FirstInv'
  <2> SUFFICES ASSUME stage = "run", Settled' PROVE FirstInv'
    BY <1>1 DEF FirstInv
  <2>1. PICK n0, e0 : RunOf(n0, e0) /\ (~base => n0 = DSL!NodesOf(rules) /\ e0 = DSL!EdgesOf(rules))
    BY <1>1 DEF FirstInv, Settled
  <2>2. RunOf(n0, e0)'
    BY <2>1, RunStays
  <2>3. ~base' => n0 = DSL!NodesOf(rules)' /\ e0 = DSL!EdgesOf(rules)'
    BY <1>1, <2>1
  <2> QED
    BY <2>2, <2>3 DEF FirstInv
<1>3. SecondInv'
  <2> SUFFICES ASSUME stage = "replay", Settled' PROVE SecondInv'
    BY <1>1 DEF SecondInv
  <2>1. PICK jn, ur : FirstRun(jn, ur) /\ RunOf(jn.nodes, jn.edges) /\ bus = jn.bus
    BY <1>1 DEF SecondInv, Settled
  <2>2. PICK n0, e0 : n0 = jn.nodes /\ e0 = jn.edges
    OBVIOUS
  <2>3. RunOf(n0, e0)'
    BY <2>1, <2>2, RunStays
  <2>4. FirstRun(jn, ur)'
    BY <1>1, <2>1 DEF FirstRun, RanAs
  <2> QED
    BY <1>1, <2>1, <2>2, <2>3, <2>4 DEF SecondInv
<1> QED
  BY <1>2, <1>3

\* What is known of both runs in every state.
BothInv == StageInv /\ FirstInv /\ SecondInv

\* It goes on holding.
LEMMA BothStep ==
    ASSUME BothInv, [ReplayNext]_everything
    PROVE  BothInv'
<1>0. StageInv /\ FirstInv /\ SecondInv
  BY DEF BothInv
<1>1. StageInv'
  BY <1>0, StageStep
<1>2. CASE UNCHANGED everything
  BY <1>0, <1>1, <1>2, BothStay DEF BothInv
<1>3. CASE \/ \E line \in Lines : WriteLine(line)
           \/ Compile \/ \E withOwn \in BOOLEAN : InjectText(withOwn)
           \/ EarlyEvent
  <2>1. stage' \notin {"run", "replay"}
    BY <1>3 DEF WriteLine, Compile, InjectText, EarlyEvent, replayVars
  <2> QED
    BY <1>1, <2>1 DEF BothInv, FirstInv, SecondInv
<1>4. CASE LateEvent
  <2>1. /\ stage = "run" /\ stage' = "run" /\ UNCHANGED <<rules, base, nodes>> /\ late' = TRUE
    BY <1>4 DEF LateEvent, EventFromOutside, InjectEvent, Publish, vars, graphVars
  <2>2. SUFFICES ASSUME Settled' PROVE FirstInv'
    BY <1>1, <2>1 DEF BothInv, FirstInv, SecondInv
  <2>3. Settled /\ Running
    BY <1>0, <2>1, <2>2 DEF Settled, Running
  <2>4. PICK n0, e0 : RunOf(n0, e0) /\ (~base => n0 = DSL!NodesOf(rules) /\ e0 = DSL!EdgesOf(rules))
    BY <1>0, <2>1, <2>3 DEF FirstInv
  <2>5. RunOf(n0, e0)'
    BY <1>4, <2>2, <2>3, <2>4, RunUnheard
  <2>6. ~base' => n0 = DSL!NodesOf(rules)' /\ e0 = DSL!EdgesOf(rules)'
    BY <2>1, <2>4
  <2> QED
    BY <2>5, <2>6 DEF FirstInv
<1>5. ASSUME NEW snapshot \in Snapshots, FirstStart(snapshot) PROVE BothInv'
  BY <1>0, <1>1, <1>5, FirstStarts DEF BothInv
<1>6. CASE RunStep
  BY <1>0, <1>1, <1>6, BothRunOn DEF BothInv
<1>7. CASE Replay
  <2>1. SecondInv' /\ stage' = "replay"
    BY <1>0, <1>7, ReplayBegins DEF Replay
  <2> QED
    BY <1>1, <2>1 DEF BothInv, FirstInv
<1>8. CASE ReplayGraph
  <2>1. SecondInv' /\ stage' = "replay"
    BY <1>0, <1>8, ReplayGraphBegins DEF ReplayGraph
  <2> QED
    BY <1>1, <2>1 DEF BothInv, FirstInv
<1> QED
  BY <1>2, <1>3, <1>4, <1>5, <1>6, <1>7, <1>8 DEF ReplayNext

\* A run only adds to its rules and to the nodes that are DONE.
LEMMA TraceGrows ==
    ASSUME NEW in, GoodGraph(in), NEW tr, NEW data, NEW m \in Nat, Trace(in, tr, data, m),
           NEW i \in 0 .. m, NEW j \in i .. m
    PROVE  tr[i].rules \subseteq tr[j].rules /\ tr[i].done \subseteq tr[j].done
<1> DEFINE T == {d \in Nat : i + d <= m => /\ tr[i].rules \subseteq tr[i + d].rules
                                           /\ tr[i].done \subseteq tr[i + d].done}
<1>1. 0 \in T
  OBVIOUS
<1>2. ASSUME NEW d \in Nat, d \in T PROVE d + 1 \in T
  <2>1. SUFFICES ASSUME i + (d + 1) <= m
                 PROVE  /\ tr[i].rules \subseteq tr[i + (d + 1)].rules
                        /\ tr[i].done \subseteq tr[i + (d + 1)].done
    OBVIOUS
  <2>2. PICK k : k = i + d
    OBVIOUS
  <2>3. k \in 0 .. m /\ k + 1 \in 1 .. m /\ i + (d + 1) = k + 1 /\ (k + 1) - 1 = k
    BY <2>1, <2>2
  <2>4. tr[i].rules \subseteq tr[k].rules /\ tr[i].done \subseteq tr[k].done
    BY <1>2, <2>2, <2>3
  <2>5. Ticks(in, tr[k], tr[k + 1]) /\ Moment(in, tr[k])
    BY <2>3 DEF Trace
  <2>6. tr[k].rules \subseteq tr[k + 1].rules /\ tr[k].done \subseteq tr[k + 1].done
    BY <2>5, MomentNext DEF Ticks
  <2> QED
    BY <2>3, <2>4, <2>6
<1>3. Nat \subseteq T
  <2> HIDE DEF T
  <2> QED
    BY <1>1, <1>2, SetInduction
<1>4. j - i \in Nat /\ i + (j - i) = j
  OBVIOUS
<1> QED
  BY <1>3, <1>4

\* Two runs that are given the same and do not race go through the same moments.
LEMMA RunsCoincide ==
    ASSUME NEW in, NEW jn, NEW tr, NEW ur, NEW T, NEW U, NEW d1, NEW d2, NEW h1, NEW h2,
           NEW g1, NEW g2, MaxTicks \in Nat,
           RanAs(in, tr, T, d1, h1, g1), RanAs(jn, ur, U, d2, h2, g2),
           \A i \in Nat : i < T => NoRace(in, tr[i]),
           \A i \in Nat : i <= T /\ i <= U /\ tr[i] = ur[i] =>
              Agree(in, jn, GraphNodes(in, tr[i].rules))
    PROVE  T = U /\ tr[T] = ur[U]
<1>1. T \in Nat /\ U \in Nat /\ T <= MaxTicks /\ U <= MaxTicks
      /\ Trace(in, tr, initial, T) /\ Trace(jn, ur, initial, U)
  BY DEF RanAs
<1> DEFINE S == {i \in Nat : i <= T /\ i <= U => tr[i] = ur[i]}
<1>2. 0 \in S
  BY <1>1 DEF Trace
<1>3. ASSUME NEW i \in Nat, i \in S PROVE i + 1 \in S
  <2>1. SUFFICES ASSUME i + 1 <= T, i + 1 <= U PROVE tr[i + 1] = ur[i + 1]
    OBVIOUS
  <2>2. i <= T /\ i <= U /\ i < T /\ i + 1 \in 1 .. T /\ i + 1 \in 1 .. U /\ (i + 1) - 1 = i
    BY <1>1, <2>1
  <2>3. tr[i] = ur[i]
    BY <1>3, <2>2
  <2>4. Agree(in, jn, GraphNodes(in, tr[i].rules)) /\ NoRace(in, tr[i])
    BY <2>2, <2>3
  <2>5. Ticks(in, tr[i], tr[i + 1]) /\ Ticks(jn, tr[i], ur[i + 1])
    BY <1>1, <2>2, <2>3 DEF Trace
  <2>6. Ticks(in, tr[i], ur[i + 1])
    BY <2>4, <2>5, AgreedTicks
  <2> QED
    BY <2>4, <2>5, <2>6, TickDetermined
<1>4. Nat \subseteq S
  <2> HIDE DEF S
  <2> QED
    BY <1>2, <1>3, SetInduction
<1>5. ASSUME NEW i \in Nat, i <= T, i <= U
      PROVE  tr[i] = ur[i] /\ (Still(in, tr[i]) <=> Still(jn, ur[i]))
  <2>1. tr[i] = ur[i]
    BY <1>4, <1>5
  <2>2. Agree(in, jn, GraphNodes(in, tr[i].rules))
    BY <1>5, <2>1
  <2> QED
    BY <2>1, <2>2, AgreedTicks
<1>6. ~(T < U)
  <2> SUFFICES ASSUME T < U PROVE FALSE
    OBVIOUS
  <2>1. T > 0 /\ Still(in, tr[T - 1])
    BY <1>1 DEF RanAs
  <2>2. T \in 1 .. U - 1 /\ T - 1 \in Nat /\ T - 1 <= T /\ T - 1 <= U
    BY <1>1, <2>1
  <2>3. ~Still(jn, ur[T - 1])
    BY <2>2 DEF RanAs
  <2> QED
    BY <1>5, <2>1, <2>2, <2>3
<1>7. ~(U < T)
  <2> SUFFICES ASSUME U < T PROVE FALSE
    OBVIOUS
  <2>1. U > 0 /\ Still(jn, ur[U - 1])
    BY <1>1 DEF RanAs
  <2>2. U \in 1 .. T - 1 /\ U - 1 \in Nat /\ U - 1 <= T /\ U - 1 <= U
    BY <1>1, <2>1
  <2>3. ~Still(in, tr[U - 1])
    BY <2>2 DEF RanAs
  <2> QED
    BY <1>5, <2>1, <2>2, <2>3
<1>8. T = U
  BY <1>1, <1>6, <1>7
<1> QED
  BY <1>1, <1>5, <1>8

\* RaceFree is said of the graph and the values a run has ended with; it tells of
\* each tick of that run.
LEMMA RaceFreeTicks ==
    ASSUME Running, NEW in, NEW tr, RunInv(in, tr), pc = "idle", RaceFree
    PROVE  \A i \in Nat : i < ticks => NoRace(in, tr[i])
<1>1. GoodGraph(in) /\ Trace(in, tr, initial, ticks) /\ GraphIs(in, tr[ticks])
      /\ Same(tr[ticks]) /\ EventInv /\ in = Given(in.nodes, in.edges)
  BY DEF RunInv, Here, Over
<1>2. ticks \in Nat /\ nodes \subseteq Node
  BY RunningFacts DEF TypeOK
<1> SUFFICES ASSUME NEW i \in Nat, i < ticks PROVE NoRace(in, tr[i])
  OBVIOUS
<1>3. PICK s, u : s = tr[i] /\ u = tr[ticks]
  OBVIOUS
<1>4. Moment(in, s) /\ Moment(in, u) /\ s.rules \subseteq u.rules /\ u.rules \subseteq Rule
  <2>1. i \in 0 .. ticks /\ ticks \in i .. ticks /\ ticks \in 0 .. ticks
    BY <1>2
  <2>2. Moment(in, s) /\ Moment(in, u)
    BY <1>1, <1>3, <2>1 DEF Trace
  <2> QED
    BY <1>1, <1>2, <1>3, <2>1, <2>2, TraceGrows DEF Moment
<1>5. /\ GraphNodes(in, s.rules) \subseteq nodes
      /\ nodes = GraphNodes(in, u.rules) /\ edges = GraphEdges(in, u.rules)
  BY <1>1, <1>3, <1>4, GraphFacts DEF GraphIs
<1>6. ASSUME NEW n \in Runs(in, s), Succeeds(in, s, n) PROVE state[n] = "DONE" /\ n \in nodes
  <2>1. i + 1 \in 1 .. ticks /\ i + 1 \in 0 .. ticks /\ ticks \in (i + 1) .. ticks
        /\ (i + 1) - 1 = i
    BY <1>2
  <2>2. Ticks(in, s, tr[i + 1])
    BY <1>1, <1>3, <2>1 DEF Trace
  <2>3. n \in tr[i + 1].done
    BY <1>6, <2>2 DEF Ticks, After
  <2>4. n \in u.done
    BY <1>1, <1>2, <1>3, <2>1, <2>3, TraceGrows
  <2>5. n \in nodes
    BY <1>5 DEF Runs
  <2> QED
    BY <1>1, <1>2, <1>3, <2>4, <2>5 DEF Same
<1>7. ASSUME NEW k \in Key, NEW n \in Writers(in, s, k)
      PROVE  /\ n \in nodes \cap (EventNode \cup Bound) /\ Yields(n) = Gives(in, n)
             /\ Yields(n) \in DOMAIN Writes \ DOMAIN Emits /\ k \in DOMAIN Writes[Yields(n)]
             /\ n \in GraphNodes(in, s.rules)
  <2>1. /\ n \in Runs(in, s) /\ Succeeds(in, s, n) /\ k \in DOMAIN Writes[Gives(in, n)]
        /\ Gives(in, n) \in DOMAIN Writes \ DOMAIN Emits
    BY DEF Writers
  <2>2. Gives(in, n) \in Value /\ Gives(in, n) # "true" /\ Gives(in, n) # None
    BY <2>1, ReplayConstants, Sentinels
  <2>3. in.bound = Bound /\ in.bus = bus
    BY <1>1 DEF Given
  <2>4. n \in EventNode \cup Bound
    BY <2>2, <2>3 DEF Gives
  <2>5. state[n] = "DONE" /\ n \in nodes
    BY <1>6, <2>1
  <2>6. n \in EventNode => eventValue[n] = LatestData(bus, n)
    BY <1>1, <2>5 DEF EventInv
  <2>7. n \in Bound => n \notin EventNode /\ n \notin ConditionNode
    BY NodeKinds DEF Bound
  <2>8. Yields(n) = Gives(in, n)
    BY <2>3, <2>4, <2>6, <2>7 DEF Yields, Returns, Gives
  <2>9. n \in GraphNodes(in, s.rules)
    BY <2>1 DEF Runs
  <2> QED
    BY <2>1, <2>4, <2>5, <2>8, <2>9
<1>8. ASSUME NEW k \in Key, NEW a \in Writers(in, s, k), NEW b \in Writers(in, s, k)
      PROVE  \/ LeadsIn(GraphNodes(in, s.rules), GraphEdges(in, s.rules), a, b)
             \/ LeadsIn(GraphNodes(in, s.rules), GraphEdges(in, s.rules), b, a)
             \/ Writes[Gives(in, a)][k] = Writes[Gives(in, b)][k]
  <2>1. /\ a \in nodes \cap (EventNode \cup Bound) /\ b \in nodes \cap (EventNode \cup Bound)
        /\ Yields(a) = Gives(in, a) /\ Yields(b) = Gives(in, b)
        /\ Yields(a) \in DOMAIN Writes \ DOMAIN Emits /\ Yields(b) \in DOMAIN Writes \ DOMAIN Emits
        /\ k \in DOMAIN Writes[Yields(a)] \cap DOMAIN Writes[Yields(b)]
        /\ a \in GraphNodes(in, s.rules) /\ b \in GraphNodes(in, s.rules)
    BY <1>7
  <2>2. \/ Leads(a, b) \/ Leads(b, a)
        \/ Writes[Yields(a)][k] = Writes[Yields(b)][k]
    BY <2>1 DEF RaceFree
  <2>3. /\ Leads(a, b) => LeadsIn(GraphNodes(in, u.rules), GraphEdges(in, u.rules), a, b)
        /\ Leads(b, a) => LeadsIn(GraphNodes(in, u.rules), GraphEdges(in, u.rules), b, a)
    BY <1>5 DEF Leads, LeadsIn
  <2> QED
    BY <1>1, <1>4, <2>1, <2>2, <2>3, LeadsBack
<1> QED
  BY <1>3, <1>8 DEF NoRace

\* When the second run has ended it has gone through the moments of the first.
LEMMA BothEnd == ASSUME BothInv PROVE ReplayReproduces
<1> SUFFICES ASSUME Replayed, Reproducible, RaceFree
             PROVE  /\ store = first.store /\ ticks = first.ticks
                    /\ <<nodes, edges>> = first.graph
                    /\ Told(history) = Told(first.history)
  BY DEF ReplayReproduces
<1>1. StageInv /\ SecondInv /\ stage = "replay" /\ pc = "idle" /\ Settled /\ Running
  BY DEF BothInv, Replayed, Reproducible, Settled, Running
<1>2. PICK jn, ur : FirstRun(jn, ur) /\ RunOf(jn.nodes, jn.edges) /\ bus = jn.bus
  BY <1>1 DEF SecondInv
<1>3. PICK in, tr : RunInv(in, tr) /\ in.nodes = jn.nodes /\ in.edges = jn.edges
  BY <1>2 DEF RunOf
<1>4. /\ RanAs(in, tr, ticks, store, history, <<nodes, edges>>)
      /\ RanAs(jn, ur, first.ticks, first.store, first.history, first.graph)
      /\ first.bound = jn.bound \cap first.graph[1]
  BY <1>1, <1>2, <1>3, RunEnds DEF FirstRun
<1>5. \A i \in Nat : i < ticks => NoRace(in, tr[i])
  BY <1>1, <1>3, RaceFreeTicks
<1>6. ticks \in Nat /\ first.ticks \in Nat /\ MaxTicks \in Nat
  BY <1>1, <1>4, RunningFacts DEF RanAs
<1>7. ASSUME NEW i \in Nat, i <= ticks, i <= first.ticks, tr[i] = ur[i]
      PROVE  Agree(in, jn, GraphNodes(in, tr[i].rules))
  <2>1. i \in 0 .. ticks /\ ticks \in i .. ticks /\ i \in 0 .. first.ticks
        /\ first.ticks \in i .. first.ticks
    BY <1>6, <1>7
  <2>2. GraphNodes(in, tr[i].rules) \subseteq nodes
    <3>1. tr[i].rules \subseteq tr[ticks].rules
      BY <1>4, <1>6, <2>1, TraceGrows DEF RanAs
    <3> QED
      BY <1>4, <3>1 DEF RanAs, GraphNodes
  <2>3. GraphNodes(in, tr[i].rules) \subseteq first.graph[1]
    <3>1. ur[i].rules \subseteq ur[first.ticks].rules
      BY <1>4, <1>6, <2>1, TraceGrows DEF RanAs
    <3> QED
      BY <1>3, <1>4, <1>7, <3>1 DEF RanAs, GraphNodes
  <2>4. in.bound = Bound /\ in.bus = jn.bus
    BY <1>2, <1>3 DEF RunInv, Given
  <2>5. Bound \cap nodes = jn.bound \cap first.graph[1]
    BY <1>4 DEF Reproducible
  <2> QED
    BY <1>3, <2>2, <2>3, <2>4, <2>5 DEF Agree
<1>8. ticks = first.ticks /\ tr[ticks] = ur[first.ticks]
  BY <1>4, <1>5, <1>6, <1>7, RunsCoincide
<1>9. \A R : GraphNodes(in, R) = GraphNodes(jn, R) /\ GraphEdges(in, R) = GraphEdges(jn, R)
  BY <1>3, SameGraph
<1> QED
  BY <1>4, <1>8, <1>9 DEF RanAs

\* It holds at first.
LEMMA BothFirst == ReplayInit => BothInv
<1> SUFFICES ASSUME ReplayInit PROVE BothInv
  OBVIOUS
<1>1. LoopInit /\ stage = "write" /\ text = <<>> /\ rules = <<>> /\ base = FALSE
      /\ initial = NoData /\ late = FALSE
  BY DEF ReplayInit
<1>2. LoopHeld
  <2>1. IInv
    BY <1>1, InvariantStarts DEF LoopInit
  <2>2. EventsTyped
    BY <1>1, QueueFacts DEF LoopInit, EventsTyped
  <2>3. LInv
    BY <1>1, <2>2 DEF LoopInit, Init, LInv, Phases, Callers, StartsEmpty, OnlyRaised
  <2>4. <<>> \in Seq(nodes) /\ <<>> \in Seq(Rule \cup {Garbled}) /\ 0 \in 0 .. Len(<<>>)
    OBVIOUS
  <2>5. NoData \in [Key -> Val \cup {Missing}] /\ 0 \in 0 .. TickBound
    BY LoopBounds DEF NoData
  <2>6. LoopTypeOK
    <3>1. pc = "build" /\ phase = "idle"
      BY <1>1 DEF LoopInit, Init
    <3> QED
      BY <1>1, <2>2, <2>4, <2>5, <3>1 DEF LoopInit, LoopTypeOK, EventsTyped
  <2>7. FreshLocals /\ WrittenSoFar
    BY <1>1 DEF LoopInit, FreshLocals, WrittenSoFar
  <2> QED
    BY <2>1, <2>3, <2>6, <2>7 DEF LoopHeld, LoopInv
<1>3. GoodRules(<<>>) /\ <<>> \in Seq(Lines) /\ NoData \in [Key -> Val \cup {Missing}]
  BY DEF GoodRules, NoData
<1> QED
  BY <1>1, <1>2, <1>3
     DEF BothInv, StageInv, WriteInv, ReadyInv, CallInv, QueueInv, TextInv, FirstInv, SecondInv

\* Deterministic replay: a second run of the same text or graph, from the same store
\* and with the same events and functions, takes as many ticks, ends in the same store
\* and graph and tells of each node what the first run told, if no two writers race.
THEOREM SecondRunReproducesTheFirst == ReplaySpec => []ReplayReproduces
<1>1. ReplayInit => BothInv
  BY BothFirst
<1>2. BothInv /\ [ReplayNext]_everything => BothInv'
  BY BothStep
<1>3. BothInv => ReplayReproduces
  BY BothEnd
<1> QED
  BY <1>1, <1>2, <1>3, PTL DEF ReplaySpec

-----------------------------------------------------------------------------
(* Where the blocks of a text stand.                                       *)

\* Block B is the lines of the text from line s to a separator or the text's end.
Span(T, s, B) ==
    /\ s \in 1 .. Len(T) /\ B \in Block /\ s + Len(B) <= Len(T) + 1
    /\ \A k \in 1 .. Len(B) : B[k] = T[s + k - 1]
    /\ s = 1 \/ DSL!Separator(T[s - 1])
    /\ s + Len(B) = Len(T) + 1 \/ DSL!Separator(T[s + Len(B)])

\* The blocks stand one below the other in the first i lines of the text, each
\* from the line that at says, and hold all of those that are no separators.
Spans(T, blocks, at, i) ==
    /\ at \in Seq(1 .. Len(T)) /\ blocks \in Seq(Block) /\ Len(at) = Len(blocks)
    /\ \A b \in 1 .. Len(blocks) :
          Span(T, at[b], blocks[b]) /\ at[b] + Len(blocks[b]) <= i + 1
    /\ \A b, c \in 1 .. Len(blocks) : b < c => at[b] + Len(blocks[b]) <= at[c]
    /\ \A k \in 1 .. i : DSL!Separator(T[k]) \/
          \E b \in 1 .. Len(blocks) : at[b] <= k /\ k < at[b] + Len(blocks[b])

\* Below such blocks stands one more, with separators between it and line i.
LEMMA SpansAppend ==
    ASSUME NEW T \in Seq(Lines), NEW blocks, NEW at, NEW s \in 1 .. Len(T), NEW B,
           NEW i \in 0 .. Len(T), Spans(T, blocks, at, s - 1), Span(T, s, B),
           s + Len(B) <= i + 1, \A k \in s + Len(B) .. i : DSL!Separator(T[k])
    PROVE  Spans(T, Append(blocks, B), Append(at, s), i)
<1> DEFINE N == 1 .. Len(T)
           K == Block
           n == Len(blocks)
           bs == Append(blocks, B)
           ats == Append(at, s)
<1>1. /\ at \in Seq(N) /\ blocks \in Seq(K) /\ Len(at) = n /\ B \in K /\ s \in N
      /\ Len(T) \in Nat /\ n \in Nat /\ Len(B) \in Nat
  <2>1. Len(B) \in Nat /\ Len(T) \in Nat
    BY DEF Span, Block
  <2> QED
    BY <2>1 DEF Spans, Span
<1>2. /\ ats \in Seq(N) /\ bs \in Seq(K) /\ Len(bs) = n + 1 /\ Len(ats) = n + 1
      /\ \A b \in 1 .. n : bs[b] = blocks[b] /\ ats[b] = at[b]
      /\ bs[n + 1] = B /\ ats[n + 1] = s
  <2> HIDE DEF N, K
  <2> QED
    BY <1>1
<1>3. \A b \in 1 .. n : at[b] \in Nat /\ blocks[b] \in K /\ Len(blocks[b]) \in Nat
  <2>1. \A b \in 1 .. n : at[b] \in N /\ blocks[b] \in K
    <3> HIDE DEF N, K
    <3> QED
      BY <1>1
  <2>2. \A C \in K : Len(C) \in Nat
    BY DEF Block
  <2> QED
    BY <1>1, <2>1, <2>2
<1>4. s \in Nat /\ i \in Nat /\ n \in Nat /\ Len(B) \in Nat
  BY <1>1
<1>5. /\ \A b \in 1 .. n : bs[b] = blocks[b] /\ ats[b] = at[b]
      /\ bs[n + 1] = B /\ ats[n + 1] = s
  BY <1>2
<1> HIDE DEF bs, ats, K, n
<1>6. ASSUME NEW b \in 1 .. n + 1
      PROVE  Span(T, ats[b], bs[b]) /\ ats[b] + Len(bs[b]) <= i + 1
  <2>1. CASE b \in 1 .. n
    <3>1. Span(T, at[b], blocks[b]) /\ at[b] + Len(blocks[b]) <= (s - 1) + 1
      BY <2>1 DEF Spans, n
    <3> QED
      BY <1>3, <1>4, <1>5, <2>1, <3>1
  <2>2. CASE b = n + 1
    BY <1>5, <1>4, <2>2
  <2>3. b \in 1 .. n \/ b = n + 1
    BY <1>4
  <2> QED
    BY <2>1, <2>2, <2>3
<1>7. ASSUME NEW b \in 1 .. n + 1, NEW c \in 1 .. n + 1, b < c
      PROVE  ats[b] + Len(bs[b]) <= ats[c]
  <2>1. b \in 1 .. n
    BY <1>4, <1>7
  <2>2. CASE c \in 1 .. n
    <3>1. at[b] + Len(blocks[b]) <= at[c]
      BY <1>7, <2>1, <2>2 DEF Spans, n
    <3> QED
      BY <1>5, <2>1, <2>2, <3>1
  <2>3. CASE c = n + 1
    <3>1. at[b] + Len(blocks[b]) <= (s - 1) + 1
      BY <2>1 DEF Spans, n
    <3> QED
      BY <1>3, <1>4, <1>5, <2>1, <2>3, <3>1
  <2> QED
    BY <1>4, <2>2, <2>3
<1>8. ASSUME NEW k \in 1 .. i, ~DSL!Separator(T[k])
      PROVE  \E b \in 1 .. n + 1 : ats[b] <= k /\ k < ats[b] + Len(bs[b])
  <2>1. k < s + Len(B)
    <3>1. k \notin s + Len(B) .. i
      BY <1>8
    <3> QED
      BY <1>4, <3>1
  <2>2. CASE k < s
    <3>1. k \in 1 .. s - 1
      BY <1>4, <2>2
    <3>2. PICK b \in 1 .. n : at[b] <= k /\ k < at[b] + Len(blocks[b])
      BY <1>8, <3>1 DEF Spans, n
    <3>3. b \in 1 .. n + 1
      BY <1>4
    <3> QED
      BY <1>5, <3>2, <3>3
  <2>3. CASE s <= k
    <3>1. n + 1 \in 1 .. n + 1
      BY <1>4
    <3> QED
      BY <1>5, <2>1, <2>3, <3>1
  <2> QED
    BY <1>4, <2>2, <2>3
<1> QED
  BY <1>2, <1>6, <1>7, <1>8, <1>1 DEF Spans, bs, ats, K

\* After i lines: the finished blocks stand above the current one, which is the
\* last lines taken.
TakenSpans(T, acc, i) ==
    LET s == i + 1 - Len(acc.current)
    IN  /\ s \in 1 .. i + 1
        /\ \A k \in 1 .. Len(acc.current) : acc.current[k] = T[s + k - 1]
        /\ s = 1 \/ DSL!Separator(T[s - 1])
        /\ \E at : Spans(T, acc.blocks, at, s - 1)

\* One more line keeps it so.
LEMMA TakeSpans ==
    ASSUME NEW T \in Seq(Lines), NEW i \in 0 .. Len(T), i < Len(T),
           NEW acc \in [blocks : Seq(Block), current : Seq(BlockLine)], TakenSpans(T, acc, i)
    PROVE  TakenSpans(T, DSL!Take(acc, T[i + 1]), i + 1)
<1> DEFINE cur == acc.current
           l == Len(cur)
           s == i + 1 - l
           line == T[i + 1]
           new == DSL!Take(acc, line)
<1>1. /\ cur \in Seq(BlockLine) /\ l \in Nat /\ Len(T) \in Nat /\ i \in Nat
      /\ i + 1 \in 1 .. Len(T) /\ line \in Lines /\ s \in 1 .. i + 1
  <2>1. cur \in Seq(BlockLine)
    OBVIOUS
  <2>2. Len(T) \in Nat /\ i \in Nat /\ i + 1 \in 1 .. Len(T)
    OBVIOUS
  <2>3. line \in Lines
    BY <2>2
  <2> QED
    BY <2>1, <2>2, <2>3 DEF TakenSpans
<1>2. /\ \A k \in 1 .. l : cur[k] = T[s + k - 1]
      /\ s = 1 \/ DSL!Separator(T[s - 1])
  BY DEF TakenSpans
<1>3. PICK at : Spans(T, acc.blocks, at, s - 1)
  <2>1. \E at : Spans(T, acc.blocks, at, s - 1)
    BY Zenon DEF TakenSpans, s, l, cur
  <2> QED
    BY <2>1
<1>4. CASE ~DSL!Separator(line)
  <2>1. new.current = Append(cur, line) /\ new.blocks = acc.blocks
    BY <1>4 DEF DSL!Take
  <2>2. line \in BlockLine
    BY <1>1, <1>4 DEF BlockLine
  <2>3. /\ Len(new.current) = l + 1 /\ new.current[l + 1] = line
        /\ \A k \in 1 .. l : new.current[k] = cur[k]
    BY <1>1, <2>1, <2>2
  <2> HIDE DEF new, cur, l
  <2>4. (i + 1) + 1 - Len(new.current) = s
    BY <1>1, <2>3
  <2>5. \A k \in 1 .. Len(new.current) : new.current[k] = T[s + k - 1]
    <3> SUFFICES ASSUME NEW k \in 1 .. l + 1 PROVE new.current[k] = T[s + k - 1]
      BY <2>3
    <3>1. CASE k \in 1 .. l
      BY <1>2, <2>3, <3>1
    <3>2. CASE k = l + 1
      <4>1. s + k - 1 = i + 1
        BY <1>1, <3>2
      <4> QED
        BY <2>3, <3>2, <4>1 DEF line
    <3> QED
      BY <1>1, <3>1, <3>2
  <2>6. s \in 1 .. (i + 1) + 1
    BY <1>1
  <2>7. \E a : Spans(T, new.blocks, a, s - 1)
    BY <1>3, <2>1
  <2> HIDE DEF s
  <2> QED
    BY <1>2, <2>4, <2>5, <2>6, <2>7, Zenon DEF TakenSpans, new, line
<1>5. CASE DSL!Separator(line)
  <2>1. new.current = <<>>
    BY <1>5 DEF DSL!Take
  <2>2. /\ Len(new.current) = 0 /\ (i + 1) + 1 - Len(new.current) = i + 2
        /\ i + 2 \in 1 .. (i + 1) + 1
        /\ (i + 2) - 1 = i + 1
    BY <1>1, <2>1
  <2>3. \E a : Spans(T, new.blocks, a, i + 1)
    <3>1. CASE cur = <<>>
      <4>1. l = 0 /\ s - 1 = i
        BY <1>1, <3>1
      <4>2. Spans(T, acc.blocks, at, i)
        BY <1>3, <4>1
      <4>3. new.blocks = acc.blocks
        BY <1>5, <3>1 DEF DSL!Take
      <4>4. \A b \in 1 .. Len(acc.blocks) : at[b] + Len(acc.blocks[b]) <= (i + 1) + 1
        <5> SUFFICES ASSUME NEW b \in 1 .. Len(acc.blocks)
                     PROVE  at[b] + Len(acc.blocks[b]) <= (i + 1) + 1
          OBVIOUS
        <5>1. Span(T, at[b], acc.blocks[b]) /\ at[b] + Len(acc.blocks[b]) <= i + 1
          BY <4>2 DEF Spans
        <5>2. at[b] \in Nat /\ Len(acc.blocks[b]) \in Nat
          BY <1>1, <5>1 DEF Span, Block
        <5> QED
          BY <1>1, <5>1, <5>2
      <4>5. \A k \in 1 .. i + 1 : DSL!Separator(T[k]) \/
               \E b \in 1 .. Len(acc.blocks) : at[b] <= k /\ k < at[b] + Len(acc.blocks[b])
        <5> SUFFICES ASSUME NEW k \in 1 .. i + 1, ~DSL!Separator(T[k])
                     PROVE  \E b \in 1 .. Len(acc.blocks) :
                               at[b] <= k /\ k < at[b] + Len(acc.blocks[b])
          OBVIOUS
        <5>1. k \in 1 .. i
          BY <1>1, <1>5
        <5> QED
          BY <4>2, <5>1 DEF Spans
      <4>6. Spans(T, acc.blocks, at, i + 1)
        BY <4>2, <4>4, <4>5 DEF Spans
      <4> QED
        BY <4>3, <4>6
    <3>2. CASE cur # <<>>
      <4>1. new.blocks = Append(acc.blocks, cur)
        BY <1>5, <3>2 DEF DSL!Take
      <4>2. cur \in Block /\ l >= 1 /\ s \in 1 .. Len(T) /\ s + l = i + 1
        BY <1>1, <3>2 DEF Block
      <4>3. Span(T, s, cur)
        BY <1>1, <1>2, <1>5, <4>2 DEF Span
      <4>4. \A k \in s + l .. i + 1 : DSL!Separator(T[k])
        BY <1>1, <1>5, <4>2
      <4>5. i + 1 \in 0 .. Len(T) /\ s + l <= (i + 1) + 1
        BY <1>1, <4>2
      <4> DEFINE j == i + 1
      <4>6. \A k \in s + l .. j : DSL!Separator(T[k])
        BY <4>4
      <4> HIDE DEF s, cur, new, j
      <4>7. Spans(T, Append(acc.blocks, cur), Append(at, s), j)
        BY <1>3, <4>2, <4>3, <4>6, <4>5, SpansAppend DEF l, j
      <4> QED
        BY <4>1, <4>7 DEF j
    <3> QED
      BY <3>1, <3>2
  <2>4. \A k \in 1 .. Len(new.current) : new.current[k] = T[i + 2 + k - 1]
    BY <2>2
  <2> HIDE DEF new
  <2> QED
    BY <1>5, <2>2, <2>3, <2>4, Zenon DEF TakenSpans, line, new
<1> QED
  BY <1>4, <1>5

\* The blocks of a text are its lines, from separator to separator.
LEMMA BlocksOfText ==
    ASSUME NEW T \in Seq(Lines)
    PROVE  \E at : Spans(T, DSL!SplitRuleBlocks(T), at, Len(T))
<1> DEFINE S == [blocks : Seq(Block), current : Seq(BlockLine)]
           n == Len(T)
           end == DSL!LinesTaken(T)
           cur == end.current
           s == n + 1 - Len(cur)
<1>1. PICK acc \in TakenUpTo(T) :
         /\ acc[0] = [blocks |-> <<>>, current |-> <<>>]
         /\ \A i \in 1 .. n : acc[i] = DSL!Take(acc[i - 1], T[i])
         /\ end = acc[n]
  BY LinesTakenStep
<1>2. acc \in [0 .. n -> S] /\ n \in Nat
  BY DEF TakenUpTo
<1> DEFINE H == {i \in Nat : i <= n => TakenSpans(T, acc[i], i)}
<1>3. 0 \in H
  <2>1. /\ Len(acc[0].current) = 0 /\ acc[0].blocks = <<>> /\ Len(acc[0].blocks) = 0
        /\ 0 + 1 - Len(acc[0].current) = 1
    BY <1>1
  <2>2. Spans(T, acc[0].blocks, <<>>, 1 - 1)
    BY <2>1 DEF Spans
  <2>3. TakenSpans(T, acc[0], 0)
    <3>1. 1 \in 1 .. 0 + 1 /\ \A k \in 1 .. Len(acc[0].current) : FALSE
      BY <2>1
    <3> QED
      BY <2>1, <2>2, <3>1, Zenon DEF TakenSpans
  <2> QED
    BY <2>3
<1>4. ASSUME NEW i \in Nat, i \in H PROVE i + 1 \in H
  <2> SUFFICES ASSUME i + 1 <= n PROVE TakenSpans(T, acc[i + 1], i + 1)
    OBVIOUS
  <2>1. /\ i \in 0 .. n /\ i < n /\ i + 1 \in 1 .. n /\ (i + 1) - 1 = i
        /\ TakenSpans(T, acc[i], i)
    BY <1>2, <1>4
  <2>2. acc[i] \in S
    BY <1>2, <2>1
  <2>3. acc[i + 1] = DSL!Take(acc[i], T[i + 1])
    BY <1>1, <2>1
  <2>4. TakenSpans(T, DSL!Take(acc[i], T[i + 1]), i + 1)
    BY <2>1, <2>2, TakeSpans
  <2> QED
    BY <2>3, <2>4
<1>5. TakenSpans(T, end, n)
  <2>1. n \in H
    <3> HIDE DEF H, n
    <3> QED
      BY <1>2, <1>3, <1>4, SetInduction
  <2> QED
    BY <1>1, <1>2, <2>1
<1>6. end \in S
  BY LinesTakenTyped
<1>7. s \in 1 .. n + 1 /\ cur \in Seq(BlockLine) /\ Len(cur) \in Nat
      /\ (\A k \in 1 .. Len(cur) : cur[k] = T[s + k - 1])
      /\ (s = 1 \/ DSL!Separator(T[s - 1]))
  BY <1>5, <1>6 DEF TakenSpans
<1>8. PICK at : Spans(T, end.blocks, at, s - 1)
  <2>1. \E at : Spans(T, end.blocks, at, s - 1)
    BY <1>5, Zenon DEF TakenSpans, s, cur
  <2> QED
    BY <2>1
<1>9. DSL!SplitRuleBlocks(T)
        = IF cur = <<>> THEN end.blocks ELSE Append(end.blocks, cur)
  BY DEF DSL!SplitRuleBlocks, end, cur
<1>10. CASE cur = <<>>
  <2>1. s - 1 = n
    BY <1>2, <1>7, <1>10
  <2> QED
    BY <1>8, <1>9, <1>10, <2>1
<1>11. CASE cur # <<>>
  <2>1. cur \in Block /\ Len(cur) >= 1 /\ s \in 1 .. n /\ s + Len(cur) = n + 1 /\ n \in 0 .. n
    BY <1>2, <1>7, <1>11 DEF Block
  <2>2. Span(T, s, cur)
    <3> HIDE DEF s, cur
    <3> QED
      BY <1>7, <2>1 DEF Span
  <2>3. \A k \in s + Len(cur) .. n : DSL!Separator(T[k])
    BY <1>2, <2>1
  <2>4. s + Len(cur) <= n + 1
    BY <1>2, <2>1
  <2> HIDE DEF s, cur
  <2>5. Spans(T, Append(end.blocks, cur), Append(at, s), n)
    BY <1>8, <2>1, <2>2, <2>3, <2>4, SpansAppend
  <2> QED
    BY <1>9, <1>11, <2>5
<1> QED
  BY <1>10, <1>11

\* Of the lines from s to the next separator, two are of one rule, and no other
\* line is of a rule with them.
LEMMA SameRuleOfSpan ==
    ASSUME NEW T \in Seq(Lines), NEW s, NEW B, Span(T, s, B),
           NEW i \in s .. s + Len(B) - 1, NEW j \in 1 .. Len(T)
    PROVE  DSL!SameRule(T, i, j) <=> j \in s .. s + Len(B) - 1
<1> DEFINE l == Len(B)
<1>1. /\ s \in Nat /\ s >= 1 /\ l \in Nat /\ Len(T) \in Nat /\ i \in Nat /\ j \in Nat
      /\ s + l <= Len(T) + 1 /\ DOMAIN T = 1 .. Len(T) /\ j >= 1 /\ j <= Len(T)
      /\ s <= i /\ i < s + l
  <2>1. s \in Nat /\ s >= 1 /\ l \in Nat /\ Len(T) \in Nat /\ s + l <= Len(T) + 1
    BY DEF Span, Block
  <2>2. DOMAIN T = 1 .. Len(T)
    OBVIOUS
  <2> QED
    BY <2>1, <2>2
<1>2. \A k \in s .. s + l - 1 : ~DSL!Separator(T[k])
  <2> SUFFICES ASSUME NEW k \in s .. s + l - 1 PROVE ~DSL!Separator(T[k])
    OBVIOUS
  <2>1. k - s + 1 \in 1 .. l /\ s + (k - s + 1) - 1 = k
    BY <1>1
  <2>2. B[k - s + 1] = T[k]
    BY <2>1 DEF Span
  <2>3. B[k - s + 1] \in BlockLine
    BY <2>1 DEF Span, Block
  <2> QED
    BY <2>2, <2>3 DEF BlockLine
<1>3. (s = 1 \/ DSL!Separator(T[s - 1])) /\ (s + l = Len(T) + 1 \/ DSL!Separator(T[s + l]))
  BY DEF Span
<1> HIDE DEF l
<1>4. CASE j \in s .. s + l - 1
  <2>1. \A k \in DOMAIN T :
           (i <= k /\ k <= j) \/ (j <= k /\ k <= i) => k \in s .. s + l - 1
    BY <1>1, <1>4
  <2> QED
    BY <1>2, <1>4, <2>1 DEF DSL!SameRule, l
<1>5. CASE j < s
  <2>1. s - 1 \in DOMAIN T /\ j <= s - 1 /\ s - 1 <= i /\ DSL!Separator(T[s - 1])
    BY <1>1, <1>3, <1>5
  <2>2. ~DSL!SameRule(T, i, j)
    BY <2>1 DEF DSL!SameRule
  <2> QED
    BY <1>1, <1>5, <2>2
<1>6. CASE s + l <= j
  <2>1. s + l \in DOMAIN T /\ i <= s + l /\ s + l <= j /\ DSL!Separator(T[s + l])
    BY <1>1, <1>3, <1>6
  <2>2. ~DSL!SameRule(T, i, j)
    BY <2>1 DEF DSL!SameRule
  <2> QED
    BY <1>1, <1>6, <2>2 DEF l
<1> QED
  BY <1>1, <1>4, <1>5, <1>6

\* The places of the rule that has line s.
RulePlaces(T, s) == {p \in DSL!Places(T) : DSL!SameRule(T, s, p[1])}

\* The k-th place of a rule whose block is B, as it is written from line s on.
Pos(s, B, k) == IF Len(B) = 1 THEN <<s, k>> ELSE <<s + k - 1, 1>>

\* How many there are.
ClauseCount(B) == IF Len(B) = 1 THEN Len(B[1]) ELSE Len(B)

\* A line of a block has a first clause.
LEMMA BlockLineTyped ==
    ASSUME NEW line \in BlockLine
    PROVE  /\ line \in Seq(Clauses) /\ line # <<>> /\ Len(line) \in Nat /\ Len(line) >= 1
           /\ DOMAIN line = 1 .. Len(line) /\ 1 \in DOMAIN line
           /\ \A k \in 1 .. Len(line) : line[k] \in Clauses
<1> DEFINE C == Clauses
<1>1. line # <<>> /\ line \in Seq(C)
  BY ReplayConstants DEF BlockLine, DSL!Separator, DSL!Blank, DSL!Line, DSL!Dashes, Clauses
<1> HIDE DEF C
<1>2. Len(line) \in Nat /\ DOMAIN line = 1 .. Len(line) /\ \A k \in 1 .. Len(line) : line[k] \in C
  BY <1>1
<1>3. Len(line) >= 1
  BY <1>1, <1>2
<1> QED
  BY <1>1, <1>2, <1>3 DEF C

\* The places of a rule are those of its block: the clauses of its only line, or
\* the first one of each line.
LEMMA PlacesOfSpan ==
    ASSUME NEW T \in Seq(Lines), NEW s, NEW B, Span(T, s, B)
    PROVE  /\ RulePlaces(T, s) = {Pos(s, B, k) : k \in 1 .. ClauseCount(B)}
           /\ ClauseCount(B) \in Nat
<1> DEFINE l == Len(B)
<1>1. /\ s \in Nat /\ s >= 1 /\ l \in Nat /\ l >= 1 /\ Len(T) \in Nat
      /\ s + l <= Len(T) + 1 /\ DOMAIN T = 1 .. Len(T)
  <2>1. s \in Nat /\ s >= 1 /\ l \in Nat /\ l >= 1 /\ Len(T) \in Nat /\ s + l <= Len(T) + 1
    BY DEF Span, Block
  <2>2. DOMAIN T = 1 .. Len(T)
    OBVIOUS
  <2> QED
    BY <2>1, <2>2
<1>2. \A k \in 1 .. l : B[k] \in BlockLine /\ T[s + k - 1] = B[k]
  BY DEF Span, Block
<1>3. s \in s .. s + l - 1 /\ \A j \in s .. s + l - 1 : j \in 1 .. Len(T)
  BY <1>1
<1>4. \A i \in s .. s + l - 1 : \A j \in 1 .. Len(T) :
         DSL!SameRule(T, i, j) <=> j \in s .. s + l - 1
  BY SameRuleOfSpan
<1>5. \A i \in s .. s + l - 1 : T[i] = B[i - s + 1] /\ i - s + 1 \in 1 .. l
  <2> SUFFICES ASSUME NEW i \in s .. s + l - 1
               PROVE  T[i] = B[i - s + 1] /\ i - s + 1 \in 1 .. l
    OBVIOUS
  <2>1. i - s + 1 \in 1 .. l /\ s + (i - s + 1) - 1 = i
    BY <1>1
  <2> QED
    BY <1>2, <2>1
<1> HIDE DEF l
<1>6. ASSUME NEW p, p \in RulePlaces(T, s)
      PROVE  \E k \in 1 .. ClauseCount(B) : p = Pos(s, B, k)
  <2>1. p \in DSL!Places(T) /\ DSL!SameRule(T, s, p[1])
    BY <1>6 DEF RulePlaces
  <2>2. p \in DSL!Written(T)
    BY <2>1 DEF DSL!Places
  <2>3. PICK i \in DOMAIN T : p \in {i} \X DOMAIN T[i]
    BY <2>2 DEF DSL!Written
  <2>4. p = <<i, p[2]>> /\ p[1] = i /\ p[2] \in DOMAIN T[i]
    BY <2>3
  <2>5. i \in s .. s + l - 1
    BY <1>1, <1>3, <1>4, <2>1, <2>4
  <2>6. i - s + 1 \in 1 .. l /\ T[i] = B[i - s + 1] /\ B[i - s + 1] \in BlockLine
    BY <1>2, <1>5, <2>5
  <2>7. CASE l = 1
    <3>1. i = s /\ T[i] = B[1] /\ B[1] \in BlockLine
      BY <1>1, <2>5, <2>6, <2>7
    <3>2. p[2] \in 1 .. Len(B[1])
      BY <2>4, <3>1, BlockLineTyped
    <3> QED
      BY <2>4, <2>7, <3>1, <3>2 DEF Pos, ClauseCount, l
  <2>8. CASE l # 1
    <3>1. p[2] = 1
      <4> SUFFICES ASSUME p[2] # 1 PROVE FALSE
        OBVIOUS
      <4>1. \A j \in DOMAIN T : DSL!SameRule(T, i, j) => j = i
        BY <2>1, <2>4 DEF DSL!Places
      <4>2. PICK j \in s .. s + l - 1 : j # i
        <5>1. s \in s .. s + l - 1 /\ s + 1 \in s .. s + l - 1 /\ s # s + 1
          BY <1>1, <2>8
        <5> QED
          BY <5>1
      <4> QED
        BY <1>1, <1>3, <1>4, <2>5, <4>1, <4>2
    <3>2. p = <<s + (i - s + 1) - 1, 1>>
      BY <1>1, <2>4, <2>5, <3>1
    <3> QED
      BY <2>6, <2>8, <3>2 DEF Pos, ClauseCount, l
  <2> QED
    BY <2>7, <2>8
<1>7. ASSUME NEW k \in 1 .. ClauseCount(B)
      PROVE  Pos(s, B, k) \in RulePlaces(T, s)
  <2> DEFINE p == Pos(s, B, k)
  <2>1. CASE l = 1
    <3>1. p = <<s, k>> /\ k \in 1 .. Len(B[1])
      BY <2>1 DEF Pos, ClauseCount, l
    <3>2. T[s] = B[1] /\ B[1] \in BlockLine
      BY <1>1, <1>2, <1>3, <1>5, <2>1
    <3>3. k \in DOMAIN T[s] /\ ~DSL!Separator(T[s]) /\ s \in DOMAIN T
      <4>1. ~DSL!Separator(B[1])
        BY <3>2 DEF BlockLine
      <4> QED
        BY <1>1, <1>3, <3>1, <3>2, <4>1, BlockLineTyped
    <3>4. p \in DSL!Written(T)
      BY <3>1, <3>3 DEF DSL!Written
    <3>5. \A j \in DOMAIN T : DSL!SameRule(T, p[1], j) => j = p[1]
      BY <1>1, <1>3, <1>4, <2>1, <3>1
    <3>6. DSL!SameRule(T, s, p[1])
      BY <1>1, <1>3, <1>4, <3>1
    <3> HIDE DEF p
    <3> QED
      BY <3>4, <3>5, <3>6 DEF DSL!Places, RulePlaces, p
  <2>2. CASE l # 1
    <3>1. p = <<s + k - 1, 1>> /\ k \in 1 .. l
      BY <2>2 DEF Pos, ClauseCount, l
    <3>2. T[s + k - 1] = B[k] /\ B[k] \in BlockLine /\ s + k - 1 \in s .. s + l - 1
      BY <1>1, <1>2, <3>1
    <3>3. 1 \in DOMAIN T[s + k - 1] /\ ~DSL!Separator(T[s + k - 1]) /\ s + k - 1 \in DOMAIN T
      <4>1. ~DSL!Separator(B[k])
        BY <3>2 DEF BlockLine
      <4> QED
        BY <1>1, <1>3, <3>2, <4>1, BlockLineTyped
    <3>4. p \in DSL!Written(T)
      BY <3>1, <3>3 DEF DSL!Written
    <3>5. p[2] = 1
      BY <3>1
    <3>6. DSL!SameRule(T, s, p[1])
      BY <1>1, <1>3, <1>4, <3>1, <3>2
    <3> HIDE DEF p
    <3> QED
      BY <3>4, <3>5, <3>6 DEF DSL!Places, RulePlaces, p
  <2> QED
    BY <2>1, <2>2
<1>8. ClauseCount(B) \in Nat
  BY <1>1, <1>2, BlockLineTyped DEF ClauseCount, l
<1> QED
  BY <1>6, <1>7, <1>8

\* Of the clauses at the places of a block, those above are those with a smaller number.
LEMMA AboveInSpan ==
    ASSUME NEW T \in Seq(Lines), NEW s, NEW B, Span(T, s, B), NEW k \in 1 .. ClauseCount(B)
    PROVE  /\ DSL!Above(T, Pos(s, B, k)) = {Pos(s, B, m) : m \in 1 .. k - 1}
           /\ \A m \in 1 .. ClauseCount(B) : Pos(s, B, m) = Pos(s, B, k) => m = k
           /\ \A m \in 1 .. ClauseCount(B) :
                 Pos(s, B, m) \in DSL!Above(T, Pos(s, B, k)) <=> m < k
           /\ \A r \in DSL!Places(T) :
                 DSL!SameRule(T, Pos(s, B, k)[1], r[1]) <=> r \in RulePlaces(T, s)
<1> DEFINE l == Len(B)
           p == Pos(s, B, k)
<1>1. /\ s \in Nat /\ s >= 1 /\ l \in Nat /\ l >= 1 /\ Len(T) \in Nat
      /\ s + l <= Len(T) + 1 /\ DOMAIN T = 1 .. Len(T)
  <2>1. s \in Nat /\ s >= 1 /\ l \in Nat /\ l >= 1 /\ Len(T) \in Nat /\ s + l <= Len(T) + 1
    BY DEF Span, Block
  <2>2. DOMAIN T = 1 .. Len(T)
    OBVIOUS
  <2> QED
    BY <2>1, <2>2
<1>2. /\ RulePlaces(T, s) = {Pos(s, B, m) : m \in 1 .. ClauseCount(B)}
      /\ ClauseCount(B) \in Nat
  BY PlacesOfSpan
<1>3. \A m \in 1 .. ClauseCount(B) : Pos(s, B, m)[1] \in s .. s + l - 1
  <2>1. l = 1 => \A m \in 1 .. ClauseCount(B) : Pos(s, B, m)[1] = s
    BY DEF Pos, l
  <2>2. l # 1 => ClauseCount(B) = l /\ \A m \in 1 .. ClauseCount(B) : Pos(s, B, m)[1] = s + m - 1
    BY DEF Pos, ClauseCount, l
  <2> HIDE DEF l
  <2> QED
    BY <1>1, <2>1, <2>2
<1>4. \A r \in DSL!Places(T) : r[1] \in 1 .. Len(T)
  BY <1>1 DEF DSL!Places, DSL!Written
<1>5. \A i \in s .. s + l - 1 : \A j \in 1 .. Len(T) :
         DSL!SameRule(T, i, j) <=> j \in s .. s + l - 1
  BY SameRuleOfSpan
<1>6. s \in s .. s + l - 1 /\ p[1] \in s .. s + l - 1
  BY <1>1, <1>3
<1>7. \A r \in DSL!Places(T) : DSL!SameRule(T, p[1], r[1]) <=> r \in RulePlaces(T, s)
  BY <1>4, <1>5, <1>6 DEF RulePlaces
<1>8. ASSUME NEW m \in 1 .. ClauseCount(B)
      PROVE  LET q == Pos(s, B, m)
             IN  /\ q[1] < p[1] \/ (q[1] = p[1] /\ q[2] < p[2]) <=> m < k
                 /\ q = p => m = k
  <2>1. m \in Nat /\ k \in Nat
    BY <1>2
  <2>2. CASE l = 1
    <3>1. Pos(s, B, m) = <<s, m>> /\ p = <<s, k>>
      BY <2>2 DEF Pos, l
    <3> HIDE DEF p, l
    <3> QED
      BY <1>1, <2>1, <3>1
  <2>3. CASE l # 1
    <3>1. Pos(s, B, m) = <<s + m - 1, 1>> /\ p = <<s + k - 1, 1>>
      BY <2>3 DEF Pos, l
    <3> HIDE DEF p, l
    <3> QED
      BY <1>1, <2>1, <3>1
  <2> QED
    BY <2>2, <2>3
<1>9. DSL!Above(T, p) = {q \in RulePlaces(T, s) :
                           q[1] < p[1] \/ (q[1] = p[1] /\ q[2] < p[2])}
  <2>1. RulePlaces(T, s) \subseteq DSL!Places(T)
    BY DEF RulePlaces
  <2> HIDE DEF p
  <2> QED
    BY <1>7, <2>1 DEF DSL!Above
<1> HIDE DEF p, l
<1>10. \A m \in 1 .. ClauseCount(B) : Pos(s, B, m) \in DSL!Above(T, p) <=> m < k
  BY <1>2, <1>8, <1>9
<1>11. DSL!Above(T, p) = {Pos(s, B, m) : m \in 1 .. k - 1}
  <2>1. \A m : m \in 1 .. k - 1 <=> m \in 1 .. ClauseCount(B) /\ m < k
    BY <1>2
  <2>2. DSL!Above(T, p) \subseteq {Pos(s, B, m) : m \in 1 .. ClauseCount(B)}
    BY <1>2, <1>9
  <2> QED
    BY <1>10, <2>1, <2>2
<1> QED
  BY <1>7, <1>8, <1>10, <1>11 DEF p

-----------------------------------------------------------------------------
(* What a block that the parser accepts is compiled into.                  *)

\* The k-th clause of such a rule, in the order in which they are written.
ClauseOf(B, k) == IF Len(B) = 1 THEN B[1][k] ELSE B[k][1]

\* Which clause is compiled as the k-th, if the THEN is clause t.
PlaceIn(t, k) == IF k = 1 \/ k > t THEN k ELSE IF k = 2 THEN t ELSE k - 1

\* The first clause is the IF, one is the THEN, the others are CAUSEs.
Shape(B, t) ==
    /\ t \in 2 .. ClauseCount(B)
    /\ \A k \in 1 .. ClauseCount(B) :
          /\ ClauseOf(B, k) \in Clauses
          /\ ClauseOf(B, k).kw = IF k = 1 THEN "IF" ELSE IF k = t THEN "THEN" ELSE "CAUSE"

\* What stands at a place of a rule.
LEMMA ClauseAtPlace ==
    ASSUME NEW T \in Seq(Lines), NEW s, NEW B, Span(T, s, B), NEW m \in 1 .. ClauseCount(B)
    PROVE  DSL!At(T, Pos(s, B, m)) = ClauseOf(B, m)
<1>1. \A k \in 1 .. Len(B) : B[k] = T[s + k - 1]
  BY DEF Span
<1>2. s \in Nat
  BY DEF Span
<1>3. CASE Len(B) = 1
  <2>1. T[s] = B[1] /\ Pos(s, B, m) = <<s, m>> /\ ClauseOf(B, m) = B[1][m]
    BY <1>1, <1>2, <1>3 DEF Pos, ClauseOf
  <2> QED
    BY <2>1 DEF DSL!At
<1>4. CASE Len(B) # 1
  <2>1. m \in 1 .. Len(B) /\ Pos(s, B, m) = <<s + m - 1, 1>> /\ ClauseOf(B, m) = B[m][1]
    BY <1>4 DEF Pos, ClauseOf, ClauseCount
  <2> QED
    BY <1>1, <2>1 DEF DSL!At
<1> QED
  BY <1>3, <1>4

\* The lines that a rule on one line is cut into.
LEMMA Normalized ==
    ASSUME NEW B \in Block, DSL!ParsesBlock(B)
    PROVE  LET lines == DSL!NormalizeBlock(B)
           IN  /\ DOMAIN lines = 1 .. ClauseCount(B) /\ Len(lines) = ClauseCount(B)
               /\ ClauseCount(B) \in Nat /\ ClauseCount(B) >= 1
               /\ \A k \in 1 .. ClauseCount(B) :
                     lines[k][1] = ClauseOf(B, k) /\ ClauseOf(B, k) \in Clauses
<1> DEFINE lines == DSL!NormalizeBlock(B)
           line == B[1]
           n == Len(line)
           Piece(clause) == IF clause.kw # "IF" /\ clause.node \in Quoting THEN <<DSL!Noise>>
                            ELSE <<clause>>
<1>1. /\ B \in Seq(BlockLine) /\ Len(B) \in Nat /\ Len(B) >= 1 /\ DOMAIN B = 1 .. Len(B)
      /\ \A k \in 1 .. Len(B) : B[k] \in BlockLine
  BY DEF Block
<1>2. \A k \in 1 .. Len(B) :
         /\ Len(B[k]) \in Nat /\ Len(B[k]) >= 1 /\ DOMAIN B[k] = 1 .. Len(B[k])
         /\ \A i \in 1 .. Len(B[k]) : B[k][i] \in Clauses
  BY <1>1, BlockLineTyped
<1>3. /\ DSL!IsCondition(lines[1])
      /\ \A i \in 2 .. Len(lines) : DSL!IsAction(lines[i])
      /\ \E i \in 2 .. Len(lines) : TRUE
  <2>1. /\ DSL!IsCondition(lines[1])
        /\ \A i \in 2 .. Len(lines) : DSL!IsAction(lines[i])
        /\ \E i \in 2 .. Len(lines) :
              \A j \in 2 .. Len(lines) : lines[j][1].kw = "THEN" <=> j = i
    BY DEF DSL!ParsesBlock
  <2> HIDE DEF lines
  <2> QED
    BY <2>1
<1>4. CASE Len(B) # 1
  <2>1. lines = B
    BY <1>4 DEF DSL!NormalizeBlock
  <2>2. ClauseCount(B) = Len(B) /\ \A k \in 1 .. Len(B) : ClauseOf(B, k) = B[k][1]
    BY <1>4 DEF ClauseCount, ClauseOf
  <2> HIDE DEF lines
  <2> QED
    BY <1>1, <1>2, <2>1, <2>2 DEF lines
<1>5. CASE Len(B) = 1
  <2>1. n \in Nat /\ n >= 1 /\ DOMAIN line = 1 .. n /\ \A i \in 1 .. n : line[i] \in Clauses
    BY <1>1, <1>2, <1>5
  <2>2. lines # B
    <3> HIDE DEF lines
    <3> QED
      BY <1>3, <1>5
  <2>3. lines = [k \in DOMAIN line |-> Piece(line[k])]
    BY <2>2 DEF DSL!NormalizeBlock
  <2> HIDE DEF lines, line, n
  <2>4. lines = [k \in 1 .. n |-> Piece(line[k])]
    BY <2>1, <2>3
  <2> HIDE DEF Piece
  <2>5. DOMAIN lines = 1 .. n /\ Len(lines) = n
    BY <2>1, <2>4
  <2>6. ASSUME NEW k \in 1 .. n PROVE lines[k][1] = line[k]
    <3>1. lines[k] = Piece(line[k])
      BY <2>4
    <3>2. lines[k][1].kw \in {"IF", "THEN", "CAUSE"}
      <4>1. k = 1 \/ k \in 2 .. n
        BY <2>1
      <4> QED
        BY <1>3, <2>5, <4>1 DEF DSL!IsCondition, DSL!IsAction
    <3>3. DSL!Noise.kw \notin {"IF", "THEN", "CAUSE"}
      BY DEF DSL!Noise
    <3> QED
      BY <3>1, <3>2, <3>3 DEF Piece
  <2>7. ClauseCount(B) = n /\ \A k \in 1 .. n : ClauseOf(B, k) = line[k]
    BY <1>5 DEF ClauseCount, ClauseOf, n, line
  <2> QED
    BY <2>1, <2>5, <2>6, <2>7 DEF lines
<1> QED
  BY <1>4, <1>5

\* The rule of a block: the THEN comes second, the CAUSEs follow as they stand.
LEMMA ParsedBlock ==
    ASSUME NEW B \in Block, DSL!ParsesBlock(B)
    PROVE  \E t \in 2 .. ClauseCount(B) :
              /\ Shape(B, t)
              /\ DSL!RuleAST(B)
                   = [k \in 1 .. ClauseCount(B) |-> ClauseOf(B, PlaceIn(t, k)).node]
<1> DEFINE lines == DSL!NormalizeBlock(B)
           n == ClauseCount(B)
           IsThen(i) == i \in DOMAIN lines /\ lines[i][1].kw = "THEN"
           then == CHOOSE i \in DOMAIN lines : lines[i][1].kw = "THEN"
<1>1. /\ DOMAIN lines = 1 .. n /\ Len(lines) = n /\ n \in Nat /\ n >= 1
      /\ \A k \in 1 .. n : lines[k][1] = ClauseOf(B, k) /\ ClauseOf(B, k) \in Clauses
  BY Normalized
<1>2. /\ DSL!IsCondition(lines[1]) /\ \A i \in 2 .. n : DSL!IsAction(lines[i])
      /\ \E i \in 2 .. n : \A j \in 2 .. n : lines[j][1].kw = "THEN" <=> j = i
  <2>1. /\ DSL!IsCondition(lines[1]) /\ \A i \in 2 .. Len(lines) : DSL!IsAction(lines[i])
        /\ \E i \in 2 .. Len(lines) :
              \A j \in 2 .. Len(lines) : lines[j][1].kw = "THEN" <=> j = i
    BY DEF DSL!ParsesBlock
  <2> HIDE DEF lines, n
  <2> QED
    BY <1>1, <2>1
<1>3. PICK t \in 2 .. n : \A j \in 2 .. n : lines[j][1].kw = "THEN" <=> j = t
  BY <1>2
<1>4. lines[1][1].kw = "IF" /\ \A i \in 2 .. n : lines[i][1].kw \in {"THEN", "CAUSE"}
  BY <1>2 DEF DSL!IsCondition, DSL!IsAction
<1>5. DSL!RuleAST(B)
        = [k \in DOMAIN lines |->
             lines[IF k = 1 \/ k > then THEN k ELSE IF k = 2 THEN then ELSE k - 1][1].node]
  BY DEF DSL!RuleAST
<1>6. then = t
  <2> HIDE DEF lines, n
  <2>1. t \in DOMAIN lines /\ lines[t][1].kw = "THEN"
    BY <1>1, <1>3
  <2>2. then \in DOMAIN lines /\ lines[then][1].kw = "THEN"
    BY <2>1, Zenon
  <2> HIDE DEF then
  <2>3. then # 1 /\ then \in 1 .. n
    BY <1>1, <1>4, <2>2
  <2>4. then \in 2 .. n
    BY <1>1, <2>3
  <2> QED
    BY <1>3, <2>2, <2>4
<1> HIDE DEF lines, then, n
<1>7. Shape(B, t)
  <2>1. ASSUME NEW k \in 1 .. n
        PROVE  /\ ClauseOf(B, k) \in Clauses
               /\ ClauseOf(B, k).kw = IF k = 1 THEN "IF" ELSE IF k = t THEN "THEN" ELSE "CAUSE"
    <3>1. k = 1 \/ k \in 2 .. n
      BY <1>1
    <3> QED
      BY <1>1, <1>3, <1>4, <3>1
  <2> QED
    BY <2>1 DEF Shape, n
<1>8. DSL!RuleAST(B) = [k \in 1 .. n |-> ClauseOf(B, PlaceIn(t, k)).node]
  <2>1. \A k \in 1 .. n : PlaceIn(t, k) \in 1 .. n
    BY <1>1 DEF PlaceIn
  <2>2. \A k \in 1 .. n : lines[PlaceIn(t, k)][1] = ClauseOf(B, PlaceIn(t, k))
    BY <1>1, <2>1
  <2>3. DSL!RuleAST(B) = [k \in 1 .. n |-> lines[PlaceIn(t, k)][1].node]
    BY <1>1, <1>5, <1>6 DEF PlaceIn
  <2> QED
    BY <2>2, <2>3
<1> QED
  BY <1>7, <1>8 DEF n

\* The k-th place of a rule in the order in which its clauses are compiled.
CompiledPlace(s, B, t, k) == Pos(s, B, PlaceIn(t, k))

\* In that order the places of a rule precede each other, and each but the first
\* has the one before it for its cause.
LEMMA PlacesCompiled ==
    ASSUME NEW T \in Seq(Lines), NEW s, NEW B, Span(T, s, B), NEW t, Shape(B, t)
    PROVE  LET n == ClauseCount(B)
               Q(k) == CompiledPlace(s, B, t, k)
           IN  /\ RulePlaces(T, s) = {Q(k) : k \in 1 .. n}
               /\ Q(1)[1] = s
               /\ \A k \in 1 .. n : /\ DSL!At(T, Q(k)) = ClauseOf(B, PlaceIn(t, k))
                                    /\ DSL!At(T, Q(k)).kw = "IF" <=> k = 1
               /\ \A j, k \in 1 .. n : DSL!CauseOf(T, Q(j), Q(k)) <=> k = j + 1
<1> DEFINE n == ClauseCount(B)
           Q(k) == CompiledPlace(s, B, t, k)
           P(k) == PlaceIn(t, k)
<1>1. /\ n \in Nat /\ t \in 2 .. n /\ s \in Nat /\ Len(B) \in Nat /\ Len(B) >= 1
      /\ RulePlaces(T, s) = {Pos(s, B, k) : k \in 1 .. n}
  <2>1. n \in Nat /\ RulePlaces(T, s) = {Pos(s, B, k) : k \in 1 .. n}
    BY PlacesOfSpan
  <2>2. t \in 2 .. n
    BY DEF Shape
  <2>3. s \in Nat /\ Len(B) \in Nat /\ Len(B) >= 1
    BY DEF Span, Block
  <2> QED
    BY <2>1, <2>2, <2>3
<1>2. \A k \in 1 .. n : P(k) \in 1 .. n
  BY <1>1 DEF PlaceIn
<1>3. \A m \in 1 .. n : \E k \in 1 .. n : P(k) = m
  <2> SUFFICES ASSUME NEW m \in 1 .. n PROVE \E k \in 1 .. n : P(k) = m
    OBVIOUS
  <2>1. CASE m = 1 \/ m > t
    BY <1>1, <2>1 DEF PlaceIn
  <2>2. CASE m = t
    <3>1. 2 \in 1 .. n /\ P(2) = t
      BY <1>1 DEF PlaceIn
    <3> QED
      BY <2>2, <3>1
  <2>3. CASE m # 1 /\ m < t
    <3>1. m + 1 \in 1 .. n /\ P(m + 1) = m
      BY <1>1, <2>3 DEF PlaceIn
    <3> QED
      BY <3>1
  <2> QED
    BY <1>1, <2>1, <2>2, <2>3
<1>4. RulePlaces(T, s) = {Q(k) : k \in 1 .. n}
  <2>1. \A k \in 1 .. n : Q(k) = Pos(s, B, P(k))
    BY DEF CompiledPlace
  <2> HIDE DEF n, Q, P
  <2>2. {Q(k) : k \in 1 .. n} \subseteq {Pos(s, B, k) : k \in 1 .. n}
    BY <1>2, <2>1
  <2>3. ASSUME NEW m \in 1 .. n PROVE Pos(s, B, m) \in {Q(k) : k \in 1 .. n}
    <3>1. PICK k \in 1 .. n : P(k) = m
      BY <1>3
    <3> QED
      BY <2>1, <3>1
  <2> QED
    BY <1>1, <2>2, <2>3
<1>5. Q(1)[1] = s
  <2>1. P(1) = 1 /\ Q(1) = Pos(s, B, 1)
    BY DEF PlaceIn, CompiledPlace
  <2> QED
    BY <1>1, <2>1 DEF Pos
<1>6. \A m \in 1 .. n : DSL!At(T, Pos(s, B, m)) = ClauseOf(B, m)
  BY ClauseAtPlace
<1>7. \A k \in 1 .. n : /\ DSL!At(T, Q(k)) = ClauseOf(B, P(k))
                        /\ P(k) = 1 <=> k = 1
                        /\ P(k) = t <=> k = 2
                        /\ P(k) \in 1 .. n
  BY <1>1, <1>2, <1>6 DEF CompiledPlace, PlaceIn
<1>8. \A k \in 1 .. n :
         DSL!At(T, Q(k)).kw = IF k = 1 THEN "IF" ELSE IF k = 2 THEN "THEN" ELSE "CAUSE"
  <2>1. \A m \in 1 .. n :
           ClauseOf(B, m).kw = IF m = 1 THEN "IF" ELSE IF m = t THEN "THEN" ELSE "CAUSE"
    BY DEF Shape
  <2> HIDE DEF Q, P, n
  <2> SUFFICES ASSUME NEW k \in 1 .. n
               PROVE  DSL!At(T, Q(k)).kw = IF k = 1 THEN "IF" ELSE IF k = 2 THEN "THEN" ELSE "CAUSE"
    OBVIOUS
  <2>2. DSL!At(T, Q(k)) = ClauseOf(B, P(k)) /\ P(k) \in 1 .. n
    BY <1>7
  <2>3. DSL!At(T, Q(k)).kw
          = IF P(k) = 1 THEN "IF" ELSE IF P(k) = t THEN "THEN" ELSE "CAUSE"
    BY <2>1, <2>2
  <2>4. (P(k) = 1 <=> k = 1) /\ (P(k) = t <=> k = 2)
    BY <1>7
  <2> QED
    BY <2>3, <2>4
<1>9. \A j, k \in 1 .. n : DSL!Precedes(T, Q(j), Q(k)) <=> j < k
  <2> SUFFICES ASSUME NEW j \in 1 .. n, NEW k \in 1 .. n
               PROVE  DSL!Precedes(T, Q(j), Q(k)) <=> j < k
    OBVIOUS
  <2>1. Q(j) \in DSL!Above(T, Q(k)) <=> P(j) < P(k)
    BY <1>2, AboveInSpan DEF CompiledPlace
  <2>2. j > 2 /\ k > 2 => (P(j) < P(k) <=> j < k)
    BY <1>1 DEF PlaceIn
  <2>3. DSL!Precedes(T, Q(j), Q(k)) <=>
          \/ j = 1 /\ k # 1
          \/ j = 2 /\ k \notin {1, 2}
          \/ j \notin {1, 2} /\ k \notin {1, 2} /\ P(j) < P(k)
    <3>1. /\ DSL!At(T, Q(j)).kw = "IF" <=> j = 1
          /\ DSL!At(T, Q(j)).kw = "THEN" <=> j = 2
          /\ DSL!At(T, Q(j)).kw = "CAUSE" <=> j \notin {1, 2}
          /\ DSL!At(T, Q(k)).kw = "IF" <=> k = 1
          /\ DSL!At(T, Q(k)).kw = "THEN" <=> k = 2
          /\ DSL!At(T, Q(k)).kw = "CAUSE" <=> k \notin {1, 2}
      BY <1>8
    <3> HIDE DEF Q, P
    <3> QED
      BY <2>1, <3>1 DEF DSL!Precedes
  <2> HIDE DEF Q, P
  <2> QED
    BY <1>1, <2>2, <2>3
<1>10. \A k \in 1 .. n : \A r \in DSL!Places(T) :
          DSL!SameRule(T, Q(k)[1], r[1]) <=> r \in RulePlaces(T, s)
  BY <1>2, AboveInSpan DEF CompiledPlace
<1>11. ASSUME NEW j \in 1 .. n, NEW k \in 1 .. n
       PROVE  DSL!CauseOf(T, Q(j), Q(k)) <=> k = j + 1
  <2>1. Q(k) \in DSL!Places(T) /\ Q(k) \in RulePlaces(T, s)
    <3> HIDE DEF Q, n
    <3> QED
      BY <1>4 DEF RulePlaces
  <2> HIDE DEF Q, P, n
  <2>2. DSL!SameRule(T, Q(j)[1], Q(k)[1])
    BY <1>10, <2>1
  <2>3. RulePlaces(T, s) \subseteq DSL!Places(T)
    BY DEF RulePlaces
  <2>4. (\A r \in DSL!Places(T) : DSL!SameRule(T, Q(j)[1], r[1]) =>
            ~(DSL!Precedes(T, Q(j), r) /\ DSL!Precedes(T, r, Q(k))))
          <=> \A m \in 1 .. n : ~(j < m /\ m < k)
    <3>1. (\A r \in DSL!Places(T) : DSL!SameRule(T, Q(j)[1], r[1]) =>
             ~(DSL!Precedes(T, Q(j), r) /\ DSL!Precedes(T, r, Q(k))))
           <=> \A r \in RulePlaces(T, s) :
                 ~(DSL!Precedes(T, Q(j), r) /\ DSL!Precedes(T, r, Q(k)))
      BY <1>10, <2>3
    <3>2. (\A r \in RulePlaces(T, s) :
                 ~(DSL!Precedes(T, Q(j), r) /\ DSL!Precedes(T, r, Q(k))))
           <=> \A m \in 1 .. n :
                 ~(DSL!Precedes(T, Q(j), Q(m)) /\ DSL!Precedes(T, Q(m), Q(k)))
      BY <1>4
    <3> QED
      BY <1>9, <3>1, <3>2
  <2>5. DSL!CauseOf(T, Q(j), Q(k)) <=> j < k /\ \A m \in 1 .. n : ~(j < m /\ m < k)
    BY <1>9, <2>2, <2>4 DEF DSL!CauseOf
  <2>6. j < k /\ (\A m \in 1 .. n : ~(j < m /\ m < k)) <=> k = j + 1
    <3>1. j + 1 < k => j + 1 \in 1 .. n
      BY <1>1
    <3> QED
      BY <1>1, <3>1
  <2> QED
    BY <2>5, <2>6
<1>12. \A k \in 1 .. n : DSL!At(T, Q(k)).kw = "IF" <=> k = 1
  <2> HIDE DEF Q, n
  <2> QED
    BY <1>8
<1> HIDE DEF n, P
<1> QED
  BY <1>4, <1>5, <1>7, <1>11, <1>12 DEF n, P

-----------------------------------------------------------------------------
(* The rules of a text and its places.                                     *)

\* The nodes and the edges that stand at places of a text.
NodesAt(T, S) == {DSL!At(T, p).node : p \in S}

CausesAt(T, S) ==
    {<<DSL!At(T, pq[1]).node, DSL!At(T, pq[2]).node>> : pq \in
        {pq \in S \X S : DSL!CauseOf(T, pq[1], pq[2])}}

\* The nodes and the edges of one rule.
NodesOfAST(ast) == {ast[k] : k \in DOMAIN ast}

EdgesOfAST(ast) == {<<ast[k - 1], ast[k]>> : k \in 2 .. Len(ast)}

\* A rule is what stands at its places; only its first node may be of a condition
\* that does not compile.
LEMMA RuleOfSpan ==
    ASSUME NEW T \in Seq(Lines), NEW s, NEW B, Span(T, s, B), DSL!ParsesBlock(B)
    PROVE  /\ NodesOfAST(DSL!RuleAST(B)) = NodesAt(T, RulePlaces(T, s))
           /\ EdgesOfAST(DSL!RuleAST(B)) = CausesAt(T, RulePlaces(T, s))
           /\ \E p \in RulePlaces(T, s) :
                 p[1] = s /\ DSL!At(T, p).node = DSL!RuleAST(B)[1]
           /\ \A p \in RulePlaces(T, s) :
                 DSL!At(T, p).node \in Broken => DSL!RuleAST(B)[1] \in Broken
<1> DEFINE n == ClauseCount(B)
           ast == DSL!RuleAST(B)
           R == RulePlaces(T, s)
<1>1. B \in Block
  BY DEF Span
<1>2. PICK t \in 2 .. n : /\ Shape(B, t)
                          /\ ast = [k \in 1 .. n |-> ClauseOf(B, PlaceIn(t, k)).node]
  BY <1>1, ParsedBlock
<1> DEFINE Q(k) == CompiledPlace(s, B, t, k)
<1>3. /\ R = {Q(k) : k \in 1 .. n}
      /\ Q(1)[1] = s
      /\ \A k \in 1 .. n : /\ DSL!At(T, Q(k)) = ClauseOf(B, PlaceIn(t, k))
                           /\ DSL!At(T, Q(k)).kw = "IF" <=> k = 1
      /\ \A j, k \in 1 .. n : DSL!CauseOf(T, Q(j), Q(k)) <=> k = j + 1
  BY <1>2, PlacesCompiled
<1>4. n \in Nat
  BY PlacesOfSpan
<1>5. \A k \in 1 .. n : ClauseOf(B, PlaceIn(t, k)) \in Clauses
  <2>1. \A k \in 1 .. n : PlaceIn(t, k) \in 1 .. n
    BY <1>2, <1>4 DEF PlaceIn
  <2> QED
    BY <1>2, <2>1 DEF Shape
<1> HIDE DEF n, ast, R, Q
<1>6. DOMAIN ast = 1 .. n /\ Len(ast) = n /\ \A k \in 1 .. n : ast[k] = DSL!At(T, Q(k)).node
  BY <1>2, <1>3, <1>4
<1>7. NodesOfAST(ast) = NodesAt(T, R)
  BY <1>3, <1>6 DEF NodesOfAST, NodesAt
<1>8. EdgesOfAST(ast) = CausesAt(T, R)
  <2>1. ASSUME NEW k \in 2 .. n PROVE <<ast[k - 1], ast[k]>> \in CausesAt(T, R)
    <3>1. k \in 1 .. n /\ k - 1 \in 1 .. n /\ k = (k - 1) + 1
      BY <1>4
    <3>2. Q(k - 1) \in R /\ Q(k) \in R /\ DSL!CauseOf(T, Q(k - 1), Q(k))
      BY <1>3, <3>1
    <3>3. <<Q(k - 1), Q(k)>> \in {pq \in R \X R : DSL!CauseOf(T, pq[1], pq[2])}
      BY <3>2
    <3>4. ast[k - 1] = DSL!At(T, Q(k - 1)).node /\ ast[k] = DSL!At(T, Q(k)).node
      BY <1>6, <3>1
    <3> QED
      BY <3>3, <3>4 DEF CausesAt
  <2>2. ASSUME NEW p \in R, NEW q \in R, DSL!CauseOf(T, p, q)
        PROVE  <<DSL!At(T, p).node, DSL!At(T, q).node>> \in EdgesOfAST(ast)
    <3>1. PICK j \in 1 .. n, k \in 1 .. n : p = Q(j) /\ q = Q(k)
      BY <1>3
    <3>2. k = j + 1
      BY <1>3, <2>2, <3>1
    <3>3. k \in 2 .. n /\ k - 1 = j
      BY <1>4, <3>2
    <3> QED
      BY <1>6, <3>1, <3>3 DEF EdgesOfAST
  <2>3. EdgesOfAST(ast) \subseteq CausesAt(T, R)
    BY <1>6, <2>1 DEF EdgesOfAST
  <2>4. CausesAt(T, R) \subseteq EdgesOfAST(ast)
    <3> SUFFICES ASSUME NEW pq \in R \X R, DSL!CauseOf(T, pq[1], pq[2])
                 PROVE  <<DSL!At(T, pq[1]).node, DSL!At(T, pq[2]).node>> \in EdgesOfAST(ast)
      BY DEF CausesAt
    <3> QED
      BY <2>2
  <2> QED
    BY <2>3, <2>4
<1>9. 1 \in 1 .. n
  BY <1>2, <1>4
<1>10. \E p \in R : p[1] = s /\ DSL!At(T, p).node = ast[1]
  BY <1>3, <1>6, <1>9
<1>11. ASSUME NEW p \in R, DSL!At(T, p).node \in Broken PROVE ast[1] \in Broken
  <2>1. PICK k \in 1 .. n : p = Q(k)
    BY <1>3
  <2>2. DSL!At(T, Q(k)) \in Clauses
    BY <1>3, <1>5
  <2>3. DSL!At(T, Q(k)).node \in ConditionNode \ ActionNode
    BY <1>11, <2>1, ReplayConstants, NodeKinds
  <2>4. DSL!At(T, Q(k)).kw \notin {"THEN", "CAUSE"}
    BY <2>2, <2>3 DEF Clauses, DSL!Noise
  <2>5. k = 1
    <3>1. ClauseOf(B, PlaceIn(t, k)).kw \in {"IF", "THEN", "CAUSE"}
      <4>1. PlaceIn(t, k) \in 1 .. n
        BY <1>2, <1>4 DEF PlaceIn
      <4> QED
        BY <1>2, <4>1 DEF Shape, n
    <3> QED
      BY <1>3, <2>4, <3>1
  <2> QED
    BY <1>6, <1>11, <2>1, <2>5
<1> QED
  BY <1>7, <1>8, <1>10, <1>11 DEF ast, R

\* The places of a text are those of its rules; those of an earlier one stand
\* above those of a later one.
LEMMA PlacesOfText ==
    ASSUME NEW T \in Seq(Lines), NEW blocks, NEW at, Spans(T, blocks, at, Len(T))
    PROVE  /\ Len(blocks) \in Nat
           /\ DSL!Places(T) = UNION {RulePlaces(T, at[b]) : b \in 1 .. Len(blocks)}
           /\ \A b \in 1 .. Len(blocks) : \A p \in RulePlaces(T, at[b]) : at[b] <= p[1]
           /\ \A b, c \in 1 .. Len(blocks) : b < c =>
                 /\ at[b] < at[c]
                 /\ \A p \in RulePlaces(T, at[b]) : p[1] < at[c]
           /\ \A b \in 1 .. Len(blocks) : \A p \in RulePlaces(T, at[b]) : p[1] \in Nat
           /\ \A b \in 1 .. Len(blocks) : at[b] \in Nat
           /\ \A b \in 1 .. Len(blocks) : \A p \in RulePlaces(T, at[b]) : \A q \in DSL!Places(T) :
                 DSL!SameRule(T, p[1], q[1]) <=> q \in RulePlaces(T, at[b])
<1> DEFINE n == Len(blocks)
           M == Len(T)
<1>1. /\ \A b \in 1 .. n : Span(T, at[b], blocks[b])
      /\ \A b, c \in 1 .. n : b < c => at[b] + Len(blocks[b]) <= at[c]
      /\ \A k \in 1 .. M : DSL!Separator(T[k]) \/
            \E b \in 1 .. n : at[b] <= k /\ k < at[b] + Len(blocks[b])
      /\ n \in Nat
  <2>1. n \in Nat
    BY DEF Spans
  <2> QED
    BY <2>1 DEF Spans
<1>2. M \in Nat /\ DOMAIN T = 1 .. M
  OBVIOUS
<1>3. \A b \in 1 .. n : at[b] \in 1 .. M /\ Len(blocks[b]) \in Nat /\ Len(blocks[b]) >= 1
  BY <1>1 DEF Span, Block
<1> HIDE DEF n
<1>4. ASSUME NEW b \in 1 .. n
      PROVE  /\ \A p \in RulePlaces(T, at[b]) : p[1] \in at[b] .. at[b] + Len(blocks[b]) - 1
             /\ \A k \in 1 .. M : k \in at[b] .. at[b] + Len(blocks[b]) - 1 =>
                   DSL!SameRule(T, at[b], k)
             /\ \A p \in RulePlaces(T, at[b]) : \A q \in DSL!Places(T) :
                   DSL!SameRule(T, p[1], q[1]) <=> q \in RulePlaces(T, at[b])
  <2> DEFINE s == at[b]
             e == at[b] + Len(blocks[b]) - 1
  <2>1. s \in s .. e /\ s \in Nat /\ e \in Nat
    BY <1>2, <1>3
  <2>2. \A i \in s .. e : \A j \in 1 .. M : DSL!SameRule(T, i, j) <=> j \in s .. e
    BY <1>1, SameRuleOfSpan
  <2>3. \A p \in DSL!Places(T) : p[1] \in 1 .. M
    BY <1>2 DEF DSL!Places, DSL!Written
  <2>4. \A p \in RulePlaces(T, s) : p[1] \in s .. e /\ p \in DSL!Places(T)
    BY <2>1, <2>2, <2>3 DEF RulePlaces
  <2>5. \A k \in 1 .. M : k \in s .. e => DSL!SameRule(T, s, k)
    BY <2>1, <2>2
  <2>6. \A q \in DSL!Places(T) : q \in RulePlaces(T, s) <=> q[1] \in s .. e
    BY <2>1, <2>2, <2>3 DEF RulePlaces
  <2>7. \A p \in RulePlaces(T, s) : \A q \in DSL!Places(T) :
           DSL!SameRule(T, p[1], q[1]) <=> q \in RulePlaces(T, s)
    BY <2>2, <2>3, <2>4, <2>6
  <2> QED
    BY <2>4, <2>5, <2>7
<1>5. DSL!Places(T) = UNION {RulePlaces(T, at[b]) : b \in 1 .. n}
  <2>1. \A b \in 1 .. n : RulePlaces(T, at[b]) \subseteq DSL!Places(T)
    BY DEF RulePlaces
  <2>2. ASSUME NEW p \in DSL!Places(T) PROVE \E b \in 1 .. n : p \in RulePlaces(T, at[b])
    <3>1. p[1] \in 1 .. M /\ ~DSL!Separator(T[p[1]])
      BY <1>2 DEF DSL!Places, DSL!Written
    <3>2. PICK b \in 1 .. n : at[b] <= p[1] /\ p[1] < at[b] + Len(blocks[b])
      BY <1>1, <3>1
    <3>3. p[1] \in at[b] .. at[b] + Len(blocks[b]) - 1
      BY <1>2, <1>3, <3>1, <3>2
    <3> QED
      BY <1>4, <3>1, <3>3 DEF RulePlaces
  <2> QED
    BY <2>1, <2>2
<1>6. \A b \in 1 .. n : \A p \in RulePlaces(T, at[b]) : at[b] <= p[1] /\ p[1] \in Nat
  BY <1>2, <1>3, <1>4
<1>7. ASSUME NEW b \in 1 .. n, NEW c \in 1 .. n, b < c
      PROVE  at[b] < at[c] /\ \A p \in RulePlaces(T, at[b]) : p[1] < at[c]
  <2>1. at[b] + Len(blocks[b]) <= at[c]
    BY <1>1, <1>7
  <2>2. \A p \in RulePlaces(T, at[b]) : p[1] \in at[b] .. at[b] + Len(blocks[b]) - 1
    BY <1>4
  <2> QED
    BY <1>2, <1>3, <2>1, <2>2
<1>8. \A b \in 1 .. n : at[b] \in Nat
  BY <1>2, <1>3
<1>9. n \in Nat
  BY <1>1
<1> QED
  BY <1>4, <1>5, <1>6, <1>7, <1>8, <1>9 DEF n

\* sub is the first m rules of a text: all, or those above the first one whose
\* condition does not compile.
FirstRules(asts, sub, m) ==
    /\ m \in 0 .. Len(asts) /\ DOMAIN sub = 1 .. m
    /\ \A b \in 1 .. m : sub[b] = asts[b] /\ asts[b][1] \notin Broken
    /\ m < Len(asts) => asts[m + 1][1] \in Broken

\* Compilation stops where a condition does not compile, or at the end.
LEMMA AddedAreFirst ==
    ASSUME NEW asts, GoodRules(asts)
    PROVE  \E m \in 0 .. Len(asts) :
              /\ FirstRules(asts, DSL!RulesAdded(asts), m)
              /\ DSL!Compiles(asts) => m = Len(asts)
<1> DEFINE A == Seq(TextNode)
           n == Len(asts)
           bad == {i \in DOMAIN asts : asts[i][1] \in Broken}
           i0 == CHOOSE i \in bad : \A j \in bad : i <= j
<1>1. asts \in Seq(A) /\ n \in Nat /\ DOMAIN asts = 1 .. n
  <2>1. asts \in Seq(A)
    BY DEF GoodRules
  <2> HIDE DEF A
  <2> QED
    BY <2>1
<1> HIDE DEF A
<1>2. DSL!RulesAdded(asts) = IF bad = {} THEN asts ELSE SubSeq(asts, 1, i0 - 1)
  BY DEF DSL!RulesAdded
<1>3. CASE bad = {}
  <2>1. DSL!RulesAdded(asts) = asts
    BY <1>2, <1>3
  <2>2. \A b \in 1 .. n : asts[b][1] \notin Broken
    BY <1>1, <1>3
  <2>3. FirstRules(asts, asts, n) /\ n \in 0 .. n
    BY <1>1, <2>2 DEF FirstRules
  <2> QED
    BY <2>1, <2>3
<1>4. CASE bad # {}
  <2> DEFINE sub == SubSeq(asts, 1, i0 - 1)
  <2>1. bad \subseteq Nat
    BY <1>1
  <2>2. \E i \in bad : \A j \in bad : i <= j
    <3> HIDE DEF bad
    <3> QED
      BY <1>4, <2>1, LeastNumber
  <2>3. i0 \in bad /\ \A j \in bad : i0 <= j
    BY <2>2, Zenon
  <2> HIDE DEF i0
  <2>4. i0 \in 1 .. n /\ asts[i0][1] \in Broken
    BY <1>1, <2>3
  <2>5. i0 - 1 \in 0 .. n /\ (i0 - 1) + 1 = i0 /\ i0 - 1 < n
    BY <1>1, <2>4
  <2>6. DOMAIN sub = 1 .. i0 - 1 /\ \A b \in 1 .. i0 - 1 : sub[b] = asts[b]
    BY <1>1, <2>5
  <2>7. \A b \in 1 .. i0 - 1 : asts[b][1] \notin Broken
    <3> SUFFICES ASSUME NEW b \in 1 .. i0 - 1, asts[b][1] \in Broken PROVE FALSE
      OBVIOUS
    <3>1. b \in bad
      BY <1>1, <2>4
    <3> QED
      BY <2>3, <2>4, <3>1
  <2>8. sub # asts
    <3>1. i0 \in DOMAIN asts /\ i0 \notin 1 .. i0 - 1
      BY <1>1, <2>4
    <3> QED
      BY <2>6, <3>1
  <2>9. DSL!RulesAdded(asts) = sub
    BY <1>2, <1>4
  <2> HIDE DEF sub
  <2>10. FirstRules(asts, sub, i0 - 1)
    BY <2>4, <2>5, <2>6, <2>7 DEF FirstRules
  <2>11. ~DSL!Compiles(asts)
    BY <2>8, <2>9 DEF DSL!Compiles
  <2> QED
    BY <2>5, <2>9, <2>10, <2>11
<1> QED
  BY <1>3, <1>4

\* The places whose rule is compiled, as the property GraphMatchesText has them.
Sound(T, p) ==
    /\ DSL!Parses(T)
    /\ \A q \in DSL!Places(T) : DSL!At(T, q).node \in Broken => p[1] < q[1]

AddedPlaces(T) ==
    {p \in DSL!Places(T) :
        Sound(T, p) /\ \A q \in DSL!Places(T) : DSL!SameRule(T, p[1], q[1]) => Sound(T, q)}

\* They are the places of the first m rules.
LEMMA AddedPlacesOfText ==
    ASSUME NEW T \in Seq(Lines), DSL!Parses(T), NEW m \in 0 .. Len(DSL!Parsed(T)),
           FirstRules(DSL!Parsed(T), DSL!RulesAdded(DSL!Parsed(T)), m)
    PROVE  /\ NodesAt(T, AddedPlaces(T)) = DSL!NodesOf(DSL!RulesAdded(DSL!Parsed(T)))
           /\ CausesAt(T, AddedPlaces(T)) = DSL!EdgesOf(DSL!RulesAdded(DSL!Parsed(T)))
           /\ m = Len(DSL!Parsed(T)) => AddedPlaces(T) = DSL!Places(T)
<1> DEFINE blocks == DSL!SplitRuleBlocks(T)
           asts == DSL!Parsed(T)
           sub == DSL!RulesAdded(asts)
           n == Len(blocks)
<1>1. PICK at : Spans(T, blocks, at, Len(T))
  BY BlocksOfText
<1> DEFINE R(b) == RulePlaces(T, at[b])
<1>2. /\ n \in Nat
      /\ DSL!Places(T) = UNION {R(b) : b \in 1 .. n}
      /\ \A b \in 1 .. n : \A p \in R(b) : at[b] <= p[1]
      /\ \A b, c \in 1 .. n : b < c =>
            at[b] < at[c] /\ \A p \in R(b) : p[1] < at[c]
      /\ \A b \in 1 .. n : \A p \in R(b) : p[1] \in Nat
      /\ \A b \in 1 .. n : at[b] \in Nat
      /\ \A b \in 1 .. n : \A p \in R(b) : \A q \in DSL!Places(T) :
            DSL!SameRule(T, p[1], q[1]) <=> q \in R(b)
  BY <1>1, PlacesOfText
<1>3. asts = [b \in 1 .. n |-> DSL!RuleAST(blocks[b])] /\ DOMAIN blocks = 1 .. n
  <2>1. blocks \in Seq(Block)
    BY BlocksTyped
  <2> DEFINE K == Block
  <2>2. DOMAIN blocks = 1 .. n
    <3> HIDE DEF K, blocks
    <3> QED
      BY <2>1
  <2>3. asts = [b \in DOMAIN blocks |-> DSL!RuleAST(blocks[b])]
    BY DEF DSL!Parsed
  <2> HIDE DEF blocks
  <2> QED
    BY <2>2, <2>3
<1>4. Len(asts) = n /\ \A b \in 1 .. n : asts[b] = DSL!RuleAST(blocks[b])
  <2> HIDE DEF asts, blocks, n
  <2> QED
    BY <1>2, <1>3
<1>5. ASSUME NEW b \in 1 .. n
      PROVE  /\ NodesOfAST(asts[b]) = NodesAt(T, R(b))
             /\ EdgesOfAST(asts[b]) = CausesAt(T, R(b))
             /\ \E p \in R(b) : p[1] = at[b] /\ DSL!At(T, p).node = asts[b][1]
             /\ \A p \in R(b) : DSL!At(T, p).node \in Broken => asts[b][1] \in Broken
  <2>1. Span(T, at[b], blocks[b])
    BY <1>1 DEF Spans
  <2>2. DSL!ParsesBlock(blocks[b])
    BY <1>3 DEF DSL!Parses
  <2>3. /\ NodesOfAST(DSL!RuleAST(blocks[b])) = NodesAt(T, R(b))
        /\ EdgesOfAST(DSL!RuleAST(blocks[b])) = CausesAt(T, R(b))
        /\ \E p \in R(b) : p[1] = at[b] /\ DSL!At(T, p).node = DSL!RuleAST(blocks[b])[1]
        /\ \A p \in R(b) :
              DSL!At(T, p).node \in Broken => DSL!RuleAST(blocks[b])[1] \in Broken
    BY <2>1, <2>2, RuleOfSpan
  <2> HIDE DEF asts, blocks, R
  <2> QED
    BY <1>4, <2>3
<1>6. /\ m \in 0 .. n /\ DOMAIN sub = 1 .. m
      /\ \A b \in 1 .. m : sub[b] = asts[b] /\ asts[b][1] \notin Broken
      /\ m < n => asts[m + 1][1] \in Broken
  <2> HIDE DEF asts, blocks, n
  <2>1. m \in 0 .. n
    BY <1>4 DEF asts
  <2> QED
    BY <1>4, <2>1 DEF FirstRules, asts
<1> HIDE DEF asts, sub, blocks, n, R
<1> DEFINE S == UNION {R(b) : b \in 1 .. m}
<1>7. \A b \in 1 .. m : b \in 1 .. n
  BY <1>2, <1>6
<1>8. ASSUME NEW b \in 1 .. m, NEW p \in R(b) PROVE Sound(T, p)
  <2> SUFFICES ASSUME NEW q \in DSL!Places(T), DSL!At(T, q).node \in Broken PROVE p[1] < q[1]
    BY DEF Sound
  <2>1. PICK c \in 1 .. n : q \in R(c)
    BY <1>2
  <2>2. asts[c][1] \in Broken
    BY <1>5, <2>1
  <2>3. c \notin 1 .. m
    BY <1>6, <2>2
  <2>4. b \in 1 .. n /\ b < c
    BY <1>2, <1>6, <1>7, <2>3
  <2>5. p[1] < at[c] /\ at[c] <= q[1] /\ p[1] \in Nat /\ at[c] \in Nat /\ q[1] \in Nat
    BY <1>2, <2>1, <2>4
  <2> QED
    BY <2>5
<1>9. ASSUME NEW b \in 1 .. n, NEW p \in R(b), Sound(T, p) PROVE b \in 1 .. m
  <2> SUFFICES ASSUME b \notin 1 .. m PROVE FALSE
    OBVIOUS
  <2>1. m < n /\ m + 1 \in 1 .. n /\ m + 1 <= b
    BY <1>2, <1>6
  <2>2. asts[m + 1][1] \in Broken
    BY <1>6, <2>1
  <2>3. PICK q \in R(m + 1) : q[1] = at[m + 1] /\ DSL!At(T, q).node = asts[m + 1][1]
    BY <1>5, <2>1
  <2>4. q \in DSL!Places(T)
    BY <1>2, <2>1
  <2>5. p[1] < at[m + 1]
    BY <1>9, <2>2, <2>3, <2>4 DEF Sound
  <2>6. at[m + 1] <= at[b]
    <3>1. CASE m + 1 = b
      BY <1>2, <2>1, <3>1
    <3>2. CASE m + 1 < b
      BY <1>2, <2>1, <3>2
    <3> QED
      BY <1>2, <1>6, <2>1, <3>1, <3>2
  <2>7. at[b] <= p[1] /\ p[1] \in Nat /\ at[b] \in Nat /\ at[m + 1] \in Nat
    BY <1>2, <2>1
  <2> QED
    BY <2>5, <2>6, <2>7
<1>10. AddedPlaces(T) = S
  <2>1. ASSUME NEW p \in AddedPlaces(T) PROVE p \in S
    <3>1. p \in DSL!Places(T) /\ Sound(T, p)
      BY DEF AddedPlaces
    <3>2. PICK b \in 1 .. n : p \in R(b)
      BY <1>2, <3>1
    <3> QED
      BY <1>9, <3>1, <3>2
  <2>2. ASSUME NEW b \in 1 .. m, NEW p \in R(b) PROVE p \in AddedPlaces(T)
    <3>1. b \in 1 .. n /\ p \in DSL!Places(T)
      BY <1>2, <1>7
    <3>2. \A q \in DSL!Places(T) : DSL!SameRule(T, p[1], q[1]) => q \in R(b)
      BY <1>2, <3>1
    <3> QED
      BY <1>8, <3>1, <3>2 DEF AddedPlaces
  <2> QED
    BY <2>1, <2>2
<1>11. NodesAt(T, S) = DSL!NodesOf(sub)
  <2>1. NodesAt(T, S) = UNION {NodesAt(T, R(b)) : b \in 1 .. m}
    BY DEF NodesAt
  <2>2. DSL!NodesOf(sub) = UNION {NodesOfAST(sub[b]) : b \in 1 .. m}
    BY <1>6 DEF DSL!NodesOf, NodesOfAST
  <2>3. \A b \in 1 .. m : NodesOfAST(sub[b]) = NodesAt(T, R(b))
    BY <1>5, <1>6, <1>7
  <2> QED
    BY <2>1, <2>2, <2>3
<1>12. CausesAt(T, S) = DSL!EdgesOf(sub)
  <2>1. DSL!EdgesOf(sub) = UNION {EdgesOfAST(sub[b]) : b \in 1 .. m}
    BY <1>6 DEF DSL!EdgesOf, EdgesOfAST
  <2>2. \A b \in 1 .. m : EdgesOfAST(sub[b]) = CausesAt(T, R(b))
    BY <1>5, <1>6, <1>7
  <2>3. ASSUME NEW e \in CausesAt(T, S) PROVE \E b \in 1 .. m : e \in CausesAt(T, R(b))
    <3>1. PICK p \in S, q \in S :
             /\ DSL!CauseOf(T, p, q)
             /\ e = <<DSL!At(T, p).node, DSL!At(T, q).node>>
      <4>1. PICK pq \in {pq \in S \X S : DSL!CauseOf(T, pq[1], pq[2])} :
               e = <<DSL!At(T, pq[1]).node, DSL!At(T, pq[2]).node>>
        BY DEF CausesAt
      <4> QED
        BY <4>1
    <3>2. PICK b \in 1 .. m : p \in R(b)
      BY <3>1
    <3>3. q \in DSL!Places(T) /\ b \in 1 .. n
      BY <1>2, <1>7, <3>1, <3>2
    <3>4. DSL!SameRule(T, p[1], q[1])
      BY <3>1 DEF DSL!CauseOf
    <3>5. q \in R(b)
      BY <1>2, <3>2, <3>3, <3>4
    <3>6. <<p, q>> \in {pq \in R(b) \X R(b) : DSL!CauseOf(T, pq[1], pq[2])}
      BY <3>1, <3>2, <3>5
    <3> QED
      BY <3>1, <3>6 DEF CausesAt
  <2>4. \A b \in 1 .. m : CausesAt(T, R(b)) \subseteq CausesAt(T, S)
    <3> SUFFICES ASSUME NEW b \in 1 .. m PROVE CausesAt(T, R(b)) \subseteq CausesAt(T, S)
      OBVIOUS
    <3>1. R(b) \X R(b) \subseteq S \X S
      OBVIOUS
    <3> HIDE DEF S
    <3> QED
      BY <3>1 DEF CausesAt
  <2> QED
    BY <2>1, <2>2, <2>3, <2>4
<1>13. m = n => S = DSL!Places(T)
  BY <1>2
<1> QED
  BY <1>4, <1>10, <1>11, <1>12, <1>13 DEF asts, sub

\* What the grammar asks of a rule: its clauses in their order, and two of them.
LEMMA GrammaticalShape ==
    ASSUME NEW T \in Seq(Lines), NEW s, NEW B, Span(T, s, B), DSL!Grammatical(T)
    PROVE  /\ ClauseCount(B) \in Nat /\ ClauseCount(B) >= 2
           /\ \A k \in 1 .. ClauseCount(B) :
                 /\ ClauseOf(B, k).kw \in {"IF", "THEN", "CAUSE"}
                 /\ ClauseOf(B, k).kw = "IF" <=> k = 1
                 /\ ClauseOf(B, k).kw = "THEN" <=> k = 2
<1> DEFINE n == ClauseCount(B)
           P(k) == Pos(s, B, k)
           A(k) == DSL!Above(T, P(k))
<1>1. /\ RulePlaces(T, s) = {P(k) : k \in 1 .. n}
      /\ n \in Nat
  BY PlacesOfSpan
<1>2. n >= 1
  <2>1. Len(B) \in Nat /\ Len(B) >= 1 /\ B[1] \in BlockLine
    BY DEF Span, Block
  <2>2. Len(B[1]) \in Nat /\ Len(B[1]) >= 1
    BY <2>1, BlockLineTyped
  <2> QED
    BY <2>1, <2>2 DEF ClauseCount
<1>3. \A k \in 1 .. n : /\ A(k) = {P(m) : m \in 1 .. k - 1}
                        /\ \A m \in 1 .. n : P(m) = P(k) => m = k
                        /\ \A m \in 1 .. n : P(m) \in A(k) <=> m < k
                        /\ \A r \in DSL!Places(T) :
                              DSL!SameRule(T, P(k)[1], r[1]) <=> r \in RulePlaces(T, s)
  BY AboveInSpan
<1>4. \A k \in 1 .. n : DSL!At(T, P(k)) = ClauseOf(B, k)
  BY ClauseAtPlace
<1>5. \A p \in RulePlaces(T, s) : p \in DSL!Places(T) /\ p \in DSL!Written(T)
  BY DEF RulePlaces, DSL!Places
<1>6. \A p \in DSL!Written(T) :
         /\ DSL!At(T, p).kw \in {"IF", "THEN", "CAUSE"}
         /\ DSL!At(T, p).kw = "IF" <=> DSL!Above(T, p) = {}
         /\ DSL!At(T, p).kw = "THEN" <=> \E q \in DSL!Above(T, p) : DSL!Above(T, p) = {q}
         /\ DSL!At(T, p).kw = "IF" => \E q \in DSL!Places(T) : DSL!Above(T, q) = {p}
  BY DEF DSL!Grammatical
<1> HIDE DEF n, P, A
<1>7. ASSUME NEW k \in 1 .. n
      PROVE  /\ A(k) = {} <=> k = 1
             /\ (\E q \in A(k) : A(k) = {q}) <=> k = 2
  <2>1. A(k) = {} <=> k = 1
    <3>1. k # 1 => P(1) \in A(k)
      BY <1>1, <1>3
    <3>2. k = 1 => A(k) = {}
      BY <1>3
    <3> QED
      BY <3>1, <3>2
  <2>2. k = 2 => A(k) = {P(1)} /\ P(1) \in A(k)
    <3>1. k = 2 => 1 .. k - 1 = {1}
      OBVIOUS
    <3> QED
      BY <1>1, <1>3, <3>1
  <2>3. k > 2 => P(1) \in A(k) /\ P(2) \in A(k) /\ P(1) # P(2)
    <3>1. k > 2 => 1 \in 1 .. n /\ 2 \in 1 .. n /\ 1 < k /\ 2 < k
      BY <1>1
    <3> QED
      BY <1>3, <3>1
  <2>4. k = 1 \/ k = 2 \/ k > 2
    BY <1>1
  <2> QED
    BY <2>1, <2>2, <2>3, <2>4
<1>8. ASSUME NEW k \in 1 .. n
      PROVE  /\ ClauseOf(B, k).kw \in {"IF", "THEN", "CAUSE"}
             /\ ClauseOf(B, k).kw = "IF" <=> k = 1
             /\ ClauseOf(B, k).kw = "THEN" <=> k = 2
  <2>1. P(k) \in DSL!Written(T)
    BY <1>1, <1>5
  <2>2. /\ DSL!At(T, P(k)).kw \in {"IF", "THEN", "CAUSE"}
        /\ DSL!At(T, P(k)).kw = "IF" <=> A(k) = {}
        /\ DSL!At(T, P(k)).kw = "THEN" <=> \E q \in A(k) : A(k) = {q}
    BY <1>6, <2>1 DEF A
  <2>3. DSL!At(T, P(k)) = ClauseOf(B, k)
    BY <1>4
  <2> QED
    BY <1>7, <2>2, <2>3
<1>9. n >= 2
  <2>1. 1 \in 1 .. n
    BY <1>1, <1>2
  <2>2. P(1) \in DSL!Written(T) /\ P(1) \in DSL!Places(T) /\ DSL!At(T, P(1)).kw = "IF"
    BY <1>1, <1>4, <1>5, <1>8, <2>1
  <2>3. PICK q \in DSL!Places(T) : DSL!Above(T, q) = {P(1)}
    BY <1>6, <2>2
  <2>4. DSL!SameRule(T, q[1], P(1)[1])
    BY <2>3 DEF DSL!Above
  <2>5. DSL!SameRule(T, P(1)[1], q[1])
    BY <2>4 DEF DSL!SameRule
  <2>6. PICK k \in 1 .. n : q = P(k)
    BY <1>1, <1>3, <2>1, <2>3, <2>5
  <2>7. A(k) # {}
    BY <2>3, <2>6 DEF A
  <2>8. k # 1
    BY <1>7, <2>7
  <2> QED
    BY <1>1, <2>8
<1> QED
  BY <1>1, <1>8, <1>9 DEF n

\* No rule is quoted in a rule on one line.
Unquoted(T) == \A p \in DSL!Places(T) : ~(p[2] > 1 /\ DSL!At(T, p).node \in Quoting)

\* The parser accepts every block of a grammatical text, if no rule is so quoted.
LEMMA GrammaticalBlock ==
    ASSUME NEW T \in Seq(Lines), NEW s, NEW B, Span(T, s, B), DSL!Grammatical(T), Unquoted(T)
    PROVE  DSL!ParsesBlock(B)
<1> DEFINE n == ClauseCount(B)
           lines == DSL!NormalizeBlock(B)
<1>1. /\ n \in Nat /\ n >= 2 /\ 1 \in 1 .. n /\ 2 \in 2 .. n
      /\ \A k \in 1 .. n : /\ ClauseOf(B, k).kw \in {"IF", "THEN", "CAUSE"}
                           /\ ClauseOf(B, k).kw = "IF" <=> k = 1
                           /\ ClauseOf(B, k).kw = "THEN" <=> k = 2
  BY GrammaticalShape
<1>2. \A k \in 2 .. n : k \in 1 .. n /\ ClauseOf(B, k).kw \in {"THEN", "CAUSE"}
  BY <1>1
<1>3. /\ Len(B) \in Nat /\ Len(B) >= 1 /\ s \in Nat
      /\ \A k \in 1 .. Len(B) : B[k] \in BlockLine /\ B[k] = T[s + k - 1]
  BY DEF Span, Block
<1>4. /\ Len(lines) = n
      /\ \A k \in 1 .. n : Len(lines[k]) = 1 /\ lines[k][1] = ClauseOf(B, k)
  <2>1. CASE Len(B) # 1
    <3>1. lines = B /\ n = Len(B) /\ \A k \in 1 .. n : ClauseOf(B, k) = B[k][1]
      BY <2>1 DEF DSL!NormalizeBlock, ClauseOf, ClauseCount
    <3>2. \A k \in 1 .. Len(B) : Len(B[k]) = 1
      <4> SUFFICES ASSUME NEW k \in 1 .. Len(B), Len(B[k]) # 1 PROVE FALSE
        OBVIOUS
      <4>1. /\ B[k] \in BlockLine /\ Len(B[k]) \in Nat /\ Len(B[k]) >= 1
            /\ DOMAIN B[k] = 1 .. Len(B[k])
        BY <1>3, BlockLineTyped
      <4>2. 2 \in DOMAIN B[k]
        <5> DEFINE d == Len(B[k])
        <5>1. d \in Nat /\ d >= 1 /\ d # 1 /\ DOMAIN B[k] = 1 .. d
          BY <4>1
        <5> HIDE DEF d
        <5>2. 2 \in 1 .. d
          BY <5>1
        <5> QED
          BY <5>1, <5>2
      <4> DEFINE i == s + k - 1
                 p == <<i, 2>>
      <4>3. i \in DOMAIN T /\ T[i] = B[k] /\ i \in s .. s + Len(B) - 1 /\ i \in 1 .. Len(T)
        <5>1. i \in 1 .. Len(T) /\ i \in s .. s + Len(B) - 1
          BY <1>3 DEF Span
        <5> QED
          BY <1>3, <5>1
      <4>4. ~DSL!Separator(T[i])
        BY <4>1, <4>3 DEF BlockLine
      <4> HIDE DEF i
      <4>5. p \in DSL!Written(T)
        BY <4>2, <4>3, <4>4 DEF DSL!Written
      <4>6. p \in DSL!Places(T)
        BY <4>5 DEF DSL!Grammatical
      <4>7. DSL!SameRule(T, s, i)
        <5>1. s \in s .. s + Len(B) - 1
          BY <1>3
        <5> QED
          BY <4>3, <5>1, SameRuleOfSpan
      <4>8. p \in RulePlaces(T, s)
        BY <4>6, <4>7 DEF RulePlaces
      <4>9. PICK j \in 1 .. n : p = Pos(s, B, j)
        <5> HIDE DEF p
        <5> QED
          BY <4>8, PlacesOfSpan
      <4> QED
        BY <2>1, <4>9 DEF Pos
    <3> HIDE DEF lines, n
    <3> QED
      BY <3>1, <3>2
  <2>2. CASE Len(B) = 1
    <3> DEFINE line == B[1]
               Piece(clause) == IF clause.kw # "IF" /\ clause.node \in Quoting
                                THEN <<DSL!Noise>> ELSE <<clause>>
    <3>1. n = Len(line) /\ \A k \in 1 .. n : ClauseOf(B, k) = line[k]
      BY <2>2 DEF ClauseOf, ClauseCount
    <3>2. DOMAIN line = 1 .. n
      <4>1. line \in BlockLine
        BY <1>3, <2>2
      <4> HIDE DEF line, n
      <4> QED
        BY <3>1, <4>1, BlockLineTyped
    <3>3. line[1].kw = "IF" /\ 2 \in DOMAIN line /\ line[2].kw = "THEN"
      <4> HIDE DEF line, n
      <4>1. 2 \in 1 .. n
        BY <1>1
      <4> QED
        BY <1>1, <3>1, <3>2, <4>1
    <3>4. lines = [k \in DOMAIN line |-> Piece(line[k])]
      BY <2>2, <3>3 DEF DSL!NormalizeBlock
    <3>5. \A k \in 1 .. n : Piece(line[k]) = <<line[k]>>
      <4> SUFFICES ASSUME NEW k \in 1 .. n, line[k].kw # "IF" PROVE line[k].node \notin Quoting
        OBVIOUS
      <4>1. k # 1
        BY <3>3
      <4>2. Pos(s, B, k) = <<s, k>> /\ Pos(s, B, k) \in DSL!Places(T)
        BY <2>2, PlacesOfSpan DEF Pos, RulePlaces
      <4>3. DSL!At(T, Pos(s, B, k)) = line[k]
        <5>1. DSL!At(T, Pos(s, B, k)) = ClauseOf(B, k)
          BY ClauseAtPlace
        <5> QED
          BY <3>1, <5>1
      <4>4. Pos(s, B, k)[2] > 1
        BY <1>1, <4>1, <4>2
      <4> HIDE DEF line, n
      <4> QED
        BY <4>2, <4>3, <4>4 DEF Unquoted
    <3> HIDE DEF line, n, lines, Piece
    <3>6. lines = [k \in 1 .. n |-> <<line[k]>>]
      BY <3>2, <3>4, <3>5
    <3> QED
      BY <1>1, <3>1, <3>6
  <2> QED
    BY <2>1, <2>2
<1> HIDE DEF n, lines
<1>5. DSL!IsCondition(lines[1])
  BY <1>1, <1>4 DEF DSL!IsCondition
<1>6. \A i \in 2 .. n : DSL!IsAction(lines[i])
  BY <1>2, <1>4 DEF DSL!IsAction
<1>7. \A j \in 2 .. n : lines[j][1].kw = "THEN" <=> j = 2
  BY <1>1, <1>2, <1>4
<1> QED
  BY <1>1, <1>4, <1>5, <1>6, <1>7 DEF DSL!ParsesBlock, lines

\* So it refuses no text of the documented grammar, but for such a quotation.
LEMMA GrammaticalParses ==
    ASSUME NEW T \in Seq(Lines), DSL!Grammatical(T), Unquoted(T)
    PROVE  DSL!Parses(T)
<1> DEFINE blocks == DSL!SplitRuleBlocks(T)
           K == Block
<1>1. PICK at : Spans(T, blocks, at, Len(T))
  BY BlocksOfText
<1>2. blocks \in Seq(K)
  BY BlocksTyped
<1>3. DOMAIN blocks = 1 .. Len(blocks)
  <2> HIDE DEF blocks, K
  <2> QED
    BY <1>2
<1>4. ASSUME NEW b \in DOMAIN blocks PROVE DSL!ParsesBlock(blocks[b])
  <2>1. Span(T, at[b], blocks[b])
    BY <1>1, <1>3 DEF Spans
  <2> QED
    BY <2>1, GrammaticalBlock
<1> QED
  BY <1>4 DEF DSL!Parses

\* While nothing has run, the graph is that of the rules that were added, next to
\* the client's own.
TextMatches ==
    stage \in {"ready", "raised"} =>
        /\ text \in Seq(Lines)
        /\ rules = IF DSL!Parses(text) THEN DSL!Parsed(text) ELSE <<>>
        /\ nodes = DSL!NodesOf(DSL!RulesAdded(rules)) \cup IF base THEN Built ELSE {}
        /\ edges = DSL!EdgesOf(DSL!RulesAdded(rules)) \cup IF base THEN BuildEdges ELSE {}
        /\ stage = "ready" => DSL!Parses(text) /\ DSL!Compiles(rules)

\* Every step keeps it so.
LEMMA TextMatchesStep ==
    ASSUME StageInv, TextMatches, [ReplayNext]_everything
    PROVE  TextMatches'
<1>1. CASE UNCHANGED everything
  BY <1>1 DEF everything, allVars, replayVars, vars, graphVars, TextMatches
<1>2. CASE Compile
  <2> DEFINE asts == DSL!Parsed(text)
  <2>1. /\ stage = "write" /\ DSL!Parses(text) /\ DSL!Compiles(asts)
        /\ rules' = asts /\ text' = text /\ base' = base
        /\ nodes' = DSL!NodesOf(asts) /\ edges' = DSL!EdgesOf(asts)
    BY <1>2 DEF Compile, GraphOf
  <2>2. text \in Seq(Lines) /\ ~base
    BY <2>1 DEF StageInv, WriteInv
  <2>3. DSL!RulesAdded(asts) = asts
    BY <2>1 DEF DSL!Compiles
  <2> HIDE DEF asts
  <2> QED
    BY <2>1, <2>2, <2>3 DEF TextMatches, asts
<1>3. ASSUME NEW withOwn \in BOOLEAN, InjectText(withOwn) PROVE TextMatches'
  <2>1. PICK asts : asts = IF DSL!Parses(text) THEN DSL!Parsed(text) ELSE <<>>
    OBVIOUS
  <2>2. /\ stage = "write" /\ rules' = asts /\ text' = text /\ base' = withOwn
        /\ stage' = IF DSL!Parses(text) /\ DSL!Compiles(asts) THEN "ready" ELSE "raised"
        /\ nodes' = DSL!NodesOf(DSL!RulesAdded(asts)) \cup IF withOwn THEN Built ELSE {}
        /\ edges' = DSL!EdgesOf(DSL!RulesAdded(asts)) \cup IF withOwn THEN BuildEdges ELSE {}
    BY <1>3, <2>1 DEF InjectText, GraphOf
  <2>3. text \in Seq(Lines)
    BY <2>2 DEF StageInv, WriteInv
  <2> QED
    BY <2>1, <2>2, <2>3 DEF TextMatches
<1>4. CASE EarlyEvent
  BY <1>4 DEF EarlyEvent, EventFromOutside, InjectEvent, Publish, vars, graphVars, replayVars,
              TextMatches
<1>5. CASE \/ \E line \in Lines : WriteLine(line)
           \/ LateEvent \/ \E snapshot \in Snapshots : FirstStart(snapshot)
           \/ RunStep \/ Replay \/ ReplayGraph
  <2>1. stage' \notin {"ready", "raised"}
    BY <1>5 DEF WriteLine, LateEvent, FirstStart, RunStep, Replay, ReplayGraph, replayVars
  <2> QED
    BY <2>1 DEF TextMatches
<1> QED
  BY <1>1, <1>2, <1>3, <1>4, <1>5 DEF ReplayNext

\* Nodes and edges of a text are none of the client's own.
LEMMA TextApart ==
    ASSUME NEW asts, GoodRules(asts)
    PROVE  /\ DSL!NodesOf(DSL!RulesAdded(asts)) \cap Built = {}
           /\ DSL!EdgesOf(DSL!RulesAdded(asts)) \cap BuildEdges = {}
<1> DEFINE sub == DSL!RulesAdded(asts)
<1>1. PICK m \in 0 .. Len(asts) : FirstRules(asts, sub, m)
  BY AddedAreFirst
<1>2. \A b \in DOMAIN sub : b \in DOMAIN asts /\ sub[b] = asts[b]
  <2> DEFINE S == Seq(TextNode)
  <2>1. Len(asts) \in Nat /\ DOMAIN asts = 1 .. Len(asts)
    <3>1. asts \in Seq(S)
      BY DEF GoodRules
    <3> HIDE DEF S
    <3> QED
      BY <3>1
  <2> QED
    BY <1>1, <2>1 DEF FirstRules
<1> HIDE DEF sub
<1>3. /\ DSL!NodesOf(asts) \subseteq TextNode
      /\ DSL!EdgesOf(asts) \subseteq TextNode \X TextNode
  BY RulesGraph
<1>4. DSL!NodesOf(sub) \subseteq DSL!NodesOf(asts)
  BY <1>2 DEF DSL!NodesOf
<1>5. DSL!EdgesOf(sub) \subseteq DSL!EdgesOf(asts)
  BY <1>2 DEF DSL!EdgesOf
<1>6. TextNode \cap Built = {}
  BY DEF TextNode
<1>7. BuildEdges \subseteq Built \X Built
  BY ReplayConstants
<1> QED
  BY <1>3, <1>4, <1>5, <1>6, <1>7 DEF sub

\* Then the graph is what the text says.
LEMMA TextMatched == ASSUME StageInv, TextMatches PROVE GraphMatchesText
<1> SUFFICES ASSUME stage \in {"ready", "raised"} PROVE GraphMatchesText
  BY DEF GraphMatchesText
<1> DEFINE asts == DSL!Parsed(text)
           P == DSL!Places(text)
           A == AddedPlaces(text)
<1>1. /\ text \in Seq(Lines)
      /\ rules = IF DSL!Parses(text) THEN asts ELSE <<>>
      /\ nodes = DSL!NodesOf(DSL!RulesAdded(rules)) \cup IF base THEN Built ELSE {}
      /\ edges = DSL!EdgesOf(DSL!RulesAdded(rules)) \cup IF base THEN BuildEdges ELSE {}
      /\ stage = "ready" => DSL!Parses(text) /\ DSL!Compiles(rules)
  BY DEF TextMatches
<1>2. GoodRules(rules)
  <2>1. GoodRules(<<>>)
    BY DEF GoodRules
  <2> QED
    BY <1>1, <2>1, ParsedGood
<1>3. /\ nodes \ Built = DSL!NodesOf(DSL!RulesAdded(rules))
      /\ edges \ BuildEdges = DSL!EdgesOf(DSL!RulesAdded(rules))
  BY <1>1, <1>2, TextApart
<1>4. /\ NodesAt(text, A) = DSL!NodesOf(DSL!RulesAdded(rules))
      /\ CausesAt(text, A) = DSL!EdgesOf(DSL!RulesAdded(rules))
      /\ stage = "ready" => A = P
  <2>1. CASE DSL!Parses(text)
    <3>1. rules = asts
      BY <1>1, <2>1
    <3>2. PICK m \in 0 .. Len(asts) :
             /\ FirstRules(asts, DSL!RulesAdded(asts), m)
             /\ DSL!Compiles(asts) => m = Len(asts)
      BY <1>2, <3>1, AddedAreFirst
    <3>3. /\ NodesAt(text, A) = DSL!NodesOf(DSL!RulesAdded(asts))
          /\ CausesAt(text, A) = DSL!EdgesOf(DSL!RulesAdded(asts))
          /\ m = Len(asts) => A = P
      BY <1>1, <2>1, <3>2, AddedPlacesOfText
    <3> QED
      BY <1>1, <3>1, <3>2, <3>3
  <2>2. CASE ~DSL!Parses(text)
    <3>1. A = {}
      BY <2>2 DEF AddedPlaces, Sound
    <3>2. NodesAt(text, A) = {} /\ CausesAt(text, A) = {}
      BY <3>1 DEF NodesAt, CausesAt
    <3>3. rules = <<>> /\ stage # "ready"
      BY <1>1, <2>2
    <3>4. DSL!NodesOf(DSL!RulesAdded(<<>>)) = {} /\ DSL!EdgesOf(DSL!RulesAdded(<<>>)) = {}
      <4>1. PICK m \in 0 .. Len(<<>>) : FirstRules(<<>>, DSL!RulesAdded(<<>>), m)
        BY <1>2, <3>3, AddedAreFirst
      <4>2. m = 0
        OBVIOUS
      <4>3. DOMAIN DSL!RulesAdded(<<>>) = {}
        BY <4>1, <4>2 DEF FirstRules
      <4> QED
        BY <4>3 DEF DSL!NodesOf, DSL!EdgesOf
    <3> QED
      BY <3>2, <3>3, <3>4
  <2> QED
    BY <2>1, <2>2
<1>5. DSL!Grammatical(text) /\ ~DSL!Parses(text) =>
         \E p \in P : p[2] > 1 /\ DSL!At(text, p).node \in Quoting
  BY <1>1, GrammaticalParses DEF Unquoted
<1>6. /\ nodes \ Built = NodesAt(text, A)
      /\ edges \ BuildEdges = CausesAt(text, A)
      /\ stage = "ready" => A = P
      /\ DSL!Grammatical(text) /\ ~DSL!Parses(text) =>
            \E p \in P : p[2] > 1 /\ DSL!At(text, p).node \in Quoting
  BY <1>3, <1>4, <1>5
<1> HIDE DEF asts
<1> QED
  BY <1>6 DEF GraphMatchesText, NodesAt, CausesAt, AddedPlaces, Sound

\* The graph is what the text says, place by place, whatever the text: every rule
\* when the call returns, and when it raises those above the one at fault; and the
\* parser refuses no text of its grammar but for a rule quoted on one line.
THEOREM GraphIsWhatTheTextSays == ReplaySpec => []GraphMatchesText
<1>1. ReplayInit => BothInv /\ TextMatches
  <2>1. ReplayInit => TextMatches
    BY DEF ReplayInit, TextMatches
  <2> QED
    BY <2>1, BothFirst
<1>2. BothInv /\ TextMatches /\ [ReplayNext]_everything => (BothInv /\ TextMatches)'
  <2>1. BothInv => StageInv
    BY DEF BothInv
  <2> QED
    BY <2>1, BothStep, TextMatchesStep
<1>3. BothInv /\ TextMatches => GraphMatchesText
  BY TextMatched DEF BothInv
<1> QED
  BY <1>1, <1>2, <1>3, PTL DEF ReplaySpec

=============================================================================

---------------------------- MODULE CausalReplay ----------------------------
(***************************************************************************)
(* Rules from their text to a second run: a source text is parsed and      *)
(* compiled (RuleText), the graph is run by the main loop (ExecutionLoop), *)
(* and runtime/causal_replay.py runs it again, from the text or with the   *)
(* graph itself, from the store's first snapshot and the recorded events.  *)
(*                                                                         *)
(* Of what user code can do, publishing and injecting events are kept      *)
(* here, before the run and between its ticks; nobody but the loop sets    *)
(* the store.  The user's callables are functions of what they are given:  *)
(* an action returns the same each time, which a replay must count on.     *)
(***************************************************************************)
EXTENDS ExecutionLoop

CONSTANTS
    Broken,           \* conditions that parse and do not compile, see RuleText
    Quoting,          \* actions with a rule among their arguments
    Lines,            \* the lines that a text may have
    Snapshots,        \* what the store may hold when the run begins
    MaxLines,         \* bound: lines of the text
    Does,             \* what each action's callable returns
    Registered,       \* the actions whose function is in the user's registry
    AddsRule          \* the actions that call add_rule, a built-in function

DSL == INSTANCE RuleText WITH Condition <- ConditionNode, Action <- ActionNode

\* The nodes that rules emitted at run time are compiled into.
EmittedNodes == UNION {NodesOfRule(r) : r \in Rule}

ASSUME ReplayConstants ==
    /\ MaxLines \in Nat /\ Lines \subseteq DSL!Line
    /\ Broken \subseteq ConditionNode /\ Quoting \subseteq ActionNode
    /\ Snapshots \subseteq [Key -> Val \cup {Missing}]
    /\ \A n \in ActionNode : {Does[n], None} \subseteq Outcome[n]
    /\ Registered \subseteq ActionNode /\ AddsRule \subseteq ActionNode
    /\ DOMAIN Writes \cup DOMAIN Emits \subseteq Value
    /\ BuildEdges \subseteq Built \X Built /\ EmittedNodes \cap EventNode = {}

\* Each node is made once, with an id of its own: by the client, for a clause of
\* the text or for one of a rule emitted later.
ASSUME NodesAreNew ==
    /\ \A r, s \in Rule : r # s => NodesOfRule(r) \cap NodesOfRule(s) = {}
    /\ EmittedNodes \cap Built = {}
    /\ \A line \in Lines : DSL!NodesOn(line) \cap (EmittedNodes \cup Built) = {}

VARIABLES
    stage,     \* "write", "raised", "ready", "run" or "replay"
    text,      \* the source text, until the run begins
    rules,     \* what the parser makes of it
    base,      \* has the client added nodes of its own to the graph?
    how,       \* "compile" with the user's registry, "inject" with built-ins too
    initial,   \* the store's snapshot when the run began
    late,      \* did an event come from outside after the run began?
    first,     \* what the first run left
    via        \* "replay" or "replay_graph"

replayVars == <<stage, text, rules, base, how, initial, late, first, via>>
everything == <<allVars, replayVars>>

\* The actions with a callable; the function of any other was in no registry
\* when its node was compiled, and a stub stands for it.
Bound ==
    {n \in ActionNode :
        \/ n \in Built
        \/ n \in EmittedNodes /\ n \in AddsRule
        \/ n \notin EmittedNodes /\ n \in Registered
        \/ n \notin EmittedNodes /\ n \in AddsRule /\ how = "inject"}

Returns(n) == IF n \in Bound THEN Does[n] ELSE None

-----------------------------------------------------------------------------
(* Writing and compiling.                                                  *)

ReplayInit ==
    /\ LoopInit
    /\ stage = "write" /\ text = <<>> /\ rules = <<>> /\ base = FALSE /\ how = "compile"
    /\ initial = NoData /\ late = FALSE /\ via = "none"
    /\ first = [history |-> <<>>, store |-> NoData, ticks |-> 0,
                graph |-> <<{}, {}>>, bound |-> {}]

WriteLine(line) ==
    /\ stage = "write" /\ Len(text) < MaxLines
    /\ \A i \in DOMAIN text : DSL!NodesOn(text[i]) \cap DSL!NodesOn(line) = {}
    /\ text' = Append(text, line)
    /\ UNCHANGED <<allVars, stage, rules, base, how, initial, late, first, via>>

\* The graph of the client's own nodes, if any, with those of the rules.
GraphOf(withOwn, asts) ==
    /\ nodes' = DSL!NodesOf(asts) \cup IF withOwn THEN Built ELSE {}
    /\ edges' = DSL!EdgesOf(asts) \cup IF withOwn THEN BuildEdges ELSE {}

\* parse() and DSLCompiler.compile(), into a graph of its own.
Compile ==
    /\ stage = "write" /\ text # <<>>
    /\ DSL!Parses(text) /\ DSL!Compiles(DSL!Parsed(text))
    /\ rules' = DSL!Parsed(text)
    /\ GraphOf(FALSE, rules')
    /\ how' = "compile" /\ stage' = "ready" /\ pc' = "idle"
    /\ UNCHANGED <<state, result, eventVars, history, tickVars, callVars, eventLists,
                   store, locals, text, base, initial, late, first, via>>

\* inject_rule() of the loop of a graph the client has built.
InjectText(withOwn) ==
    /\ stage = "write" /\ text # <<>>
    /\ rules' = IF DSL!Parses(text) THEN DSL!Parsed(text) ELSE <<>>
    /\ GraphOf(withOwn, DSL!RulesAdded(rules'))
    /\ stage' = IF DSL!Parses(text) /\ DSL!Compiles(rules') THEN "ready" ELSE "raised"
    /\ base' = withOwn /\ how' = "inject" /\ pc' = "idle"
    /\ UNCHANGED <<state, result, eventVars, history, tickVars, callVars, eventLists,
                   store, locals, text, initial, late, first, via>>

-----------------------------------------------------------------------------
(* The first run.                                                          *)

EventFromOutside == \E ev \in Event : InjectEvent(ev) \/ Publish(ev)

EarlyEvent ==
    /\ stage = "ready"
    /\ EventFromOutside
    /\ UNCHANGED replayVars

\* start(), with the state that the store was created with.
FirstStart(snapshot) ==
    /\ stage = "ready"
    /\ store' = snapshot /\ initial' = snapshot
    /\ running' = TRUE /\ caller' = "start" /\ pc' = "loop"
    /\ stage' = "run" /\ text' = <<>>
    /\ UNCHANGED <<vars, ticks, eventLists, locals, rules, base, how, late, first, via>>

\* In callbacks between the ticks.
LateEvent ==
    /\ stage = "run" /\ pc = "callbacks"
    /\ EventFromOutside
    /\ late' = TRUE
    /\ UNCHANGED <<stage, text, rules, base, how, initial, first, via>>

\* A callable given the same returns the same, or raises each time.
CallablesArePure ==
    Len(history') > Len(history) =>
        LET e == history'[Len(history')]
        IN  e.node \in ActionNode =>
               IF e.node \in Failing \cap Bound THEN e.outcome = "error"
               ELSE e.outcome = "done" /\ e.result = Returns(e.node)

\* The loop, in either run; no subscriber, callback or rule text raises.
RunStep ==
    /\ stage \in {"run", "replay"}
    /\ LoopStep
    /\ CallablesArePure
    /\ pc' = "idle" => ~running'
    /\ UNCHANGED replayVars

-----------------------------------------------------------------------------
(* The second run.                                                         *)

Ended == stage = "run" /\ pc = "idle"

\* What is kept of the first run to compare the second with.
Keep ==
    first' = [history |-> history, store |-> store, ticks |-> ticks,
              graph |-> <<nodes, edges>>, bound |-> Bound \cap nodes]

\* A second run with the store as the first has left it.
RunAgainFromEnd(snapshot, trace) ==
    /\ store' = store /\ bus' = trace
    /\ queue' = <<>> /\ draining' = <<>> /\ ticks' = 0
    /\ running' = TRUE /\ caller' = "start" /\ pc' = "loop"
    /\ UNCHANGED locals

\* A new store, bus, layer stack and loop; _publish_trace comes before start().
RunAgain(snapshot, trace) ==
    /\ store' = snapshot /\ bus' = trace
    /\ queue' = <<>> /\ draining' = <<>> /\ ticks' = 0
    /\ running' = TRUE /\ caller' = "start" /\ pc' = "loop"
    /\ UNCHANGED locals

\* replay(): the text is compiled anew, with the registry; the trace is what the
\* tracer of the first run recorded, all that its bus has seen.
Replay ==
    /\ Ended /\ ~base
    /\ GraphOf(FALSE, rules)
    /\ state' = [n \in Node |-> "PENDING"] /\ result' = [n \in Node |-> None]
    /\ triggered' = [n \in EventNode |-> FALSE]
    /\ eventValue' = [n \in EventNode |-> None]
    /\ history' = <<>>
    /\ RunAgain(initial, bus)
    /\ how' = "compile" /\ via' = "replay" /\ stage' = "replay"
    /\ Keep
    /\ UNCHANGED <<tickVars, text, rules, base, initial, late>>

\* replay_graph(): the graph is reset.  Rules it has emitted stay in it and would
\* be compiled a second time, under new nodes; that is left out.
ReplayGraph ==
    /\ Ended /\ \A r \in Rule : ~Compiled(r)
    /\ Reset
    /\ RunAgain(initial, bus)
    /\ via' = "replay_graph" /\ stage' = "replay"
    /\ Keep
    /\ UNCHANGED <<text, rules, base, how, initial, late>>

-----------------------------------------------------------------------------
ReplayNext ==
    \/ \E line \in Lines : WriteLine(line)
    \/ Compile \/ \E withOwn \in BOOLEAN : InjectText(withOwn)
    \/ EarlyEvent \/ LateEvent
    \/ (\E snapshot \in Snapshots : FirstStart(snapshot)) \/ RunStep
    \/ Replay \/ ReplayGraph

ReplaySpec == ReplayInit /\ [][ReplayNext]_everything

-----------------------------------------------------------------------------
(* Properties.                                                             *)

\* The graph is what the text says, place by place: each clause that counts is
\* one node, and each effect has the edge from its cause, however the rules are
\* spread over lines and separators and wherever the THEN stands.  When the call
\* raises, the graph holds the rules above the one at fault, each one whole, or
\* none if it is the parser that refuses; and it refuses no text of the
\* documented grammar, but for a rule quoted in a rule on one line.
GraphMatchesText ==
    stage \in {"ready", "raised"} =>
        LET places == DSL!Places(text)
            Good(p) == /\ DSL!Parses(text)
                       /\ \A q \in places : DSL!At(text, q).node \in Broken => p[1] < q[1]
            added   == {p \in places :
                          /\ Good(p)
                          /\ \A q \in places : DSL!SameRule(text, p[1], q[1]) => Good(q)}
        IN  /\ nodes \ Built = {DSL!At(text, p).node : p \in added}
            /\ edges \ BuildEdges =
                 {<<DSL!At(text, pq[1]).node, DSL!At(text, pq[2]).node>> : pq \in
                    {pq \in added \X added : DSL!CauseOf(text, pq[1], pq[2])}}
            /\ stage = "ready" => added = places
            /\ DSL!Grammatical(text) /\ ~DSL!Parses(text) =>
                 \E p \in places : p[2] > 1 /\ DSL!At(text, p).node \in Quoting

\* a is a cause of b, near or far.
Leads(a, b) ==
    \A S \in SUBSET nodes :
        a \in S /\ (\A e \in edges : e[1] \in S => e[2] \in S) => b \in S

\* What a node yields that has its payload or its callable.
Yields(n) == IF n \in EventNode THEN eventValue[n] ELSE Returns(n)

\* Of two nodes that may run in any order none writes what the other writes.
RaceFree ==
    \A a, b \in nodes \cap (EventNode \cup Bound) :
        \/ Leads(a, b) \/ Leads(b, a)
        \/ {Yields(a), Yields(b)} \ (DOMAIN Writes \ DOMAIN Emits) # {}
        \/ \A k \in DOMAIN Writes[Yields(a)] \cap DOMAIN Writes[Yields(b)] :
              Writes[Yields(a)][k] = Writes[Yields(b)][k]

Replayed == stage = "replay" /\ pc = "idle"

\* What a history tells of each node, its entries numbered; which node of a wave
\* comes first is not told.
Told(h) ==
    {<<h[i], Cardinality({j \in 1 .. i : h[j].node = h[i].node})>> : i \in DOMAIN h}

\* The inputs of the first run were what the second is given: the functions were
\* the same, and events came before the run or, as the graphs of a rule text
\* have no event nodes, do not matter.
Reproducible ==
    /\ nodes \cap EventNode # {} => ~late
    /\ Bound \cap nodes = first.bound

\* Deterministic replay (MODEL.md, Invariant II) as far as the code has it: if
\* no two actions race, the second run takes as many ticks, ends in the same
\* state, emits the same rules and does to each node what the first run did,
\* in whatever order the nodes of a wave are executed in either of them.
ReplayReproduces ==
    Replayed /\ Reproducible /\ RaceFree =>
        /\ store = first.store /\ ticks = first.ticks
        /\ <<nodes, edges>> = first.graph
        /\ Told(history) = Told(first.history)

=============================================================================

# RS-CCE: a verification project

TLA+ models of the Reality Substrate / Causal Computing Engine (`src/`),
model-checked with TLC; every safety property that holds is also proved with TLAPS,
for every value of the constants.

Contents: [1 the system](#1-the-system) - [2 the modules](#2-the-modules) -
[3 the runs](#3-the-runs) - [4 fairness](#4-fairness) -
[5 the proofs](#5-the-proofs) - [6 where code and documents disagree](#6-where-code-and-documents-disagree) -
[7 abstractions and what is not modelled](#7-abstractions-and-what-is-not-modelled) -
[8 plan](#8-plan)

## 1. The system

### Parts

| Part | Source | State it keeps | Operations | What makes it correct |
|---|---|---|---|---|
| Causal scheduler | `core/causal_engine.py`, `core/node_types.py` | nodes, edges; state, result and trigger of every node; `execution_history` | `add_node`, `add_edge`, `trigger`, `tick`, `reset`, `absorb` | causes run before effects, effects run once, the history explains the nodes, a call of `tick()` runs every chain to its end and returns |
| Graph operators | `core/formal_semantics.py`, `core/graph_composer.py` | none of their own: the graphs they return contain the *same* node objects as the graphs they are given | `evolve`, `transition`, `ready_set`, `causal_depth`, `reachable`, `compose`, `compose_sequential` | composed parts keep their order or their independence; the operators predict what the scheduler does |
| Event bus, tracer | `core/event_bus.py`, `tools/event_tracer.py` | subscriber lists, history; the trace | `subscribe`, `unsubscribe`, `publish`, `replay`, `clear_history`; `replay`, `clear`, `save`, `load` | every callback hears every event once, also when callbacks change the lists or publish |
| Reality layers | `reality_layers/*.py` | the stack; each layer's queue, flag, clock and allocation counter | `push`, `pop`, `enabled`, `inject_event`, `drain_all_events`, `time_now`, `memory_alloc`, ... | no event lost or overtaken, determinism not escaped, time goes on |
| State store | `runtime/state_store.py` | the dict, the changelog | `set`, `update`, `delete`, `restore`, `replay_to`, `clear_changelog` | the log is a chain of changes and reconstructs what it mentions |
| Execution loop | `runtime/execution_loop.py` | tick count, running flag, callbacks | `start`, `stop`, `tick_once`, `inject_rule`, `on_tick` | events reach nodes once, store changes come from nodes, emitted rules arrive, `start()` returns |
| Distributed runtimes | `runtime/distributed_runtime.py` | a vector clock, a sequence counter and an event log per runtime | `emit`, `receive`, `sync`; `merge`, `causal_order`, `conflicts` | clocks stand for causal pasts; merged logs are conflict-free and converge |
| Proof engine | `tools/proof_engine.py` | proofs, certificates, how much of the history it has read | `attach`, `record_tick`, `get_lineage`, `reset` | a proof for what ran and for nothing else, with true certificates and gapless chains |
| Causal replay | `runtime/causal_replay.py` | none | `replay`, `replay_graph` | same rules, state and events give the same history |
| Rules | `dsl/parser.py`, `dsl/compiler.py` | none | `parse`, `compile` | a text becomes the graph it describes, condition -> action -> ... -> action, rule by rule; a text that is refused adds no part of a rule |
| Monitor, visualizer | `runtime/graph_monitor.py`, `tools/visualizer.py` | snapshots taken | read-only views | - |
| Demos | `main.py`, `demo_viral.py` | - | scripts | - |

### How the parts interact

`ExecutionLoop._do_tick` is where they meet. It drains the layer stack into the
bus; looks in the bus history for the latest event of each type that an
untriggered event node waits for, and triggers it; hands a snapshot of the store
to `CausalGraph.tick`; writes the dicts that nodes returned into the store;
parses, compiles and adds the rules that nodes returned; and calls the `on_tick`
callbacks. The proof engine and the monitor are such callbacks, and read the
graph. The tracer is a wildcard subscriber of the bus. Replay builds a fresh loop
and publishes a recorded trace on its bus. Composition and evolution make graphs
that share nodes. The distributed runtimes have no link to the loop but the log
they give to one another.

### Which behaviours are hard

Everything runs on one thread, so the difficulty is not preemption. It is that
user code runs in the middle of nearly every operation (node callables inside
`tick()`, bus subscribers inside `publish()`, `on_tick` callbacks inside
`_do_tick`) and may call back into the system or raise; that sets decide the order
of nodes within a wave, so that any order must do; that objects are shared and
state outlives the call it belonged to (triggers after a reset, bus history after
a tick, nodes in two graphs, changelog entries after a restore, a saved trace after
the end of its process); and, between
runtimes, that receipts come late, twice and out of order. `PROJECT.json` lists
each such hazard at its line with the properties that are aimed at it.

## 2. The modules

| Module | Models | Uses |
|---|---|---|
| `CausalGraph` | one graph, its nodes, `tick()` split at each callable | |
| `CausalGraphProofs` | its invariants and action properties, proved | `CausalGraph` |
| `ExecutionLoop` | `start`, `tick_once`, `_do_tick`, `inject_rule`, user code | extends `CausalGraph`: the graph in the loop *is* that graph |
| `EventDelivery` | what becomes of an injected event: the loop beside a record of it | extends `ExecutionLoop` |
| `ProofEngine` | the engine as a callback over the graph | extends `CausalGraph` |
| `ProofEngineProofs` | its proofs, certificates and lineage, proved right | `CausalGraphProofs` |
| `SharedGraphs` | several graphs over the same node objects | |
| `SharedGraphsProofs` | ticks, composition and sequence, proved | `SharedGraphs` |
| `EventBus` | buses, a tracer and its file, the call stack of nested publications, the end of the process | |
| `RealityLayers` | the layer stack | |
| `RealityLayersProofs` | who answers, and that nothing is lost or given twice, proved | `RealityLayers` |
| `StateStore` | the store, its log, `replay_to` | |
| `BusAndStoreProofs` | what the tracer hears and in which order; the chain of changes and `replay_to`, proved | `EventBus`, `StateStore` |
| `EventLog` | vector clocks and logs as data: `merge`, conflict resolution, `causal_order` | |
| `CausalNodeRuntime` | runtimes that emit, receive and sync | extends `EventLog` |
| `CausalHistory` | the abstract specification: events with their causal pasts, no clocks | |
| `RuleText` | the parser and the compiler as functions of a text | |
| `CausalReplay` | from a text to a run and to its replay | extends `ExecutionLoop`, instantiates `RuleText` |
| `LoopAndReplayProofs` | the ways of events, results and rules through the loop; a graph is what its text says; a replay reproduces its run, proved | `EventDelivery`, `CausalReplay`, `CausalGraphProofs` |
| `MergeLaws` | laws of `merge` and `causal_order` on reachable logs, convergence | extends `CausalNodeRuntime` |
| `CausalNodeRuntimeProofs` | clocks, logs, the refinement and the laws of merging, proved | `MergeLaws`, `CausalHistory` |
| `DataInduction` | lemmas on numbers, sets and recursive functions, the basis of the proofs about them | |
| `MC*` | instances for TLC | |

Definitions whose comment says what a changed function *would* do
(`ReadyPastFailure`, `SyncReplacing`, ...) are plausible bugs. They are not part
of any specification: substituting one for the definition that follows it breaks
the property named with it in `PROJECT.json`, which shows that the property
depends on that piece of code.

### CausalGraph

State: `nodes`, `edges` (`_nodes`, `_predecessors`, `_successors`), `state`,
`result`, `triggered`, `eventValue` (the node objects), `history`
(`execution_history`), and the locals of a call of `tick()`: `phase`, `wave`,
`attempted` (`attempted_this_tick`) and `ctx`, the part of the context dictionary
that the scheduler itself writes: one entry per node.

`AddNode`, `AddEdge`, `Trigger`, `Reset` are the methods of those names.
`BeginTick` seeds the context; `NextWave` is one evaluation of
`get_ready_nodes()`; `FireEvent`, `FireCondition`, `FireAction`, `FailCondition`
and `FailAction` are one pass of the inner loop, with the `try/except` around
`execute()`; `EndTick` is the exit. Actions and transforms have the same
`execute()` and are one kind. Waves are executed in any order, because the code
iterates over a set of UUID strings (`causal_engine.py:248`). Callables may trigger
event nodes between two executions of a call.

### ExecutionLoop

`pc` is where the call is: `drain`, `publish`, `subscribers`, `graph`, `write`,
`inject`, `callbacks`, or `idle` between calls. The three places where the code
runs user code are states of their own, where `UserStep` may inject layer
events, publish, trigger, set the store or stop the loop, and where subscribers and
callbacks may inject rules and raise (`Abort`: locals are lost and `start()`
does not reset `_running`). Node callables run in `graph`, by the actions of
`CausalGraph`, and read the snapshot `snap`; what they set in the store themselves
is in the history variable `meanwhile`, until results are written over it. A rule is
compiled by the calls of `add_node` and `add_edge` that the compiler makes, in its
order, from `inject`, or from `hotload` when a subscriber asked for it.

### EventDelivery

The loop beside four history variables that no step of the loop reads: the events
`sent` into the layers, in order; how many had been sent at each of the `drains`; those
at which a subscriber `raised`; and the length of the bus history when each tick of the
graph began (`heard`). Events carry data of their own, so that it can be said of each
where it is, and of a node which event it has taken.

### EventBus

`subs` and `hist` are the two fields of each bus. Subscribers call back while the
bus is in the middle of a `for` over a copy of a list, so the Python call stack is
a variable: a `tell` frame is a publication with the callbacks left to call (the
copy the code made), a `call` frame is a running callback, a `retrace` frame is
`EventTracer.replay` at its position in the live trace. Between frames only the
innermost runs. `owed` is a history variable: the events the tracer must hear.

`file` is what the tracer has saved: one whole trace, or none. `Save` and `Load` are
the methods; `SaveRaises` is a `save()` that fails half way, which has emptied the
file before (event_tracer.py:90); `Restart` ends the process at any moment, also in
the middle of a callback, and leaves nothing but the file.

### RuleText and CausalReplay

A text is a sequence of lines, a line the sequence of the clauses written on it; a
clause is its keyword and the node it becomes. `SplitRuleBlocks`, `NormalizeBlock`,
`ParsesBlock` and `RuleAST` are the steps of `parse()`; `RulesAdded`, `NodesOf` and
`EdgesOf` are `compile()`, of which the rules before a condition that has no meaning
for it stay added. The second half of `RuleText` reads the same off the text place
by place, without blocks or trees: two places are of one rule if no separator stands
between their lines (`SameRule`), and one is the cause of another if it is of the same
rule and comes just before it, the THEN before every CAUSE (`CauseOf`).
`GraphMatchesText` compares the two.

In `CausalReplay` the client writes a text line by line (`WriteLine`), compiles it
(`Compile`) or injects it into a loop (`InjectText`), publishes events (`EarlyEvent`,
`LateEvent`) and runs the loop (`FirstStart`, `RunStep`: the steps are those of
`ExecutionLoop`). `Replay` and `ReplayGraph` are the two methods of the replay
engine: they set up the second run in one step, all of the trace on its bus, and the
same steps run it. `first` is what the first run left. Which function a clause is
bound to depends on how it was compiled (`Bound`): `compile()` knows the user's
registry, `inject_rule` the user's and the built-in ones, and a rule emitted at run
time the built-in ones only.

### RealityLayers

One variable per field of the layers. `Resolve` is the lookup of the topmost
enabled layer that overrides a method. Times are in half units, so that a factor
of one half is a whole number. `injected`, `drained`, `last` and `allocs` are
history variables the properties need.

### StateStore

`data`, `changelog`, a wall clock `now` that stamps entries and may stand still
between calls, and the history variable `past` (what the store held when the
clock last showed t). `ReplayTo` is `replay_to`.

### ProofEngine

The variables of `CausalGraph` and the engine's `proofs`, `certs` and `lastLen`
(`_last_history_len`). Between the end of a tick and the engine's turn other
callbacks may edit, trigger and reset the graph, or raise (`TurnMissed`).
`RecordTick` is the whole of `record_tick`, with the `RecursionError` that ends it
early on a cyclic past (`RecordedUpTo`). `contexts` and `made` note what was so
when a node ran, for the properties to compare with.

### SharedGraphs

Handles `Graph` with `nodesOf`, `edgesOf` and a `log` each, and *one* `state` and
`triggered` for all nodes. `Compose`, `ComposeBridged`, `ComposeSequential`,
`ComposeRaises` (nodes are reset before the bridge is found wrong) and `Evolve`
make new graphs, `Absorb` takes one graph into another that is in use and keeps its
history; `BeginTick` and `BeginTransition` run one of them in waves.
`ActivationSatisfied`, `ReadySet`, `Reachable` and `CausalDepth` are the operators
of `formal_semantics.py`. `made` notes how a graph came about.

### The distributed layer

`EventLog` has the pure part: clocks as functions, a log as a function from events
to their insertion positions, `Merged` with the three conflict policies in the
order in which `_resolve_conflicts` looks at pairs, and `CausalOrder`, Kahn's
algorithm with the heap. `CausalNodeRuntime` has `clock`, `seq` and `log` for every
runtime and the actions `Emit`, `Receive` (any emitted event, at any time, any
number of times: the network may delay, reorder and duplicate; loss is never
receiving) and `Sync`. `CausalHistory` is what the clocks promise, without clocks;
`History` maps the one to the other by reading every causal past off the clocks.

## 3. The runs

| Run | Instance | What it shows |
|---|---|---|
| `causal_graph` | event, condition, action; all 9 edges (cycles, self-loops), 4 history entries | `FireOnce`, `HistoryExplainsNodes`, `ConsumersSeeCauses`, `CausesFirst`, `TickDrains`, `TickReturns` |
| `causal_graph_reset` | the same | *violated*: `ResetForgetsTriggers` |
| `execution_loop` | a condition, an event, an action and another event in a chain; the action emits a rule with a THEN and a CAUSE and a rule with a THEN; subscribers inject the second, users a garbled one; two events of one type, injected into a layer or published, in any user code; a node triggered by hand; two ticks, which may end in exceptions | `EventsArriveInOrder`, `FirstTickDecides`, `HeardEventsFire`, `BusFiresOnce`, `CausalConsistency`, `QuiescentWhenNothingRan`, `EmittedRulesArrive`, `RulesTakeEffect`, `StartReturns` |
| `event_bus` | two buses, one type and the wildcard, one callback, a tracer with a file; 2 events, 2 registrations when a callback is added, 1 replay, 5 frames; the process may end at any time | `EveryEventHeard`, `TraceIsDepthFirst` |
| `retrace_own_bus` | one bus, the tracer replays onto it | *violated*: `RetraceIsBounded` |
| `reality_layers` | one layer of each kind, stack of 3, 2 events, 3 events/allocations/time units together | `EventsKeepOrder`, `DeterministicUnlessCovered`, `NeverHandedOutTwice` |
| `state_store` | two keys, a value and a stored `None`, 3 entries, 3 times | `ChangelogChains`, `LoggedKeysReplayed` |
| `proof_engine` | event, condition, action, an edge that closes a cycle; 2 ticks, 5 entries | `ProofsMatchHistory`, `CertificatesDateCauses`, `ChainsAreProved`, `LineageIsADag` |
| `shared_graphs` | graphs of one or two nodes in sequence, apart, sharing a node or with a cycle, and a graph made of them, which may absorb either while in use; two deltas; at most one callable that does not succeed | `DownstreamWaits`, `HistoryShowsDone`, `DepthIsWave`, `PartsStayIndependent`, `FiredIsClosure` |
| `causal_replay` | 16 kinds of line, texts of up to 4, with and without nodes of the client's own; 3 states of the store, 2 events, 3 ticks, one rule emitted at run time | `GraphMatchesText`, `ReplayReproduces` |
| `runtimes` | 3 runtimes, up to 3 events, 2 of one source, 1 key, all policies | `ClockOrderIsCausality`, `LogsMatchClocks`, `MergeResolves`, `CausalOrderIsCanonical`, `LogsGrowAtTheEnd`, `ClocksImplementHistories`, `Converges` |
| `merge_commutes` | 2 runtimes, last writer wins | *violated*: `MergeCommutes` |

### Why the bounds are enough

- `MaxHistory` stops *starting* ticks, never a tick that runs: `BeginTick` leaves
  room for every node. Four entries let three nodes run, be triggered or reset and
  run again; a cause that runs again after its effect needs four.
- Three nodes, one of each kind, with all edges have every cycle and two causes of
  one effect; the theorems of section 5 remove this bound altogether.
- Two ticks of the loop are what a rule needs to be emitted in one and to run in the
  next, and an event to be seen twice by `_sync_event_nodes`. The chains of three
  and two nodes let a rule text be half compiled. Two events let two be drained
  together, one be injected by a subscriber told of the other, and one come before and
  one after the tick that hears the first. The node that hears them has a condition for
  its cause, so that an event is heard in one tick and fires in the next.
  `BoundedUserCode` keeps this run small, as an action constraint on user code alone:
  the event with the data `more` comes second and goes through a layer, no event is of
  the type of the node that is triggered by hand, and the user injects the valid rule
  from subscribers only (`EventsAsNamed`, `RulesFromSubscribers`). The theorems have none
  of these bounds.
- Two events in the bus are what it takes to publish one while telling the other;
  five frames are publication, callback, publication, callback, publication.
- The budget of `reality_layers` limits events, allocations and time together: they
  touch different variables. Three layers, one of each kind, let every layer cover
  every other.
- The file of a tracer needs one event saved, a restart, and another event: two.
- Three runtimes and three events (`MaxEmitted`), of which one runtime may emit two
  (`MaxSeq`), have concurrent, ordered and conflicting pairs, equal and unequal
  sequence numbers, gaps, repeats, an event that reaches the third runtime through the
  second, and chains of conflicts: e and g, of which e causes g, each with f.
- Four lines hold two rules with a separator, a rule of four lines with the THEN at
  any place, a rule at fault below a whole one, and a rule that emits a rule. Three
  ticks let a rule be emitted, fire and come to rest; the longest chain of four lines
  needs one. Two events are one before the run and one in it. `MaxHistory` is out of
  reach: 36 entries for at most twelve nodes and three ticks.
- Deadlock is checked except in `shared_graphs`, `causal_replay` and the violation run
  `retrace_own_bus`. In `shared_graphs` only calls on empty histories are explored
  (`MaxHistory` is 0 when a tick begins), so that a client ends up with nothing left
  to try. In `causal_replay` the client is done after the second run, or stuck with a
  text that was refused.

No run checks a type invariant: each module's is a theorem instead. `CausalReplay` has the variables of `ExecutionLoop`.

## 4. Fairness

- `CausalGraph!FairSpec`: weak fairness of `TickStep`. `tick()` is a plain loop on
  one thread: once called it takes its next step, if callables return. No fairness
  is assumed of the client, who need never call. `TickReturns` then holds although
  conditions that are false stay ready, graphs are cyclic and callables trigger
  events over and over: what ends the call is `attempted_this_tick`.
- `EventDelivery!FairDeliverySpec`: weak fairness of `LoopStep`, the steps of
  `ExecutionLoop` that are not the user's, for the same reason.
  `StartReturns` holds because of `max_ticks` alone; a user who never stops the
  loop, and conditions that stay false and keep ticks from being empty, are allowed.
- `CausalNodeRuntime!FairSpec`: weak fairness of `Sync` under `KEEP_BOTH` for each
  ordered pair. The documents describe runtimes that merge the logs they received at
  every tick (PAPER.md, section 4.7); nothing is assumed of `receive`, and a sync is
  one method call on a log at hand. Syncs under the other policies may come in between
  and drop what they like: `Converges` holds all the same, since what was dropped from
  a log is still in the log of the node that emitted it. Without the syncs under
  `KEEP_BOTH` it does not hold, see section 6.

## 5. The proofs

All proofs are for every value of the constants within the named assumptions of the
modules (`NodeKinds`, `Sentinels`, `MaxHistoryNat`, `LoopBounds`, `LoopConstants`,
`RulesAreNew`, `ReplayConstants`, `NodesAreNew`, `EngineConstants`, `GraphParameters`, `BusConstants`, `StoreConstants`, `LayerKinds`, `LayerNumbers`,
`NodeIds`, `PolicyNames`, `EmissionBounds`). They say that kinds do not overlap,
sentinels are no values, bounds are numbers, tables have the right domains and what
the program creates object by object (nodes of graphs, keys of a store) is finite.
`RulesAreNew` and `NodesAreNew` say that a node is made once: those of the client, those of the text and
those of each rule emitted later are different, as each has an id of its own.
TLC evaluates each of them on the instances. Two theorems have a hypothesis more, and
say so: `LogReplays` that the clock is never set back (`~SetsBack`; with a clock that
is, `replay_to` is wrong, as its comparison of stamps must be), and `RulesArrive` that
nodes emit no rule text that the parser refuses (`EmittedRulesParse`; see section 6).
Each holds in the instance that its run checks.

### What each module proves, and how

**DataInduction.** The induction theorems of the library take an operator as parameter,
which the provers cannot instantiate. Induction over a *set* needs none: a set that has
0 and, with each number, the next has all (`SetInduction`); hence least and greatest
elements, functions by primitive recursion (`PrimitiveRecursion`), and functions on
the subsets of a finite set that grow until nothing changes (`IterationExists`,
`IterationCloses`: what they stop at is the least closed set). Everything below that
speaks of a loop over data (`record_tick`, `replay_to`, `merge`, `causal_order`,
`drain_all_events`, waves run to quiescence) rests on these.

**CausalGraphProofs.** `TypeCorrect` first. `FireOnce` and `HistoryExplainsNodes`
are not inductive: they hold only because a node that runs is one that `Ready`
chose, in this wave, and nothing that happened since (an execution, a trigger from
inside a callable) has made that choice wrong. `IInv` adds what links the locals of
`tick()` to the graph: `DoneRecorded` (DONE means completed in the history),
`WaveReady` (the rest of the wave can still run), `Unregistered`, `OutcomeKinds`,
`FreshRuns` (a node still able to run has no completed entry), `ContextCurrent` (the
context has the present results), `AttemptedSettled` and `Quiet` (no locals outside
a tick). `FireExecutes` shows that the five ways to run a node are one kind of
step, so that `ExecutesKeeps` proves each part once for all of them; `EditKeeps` and
`LoopKeeps` do the rest. The theorems `FiresOnce`, `HistoryIsExplanation`,
`CausesVisible`, `CausalOrder` and `TickRunsToQuiescence` follow from `IInv`, the
last two as action properties.

**LoopAndReplayProofs, the loop.** `LoopStepIsGraphStep`: each step of the loop is a step of
`CausalGraph!Next` or leaves the graph alone, which needs one invariant,
`EventsTyped`: what is on the bus may be a payload. That makes the loop a client of the
graph like any other, by its definition (the lemma `LoopUsesGraph`), and so every
theorem of the scheduler can be used of the loop (`SchedulerInLoop`), rules
injected while it runs included. `NothingRanMeansQuiescent` uses `LInv`: if nothing
was reported, all that was attempted failed (`OnlyRaised`), and failed nodes are not
ready. Then the ways through a tick:

- `EventsFireOnce`: the bus keeps its history and every tick searches it; what stops a
  second trigger is that a node that fired stays DONE and marked (`FiredForGood`), and
  that a node in the wave is marked (`WaveTriggered`).
- `StoreChangesAreCaused`: while results are written, a key holds the result of the last
  of the nodes written so far that has the key, or what a callable has set, or what the
  snapshot shows (`WrittenSoFar`).
- `RulesArrive`: a rule emitted is in the graph, or pending, or its node is on the list
  of those whose results are still to be collected (`RulesDelivered`). `FreshLocals` says
  which of these lists are empty at which step.
- `CompiledRulesRun`: a rule is in the graph whole or is being compiled (`WholeRules`), the
  edges into its nodes are those of its chain and no others (`RuleEdges`; its nodes are
  new), so that no node of it has run before the one it follows (`ChainOrder`); a
  condition attempted in this call and not DONE is false of the snapshot
  (`ConditionsTold`). When `tick()` ends nothing of the rule is left ready but such a
  condition (`TickDrains`).

**LoopAndReplayProofs, the events.** The record of `EventDelivery` is followed through the
kinds of step that touch it (`DeliveryKinds`). `EventsInOrder`: the queue and what a tick has drained
are the end of the list of events sent (`Placed`), so that of those before it is known
which are on the bus (`LostKnown`), in order (`BusInOrder`); no drain falls between what
is drained now (`DrainsKnown`), and an exception in a subscriber is at the last event of
the bus (`TellsLast`, `RaisedKnown`). `DeliveryInv` is the conjunction. `FirstTickIsKept`
and `HeardFire` add `HeardInv`: a node that has heard an event is triggered
(`HeardTriggers`), is triggered by nothing else (`HeardCauses`), and has the data of the
event that was the latest then (`FirstHeard`), whatever the bus has got since
(`BusGrows`). `HeardFire` needs moreover that an event node never fails, so that one attempted in
this call has a completed entry (`EventsComplete`), and `TickDrains`.

`LoopTypes` is the type invariant of all the loop's variables.

**LoopAndReplayProofs, the replay.** `SecondRunReproducesTheFirst` compares two runs of
which one is over when the other begins, and in which the nodes of a wave are executed in
any order, so that no step of one is a step of the other. What they have in common are
the moments between ticks. `Ticks(in, s, u)` says what a tick makes of moment `s`, with no
word of waves or of order: `Runs(in, s)` is the least set of nodes closed under being
ready, the history says of each of them what it yields on the store of `s`, and of the
writers of a key one that leads to no other has the last word (`Stores`). Hence
`TickDetermined`: if any two writers of a key either agree or one leads to the other
(`NoRace`), the next moment is unique.

- Each run follows such moments (`RunInv`: there is a sequence of moments, each a tick
  from the one before). Inside a tick, what has been executed so far is a part of `Runs`
  and what each node shows is what the relation says of it (`Within`, `OneRun`,
  `RunsAsTold`); when no wave is left that part is all (`AllRan`). Executed nodes are
  listed after all that leads to them (`Ordered`), so that the last writer of a key in
  the list is one that leads to no other (`GraphReturns`, `MomentReached`). Rules emitted
  are compiled one by one, between two graphs that are known (`Injecting`). `RunGoesOn`
  has a case for each step of the loop.
- A node added by a rule is new, so no path between older nodes goes through it
  (`LeadsBack`) and what has run keeps its causes (`MomentNext`). So `RaceFree`, which
  speaks of the graph and the values that the run ends with, says `NoRace` of each tick
  (`RaceFreeTicks`).
- What a run is given, is `Given`: the graph, the functions, the events on the bus. Events
  that wait in a layer come to the bus in the first tick, before any node has looked
  (`QueueInv`); a late event changes nothing where no event node is (`BusChanges`). The
  first run of a text began with the graph of its rules and `Replay` makes that again
  (`ParsedGood`, `ReplayBegins`); when `ReplayGraph` is called no rule was compiled in the
  run, so the graph is the one it began with (`ReplayGraphBegins`).
- `RunsCoincide`: given the same, both go through the same moments, by induction over the
  ticks, and end with the same one, because whether a tick was quiescent is said by the
  moment before it (`Still`).

The inductive invariant is `BothInv`: what is known in each stage (`StageInv`), of the
first run (`FirstInv`), and of both (`SecondInv`).

**LoopAndReplayProofs, the text.** `GraphIsWhatTheTextSays` compares two readings of a
text, one a fold over its lines that makes blocks, syntax trees and a graph, the other a
set of places with two relations on it.

- The fold, by induction over the lines (`TakeSpans`): the blocks taken so far are the
  stretches of lines between separators (`Span`), one below the other, and hold every
  line that is no separator but those of the block that is not ended yet. At the end
  nothing is left out (`BlocksOfText`).
- One stretch (`SameRuleOfSpan`, `PlacesOfSpan`, `AboveInSpan`): its lines are of one rule
  and no other line is, so the rule's places are the clauses of its only line or the
  first clauses of its lines, and those above a place are those with a smaller number.
- One block that the parser accepts (`ParsedBlock`): one IF, first, one THEN, wherever it
  stands, and CAUSEs; the order of compilation is a permutation of the places under which
  "comes before in the rule" is `<`, so that the cause of the k-th is the one before it
  (`PlacesCompiled`, `RuleOfSpan`).
- Compilation stops at the first rule whose condition does not compile
  (`AddedAreFirst`), and as the IF is the first place of its rule, the places above
  the first such condition are those of the rules before it (`AddedPlacesOfText`).
- In a text of the grammar every block has the form that the parser wants; cutting a
  rule on one line changes nothing in it unless a rule is quoted there
  (`GrammaticalShape`, `GrammaticalBlock`, `GrammaticalParses`).

The inductive invariant is `TextMatches` with `StageInv`: until the run begins, graph and
rules are what the parser and the compiler make of the text, next to the client's nodes.

**BusAndStoreProofs, the bus.** The difficulty is the stack: callbacks publish in the
middle of a publication, and the innermost call finishes first. `BusInv` says of the
frames that tell a new event (`NewTold`) that they are in the order of their events, the
youngest innermost, and that each event names those further out which the tracer is still
to hear (`StackInOrder`); that the tracer is in the list of wildcards of its bus once and
in no other (`Listening`), so that a telling reaches it once and last (`Ears`); that an
event not yet heard has still its place in the trace (`AllInTime`): after those it was
published in, before those published in it; and that what is owed has been heard or is
due on the stack (`OwedKept`). A step other than `publish` leaves of the new tellings what
they were, some places further in or out, or less (`StackSteps`), which keeps order and
time (`ShiftKeepsOrder`, `StillInTime`); `Keeps` is the converse, that none is lost but by
an exception. When the tracer hears an event, the frames further out tell older ones that
it has not heard (`HeardInTime`), so the entry is at its place (`OrderlySteps`). A saved
trace is in order, and older than what is told while there is no tracer (`Unattached`).
`EventsAreHeard` and `TraceDepthFirst` follow, `BusTypes` is the type invariant.

**BusAndStoreProofs, the store.** `set`, `delete` and `update` are all steps that log some entries
(`Logs`), so that one lemma shows each to keep the chain of every key
(`AboutGrows`, `ChainsStep`): `ChangesChain`. For `LogReplays` the log must say what a
key was at every earlier time: `TimeInv` has, for each `t`, that the value then is that
of the last entry since `restore` not later than `t` (`LoggedAt`). A step changes the
past of the present time only, and for that time it is the end of the chain.
`ReconstructedFacts` and `LastEntryDecides` show what the fold of `replay_to` computes.

**SharedGraphsProofs.** Every step is one of six kinds (`Steps`): it makes a graph, edits
one, rewinds, computes a wave, runs a node or ends a tick. `GraphTypes` and
`HistoryIsComplete` (`SInv`) follow for each kind. `FiredIsClosure` is about the order of
waves: `Quiescent` is the least set that has what is DONE and is closed under `Fired`
(`QuiescentCloses`), running any ready node leaves that set what it was
(`ClosureStays`), and at the end of the tick it has been reached (`ClosureReached`).
`PartsAreIndependent`: a graph made of disjoint parts has their nodes and edges
(`UnionOK`) and fires in each what that part alone fires. `SequenceHolds`: in a graph
composed in sequence some edges make the second part wait for all of the first that
leads to a leaf (`MakesWait`), and the history has causes first by those edges
(`SequenceOK`), whatever was reset, absorbed or run in between. `WavesAreDepths` ties the
recursion of `causal_depth` to a count of waves: nodes not below a cycle can be numbered,
each one more than the greatest of its causes (`LayersCount`, by well-foundedness of
strict inclusion), and the recursion gives those numbers (`DepthCounts`). A wave is of
nodes that an execution in the wave before made ready, and they are deeper than the node
executed (`Deep`); in `transition()`, which begins with no node DONE, what is DONE after
`k` waves is less than `k` deep (`Shallow`).

**ProofEngineProofs.** `record_tick` is two recursions over the graph and a fold over
the history, so first what these compute: ancestors are the least set closed under causes
(`AncestorsClose`), a node whose past has no cycle has a longest chain, and it ends
in a root (by well-foundedness of strict inclusion among sets of ancestors), and the
fold adds one proof and its certificates per entry (`BuildFacts`). Then the invariant
`PInv`: `Base` is about the notes kept of the history; `KnownOK` about all the engine
holds, whatever it missed: chains follow edges, certificates are about causes, and no
set of nodes certifies itself in a circle (`NoCircle`: a new certificate is for a node
without a cycle above it, since `RecursionError` ends the call at one that has);
`Reflects` says that while no turn was missed the proofs are about exactly the entries
read, each about the last of its node; and that each certificate of it is dated by the
last entry of the cause before (`Dated`), or by none, if there is none (`Undated`).
`ProofsAreOfHistory`, `CertificatesHold`, `ChainsComplete` and `LineageHasNoCycle` follow.
The last holds on cyclic graphs, after missed turns and resets too.

**CausalNodeRuntimeProofs.** `RInv`: own entries equal sequence counters
(`OwnEntryIsSeq`), clocks count only emitted events (`EventsCounted`), names are
unique, and, the heart of it, clocks are closed: if a clock counts an event it
covers that event's clock (`ClocksClosed`, for events `PastsClosed` and
`PastsAcyclic`). That is why taking the maximum of two clocks joins two causal pasts
and never leaves a hole. From it `ClocksAreExact`, `ClocksMatchLogs`, `LogsOnlyGrow`
and `Refinement`: `Spec => ClocksImplementHistories`; `Emit` maps to `Emit`, `Receive`
and `Sync` to `Learn` or to a stutter when nothing was news. Of the abstract
specification, `HappenedBeforeIsStrictOrder` and `KnowledgeIsClosed`, from `HInv`.

`MergesResolve`: the events of a log have positions from 1 on without a gap
(`LogsStayOrdered`), the two nested loops of `_resolve_conflicts`, which the model
numbers as one, meet every pair of positions (`PairNumber`), and after the rounds a
pair has met, one of two events in conflict is gone (`RemovedFacts`, by induction on
the rounds). `OrderIsCanonical`: as long as events are left, one of them has no cause
among them, because by `RInv` happened-before is a strict order, and so the heap
is not empty (`HeapHasLeast`); Kahn's loop therefore takes every event, each time the
least (`OrderIsKahns`), and an order made like that is the canonical one
(`KahnsIsCanonical`).

**RealityLayersProofs.** `DeterministicAnswers` holds in every typed state, by what
`_resolve` takes (`ResolveFacts`). For `EventsInOrder` a drain is followed up the stack:
after each place, what has been collected is, for every layer, the first part of its
events in order (`DrainKeepsOrder`), a layer met twice giving nothing the second time;
an injection puts the next number behind what waits (`InjectKeepsOrder`). `NothingTwice`
needs that every block lies below the allocation counter (`BlocksInOrder`) and that a
clock is read before it moves (`TimesInOrder`). `LayersKeepTypes` is the type invariant.

### Only model-checked

- Liveness (`TickReturns`, `StartReturns`, `Converges`): temporal reasoning under
  fairness and `ENABLED` are out of this prover's reach.

## 6. Where code and documents disagree

Three disagreements are runs, with TLC's trace as the evidence:

- **A reset graph still has its triggers.** `BaseNode.reset` (node_types.py:47-50)
  restores state and result; `EventNode` does not override it, so the event fires
  again in the next tick, with its old payload.
- **merge() is not commutative.** On equal sequence numbers the event met second
  loses (distributed_runtime.py:519), so the result depends on the order of the
  arguments, against distributed_runtime.py:262-263, Theorem 2 of PAPER.md and
  MODEL.md:336-343.
- **The tracer's replay() onto its own bus does not end.** It iterates over the list
  to which its own callback appends (event_tracer.py:118, 47).

Others were met while modelling and are read off the definitions; the models follow
the code:

- `start()` leaves after a tick that executed nothing (execution_loop.py:134), also
  when a callback of that very tick triggered a node or injected a rule: the graph was
  quiescent after step 4, it need not be when `start()` returns (lines 20-21).
- `inject_rule` raises out of the loop over the emitted rules (execution_loop.py:215), so
  that those after a refused one, of other nodes too, are available neither in the next
  tick nor ever (lines 36-38).
- A certificate may name a cause that was none: certificates are made for the
  predecessors a node has when the engine gets its turn (proof_engine.py:348-350), with
  an edge added since from a node that never ran, and then the tick is made up.
  Line 117 and section 5.3 of PAPER.md say that the cause caused the effect to fire.
  `CertificatesDateCauses` states what such certificates do tell.
- After a reset of the *graph*, nodes that fire get no proof until the history is longer
  than it was (proof_engine.py:302, against MODEL.md:293).
- After a callback has raised, the entries of that tick are read in the next one and
  their proofs bear its number (proof_engine.py:305, against line 71).
- Ties within a wave are broken by the order of a set (causal_engine.py:248, 260), not
  by insertion (MODEL.md:263), so the argument for Theorem 1 of PAPER.md (237-246)
  does not go through when nodes of a wave write the same key.
- Merging is not idempotent on a log that has a conflict (PAPER.md:405-412), events
  caused by a dropped event stay (PAPER.md:435-436), and with the default policy
  two runtimes that sync may keep different logs for ever (PAPER.md:448-449), since
  `sync()` never removes a loser that is local.
- A proof is made for every entry of the history, false conditions and failures
  included (proof_engine.py:60); `ProofEngine.reset` makes the engine read old entries
  again (proof_engine.py:71 and 398-402).
- The trace is in the order of hearing, which is depth-first and not chronological
  when callbacks publish (event_tracer.py:69, 115).
- `replay_to` starts from nothing: initial values that were never set again are
  missing (state_store.py:96, 90).
- `compose_sequential` links leaves of A to roots of B; the nodes of a cycle of A
  lead to no leaf, so B does not wait for them (graph_composer.py:138).
- `tick()` executes a condition that turns out false; `transition()` calls it
  activated only if its predicate holds (MODEL.md, Operator 1).
- `transition()` is described as pure (formal_semantics.py:110); it resets and ticks the
  graph it is given, whose event nodes stay triggered from earlier calls (line 167).
- A replay is not "byte-identical" (causal_replay.py:4): compiling again draws new ids,
  so that the order within a wave may differ (MODEL.md:251-263 has it by insertion),
  and two actions of a wave that write one key may leave either value. That is why
  `ReplayReproduces` speaks of graphs that are `RaceFree`; without this condition TLC
  finds the two runs apart. An event node is a writer too: its payload is its result, and
  the loop writes that to the store like the result of an action
  (execution_loop.py:204-211), so that an event may race with an action it does not cause.
- `replay()` compiles with the user's registry only (causal_replay.py:186). A text that
  calls the built-in `add_rule` ran with it when it was injected; in the replay the
  call is a stub. Likewise a rule emitted at run time has the built-in functions only
  (execution_loop.py:215): one that calls a function of the user fires and does nothing.
- The usage in causal_replay.py:35 takes `original_snapshot` after the run, while
  `initial_state` (line 92) is the state the run began with.
- A second clause on a line of a rule that has several lines is swallowed as the
  arguments of the first (parser.py:131), without an error.
- A rule on one line whose arguments quote a rule is cut inside the quotes and refused
  (parser.py:189); the same rule on three lines is accepted.
- The THEN may stand below a CAUSE, against the grammar in parser.py:4-19; it is still
  compiled as the first effect.
- compiler.py:12-14 draws an edge from the THEN to each CAUSE; `compile()` chains each
  CAUSE to the one before.
- The operator `!` and values such as `1.2.3` pass the parser's pattern and raise in the
  compiler, when the rules above are already in the graph.
- `save()` empties the file before it writes (event_tracer.py:90): if it fails, the trace
  that was there is lost too.

## 7. Abstractions and what is not modelled

Taken for granted, everywhere: user code returns; it does not call `tick`, `start`
or `tick_once` from inside a callable, a subscriber or a callback; and node callables do
not add nodes or edges to the graph that is executing them, nor reset it, nor inject
rules into it (`AddNode`, `AddEdge` and `Reset` belong to the time between two ticks).
The code does not forbid it; execution_loop.py:36-38 gives re-entrancy as the reason why
the rules that nodes emit are compiled only after the tick. Subscribers and
callbacks do inject rules.

- Values are opaque. Names, formatting, ids, logging and rendering are left out.
  Node ids are the nodes.
- `ExecutionLoop`: each rule text is compiled once, blank ones are left out; which callable a rule's
  action gets is left to `CausalReplay`; `__time__` and `__tick__` in the context are left out, and
  the layers are one queue (`RealityLayers` has the stack).
- `EventDelivery`: no two events carry the same data, so that each can be told from the
  others.
- `EventBus`: nobody publishes the type `"*"`; clients publish each `Event` object
  once; one type besides the wildcard in the instance.
- `RealityLayers`: the wall clock only goes forward and `time_step` is 1, its default;
  scheduling and I/O stubs have no state; a system call that no
  layer answers is the operating system's.
- `StateStore`: the clock of the run is not set back (`SetsBack = FALSE`); the model
  has the case as a parameter. Values are not mutated after they are stored.
- `ProofEngine`: the engine runs as the callback that `attach` registers.
- `SharedGraphs`: callables are deterministic, results and context are left to
  `CausalGraph`; the dictionary returned by `transition()` is left out; one handle,
  `Absorber`, absorbs while in use.
- `RuleText`: the characters within a clause are left out, numbers and arguments with
  them; no clause is written twice in a text.
- `CausalReplay`: an action returns a constant, whatever the context holds, and raises
  always or never: the code passes it the snapshot, `__time__` included
  (compiler.py:102), which is the wall clock in the run and a logical clock in a
  replay on a `DeterministicLayer`, so that an action that reads the time is not
  reproduced, and one that computes its result from the store is not modelled; only the loop sets the store; the trace is the bus history of
  the first run, which is what a tracer attached from the start has recorded; both
  runs have the same `max_ticks`; `replay_graph()` of a graph that has emitted rules,
  which would be compiled a second time, is left out.
- Payloads in the distributed layer are the keys over which events conflict.

Not modelled: the monitor and the visualizer, which read a graph and render it and keep
nothing another part reads; the demos, scripts that call the parts above and print.

## 8. Plan

Done, in this order: scheduler and its proofs; distributed layer, abstract
specification, refinement proof; loop; events on their way through it; store; bus and tracer;
proof engine; shared graphs; layers; parser and compiler; causal replay; saved traces
and the end of the process; absorbing into a graph in use; three runtimes with chains
of conflicts; the proofs about the loop's data, the store, shared graphs, the proof
engine, merging and ordering logs, the layers, the bus with its tracer, the replay, and
the reading of rule texts.

Every invariant and action property of the passing runs is the statement of a theorem;
liveness is left to TLC.

------------------------- MODULE CausalGraphProofs -------------------------
(***************************************************************************)
(* Proofs about the causal scheduler, for every set of nodes, every graph  *)
(* over them, every set of values and every bound on the history.          *)
(*                                                                         *)
(* The typing lemma comes first; then the parts of the inductive invariant *)
(* IInv, each with the reason it is needed; then the theorems.             *)
(***************************************************************************)
EXTENDS CausalGraph, TLAPS

-----------------------------------------------------------------------------
(* Sequences and executions.                                               *)

\* Append leaves the old entries where they are and puts the new one last.
LEMMA AppendFacts ==
    ASSUME NEW S, NEW h \in Seq(S), NEW e \in S
    PROVE  /\ Append(h, e) \in Seq(S)
           /\ Len(h) \in Nat /\ Len(Append(h, e)) = Len(h) + 1
           /\ DOMAIN h = 1 .. Len(h)
           /\ DOMAIN Append(h, e) = 1 .. (Len(h) + 1)
           /\ Append(h, e)[Len(h) + 1] = e
           /\ \A i \in 1 .. Len(h) : Append(h, e)[i] = h[i]
OBVIOUS

EntrySet == [node : Node, outcome : {"done", "false", "error"},
             result : Result]

\* What every way of executing a node has in common: n is executed with this
\* outcome, value v is recorded, and the node is left in state st with result r.
Executes(n, outcome, v, st, r) ==
    /\ Attempt(n, outcome, v)
    /\ state' = [state EXCEPT ![n] = st]
    /\ result' = [result EXCEPT ![n] = r]
    /\ ctx' = IF outcome = "error" THEN ctx ELSE [ctx EXCEPT ![n] = v]
    /\ \/ outcome = "done" /\ st = "DONE" /\ r = v /\ v \in Result
       \/ /\ outcome = "false" /\ st = "PENDING" /\ r = v /\ v = "false"
          /\ n \in ConditionNode
       \/ /\ outcome = "error" /\ st = "FAILED" /\ v = None /\ r \in Result
          /\ n \notin EventNode

\* A Fire step is the execution of one node, with one of three outcomes.
LEMMA FireExecutes ==
    ASSUME TypeOK, Fire
    PROVE  \E n \in Node, outcome \in {"done", "false", "error"},
              v \in Result, st \in {"PENDING", "DONE", "FAILED"}, r \in Result :
              Executes(n, outcome, v, st, r)
<1>1. ASSUME NEW n \in EventNode, FireEvent(n)
      PROVE  Executes(n, "done", eventValue[n], "DONE", eventValue[n])
  BY <1>1 DEF FireEvent, Return, Executes, TypeOK, Result
<1>2. ASSUME NEW n \in ConditionNode, FireCondition(n, "true")
      PROVE  Executes(n, "done", "true", "DONE", "true")
  BY <1>2 DEF FireCondition, Return, Executes, Result
<1>3. ASSUME NEW n \in ConditionNode, FireCondition(n, "false")
      PROVE  Executes(n, "false", "false", "PENDING", "false")
  BY <1>3 DEF FireCondition, Return, Executes
<1>4. ASSUME NEW n \in ActionNode, NEW v \in Value \cup {None}, FireAction(n, v)
      PROVE  Executes(n, "done", v, "DONE", v)
  BY <1>4 DEF FireAction, Return, Executes, Result
<1>5. ASSUME NEW n \in ConditionNode, FailCondition(n)
      PROVE  Executes(n, "error", None, "FAILED", "false")
  BY <1>5, NodeKinds DEF FailCondition, Raise, Executes, Result
<1>6. ASSUME NEW n \in ActionNode, FailAction(n)
      PROVE  Executes(n, "error", None, "FAILED", result[n])
  BY <1>6, NodeKinds DEF FailAction, Raise, Executes, TypeOK, Node
<1>7. /\ \A n \in EventNode : eventValue[n] \in Result
      /\ \A n \in ActionNode : result[n] \in Result
      /\ {"true", "false", None} \cup Value \subseteq Result
  BY DEF TypeOK, Result, Node
<1> QED
  BY <1>1, <1>2, <1>3, <1>4, <1>5, <1>6, <1>7 DEF Fire, Node

-----------------------------------------------------------------------------
(* Type correctness.                                                       *)

\* Every step keeps the scheduler's variables in the values the code uses.
LEMMA TypeStep == TypeOK /\ [Next]_vars => TypeOK'
<1> SUFFICES ASSUME TypeOK, [Next]_vars PROVE TypeOK'
  OBVIOUS
<1> USE DEF TypeOK, graphVars, eventVars, tickVars
<1>1. ASSUME NEW n \in Node, AddNode(n) PROVE TypeOK'
  BY <1>1 DEF AddNode
<1>2. ASSUME NEW e \in Edge, AddEdge(e[1], e[2]) PROVE TypeOK'
  BY <1>2 DEF AddEdge
<1>3. ASSUME NEW n \in EventNode, NEW v \in Value \cup {None}, Trigger(n, v)
      PROVE  TypeOK'
  BY <1>3 DEF Trigger, Node
<1>4. CASE Reset
  BY <1>4 DEF Reset, Result
<1>5. CASE BeginTick
  BY <1>5 DEF BeginTick
<1>6. CASE NextWave
  BY <1>6 DEF NextWave, Ready
<1>7. CASE Fire
  <2>1. PICK n \in Node, outcome \in {"done", "false", "error"},
             v \in Result, st \in {"PENDING", "DONE", "FAILED"}, r \in Result :
             Executes(n, outcome, v, st, r)
    BY <1>7, FireExecutes
  <2>2. Entry(n, outcome, v) \in EntrySet
    BY DEF Entry, EntrySet
  <2>3. history' \in Seq(EntrySet)
    BY <2>1, <2>2, AppendFacts DEF Executes, Attempt, EntrySet
  <2>4. ctx' \in [Node -> Result \cup {Missing}]
    BY <2>1 DEF Executes
  <2>5. nodes' = nodes /\ edges' = edges /\ triggered' = triggered
        /\ eventValue' = eventValue /\ phase' = phase
    BY <2>1 DEF Executes, Attempt
  <2>6. wave' \subseteq nodes /\ attempted' \subseteq nodes
    BY <2>1 DEF Executes, Attempt
  <2> QED
    BY <2>1, <2>3, <2>4, <2>5, <2>6 DEF Executes, EntrySet
<1>8. CASE EndTick
  BY <1>8 DEF EndTick, EmptyCtx
<1>9. CASE UNCHANGED vars
  BY <1>9 DEF vars
<1> QED
  BY <1>1, <1>2, <1>3, <1>4, <1>5, <1>6, <1>7, <1>8, <1>9
     DEF Next, Edit, TickStep

\* In every behaviour of the scheduler the type invariant holds.
THEOREM TypeCorrect == Spec => []TypeOK
<1>1. Init => TypeOK
  BY DEF Init, TypeOK, EmptyCtx, Result, Node
<1> QED
  BY <1>1, TypeStep, PTL DEF Spec

-----------------------------------------------------------------------------
(* The inductive invariant.                                                *)

\* A DONE node has its completion in the history: the scheduler tests the
\* states, the theorem speaks of the history.
DoneRecorded == \A n \in nodes : state[n] = "DONE" => n \in Completed(history)

\* A node of the current wave is still to be tried, and its causes completed
\* and are not in the wave.  They need not be DONE any more: a callable run
\* earlier in the wave may have triggered one of them again.
WaveReady ==
    \A n \in wave :
        /\ n \notin attempted
        /\ state[n] \in {"PENDING", "READY"}
        /\ Preds(n) \subseteq Completed(history)
        /\ Preds(n) \cap wave = {}

\* A node not yet registered has not run; only events are triggered by then.
Unregistered ==
    \A n \in Node \ nodes :
        /\ state[n] \in {"PENDING", "READY"} /\ result[n] = None
        /\ \A i \in DOMAIN history : history[i].node # n

\* Only conditions are found false, only predicates and actions raise.
OutcomeKinds ==
    \A i \in DOMAIN history :
        /\ history[i].outcome = "false" => history[i].node \in ConditionNode
        /\ history[i].outcome = "error" => history[i].node \notin EventNode

\* A node that may still run was only ever found false, unless it is an event.
FreshRuns ==
    \A n \in Node \ EventNode : state[n] \in {"PENDING", "READY"} =>
        \A i \in DOMAIN history :
            history[i].node = n => history[i].outcome = "false"

\* The context a callable gets shows the results of the DONE nodes.
ContextCurrent ==
    phase = "tick" => \A p \in nodes : state[p] = "DONE" =>
        IF result[p] = None THEN ctx[p] \in {None, Missing}
                            ELSE ctx[p] = result[p]

\* What a node attempted in this call can be, at any later point of the call.
AttemptedSettled ==
    \A n \in attempted :
        \/ state[n] \in {"DONE", "FAILED"}
        \/ n \in ConditionNode /\ result[n] = "false"
        \/ n \in EventNode /\ state[n] = "READY"

\* Between two calls tick() has no locals.
Quiet == phase = "idle" => wave = {} /\ attempted = {}

IInv ==
    /\ TypeOK
    /\ DoneRecorded
    /\ WaveReady
    /\ Unregistered
    /\ OutcomeKinds
    /\ FreshRuns
    /\ ContextCurrent
    /\ AttemptedSettled
    /\ Quiet
    /\ FireOnce
    /\ HistoryExplainsNodes
    /\ ConsumersSeeCauses

\* The history after one more entry: what was completed stays so.
LEMMA HistoryGrows ==
    ASSUME TypeOK, NEW n \in Node, NEW outcome \in {"done", "false", "error"},
           NEW v \in Result, history' = Append(history, Entry(n, outcome, v))
    PROVE  /\ Len(history) \in Nat /\ DOMAIN history = 1 .. Len(history)
           /\ Len(history') = Len(history) + 1
           /\ DOMAIN history' = 1 .. (Len(history) + 1)
           /\ \A i \in DOMAIN history : history'[i] = history[i]
           /\ history'[Len(history) + 1].node = n
           /\ history'[Len(history) + 1].outcome = outcome
           /\ history'[Len(history) + 1].result = v
           /\ Completed(history) \subseteq Completed(history')
           /\ outcome = "done" => n \in Completed(history')
<1>1. Entry(n, outcome, v) \in EntrySet /\ history \in Seq(EntrySet)
  BY DEF Entry, EntrySet, TypeOK
<1>2. /\ Len(history) \in Nat /\ DOMAIN history = 1 .. Len(history)
      /\ Len(history') = Len(history) + 1
      /\ DOMAIN history' = 1 .. (Len(history) + 1)
      /\ \A i \in DOMAIN history : history'[i] = history[i]
      /\ history'[Len(history) + 1] = Entry(n, outcome, v)
  BY <1>1, AppendFacts
<1>3. Completed(history) \subseteq Completed(history')
  BY <1>2 DEF Completed
<1>4. outcome = "done" => n \in Completed(history')
  <2> SUFFICES ASSUME outcome = "done" PROVE n \in Completed(history')
    OBVIOUS
  <2>1. Len(history) + 1 \in DOMAIN history'
    BY <1>2
  <2> QED
    BY <2>1, <1>2 DEF Completed, Entry
<1> QED
  BY <1>2, <1>3, <1>4 DEF Entry

\* The execution of a node keeps every part of the invariant.
LEMMA ExecutesKeeps ==
    ASSUME IInv, TypeOK', NEW n \in Node,
           NEW outcome \in {"done", "false", "error"}, NEW v \in Result,
           NEW st \in {"PENDING", "DONE", "FAILED"}, NEW r \in Result,
           Executes(n, outcome, v, st, r)
    PROVE  IInv'
<1> USE DEF IInv
<1>1. /\ n \in wave /\ phase = "tick" /\ phase' = "tick"
      /\ wave' = wave \ {n} /\ attempted' = attempted \cup {n}
      /\ nodes' = nodes /\ edges' = edges
      /\ triggered' = triggered /\ eventValue' = eventValue
      /\ history' = Append(history, Entry(n, outcome, v))
  BY DEF Executes, Attempt, graphVars, eventVars
<1>2. /\ n \in nodes
      /\ \A m \in Node \ {n} : state'[m] = state[m] /\ result'[m] = result[m]
                                /\ ctx'[m] = ctx[m]
      /\ state'[n] = st /\ result'[n] = r
      /\ outcome # "error" => ctx'[n] = v
  BY <1>1 DEF TypeOK, Executes
<1>3. /\ Len(history) \in Nat /\ DOMAIN history = 1 .. Len(history)
      /\ Len(history') = Len(history) + 1
      /\ DOMAIN history' = 1 .. (Len(history) + 1)
      /\ \A i \in DOMAIN history : history'[i] = history[i]
      /\ history'[Len(history) + 1].node = n
      /\ history'[Len(history) + 1].outcome = outcome
      /\ history'[Len(history) + 1].result = v
      /\ Completed(history) \subseteq Completed(history')
      /\ outcome = "done" => n \in Completed(history')
  BY <1>1, HistoryGrows
<1>4. \/ outcome = "done" /\ st = "DONE" /\ r = v
      \/ outcome = "false" /\ st = "PENDING" /\ r = v /\ v = "false"
         /\ n \in ConditionNode
      \/ outcome = "error" /\ st = "FAILED" /\ n \notin EventNode
  BY DEF Executes
<1>5. \A m \in Node : Preds(m)' = Preds(m)
  BY <1>1 DEF Preds
<1>6. nodes \subseteq Node /\ wave \subseteq nodes
  BY DEF TypeOK
<1>7. DoneRecorded'
  BY <1>1, <1>2, <1>3, <1>4, <1>6 DEF DoneRecorded
<1>8. WaveReady'
  BY <1>1, <1>2, <1>3, <1>5, <1>6 DEF WaveReady
<1>9. Unregistered'
  BY <1>1, <1>2, <1>3 DEF Unregistered
<1>10. OutcomeKinds'
  BY <1>3, <1>4 DEF OutcomeKinds
<1>11. FreshRuns'
  <2>1. state[n] \in {"PENDING", "READY"}
    BY <1>1 DEF WaveReady
  <2> QED
    BY <2>1, <1>2, <1>3, <1>4 DEF FreshRuns
<1>12. ContextCurrent'
  BY <1>1, <1>2, <1>4, <1>6 DEF ContextCurrent
<1>13. AttemptedSettled'
  BY <1>1, <1>2, <1>4, <1>6 DEF AttemptedSettled, TypeOK
<1>14. Quiet'
  BY <1>1 DEF Quiet
<1>15. FireOnce'
  <2>1. state[n] \in {"PENDING", "READY"}
    BY <1>1 DEF WaveReady
  <2>2. \A i \in DOMAIN history : history[i].node = n /\ n \notin EventNode
           => history[i].outcome = "false"
    BY <2>1 DEF FreshRuns
  <2> QED
    BY <2>2, <1>3 DEF FireOnce
<1>16. HistoryExplainsNodes'
  <2> SUFFICES ASSUME NEW m \in nodes
               PROVE  /\ (\A i \in DOMAIN history' : history'[i].node # m)
                           => state'[m] \in {"PENDING", "READY"} /\ result'[m] = None
                      /\ \A i \in DOMAIN history' :
                           LastAbout(m, i)' => AccountsFor(history[i], m)'
    BY <1>1 DEF HistoryExplainsNodes
  <2>1. CASE m = n
    <3>1. \A i \in DOMAIN history' : LastAbout(n, i)' => i = Len(history) + 1
      BY <1>3 DEF LastAbout
    <3>2. \A i \in DOMAIN history' :
             i = Len(history) + 1 => AccountsFor(history[i], n)'
      BY <1>2, <1>3, <1>4, <1>1 DEF AccountsFor
    <3> QED
      BY <2>1, <3>1, <3>2, <1>3
  <2>2. CASE m # n
    <3>1. \A i \in DOMAIN history' : LastAbout(m, i)' =>
             i \in DOMAIN history /\ LastAbout(m, i)
      BY <2>2, <1>3 DEF LastAbout
    <3>2. (\A i \in DOMAIN history' : history'[i].node # m)
            => \A i \in DOMAIN history : history[i].node # m
      BY <1>3
    <3>3. state'[m] = state[m] /\ result'[m] = result[m]
      BY <2>2, <1>2, <1>6
    <3>4. \A i \in DOMAIN history :
             AccountsFor(history[i], m) => AccountsFor(history[i], m)'
      BY <3>3, <1>3 DEF AccountsFor
    <3> QED
      BY <3>1, <3>2, <3>3, <3>4 DEF HistoryExplainsNodes
  <2> QED
    BY <2>1, <2>2
<1>17. ConsumersSeeCauses'
  <2> SUFFICES ASSUME NEW m \in wave', NEW p \in Preds(m)
               PROVE  IF result'[p] = None THEN ctx'[p] \in {None, Missing}
                                           ELSE ctx'[p] = result'[p]
    BY <1>1, <1>5, <1>6 DEF ConsumersSeeCauses
  <2>1. m \in wave /\ p # n /\ p \in Node
    BY <1>1, <1>6 DEF WaveReady, Preds
  <2> QED
    BY <2>1, <1>2 DEF ConsumersSeeCauses
<1> QED
  BY <1>7, <1>8, <1>9, <1>10, <1>11, <1>12, <1>13, <1>14, <1>15, <1>16, <1>17

\* Editing the graph, triggering and resetting keep the invariant.
LEMMA EditKeeps == IInv /\ TypeOK' /\ Edit => IInv'
<1> SUFFICES ASSUME IInv, TypeOK', Edit PROVE IInv'
  OBVIOUS
<1> USE DEF IInv, graphVars, eventVars, tickVars
<1>1. ASSUME NEW n \in Node, AddNode(n) PROVE IInv'
  <2> USE <1>1 DEF AddNode
  <2>1. wave = {} /\ attempted = {} /\ wave' = {} /\ attempted' = {}
    BY DEF Quiet
  <2>2. HistoryExplainsNodes'
    <3>1. \A m \in nodes' : m \in nodes \/ m = n
      OBVIOUS
    <3>2. \A m \in Node : \A i \in DOMAIN history :
             /\ LastAbout(m, i)' <=> LastAbout(m, i)
             /\ AccountsFor(history[i], m)' <=> AccountsFor(history[i], m)
      BY DEF LastAbout, AccountsFor
    <3>3. \A i \in DOMAIN history : ~LastAbout(n, i)
      BY DEF Unregistered, LastAbout
    <3> QED
      BY <3>1, <3>2, <3>3 DEF HistoryExplainsNodes, Unregistered, TypeOK
  <2>3. DoneRecorded'
    BY DEF DoneRecorded, Unregistered
  <2> QED
    BY <2>1, <2>2, <2>3
       DEF WaveReady, Unregistered, OutcomeKinds, FreshRuns, ContextCurrent,
           AttemptedSettled, Quiet, FireOnce, ConsumersSeeCauses
<1>2. ASSUME NEW e \in Edge, AddEdge(e[1], e[2]) PROVE IInv'
  <2> USE <1>2 DEF AddEdge
  <2>1. wave = {} /\ attempted = {} /\ wave' = {} /\ attempted' = {}
    BY DEF Quiet
  <2>2. HistoryExplainsNodes'
    BY DEF HistoryExplainsNodes, LastAbout, AccountsFor
  <2> QED
    BY <2>1, <2>2
       DEF DoneRecorded, WaveReady, Unregistered, OutcomeKinds, FreshRuns,
           ContextCurrent, AttemptedSettled, Quiet, FireOnce, ConsumersSeeCauses
<1>3. ASSUME NEW n \in EventNode, NEW v \in Value \cup {None}, Trigger(n, v)
      PROVE  IInv'
  <2>1. /\ nodes' = nodes /\ edges' = edges /\ result' = result
        /\ history' = history /\ phase' = phase /\ wave' = wave
        /\ attempted' = attempted /\ ctx' = ctx
    BY <1>3 DEF Trigger
  <2>2. /\ n \in Node /\ state'[n] = "READY"
        /\ \A m \in Node \ {n} : state'[m] = state[m]
    BY <1>3 DEF Trigger, Node, TypeOK
  <2>3. nodes \subseteq Node /\ wave \subseteq nodes /\ attempted \subseteq nodes
    BY DEF TypeOK
  <2>4. \A m : Preds(m)' = Preds(m)
    BY <2>1 DEF Preds
  <2>5. HistoryExplainsNodes'
    <3>1. \A m \in nodes : \A i \in DOMAIN history :
             /\ LastAbout(m, i)' <=> LastAbout(m, i)
             /\ LastAbout(m, i) /\ AccountsFor(history[i], m)
                  => AccountsFor(history[i], m)'
      <4> SUFFICES ASSUME NEW m \in nodes, NEW i \in DOMAIN history
                   PROVE  /\ LastAbout(m, i)' <=> LastAbout(m, i)
                          /\ LastAbout(m, i) /\ AccountsFor(history[i], m)
                               => AccountsFor(history[i], m)'
        OBVIOUS
      <4>1. LastAbout(m, i)' <=> LastAbout(m, i)
        BY <2>1 DEF LastAbout
      <4>2. CASE m # n
        BY <4>1, <4>2, <2>1, <2>2, <2>3 DEF AccountsFor
      <4>3. CASE m = n
        <5>1. LastAbout(n, i) => /\ history[i].outcome # "error"
                                 /\ history[i].outcome # "false"
          BY <1>3, NodeKinds DEF LastAbout, OutcomeKinds
        <5> QED
          BY <4>1, <4>3, <5>1, <2>1, <2>2 DEF AccountsFor
      <4> QED
        BY <4>2, <4>3
    <3>2. \A m \in nodes : state[m] \in {"PENDING", "READY"}
             => state'[m] \in {"PENDING", "READY"}
      BY <2>2, <2>3
    <3> QED
      BY <3>1, <3>2, <2>1 DEF HistoryExplainsNodes
  <2>6. DoneRecorded'
    BY <2>1, <2>2, <2>3 DEF DoneRecorded, Completed
  <2>7. WaveReady'
    BY <2>1, <2>2, <2>3, <2>4 DEF WaveReady, Completed
  <2>8. Unregistered'
    BY <2>1, <2>2 DEF Unregistered
  <2>9. FreshRuns'
    BY <2>1, <2>2 DEF FreshRuns
  <2>10. ContextCurrent'
    BY <2>1, <2>2, <2>3 DEF ContextCurrent
  <2>11. AttemptedSettled'
    BY <2>1, <2>2, <2>3 DEF AttemptedSettled
  <2>12. OutcomeKinds' /\ Quiet' /\ FireOnce'
    BY <2>1 DEF OutcomeKinds, Quiet, FireOnce
  <2>13. ConsumersSeeCauses'
    BY <2>1, <2>4 DEF ConsumersSeeCauses
  <2> QED
    BY <2>5, <2>6, <2>7, <2>8, <2>9, <2>10, <2>11, <2>12, <2>13
<1>4. CASE Reset
  <2>1. /\ nodes' = nodes /\ history' = <<>> /\ DOMAIN history' = {}
        /\ wave' = {} /\ attempted' = {} /\ phase' = "idle"
    BY <1>4 DEF Reset, Quiet
  <2>2. /\ \A m \in nodes : state'[m] = "PENDING" /\ result'[m] = None
        /\ \A m \in Node \ nodes : state'[m] = state[m] /\ result'[m] = result[m]
    BY <1>4 DEF Reset, TypeOK
  <2> QED
    BY <2>1, <2>2
       DEF DoneRecorded, WaveReady, Unregistered, OutcomeKinds, FreshRuns,
           ContextCurrent, AttemptedSettled, Quiet, FireOnce,
           HistoryExplainsNodes, ConsumersSeeCauses
<1> QED
  BY <1>1, <1>2, <1>3, <1>4 DEF Edit

\* Entering and leaving tick(), and computing a wave, keep the invariant.
LEMMA LoopKeeps ==
    IInv /\ TypeOK' /\ (BeginTick \/ NextWave \/ EndTick \/ UNCHANGED vars) => IInv'
<1> SUFFICES ASSUME IInv, TypeOK',
                    BeginTick \/ NextWave \/ EndTick \/ UNCHANGED vars
             PROVE  IInv'
  OBVIOUS
<1> USE DEF IInv
<1>1. /\ nodes' = nodes /\ edges' = edges /\ state' = state
      /\ result' = result /\ history' = history
  BY DEF BeginTick, NextWave, EndTick, vars, graphVars, eventVars, tickVars
<1>2. \A m : Preds(m)' = Preds(m)
  BY <1>1 DEF Preds
<1>3. nodes \subseteq Node /\ wave \subseteq nodes /\ wave' \subseteq nodes
      /\ attempted \subseteq nodes
  BY <1>1 DEF TypeOK
<1>4. \A m, i : /\ LastAbout(m, i)' <=> LastAbout(m, i)
                /\ AccountsFor(history[i], m)' <=> AccountsFor(history[i], m)
  BY <1>1 DEF LastAbout, AccountsFor
<1>5. /\ DoneRecorded' /\ Unregistered' /\ OutcomeKinds' /\ FreshRuns'
      /\ FireOnce' /\ HistoryExplainsNodes'
  BY <1>1, <1>4 DEF DoneRecorded, Unregistered, OutcomeKinds, FreshRuns, FireOnce,
                    HistoryExplainsNodes, Completed
<1>6. CASE BeginTick
  <2>1. /\ phase = "idle" /\ wave' = {} /\ attempted' = {}
        /\ ctx' = [n \in Node |->
                    IF n \in nodes /\ state[n] = "DONE" /\ result[n] # None
                    THEN result[n] ELSE Missing]
    BY <1>6 DEF BeginTick, Quiet
  <2>2. ContextCurrent'
    BY <2>1, <1>1, <1>3 DEF ContextCurrent
  <2>3. WaveReady' /\ AttemptedSettled' /\ ConsumersSeeCauses'
    BY <2>1 DEF WaveReady, AttemptedSettled, ConsumersSeeCauses
  <2>4. Quiet'
    BY <2>1 DEF Quiet
  <2> QED
    BY <2>2, <2>3, <2>4, <1>5
<1>7. CASE NextWave
  <2>1. /\ phase = "tick" /\ phase' = "tick" /\ wave' = Ready \ attempted
        /\ attempted' = attempted /\ ctx' = ctx
    BY <1>7 DEF NextWave
  <2>2. ContextCurrent' /\ AttemptedSettled' /\ Quiet'
    BY <2>1, <1>1 DEF ContextCurrent, AttemptedSettled, Quiet
  <2>3. WaveReady'
    BY <2>1, <1>1, <1>2 DEF WaveReady, Ready, DoneRecorded, Completed, Preds
  <2>4. ConsumersSeeCauses'
    <3>1. \A m \in Ready : \A p \in Preds(m) : p \in nodes /\ state[p] = "DONE"
      BY DEF Ready, Preds
    <3> QED
      BY <3>1, <2>1, <1>1, <1>2 DEF ConsumersSeeCauses, ContextCurrent
  <2> QED
    BY <2>2, <2>3, <2>4, <1>5
<1>8. CASE EndTick
  BY <1>8, <1>5 DEF EndTick, WaveReady, ContextCurrent, AttemptedSettled, Quiet,
                    ConsumersSeeCauses
<1>9. CASE UNCHANGED vars
  <2>1. wave' = wave /\ attempted' = attempted /\ ctx' = ctx /\ phase' = phase
    BY <1>9 DEF vars
  <2> QED
    BY <2>1, <1>1, <1>2, <1>5
       DEF WaveReady, ContextCurrent, AttemptedSettled, Quiet,
           ConsumersSeeCauses, Completed
<1> QED
  BY <1>6, <1>7, <1>8, <1>9

\* The invariant is inductive.
LEMMA IInvStep == IInv /\ [Next]_vars => IInv'
<1> SUFFICES ASSUME IInv, [Next]_vars PROVE IInv'
  OBVIOUS
<1>1. TypeOK'
  BY TypeStep DEF IInv
<1>2. ASSUME Fire PROVE IInv'
  BY <1>1, <1>2, FireExecutes, ExecutesKeeps DEF IInv
<1> QED
  BY <1>1, <1>2, EditKeeps, LoopKeeps DEF Next, TickStep

\* It holds to begin with.
LEMMA InvariantStarts == Init => IInv
<1> SUFFICES ASSUME Init PROVE IInv
  OBVIOUS
<1>1. TypeOK
  BY DEF Init, TypeOK, EmptyCtx, Result, Node
<1>2. DOMAIN history = {}
  BY DEF Init
<1> QED
  BY <1>1, <1>2
     DEF Init, IInv, DoneRecorded, WaveReady, Unregistered, OutcomeKinds,
         FreshRuns, ContextCurrent, AttemptedSettled, Quiet, FireOnce,
         HistoryExplainsNodes, ConsumersSeeCauses

\* It holds in every reachable state.
LEMMA InvariantHolds == Spec => []IInv
  BY InvariantStarts, IInvStep, PTL DEF Spec

-----------------------------------------------------------------------------
(* The theorems.                                                           *)

\* Conditions that held, actions and transforms run once between two resets.
THEOREM FiresOnce == Spec => []FireOnce
<1>1. IInv => FireOnce
  BY DEF IInv
<1> QED
  BY <1>1, InvariantHolds, PTL

\* States and results of all nodes can be read off the execution history.
THEOREM HistoryIsExplanation == Spec => []HistoryExplainsNodes
<1>1. IInv => HistoryExplainsNodes
  BY DEF IInv
<1> QED
  BY <1>1, InvariantHolds, PTL

\* The context of every callable shows the present results of its causes.
THEOREM CausesVisible == Spec => []ConsumersSeeCauses
<1>1. IInv => ConsumersSeeCauses
  BY DEF IInv
<1> QED
  BY <1>1, InvariantHolds, PTL

\* A node enters the history only after all of its causes completed in it.
THEOREM CausalOrder == Spec => CausesFirst
<1>1. IInv /\ [Next]_vars =>
        [ Len(history') > Len(history)
            => Preds(history'[Len(history')].node) \subseteq Completed(history) ]_vars
  <2> SUFFICES ASSUME IInv, Next, Len(history') > Len(history)
               PROVE  Preds(history'[Len(history')].node) \subseteq Completed(history)
    OBVIOUS
  <2>1. CASE Fire
    <3>1. PICK n \in Node, outcome \in {"done", "false", "error"}, v \in Result,
               st \in {"PENDING", "DONE", "FAILED"}, r \in Result :
               Executes(n, outcome, v, st, r)
      BY <2>1, FireExecutes DEF IInv
    <3>2. n \in wave /\ history' = Append(history, Entry(n, outcome, v))
      BY <3>1 DEF Executes, Attempt
    <3>3. history'[Len(history')].node = n
      BY <3>2, HistoryGrows DEF IInv
    <3> QED
      BY <3>2, <3>3 DEF IInv, WaveReady
  <2>2. CASE ~Fire
    <3>1. history' = history \/ history' = <<>>
      BY <2>2 DEF Next, Edit, TickStep, AddNode, AddEdge, Trigger, Reset, BeginTick,
                  NextWave, EndTick
    <3> QED
      BY <3>1 DEF IInv, TypeOK
  <2> QED
    BY <2>1, <2>2
<1> QED
  BY <1>1, InvariantHolds, PTL DEF Spec, CausesFirst

\* When tick() returns, the only nodes still ready are conditions found false
\* and events triggered again, all of them attempted in this call.
THEOREM TickRunsToQuiescence == Spec => TickDrains
<1>1. IInv /\ [Next]_vars =>
        [ phase = "tick" /\ phase' = "idle" =>
            \A n \in Ready :
               /\ n \in attempted
               /\ \/ n \in ConditionNode /\ result[n] = "false"
                  \/ n \in EventNode /\ state[n] = "READY" ]_vars
  <2> SUFFICES ASSUME IInv, Next, phase = "tick", phase' = "idle", NEW n \in Ready
               PROVE  /\ n \in attempted
                      /\ \/ n \in ConditionNode /\ result[n] = "false"
                         \/ n \in EventNode /\ state[n] = "READY"
    OBVIOUS
  <2>1. EndTick
    <3>1. ~Fire
      BY FireExecutes DEF Executes, Attempt, IInv
    <3> QED
      BY <3>1 DEF Next, Edit, TickStep, AddNode, AddEdge, Trigger, Reset, BeginTick,
                  NextWave, graphVars, eventVars, tickVars
  <2>2. n \in attempted
    BY <2>1 DEF EndTick
  <2>3. state[n] \notin {"DONE", "FAILED"}
    BY DEF Ready
  <2> QED
    BY <2>2, <2>3 DEF IInv, AttemptedSettled
<1> QED
  BY <1>1, InvariantHolds, PTL DEF Spec, TickDrains

=============================================================================

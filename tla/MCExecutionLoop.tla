-------------------------- MODULE MCExecutionLoop --------------------------
(***************************************************************************)
(* A small instance of ExecutionLoop, beside the record of EventDelivery,  *)
(* for TLC: an event that waits for a condition leads to an action, which  *)
(* may write the key the condition reads, emit rules, return nothing or    *)
(* raise, and the action to a second event, which user code triggers.  The *)
(* rule r1 is a condition and two actions, r2 a condition and an action.   *)
(***************************************************************************)
EXTENDS EventDelivery

CONSTANTS e1, e2, c1, a1, c2, a2, c3, a3, a4, t, u, k, lo, hi, set, emit, data, more, r1, r2

ConditionEventActionEvent == <<c1, e1, a1, e2>>

GraphEdges == {<<c1, e1>>, <<e1, a1>>, <<a1, e2>>}

AllEdges == GraphEdges \cup {<<c2, a2>>, <<a2, a4>>, <<c3, a3>>}

TypeOfEvent == [n \in EventNode |-> IF n = e1 THEN t ELSE u]

Metric == [c \in ConditionNode |-> k]

\* The events' data and a1's result write the key; so would the emission if
\* it were not one.
Entries == [v \in {set, emit, data, more} |-> [x \in {k} |-> IF v = data THEN hi ELSE lo]]

TwoRules == [v \in {emit} |-> <<r1, r2>>]

Chains == [r \in {r1, r2} |-> IF r = r1 THEN <<c2, a2, a4>> ELSE <<c3, a3>>]

\* Only a1 emits rules: each rule is compiled once.
Outcomes == [n \in ActionNode |-> IF n = a1 THEN {set, emit, None} ELSE {None}]

-----------------------------------------------------------------------------
(* Bounds on what user code does.                                          *)

\* The event with the data more comes second, and through a layer; no event is
\* of the type that e2 waits for.
EventsAsNamed ==
    /\ ~Fresh([type |-> t, data |-> more])' => ~Fresh([type |-> t, data |-> data])'
    /\ pc' = pc => \A i \in DOMAIN bus' \ DOMAIN bus : bus'[i].data = data
    /\ \A i \in DOMAIN bus' : bus'[i].type = t
    /\ \A i \in DOMAIN queue' : queue'[i].type = t

\* The user injects a valid rule from subscribers only.
RulesFromSubscribers ==
    pc \in {"idle", "callbacks"} /\ pc' = "inject" => Head(pending') \notin Rule

BoundedUserCode == EventsAsNamed /\ RulesFromSubscribers

=============================================================================

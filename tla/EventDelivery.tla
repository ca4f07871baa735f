--------------------------- MODULE EventDelivery ---------------------------
(***************************************************************************)
(* What becomes of an event: ExecutionLoop beside a record of what was     *)
(* injected into the layers, of what each tick drained, of the subscribers *)
(* that raised and of what each tick of the graph has heard.  The record   *)
(* only observes; each event has data of its own, so that it can be told   *)
(* from the others wherever it is.                                         *)
(***************************************************************************)
EXTENDS ExecutionLoop

VARIABLES
    sent,    \* the events injected into the layers, in the order of the calls
    drains,  \* how many had been sent when a tick drained the layers
    raised,  \* the numbers of the sent events at which a subscriber raised
    heard    \* for each tick of the graph, the length of the bus history

record == <<sent, drains, raised, heard>>
deliveryVars == <<allVars, record>>

OnBus(ev) == \E i \in DOMAIN bus : bus[i] = ev

Fresh(ev) ==
    /\ \A i \in DOMAIN sent : sent[i].data # ev.data
    /\ \A i \in DOMAIN bus : bus[i].data # ev.data

\* The sent event that subscribers are being told of is the last on the bus.
BeingTold == {i \in DOMAIN sent : /\ OnBus(sent[i])
                             /\ \A j \in (i + 1) .. Len(sent) : ~OnBus(sent[j])}

DeliveryInit ==
    LoopInit /\ sent = <<>> /\ drains = {} /\ raised = {} /\ heard = <<>>

Observe ==
    /\ sent' = IF Len(queue') > Len(queue) THEN Append(sent, queue'[Len(queue')]) ELSE sent
    /\ drains' = IF pc = "drain" THEN drains \cup {Len(sent)} ELSE drains
    /\ raised' = IF pc \in {"subscribers", "hotload"} /\ pc' = "idle"
                 THEN raised \cup BeingTold ELSE raised
    /\ heard' = IF pc = "publish" /\ pc' = "graph" THEN Append(heard, Len(bus)) ELSE heard

\* What inject_event() and publish() are given has not been used before.
NewEvents ==
    /\ Len(queue') > Len(queue) => Fresh(queue'[Len(queue')])
    /\ pc' = pc /\ Len(bus') > Len(bus) => Fresh(bus'[Len(bus')])

DeliveryNext == LoopNext /\ NewEvents /\ Observe

DeliverySpec == DeliveryInit /\ [][DeliveryNext]_deliveryVars

\* A call, once made, runs on; it is taken that the user's code returns.
FairDeliverySpec == DeliverySpec /\ WF_allVars(LoopStep)

-----------------------------------------------------------------------------
(* Properties.                                                             *)

\* On their way from the layers to the bus.
Road == bus \o draining \o queue

OnRoad(ev) == \E p \in DOMAIN Road : Road[p] = ev

\* One tick drained both.
DrainedTogether(j, i) == \A d \in drains : ~(j <= d /\ d < i)

\* Events that subscribers and callables inject while a tick publishes what it
\* has drained, and ticks that an exception ends, leave the events in order and
\* each at most once; lost are exactly those drained together with, and after,
\* one at which a subscriber raised, so not what was injected since the drain.
EventsArriveInOrder ==
    /\ \A i, j \in DOMAIN sent, p, q \in DOMAIN Road :
          Road[p] = sent[i] /\ Road[q] = sent[j] => (i < j <=> p < q)
    /\ \A j \in raised : OnBus(sent[j])
    /\ \A i \in DOMAIN sent :
          ~OnRoad(sent[i]) <=> \E j \in raised : j < i /\ DrainedTogether(j, i)

\* Some event for n is among the first m of the bus.
HeardBy(n, m) == \E p \in Matching(n) : p <= m

LatestHeard(n, m) ==
    CHOOSE p \in Matching(n) : p <= m /\ \A q \in Matching(n) : q <= m => q <= p

\* The bus keeps its history, and ticks end in exceptions: still an event node
\* that only events trigger has the data of the latest event of its type that
\* was on the bus when the first tick that heard one began, whatever came later.
FirstTickDecides ==
    pc # "publish" =>
      \A n \in (nodes \cap EventNode) \ HandTriggered :
        /\ triggered[n] => \E h \in DOMAIN heard : HeardBy(n, heard[h])
        /\ \A h \in DOMAIN heard :
             HeardBy(n, heard[h]) /\ (\A g \in 1 .. (h - 1) : ~HeardBy(n, heard[g]))
               => triggered[n] /\ eventValue[n] = bus[LatestHeard(n, heard[h])].data

\* An event is not forgotten while the node that waits for it cannot run: each
\* tick, when the graph is done, has fired every event node of which an event
\* was on the bus when it began and whose causes have completed, in whatever
\* tick they did.
HeardEventsFire ==
    [][ pc = "graph" /\ pc' = "write" =>
          \A n \in nodes \cap EventNode :
             /\ HeardBy(n, heard[Len(heard)])
             /\ \A p \in Preds(n) : state[p] = "DONE"
             => n \in Completed(history) ]_deliveryVars

=============================================================================

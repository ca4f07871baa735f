------------------------------ MODULE EventBus ------------------------------
(***************************************************************************)
(* The publish/subscribe bus, core/event_bus.py, and the tracer that       *)
(* listens to it and replays what it heard, tools/event_tracer.py.         *)
(*                                                                         *)
(* Everything runs on one thread, but a subscriber is user code: it may    *)
(* subscribe, unsubscribe, publish, replay and clear while the bus is in   *)
(* the middle of telling the others, and it may raise.  The Python call    *)
(* stack is therefore part of the state.  The process may end at any time; *)
(* what is left of it is the file that the tracer has saved.               *)
(***************************************************************************)
EXTENDS Naturals, FiniteSets, SequencesExt

CONSTANTS
    Bus,
    Type,        \* event types, Star excepted
    Star,        \* the wildcard "*"
    Callback,    \* the users' callbacks
    Record,      \* the tracer's _record
    Nowhere,     \* the tracer does not exist yet
    RetraceHome, \* may the tracer replay onto the bus it listens to?
    MaxEvents,   \* bound: events created by clients
    MaxSubs,     \* bound: registrations when a callback is added
    MaxReplays,  \* bound: calls of a replay()
    MaxDepth     \* bound: frames on the call stack

Listener == Callback \cup {Record}

ASSUME BusConstants ==
    /\ Star \notin Type /\ Record \notin Callback /\ Nowhere \notin Bus
    /\ RetraceHome \in BOOLEAN
    /\ {MaxEvents, MaxSubs, MaxReplays, MaxDepth} \subseteq Nat

VARIABLES
    subs,     \* _subscribers of each bus
    hist,     \* history of each bus
    home,     \* the bus the tracer listens to
    trace,    \* the tracer's _trace
    stack,    \* the calls in progress, innermost first
    created,  \* how many events clients have created
    replays,  \* how often a replay() was called
    owed,     \* the events the tracer has heard or is still to hear
    file      \* the tracer's file: the trace it holds, or none that is whole

vars == <<subs, hist, home, trace, stack, created, replays, owed, file>>

-----------------------------------------------------------------------------
(* Frames of the call stack.                                               *)

\* publish() or replay() on bus b: event e is being told to the callbacks
\* left, the wildcards follow unless wild, the events rest after that; new if
\* a client has just published e.
Telling(b, e, rest, new) ==
    [op |-> "tell", bus |-> b, event |-> e, left |-> subs[b][e.type],
     wild |-> FALSE, rest |-> rest, new |-> new]

\* EventTracer.replay() onto bus b is about to publish entry next; total
\* entries were recorded when it was called.
Retracing(b) == [op |-> "retrace", bus |-> b, next |-> 1, total |-> Len(trace)]

\* A user's callback is running.
Calling == [op |-> "call"]

Pushed(f) == <<f>> \o stack
Returned == Tail(stack)
Replaced(f) == <<f>> \o Tail(stack)

Inside(op) == stack # <<>> /\ Head(stack).op = op

\* The caller, or a callback, decides what happens next.
UserTurn == stack = <<>> \/ Inside("call")

Room == Len(stack) < MaxDepth

Registrations ==
    {r \in Bus \X (Type \cup {Star}) \X (1 .. MaxSubs) : r[3] \in DOMAIN subs[r[1]][r[2]]}

\* The frames of s that tell a new event.
NewTold(s) == {i \in DOMAIN s : s[i].op = "tell" /\ s[i].new}

\* Where in a trace the events are that the tracer heard when they were new.
NewIn(tr) == {i \in DOMAIN tr : tr[i].new}

EventsIn(tr) == {tr[i].event : i \in NewIn(tr)}

HeardEvents == EventsIn(trace)

-----------------------------------------------------------------------------
(* Subscriptions.                                                          *)

Init ==
    /\ subs = [b \in Bus |-> [t \in Type \cup {Star} |-> <<>>]]
    /\ hist = [b \in Bus |-> <<>>]
    /\ home = Nowhere /\ trace = <<>>
    /\ stack = <<>>
    /\ created = 0 /\ replays = 0 /\ owed = {} /\ file = <<>>

Subscribe(b, t, f) ==
    /\ UserTurn
    /\ Cardinality(Registrations) < MaxSubs
    /\ subs' = [subs EXCEPT ![b][t] = Append(@, f)]
    /\ UNCHANGED <<hist, home, trace, stack, created, replays, owed, file>>

\* unsubscribe() if publish() went through the live list: the listener that
\* moves up into the place of one already told is passed over.
UnsubscribeLive(b, t, f) ==
    /\ UserTurn
    /\ Contains(subs[b][t], f)
    /\ subs' = [subs EXCEPT ![b][t] = RemoveFirst(@, f)]
    /\ stack' = [i \in DOMAIN stack |->
                   IF /\ stack[i].op = "tell" /\ stack[i].bus = b
                      /\ stack[i].wild /\ t = Star /\ stack[i].left # <<>>
                      /\ ~Contains(stack[i].left, f)
                   THEN [stack[i] EXCEPT !.left = Tail(@)]
                   ELSE stack[i]]
    /\ UNCHANGED <<hist, home, trace, created, replays, owed, file>>

\* unsubscribe() takes out the first registration; an unknown one is ignored.
Unsubscribe(b, t, f) ==
    /\ UserTurn
    /\ Contains(subs[b][t], f)
    /\ subs' = [subs EXCEPT ![b][t] = RemoveFirst(@, f)]
    /\ UNCHANGED <<hist, home, trace, stack, created, replays, owed, file>>

\* EventTracer(bus)
Attach(b) ==
    /\ UserTurn
    /\ home = Nowhere
    /\ home' = b
    /\ subs' = [subs EXCEPT ![b][Star] = Append(@, Record)]
    /\ UNCHANGED <<hist, trace, stack, created, replays, owed, file>>

-----------------------------------------------------------------------------
(* Publishing and replaying.                                               *)

\* A new event; during names the events whose telling it is published in and
\* that the tracer has not heard yet.
NewEvent(t) ==
    [type |-> t, id |-> created + 1,
     during |-> {stack[i].event.id : i \in
                   {j \in NewTold(stack) : stack[j].event \notin HeardEvents}}]

\* publish() that leaves the telling to the outermost call.
PublishQueued(b, t) ==
    /\ UserTurn /\ Room
    /\ created < MaxEvents
    /\ created' = created + 1
    /\ hist' = [hist EXCEPT ![b] = Append(@, NewEvent(t))]
    /\ stack' = stack \o <<Telling(b, NewEvent(t), <<>>, TRUE)>>
    /\ owed' = IF home = b THEN owed \cup {NewEvent(t)} ELSE owed
    /\ UNCHANGED <<subs, home, trace, replays, file>>

\* publish(): into the history, then told, before the caller goes on.
Publish(b, t) ==
    /\ UserTurn /\ Room
    /\ created < MaxEvents
    /\ created' = created + 1
    /\ hist' = [hist EXCEPT ![b] = Append(@, NewEvent(t))]
    /\ stack' = Pushed(Telling(b, NewEvent(t), <<>>, TRUE))
    /\ owed' = IF home = b THEN owed \cup {NewEvent(t)} ELSE owed
    /\ UNCHANGED <<subs, home, trace, replays, file>>

\* replay() of a copy of the history: told again, not appended again.
Replay(b) ==
    /\ UserTurn /\ Room
    /\ hist[b] # <<>> /\ replays < MaxReplays
    /\ replays' = replays + 1
    /\ stack' = Pushed(Telling(b, Head(hist[b]), Tail(hist[b]), FALSE))
    /\ UNCHANGED <<subs, hist, home, trace, created, owed, file>>

ClearHistory(b) ==
    /\ UserTurn
    /\ hist[b] # <<>>
    /\ hist' = [hist EXCEPT ![b] = <<>>]
    /\ UNCHANGED <<subs, home, trace, stack, created, replays, owed, file>>

\* The next callback of the list as it was when its part began.  The tracer
\* only records; any other runs until it returns or raises.
Tell ==
    /\ Inside("tell") /\ Head(stack).left # <<>>
    /\ LET told == [Head(stack) EXCEPT !.left = Tail(@)]
       IN IF Head(Head(stack).left) = Record
          THEN /\ trace' = Append(trace, [event |-> told.event, new |-> told.new])
               /\ stack' = Replaced(told)
          ELSE /\ stack' = <<Calling>> \o Replaced(told)
               /\ UNCHANGED trace
    /\ UNCHANGED <<subs, hist, home, created, replays, owed, file>>

\* The list of wildcards is copied when the others have been told.
TellWildcards ==
    /\ Inside("tell") /\ Head(stack).left = <<>> /\ ~Head(stack).wild
    /\ stack' = Replaced([Head(stack) EXCEPT !.wild = TRUE,
                                             !.left = subs[Head(stack).bus][Star]])
    /\ UNCHANGED <<subs, hist, home, trace, created, replays, owed, file>>

\* Everybody was told: the next event of a replay, or return.
Told ==
    /\ Inside("tell") /\ Head(stack).left = <<>> /\ Head(stack).wild
    /\ LET f == Head(stack)
       IN stack' = IF f.rest = <<>> THEN Returned
                   ELSE Replaced(Telling(f.bus, Head(f.rest), Tail(f.rest), FALSE))
    /\ UNCHANGED <<subs, hist, home, trace, created, replays, owed, file>>

CallbackReturns ==
    /\ Inside("call")
    /\ stack' = Returned
    /\ UNCHANGED <<subs, hist, home, trace, created, replays, owed, file>>

\* The innermost frames up to the next callback, or all of them.
Unwound ==
    LET calls == {i \in 2 .. Len(stack) : stack[i].op = "call"}
    IN IF calls = {} THEN <<>>
       ELSE SubSeq(stack, CHOOSE i \in calls : \A j \in calls : i <= j, Len(stack))

\* Nobody catches an exception between a callback and the caller of publish()
\* or replay(): the callbacks left and the events left are never told.
CallbackRaises ==
    /\ Inside("call")
    /\ stack' = Unwound
    /\ owed' = owed \cap (HeardEvents \cup
                           {Unwound[i].event : i \in NewTold(Unwound)})
    /\ UNCHANGED <<subs, hist, home, trace, created, replays, file>>

-----------------------------------------------------------------------------
(* The tracer's replay.                                                    *)

\* EventTracer.replay(bus), the bus being its own when none is given.
Retrace(b) ==
    /\ UserTurn /\ Room
    /\ trace # <<>> /\ replays < MaxReplays
    /\ replays' = replays + 1
    /\ b # home \/ RetraceHome
    /\ stack' = Pushed(Retracing(b))
    /\ UNCHANGED <<subs, hist, home, trace, created, owed, file>>

\* The loop runs over the live list of entries.
RetraceNext ==
    /\ Inside("retrace") /\ Head(stack).next <= Len(trace)
    /\ LET f == Head(stack)
           e == trace[f.next].event
       IN /\ hist' = [hist EXCEPT ![f.bus] = Append(@, e)]
          /\ stack' = <<Telling(f.bus, e, <<>>, FALSE)>>
                        \o Replaced([f EXCEPT !.next = @ + 1])
    /\ UNCHANGED <<subs, home, trace, created, replays, owed, file>>

RetraceEnds ==
    /\ Inside("retrace") /\ Head(stack).next > Len(trace)
    /\ stack' = Returned
    /\ UNCHANGED <<subs, hist, home, trace, created, replays, owed, file>>

ClearTrace ==
    /\ UserTurn
    /\ trace # <<>>
    /\ trace' = <<>>
    /\ owed' = owed \ HeardEvents
    /\ UNCHANGED <<subs, hist, home, stack, created, replays, file>>

-----------------------------------------------------------------------------
(* Saving, the end of the process, loading.                                *)

\* save(): the file is emptied, then written.
Save ==
    /\ UserTurn
    /\ home # Nowhere
    /\ file' = <<trace>>
    /\ UNCHANGED <<subs, hist, home, trace, stack, created, replays, owed>>

\* save() that does not come to its end, as when an event's data has no form in
\* JSON: the file was emptied, and at most half a trace is in it.
SaveRaises ==
    /\ UserTurn
    /\ home # Nowhere
    /\ file' = <<>>
    /\ UNCHANGED <<subs, hist, home, trace, stack, created, replays, owed>>

\* The process ends, perhaps inside SaveRaises, and another is started.
Restart ==
    /\ subs' = [b \in Bus |-> [t \in Type \cup {Star} |-> <<>>]]
    /\ hist' = [b \in Bus |-> <<>>]
    /\ home' = Nowhere /\ trace' = <<>> /\ stack' = <<>> /\ owed' = {}
    /\ UNCHANGED <<created, replays, file>>

\* EventTracer.load(): a new tracer with the saved trace; what is not the whole
\* of a trace raises before there is one.
Load(b) ==
    /\ UserTurn
    /\ home = Nowhere /\ file # <<>>
    /\ home' = b
    /\ subs' = [subs EXCEPT ![b][Star] = Append(@, Record)]
    /\ trace' = file[1] /\ owed' = EventsIn(file[1])
    /\ UNCHANGED <<hist, stack, created, replays, file>>

-----------------------------------------------------------------------------
User ==
    \/ \E b \in Bus, t \in Type \cup {Star}, f \in Callback :
          Subscribe(b, t, f) \/ Unsubscribe(b, t, f)
    \/ \E b \in Bus, t \in Type : Publish(b, t)
    \/ \E b \in Bus : Attach(b) \/ Replay(b) \/ ClearHistory(b) \/ Retrace(b)
    \/ ClearTrace
    \/ Save \/ SaveRaises \/ \E b \in Bus : Load(b)

Unwind == Tell \/ TellWildcards \/ Told \/ RetraceNext \/ RetraceEnds

Next == User \/ Unwind \/ CallbackReturns \/ CallbackRaises \/ Restart

Spec == Init /\ [][Next]_vars

-----------------------------------------------------------------------------
(* Properties.                                                             *)

Event == [type : Type, id : 1 .. created, during : SUBSET (1 .. created)]

Trace == Seq([event : Event, new : BOOLEAN])

Frame ==
    [op : {"tell"}, bus : Bus, event : Event, left : Seq(Listener),
     wild : BOOLEAN, rest : Seq(Event), new : BOOLEAN]
    \cup [op : {"retrace"}, bus : Bus, next : Nat \ {0}, total : Nat]
    \cup {Calling}

\* The bus, the tracer and the call stack keep to their types.
TypeOK ==
    /\ subs \in [Bus -> [Type \cup {Star} -> Seq(Listener)]]
    /\ hist \in [Bus -> Seq(Event)]
    /\ home \in Bus \cup {Nowhere}
    /\ trace \in Trace
    /\ stack \in Seq(Frame)
    /\ created \in 0 .. MaxEvents /\ replays \in 0 .. MaxReplays
    /\ owed \subseteq Event
    /\ file \in Seq(Trace) /\ Len(file) <= 1

\* Frame f will still let the tracer hear its event.
ToBeHeard(f) ==
    Record \in Range(f.left) \/ (~f.wild /\ Contains(subs[f.bus][Star], Record))

\* "All matching callbacks are invoked" (event_bus.py:61), of which the tracer
\* is one: it hears every event published on its bus exactly once, whatever the
\* others subscribe, unsubscribe, publish or replay while they are told, unless
\* one of them raises before the tracer's turn.  Once saved and loaded in another
\* process, its events are still there, once each, among those that follow.
EveryEventHeard ==
    \A e \in owed :
        \/ Cardinality({i \in NewIn(trace) : trace[i].event = e}) = 1
        \/ \E i \in NewTold(stack) : stack[i].event = e /\ ToBeHeard(stack[i])

\* Publishing is synchronous (event_bus.py:61-62): a younger event precedes an
\* older one in the trace exactly when it was published by a callback that was
\* told of the older one before the tracer was.
TraceIsDepthFirst ==
    \A i, j \in NewIn(trace) :
        trace[i].event.id > trace[j].event.id =>
           (i < j <=> trace[j].event.id \in trace[i].event.during)

\* EventTracer.replay() re-publishes "all recorded events" (event_tracer.py:114):
\* it never gets beyond those recorded when it was called.
RetraceIsBounded ==
    \A i \in DOMAIN stack :
        stack[i].op = "retrace" => stack[i].next <= stack[i].total + 1

=============================================================================

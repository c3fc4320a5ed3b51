------------------------------ MODULE EventBus ------------------------------
(***************************************************************************)
(* The in-memory bus of services/event: events, subscriptions, and the     *)
(* calls of subscribers' callbacks, which publishEvent starts and neither  *)
(* awaits nor catches.  A call that cannot be made is a rejection nobody   *)
(* handles, which ends the process (Node's default since version 15); pm2  *)
(* starts it again, empty.  Calls already on the way may still arrive.     *)
(* POST /publish comes here too, with the type "signed_event".             *)
(***************************************************************************)
EXTENDS BoundedBuffer, RequestBody, Integers, FiniteSets

CONSTANTS Type, Callback,
          Undefined,          \* a field the body does not have
          MAX_EVENTS,         \* 500 in the code
          MaxPublished, MaxSubscribed, MaxEnds   \* model bounds: events, subscriptions, ends of the process

EventBusAssumption ==
    /\ Undefined \notin Type \cup Callback
    /\ MAX_EVENTS \in Nat \ {0}
    /\ MaxPublished \in Nat /\ MaxSubscribed \in Nat /\ MaxEnds \in Nat

VARIABLES
    EVENTS,         \* the events kept, oldest first; "no" is their place in published
    SUBSCRIPTIONS,  \* in the order of their creation
    notices,        \* calls of callbacks that have not ended
    run,            \* which process of the service this is
    published,      \* history: the types of all events, in order
    term,           \* history: what was subscribed, and the events it covers
    called          \* history: every call ever started

busVars == <<EVENTS, SUBSCRIPTIONS, notices, run, published, term, called>>

Types == Type \cup {Undefined}
Callbacks == Callback \cup {Undefined}
Open == MaxPublished      \* the end of a term that has none yet

Event == [no : 1..MaxPublished, type : Types]
Subscription == [id : 1..MaxSubscribed, type : Types, callback : Callbacks]
Notice == [by : 0..MaxEnds, id : 1..MaxSubscribed, no : 1..MaxPublished, callback : Callbacks]
Term == [type : Types, callback : Callbacks, from : 0..MaxPublished, until : 0..MaxPublished]

BusTypeOK ==
    /\ EVENTS \in Seq(Event) /\ Len(EVENTS) <= MAX_EVENTS
    /\ SUBSCRIPTIONS \in Seq(Subscription)
    /\ called \subseteq Notice /\ notices \subseteq called
    /\ run \in 0..MaxEnds
    /\ published \in Seq(Types) /\ term \in Seq(Term)

Init ==
    /\ EVENTS = <<>> /\ SUBSCRIPTIONS = <<>> /\ notices = {} /\ run = 0
    /\ published = <<>> /\ term = <<>> /\ called = {}

-----------------------------------------------------------------------------
(* Reading *)

\* array.slice(-limit); a limit that is no number counts as 0, which is slice(0)
Sliced(s, limit) ==
    SubSeq(s, IF limit > Len(s) \/ limit = 0 THEN 1
              ELSE IF limit > 0 THEN Len(s) - limit + 1 ELSE 1 - limit, Len(s))

\* The events of a type; without a type, all of them
OfType(events, type) ==
    ElementsAt(events, {i \in DOMAIN events : type = Undefined \/ events[i].type = type})

\* Faulty variant: the limit is applied before the filter
LimitedThenFiltered(type, limit) == OfType(Sliced(EVENTS, limit), type)

\* GET /events
getEvents(type, limit) == Sliced(OfType(EVENTS, type), limit)

\* This service's copy of the parser; JSON's null is not caught (see Breaks).
Reads(b, emptyObject) == IF b.wire = "null" THEN {} ELSE Resolved(b, emptyObject)

\* parsed.version of null throws in an async listener, which nothing catches.
Breaks(b) == b.wire = "null"

-----------------------------------------------------------------------------
\* The calls publishEvent starts for event e
Calls(e) ==
    LET matching == {i \in DOMAIN SUBSCRIPTIONS : SUBSCRIPTIONS[i].type = e.type} IN
    {[by |-> run, id |-> SUBSCRIPTIONS[i].id, no |-> e.no, callback |-> SUBSCRIPTIONS[i].callback] :
        i \in matching}

publishEvent(type) ==
    LET e == [no |-> Len(published) + 1, type |-> type] IN
    /\ Len(published) < MaxPublished
    /\ EVENTS' = PushBounded(EVENTS, e, MAX_EVENTS)
    /\ notices' = notices \cup Calls(e)
    /\ called' = called \cup Calls(e)
    /\ published' = Append(published, type)
    /\ UNCHANGED <<SUBSCRIPTIONS, run, term>>

addSubscription(type, callback) ==
    /\ Len(term) < MaxSubscribed
    /\ SUBSCRIPTIONS' = Append(SUBSCRIPTIONS,
           [id |-> Len(term) + 1, type |-> type, callback |-> callback])
    /\ term' = Append(term, [type |-> type, callback |-> callback,
                             from |-> Len(published), until |-> Open])
    /\ UNCHANGED <<EVENTS, notices, run, published, called>>

\* Subscriptions whose numbers are in ids cover nothing from here on.
Closed(ids) ==
    [i \in DOMAIN term |-> IF i \in ids /\ term[i].until = Open
                           THEN [term[i] EXCEPT !.until = Len(published)] ELSE term[i]]

Subscribed == {SUBSCRIPTIONS[i].id : i \in DOMAIN SUBSCRIPTIONS}
PlaceOf(id) == CHOOSE i \in DOMAIN SUBSCRIPTIONS : SUBSCRIPTIONS[i].id = id

\* Faulty variant: findIndex answers -1, and splice takes the last one
WithoutAtIndex(id) ==
    IF SUBSCRIPTIONS = <<>> THEN <<>>
    ELSE Spliced(SUBSCRIPTIONS, IF id \in Subscribed THEN PlaceOf(id) ELSE Len(SUBSCRIPTIONS))

\* splice(idx, 1) of the one with this id, if there is one
Without(id) == IF id \in Subscribed THEN Spliced(SUBSCRIPTIONS, PlaceOf(id)) ELSE SUBSCRIPTIONS

\* DELETE /subscriptions/<id>, of any id
removeSubscription(id) ==
    /\ SUBSCRIPTIONS' = Without(id)
    /\ term' = Closed({id})
    /\ UNCHANGED <<EVENTS, notices, run, published, called>>

\* The process ends and its successor starts with nothing.
ProcessEnds ==
    /\ run < MaxEnds
    /\ run' = run + 1
    /\ EVENTS' = <<>> /\ SUBSCRIPTIONS' = <<>>
    /\ term' = Closed(DOMAIN term)
    /\ UNCHANGED <<published, called>>

Restart == ProcessEnds /\ UNCHANGED notices

-----------------------------------------------------------------------------
(* Handlers *)

PostEvent(b) ==
    \/ \E p \in Reads(b, [type |-> Undefined]) : publishEvent(p.type)
    \/ Breaks(b) /\ Restart

PostSubscribe(b) ==
    \/ \E p \in Reads(b, [type |-> Undefined, callback |-> Undefined]) :
           addSubscription(p.type, p.callback)
    \/ Breaks(b) /\ Restart

\* The callback took the event, or answered anything at all.
CallbackAnswers(n) ==
    /\ n.callback # Undefined
    /\ notices' = notices \ {n}
    /\ UNCHANGED <<EVENTS, SUBSCRIPTIONS, run, published, term, called>>

\* No connection, or no url: the rejection ends the process that called.
CallbackFails(n) ==
    /\ notices' = notices \ {n}
    /\ IF n.by = run THEN ProcessEnds
       ELSE UNCHANGED <<EVENTS, SUBSCRIPTIONS, run, published, term, called>>

Next ==
    \/ \E b \in Bodies([type : Type]) : PostEvent(b)
    \/ \E b \in Bodies([type : Types, callback : Callbacks]) : PostSubscribe(b)
    \/ \E id \in 1..MaxSubscribed : removeSubscription(id)
    \/ \E n \in notices : CallbackAnswers(n) \/ CallbackFails(n)
    \/ Restart

Spec == Init /\ [][Next]_busVars

-----------------------------------------------------------------------------
(* Every subscription has its callback called for exactly the events of    *)
(* its type that were published between its creation and its removal or    *)
(* the end of the process, and for nothing else, whatever other            *)
(* subscriptions there are, are removed, removed twice, or were never made *)
(* (publishEvent, addSubscription, removeSubscription).                    *)
Covered(i) == {n \in DOMAIN published : /\ published[n] = term[i].type
                                        /\ term[i].from < n /\ n <= term[i].until}

NotifiedAsSubscribed ==
    \A i \in DOMAIN term :
        LET calls == {c \in called : c.id = i} IN
        /\ {c.no : c \in calls} = Covered(i)
        /\ \A c \in calls : c.callback = term[i].callback

(* An answer to GET /events has the newest events of its type, in order,   *)
(* and as many of them as asked for, whatever was shifted out and however  *)
(* often the process ended before (getEvents).  A limit of 0 stands for    *)
(* no limit.                                                               *)
AnswersAreTheNewest ==
    \A type \in Types, limit \in 0..MAX_EVENTS + 1 :
        LET answer == getEvents(type, limit)
            matching == {n \in DOMAIN published :
                           /\ n > Len(published) - Len(EVENTS)
                           /\ type = Undefined \/ published[n] = type}
            newer(n) == {m \in matching : m >= n}
        IN /\ {answer[i].no : i \in DOMAIN answer} =
                  {n \in matching : limit = 0 \/ Cardinality(newer(n)) <= limit}
           /\ \A i \in DOMAIN answer : /\ answer[i].type = published[answer[i].no]
                                       /\ i > 1 => answer[i-1].no < answer[i].no

(* The catch around fetch says "ignore errors" (services/event/index.js:37): *)
(* a callback that cannot be called leaves the bus as it is.               *)
ErrorsAreIgnored ==
    [][(\E n \in notices : CallbackFails(n)) => UNCHANGED <<EVENTS, SUBSCRIPTIONS>>]_busVars
=============================================================================

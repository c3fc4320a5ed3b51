------------------------ MODULE HistoryPipelineProofs ------------------------
(***************************************************************************)
(* For any number of publications, any payloads, any bounds and any number *)
(* of faults: the history pipeline keeps its types; its polling loop never *)
(* has more than one call on the way; no item anywhere lacks a signed      *)
(* publication and a stored object; clients are told the truth; no item is *)
(* enqueued, logged or recorded twice; sinks are sent what one             *)
(* configuration names; and the whole implements the flow of items of      *)
(* module HistoryFlow.  Without faults an evaluation is complete, and only *)
(* a full queue loses items.  Whoever waits has one message on the way.    *)
(***************************************************************************)
EXTENDS HistoryPipeline, BoundedBufferTheorems, TLAPS

RulesOp == {"dequeue"} \cup Action
PhaseOf(op) == IF op = "dequeue" THEN "asked" ELSE op

\* Calls of the rules process that runs now, and answers on their way to it
CurrentCalls == {c \in calls : c.op \in RulesOp /\ c.from = restarts["rules"]}
RulesReplies == {r \in replies : r.op \in RulesOp}

\* The loop waits for exactly what its phase says: no second call of the same
\* process is on the way, and calls of earlier processes stay told apart.
OneCallOut ==
    /\ \A c \in calls : c.op \in RulesOp => c.from <= restarts["rules"]
    /\ \A c \in CurrentCalls : PhaseOf(c.op) = poller.phase
    /\ \A r \in RulesReplies : PhaseOf(r.op) = poller.phase
    /\ \A c, d \in CurrentCalls : c = d
    /\ \A r, s \in RulesReplies : r = s
    /\ CurrentCalls = {} \/ RulesReplies = {}
    /\ poller.phase \in Action => poller.item \in Item

\* An item is founded, and of a publication that got a hash for it.
Traced(x) == Founded(x.by, x.hash_id, x.payload) /\ hash_id[x.by] # NoItem

\* What the handlers hold is as sound as what they have passed on.
Sound ==
    /\ \A p \in Publish : stage[p] = "new" => request[p] = NoItem
    /\ \A h \in DOMAIN STORE : h = Sha256(STORE[h])
    /\ \A c \in calls : c.op = "store" =>
           /\ request[c.from] # NoItem
           /\ request[c.from].form = "signed" /\ request[c.from].payload = c.body
    /\ \A r \in replies : r.op = "store" /\ r.status = 200 =>
           r.body \in Hash /\ \E y \in Payload : Founded(r.from, r.body, y)
    /\ \A c \in calls : c.op = "enqueue" => hash_id[c.from] # NoItem
    /\ \A r \in replies : r.op = "enqueue" => hash_id[r.from] # NoItem
    /\ \A p \in Publish : hash_id[p] # NoItem =>
           \E h \in Hash, y \in Payload : hash_id[p] = h /\ Founded(p, h, y)
    /\ poller.phase \in Action =>
           \E x \in Item : poller.item = x /\ Traced(x)
    /\ \A x \in Everywhere : Traced(x)

PInv == TypeOK /\ OneCallOut /\ Sound

-----------------------------------------------------------------------------
\* What the building blocks of the actions do, stated once

LEMMA QueuePush == \A s, x, max : Q!PushBounded(s, x, max) = PushBounded(s, x, max)
BY DEF Q!PushBounded, PushBounded

\* Setting the queue's items makes them the queue's items.
LEMMA WithItemsHistory ==
    ASSUME Q!QueuesTypeOK, NEW s \in Seq(Item), QUEUES' = Q!WithItems("history", s)
    PROVE  Q!QueuesTypeOK' /\ Q!Items("history")' = s
BY DEF Q!QueuesTypeOK, Q!Items, Q!WithItems

LEMMA ItemsType ==
    ASSUME Q!QueuesTypeOK
    PROVE  Q!Items("history") \in Seq(Item)
BY DEF Q!QueuesTypeOK, Q!Items

\* POST /enqueue adds at most its item.
LEMMA EnqueueItems ==
    ASSUME Q!QueuesTypeOK, NEW x \in Item, Q!Enqueue("history", x)
    PROVE  Q!QueuesTypeOK' /\ Queued' \subseteq Queued \cup {x}
<1> DEFINE old == Q!Items("history")
           s == PushBounded(old, x, MAX_QUEUE_SIZE)
<1>0. old \in Seq(Item)
  BY ItemsType
<1>1. /\ s \in Seq(Item)
      /\ \A i \in 1..Len(s) : s[i] = x \/ \E j \in 1..Len(old) : s[i] = old[j]
  <2> HIDE DEF old
  <2> QED BY <1>0, PushBoundedMembers
<1>2. QUEUES' = Q!WithItems("history", s)
  BY QueuePush DEF Q!Enqueue
<1>3. Queued = {old[i] : i \in 1..Len(old)}
  BY DEF Queued
<1> HIDE DEF s, old
<1>4. Q!QueuesTypeOK' /\ Q!Items("history")' = s
  BY <1>1, <1>2, WithItemsHistory
<1>5. Queued' = {s[i] : i \in 1..Len(s)}
  BY <1>4 DEF Queued
<1> QED BY <1>1, <1>3, <1>4, <1>5

\* POST /dequeue hands out an item of the queue, if any, and adds none.
LEMMA DequeueItems ==
    ASSUME Q!QueuesTypeOK, Q!Dequeue("history")
    PROVE  /\ Q!QueuesTypeOK' /\ Queued' \subseteq Queued
           /\ Q!DequeueResult("history") \in Item \cup {NoItem}
           /\ Q!DequeueResult("history") \in Queued \cup {NoItem}
<1> DEFINE old == Q!Items("history")
           new == IF old = <<>> THEN <<>> ELSE Tail(old)
<1>1. old \in Seq(Item)
  BY ItemsType
<1>2. CASE old = <<>>
  <2>1. new = <<>> /\ new \in Seq(Item)
    BY <1>2
  <2>2. QUEUES' = Q!WithItems("history", new)
    BY DEF Q!Dequeue
  <2>3. Q!QueuesTypeOK' /\ Q!Items("history")' = <<>>
    BY <2>1, <2>2, WithItemsHistory
  <2> QED BY <1>2, <2>3 DEF Queued, Q!DequeueResult
<1>3. CASE old # <<>>
  <2>1. /\ Tail(old) \in Seq(Item) /\ Len(Tail(old)) + 1 = Len(old) /\ Len(old) \in Nat
        /\ \A i \in 1..Len(Tail(old)) : Tail(old)[i] = old[i + 1]
        /\ Head(old) = old[1] /\ 1 \in 1..Len(old)
    BY <1>1, <1>3
  <2>2. QUEUES' = Q!WithItems("history", Tail(old))
    BY <1>3 DEF Q!Dequeue
  <2>3. Q!QueuesTypeOK' /\ Q!Items("history")' = Tail(old)
    BY <2>1, <2>2, WithItemsHistory
  <2>4. Q!DequeueResult("history") = old[1]
    BY <1>3, <2>1 DEF Q!DequeueResult
  <2>5. old[1] \in Queued /\ old[1] \in Item
    BY <1>1, <2>1 DEF Queued
  <2>6. \A i \in 1..Len(Tail(old)) : Tail(old)[i] \in Queued
    <3>1. \A i \in 1..Len(Tail(old)) : i + 1 \in 1..Len(old)
      BY <2>1
    <3> QED BY <2>1, <3>1 DEF Queued
  <2> HIDE DEF old
  <2>7. Queued' \subseteq Queued
    BY <2>3, <2>6 DEF Queued
  <2> QED BY <2>3, <2>4, <2>5, <2>7
<1> QED BY <1>2, <1>3

LEMMA CallFields ==
    ASSUME NEW c \in Call
    PROVE  /\ c.op \in {"store", "enqueue"} \cup RulesOp
           /\ c.op = "store" => c.from \in Publish /\ c.body \in Payload
           /\ c.op = "enqueue" => c.from \in Publish /\ c.body \in Item
           /\ c.op = "dequeue" => c.from \in Nat
           /\ c.op \in Action => c.from \in Nat /\ c.body \in Item
BY DEF Call, RulesOp, Action

LEMMA ReplyFields ==
    ASSUME NEW r \in Reply
    PROVE  /\ r.op \in {"store", "enqueue"} \cup RulesOp
           /\ r.op = "store" => r.from \in Publish /\ r.body \in Hash \cup {NoItem}
           /\ r.op = "enqueue" => r.from \in Publish
           /\ r.op = "dequeue" => r.from \in Nat /\ r.body \in Item \cup {NoItem}
           /\ r.op \in Action => r.from \in Nat
           /\ r.op # "dequeue" /\ r.op # "store" => r.body = NoItem
BY DEF Reply, RulesOp, Action

\* An answer to a call has the type of a reply.
LEMMA AnswerType ==
    ASSUME NEW c \in Call, NEW status \in {200, 500}, NEW body,
           \/ body = NoItem
           \/ c.op = "store" /\ body \in Hash
           \/ c.op = "dequeue" /\ body \in Item
    PROVE  [op |-> c.op, from |-> c.from, status |-> status, body |-> body] \in Reply
BY DEF Call, Reply, Action

LEMMA RespondNet ==
    ASSUME calls \subseteq Call, replies \subseteq Reply, NEW c \in calls, NEW status, NEW body,
           [op |-> c.op, from |-> c.from, status |-> status, body |-> body] \in Reply,
           Respond(c, status, body)
    PROVE  /\ calls' \subseteq Call /\ replies' \subseteq Reply
           /\ calls' \subseteq calls /\ c \notin calls'
           /\ replies \subseteq replies'
           /\ \A r \in replies' \ replies :
                  /\ Waiting(c)
                  /\ r = [op |-> c.op, from |-> c.from, status |-> status, body |-> body]
BY DEF Respond

-----------------------------------------------------------------------------
\* Types

LEMMA UnchangedTypes ==
    /\ EventTypes /\ UNCHANGED eventVars => EventTypes'
    /\ StoreTypes /\ UNCHANGED STORE => StoreTypes'
    /\ QueueTypes /\ UNCHANGED queueVars => QueueTypes'
    /\ RulesTypes /\ UNCHANGED rulesVars => RulesTypes'
    /\ SinkTypes /\ UNCHANGED sinkVars => SinkTypes'
    /\ NetTypes /\ UNCHANGED netVars => NetTypes'
    /\ FaultTypes /\ UNCHANGED faultVars => FaultTypes'
<1>1. EventTypes /\ UNCHANGED eventVars => EventTypes'
  BY DEF EventTypes, eventVars
<1>2. StoreTypes /\ UNCHANGED STORE => StoreTypes'
  BY DEF StoreTypes
<1>3. QueueTypes /\ UNCHANGED queueVars => QueueTypes'
  BY DEF QueueTypes, Q!QueuesTypeOK, queueVars
<1>4. RulesTypes /\ UNCHANGED rulesVars => RulesTypes'
  BY DEF RulesTypes, rulesVars
<1>5. SinkTypes /\ UNCHANGED sinkVars => SinkTypes'
  BY DEF SinkTypes, sinkVars
<1>6. NetTypes /\ UNCHANGED netVars => NetTypes'
  BY DEF NetTypes, netVars
<1>7. FaultTypes /\ UNCHANGED faultVars => FaultTypes'
  BY DEF FaultTypes, faultVars
<1> QED BY <1>1, <1>2, <1>3, <1>4, <1>5, <1>6, <1>7

LEMMA ReceiveType ==
    ASSUME TypeOK, NEW p \in Publish, NEW r \in Request, Receive(p, r)
    PROVE  TypeOK'
<1>1. FirstAnswer(r) \in {"storing"} \cup Answer
  BY DEF FirstAnswer, Request, Form, Answer
<1>2. EventTypes'
  BY <1>1 DEF Receive, TypeOK, EventTypes
<1>3. NetTypes'
  <2>1. r.payload \in Payload
    BY DEF Request
  <2>2. [op |-> "store", from |-> p, body |-> r.payload] \in Call
    BY <2>1 DEF Call
  <2> QED BY <2>2 DEF Receive, TypeOK, NetTypes
<1> QED BY <1>2, <1>3, UnchangedTypes DEF Receive, TypeOK

\* An item is made from what the handler has.
LEMMA ItemOfType ==
    ASSUME EventTypes, NEW p \in Publish, request[p] # NoItem, NEW h \in Hash
    PROVE  ItemOf(p, h) \in Item
BY DEF EventTypes, ItemOf, Item, Request

LEMMA StoreAnsweredType ==
    ASSUME TypeOK, NEW r, StoreAnswered(r),
           r.status = 200 => r.body \in Hash /\ request[r.from] # NoItem
    PROVE  TypeOK'
<1>1. r \in Reply /\ r.op = "store" /\ r.from \in Publish
  BY ReplyFields DEF StoreAnswered, TypeOK, NetTypes
<1>2. EventTypes'
  BY <1>1 DEF StoreAnswered, TypeOK, EventTypes, Answer
<1>3. NetTypes'
  <2>1. CASE r.status = 200
    <3>1. ItemOf(r.from, r.body) \in Item
      BY <1>1, <2>1, ItemOfType DEF TypeOK
    <3>2. [op |-> "enqueue", from |-> r.from, body |-> ItemOf(r.from, r.body)] \in Call
      BY <1>1, <3>1 DEF Call
    <3> QED BY <2>1, <3>2 DEF StoreAnswered, Resume, TypeOK, NetTypes
  <2>2. CASE r.status # 200
    BY <2>2 DEF StoreAnswered, Resume, TypeOK, NetTypes
  <2> QED BY <2>1, <2>2
<1> QED BY <1>2, <1>3, UnchangedTypes DEF StoreAnswered, TypeOK

LEMMA EnqueueAnsweredType ==
    ASSUME TypeOK, NEW r, EnqueueAnswered(r), hash_id[r.from] # NoItem, request[r.from] # NoItem
    PROVE  TypeOK'
<1>1. r.from \in Publish /\ hash_id[r.from] \in Hash
  BY ReplyFields DEF EnqueueAnswered, TypeOK, NetTypes, EventTypes
<1>2. ItemOf(r.from, hash_id[r.from]) \in Item
  BY <1>1, ItemOfType DEF TypeOK
<1>3. EVENTS' \in Seq(Item) /\ Len(EVENTS') <= MAX_EVENTS
  BY <1>2, PushBoundedType, PipelineAssumption
     DEF EnqueueAnswered, publishEvent, TypeOK, EventTypes
<1>4. EventTypes'
  BY <1>1, <1>3 DEF EnqueueAnswered, TypeOK, EventTypes, Answer
<1>5. NetTypes'
  BY DEF EnqueueAnswered, Resume, TypeOK, NetTypes
<1> QED BY <1>4, <1>5, UnchangedTypes DEF EnqueueAnswered, TypeOK

\* A packet carries a payload.
LEMMA UnwrappedType == \A x \in Payload : Unwrapped(x) \in Payload
BY PipelineAssumption DEF Unwrapped

LEMMA HandleStoreType == ASSUME TypeOK, NEW c, HandleStore(c) PROVE TypeOK'
<1> DEFINE y == Unwrapped(c.body)
<1>1. /\ c \in calls /\ c \in Call /\ c.op = "store" /\ c.from \in Publish
      /\ y \in Payload /\ Sha256(y) \in Hash
      /\ calls \subseteq Call /\ replies \subseteq Reply
  BY CallFields, UnwrappedType DEF HandleStore, TypeOK, NetTypes, Hash
<1>2. \/ StoreObject(y) /\ Respond(c, 200, Sha256(y))
      \/ UNCHANGED STORE /\ Respond(c, 400, NoItem)
      \/ UNCHANGED STORE /\ Respond(c, 403, NoItem)
  BY DEF HandleStore
<1> HIDE DEF y
<1>3. StoreTypes'
  <2>1. CASE StoreObject(y)
    BY <1>1, <2>1 DEF StoreObject, TypeOK, StoreTypes
  <2>2. CASE UNCHANGED STORE
    BY <2>2, UnchangedTypes DEF TypeOK
  <2> QED BY <1>2, <2>1, <2>2
<1>4. NetTypes'
  <2>1. [op |-> c.op, from |-> c.from, status |-> 200, body |-> Sha256(y)] \in Reply
    BY <1>1, AnswerType
  <2>2. /\ [op |-> c.op, from |-> c.from, status |-> 400, body |-> NoItem] \in Reply
        /\ [op |-> c.op, from |-> c.from, status |-> 403, body |-> NoItem] \in Reply
    BY <1>1 DEF Reply
  <2>3. CASE Respond(c, 200, Sha256(y))
    BY <1>1, <2>1, <2>3, RespondNet DEF NetTypes
  <2>4. CASE Respond(c, 400, NoItem)
    BY <1>1, <2>2, <2>4, RespondNet DEF NetTypes
  <2>5. CASE Respond(c, 403, NoItem)
    BY <1>1, <2>2, <2>5, RespondNet DEF NetTypes
  <2> QED BY <1>2, <2>3, <2>4, <2>5
<1> QED BY <1>3, <1>4, UnchangedTypes DEF HandleStore, TypeOK

\* An answer without a body
LEMMA EmptyAnswerType ==
    ASSUME NetTypes, NEW c \in calls, NEW status \in {200, 500}, Respond(c, status, NoItem)
    PROVE  NetTypes'
<1>1. c \in Call /\ calls \subseteq Call /\ replies \subseteq Reply
  BY DEF NetTypes
<1>2. [op |-> c.op, from |-> c.from, status |-> status, body |-> NoItem] \in Reply
  BY <1>1, AnswerType
<1> QED BY <1>1, <1>2, RespondNet DEF NetTypes

LEMMA HandleEnqueueType == ASSUME TypeOK, NEW c, HandleEnqueue(c) PROVE TypeOK'
<1>1. /\ c \in calls /\ c \in Call /\ c.op = "enqueue" /\ c.body \in Item
      /\ calls \subseteq Call /\ replies \subseteq Reply
  BY CallFields DEF HandleEnqueue, TypeOK, NetTypes
<1>2. QueueTypes'
  BY <1>1, EnqueueItems DEF HandleEnqueue, TypeOK, QueueTypes
<1>3. NetTypes'
  BY <1>1, EmptyAnswerType DEF HandleEnqueue, TypeOK
<1> QED BY <1>2, <1>3, UnchangedTypes DEF HandleEnqueue, TypeOK

LEMMA HandleDequeueType == ASSUME TypeOK, NEW c, HandleDequeue(c) PROVE TypeOK'
<1>1. /\ c \in calls /\ c \in Call /\ c.op = "dequeue"
      /\ calls \subseteq Call /\ replies \subseteq Reply
  BY DEF HandleDequeue, TypeOK, NetTypes
<1>2. Q!QueuesTypeOK' /\ Q!DequeueResult("history") \in Item \cup {NoItem}
  BY DequeueItems DEF HandleDequeue, TypeOK, QueueTypes
<1>3. QueueTypes'
  BY <1>2 DEF HandleDequeue, TypeOK, QueueTypes
<1>4. NetTypes'
  <2>1. [op |-> c.op, from |-> c.from, status |-> 200, body |-> Q!DequeueResult("history")]
            \in Reply
    BY <1>1, <1>2, AnswerType
  <2>2. Respond(c, 200, Q!DequeueResult("history"))
    BY DEF HandleDequeue
  <2> QED BY <1>1, <2>1, <2>2, RespondNet DEF NetTypes
<1> QED BY <1>3, <1>4, UnchangedTypes DEF HandleDequeue, TypeOK

LEMMA SinksType ==
    ASSUME TypeOK, NEW c, HandleReplicate(c) \/ HandleLog(c) \/ HandleRecord(c)
    PROVE  TypeOK'
<1>1. c \in calls /\ Respond(c, 200, NoItem)
  BY DEF HandleReplicate, HandleLog, HandleRecord
<1>2. NetTypes'
  BY <1>1, EmptyAnswerType DEF TypeOK
<1>3. c.op \in Action => c.body \in Item
  BY <1>1, CallFields DEF TypeOK, NetTypes
<1>4. CASE HandleReplicate(c)
  <2>1. c.body \in Item /\ replicated' = Append(replicated, c.body) /\ UNCHANGED <<logs, records>>
    BY <1>3, <1>4 DEF HandleReplicate, Action
  <2>2. SinkTypes'
    BY <2>1 DEF TypeOK, SinkTypes
  <2> QED BY <1>2, <1>4, <2>2, UnchangedTypes DEF HandleReplicate, TypeOK
<1>5. CASE HandleLog(c)
  <2>1. /\ c.body \in Item /\ logs' = PushBounded(logs, c.body, MAX_LOGS)
        /\ UNCHANGED <<records, replicated>>
    BY <1>3, <1>5 DEF HandleLog, Action, addLog
  <2>2. logs' \in Seq(Item) /\ Len(logs') <= MAX_LOGS
    BY <2>1, PushBoundedType, PipelineAssumption DEF TypeOK, SinkTypes
  <2>3. SinkTypes'
    BY <2>1, <2>2 DEF TypeOK, SinkTypes
  <2> QED BY <1>2, <1>5, <2>3, UnchangedTypes DEF HandleLog, TypeOK
<1>6. CASE HandleRecord(c)
  <2>1. c.body \in Item /\ records' = Append(records, c.body) /\ UNCHANGED <<logs, replicated>>
    BY <1>3, <1>6 DEF HandleRecord, Action
  <2>2. SinkTypes'
    BY <2>1 DEF TypeOK, SinkTypes
  <2> QED BY <1>2, <1>6, <2>2, UnchangedTypes DEF HandleRecord, TypeOK
<1> QED BY <1>4, <1>5, <1>6

\* The phase after an answer, with the call it makes
LEMMA EnterPhaseType ==
    ASSUME NetTypes, restarts["rules"] \in Nat, NEW r, NEW phase \in {"idle"} \cup Action,
           NEW item \in Item \cup {NoItem}, NEW cfg \in RuleConfig,
           phase \in Action => item \in Item, EnterPhase(r, phase, item, cfg)
    PROVE  /\ NetTypes'
           /\ poller' \in [phase : {"idle", "asked"} \cup Action, item : Item \cup {NoItem},
                            cfg : RuleConfig]
           /\ poller'.phase = phase
           /\ phase \in Action => poller'.item = item
<1>1. CASE phase = "idle"
  <2>1. NoRule \in RuleConfig
    BY DEF NoRule, RuleConfig
  <2> QED BY <1>1, <2>1 DEF EnterPhase, Resume, NetTypes, IdlePoller, Action
<1>2. CASE phase # "idle"
  <2>1. [op |-> phase, from |-> restarts["rules"], body |-> item] \in Call
    BY <1>2 DEF Call
  <2> QED BY <1>2, <2>1 DEF EnterPhase, Resume, NetTypes
<1> QED BY <1>1, <1>2

\* The three kinds of phase change keep to the actions and "idle".
LEMMA PhaseRange ==
    /\ \A cfg : FirstAction(cfg) \in {"idle"} \cup Action
    /\ \A cfg, op : op \in Action => NextAction(op, cfg) \in {"idle"} \cup Action
<1>1. \A cfg : AfterLogging(cfg) \in {"idle"} \cup Action
  BY DEF AfterLogging, Action
<1>2. \A cfg : AfterReplication(cfg) \in {"idle"} \cup Action
  BY <1>1 DEF AfterReplication, Action
<1>3. \A cfg : FirstAction(cfg) \in {"idle"} \cup Action
  BY <1>2 DEF FirstAction, Action
<1>4. ASSUME NEW cfg, NEW op \in Action
      PROVE  NextAction(op, cfg) \in {"idle"} \cup Action
  <2>1. CASE op = "replicate"
    BY <1>2, <2>1 DEF NextAction
  <2>2. CASE op = "log"
    BY <1>1, <2>2 DEF NextAction
  <2>3. CASE op = "analytics"
    BY <2>3 DEF NextAction
  <2> QED BY <2>1, <2>2, <2>3 DEF Action
<1> QED BY <1>3, <1>4

LEMMA TickType == ASSUME TypeOK, Tick PROVE TypeOK'
<1>1. restarts["rules"] \in Nat
  BY DEF TypeOK, FaultTypes, Process
<1>2. RulesTypes'
  BY DEF Tick, TypeOK, RulesTypes, IdlePoller, NoRule, RuleConfig
<1>3. NetTypes'
  <2>1. [op |-> "dequeue", from |-> restarts["rules"], body |-> NoItem] \in Call
    BY <1>1 DEF Call
  <2> QED BY <2>1 DEF Tick, TypeOK, NetTypes
<1> QED BY <1>2, <1>3, UnchangedTypes DEF Tick, TypeOK, queueVars, sinkVars, faultVars

LEMMA DequeueAnsweredType == ASSUME TypeOK, NEW r, DequeueAnswered(r) PROVE TypeOK'
<1>1. /\ r \in Reply /\ r.body \in Item \cup {NoItem} /\ HISTORY_RULE \in RuleConfig
      /\ restarts["rules"] \in Nat /\ NetTypes /\ evaluated \in Seq(Evaluation)
  BY ReplyFields DEF DequeueAnswered, TypeOK, NetTypes, RulesTypes, FaultTypes, Process
<1>2. /\ NetTypes'
      /\ poller' \in [phase : {"idle", "asked"} \cup Action, item : Item \cup {NoItem},
                       cfg : RuleConfig]
      /\ evaluated' \in Seq(Evaluation)
  <2>1. CASE r.status = 200 /\ r.body # NoItem
    <3>1. EnterPhase(r, FirstAction(HISTORY_RULE), r.body, HISTORY_RULE)
      BY <2>1 DEF DequeueAnswered
    <3>2. r.body \in Item /\ FirstAction(HISTORY_RULE) \in {"idle"} \cup Action
      BY <1>1, <2>1, PhaseRange
    <3>3. [item |-> r.body, cfg |-> HISTORY_RULE] \in Evaluation
      BY <1>1, <3>2 DEF Evaluation
    <3>4. evaluated' = Append(evaluated, [item |-> r.body, cfg |-> HISTORY_RULE])
      BY <2>1 DEF DequeueAnswered
    <3>5. evaluated' \in Seq(Evaluation)
      BY <1>1, <3>3, <3>4
    <3> QED BY <1>1, <3>1, <3>2, <3>5, EnterPhaseType
  <2>2. CASE ~(r.status = 200 /\ r.body # NoItem)
    <3>1. EnterPhase(r, "idle", NoItem, NoRule) /\ evaluated' = evaluated
      BY <2>2 DEF DequeueAnswered
    <3>2. NoRule \in RuleConfig /\ "idle" \notin Action
      BY DEF NoRule, RuleConfig, Action
    <3> QED BY <1>1, <3>1, <3>2, EnterPhaseType
  <2> QED BY <2>1, <2>2
<1>3. RulesTypes'
  BY <1>2 DEF DequeueAnswered, TypeOK, RulesTypes
<1> QED BY <1>2, <1>3, UnchangedTypes DEF DequeueAnswered, TypeOK

LEMMA ActionAnsweredType ==
    ASSUME TypeOK, NEW r, ActionAnswered(r), poller.item \in Item
    PROVE  TypeOK'
<1>1. /\ r.op \in Action /\ poller.cfg \in RuleConfig /\ NetTypes /\ restarts["rules"] \in Nat
      /\ EnterPhase(r, NextAction(r.op, poller.cfg), poller.item, poller.cfg)
  BY DEF ActionAnswered, TypeOK, RulesTypes, FaultTypes, Process
<1>2. NextAction(r.op, poller.cfg) \in {"idle"} \cup Action
  BY <1>1, PhaseRange
<1>3. /\ NetTypes'
      /\ poller' \in [phase : {"idle", "asked"} \cup Action, item : Item \cup {NoItem},
                       cfg : RuleConfig]
  BY <1>1, <1>2, EnterPhaseType
<1>4. RulesTypes'
  BY <1>3 DEF ActionAnswered, TypeOK, RulesTypes
<1> QED BY <1>3, <1>4, UnchangedTypes DEF ActionAnswered, TypeOK

LEMMA MergedType ==
    ASSUME NEW rule \in RuleConfig, NEW value \in RuleValue
    PROVE  Merged(rule, value) \in RuleConfig
<1>1. CASE value = NotAnObject
  BY <1>1 DEF Merged
<1>2. CASE value # NotAnObject
  <2>1. DOMAIN value \subseteq Action /\ value \in [DOMAIN value -> BOOLEAN]
    BY <1>2, PipelineAssumption
  <2>2. \A a \in Action : (IF a \in DOMAIN value THEN value[a] ELSE rule[a]) \in BOOLEAN
    BY <2>1 DEF RuleConfig
  <2> QED BY <1>2, <2>2 DEF Merged, RuleConfig
<1> QED BY <1>1, <1>2

LEMMA SetRuleType == ASSUME TypeOK, NEW v \in RuleValue, SetRule(v) PROVE TypeOK'
<1>1. RulesTypes'
  BY MergedType DEF SetRule, TypeOK, RulesTypes
<1> QED BY <1>1, UnchangedTypes DEF SetRule, TypeOK

LEMMA RestartCount ==
    ASSUME TypeOK, NEW s \in Process, Restarted(s)
    PROVE  /\ FaultTypes'
           /\ restarts'[s] = restarts[s] + 1
           /\ \A q \in Process \ {s} : restarts'[q] = restarts[q]
BY DEF Restarted, TypeOK, FaultTypes

LEMMA LoseCallType == ASSUME TypeOK, NEW c \in calls, LoseCall(c) PROVE TypeOK'
<1>1. NetTypes'
  BY EmptyAnswerType DEF LoseCall, TypeOK
<1>2. FaultTypes'
  BY DEF LoseCall, Lose, TypeOK, FaultTypes
<1> QED BY <1>1, <1>2, UnchangedTypes DEF LoseCall, TypeOK

\* The answer that the caller of a lost one sees
LEMMA LostReplyType ==
    ASSUME NEW r \in Reply
    PROVE  [op |-> r.op, from |-> r.from, status |-> 500, body |-> NoItem] \in Reply
BY DEF Reply, Action

LEMMA LoseReplyType == ASSUME TypeOK, NEW r \in replies, LoseReply(r) PROVE TypeOK'
<1>1. NetTypes'
  BY LostReplyType DEF LoseReply, TypeOK, NetTypes
<1>2. FaultTypes'
  BY DEF LoseReply, Lose, TypeOK, FaultTypes
<1> QED BY <1>1, <1>2, UnchangedTypes DEF LoseReply, TypeOK

LEMMA RestartEventType == ASSUME TypeOK, RestartEvent PROVE TypeOK'
<1>1. FaultTypes'
  BY RestartCount DEF RestartEvent, Process
<1>2. EventTypes'
  <2>1. <<>> \in Seq(Item) /\ Len(<<>>) <= MAX_EVENTS
    BY PipelineAssumption
  <2> QED BY <2>1 DEF RestartEvent, TypeOK, EventTypes
<1>3. NetTypes'
  BY DEF RestartEvent, TypeOK, NetTypes
<1> QED BY <1>1, <1>2, <1>3, UnchangedTypes DEF RestartEvent, TypeOK

LEMMA RestartStorageType == ASSUME TypeOK, RestartStorage PROVE TypeOK'
<1>1. FaultTypes'
  BY RestartCount DEF RestartStorage, Process
<1>2. StoreTypes'
  BY DEF RestartStorage, StoreTypes
<1> QED BY <1>1, <1>2, UnchangedTypes DEF RestartStorage, TypeOK

LEMMA RestartQueueType == ASSUME TypeOK, RestartQueue PROVE TypeOK'
<1>1. FaultTypes'
  BY RestartCount DEF RestartQueue, Process
<1>2. QueueTypes'
  BY DEF RestartQueue, Q!Restart, TypeOK, QueueTypes, Q!QueuesTypeOK
<1> QED BY <1>1, <1>2, UnchangedTypes DEF RestartQueue, TypeOK

LEMMA RestartRulesType == ASSUME TypeOK, RestartRules PROVE TypeOK'
<1>1. FaultTypes'
  BY RestartCount DEF RestartRules, Process
<1>2. RulesTypes'
  BY DEF RestartRules, TypeOK, RulesTypes, IdlePoller, NoRule, RuleConfig
<1>3. NetTypes'
  BY DEF RestartRules, TypeOK, NetTypes
<1> QED BY <1>1, <1>2, <1>3, UnchangedTypes DEF RestartRules, TypeOK

LEMMA RestartSinksType == ASSUME TypeOK, RestartLogging \/ RestartAnalytics PROVE TypeOK'
<1>1. FaultTypes'
  BY RestartCount DEF RestartLogging, RestartAnalytics, Process
<1>2. SinkTypes'
  <2>1. <<>> \in Seq(Item) /\ Len(<<>>) <= MAX_LOGS
    BY PipelineAssumption
  <2> QED BY <2>1 DEF RestartLogging, RestartAnalytics, TypeOK, SinkTypes
<1> QED BY <1>1, <1>2, UnchangedTypes DEF RestartLogging, RestartAnalytics, TypeOK

-----------------------------------------------------------------------------
\* One call of the loop at a time

LEMMA Ops ==
    /\ RulesOp = {"dequeue"} \cup Action
    /\ {"store", "enqueue"} \cap RulesOp = {}
    /\ {"idle", "asked", "dequeue"} \cap Action = {}
    /\ \A op \in RulesOp : PhaseOf(op) \in {"asked"} \cup Action
    /\ PhaseOf("dequeue") = "asked"
    /\ \A op \in Action : PhaseOf(op) = op
BY DEF RulesOp, Action, PhaseOf

\* Steps that take calls or answers of the loop away
LEMMA FewerOut ==
    ASSUME OneCallOut, poller' = poller,
           CurrentCalls' \subseteq CurrentCalls, RulesReplies' \subseteq RulesReplies,
           \A c \in calls' : c.op \in RulesOp => c.from <= restarts'["rules"]
    PROVE  OneCallOut'
BY DEF OneCallOut

\* A callee answers: what was a call on the way is an answer on the way.
LEMMA RespondOut ==
    ASSUME NetTypes, OneCallOut, NEW c \in calls, NEW status, NEW body, Respond(c, status, body),
           poller' = poller, restarts'["rules"] = restarts["rules"]
    PROVE  OneCallOut'
<1> DEFINE a == [op |-> c.op, from |-> c.from, status |-> status, body |-> body]
<1>1. /\ calls' = calls \ {c} /\ a.op = c.op
      /\ replies' = replies \/ (Waiting(c) /\ replies' = replies \cup {a})
  BY DEF Respond
<1>2. /\ CurrentCalls' \subseteq CurrentCalls
      /\ \A d \in calls' : d.op \in RulesOp => d.from <= restarts'["rules"]
  BY <1>1 DEF CurrentCalls, OneCallOut
<1> HIDE DEF a
<1>3. CASE replies' = replies
  BY <1>2, <1>3, FewerOut DEF RulesReplies
<1>4. CASE c.op \notin RulesOp /\ replies' = replies \cup {a}
  <2>1. RulesReplies' \subseteq RulesReplies
    BY <1>1, <1>4 DEF RulesReplies
  <2> QED BY <1>2, <2>1, FewerOut
<1>5. CASE c.op \in RulesOp /\ Waiting(c) /\ replies' = replies \cup {a}
  <2>1. c \in CurrentCalls
    BY <1>5, Ops DEF CurrentCalls, Waiting
  <2>2. RulesReplies = {} /\ CurrentCalls' = {} /\ PhaseOf(c.op) = poller.phase
    BY <1>1, <2>1 DEF OneCallOut, CurrentCalls
  <2>3. RulesReplies' = {a}
    BY <1>1, <1>5, <2>2 DEF RulesReplies
  <2> QED BY <1>1, <1>2, <2>2, <2>3 DEF OneCallOut
<1> QED BY <1>1, <1>3, <1>4, <1>5

\* The loop goes on from an answer, with a new call or none.
LEMMA EnterPhaseOut ==
    ASSUME TypeOK, OneCallOut, NEW r \in RulesReplies, NEW phase \in {"idle"} \cup Action,
           NEW item, NEW cfg, phase \in Action => item \in Item,
           EnterPhase(r, phase, item, cfg), restarts' = restarts
    PROVE  OneCallOut'
<1>1. CurrentCalls = {} /\ RulesReplies = {r} /\ restarts["rules"] \in Nat
  BY DEF OneCallOut, TypeOK, FaultTypes, Process
<1>2. RulesReplies' = {}
  BY <1>1 DEF EnterPhase, Resume, RulesReplies
<1>3. CASE phase = "idle"
  <2>1. calls' = calls /\ poller' = IdlePoller
    BY <1>3 DEF EnterPhase, Resume
  <2>2. CurrentCalls' = {}
    BY <1>1, <2>1 DEF CurrentCalls
  <2> QED BY <1>2, <2>1, <2>2, Ops DEF OneCallOut, IdlePoller
<1>4. CASE phase # "idle"
  <2> DEFINE d == [op |-> phase, from |-> restarts["rules"], body |-> item]
  <2>1. /\ calls' = calls \cup {d} /\ poller' = [phase |-> phase, item |-> item, cfg |-> cfg]
        /\ d.op = phase /\ d.from = restarts["rules"] /\ phase \in Action /\ phase \in RulesOp
    BY <1>4, Ops DEF EnterPhase, Resume
  <2> HIDE DEF d
  <2>2. CurrentCalls' = {d}
    BY <1>1, <2>1 DEF CurrentCalls
  <2>3. \A c \in calls' : c.op \in RulesOp => c.from <= restarts'["rules"]
    BY <1>1, <2>1 DEF OneCallOut
  <2> QED BY <1>2, <2>1, <2>2, <2>3, Ops DEF OneCallOut
<1> QED BY <1>3, <1>4

\* Steps of event, storage and /set leave the loop's calls alone.
LEMMA EventOut ==
    ASSUME OneCallOut, poller' = poller, restarts'["rules"] = restarts["rules"],
           \A c \in calls' \ calls : c.op \notin RulesOp,
           \A r \in replies' \ replies : r.op \notin RulesOp
    PROVE  OneCallOut'
<1>1. CurrentCalls' \subseteq CurrentCalls /\ RulesReplies' \subseteq RulesReplies
  BY DEF CurrentCalls, RulesReplies
<1>2. \A c \in calls' : c.op \in RulesOp => c.from <= restarts'["rules"]
  BY DEF OneCallOut
<1> QED BY <1>1, <1>2, FewerOut

LEMMA NextOut == ASSUME TypeOK, OneCallOut, [Next]_vars PROVE OneCallOut'
<1>1. CASE UNCHANGED vars
  BY <1>1, EventOut DEF vars, netVars, rulesVars, faultVars
<1>2. ASSUME NEW p \in Publish, NEW r \in Request, Receive(p, r)
      PROVE  OneCallOut'
  BY <1>2, EventOut, Ops DEF Receive, rulesVars, faultVars
<1>3. ASSUME NEW r \in replies, EventStep(r)
      PROVE  OneCallOut'
  <2>1. CASE StoreAnswered(r)
    BY <2>1, EventOut, Ops DEF StoreAnswered, Resume, rulesVars, faultVars
  <2>2. CASE EnqueueAnswered(r)
    BY <2>2, EventOut, Ops DEF EnqueueAnswered, Resume, rulesVars, faultVars
  <2> QED BY <1>3, <2>1, <2>2 DEF EventStep
<1>4. ASSUME NEW r \in replies, PollerStep(r)
      PROVE  OneCallOut'
  <2>1. CASE DequeueAnswered(r)
    <3>1. r \in RulesReplies /\ restarts' = restarts /\ r.body \in Item \cup {NoItem}
      BY <2>1, Ops, ReplyFields DEF DequeueAnswered, RulesReplies, faultVars, TypeOK, NetTypes
    <3>2. CASE r.status = 200 /\ r.body # NoItem
      <4>1. EnterPhase(r, FirstAction(HISTORY_RULE), r.body, HISTORY_RULE)
        BY <2>1, <3>2 DEF DequeueAnswered
      <4>2. r.body \in Item /\ FirstAction(HISTORY_RULE) \in {"idle"} \cup Action
        BY <3>1, <3>2, PhaseRange
      <4> QED BY <3>1, <4>1, <4>2, EnterPhaseOut
    <3>3. CASE ~(r.status = 200 /\ r.body # NoItem)
      BY <2>1, <3>1, <3>3, Ops, EnterPhaseOut DEF DequeueAnswered
    <3> QED BY <3>2, <3>3
  <2>2. CASE ActionAnswered(r)
    <3>1. r \in RulesReplies /\ restarts' = restarts /\ r.op \in Action
      BY <2>2, Ops DEF ActionAnswered, RulesReplies, faultVars
    <3>2. poller.item \in Item
      BY <3>1, Ops DEF OneCallOut
    <3> QED BY <2>2, <3>1, <3>2, PhaseRange, EnterPhaseOut DEF ActionAnswered
  <2> QED BY <1>4, <2>1, <2>2 DEF PollerStep
<1>5. ASSUME NEW c \in calls, Serve(c)
      PROVE  OneCallOut'
  <2>1. poller' = poller /\ restarts' = restarts
    BY <1>5 DEF Serve, HandleStore, HandleEnqueue, HandleDequeue, HandleReplicate, HandleLog,
                HandleRecord, rulesVars, faultVars
  <2>2. PICK status, body : Respond(c, status, body)
    BY <1>5 DEF Serve, HandleStore, HandleEnqueue, HandleDequeue, HandleReplicate, HandleLog,
                HandleRecord
  <2> QED BY <2>1, <2>2, RespondOut DEF TypeOK
<1>6. CASE Tick
  <2> DEFINE d == [op |-> "dequeue", from |-> restarts["rules"], body |-> NoItem]
  <2>1. CurrentCalls = {} /\ RulesReplies = {} /\ restarts["rules"] \in Nat
    BY <1>6, Ops DEF Tick, OneCallOut, CurrentCalls, RulesReplies, TypeOK, FaultTypes, Process
  <2>2. /\ calls' = calls \cup {d} /\ replies' = replies /\ restarts' = restarts
        /\ d.op = "dequeue" /\ d.from = restarts["rules"] /\ poller'.phase = "asked"
    BY <1>6 DEF Tick, faultVars, IdlePoller
  <2> HIDE DEF d
  <2>3. CurrentCalls' = {d} /\ RulesReplies' = {}
    BY <2>1, <2>2, Ops DEF CurrentCalls, RulesReplies
  <2>4. \A c \in calls' : c.op \in RulesOp => c.from <= restarts'["rules"]
    BY <2>1, <2>2 DEF OneCallOut
  <2> QED BY <2>2, <2>3, <2>4, Ops DEF OneCallOut
<1>7. ASSUME NEW v \in RuleValue, SetRule(v)
      PROVE  OneCallOut'
  BY <1>7, EventOut DEF SetRule, netVars, faultVars
<1>8. CASE Fault
  <2>1. ASSUME NEW c \in calls, LoseCall(c)
        PROVE  OneCallOut'
    BY <2>1, RespondOut DEF LoseCall, Lose, rulesVars, TypeOK
  <2>2. ASSUME NEW r \in replies, LoseReply(r)
        PROVE  OneCallOut'
    <3> DEFINE a == [op |-> r.op, from |-> r.from, status |-> 500, body |-> NoItem]
    <3>1. /\ replies' = (replies \ {r}) \cup {a} /\ a.op = r.op
          /\ calls' = calls /\ restarts' = restarts /\ poller' = poller
      BY <2>2 DEF LoseReply, Lose, rulesVars
    <3> HIDE DEF a
    <3>2. CurrentCalls' = CurrentCalls
      BY <3>1 DEF CurrentCalls
    <3>3. CASE r.op \in RulesOp
      <4>1. RulesReplies' = {a} /\ CurrentCalls = {} /\ PhaseOf(r.op) = poller.phase
        BY <3>1, <3>3 DEF OneCallOut, RulesReplies
      <4> QED BY <3>1, <3>2, <4>1 DEF OneCallOut
    <3>4. CASE r.op \notin RulesOp
      BY <3>1, <3>4, EventOut
    <3> QED BY <3>3, <3>4
  <2>3. CASE RestartRules
    <3>1. restarts'["rules"] = restarts["rules"] + 1 /\ restarts["rules"] \in Nat
      BY <2>3, RestartCount DEF RestartRules, Process, TypeOK, FaultTypes
    <3>2. \A c \in calls : c.op \in RulesOp => c.from \in Nat
      BY CallFields, Ops DEF TypeOK, NetTypes
    <3>3. \A c \in calls' : c.op \in RulesOp =>
              c.from <= restarts'["rules"] /\ c.from # restarts'["rules"]
      BY <2>3, <3>1, <3>2 DEF RestartRules, OneCallOut
    <3>4. CurrentCalls' = {} /\ RulesReplies' = {} /\ poller' = IdlePoller
      BY <2>3, <3>3, Ops DEF RestartRules, CurrentCalls, RulesReplies
    <3> QED BY <3>3, <3>4, Ops DEF OneCallOut, IdlePoller
  <2>4. CASE RestartEvent \/ RestartStorage \/ RestartQueue \/ RestartLogging \/ RestartAnalytics
    <3>1. restarts'["rules"] = restarts["rules"]
      BY <2>4, RestartCount DEF RestartEvent, RestartStorage, RestartQueue, RestartLogging,
                                RestartAnalytics, Process
    <3>2. poller' = poller /\ calls' = calls /\ replies' \subseteq replies
      BY <2>4 DEF RestartEvent, RestartStorage, RestartQueue, RestartLogging,
                  RestartAnalytics, rulesVars, netVars
    <3> QED BY <3>1, <3>2, EventOut
  <2> QED BY <1>8, <2>1, <2>2, <2>3, <2>4 DEF Fault
<1> QED BY <1>1, <1>2, <1>3, <1>4, <1>5, <1>6, <1>7, <1>8 DEF Next

-----------------------------------------------------------------------------
\* Soundness

LEMMA EverywhereType == ASSUME TypeOK PROVE Everywhere \subseteq Item
<1>1. InCalls \subseteq Item
  BY CallFields DEF TypeOK, NetTypes, InCalls
<1>2. Queued \subseteq Item
  BY ItemsType DEF TypeOK, QueueTypes, Queued
<1>3. InHand \subseteq Item
  BY ReplyFields DEF TypeOK, NetTypes, InHand
<1>4. Evaluated \subseteq Item
  <2>1. \A i \in 1..Len(evaluated) : evaluated[i] \in Evaluation
    BY DEF TypeOK, RulesTypes
  <2> QED BY <2>1 DEF Evaluated, Evaluation
<1>5. Delivered \subseteq Item
  BY DEF TypeOK, SinkTypes, Delivered, Logged, Recorded, Replicated
<1>6. OnBus \subseteq Item
  BY DEF TypeOK, EventTypes, OnBus
<1> QED BY <1>1, <1>2, <1>3, <1>4, <1>5, <1>6 DEF Everywhere

\* A publication is received once; its request and its hash stay.
LEMMA EventStays ==
    ASSUME TypeOK, Sound, [Next]_vars
    PROVE  \A p \in Publish :
               /\ request[p] # NoItem => request'[p] = request[p]
               /\ stage'[p] = "new" => stage[p] = "new" /\ request'[p] = request[p]
<1>1. CASE UNCHANGED vars
  BY <1>1 DEF vars, eventVars
<1>2. ASSUME NEW p \in Publish, NEW r \in Request, Receive(p, r)
      PROVE  \A q \in Publish :
                 /\ request[q] # NoItem => request'[q] = request[q]
                 /\ stage'[q] = "new" => stage[q] = "new" /\ request'[q] = request[q]
  <2>1. request[p] = NoItem
    BY <1>2 DEF Receive, Sound
  <2>2. FirstAnswer(r) # "new"
    BY DEF FirstAnswer, Request, Form
  <2> QED BY <1>2, <2>1, <2>2 DEF Receive, TypeOK, EventTypes
<1>3. ASSUME NEW r \in replies, EventStep(r)
      PROVE  request' = request /\ \A q \in Publish : stage'[q] = "new" => stage[q] = "new"
  BY <1>3 DEF EventStep, StoreAnswered, EnqueueAnswered, TypeOK, EventTypes
<1>4. CASE \/ \E r \in replies : PollerStep(r)
           \/ \E c \in calls : Serve(c)
           \/ Tick
           \/ \E v \in RuleValue : SetRule(v)
  <2>1. UNCHANGED eventVars
    BY <1>4 DEF PollerStep, DequeueAnswered, ActionAnswered, Serve, HandleStore, HandleEnqueue,
                HandleDequeue, HandleReplicate, HandleLog, HandleRecord, Tick, SetRule
  <2> QED BY <2>1 DEF eventVars
<1>5. CASE Fault
  <2>1. request' = request /\ \A q \in Publish : stage'[q] = "new" => stage[q] = "new"
    BY <1>5 DEF Fault, LoseCall, LoseReply, RestartEvent, RestartStorage, RestartQueue,
                RestartRules, RestartLogging, RestartAnalytics, eventVars
  <2> QED BY <2>1
<1> QED BY <1>1, <1>2, <1>3, <1>4, <1>5 DEF Next

\* The CAS only grows while storage runs, and keeps objects under their hashes.
LEMMA StoreStays ==
    ASSUME TypeOK, Sound, [Next]_vars
    PROVE  /\ restarts'["storage"] = 0 =>
                  /\ restarts["storage"] = 0
                  /\ \A h \in DOMAIN STORE : h \in DOMAIN STORE' /\ STORE'[h] = STORE[h]
           /\ \A h \in DOMAIN STORE' : h = Sha256(STORE'[h])
<1>1. CASE STORE' = STORE /\ restarts'["storage"] = restarts["storage"]
  BY <1>1 DEF Sound
<1>2. ASSUME NEW c \in calls, HandleStore(c)
      PROVE  restarts' = restarts /\ (UNCHANGED STORE \/ StoreObject(Unwrapped(c.body)))
  BY <1>2 DEF HandleStore, faultVars
<1>3. ASSUME NEW x, StoreObject(x)
      PROVE  /\ \A h \in DOMAIN STORE : h \in DOMAIN STORE' /\ STORE'[h] = STORE[h]
             /\ \A h \in DOMAIN STORE' : h = Sha256(STORE'[h])
  <2>1. STORE' = [h \in DOMAIN STORE \cup {Sha256(x)} |-> IF h = Sha256(x) THEN x ELSE STORE[h]]
    BY <1>3 DEF StoreObject
  <2>2. \A h \in DOMAIN STORE : h = Sha256(x) => STORE[h] = x
    BY DEF Sound, Sha256
  <2>3. \A h \in DOMAIN STORE : h = Sha256(STORE[h])
    BY DEF Sound
  <2> QED BY <2>1, <2>2, <2>3
<1>4. CASE RestartStorage
  <2>1. restarts'["storage"] = restarts["storage"] + 1 /\ restarts["storage"] \in Nat
    BY <1>4, RestartCount DEF RestartStorage, Process, TypeOK, FaultTypes
  <2>2. restarts'["storage"] # 0 /\ DOMAIN STORE' = {}
    BY <1>4, <2>1 DEF RestartStorage
  <2> QED BY <2>2
<1>5. CASE UNCHANGED vars
  BY <1>1, <1>5 DEF vars, faultVars
<1>6. CASE \/ \E p \in Publish, r \in Request : Receive(p, r)
           \/ \E r \in replies : EventStep(r) \/ PollerStep(r)
           \/ \E c \in calls : HandleEnqueue(c) \/ HandleDequeue(c)
           \/ \E c \in calls : HandleReplicate(c) \/ HandleLog(c) \/ HandleRecord(c)
           \/ Tick
           \/ \E v \in RuleValue : SetRule(v)
  <2>1. STORE' = STORE /\ restarts' = restarts
    BY <1>6 DEF Receive, EventStep, StoreAnswered, EnqueueAnswered, PollerStep, DequeueAnswered,
                ActionAnswered, HandleEnqueue, HandleDequeue, HandleReplicate, HandleLog,
                HandleRecord, Tick, SetRule, faultVars
  <2> QED BY <1>1, <2>1
<1>7. CASE \/ \E c \in calls : LoseCall(c)
           \/ \E r \in replies : LoseReply(r)
           \/ RestartEvent \/ RestartQueue \/ RestartRules \/ RestartLogging \/ RestartAnalytics
  <2>1. STORE' = STORE
    BY <1>7 DEF LoseCall, LoseReply, RestartEvent, RestartQueue, RestartRules, RestartLogging,
                RestartAnalytics
  <2>2. restarts'["storage"] = restarts["storage"]
    BY <1>7, RestartCount DEF LoseCall, LoseReply, Lose, RestartEvent, RestartQueue, RestartRules,
                RestartLogging, RestartAnalytics, Process
  <2> QED BY <1>1, <2>1, <2>2
<1> QED BY <1>1, <1>2, <1>3, <1>4, <1>5, <1>6, <1>7 DEF Next, Serve, Fault

LEMMA FoundedStays ==
    ASSUME TypeOK, Sound, [Next]_vars, NEW p \in Publish, NEW h, NEW y, Founded(p, h, y)
    PROVE  Founded(p, h, y)'
<1>1. request'[p] = request[p] /\ request[p] # NoItem
  BY EventStays DEF Founded
<1>2. restarts'["storage"] = 0 => h \in DOMAIN STORE' /\ STORE'[h] = Unwrapped(y)
  BY StoreStays DEF Founded
<1> QED BY <1>1, <1>2 DEF Founded

\* What has to be shown of a step: what is new is sound.
LEMMA SoundStep ==
    ASSUME PInv, TypeOK', [Next]_vars,
           \A c \in calls' \ calls : c.op = "store" =>
               /\ request'[c.from] # NoItem
               /\ request'[c.from].form = "signed" /\ request'[c.from].payload = c.body,
           \A r \in replies' \ replies : r.op = "store" /\ r.status = 200 =>
               r.body \in Hash /\ \E y \in Payload : Founded(r.from, r.body, y)',
           \A c \in calls' \ calls : c.op = "enqueue" => hash_id'[c.from] # NoItem,
           \A r \in replies' \ replies : r.op = "enqueue" => hash_id[r.from] # NoItem,
           \A p \in Publish : hash_id'[p] # hash_id[p] =>
               \E h \in Hash, y \in Payload : hash_id'[p] = h /\ Founded(p, h, y)',
           poller'.phase \in Action /\ poller' # poller =>
               \E x \in Item : poller'.item = x /\ Traced(x)',
           \A x \in Everywhere' \ Everywhere : Traced(x)'
    PROVE  Sound'
<1>1. \A p \in Publish : \A h, y : Founded(p, h, y) => Founded(p, h, y)'
  BY FoundedStays DEF PInv
<1>2. \A p \in Publish : stage'[p] = "new" => request'[p] = NoItem
  BY EventStays DEF PInv, Sound
<1>3. \A h \in DOMAIN STORE' : h = Sha256(STORE'[h])
  BY StoreStays DEF PInv
<1>4. /\ \A c \in calls' : c.op \in {"store", "enqueue"} => c.from \in Publish
      /\ \A r \in replies' : r.op \in {"store", "enqueue"} => r.from \in Publish
  BY CallFields, ReplyFields DEF TypeOK, NetTypes
<1>5. ASSUME NEW c \in calls', c.op = "store"
      PROVE  /\ request'[c.from] # NoItem
             /\ request'[c.from].form = "signed" /\ request'[c.from].payload = c.body
  BY <1>4, <1>5, EventStays DEF PInv, Sound
<1>6. ASSUME NEW r \in replies', r.op = "store", r.status = 200
      PROVE  r.body \in Hash /\ \E y \in Payload : Founded(r.from, r.body, y)'
  BY <1>1, <1>4, <1>6 DEF PInv, Sound
<1>7. \A p \in Publish : hash_id[p] # NoItem => hash_id'[p] # NoItem
  BY NoItemAssumption
<1>8. ASSUME NEW c \in calls', c.op = "enqueue"
      PROVE  hash_id'[c.from] # NoItem
  BY <1>4, <1>7, <1>8 DEF PInv, Sound
<1>9. ASSUME NEW r \in replies', r.op = "enqueue"
      PROVE  hash_id'[r.from] # NoItem
  BY <1>4, <1>7, <1>9 DEF PInv, Sound
<1>10. ASSUME NEW p \in Publish, hash_id'[p] # NoItem
       PROVE  \E h \in Hash, y \in Payload : hash_id'[p] = h /\ Founded(p, h, y)'
  <2>1. CASE hash_id'[p] = hash_id[p]
    BY <1>1, <1>10, <2>1 DEF PInv, Sound
  <2>2. CASE hash_id'[p] # hash_id[p]
    BY <2>2
  <2> QED BY <2>1, <2>2
<1>11. \A x \in Item : Traced(x) => Traced(x)'
  BY <1>1, <1>7 DEF Item, Traced
<1>12. ASSUME poller'.phase \in Action
       PROVE  \E x \in Item : poller'.item = x /\ Traced(x)'
  <2>1. CASE poller' = poller
    <3>1. PICK x \in Item : poller.item = x /\ Traced(x)
      BY <1>12, <2>1 DEF PInv, Sound
    <3> QED BY <1>11, <2>1, <3>1
  <2>2. CASE poller' # poller
    BY <1>12, <2>2
  <2> QED BY <2>1, <2>2
<1>13. ASSUME NEW x \in Everywhere'
       PROVE  Traced(x)'
  <2>1. CASE x \in Everywhere
    <3>1. x \in Item /\ Traced(x)
      BY <2>1, EverywhereType DEF PInv, Sound
    <3> QED BY <1>11, <3>1
  <2>2. CASE x \notin Everywhere
    BY <2>2
  <2> QED BY <2>1, <2>2
<1> QED BY <1>2, <1>3, <1>5, <1>6, <1>8, <1>9, <1>10, <1>12, <1>13 DEF Sound

\* Where items are changes only with the variable that holds them.
LEMMA PlacesStay ==
    /\ UNCHANGED QUEUES => Queued' = Queued
    /\ UNCHANGED evaluated => Evaluated' = Evaluated
    /\ UNCHANGED logs => Logged' = Logged
    /\ UNCHANGED records => Recorded' = Recorded
    /\ UNCHANGED replicated => Replicated' = Replicated
    /\ UNCHANGED <<logs, records, replicated>> => Delivered' = Delivered
    /\ UNCHANGED EVENTS => OnBus' = OnBus
    /\ (\A c \in calls' \ calls : c.op \notin {"enqueue"} \cup Action) => InCalls' \subseteq InCalls
    /\ (\A r \in replies' \ replies : r.op # "dequeue" \/ r.body = NoItem)
           => InHand' \subseteq InHand
<1>1. UNCHANGED QUEUES => Queued' = Queued
  BY DEF Queued, Q!Items
<1>2. UNCHANGED evaluated => Evaluated' = Evaluated
  BY DEF Evaluated
<1>3. UNCHANGED logs => Logged' = Logged
  BY DEF Logged
<1>4. /\ UNCHANGED records => Recorded' = Recorded
      /\ UNCHANGED replicated => Replicated' = Replicated
  BY DEF Recorded, Replicated
<1>5. UNCHANGED EVENTS => OnBus' = OnBus
  BY DEF OnBus
<1>6. ASSUME \A c \in calls' \ calls : c.op \notin {"enqueue"} \cup Action
      PROVE  InCalls' \subseteq InCalls
  BY <1>6 DEF InCalls
<1>7. ASSUME \A r \in replies' \ replies : r.op # "dequeue" \/ r.body = NoItem
      PROVE  InHand' \subseteq InHand
  BY <1>7 DEF InHand
<1>8. UNCHANGED <<logs, records, replicated>> => Delivered' = Delivered
  BY <1>3, <1>4 DEF Delivered
<1> QED BY <1>1, <1>2, <1>3, <1>4, <1>5, <1>6, <1>7, <1>8

LEMMA ReceiveSound ==
    ASSUME PInv, TypeOK', [Next]_vars, NEW p \in Publish, NEW r \in Request, Receive(p, r)
    PROVE  Sound'
<1>1. Everywhere' \subseteq Everywhere
  <2>1. /\ UNCHANGED <<QUEUES, evaluated, logs, records, replicated, EVENTS, replies>>
        /\ \A c \in calls' \ calls : c.op \notin {"enqueue"} \cup Action
    BY DEF Receive, queueVars, rulesVars, sinkVars, Action
  <2> QED BY <2>1, PlacesStay DEF Everywhere
<1>2. request'[p] = r /\ r # NoItem
  BY NoItemAssumption DEF Receive, PInv, TypeOK, EventTypes
<1>3. ASSUME NEW c \in calls' \ calls
      PROVE  /\ c.op = "store" /\ request'[c.from] # NoItem
             /\ request'[c.from].form = "signed" /\ request'[c.from].payload = c.body
  <2>1. /\ FirstAnswer(r) = "storing"
        /\ c = [op |-> "store", from |-> p, body |-> r.payload]
    BY <1>3 DEF Receive
  <2>2. r.form = "signed"
    BY <2>1 DEF FirstAnswer, Request, Form
  <2> QED BY <1>2, <2>1, <2>2
<1>4. replies' = replies /\ hash_id' = hash_id /\ poller' = poller
  BY DEF Receive, rulesVars
<1> QED BY <1>1, <1>3, <1>4, SoundStep

LEMMA StoreAnsweredSound ==
    ASSUME PInv, TypeOK', [Next]_vars, NEW r, StoreAnswered(r)
    PROVE  Sound'
<1>1. /\ r \in replies /\ r.op = "store" /\ r.from \in Publish
      /\ poller' = poller /\ replies' \subseteq replies /\ request' = request
      /\ UNCHANGED <<QUEUES, evaluated, logs, records, replicated, EVENTS>>
  BY ReplyFields DEF StoreAnswered, Resume, PInv, TypeOK, NetTypes, rulesVars, queueVars, sinkVars
<1>2. /\ Queued' = Queued /\ Evaluated' = Evaluated /\ Delivered' = Delivered
      /\ OnBus' = OnBus /\ InHand' \subseteq InHand
  BY <1>1, PlacesStay
<1>3. CASE r.status = 200
  <2> DEFINE x == ItemOf(r.from, r.body)
  <2>1. PICK y \in Payload : r.body \in Hash /\ Founded(r.from, r.body, y)
    BY <1>1, <1>3 DEF PInv, Sound
  <2>2. Founded(r.from, r.body, y)'
    BY <1>1, <2>1, FoundedStays DEF PInv
  <2>3. /\ hash_id' = [hash_id EXCEPT ![r.from] = r.body]
        /\ calls' = calls \cup {[op |-> "enqueue", from |-> r.from, body |-> x]}
    BY <1>3 DEF StoreAnswered, Resume
  <2>4. x.by = r.from /\ x.hash_id = r.body /\ x.payload = y
    BY <2>1 DEF ItemOf, Founded
  <2> HIDE DEF x
  <2>5. InCalls' \subseteq InCalls \cup {x}
    BY <2>3 DEF InCalls
  <2>6. Everywhere' \subseteq Everywhere \cup {x}
    BY <1>2, <2>5 DEF Everywhere
  <2>7. hash_id'[r.from] = r.body /\ r.body # NoItem
    BY <1>1, <2>1, <2>3, NoItemAssumption DEF PInv, TypeOK, EventTypes
  <2>8. ASSUME NEW p \in Publish, hash_id'[p] # hash_id[p]
        PROVE  \E h \in Hash, z \in Payload : hash_id'[p] = h /\ Founded(p, h, z)'
    <3>1. p = r.from
      BY <2>3, <2>8 DEF PInv, TypeOK, EventTypes
    <3> QED BY <2>1, <2>2, <2>7, <3>1
  <2>9. \A c \in calls' \ calls : c.op = "enqueue" /\ c.from = r.from
    BY <2>3
  <2>10. \A z \in Everywhere' \ Everywhere : Traced(z)'
    BY <2>2, <2>4, <2>6, <2>7 DEF Traced
  <2> QED BY <1>1, <2>7, <2>8, <2>9, <2>10, SoundStep
<1>4. CASE r.status # 200
  <2>1. calls' = calls /\ hash_id' = hash_id
    BY <1>4 DEF StoreAnswered, Resume
  <2>2. Everywhere' \subseteq Everywhere
    BY <1>2, <2>1, PlacesStay DEF Everywhere
  <2> QED BY <1>1, <2>1, <2>2, SoundStep
<1> QED BY <1>3, <1>4

LEMMA EnqueueAnsweredSound ==
    ASSUME PInv, TypeOK', [Next]_vars, NEW r, EnqueueAnswered(r)
    PROVE  Sound'
<1>1. /\ r \in replies /\ r.op = "enqueue" /\ r.from \in Publish
      /\ poller' = poller /\ replies' \subseteq replies /\ calls' = calls /\ hash_id' = hash_id
      /\ UNCHANGED <<QUEUES, evaluated, logs, records, replicated>>
  BY ReplyFields
     DEF EnqueueAnswered, Resume, PInv, TypeOK, NetTypes, rulesVars, queueVars, sinkVars
<1>2. PICK h \in Hash, y \in Payload : hash_id[r.from] = h /\ Founded(r.from, h, y)
  BY <1>1 DEF PInv, Sound
<1>3. Founded(r.from, h, y)'
  BY <1>1, <1>2, FoundedStays DEF PInv
<1> DEFINE x == ItemOf(r.from, h)
<1>4. x.by = r.from /\ x.hash_id = h /\ x.payload = y
  BY <1>2 DEF ItemOf, Founded
<1>5. x \in Item
  BY <1>1, <1>2, ItemOfType DEF PInv, TypeOK, Founded
<1>6. EVENTS' = PushBounded(EVENTS, x, MAX_EVENTS) /\ EVENTS \in Seq(Item)
  BY <1>2 DEF EnqueueAnswered, publishEvent, PInv, TypeOK, EventTypes
<1> HIDE DEF x
<1>7. OnBus' \subseteq OnBus \cup {x}
  <2>1. \A i \in 1..Len(EVENTS') : EVENTS'[i] = x \/ \E j \in 1..Len(EVENTS) : EVENTS'[i] = EVENTS[j]
    BY <1>5, <1>6, PushBoundedMembers
  <2> QED BY <2>1 DEF OnBus
<1>8. Everywhere' \subseteq Everywhere \cup {x}
  BY <1>1, <1>7, PlacesStay DEF Everywhere
<1>9. \A z \in Everywhere' \ Everywhere : Traced(z)'
  BY <1>1, <1>2, <1>3, <1>4, <1>8, NoItemAssumption DEF Traced
<1> QED BY <1>1, <1>9, SoundStep

LEMMA RespondNew ==
    ASSUME NEW c, NEW status, NEW body, Respond(c, status, body)
    PROVE  /\ calls' \subseteq calls
           /\ \A r \in replies' \ replies :
                  r.op = c.op /\ r.from = c.from /\ r.status = status /\ r.body = body
BY DEF Respond

LEMMA HandleStoreSound ==
    ASSUME PInv, TypeOK', [Next]_vars, NEW c, HandleStore(c)
    PROVE  Sound'
<1>1. /\ c \in calls /\ c.op = "store" /\ c.from \in Publish /\ c.body \in Payload
      /\ poller' = poller /\ hash_id' = hash_id /\ request' = request
      /\ UNCHANGED <<QUEUES, evaluated, logs, records, replicated, EVENTS>>
  BY CallFields
     DEF HandleStore, PInv, TypeOK, NetTypes, rulesVars, queueVars, sinkVars, eventVars
<1>2. PICK status, body :
          /\ Respond(c, status, body)
          /\ status = 200 => /\ body = Sha256(Unwrapped(c.body))
                             /\ body \in DOMAIN STORE' /\ STORE'[body] = Unwrapped(c.body)
  BY DEF HandleStore, StoreObject
<1>3. /\ calls' \subseteq calls
      /\ \A r \in replies' \ replies :
             r.op = "store" /\ r.from = c.from /\ r.status = status /\ r.body = body
  BY <1>1, <1>2, RespondNew
<1>4. Everywhere' \subseteq Everywhere
  BY <1>1, <1>3, PlacesStay DEF Everywhere
<1>5. status = 200 => body \in Hash /\ Founded(c.from, body, c.body)'
  BY <1>1, <1>2, UnwrappedType DEF PInv, Sound, Founded, Hash
<1> QED BY <1>1, <1>3, <1>4, <1>5, SoundStep

LEMMA HandleEnqueueSound ==
    ASSUME PInv, TypeOK', [Next]_vars, NEW c, HandleEnqueue(c)
    PROVE  Sound'
<1>1. /\ c \in calls /\ c.op = "enqueue" /\ c.body \in Item /\ Respond(c, 200, NoItem)
      /\ poller' = poller /\ hash_id' = hash_id
      /\ UNCHANGED <<evaluated, logs, records, replicated, EVENTS>>
  BY CallFields DEF HandleEnqueue, PInv, TypeOK, NetTypes, rulesVars, sinkVars, eventVars
<1>2. /\ calls' \subseteq calls
      /\ \A r \in replies' \ replies : r.op = "enqueue" /\ r.from = c.from /\ r.body = NoItem
  BY <1>1, RespondNew
<1>3. Queued' \subseteq Queued \cup InCalls
  <2>1. Queued' \subseteq Queued \cup {c.body}
    BY <1>1, EnqueueItems DEF HandleEnqueue, PInv, TypeOK, QueueTypes
  <2>2. c.body \in InCalls
    BY <1>1 DEF InCalls
  <2> QED BY <2>1, <2>2
<1>4. Everywhere' \subseteq Everywhere
  BY <1>1, <1>2, <1>3, PlacesStay DEF Everywhere
<1>5. hash_id[c.from] # NoItem
  BY <1>1 DEF PInv, Sound
<1> QED BY <1>1, <1>2, <1>4, <1>5, SoundStep

LEMMA HandleDequeueSound ==
    ASSUME PInv, TypeOK', [Next]_vars, NEW c, HandleDequeue(c)
    PROVE  Sound'
<1> DEFINE x == Q!DequeueResult("history")
<1>1. /\ c \in calls /\ c.op = "dequeue" /\ Respond(c, 200, x)
      /\ poller' = poller /\ hash_id' = hash_id
      /\ UNCHANGED <<evaluated, logs, records, replicated, EVENTS>>
  BY DEF HandleDequeue, rulesVars, sinkVars, eventVars
<1>2. Queued' \subseteq Queued /\ x \in Queued \cup {NoItem}
  BY DequeueItems DEF HandleDequeue, PInv, TypeOK, QueueTypes
<1> HIDE DEF x
<1>3. /\ calls' \subseteq calls
      /\ \A r \in replies' \ replies : r.op = "dequeue" /\ r.body = x
  BY <1>1, RespondNew
<1>4. InHand' \subseteq InHand \cup Queued
  BY <1>2, <1>3 DEF InHand
<1>5. Everywhere' \subseteq Everywhere
  BY <1>1, <1>2, <1>3, <1>4, PlacesStay DEF Everywhere
<1> QED BY <1>1, <1>3, <1>5, SoundStep

LEMMA SinksSound ==
    ASSUME PInv, TypeOK', [Next]_vars, NEW c, HandleReplicate(c) \/ HandleLog(c) \/ HandleRecord(c)
    PROVE  Sound'
<1>1. /\ c \in calls /\ c.op \in Action /\ c.body \in Item /\ Respond(c, 200, NoItem)
      /\ poller' = poller /\ hash_id' = hash_id /\ UNCHANGED <<QUEUES, evaluated, EVENTS>>
  BY CallFields DEF HandleReplicate, HandleLog, HandleRecord, PInv, TypeOK, NetTypes, Action,
                    rulesVars, queueVars, eventVars
<1>2. /\ calls' \subseteq calls
      /\ \A r \in replies' \ replies : r.op \in Action /\ r.body = NoItem
  BY <1>1, RespondNew
<1>3. c.body \in InCalls
  BY <1>1 DEF InCalls
<1>4. Logged' \subseteq Logged \cup {c.body}
  <2>1. logs' = logs \/ logs' = PushBounded(logs, c.body, MAX_LOGS)
    BY DEF HandleReplicate, HandleLog, HandleRecord, addLog, sinkVars
  <2>2. CASE logs' = PushBounded(logs, c.body, MAX_LOGS)
    <3>1. \A i \in 1..Len(logs') : logs'[i] = c.body \/ \E j \in 1..Len(logs) : logs'[i] = logs[j]
      BY <1>1, <2>2, PushBoundedMembers DEF PInv, TypeOK, SinkTypes
    <3> QED BY <3>1 DEF Logged
  <2> QED BY <2>1, <2>2, PlacesStay
<1>5. Recorded' \subseteq Recorded \cup {c.body}
  <2>1. records' = records \/ records' = Append(records, c.body)
    BY DEF HandleReplicate, HandleLog, HandleRecord, sinkVars
  <2>2. CASE records' = Append(records, c.body)
    BY <1>1, <2>2 DEF Recorded, PInv, TypeOK, SinkTypes
  <2> QED BY <2>1, <2>2, PlacesStay
<1>6. Replicated' \subseteq Replicated \cup {c.body}
  <2>1. replicated' = replicated \/ replicated' = Append(replicated, c.body)
    BY DEF HandleReplicate, HandleLog, HandleRecord, sinkVars
  <2>2. CASE replicated' = Append(replicated, c.body)
    <3>1. replicated \in Seq(Item)
      BY DEF PInv, TypeOK, SinkTypes
    <3> QED BY <1>1, <2>2, <3>1 DEF Replicated
  <2> QED BY <2>1, <2>2, PlacesStay
<1>7. Delivered' \subseteq Delivered \cup {c.body}
  BY <1>4, <1>5, <1>6 DEF Delivered
<1>8. Everywhere' \subseteq Everywhere
  BY <1>1, <1>2, <1>3, <1>7, PlacesStay, Ops DEF Everywhere
<1>9. \A r \in replies' \ replies : r.op \notin {"store", "enqueue"}
  BY <1>2 DEF Action
<1> QED BY <1>1, <1>2, <1>8, <1>9, SoundStep

LEMMA TickSound == ASSUME PInv, TypeOK', [Next]_vars, Tick PROVE Sound'
<1>1. /\ poller'.phase = "asked" /\ replies' = replies /\ hash_id' = hash_id
      /\ \A c \in calls' \ calls : c.op = "dequeue"
      /\ UNCHANGED <<QUEUES, evaluated, logs, records, replicated, EVENTS>>
  BY DEF Tick, IdlePoller, queueVars, sinkVars, eventVars
<1>2. Everywhere' \subseteq Everywhere
  BY <1>1, Ops, PlacesStay DEF Everywhere
<1> QED BY <1>1, <1>2, Ops, SoundStep

\* What the loop goes on with, the next call included, is sound if the item is.
LEMMA EnterPhaseSound ==
    ASSUME PInv, TypeOK', [Next]_vars, NEW r \in replies, NEW phase \in {"idle"} \cup Action,
           NEW item, NEW cfg, EnterPhase(r, phase, item, cfg),
           phase \in Action => item \in Item /\ Traced(item),
           UNCHANGED <<hash_id, QUEUES, logs, records, replicated, EVENTS>>,
           Evaluated' \subseteq Everywhere
    PROVE  Sound'
<1>1. replies' \subseteq replies
  BY DEF EnterPhase, Resume
<1>2. InHand' \subseteq InHand
  BY <1>1, PlacesStay
<1>3. CASE phase = "idle"
  <2>1. poller'.phase = "idle" /\ calls' = calls
    BY <1>3 DEF EnterPhase, Resume, IdlePoller
  <2>2. Everywhere' \subseteq Everywhere
    BY <1>2, <2>1, PlacesStay DEF Everywhere
  <2> QED BY <1>1, <2>1, <2>2, Ops, SoundStep
<1>4. CASE phase # "idle"
  <2>1. /\ poller' = [phase |-> phase, item |-> item, cfg |-> cfg]
        /\ calls' = calls \cup {[op |-> phase, from |-> restarts["rules"], body |-> item]}
    BY <1>4 DEF EnterPhase, Resume
  <2>2. item \in Item /\ item.by \in Publish /\ phase \in Action
    BY <1>4 DEF Item
  <2>3. Traced(item)'
    <3>1. Traced(item)
      BY <2>2
    <3>2. Founded(item.by, item.hash_id, item.payload)'
      BY <2>2, <3>1, FoundedStays DEF PInv, Traced
    <3> QED BY <3>1, <3>2 DEF Traced
  <2>4. InCalls' \subseteq InCalls \cup {item}
    BY <2>1 DEF InCalls
  <2>5. Everywhere' \subseteq Everywhere \cup {item}
    BY <1>2, <2>4, PlacesStay DEF Everywhere
  <2>6. \A x \in Everywhere' \ Everywhere : Traced(x)'
    BY <2>3, <2>5
  <2>7. \A c \in calls' \ calls : c.op \notin {"store", "enqueue"}
    BY <2>1, <2>2 DEF Action
  <2>8. poller'.item = item
    BY <2>1
  <2>9. \E x \in Item : poller'.item = x /\ Traced(x)'
    BY <2>2, <2>3, <2>8
  <2> QED BY <1>1, <2>6, <2>7, <2>9, SoundStep
<1> QED BY <1>3, <1>4

LEMMA DequeueAnsweredSound ==
    ASSUME PInv, TypeOK', [Next]_vars, NEW r, DequeueAnswered(r)
    PROVE  Sound'
<1>1. /\ r \in replies /\ r.op = "dequeue" /\ r.body \in Item \cup {NoItem}
      /\ UNCHANGED <<hash_id, QUEUES, logs, records, replicated, EVENTS>>
  BY ReplyFields DEF DequeueAnswered, PInv, TypeOK, NetTypes, queueVars, sinkVars, eventVars
<1>2. CASE r.status = 200 /\ r.body # NoItem
  <2>1. r.body \in InHand /\ r.body \in Item
    BY <1>1, <1>2 DEF InHand
  <2>2. Traced(r.body)
    BY <2>1 DEF PInv, Sound, Everywhere
  <2>3. Evaluated' \subseteq Evaluated \cup {r.body}
    <3> DEFINE e == [item |-> r.body, cfg |-> HISTORY_RULE]
    <3>1. e.item = r.body /\ e \in Evaluation /\ evaluated \in Seq(Evaluation)
      BY <2>1 DEF Evaluation, PInv, TypeOK, RulesTypes
    <3>2. evaluated' = Append(evaluated, e)
      BY <1>2 DEF DequeueAnswered
    <3> HIDE DEF e
    <3>3. \A i \in 1..Len(evaluated') : evaluated'[i] = e \/ \E j \in 1..Len(evaluated) : evaluated'[i] = evaluated[j]
      BY <3>1, <3>2
    <3> QED BY <3>1, <3>3 DEF Evaluated
  <2>4. Evaluated' \subseteq Everywhere
    BY <2>1, <2>3 DEF Everywhere
  <2>5. EnterPhase(r, FirstAction(HISTORY_RULE), r.body, HISTORY_RULE)
    BY <1>2 DEF DequeueAnswered
  <2>6. FirstAction(HISTORY_RULE) \in {"idle"} \cup Action
    BY PhaseRange
  <2> QED BY <1>1, <2>1, <2>2, <2>4, <2>5, <2>6, EnterPhaseSound
<1>3. CASE ~(r.status = 200 /\ r.body # NoItem)
  <2>1. EnterPhase(r, "idle", NoItem, NoRule) /\ evaluated' = evaluated
    BY <1>3 DEF DequeueAnswered
  <2>2. Evaluated' \subseteq Everywhere
    BY <2>1, PlacesStay DEF Everywhere
  <2> QED BY <1>1, <2>1, <2>2, Ops, EnterPhaseSound
<1> QED BY <1>2, <1>3

LEMMA ActionAnsweredSound ==
    ASSUME PInv, TypeOK', [Next]_vars, NEW r, ActionAnswered(r)
    PROVE  Sound'
<1>1. /\ r \in replies /\ r.op \in Action
      /\ EnterPhase(r, NextAction(r.op, poller.cfg), poller.item, poller.cfg)
      /\ UNCHANGED <<evaluated, hash_id, QUEUES, logs, records, replicated, EVENTS>>
  BY DEF ActionAnswered, queueVars, sinkVars, eventVars
<1>2. poller.phase \in Action
  BY <1>1, Ops DEF PInv, OneCallOut, RulesReplies
<1>3. poller.item \in Item /\ Traced(poller.item)
  BY <1>2 DEF PInv, Sound
<1>4. NextAction(r.op, poller.cfg) \in {"idle"} \cup Action
  BY <1>1, PhaseRange
<1>5. Evaluated' \subseteq Everywhere
  BY <1>1, PlacesStay DEF Everywhere
<1> QED BY <1>1, <1>3, <1>4, <1>5, EnterPhaseSound

LEMMA SetRuleSound ==
    ASSUME PInv, TypeOK', [Next]_vars, NEW v \in RuleValue, SetRule(v)
    PROVE  Sound'
<1>1. UNCHANGED <<poller, replies, calls, hash_id, QUEUES, evaluated, logs, records, replicated,
                  EVENTS>>
  BY DEF SetRule, queueVars, sinkVars, eventVars, netVars
<1>2. Everywhere' \subseteq Everywhere
  BY <1>1, PlacesStay DEF Everywhere
<1> QED BY <1>1, <1>2, SoundStep

LEMMA FaultSound == ASSUME PInv, TypeOK', [Next]_vars, Fault PROVE Sound'
<1>1. ASSUME NEW c \in calls, LoseCall(c)
      PROVE  Sound'
  <2>1. /\ Respond(c, 500, NoItem) /\ poller' = poller /\ hash_id' = hash_id
        /\ UNCHANGED <<QUEUES, evaluated, logs, records, replicated, EVENTS>>
    BY <1>1 DEF LoseCall, queueVars, sinkVars, eventVars, rulesVars
  <2>2. /\ calls' \subseteq calls
        /\ \A r \in replies' \ replies :
               r.op = c.op /\ r.from = c.from /\ r.status = 500 /\ r.body = NoItem
    BY <2>1, RespondNew
  <2>3. Everywhere' \subseteq Everywhere
    BY <2>1, <2>2, PlacesStay DEF Everywhere
  <2>4. c.op = "enqueue" => hash_id[c.from] # NoItem
    BY DEF PInv, Sound
  <2> QED BY <2>1, <2>2, <2>3, <2>4, SoundStep
<1>2. ASSUME NEW r \in replies, LoseReply(r)
      PROVE  Sound'
  <2>1. /\ calls' = calls /\ poller' = poller /\ hash_id' = hash_id
        /\ UNCHANGED <<QUEUES, evaluated, logs, records, replicated, EVENTS>>
        /\ \A s \in replies' \ replies :
               s.op = r.op /\ s.from = r.from /\ s.status = 500 /\ s.body = NoItem
    BY <1>2 DEF LoseReply, queueVars, sinkVars, eventVars, rulesVars
  <2>2. Everywhere' \subseteq Everywhere
    BY <2>1, PlacesStay DEF Everywhere
  <2>3. r.op = "enqueue" => hash_id[r.from] # NoItem
    BY DEF PInv, Sound
  <2> QED BY <2>1, <2>2, <2>3, SoundStep
<1>3. CASE RestartEvent \/ RestartStorage \/ RestartQueue \/ RestartRules \/ RestartLogging
             \/ RestartAnalytics
  <2>1. /\ calls' = calls /\ replies' \subseteq replies /\ hash_id' = hash_id
        /\ evaluated' = evaluated /\ poller' \in {poller, IdlePoller}
    BY <1>3 DEF RestartEvent, RestartStorage, RestartQueue, RestartRules, RestartLogging,
                RestartAnalytics, eventVars, rulesVars, netVars
  <2>2. /\ QUEUES' = QUEUES \/ QUEUES' = [q \in {} |-> <<>>]
        /\ logs' = logs \/ logs' = <<>>
        /\ records' = records \/ records' = <<>>
        /\ replicated' = replicated
        /\ EVENTS' = EVENTS \/ EVENTS' = <<>>
    BY <1>3 DEF RestartEvent, RestartStorage, RestartQueue, RestartRules, RestartLogging,
                RestartAnalytics, Q!Restart, eventVars, queueVars, sinkVars
  <2>3. Queued' \subseteq Queued
    BY <2>2 DEF Queued, Q!Items
  <2>4. Logged' \subseteq Logged /\ Recorded' \subseteq Recorded
    BY <2>2 DEF Logged, Recorded
  <2>5. Delivered' \subseteq Delivered
    BY <2>2, <2>4, PlacesStay DEF Delivered
  <2>6. OnBus' \subseteq OnBus
    BY <2>2 DEF OnBus
  <2>7. Everywhere' \subseteq Everywhere
    BY <2>1, <2>3, <2>5, <2>6, PlacesStay DEF Everywhere
  <2>8. poller' = poller \/ poller'.phase = "idle"
    BY <2>1 DEF IdlePoller
  <2> QED BY <2>1, <2>7, <2>8, Ops, SoundStep
<1> QED BY <1>1, <1>2, <1>3 DEF Fault

-----------------------------------------------------------------------------
\* The invariant

LEMMA InitPInv == Init => PInv
<1> SUFFICES ASSUME Init PROVE PInv
  OBVIOUS
<1>1. TypeOK
  <2>1. <<>> \in Seq(Item) /\ <<>> \in Seq(Evaluation) /\ Len(<<>>) = 0
    OBVIOUS
  <2>2. EventTypes
    BY <2>1, PipelineAssumption DEF Init, EventTypes
  <2>3. StoreTypes /\ QueueTypes
    BY <2>1 DEF Init, StoreTypes, QueueTypes, Q!QueuesTypeOK
  <2>4. RulesTypes
    BY <2>1 DEF Init, RulesTypes, IdlePoller, NoRule, RuleConfig
  <2>5. SinkTypes
    BY <2>1, PipelineAssumption DEF Init, SinkTypes
  <2>6. NetTypes /\ FaultTypes
    BY DEF Init, NetTypes, FaultTypes
  <2> QED BY <2>2, <2>3, <2>4, <2>5, <2>6 DEF TypeOK
<1>2. OneCallOut
  BY Ops DEF Init, OneCallOut, CurrentCalls, RulesReplies, IdlePoller
<1>3. Everywhere = {}
  BY DEF Init, Everywhere, InCalls, Queued, Q!Items, InHand, Evaluated, Delivered, Logged, Recorded,
         Replicated, OnBus
<1>4. Sound
  BY <1>3, Ops DEF Init, Sound, IdlePoller
<1> QED BY <1>1, <1>2, <1>4 DEF PInv

LEMMA NextType == ASSUME PInv, [Next]_vars PROVE TypeOK'
<1>1. CASE UNCHANGED vars
  BY <1>1, UnchangedTypes DEF vars, PInv, TypeOK, netVars
<1>2. ASSUME NEW p \in Publish, NEW r \in Request, Receive(p, r)
      PROVE  TypeOK'
  BY <1>2, ReceiveType DEF PInv
<1>3. ASSUME NEW r \in replies, EventStep(r)
      PROVE  TypeOK'
  <2>1. CASE StoreAnswered(r)
    <3>1. r.op = "store" /\ r.status = 200 => r.body \in Hash /\ request[r.from] # NoItem
      BY DEF PInv, Sound, Founded
    <3> QED BY <2>1, <3>1, StoreAnsweredType DEF PInv, StoreAnswered
  <2>2. CASE EnqueueAnswered(r)
    <3>1. r.op = "enqueue" /\ r.from \in Publish
      BY <2>2, ReplyFields DEF EnqueueAnswered, PInv, TypeOK, NetTypes
    <3>2. hash_id[r.from] # NoItem
      BY <3>1 DEF PInv, Sound
    <3>3. request[r.from] # NoItem
      BY <3>1, <3>2 DEF PInv, Sound, Founded
    <3> QED BY <2>2, <3>2, <3>3, EnqueueAnsweredType DEF PInv
  <2> QED BY <1>3, <2>1, <2>2 DEF EventStep
<1>4. ASSUME NEW r \in replies, PollerStep(r)
      PROVE  TypeOK'
  <2>1. CASE DequeueAnswered(r)
    BY <2>1, DequeueAnsweredType DEF PInv
  <2>2. CASE ActionAnswered(r)
    <3>1. r \in RulesReplies /\ r.op \in Action
      BY <2>2, Ops DEF ActionAnswered, RulesReplies
    <3>2. poller.item \in Item
      BY <3>1, Ops DEF PInv, OneCallOut
    <3> QED BY <2>2, <3>2, ActionAnsweredType DEF PInv
  <2> QED BY <1>4, <2>1, <2>2 DEF PollerStep
<1>5. ASSUME NEW c \in calls, Serve(c)
      PROVE  TypeOK'
  BY <1>5, HandleStoreType, HandleEnqueueType, HandleDequeueType, SinksType DEF PInv, Serve
<1>6. CASE Tick
  BY <1>6, TickType DEF PInv
<1>7. ASSUME NEW v \in RuleValue, SetRule(v)
      PROVE  TypeOK'
  BY <1>7, SetRuleType DEF PInv
<1>8. CASE Fault
  BY <1>8, LoseCallType, LoseReplyType, RestartEventType, RestartStorageType, RestartQueueType,
     RestartRulesType, RestartSinksType DEF PInv, Fault
<1> QED BY <1>1, <1>2, <1>3, <1>4, <1>5, <1>6, <1>7, <1>8 DEF Next

LEMMA NextSound == ASSUME PInv, TypeOK', [Next]_vars PROVE Sound'
<1>1. CASE UNCHANGED vars
  <2>1. UNCHANGED <<QUEUES, evaluated, logs, records, replicated, EVENTS, calls, replies, poller,
                    hash_id>>
    BY <1>1 DEF vars, eventVars, queueVars, rulesVars, sinkVars, netVars
  <2>2. Everywhere' \subseteq Everywhere
    BY <2>1, PlacesStay DEF Everywhere
  <2> QED BY <2>1, <2>2, SoundStep
<1>2. ASSUME NEW p \in Publish, NEW r \in Request, Receive(p, r)
      PROVE  Sound'
  BY <1>2, ReceiveSound
<1>3. ASSUME NEW r \in replies, EventStep(r) \/ PollerStep(r)
      PROVE  Sound'
  BY <1>3, StoreAnsweredSound, EnqueueAnsweredSound, DequeueAnsweredSound, ActionAnsweredSound
     DEF EventStep, PollerStep
<1>4. ASSUME NEW c \in calls, Serve(c)
      PROVE  Sound'
  BY <1>4, HandleStoreSound, HandleEnqueueSound, HandleDequeueSound, SinksSound DEF Serve
<1>5. CASE Tick
  BY <1>5, TickSound
<1>6. ASSUME NEW v \in RuleValue, SetRule(v)
      PROVE  Sound'
  BY <1>6, SetRuleSound
<1>7. CASE Fault
  BY <1>7, FaultSound
<1> QED BY <1>1, <1>2, <1>3, <1>4, <1>5, <1>6, <1>7 DEF Next

LEMMA PInvAlways == Spec => []PInv
<1>1. PInv /\ [Next]_vars => PInv'
  BY NextType, NextOut, NextSound DEF PInv
<1> QED BY <1>1, InitPInv, PTL DEF Spec

\* The variables keep their types, whatever fails.
THEOREM TypeCorrect == Spec => []TypeOK
<1>1. PInv => TypeOK
  BY DEF PInv
<1> QED BY <1>1, PInvAlways, PTL

\* The rules process never waits for more than one call, however often it and
\* its callees restart and whatever is left over from earlier processes
\* (services/rules/server.js:95-115 awaits every call it makes).
THEOREM LoopIsSequential == Spec => []OneCallOut
<1>1. PInv => OneCallOut
  BY DEF PInv
<1> QED BY <1>1, PInvAlways, PTL

\* No item anywhere without a signed publication, nor, until storage restarts,
\* without its object in the CAS (services/event/server.js:136-166).
THEOREM NothingDangles == Spec => []NoDanglingHash
<1>1. PInv => NoDanglingHash
  BY DEF PInv, Sound, Traced, NoDanglingHash
<1> QED BY <1>1, PInvAlways, PTL

-----------------------------------------------------------------------------
\* What clients are told

PubOps == {"store", "enqueue"}
StageOf(op) == IF op = "store" THEN "storing" ELSE "enqueuing"

CallsOf(p) == {c \in calls : c.op \in PubOps /\ c.from = p}
RepliesOf(p) == {r \in replies : r.op \in PubOps /\ r.from = p}

\* A handler of /publish waits for exactly what its stage says.
PlaceOf(p) ==
    /\ \A c \in CallsOf(p) : stage[p] \in {StageOf(c.op), "gone"}
    /\ \A r \in RepliesOf(p) : stage[p] = StageOf(r.op)
    /\ \A c, d \in CallsOf(p) : c = d
    /\ \A r, s \in RepliesOf(p) : r = s
    /\ CallsOf(p) = {} \/ RepliesOf(p) = {}

\* It has a hash from the answer of storage on.
HashOf(p) ==
    /\ stage[p] \in {"new", "storing", "400", "403", "500"} => hash_id[p] = NoItem
    /\ stage[p] \in {"enqueuing", "200"} => hash_id[p] # NoItem

AnswersInv ==
    /\ \A p \in Publish : PlaceOf(p) /\ HashOf(p)
    /\ \A x \in Accepted : x \in Item /\ hash_id[x.by] # NoItem

LEMMA PubOpsApart == PubOps \cap RulesOp = {} /\ PubOps \cap Action = {}
BY DEF PubOps, RulesOp, Action

\* Calls and answers of one handler that become fewer
LEMMA FewerOf ==
    ASSUME NEW p, PlaceOf(p), CallsOf(p)' \subseteq CallsOf(p), RepliesOf(p)' \subseteq RepliesOf(p),
           stage'[p] = stage[p] \/ (stage'[p] = "gone" /\ RepliesOf(p)' = {})
    PROVE  PlaceOf(p)'
BY DEF PlaceOf

\* A callee answers, or its call fails.
LEMMA RespondOf ==
    ASSUME NEW c \in calls, NEW status, NEW body, Respond(c, status, body), stage' = stage,
           NEW p, PlaceOf(p)
    PROVE  PlaceOf(p)'
<1> DEFINE a == [op |-> c.op, from |-> c.from, status |-> status, body |-> body]
<1>1. /\ calls' = calls \ {c} /\ a.op = c.op /\ a.from = c.from
      /\ replies' = replies \/ (Waiting(c) /\ replies' = replies \cup {a})
  BY DEF Respond
<1> HIDE DEF a
<1>2. CallsOf(p)' \subseteq CallsOf(p)
  BY <1>1 DEF CallsOf
<1>3. CASE c \in CallsOf(p) /\ Waiting(c) /\ replies' = replies \cup {a}
  <2>1. RepliesOf(p) = {} /\ CallsOf(p)' = {} /\ c.op \in PubOps /\ c.from = p
    BY <1>1, <1>3 DEF PlaceOf, CallsOf
  <2>2. RepliesOf(p)' = {a}
    BY <1>1, <1>3, <2>1 DEF RepliesOf
  <2>3. stage[p] = StageOf(a.op)
    BY <1>1, <1>3, <2>1 DEF Waiting, StageOf, PubOps
  <2> QED BY <2>1, <2>2, <2>3 DEF PlaceOf
<1>4. CASE ~(c \in CallsOf(p) /\ Waiting(c) /\ replies' = replies \cup {a})
  <2>1. RepliesOf(p)' \subseteq RepliesOf(p)
    BY <1>1, <1>4 DEF CallsOf, RepliesOf
  <2> QED BY <1>2, <2>1, FewerOf
<1> QED BY <1>3, <1>4

\* Steps that concern no handler of /publish
LEMMA OthersOf ==
    ASSUME NEW p, PlaceOf(p), stage'[p] = stage[p],
           \A c \in calls' \ calls : c.op \notin PubOps \/ c.from # p,
           \A r \in replies' \ replies : r.op \notin PubOps \/ r.from # p
    PROVE  PlaceOf(p)'
BY FewerOf DEF CallsOf, RepliesOf

LEMMA EventPlace ==
    ASSUME TypeOK, \A p \in Publish : PlaceOf(p), NEW p \in Publish,
           \/ \E q \in Publish, r \in Request : Receive(q, r)
           \/ \E r \in replies : EventStep(r)
    PROVE  PlaceOf(p)'
<1>0. stage \in [Publish -> {"new", "storing", "enqueuing", "gone"} \cup Answer]
  BY DEF TypeOK, EventTypes
<1>1. ASSUME NEW r \in Request, Receive(p, r) PROVE PlaceOf(p)'
  <2> DEFINE c == [op |-> "store", from |-> p, body |-> r.payload]
  <2>1. CallsOf(p) = {} /\ RepliesOf(p) = {}
    BY <1>1 DEF Receive, PlaceOf, StageOf
  <2>2. /\ replies' = replies /\ c.op = "store" /\ c.from = p
        /\ \/ stage'[p] = "storing" /\ calls' = calls \cup {c}
           \/ calls' = calls
    BY <1>0, <1>1 DEF Receive
  <2> HIDE DEF c
  <2>3. RepliesOf(p)' = {} /\ CallsOf(p)' \subseteq {c}
    BY <2>1, <2>2 DEF CallsOf, RepliesOf
  <2>4. CallsOf(p)' # {} => stage'[p] = StageOf(c.op)
    BY <2>1, <2>2 DEF CallsOf, StageOf
  <2> QED BY <2>3, <2>4 DEF PlaceOf
<1>2. ASSUME NEW r \in replies, r.from = p, StoreAnswered(r) PROVE PlaceOf(p)'
  <2> DEFINE c == [op |-> "enqueue", from |-> r.from, body |-> ItemOf(r.from, r.body)]
  <2>1. RepliesOf(p) = {r} /\ CallsOf(p) = {}
    BY <1>2 DEF StoreAnswered, PlaceOf, RepliesOf, PubOps
  <2>2. /\ replies' = replies \ {r} /\ c.op = "enqueue" /\ c.from = p
        /\ \/ stage'[p] = "enqueuing" /\ calls' = calls \cup {c}
           \/ calls' = calls
    BY <1>0, <1>2 DEF StoreAnswered, Resume
  <2> HIDE DEF c
  <2>3. RepliesOf(p)' = {} /\ CallsOf(p)' \subseteq {c}
    BY <2>1, <2>2 DEF CallsOf, RepliesOf
  <2>4. CallsOf(p)' # {} => stage'[p] = StageOf(c.op)
    BY <2>1, <2>2 DEF CallsOf, StageOf
  <2> QED BY <2>3, <2>4 DEF PlaceOf
<1>3. ASSUME NEW r \in replies, r.from = p, EnqueueAnswered(r) PROVE PlaceOf(p)'
  <2>1. RepliesOf(p) = {r} /\ CallsOf(p) = {}
    BY <1>3 DEF EnqueueAnswered, PlaceOf, RepliesOf, PubOps
  <2>2. RepliesOf(p)' = {} /\ CallsOf(p)' = {}
    BY <1>3, <2>1 DEF EnqueueAnswered, Resume, CallsOf, RepliesOf
  <2> QED BY <2>2 DEF PlaceOf
<1>4. ASSUME NEW q \in Publish, q # p, NEW r \in Request, Receive(q, r) PROVE PlaceOf(p)'
  BY <1>0, <1>4, OthersOf DEF Receive
<1>5. ASSUME NEW r \in replies, r.from # p, EventStep(r) PROVE PlaceOf(p)'
  BY <1>0, <1>5, OthersOf DEF EventStep, StoreAnswered, EnqueueAnswered, Resume
<1> QED BY <1>1, <1>2, <1>3, <1>4, <1>5 DEF EventStep

LEMMA NextPlace ==
    ASSUME TypeOK, \A p \in Publish : PlaceOf(p), [Next]_vars, NEW p \in Publish
    PROVE  PlaceOf(p)'
<1>1. CASE UNCHANGED vars
  BY <1>1, OthersOf DEF vars, netVars, eventVars
<1>2. CASE \/ \E q \in Publish, r \in Request : Receive(q, r)
           \/ \E r \in replies : EventStep(r)
  BY <1>2, EventPlace
<1>3. ASSUME NEW r \in replies, PollerStep(r) PROVE PlaceOf(p)'
  <2>1. stage' = stage /\ replies' \subseteq replies
    BY <1>3 DEF PollerStep, DequeueAnswered, ActionAnswered, EnterPhase, Resume, eventVars
  <2>2. ASSUME NEW phase \in {"idle"} \cup Action, NEW item, NEW cfg, EnterPhase(r, phase, item, cfg)
        PROVE  \A c \in calls' \ calls : c.op \notin PubOps
    BY <2>2, PubOpsApart DEF EnterPhase, Resume
  <2>3. \A c \in calls' \ calls : c.op \notin PubOps
    <3>1. FirstAction(HISTORY_RULE) \in {"idle"} \cup Action
      BY PhaseRange
    <3>2. CASE DequeueAnswered(r)
      <4>1. \/ EnterPhase(r, FirstAction(HISTORY_RULE), r.body, HISTORY_RULE)
            \/ EnterPhase(r, "idle", NoItem, NoRule)
        BY <3>2 DEF DequeueAnswered
      <4> QED BY <2>2, <3>1, <4>1
    <3>3. CASE ActionAnswered(r)
      <4>1. /\ EnterPhase(r, NextAction(r.op, poller.cfg), poller.item, poller.cfg)
            /\ r.op \in Action
        BY <3>3 DEF ActionAnswered
      <4> QED BY <2>2, <4>1, PhaseRange
    <3> QED BY <1>3, <3>2, <3>3 DEF PollerStep
  <2> QED BY <2>1, <2>3, OthersOf
<1>4. ASSUME NEW c \in calls, Serve(c) \/ LoseCall(c) PROVE PlaceOf(p)'
  <2>1. stage' = stage /\ \E status, body : Respond(c, status, body)
    BY <1>4 DEF Serve, HandleStore, HandleEnqueue, HandleDequeue, HandleReplicate, HandleLog,
                HandleRecord, LoseCall, eventVars
  <2> QED BY <2>1, RespondOf
<1>5. CASE Tick \/ \E v \in RuleValue : SetRule(v)
  <2>1. /\ stage' = stage /\ replies' = replies
        /\ \A c \in calls' \ calls : c.op = "dequeue"
    BY <1>5 DEF Tick, SetRule, eventVars, netVars
  <2> QED BY <2>1, OthersOf DEF PubOps
<1>6. ASSUME NEW r \in replies, LoseReply(r) PROVE PlaceOf(p)'
  <2> DEFINE a == [op |-> r.op, from |-> r.from, status |-> 500, body |-> NoItem]
  <2>1. /\ replies' = (replies \ {r}) \cup {a} /\ a.op = r.op /\ a.from = r.from
        /\ calls' = calls /\ stage' = stage
    BY <1>6 DEF LoseReply, eventVars
  <2> HIDE DEF a
  <2>2. CASE r \in RepliesOf(p)
    <3>1. RepliesOf(p)' = {a} /\ CallsOf(p)' = {} /\ stage[p] = StageOf(a.op)
      BY <2>1, <2>2 DEF PlaceOf, RepliesOf, CallsOf
    <3> QED BY <2>1, <3>1 DEF PlaceOf
  <2>3. CASE r \notin RepliesOf(p)
    BY <2>1, <2>3, OthersOf DEF RepliesOf
  <2> QED BY <2>2, <2>3
<1>7. CASE RestartEvent
  <2>1. RepliesOf(p)' = {} /\ CallsOf(p)' = CallsOf(p)
    BY <1>7 DEF RestartEvent, RepliesOf, CallsOf, PubOps
  <2>2. stage'[p] \in {stage[p], "gone"}
    BY <1>7 DEF RestartEvent
  <2> QED BY <2>1, <2>2, FewerOf
<1>8. CASE RestartStorage \/ RestartQueue \/ RestartRules \/ RestartLogging \/ RestartAnalytics
  <2>1. stage' = stage /\ calls' = calls /\ replies' \subseteq replies
    BY <1>8 DEF RestartStorage, RestartQueue, RestartRules, RestartLogging, RestartAnalytics,
                eventVars, netVars
  <2> QED BY <2>1, OthersOf
<1> QED BY <1>1, <1>2, <1>3, <1>4, <1>5, <1>6, <1>7, <1>8 DEF Next, Fault

LEMMA NextHash ==
    ASSUME PInv, AnswersInv, [Next]_vars, NEW p \in Publish
    PROVE  HashOf(p)'
<1>0. /\ stage \in [Publish -> {"new", "storing", "enqueuing", "gone"} \cup Answer]
      /\ hash_id \in [Publish -> Hash \cup {NoItem}]
  BY DEF PInv, TypeOK, EventTypes
<1>1. CASE stage'[p] = stage[p] /\ hash_id'[p] = hash_id[p]
  BY <1>1 DEF AnswersInv, HashOf
<1>2. ASSUME NEW r \in Request, Receive(p, r) PROVE HashOf(p)'
  <2>1. stage'[p] \in {"400", "403", "storing"} /\ stage[p] = "new" /\ hash_id' = hash_id
    BY <1>0, <1>2 DEF Receive, FirstAnswer, Request, Form
  <2> QED BY <2>1 DEF AnswersInv, HashOf
<1>3. ASSUME NEW r \in replies, r.from = p, StoreAnswered(r) PROVE HashOf(p)'
  <2>1. r.op = "store" /\ r \in RepliesOf(p) /\ stage[p] = "storing"
    BY <1>3 DEF StoreAnswered, RepliesOf, PubOps, AnswersInv, PlaceOf, StageOf
  <2>2. CASE r.status = 200
    <3>1. stage'[p] = "enqueuing" /\ hash_id'[p] = r.body /\ r.body \in Hash
      BY <1>0, <1>3, <2>1, <2>2 DEF StoreAnswered, PInv, Sound
    <3> QED BY <3>1, NoItemAssumption DEF HashOf
  <2>3. CASE r.status # 200
    <3>1. stage'[p] = "500" /\ hash_id'[p] = hash_id[p]
      BY <1>0, <1>3, <2>3 DEF StoreAnswered
    <3> QED BY <2>1, <3>1 DEF AnswersInv, HashOf
  <2> QED BY <2>2, <2>3
<1>4. ASSUME NEW r \in replies, r.from = p, EnqueueAnswered(r) PROVE HashOf(p)'
  <2>1. r.op = "enqueue" /\ r \in RepliesOf(p) /\ stage[p] = "enqueuing"
    BY <1>4 DEF EnqueueAnswered, RepliesOf, PubOps, AnswersInv, PlaceOf, StageOf
  <2>2. stage'[p] = "200" /\ hash_id'[p] = hash_id[p]
    BY <1>0, <1>4 DEF EnqueueAnswered
  <2> QED BY <2>1, <2>2 DEF AnswersInv, HashOf
<1>5. CASE \/ \E q \in Publish \ {p}, r \in Request : Receive(q, r)
           \/ \E r \in replies : r.from # p /\ EventStep(r)
  <2>1. ASSUME NEW q \in Publish \ {p}, NEW r \in Request, Receive(q, r)
        PROVE  stage'[p] = stage[p] /\ hash_id'[p] = hash_id[p]
    BY <1>0, <2>1 DEF Receive
  <2>2. ASSUME NEW r \in replies, r.from # p, EventStep(r)
        PROVE  stage'[p] = stage[p] /\ hash_id'[p] = hash_id[p]
    <3>1. CASE StoreAnswered(r)
      BY <1>0, <2>2, <3>1 DEF StoreAnswered
    <3>2. CASE EnqueueAnswered(r)
      BY <1>0, <2>2, <3>2 DEF EnqueueAnswered
    <3> QED BY <2>2, <3>1, <3>2 DEF EventStep
  <2> QED BY <1>1, <1>5, <2>1, <2>2
<1>6. CASE RestartEvent
  <2>1. stage'[p] \in {stage[p], "gone"} /\ hash_id'[p] = hash_id[p]
    BY <1>6 DEF RestartEvent
  <2> QED BY <2>1 DEF AnswersInv, HashOf
<1>7. CASE \/ \E r \in replies : PollerStep(r) \/ LoseReply(r)
           \/ \E c \in calls : Serve(c) \/ LoseCall(c)
           \/ Tick \/ \E v \in RuleValue : SetRule(v)
           \/ RestartStorage \/ RestartQueue \/ RestartRules \/ RestartLogging \/ RestartAnalytics
  <2>1. stage' = stage /\ hash_id' = hash_id
    BY <1>7 DEF PollerStep, DequeueAnswered, ActionAnswered, Serve, HandleStore, HandleEnqueue,
                HandleDequeue, HandleReplicate, HandleLog, HandleRecord, Tick, SetRule, LoseCall,
                LoseReply, RestartStorage, RestartQueue, RestartRules, RestartLogging,
                RestartAnalytics, eventVars
  <2> QED BY <1>1, <2>1
<1>8. CASE UNCHANGED vars
  BY <1>1, <1>8 DEF vars, eventVars
<1> QED BY <1>2, <1>3, <1>4, <1>5, <1>6, <1>7, <1>8 DEF Next, Fault, EventStep

\* What the queue accepted was in a call of /enqueue.
LEMMA AcceptedGrows ==
    ASSUME PInv, [Next]_vars
    PROVE  \A x \in Accepted' \ Accepted : x \in Everywhere /\ x \in Item
<1>1. CASE accepted' = accepted
  BY <1>1 DEF Accepted
<1>2. ASSUME NEW c \in calls, HandleEnqueue(c)
      PROVE  \A x \in Accepted' \ Accepted : x \in Everywhere /\ x \in Item
  <2>1. c.op = "enqueue" /\ c.body \in Item /\ accepted' = Append(accepted, c.body)
    BY <1>2, CallFields DEF HandleEnqueue, PInv, TypeOK, NetTypes
  <2>2. Accepted' \subseteq Accepted \cup {c.body}
    BY <2>1 DEF Accepted, PInv, TypeOK, QueueTypes
  <2>3. c.body \in Everywhere
    BY <2>1 DEF Everywhere, InCalls
  <2> QED BY <2>1, <2>2, <2>3
<1>3. CASE ~\E c \in calls : HandleEnqueue(c)
  <2>1. accepted' = accepted
    BY <1>3 DEF Next, vars, Receive, EventStep, StoreAnswered, EnqueueAnswered, PollerStep,
                DequeueAnswered, ActionAnswered, Serve, HandleStore, HandleDequeue,
                HandleReplicate, HandleLog, HandleRecord, Tick, SetRule, Fault, LoseCall,
                LoseReply, RestartEvent, RestartStorage, RestartQueue, RestartRules,
                RestartLogging, RestartAnalytics, queueVars
  <2> QED BY <1>1, <2>1
<1> QED BY <1>2, <1>3

\* A hash that a handler was given stays.
LEMMA HashStays ==
    ASSUME PInv, AnswersInv, [Next]_vars, NEW p \in Publish, hash_id[p] # NoItem
    PROVE  hash_id'[p] # NoItem
<1>1. CASE hash_id' = hash_id
  BY <1>1
<1>2. ASSUME NEW r \in replies, StoreAnswered(r) PROVE hash_id'[p] # NoItem
  BY <1>2, NoItemAssumption DEF StoreAnswered, PInv, Sound, TypeOK, EventTypes
<1>3. CASE ~\E r \in replies : StoreAnswered(r)
  <2>1. hash_id' = hash_id
    BY <1>3 DEF Next, vars, Receive, EventStep, EnqueueAnswered, PollerStep,
                DequeueAnswered, ActionAnswered, Serve, HandleStore, HandleEnqueue, HandleDequeue,
                HandleReplicate, HandleLog, HandleRecord, Tick, SetRule, Fault, LoseCall,
                LoseReply, RestartEvent, RestartStorage, RestartQueue, RestartRules,
                RestartLogging, RestartAnalytics, eventVars
  <2> QED BY <1>1, <2>1
<1> QED BY <1>2, <1>3

LEMMA NextAnswers == ASSUME PInv, AnswersInv, [Next]_vars PROVE AnswersInv'
<1>1. \A p \in Publish : PlaceOf(p)' /\ HashOf(p)'
  BY NextPlace, NextHash DEF PInv, AnswersInv
<1>2. ASSUME NEW x \in Accepted' PROVE x \in Item /\ hash_id'[x.by] # NoItem
  <2>1. x \in Item /\ hash_id[x.by] # NoItem
    BY <1>2, AcceptedGrows DEF AnswersInv, PInv, Sound, Traced
  <2>2. x.by \in Publish
    BY <2>1 DEF Item
  <2> QED BY <2>1, <2>2, HashStays
<1> QED BY <1>1, <1>2 DEF AnswersInv

LEMMA AnswersAlways == Spec => [](PInv /\ AnswersInv)
<1>1. Init => AnswersInv
  BY DEF Init, AnswersInv, PlaceOf, CallsOf, RepliesOf, HashOf, Accepted
<1>2. PInv /\ AnswersInv /\ [Next]_vars => AnswersInv'
  BY NextAnswers
<1> QED BY <1>1, <1>2, PInvAlways, PTL DEF Spec

-----------------------------------------------------------------------------
\* Once each

Apart(S, T) == \A x \in S, y \in T : x.by # y.by

\* A publication is enqueued by one call, and its item is in one place.
OneItemEach ==
    /\ \A c \in calls : c.op = "enqueue" =>
           c.body.by = c.from /\ \A x \in Accepted : x.by # c.from
    /\ NoRepeat(accepted) /\ NoRepeat(Q!Items("history"))
    /\ Queued \cup InHand \cup Evaluated \subseteq Accepted
    /\ Apart(Queued, InHand) /\ Apart(Queued, Evaluated) /\ Apart(InHand, Evaluated)

\* What the service behind an action has been sent and has not forgotten
Kept(op) == CASE op = "replicate" -> Replicated
              [] op = "log" -> Logged
              [] OTHER -> Recorded

\* The service behind op has not been sent x yet.
NotSent(op, x) ==
    /\ \A c \in calls : c.op = op => c.body.by # x.by
    /\ \A y \in Kept(op) : y.by # x.by

\* The sinks that an evaluation in this phase may still call
Ahead(phase) ==
    CASE phase = "replicate" -> {"log", "analytics"}
      [] phase = "log" -> {"analytics"}
      [] OTHER -> {}

\* A sink has an item in one call or in its memory, once.
OneCallEach ==
    /\ \A c \in calls : c.op \in Action =>
           /\ c.body \in Evaluated
           /\ \A y \in Kept(c.op) : y.by # c.body.by
           /\ \A d \in calls : d.op = c.op /\ d.body.by = c.body.by => d = c
    /\ Delivered \subseteq Evaluated
    /\ poller.phase \in Action => poller.item \in Evaluated
    /\ \A op \in Ahead(poller.phase) : NotSent(op, poller.item)
    /\ NoRepeat(replicated) /\ NoRepeat(logs) /\ NoRepeat(records)

LEMMA DistinctTail ==
    ASSUME NEW s \in Seq(Item), s # <<>>, NoRepeat(s)
    PROVE  /\ NoRepeat(Tail(s))
           /\ \A i \in 1..Len(Tail(s)) : Tail(s)[i].by # s[1].by
<1>1. /\ Len(Tail(s)) = Len(s) - 1 /\ Len(s) \in Nat
      /\ \A i \in 1..Len(Tail(s)) : Tail(s)[i] = s[i + 1]
  OBVIOUS
<1>2. \A i \in 1..Len(Tail(s)) : i + 1 \in 1..Len(s) /\ 1 \in 1..Len(s)
  BY <1>1
<1> QED BY <1>1, <1>2 DEF NoRepeat

LEMMA DistinctAppend ==
    ASSUME NEW s \in Seq(Item), NEW x \in Item, NoRepeat(s),
           \A i \in 1..Len(s) : s[i].by # x.by
    PROVE  NoRepeat(Append(s, x))
<1>1. /\ Len(Append(s, x)) = Len(s) + 1 /\ Len(s) \in Nat
      /\ \A i \in 1..Len(s) : Append(s, x)[i] = s[i]
      /\ Append(s, x)[Len(s) + 1] = x
  OBVIOUS
<1>2. \A i \in 1..Len(Append(s, x)) : i \in 1..Len(s) \/ i = Len(s) + 1
  BY <1>1
<1> QED BY <1>1, <1>2 DEF NoRepeat

LEMMA DistinctPush ==
    ASSUME NEW s \in Seq(Item), NEW x \in Item, NEW max, NoRepeat(s),
           \A i \in 1..Len(s) : s[i].by # x.by
    PROVE  NoRepeat(PushBounded(s, x, max))
<1> DEFINE t == Append(s, x)
<1>1. t \in Seq(Item) /\ t # <<>>
  <2>1. t \in Seq(Item) /\ Len(t) = Len(s) + 1 /\ Len(s) \in Nat
    OBVIOUS
  <2>2. Len(t) # 0
    BY <2>1
  <2> QED BY <2>1, <2>2
<1>2. PushBounded(s, x, max) = t \/ PushBounded(s, x, max) = Tail(t)
  BY DEF PushBounded
<1>3. NoRepeat(t)
  BY DistinctAppend
<1> HIDE DEF t
<1> QED BY <1>1, <1>2, <1>3, DistinctTail

\* Steps that bring no item anywhere, and enqueue none
LEMMA NoNewItem ==
    ASSUME OneItemEach, accepted' = accepted, evaluated' = evaluated,
           \A c \in calls' \ calls : c.op # "enqueue", InHand' \subseteq InHand,
           QUEUES' = QUEUES \/ QUEUES' = [q \in {} |-> <<>>]
    PROVE  OneItemEach'
<1>1. Accepted' = Accepted /\ Evaluated' = Evaluated
  BY DEF Accepted, Evaluated
<1>2. Queued' \subseteq Queued /\ NoRepeat(Q!Items("history"))'
  <2>1. CASE QUEUES' = QUEUES
    BY <2>1 DEF Queued, Q!Items, OneItemEach, NoRepeat
  <2>2. CASE QUEUES' = [q \in {} |-> <<>>]
    BY <2>2 DEF Queued, Q!Items, NoRepeat
  <2> QED BY <2>1, <2>2
<1>3. NoRepeat(accepted)'
  BY DEF OneItemEach, NoRepeat
<1>4. \A c \in calls' : c.op = "enqueue" =>
          c.body.by = c.from /\ \A x \in Accepted' : x.by # c.from
  BY <1>1 DEF OneItemEach
<1> QED BY <1>1, <1>2, <1>3, <1>4 DEF OneItemEach, Apart

\* storage has answered: only now is there an item of this publication.
LEMMA StoreAnsweredOnce ==
    ASSUME PInv, AnswersInv, OneItemEach, NEW r \in replies, StoreAnswered(r)
    PROVE  OneItemEach'
<1> DEFINE c == [op |-> "enqueue", from |-> r.from, body |-> ItemOf(r.from, r.body)]
<1>1. r.op = "store" /\ r.from \in Publish
  BY ReplyFields DEF StoreAnswered, PInv, TypeOK, NetTypes
<1>2. /\ UNCHANGED <<accepted, evaluated, QUEUES>> /\ replies' \subseteq replies
      /\ \A d \in calls' : d \in calls \/ d = c
      /\ c.from = r.from /\ c.body.by = r.from
  BY DEF StoreAnswered, queueVars, rulesVars, Resume, ItemOf
<1> HIDE DEF c
<1>3. \A x \in Accepted : x.by # r.from
  <2>1. stage[r.from] = "storing"
    BY <1>1 DEF AnswersInv, PlaceOf, RepliesOf, StageOf, PubOps
  <2>2. hash_id[r.from] = NoItem
    BY <1>1, <2>1 DEF AnswersInv, HashOf
  <2> QED BY <2>2 DEF AnswersInv
<1>4. InHand' \subseteq InHand
  BY <1>2, PlacesStay
<1>5. Accepted' = Accepted /\ Evaluated' = Evaluated /\ Queued' = Queued
  BY <1>2, PlacesStay DEF Accepted
<1>6. \A d \in calls' : d.op = "enqueue" =>
          d.body.by = d.from /\ \A x \in Accepted' : x.by # d.from
  BY <1>2, <1>3, <1>5 DEF OneItemEach
<1>7. NoRepeat(accepted)' /\ NoRepeat(Q!Items("history"))'
  BY <1>2 DEF OneItemEach, NoRepeat, Q!Items
<1> QED BY <1>4, <1>5, <1>6, <1>7 DEF OneItemEach, Apart

LEMMA HandleEnqueueOnce ==
    ASSUME PInv, AnswersInv, OneItemEach, NEW c \in calls, HandleEnqueue(c)
    PROVE  OneItemEach'
<1> DEFINE x == c.body
           old == Q!Items("history")
           new == PushBounded(old, x, MAX_QUEUE_SIZE)
<1>1. /\ c.op = "enqueue" /\ x \in Item /\ c.from \in Publish
      /\ x.by = c.from /\ \A y \in Accepted : y.by # x.by
  BY CallFields DEF HandleEnqueue, PInv, TypeOK, NetTypes, OneItemEach
<1>2. /\ accepted' = Append(accepted, x) /\ evaluated' = evaluated
      /\ Q!QueuesTypeOK /\ accepted \in Seq(Item)
      /\ calls' = calls \ {c} /\ Respond(c, 200, NoItem)
  BY DEF HandleEnqueue, rulesVars, PInv, TypeOK, QueueTypes, Respond
<1>3. InHand' \subseteq InHand /\ Evaluated' = Evaluated
  <2>1. \A r \in replies' \ replies : r.op # "dequeue"
    BY <1>1, <1>2, RespondNew
  <2> QED BY <1>2, <2>1, PlacesStay
<1>4. NoRepeat(accepted)' /\ Accepted' = Accepted \cup {x}
  <2> HIDE DEF x
  <2>1. NoRepeat(Append(accepted, x))
    BY <1>1, <1>2, DistinctAppend DEF OneItemEach, Accepted
  <2>2. Accepted' = Accepted \cup {x}
    BY <1>1, <1>2 DEF Accepted
  <2> QED BY <1>2, <2>1, <2>2 DEF NoRepeat
<1>5. NoRepeat(Q!Items("history"))' /\ Queued' \subseteq Queued \cup {x}
  <2>1. old \in Seq(Item) /\ Q!QueuesTypeOK' /\ Queued' \subseteq Queued \cup {x}
    BY <1>1, <1>2, ItemsType, EnqueueItems DEF HandleEnqueue
  <2>2. \A i \in 1..Len(old) : old[i] \in Accepted
    BY DEF OneItemEach, Queued
  <2>3. QUEUES' = Q!WithItems("history", new)
    BY QueuePush DEF HandleEnqueue, Q!Enqueue
  <2>4. NoRepeat(old)
    BY DEF OneItemEach
  <2> HIDE DEF old, x
  <2>5. new \in Seq(Item) /\ NoRepeat(new)
    BY <1>1, <2>1, <2>2, <2>4, PushBoundedMembers, DistinctPush
  <2> HIDE DEF new
  <2>6. Q!Items("history")' = new
    BY <1>2, <2>3, <2>5, WithItemsHistory
  <2> QED BY <2>1, <2>5, <2>6 DEF NoRepeat
<1>6. \A d \in calls' : d.op = "enqueue" =>
          d.body.by = d.from /\ \A y \in Accepted' : y.by # d.from
  <2> SUFFICES ASSUME NEW d \in calls', d.op = "enqueue"
               PROVE  d.body.by = d.from /\ d.from # x.by
    BY <1>2, <1>4 DEF OneItemEach
  <2>1. d \in calls /\ d # c
    BY <1>2
  <2>2. d.from # c.from
    BY <1>1, <2>1 DEF AnswersInv, PlaceOf, CallsOf, PubOps
  <2> QED BY <1>1, <2>1, <2>2 DEF OneItemEach
<1> HIDE DEF x
<1> QED BY <1>1, <1>3, <1>4, <1>5, <1>6 DEF OneItemEach, Apart

LEMMA HandleDequeueOnce ==
    ASSUME PInv, OneItemEach, NEW c \in calls, HandleDequeue(c)
    PROVE  OneItemEach'
<1> DEFINE old == Q!Items("history")
           x == Q!DequeueResult("history")
<1>1. /\ accepted' = accepted /\ evaluated' = evaluated /\ Q!QueuesTypeOK
      /\ Respond(c, 200, x) /\ Q!Dequeue("history") /\ c.op = "dequeue"
  BY DEF HandleDequeue, rulesVars, PInv, TypeOK, QueueTypes
<1>2. old \in Seq(Item) /\ NoRepeat(old)
  BY <1>1, ItemsType DEF OneItemEach
<1>3. /\ \A d \in calls' \ calls : d.op # "enqueue"
      /\ \A r \in replies' \ replies : r.body = x
  BY <1>1, RespondNew
<1>4. CASE old = <<>>
  <2>1. x = NoItem /\ QUEUES' = Q!WithItems("history", <<>>)
    BY <1>1, <1>4 DEF Q!DequeueResult, Q!Dequeue
  <2>2. Q!Items("history")' = <<>>
    <3>1. <<>> \in Seq(Item)
      OBVIOUS
    <3> QED BY <1>1, <2>1, <3>1, WithItemsHistory
  <2>3. InHand' \subseteq InHand
    BY <1>3, <2>1, PlacesStay
  <2>4. Queued' = {} /\ NoRepeat(Q!Items("history"))'
    BY <2>2 DEF Queued, NoRepeat
  <2>5. Accepted' = Accepted /\ Evaluated' = Evaluated /\ NoRepeat(accepted)'
    BY <1>1 DEF Accepted, Evaluated, OneItemEach, NoRepeat
  <2>6. \A d \in calls' : d.op = "enqueue" =>
            d.body.by = d.from /\ \A y \in Accepted' : y.by # d.from
    BY <1>3, <2>5 DEF OneItemEach
  <2> QED BY <2>3, <2>4, <2>5, <2>6 DEF OneItemEach, Apart
<1>5. CASE old # <<>>
  <2>1. x = old[1] /\ QUEUES' = Q!WithItems("history", Tail(old)) /\ Tail(old) \in Seq(Item)
    BY <1>1, <1>2, <1>5 DEF Q!DequeueResult, Q!Dequeue
  <2>2. Q!Items("history")' = Tail(old)
    BY <1>1, <2>1, WithItemsHistory
  <2>3. x \in Queued /\ Queued' \subseteq Queued
    BY <1>1, <1>2, <1>5, <2>1, DequeueItems DEF Queued
  <2> HIDE DEF old, x
  <2>4. NoRepeat(Tail(old)) /\ \A i \in 1..Len(Tail(old)) : Tail(old)[i].by # x.by
    BY <1>2, <1>5, <2>1, DistinctTail
  <2>5. NoRepeat(Q!Items("history"))' /\ \A y \in Queued' : y.by # x.by
    BY <2>2, <2>4 DEF Queued, NoRepeat
  <2>6. InHand' \subseteq InHand \cup {x}
    BY <1>3 DEF InHand
  <2>7. Accepted' = Accepted /\ Evaluated' = Evaluated /\ NoRepeat(accepted)'
    BY <1>1 DEF Accepted, Evaluated, OneItemEach, NoRepeat
  <2>8. \A d \in calls' : d.op = "enqueue" =>
            d.body.by = d.from /\ \A y \in Accepted' : y.by # d.from
    BY <1>3, <2>7 DEF OneItemEach
  <2> QED BY <2>3, <2>5, <2>6, <2>7, <2>8 DEF OneItemEach, Apart
<1> QED BY <1>4, <1>5

\* The item in hand is the only one there, so the queue and the rest of the
\* answers stay apart from what is now evaluated.
LEMMA EvaluationBegins ==
    ASSUME PInv, OneItemEach, NEW r \in replies, DequeueAnswered(r), r.status = 200,
           r.body # NoItem
    PROVE  /\ OneItemEach' /\ Evaluated' = Evaluated \cup {r.body}
           /\ r.body \in Item /\ \A y \in Evaluated : y.by # r.body.by
<1> DEFINE e == [item |-> r.body, cfg |-> HISTORY_RULE]
<1>1. /\ r.op = "dequeue" /\ evaluated' = Append(evaluated, e) /\ r.body \in Item
      /\ UNCHANGED <<accepted, QUEUES>>
      /\ EnterPhase(r, FirstAction(HISTORY_RULE), r.body, HISTORY_RULE)
  BY ReplyFields DEF DequeueAnswered, queueVars, PInv, TypeOK, NetTypes
<1>2. e.item = r.body /\ e \in Evaluation /\ evaluated \in Seq(Evaluation)
  BY <1>1 DEF Evaluation, PInv, TypeOK, RulesTypes
<1> HIDE DEF e
<1>3. Evaluated' = Evaluated \cup {r.body}
  <2>1. /\ Len(evaluated') = Len(evaluated) + 1 /\ Len(evaluated) \in Nat
        /\ \A i \in 1..Len(evaluated) : evaluated'[i] = evaluated[i]
        /\ evaluated'[Len(evaluated) + 1] = e
    BY <1>1, <1>2
  <2>2. \A i \in 1..Len(evaluated') : i \in 1..Len(evaluated) \/ i = Len(evaluated) + 1
    BY <2>1
  <2>3. Evaluated' \subseteq Evaluated \cup {r.body}
    BY <1>2, <2>1, <2>2 DEF Evaluated
  <2>4. Evaluated \cup {r.body} \subseteq Evaluated'
    BY <1>2, <2>1 DEF Evaluated
  <2> QED BY <2>3, <2>4
<1>4. r.body \in InHand
  BY <1>1 DEF InHand
<1>5. InHand' = {}
  <2>1. RulesReplies = {r} /\ replies' \subseteq replies \ {r}
    BY <1>1, Ops DEF PInv, OneCallOut, RulesReplies, EnterPhase, Resume
  <2> QED BY <2>1, Ops DEF InHand, RulesReplies
<1>6. \A d \in calls' \ calls : d.op # "enqueue"
  <2>1. FirstAction(HISTORY_RULE) \in {"idle"} \cup Action
    BY PhaseRange
  <2> QED BY <1>1, <2>1 DEF EnterPhase, Resume, Action
<1>7. Accepted' = Accepted /\ Queued' = Queued
  BY <1>1, PlacesStay DEF Accepted
<1>8. NoRepeat(accepted)' /\ NoRepeat(Q!Items("history"))'
  BY <1>1 DEF OneItemEach, NoRepeat, Q!Items
<1>9. \A d \in calls' : d.op = "enqueue" =>
          d.body.by = d.from /\ \A y \in Accepted' : y.by # d.from
  BY <1>6, <1>7 DEF OneItemEach
<1>10. \A y \in Evaluated \cup Queued' : y \in Evaluated \/ y.by # r.body.by
  BY <1>4, <1>7 DEF OneItemEach, Apart
<1>11. OneItemEach'
  BY <1>3, <1>4, <1>5, <1>7, <1>8, <1>9, <1>10 DEF OneItemEach, Apart
<1> QED BY <1>1, <1>3, <1>4, <1>11 DEF OneItemEach, Apart

\* Steps after which items are where they were, or lost
Quiet == /\ UNCHANGED <<accepted, evaluated>> /\ InHand' \subseteq InHand
         /\ QUEUES' = QUEUES \/ QUEUES' = [q \in {} |-> <<>>]

Begins(r) == r \in replies /\ DequeueAnswered(r) /\ r.status = 200 /\ r.body # NoItem

\* An item moves only when the queue takes it, hands it out, or its evaluation
\* begins; a call of /enqueue is made only by StoreAnswered.
LEMMA ItemSteps ==
    ASSUME [Next]_vars
    PROVE  \/ \E c \in calls : HandleEnqueue(c) \/ HandleDequeue(c)
           \/ \E r \in replies : Begins(r)
           \/ Quiet /\ \E r \in replies : StoreAnswered(r)
           \/ Quiet /\ \A c \in calls' \ calls : c.op # "enqueue"
<1> DEFINE Silent == Quiet /\ \A c \in calls' \ calls : c.op # "enqueue"
<1>1. CASE UNCHANGED vars
  <2>1. UNCHANGED <<accepted, evaluated, calls, replies, QUEUES>>
    BY <1>1 DEF vars, queueVars, rulesVars, netVars
  <2> QED BY <2>1, PlacesStay DEF Quiet
<1>2. ASSUME NEW p \in Publish, NEW r \in Request, Receive(p, r) PROVE Silent
  <2>1. /\ UNCHANGED <<accepted, evaluated, replies, QUEUES>>
        /\ \A c \in calls' \ calls : c.op # "enqueue"
    BY <1>2 DEF Receive, queueVars, rulesVars
  <2> QED BY <2>1, PlacesStay DEF Quiet
<1>3. ASSUME NEW r \in replies, EventStep(r) PROVE Silent \/ (Quiet /\ StoreAnswered(r))
  <2>1. CASE EnqueueAnswered(r)
    <3>1. UNCHANGED <<accepted, evaluated, calls, QUEUES>> /\ replies' \subseteq replies
      BY <2>1 DEF EnqueueAnswered, queueVars, rulesVars, Resume
    <3> QED BY <3>1, PlacesStay DEF Quiet
  <2>2. CASE StoreAnswered(r)
    <3>1. UNCHANGED <<accepted, evaluated, QUEUES>> /\ replies' \subseteq replies
      BY <2>2 DEF StoreAnswered, queueVars, rulesVars, Resume
    <3> QED BY <2>2, <3>1, PlacesStay DEF Quiet
  <2> QED BY <1>3, <2>1, <2>2 DEF EventStep
<1>4. ASSUME NEW r \in replies, NEW phase \in {"idle"} \cup Action, NEW item, NEW cfg,
             EnterPhase(r, phase, item, cfg), UNCHANGED <<accepted, evaluated, QUEUES>>
      PROVE  Silent
  <2>1. replies' \subseteq replies /\ \A c \in calls' \ calls : c.op # "enqueue"
    BY <1>4 DEF EnterPhase, Resume, Action
  <2> QED BY <1>4, <2>1, PlacesStay DEF Quiet
<1>5. ASSUME NEW r \in replies, PollerStep(r) PROVE Silent \/ Begins(r)
  <2>1. CASE DequeueAnswered(r) /\ r.status = 200 /\ r.body # NoItem
    BY <2>1 DEF Begins
  <2>2. CASE DequeueAnswered(r) /\ ~(r.status = 200 /\ r.body # NoItem)
    <3>1. EnterPhase(r, "idle", NoItem, NoRule) /\ UNCHANGED <<accepted, evaluated, QUEUES>>
      BY <2>2 DEF DequeueAnswered, queueVars
    <3> QED BY <1>4, <3>1
  <2>3. CASE ActionAnswered(r)
    <3>1. /\ EnterPhase(r, NextAction(r.op, poller.cfg), poller.item, poller.cfg)
          /\ r.op \in Action /\ UNCHANGED <<accepted, evaluated, QUEUES>>
      BY <2>3 DEF ActionAnswered, queueVars
    <3> QED BY <1>4, <3>1, PhaseRange
  <2> QED BY <1>5, <2>1, <2>2, <2>3 DEF PollerStep
<1>6. ASSUME NEW c \in calls, NEW status, NEW body, Respond(c, status, body),
             c.op # "dequeue" \/ body = NoItem, UNCHANGED <<accepted, evaluated, QUEUES>>
      PROVE  Silent
  <2>1. /\ calls' \subseteq calls
        /\ \A r \in replies' \ replies : r.op # "dequeue" \/ r.body = NoItem
    BY <1>6, RespondNew
  <2> QED BY <1>6, <2>1, PlacesStay DEF Quiet
<1>7. ASSUME NEW c \in calls, Serve(c) \/ LoseCall(c), ~HandleEnqueue(c), ~HandleDequeue(c)
      PROVE  Silent
  <2>1. CASE HandleStore(c)
    <3>1. /\ \E status, body : Respond(c, status, body)
          /\ c.op # "dequeue" /\ UNCHANGED <<accepted, evaluated, QUEUES>>
      BY <2>1 DEF HandleStore, queueVars, rulesVars
    <3> QED BY <1>6, <3>1
  <2>2. CASE HandleReplicate(c) \/ HandleLog(c) \/ HandleRecord(c) \/ LoseCall(c)
    <3>1. /\ \E status : Respond(c, status, NoItem)
          /\ UNCHANGED <<accepted, evaluated, QUEUES>>
      BY <2>2 DEF HandleReplicate, HandleLog, HandleRecord, LoseCall, queueVars, rulesVars
    <3> QED BY <1>6, <3>1
  <2> QED BY <1>7, <2>1, <2>2 DEF Serve
<1>8. CASE Tick \/ \E v \in RuleValue : SetRule(v)
  <2>1. /\ UNCHANGED <<accepted, evaluated, replies, QUEUES>>
        /\ \A c \in calls' \ calls : c.op # "enqueue"
    BY <1>8 DEF Tick, SetRule, queueVars, netVars
  <2> QED BY <2>1, PlacesStay DEF Quiet
<1>9. ASSUME NEW r \in replies, LoseReply(r) PROVE Silent
  <2>1. /\ UNCHANGED <<accepted, evaluated, calls, QUEUES>>
        /\ \A s \in replies' \ replies : s.body = NoItem
    BY <1>9 DEF LoseReply, queueVars, rulesVars
  <2> QED BY <2>1, PlacesStay DEF Quiet
<1>10. CASE RestartEvent \/ RestartStorage \/ RestartQueue \/ RestartRules \/ RestartLogging
              \/ RestartAnalytics
  <2>1. /\ UNCHANGED <<accepted, evaluated, calls>> /\ replies' \subseteq replies
        /\ QUEUES' = QUEUES \/ QUEUES' = [q \in {} |-> <<>>]
    BY <1>10 DEF RestartEvent, RestartStorage, RestartQueue, RestartRules, RestartLogging,
                 RestartAnalytics, Q!Restart, queueVars, rulesVars, netVars
  <2> QED BY <2>1, PlacesStay DEF Quiet
<1> HIDE DEF Silent
<1>11. \/ \E c \in calls : HandleEnqueue(c) \/ HandleDequeue(c)
       \/ \E r \in replies : Begins(r)
       \/ Quiet /\ \E r \in replies : StoreAnswered(r)
       \/ Silent
  BY <1>1, <1>2, <1>3, <1>5, <1>7, <1>8, <1>9, <1>10 DEF Next, Fault, Silent
<1> QED BY <1>11 DEF Silent

LEMMA NextItemEach == ASSUME PInv, AnswersInv, OneItemEach, [Next]_vars PROVE OneItemEach'
<1>1. ASSUME NEW c \in calls, HandleEnqueue(c) \/ HandleDequeue(c) PROVE OneItemEach'
  BY <1>1, HandleEnqueueOnce, HandleDequeueOnce
<1>2. ASSUME NEW r \in replies, Begins(r) PROVE OneItemEach'
  BY <1>2, EvaluationBegins DEF Begins
<1>3. ASSUME NEW r \in replies, StoreAnswered(r) PROVE OneItemEach'
  BY <1>3, StoreAnsweredOnce
<1>4. CASE Quiet /\ \A c \in calls' \ calls : c.op # "enqueue"
  BY <1>4, NoNewItem DEF Quiet
<1> QED BY <1>1, <1>2, <1>3, <1>4, ItemSteps

LEMMA Phases ==
    /\ \A phase : Ahead(phase) \subseteq Action
    /\ Ahead("idle") = {} /\ Ahead("asked") = {}
    /\ \A cfg : FirstAction(cfg) = "idle" \/ FirstAction(cfg) \in Action
    /\ \A op \in Action : \A cfg :
           \/ NextAction(op, cfg) = "idle"
           \/ /\ NextAction(op, cfg) \in Ahead(op)
              /\ Ahead(NextAction(op, cfg)) \subseteq Ahead(op)
    /\ \A phase : phase \notin Ahead(phase)
<1>1. \A cfg : AfterLogging(cfg) \in {"idle", "analytics"}
  BY DEF AfterLogging
<1>2. \A cfg : AfterReplication(cfg) \in {"idle", "log", "analytics"}
  BY <1>1 DEF AfterReplication
<1>3. \A op \in Action : op \in {"replicate", "log", "analytics"}
  BY DEF Action
<1>4. /\ Ahead("replicate") = {"log", "analytics"} /\ Ahead("log") = {"analytics"}
      /\ Ahead("analytics") = {} /\ Ahead("idle") = {} /\ Ahead("asked") = {}
  BY DEF Ahead, Action
<1>5. \A cfg : /\ NextAction("replicate", cfg) \in {"idle", "log", "analytics"}
               /\ NextAction("log", cfg) \in {"idle", "analytics"}
               /\ NextAction("analytics", cfg) = "idle"
  BY <1>1, <1>2 DEF NextAction
<1>6. \A phase : Ahead(phase) \subseteq Action /\ phase \notin Ahead(phase)
  BY DEF Ahead, Action
<1>7. \A op \in Action : \A cfg :
          \/ NextAction(op, cfg) = "idle"
          \/ /\ NextAction(op, cfg) \in Ahead(op)
             /\ Ahead(NextAction(op, cfg)) \subseteq Ahead(op)
  BY <1>3, <1>4, <1>5
<1> QED BY <1>4, <1>6, <1>7, PhaseRange

\* Steps that send nothing to a sink and change no evaluation
LEMMA NothingSent ==
    ASSUME OneCallEach, Evaluated' = Evaluated,
           \A c \in calls' \ calls : c.op \notin Action,
           logs' = logs \/ logs' = <<>>, records' = records \/ records' = <<>>,
           UNCHANGED replicated,
           poller' = poller \/ poller'.phase \in {"idle", "asked"}
    PROVE  OneCallEach'
<1>1. /\ Logged' \subseteq Logged /\ Recorded' \subseteq Recorded /\ Replicated' = Replicated
      /\ Delivered' \subseteq Delivered
  BY DEF Logged, Recorded, Replicated, Delivered
<1>2. NoRepeat(replicated)' /\ NoRepeat(logs)' /\ NoRepeat(records)'
  BY DEF OneCallEach, NoRepeat
<1>3. \A op : Kept(op)' \subseteq Kept(op)
  BY <1>1 DEF Kept
<1>4. \A c \in calls' : c.op \in Action =>
          /\ c.body \in Evaluated'
          /\ \A y \in Kept(c.op)' : y.by # c.body.by
          /\ \A d \in calls' : d.op = c.op /\ d.body.by = c.body.by => d = c
  BY <1>3 DEF OneCallEach
<1>5. poller'.phase \in Action => poller'.item \in Evaluated'
  BY Ops DEF OneCallEach
<1>6. (\A op \in Ahead(poller.phase) : NotSent(op, poller.item))'
  <2>1. CASE poller' = poller
    <3> SUFFICES ASSUME NEW op \in Ahead(poller.phase)
                 PROVE  NotSent(op, poller.item)'
      BY <2>1
    <3>1. op \in Action /\ NotSent(op, poller.item)
      BY Phases DEF OneCallEach
    <3> QED BY <1>3, <2>1, <3>1 DEF NotSent
  <2>2. CASE poller'.phase \in {"idle", "asked"}
    BY <2>2, Phases
  <2> QED BY <2>1, <2>2
<1> QED BY <1>1, <1>2, <1>4, <1>5, <1>6 DEF OneCallEach

\* The loop goes on with an item that neither this sink nor the ones ahead
\* have been sent.
LEMMA SendOnce ==
    ASSUME OneCallEach, NEW r, NEW phase \in {"idle"} \cup Action, NEW item, NEW cfg,
           EnterPhase(r, phase, item, cfg), UNCHANGED <<logs, records, replicated>>,
           Evaluated \subseteq Evaluated', phase \in Action => item \in Evaluated',
           \A op \in Action : op = phase \/ op \in Ahead(phase) => NotSent(op, item)
    PROVE  OneCallEach'
<1>0. /\ Logged' = Logged /\ Recorded' = Recorded /\ Replicated' = Replicated
      /\ Delivered' = Delivered
      /\ NoRepeat(replicated)' /\ NoRepeat(logs)' /\ NoRepeat(records)'
  BY PlacesStay DEF OneCallEach, NoRepeat
<1>1. \A op : Kept(op)' = Kept(op)
  BY <1>0 DEF Kept
<1>2. CASE phase = "idle"
  <2>1. calls' = calls /\ poller'.phase = "idle"
    BY <1>2 DEF EnterPhase, Resume, IdlePoller
  <2>2. \A c \in calls' : c.op \in Action =>
            /\ c.body \in Evaluated'
            /\ \A y \in Kept(c.op)' : y.by # c.body.by
            /\ \A d \in calls' : d.op = c.op /\ d.body.by = c.body.by => d = c
    BY <1>1, <2>1 DEF OneCallEach
  <2> QED BY <1>0, <2>1, <2>2, Ops, Phases DEF OneCallEach
<1>3. CASE phase # "idle"
  <2> DEFINE d == [op |-> phase, from |-> restarts["rules"], body |-> item]
  <2>1. /\ calls' = calls \cup {d} /\ d.op = phase /\ d.body = item
        /\ poller'.phase = phase /\ poller'.item = item /\ phase \in Action
    BY <1>3 DEF EnterPhase, Resume
  <2> HIDE DEF d
  <2>2. phase \in Action => NotSent(phase, item)
    OBVIOUS
  <2>3. \A c \in calls' : c.op \in Action =>
            /\ c.body \in Evaluated'
            /\ \A y \in Kept(c.op)' : y.by # c.body.by
            /\ \A e \in calls' : e.op = c.op /\ e.body.by = c.body.by => e = c
    <3> SUFFICES ASSUME NEW c \in calls', c.op \in Action
                 PROVE  /\ c.body \in Evaluated'
                        /\ \A y \in Kept(c.op)' : y.by # c.body.by
                        /\ \A e \in calls' : e.op = c.op /\ e.body.by = c.body.by => e = c
      OBVIOUS
    <3>1. CASE c = d
      BY <1>1, <2>1, <2>2, <3>1 DEF NotSent
    <3>2. CASE c \in calls
      <4>1. c.body \in Evaluated' /\ \A y \in Kept(c.op)' : y.by # c.body.by
        BY <1>1, <3>2 DEF OneCallEach
      <4>2. ASSUME NEW e \in calls', e.op = c.op, e.body.by = c.body.by PROVE e = c
        BY <2>1, <2>2, <3>2, <4>2 DEF OneCallEach, NotSent
      <4> QED BY <4>1, <4>2
    <3> QED BY <2>1, <3>1, <3>2
  <2>4. (\A op \in Ahead(poller.phase) : NotSent(op, poller.item))'
    <3> SUFFICES ASSUME NEW op \in Ahead(phase)
                 PROVE  NotSent(op, poller.item)'
      BY <2>1
    <3>1. op # phase /\ op \in Action /\ NotSent(op, item)
      BY Phases
    <3> QED BY <1>1, <2>1, <3>1 DEF NotSent
  <2> QED BY <1>0, <2>1, <2>3, <2>4 DEF OneCallEach
<1> QED BY <1>2, <1>3

\* A sink keeps what it was sent: from then on its memory has the item.
LEMMA KeepOnce ==
    ASSUME PInv, OneCallEach, NEW c \in calls, HandleReplicate(c) \/ HandleLog(c) \/ HandleRecord(c)
    PROVE  OneCallEach'
<1> DEFINE x == c.body
<1>1. /\ c.op \in Action /\ x \in Item /\ x \in Evaluated /\ calls' = calls \ {c}
      /\ poller' = poller /\ Evaluated' = Evaluated
      /\ \A y \in Kept(c.op) : y.by # x.by
  BY CallFields DEF HandleReplicate, HandleLog, HandleRecord, rulesVars, Respond, Action,
                    OneCallEach, PInv, TypeOK, NetTypes, Evaluated
<1>2. /\ NoRepeat(replicated)' /\ NoRepeat(logs)' /\ NoRepeat(records)'
      /\ \A op \in Action : Kept(op)' \subseteq Kept(op) \cup (IF op = c.op THEN {x} ELSE {})
      /\ Delivered' \subseteq Delivered \cup {x}
  <2>1. CASE HandleLog(c)
    <3>1. /\ c.op = "log" /\ logs' = PushBounded(logs, x, MAX_LOGS)
          /\ UNCHANGED <<records, replicated>>
          /\ logs \in Seq(Item) /\ Kept("log") = Logged
      BY <2>1 DEF HandleLog, addLog, PInv, TypeOK, SinkTypes, Kept
    <3> HIDE DEF x
    <3>2. \A i \in 1..Len(logs) : logs[i].by # x.by
      BY <1>1, <3>1 DEF Logged
    <3>3. NoRepeat(PushBounded(logs, x, MAX_LOGS)) /\ NoRepeat(records) /\ NoRepeat(replicated)
      BY <1>1, <3>1, <3>2, DistinctPush DEF OneCallEach
    <3>4. \A i \in 1..Len(logs') : logs'[i] = x \/ \E j \in 1..Len(logs) : logs'[i] = logs[j]
      BY <1>1, <3>1, PushBoundedMembers
    <3>5. Logged' \subseteq Logged \cup {x} /\ Recorded' = Recorded /\ Replicated' = Replicated
      BY <3>1, <3>4, PlacesStay DEF Logged
    <3> QED BY <3>1, <3>3, <3>5 DEF NoRepeat, Kept, Action, Delivered
  <2>2. CASE HandleRecord(c)
    <3>1. /\ c.op = "analytics" /\ records' = Append(records, x) /\ UNCHANGED <<logs, replicated>>
          /\ records \in Seq(Item) /\ Kept("analytics") = Recorded
      BY <2>2 DEF HandleRecord, PInv, TypeOK, SinkTypes, Kept
    <3> HIDE DEF x
    <3>2. \A i \in 1..Len(records) : records[i].by # x.by
      BY <1>1, <3>1 DEF Recorded
    <3>3. NoRepeat(Append(records, x)) /\ NoRepeat(logs) /\ NoRepeat(replicated)
      BY <1>1, <3>1, <3>2, DistinctAppend DEF OneCallEach
    <3>4. Recorded' \subseteq Recorded \cup {x} /\ Logged' = Logged /\ Replicated' = Replicated
      BY <1>1, <3>1, PlacesStay DEF Recorded
    <3> QED BY <3>1, <3>3, <3>4 DEF NoRepeat, Kept, Action, Delivered
  <2>3. CASE HandleReplicate(c)
    <3>1. /\ c.op = "replicate" /\ replicated' = Append(replicated, x) /\ UNCHANGED <<logs, records>>
          /\ replicated \in Seq(Item) /\ Kept("replicate") = Replicated
      BY <2>3 DEF HandleReplicate, PInv, TypeOK, SinkTypes, Kept
    <3> HIDE DEF x
    <3>2. \A i \in 1..Len(replicated) : replicated[i].by # x.by
      BY <1>1, <3>1 DEF Replicated
    <3>3. NoRepeat(Append(replicated, x)) /\ NoRepeat(logs) /\ NoRepeat(records)
      BY <1>1, <3>1, <3>2, DistinctAppend DEF OneCallEach
    <3>4. Replicated' \subseteq Replicated \cup {x} /\ Logged' = Logged /\ Recorded' = Recorded
      BY <1>1, <3>1, PlacesStay DEF Replicated
    <3> QED BY <3>1, <3>3, <3>4 DEF NoRepeat, Kept, Action, Delivered
  <2> QED BY <2>1, <2>2, <2>3
<1> HIDE DEF x
<1>3. ASSUME NEW d \in calls', d.op \in Action
      PROVE  /\ d.body \in Evaluated'
             /\ \A y \in Kept(d.op)' : y.by # d.body.by
             /\ \A e \in calls' : e.op = d.op /\ e.body.by = d.body.by => e = d
  <2>1. d \in calls /\ d # c
    BY <1>1
  <2>2. d.op = c.op => d.body.by # x.by
    BY <1>1, <2>1 DEF OneCallEach, x
  <2> QED BY <1>1, <1>2, <1>3, <2>1, <2>2 DEF OneCallEach
<1>4. ASSUME NEW op \in Ahead(poller.phase)
      PROVE  NotSent(op, poller.item)'
  <2>1. NotSent(op, poller.item) /\ op \in Action
    BY Phases DEF OneCallEach
  <2>2. op = c.op => x.by # poller.item.by
    BY <2>1 DEF NotSent, x
  <2> QED BY <1>1, <1>2, <2>1, <2>2 DEF NotSent
<1>5. Delivered' \subseteq Evaluated'
  BY <1>1, <1>2 DEF OneCallEach
<1>6. poller'.phase \in Action => poller'.item \in Evaluated'
  BY <1>1 DEF OneCallEach
<1> QED BY <1>1, <1>2, <1>3, <1>4, <1>5, <1>6 DEF OneCallEach

LEMMA NextCallEach == ASSUME PInv, OneItemEach, OneCallEach, [Next]_vars PROVE OneCallEach'
<1>1. CASE UNCHANGED vars
  <2>1. UNCHANGED <<evaluated, calls, logs, records, replicated, poller>>
    BY <1>1 DEF vars, sinkVars, rulesVars, netVars
  <2> QED BY <2>1, NothingSent, PlacesStay
<1>2. ASSUME \/ \E p \in Publish, r \in Request : Receive(p, r)
             \/ \E r \in replies : EventStep(r)
             \/ Tick \/ \E v \in RuleValue : SetRule(v)
      PROVE  OneCallEach'
  <2>1. /\ UNCHANGED <<evaluated, logs, records, replicated>>
        /\ \A c \in calls' \ calls : c.op \notin Action
        /\ poller' = poller \/ poller'.phase = "asked"
    BY <1>2 DEF Receive, EventStep, StoreAnswered, EnqueueAnswered, Resume, Tick, SetRule,
                IdlePoller, Action, rulesVars, sinkVars, netVars
  <2> QED BY <2>1, NothingSent, PlacesStay
<1>3. ASSUME NEW r \in replies, DequeueAnswered(r) PROVE OneCallEach'
  <2>1. UNCHANGED <<logs, records, replicated>>
    BY <1>3 DEF DequeueAnswered, sinkVars
  <2>2. CASE r.status = 200 /\ r.body # NoItem
    <3>1. EnterPhase(r, FirstAction(HISTORY_RULE), r.body, HISTORY_RULE)
      BY <1>3, <2>2 DEF DequeueAnswered
    <3>2. /\ Evaluated' = Evaluated \cup {r.body}
          /\ \A y \in Evaluated : y.by # r.body.by
      BY <1>3, <2>2, EvaluationBegins
    <3>3. \A op \in Action : NotSent(op, r.body)
      BY <3>2 DEF OneCallEach, NotSent, Kept, Delivered
    <3> QED BY <2>1, <3>1, <3>2, <3>3, SendOnce, PhaseRange
  <2>3. CASE ~(r.status = 200 /\ r.body # NoItem)
    <3>1. EnterPhase(r, "idle", NoItem, NoRule) /\ evaluated' = evaluated
      BY <1>3, <2>3 DEF DequeueAnswered
    <3>2. calls' = calls /\ poller'.phase = "idle"
      BY <3>1 DEF EnterPhase, Resume, IdlePoller
    <3> QED BY <2>1, <3>1, <3>2, NothingSent, PlacesStay
  <2> QED BY <2>2, <2>3
<1>4. ASSUME NEW r \in replies, ActionAnswered(r) PROVE OneCallEach'
  <2> DEFINE next == NextAction(r.op, poller.cfg)
  <2>1. /\ r.op \in Action /\ EnterPhase(r, next, poller.item, poller.cfg)
        /\ UNCHANGED <<evaluated, logs, records, replicated>>
    BY <1>4 DEF ActionAnswered, sinkVars
  <2>2. r.op = poller.phase
    BY <2>1, Ops DEF PInv, OneCallOut, RulesReplies
  <2>3. poller.item \in Evaluated /\ \A op \in Ahead(r.op) : NotSent(op, poller.item)
    BY <2>1, <2>2 DEF OneCallEach
  <2>4. next \in {"idle"} \cup Action
    BY <2>1, PhaseRange
  <2>5. next = "idle" \/ (next \in Ahead(r.op) /\ Ahead(next) \subseteq Ahead(r.op))
    BY <2>1, Phases
  <2> HIDE DEF next
  <2>6. \A op \in Action : op = next \/ op \in Ahead(next) => NotSent(op, poller.item)
    BY <2>3, <2>5, Phases DEF Action
  <2> QED BY <2>1, <2>3, <2>4, <2>6, SendOnce, PlacesStay
<1>5. ASSUME NEW c \in calls, Serve(c) \/ LoseCall(c) PROVE OneCallEach'
  <2>1. CASE HandleStore(c) \/ HandleEnqueue(c) \/ HandleDequeue(c) \/ LoseCall(c)
    <3>1. UNCHANGED <<evaluated, logs, records, replicated, poller>> /\ calls' \subseteq calls
      BY <2>1 DEF HandleStore, HandleEnqueue, HandleDequeue, LoseCall, sinkVars,
                  rulesVars, Respond
    <3> QED BY <3>1, NothingSent, PlacesStay
  <2> QED BY <1>5, <2>1, KeepOnce DEF Serve
<1>6. ASSUME \E r \in replies : LoseReply(r) PROVE OneCallEach'
  <2>1. UNCHANGED <<evaluated, calls, logs, records, replicated, poller>>
    BY <1>6 DEF LoseReply, sinkVars, rulesVars
  <2> QED BY <2>1, NothingSent, PlacesStay
<1>7. CASE RestartEvent \/ RestartStorage \/ RestartQueue \/ RestartRules \/ RestartLogging
             \/ RestartAnalytics
  <2>1. /\ UNCHANGED <<evaluated, calls>>
        /\ logs' = logs \/ logs' = <<>>
        /\ records' = records \/ records' = <<>>
        /\ replicated' = replicated
        /\ poller' = poller \/ poller'.phase = "idle"
    BY <1>7 DEF RestartEvent, RestartStorage, RestartQueue, RestartRules, RestartLogging,
                RestartAnalytics, IdlePoller, sinkVars, rulesVars, netVars
  <2> QED BY <2>1, NothingSent, PlacesStay
<1> QED BY <1>1, <1>2, <1>3, <1>4, <1>5, <1>6, <1>7 DEF Next, Fault, PollerStep

LEMMA OneItemAlways == Spec => [](PInv /\ AnswersInv /\ OneItemEach)
<1>1. Init => OneItemEach
  BY DEF Init, OneItemEach, Apart, NoRepeat, Accepted, Queued, InHand, Evaluated, Q!Items
<1>2. PInv /\ AnswersInv /\ OneItemEach /\ [Next]_vars => OneItemEach'
  BY NextItemEach
<1> QED BY <1>1, <1>2, AnswersAlways, PTL DEF Spec

LEMMA OneCallAlways == Spec => []OneCallEach
<1>1. Init => OneCallEach
  BY DEF Init, OneCallEach, Ahead, IdlePoller, NoRepeat, Delivered, Logged, Recorded, Replicated,
         Action
<1>2. PInv /\ OneItemEach /\ OneCallEach /\ [Next]_vars => OneCallEach'
  BY NextCallEach
<1> QED BY <1>1, <1>2, OneItemAlways, PTL DEF Spec

\* One publication is enqueued, replicated, logged and recorded at most once, whatever
\* is lost and whichever process restarts: nothing here repeats a call, and an item
\* in hand is nowhere else (services/event/server.js:148-166,
\* services/rules/server.js:95-115).
THEOREM NothingIsDoubled == Spec => []AtMostOnce
<1>1. OneItemEach /\ OneCallEach => AtMostOnce
  BY DEF OneItemEach, OneCallEach, AtMostOnce
<1> QED BY <1>1, OneItemAlways, OneCallAlways, PTL

-----------------------------------------------------------------------------
\* The configuration an item is evaluated under

\* What is asked of a sink is what the evaluation's own configuration names.
SnapshotInv ==
    /\ ActionsFollowOneSnapshot
    /\ poller.phase \in Action =>
           poller.cfg \in CfgOf(poller.item) /\ poller.cfg[poller.phase]

LEMMA ChosenByTheRule ==
    /\ \A cfg : FirstAction(cfg) # "idle" => cfg[FirstAction(cfg)]
    /\ \A op \in Action : \A cfg : NextAction(op, cfg) # "idle" => cfg[NextAction(op, cfg)]
<1>1. \A cfg : AfterLogging(cfg) # "idle" => cfg[AfterLogging(cfg)]
  BY DEF AfterLogging
<1>2. \A cfg : AfterReplication(cfg) # "idle" => cfg[AfterReplication(cfg)]
  BY <1>1 DEF AfterReplication
<1>3. \A cfg : FirstAction(cfg) # "idle" => cfg[FirstAction(cfg)]
  BY <1>2 DEF FirstAction
<1>4. ASSUME NEW op \in Action, NEW cfg, NextAction(op, cfg) # "idle"
      PROVE  cfg[NextAction(op, cfg)]
  <2>1. CASE op = "replicate"
    BY <1>2, <1>4, <2>1 DEF NextAction
  <2>2. CASE op = "log"
    BY <1>1, <1>4, <2>2 DEF NextAction
  <2>3. CASE op = "analytics"
    BY <1>4, <2>3 DEF NextAction
  <2> QED BY <2>1, <2>2, <2>3 DEF Action
<1> QED BY <1>3, <1>4

\* An evaluation, once begun, stays on record with its configuration.
LEMMA CfgGrows ==
    ASSUME evaluated \in Seq(Evaluation), NEW e \in Evaluation, evaluated' = Append(evaluated, e)
    PROVE  /\ \A x : CfgOf(x) \subseteq CfgOf(x)'
           /\ e.cfg \in CfgOf(e.item)'
<1>1. /\ Len(evaluated') = Len(evaluated) + 1 /\ Len(evaluated) \in Nat
      /\ \A i \in 1..Len(evaluated) : i \in 1..Len(evaluated') /\ evaluated'[i] = evaluated[i]
      /\ evaluated'[Len(evaluated) + 1] = e
  OBVIOUS
<1>2. \A x : CfgOf(x) \subseteq CfgOf(x)'
  BY <1>1 DEF CfgOf
<1>3. Len(evaluated) + 1 \in 1..Len(evaluated')
  BY <1>1
<1>4. e.cfg \in CfgOf(e.item)'
  BY <1>1, <1>3 DEF CfgOf
<1> QED BY <1>2, <1>4

\* Steps that ask nothing new of a sink
LEMMA NothingAsked ==
    ASSUME SnapshotInv, evaluated' = evaluated,
           \A c \in calls' \ calls : c.op \notin Action,
           Logged' \subseteq Logged, Recorded' \subseteq Recorded, Replicated' \subseteq Replicated,
           poller' = poller \/ poller'.phase \in {"idle", "asked"}
    PROVE  SnapshotInv'
<1>1. \A x : CfgOf(x)' = CfgOf(x)
  BY DEF CfgOf
<1>2. /\ \A x \in Replicated' : \E cfg \in CfgOf(x)' : cfg.replicate
      /\ \A x \in Logged' : \E cfg \in CfgOf(x)' : cfg.log
      /\ \A x \in Recorded' : \E cfg \in CfgOf(x)' : cfg.analytics
  BY <1>1 DEF SnapshotInv, ActionsFollowOneSnapshot
<1>3. \A c \in calls' : c.op \in Action => \E cfg \in CfgOf(c.body)' : cfg[c.op]
  BY <1>1 DEF SnapshotInv, ActionsFollowOneSnapshot
<1>4. poller'.phase \in Action =>
          poller'.cfg \in (CfgOf(poller.item))' /\ poller'.cfg[poller'.phase]
  <2>1. CASE poller' = poller
    <3>1. (CfgOf(poller.item))' = CfgOf(poller.item)
      BY <2>1 DEF CfgOf
    <3> QED BY <2>1, <3>1 DEF SnapshotInv
  <2>2. CASE poller'.phase \in {"idle", "asked"}
    BY <2>2, Ops
  <2> QED BY <2>1, <2>2
<1> QED BY <1>2, <1>3, <1>4 DEF SnapshotInv, ActionsFollowOneSnapshot

\* The loop goes on under a configuration on record, which names the action.
LEMMA AskedAsTheRuleSays ==
    ASSUME SnapshotInv, NEW r, NEW phase \in {"idle"} \cup Action, NEW item, NEW cfg,
           EnterPhase(r, phase, item, cfg), UNCHANGED <<logs, records, replicated>>,
           \A x : CfgOf(x) \subseteq CfgOf(x)',
           phase # "idle" => cfg \in CfgOf(item)' /\ cfg[phase]
    PROVE  SnapshotInv'
<1>1. Logged' = Logged /\ Recorded' = Recorded /\ Replicated' = Replicated
  BY PlacesStay
<1>2. /\ \A x \in Replicated' : \E f \in CfgOf(x)' : f.replicate
      /\ \A x \in Logged' : \E f \in CfgOf(x)' : f.log
      /\ \A x \in Recorded' : \E f \in CfgOf(x)' : f.analytics
  BY <1>1 DEF SnapshotInv, ActionsFollowOneSnapshot
<1>3. \A c \in calls : c.op \in Action => \E f \in CfgOf(c.body)' : f[c.op]
  BY DEF SnapshotInv, ActionsFollowOneSnapshot
<1>4. CASE phase = "idle"
  <2>1. calls' = calls /\ poller'.phase = "idle"
    BY <1>4 DEF EnterPhase, Resume, IdlePoller
  <2> QED BY <1>2, <1>3, <2>1, Ops DEF SnapshotInv, ActionsFollowOneSnapshot
<1>5. CASE phase # "idle"
  <2> DEFINE d == [op |-> phase, from |-> restarts["rules"], body |-> item]
  <2>1. /\ calls' = calls \cup {d} /\ d.op = phase /\ d.body = item
        /\ poller' = [phase |-> phase, item |-> item, cfg |-> cfg]
    BY <1>5 DEF EnterPhase, Resume
  <2> HIDE DEF d
  <2>2. \A c \in calls' : c.op \in Action => \E f \in CfgOf(c.body)' : f[c.op]
    BY <1>3, <1>5, <2>1
  <2>3. (CfgOf(poller.item))' = CfgOf(item)'
    BY <2>1 DEF CfgOf
  <2>4. poller'.cfg \in (CfgOf(poller.item))' /\ poller'.cfg[poller'.phase]
    BY <1>5, <2>1, <2>3
  <2> QED BY <1>2, <2>2, <2>4 DEF SnapshotInv, ActionsFollowOneSnapshot
<1> QED BY <1>4, <1>5

\* A sink keeps the item of a call that the configuration named.
LEMMA KeptAsAsked ==
    ASSUME PInv, SnapshotInv, NEW c \in calls, HandleReplicate(c) \/ HandleLog(c) \/ HandleRecord(c)
    PROVE  SnapshotInv'
<1>1. /\ c.op \in Action /\ calls' \subseteq calls /\ poller' = poller /\ evaluated' = evaluated
      /\ c.body \in Item /\ \E cfg \in CfgOf(c.body) : cfg[c.op]
  BY CallFields DEF HandleReplicate, HandleLog, HandleRecord, rulesVars, Respond, Action, PInv,
                    TypeOK, NetTypes, SnapshotInv, ActionsFollowOneSnapshot
<1>2. \A x : CfgOf(x)' = CfgOf(x)
  BY <1>1 DEF CfgOf
<1>3. /\ \A x \in Replicated' : x \in Replicated \/ (x = c.body /\ c.op = "replicate")
      /\ \A x \in Logged' : x \in Logged \/ (x = c.body /\ c.op = "log")
      /\ \A x \in Recorded' : x \in Recorded \/ (x = c.body /\ c.op = "analytics")
  <2>1. CASE HandleLog(c)
    <3>1. /\ c.op = "log" /\ logs' = PushBounded(logs, c.body, MAX_LOGS)
          /\ UNCHANGED <<records, replicated>> /\ logs \in Seq(Item)
      BY <2>1 DEF HandleLog, addLog, PInv, TypeOK, SinkTypes
    <3>2. \A i \in 1..Len(logs') : logs'[i] = c.body \/ \E j \in 1..Len(logs) : logs'[i] = logs[j]
      BY <1>1, <3>1, PushBoundedMembers
    <3> QED BY <3>1, <3>2, PlacesStay DEF Logged
  <2>2. CASE HandleRecord(c)
    <3>1. /\ c.op = "analytics" /\ records' = Append(records, c.body)
          /\ UNCHANGED <<logs, replicated>> /\ records \in Seq(Item)
      BY <2>2 DEF HandleRecord, PInv, TypeOK, SinkTypes
    <3> QED BY <1>1, <3>1, PlacesStay DEF Recorded
  <2>3. CASE HandleReplicate(c)
    <3>1. /\ c.op = "replicate" /\ replicated' = Append(replicated, c.body)
          /\ UNCHANGED <<logs, records>> /\ replicated \in Seq(Item)
      BY <2>3 DEF HandleReplicate, PInv, TypeOK, SinkTypes
    <3> QED BY <1>1, <3>1, PlacesStay DEF Replicated
  <2> QED BY <2>1, <2>2, <2>3
<1>4. /\ \A x \in Replicated' : \E cfg \in CfgOf(x)' : cfg.replicate
      /\ \A x \in Logged' : \E cfg \in CfgOf(x)' : cfg.log
      /\ \A x \in Recorded' : \E cfg \in CfgOf(x)' : cfg.analytics
  BY <1>1, <1>2, <1>3 DEF SnapshotInv, ActionsFollowOneSnapshot
<1>5. \A d \in calls' : d.op \in Action => \E cfg \in CfgOf(d.body)' : cfg[d.op]
  BY <1>1, <1>2 DEF SnapshotInv, ActionsFollowOneSnapshot
<1>6. (CfgOf(poller.item))' = CfgOf(poller.item)
  BY <1>1 DEF CfgOf
<1>7. poller'.phase \in Action =>
          poller'.cfg \in (CfgOf(poller.item))' /\ poller'.cfg[poller'.phase]
  BY <1>1, <1>6 DEF SnapshotInv
<1> QED BY <1>4, <1>5, <1>7 DEF SnapshotInv, ActionsFollowOneSnapshot

LEMMA NextSnapshot == ASSUME PInv, SnapshotInv, [Next]_vars PROVE SnapshotInv'
<1>1. ASSUME \/ UNCHANGED vars
             \/ \E p \in Publish, r \in Request : Receive(p, r)
             \/ \E r \in replies : EventStep(r) \/ LoseReply(r)
             \/ Tick \/ \E v \in RuleValue : SetRule(v)
             \/ \E c \in calls : LoseCall(c)
      PROVE  SnapshotInv'
  <2>1. /\ UNCHANGED <<evaluated, logs, records, replicated>>
        /\ \A c \in calls' \ calls : c.op \notin Action
        /\ poller' = poller \/ poller'.phase = "asked"
    BY <1>1 DEF vars, Receive, EventStep, StoreAnswered, EnqueueAnswered, Resume, Tick, SetRule,
                LoseReply, LoseCall, Respond, IdlePoller, Action, rulesVars, sinkVars, netVars
  <2> QED BY <2>1, NothingAsked, PlacesStay
<1>2. ASSUME NEW r \in replies, DequeueAnswered(r) PROVE SnapshotInv'
  <2>1. UNCHANGED <<logs, records, replicated>> /\ r.op = "dequeue" /\ r.body \in Item \cup {NoItem}
    BY <1>2, ReplyFields DEF DequeueAnswered, sinkVars, PInv, TypeOK, NetTypes
  <2>2. CASE r.status = 200 /\ r.body # NoItem
    <3> DEFINE e == [item |-> r.body, cfg |-> HISTORY_RULE]
    <3>1. /\ EnterPhase(r, FirstAction(HISTORY_RULE), r.body, HISTORY_RULE)
          /\ evaluated' = Append(evaluated, e)
      BY <1>2, <2>2 DEF DequeueAnswered
    <3>2. /\ e \in Evaluation /\ evaluated \in Seq(Evaluation)
          /\ e.cfg = HISTORY_RULE /\ e.item = r.body
      BY <2>1, <2>2 DEF Evaluation, PInv, TypeOK, RulesTypes
    <3> HIDE DEF e
    <3>3. (\A x : CfgOf(x) \subseteq CfgOf(x)') /\ HISTORY_RULE \in CfgOf(r.body)'
      BY <3>1, <3>2, CfgGrows
    <3> QED BY <2>1, <3>1, <3>3, AskedAsTheRuleSays, PhaseRange, ChosenByTheRule
  <2>3. CASE ~(r.status = 200 /\ r.body # NoItem)
    <3>1. EnterPhase(r, "idle", NoItem, NoRule) /\ evaluated' = evaluated
      BY <1>2, <2>3 DEF DequeueAnswered
    <3>2. calls' = calls /\ poller'.phase = "idle"
      BY <3>1 DEF EnterPhase, Resume, IdlePoller
    <3> QED BY <2>1, <3>1, <3>2, NothingAsked, PlacesStay
  <2> QED BY <2>2, <2>3
<1>3. ASSUME NEW r \in replies, ActionAnswered(r) PROVE SnapshotInv'
  <2> DEFINE next == NextAction(r.op, poller.cfg)
  <2>1. /\ r.op \in Action /\ EnterPhase(r, next, poller.item, poller.cfg)
        /\ UNCHANGED <<evaluated, logs, records, replicated>>
    BY <1>3 DEF ActionAnswered, sinkVars
  <2>2. r.op = poller.phase
    BY <2>1, Ops DEF PInv, OneCallOut, RulesReplies
  <2>3. poller.cfg \in CfgOf(poller.item)
    BY <2>1, <2>2 DEF SnapshotInv
  <2>4. next \in {"idle"} \cup Action /\ (next # "idle" => poller.cfg[next])
    BY <2>1, PhaseRange, ChosenByTheRule
  <2>5. \A x : CfgOf(x)' = CfgOf(x)
    BY <2>1 DEF CfgOf
  <2> HIDE DEF next
  <2> QED BY <2>1, <2>3, <2>4, <2>5, AskedAsTheRuleSays
<1>4. ASSUME NEW c \in calls, Serve(c) PROVE SnapshotInv'
  <2>1. CASE HandleStore(c) \/ HandleEnqueue(c) \/ HandleDequeue(c)
    <3>1. UNCHANGED <<evaluated, logs, records, replicated, poller>> /\ calls' \subseteq calls
      BY <2>1 DEF HandleStore, HandleEnqueue, HandleDequeue, sinkVars, rulesVars, Respond
    <3> QED BY <3>1, NothingAsked, PlacesStay
  <2> QED BY <1>4, <2>1, KeptAsAsked DEF Serve
<1>5. CASE RestartEvent \/ RestartStorage \/ RestartQueue \/ RestartRules \/ RestartLogging
             \/ RestartAnalytics
  <2>1. /\ UNCHANGED <<evaluated, calls>>
        /\ logs' = logs \/ logs' = <<>>
        /\ records' = records \/ records' = <<>>
        /\ replicated' = replicated
        /\ poller' = poller \/ poller'.phase = "idle"
    BY <1>5 DEF RestartEvent, RestartStorage, RestartQueue, RestartRules, RestartLogging,
                RestartAnalytics, IdlePoller, sinkVars, rulesVars, netVars
  <2>2. Logged' \subseteq Logged /\ Recorded' \subseteq Recorded /\ Replicated' \subseteq Replicated
    BY <2>1 DEF Logged, Recorded, Replicated
  <2> QED BY <2>1, <2>2, NothingAsked
<1> QED BY <1>1, <1>2, <1>3, <1>4, <1>5 DEF Next, Fault, PollerStep

\* Whatever calls of /set come between the awaited actions of an evaluation, and
\* whatever fails, a sink is only sent an item that an evaluation of it named the
\* sink for: evaluateRules reads HISTORY_RULE once (services/rules/index.js:93).
THEOREM OneSnapshotEach == Spec => []ActionsFollowOneSnapshot
<1>1. Init => SnapshotInv
  BY DEF Init, SnapshotInv, ActionsFollowOneSnapshot, IdlePoller, Logged, Recorded, Replicated,
         Action
<1>2. PInv /\ SnapshotInv /\ [Next]_vars => SnapshotInv'
  BY NextSnapshot
<1>3. SnapshotInv => ActionsFollowOneSnapshot
  BY DEF SnapshotInv
<1> QED BY <1>1, <1>2, <1>3, PInvAlways, PTL DEF Spec

\* What POST /set stored last is in force, over any updates and restarts of
\* rules (services/rules/server.js:138-157).
THEOREM StoredRulesAreInForce == Spec => []StoredRuleInForce
<1>1. Init => StoredRuleInForce
  BY DEF Init, StoredRuleInForce
<1>2. ASSUME PInv, StoredRuleInForce, [Next]_vars
      PROVE  StoredRuleInForce'
  <2>1. CASE UNCHANGED <<RULES, HISTORY_RULE>>
    BY <1>2, <2>1 DEF StoredRuleInForce
  <2>2. ASSUME NEW v \in RuleValue, SetRule(v)
        PROVE  StoredRuleInForce'
    BY <2>2 DEF SetRule, Merged, StoredRuleInForce
  <2>3. CASE RestartRules
    BY <2>3 DEF RestartRules, StoredRuleInForce
  <2>4. CASE ~RestartRules /\ ~\E v \in RuleValue : SetRule(v)
    BY <1>2, <2>1, <2>4
       DEF Next, vars, Receive, EventStep, StoreAnswered, EnqueueAnswered, PollerStep,
           DequeueAnswered, ActionAnswered, Serve, HandleStore, HandleEnqueue, HandleDequeue,
           HandleReplicate, HandleLog, HandleRecord, Tick, Fault, LoseCall, LoseReply,
           RestartEvent, RestartStorage, RestartQueue, RestartLogging, RestartAnalytics, rulesVars
  <2> QED BY <2>2, <2>3, <2>4
<1> QED BY <1>1, <1>2, PInvAlways, PTL DEF Spec

-----------------------------------------------------------------------------
\* The order of items

Earlier(s, x, y) == \E i, j \in 1..Len(s) : i < j /\ s[i] = x /\ s[j] = y

\* What was taken out earlier was accepted earlier, in the queue and in hand.
InOrder ==
    /\ \A i, j \in 1..Len(Q!Items("history")) :
           i < j => Earlier(accepted, Q!Items("history")[i], Q!Items("history")[j])
    /\ \A x \in InHand, y \in Queued : Earlier(accepted, x, y)

LEMMA EarlierStays ==
    ASSUME accepted \in Seq(Item), NEW z \in Item, accepted' = Append(accepted, z)
    PROVE  /\ \A x, y : Earlier(accepted, x, y) => Earlier(accepted', x, y)
           /\ \A x \in Accepted : Earlier(accepted', x, z)
<1>1. /\ Len(accepted') = Len(accepted) + 1 /\ Len(accepted) \in Nat
      /\ \A i \in 1..Len(accepted) : accepted'[i] = accepted[i]
      /\ accepted'[Len(accepted) + 1] = z
  OBVIOUS
<1>2. \A i \in 1..Len(accepted) : /\ i \in 1..Len(accepted') /\ i < Len(accepted) + 1
                                  /\ Len(accepted) + 1 \in 1..Len(accepted')
  BY <1>1
<1>3. ASSUME NEW x, NEW y, Earlier(accepted, x, y) PROVE Earlier(accepted', x, y)
  BY <1>1, <1>2, <1>3 DEF Earlier
<1>4. ASSUME NEW x \in Accepted PROVE Earlier(accepted', x, z)
  BY <1>1, <1>2 DEF Earlier, Accepted
<1> QED BY <1>3, <1>4

\* Items that are lost, or none: the flow loses them, or stutters.
LEMMA LosingIsAFlow ==
    ASSUME UNCHANGED <<accepted, evaluated>>,
           Queued' \cup InHand' \subseteq Queued \cup InHand
    PROVE  Flow!Next
BY DEF Flow!Next, Flow!Lose

LEMMA QuietFlow ==
    ASSUME InOrder, Quiet
    PROVE  InOrder' /\ Flow!Next
<1>1. Queued' \subseteq Queued
  BY DEF Quiet, Queued, Q!Items
<1>2. \A x, y : Earlier(accepted', x, y) = Earlier(accepted, x, y)
  BY DEF Quiet, Earlier
<1>3. (\A i, j \in 1..Len(Q!Items("history")) :
          i < j => Earlier(accepted, Q!Items("history")[i], Q!Items("history")[j]))'
  <2>1. CASE QUEUES' = QUEUES
    <3>1. Q!Items("history")' = Q!Items("history")
      BY <2>1 DEF Q!Items
    <3> QED BY <1>2, <3>1 DEF InOrder
  <2>2. CASE QUEUES' = [q \in {} |-> <<>>]
    <3>1. Q!Items("history")' = <<>>
      BY <2>2 DEF Q!Items
    <3> QED BY <3>1
  <2> QED BY <2>1, <2>2 DEF Quiet
<1>4. (\A x \in InHand, y \in Queued : Earlier(accepted, x, y))'
  BY <1>1, <1>2 DEF InOrder, Quiet
<1> QED BY <1>1, <1>3, <1>4, LosingIsAFlow DEF InOrder, Quiet

\* The queue takes an item in: it comes after all others, and a full queue
\* gives up its first.
LEMMA EnqueueFlow ==
    ASSUME PInv, OneItemEach, InOrder, NEW c \in calls, HandleEnqueue(c)
    PROVE  InOrder' /\ Flow!Next
<1> DEFINE x == c.body
           old == Q!Items("history")
           new == PushBounded(old, x, MAX_QUEUE_SIZE)
           t == Append(old, x)
           gone == IF new = t THEN {} ELSE {old[1]}
<1>1. /\ x \in Item /\ \A y \in Accepted : y.by # x.by
      /\ accepted' = Append(accepted, x) /\ evaluated' = evaluated
      /\ Q!QueuesTypeOK /\ accepted \in Seq(Item) /\ Respond(c, 200, NoItem) /\ c.op = "enqueue"
  BY CallFields
     DEF HandleEnqueue, rulesVars, PInv, TypeOK, QueueTypes, NetTypes, OneItemEach
<1>2. InHand' = InHand
  <2>1. \A r \in replies' \ replies : r.op # "dequeue"
    BY <1>1, RespondNew
  <2>2. replies \subseteq replies'
    BY <1>1 DEF Respond
  <2> QED BY <2>1, <2>2 DEF InHand
<1>3. old \in Seq(Item) /\ NoRepeat(old) /\ Queued = {old[i] : i \in 1..Len(old)}
  BY <1>1, ItemsType DEF OneItemEach, Queued
<1>4. Q!Items("history")' = new
  <2>1. new \in Seq(Item)
    BY <1>1, <1>3, PushBoundedMembers
  <2>2. QUEUES' = Q!WithItems("history", new)
    BY QueuePush DEF HandleEnqueue, Q!Enqueue
  <2> HIDE DEF new
  <2> QED BY <1>1, <2>1, <2>2, WithItemsHistory
<1>5. Queued \subseteq Accepted
  BY DEF OneItemEach
<1>6. \A i, j : i < j /\ i \in 1..Len(old) /\ j \in 1..Len(old) => Earlier(accepted, old[i], old[j])
  BY DEF InOrder
<1> HIDE DEF x, old
<1>7. /\ t \in Seq(Item) /\ Len(t) = Len(old) + 1 /\ Len(old) \in Nat
      /\ \A i \in 1..Len(old) : t[i] = old[i]
      /\ t[Len(old) + 1] = x
  BY <1>1, <1>3
<1>8. \A i \in 1..Len(t) : i \in 1..Len(old) \/ i = Len(old) + 1
  BY <1>7
<1>9. (\A y, z : Earlier(accepted, y, z) => Earlier(accepted', y, z)) /\ \A y \in Accepted : Earlier(accepted', y, x)
  BY <1>1, EarlierStays
<1>10. \A i, j \in 1..Len(t) : i < j => Earlier(accepted', t[i], t[j])
  <2> SUFFICES ASSUME NEW i \in 1..Len(t), NEW j \in 1..Len(t), i < j
               PROVE  Earlier(accepted', t[i], t[j])
    OBVIOUS
  <2>1. i \in 1..Len(old) /\ t[i] = old[i] /\ old[i] \in Accepted
    BY <1>3, <1>5, <1>7
  <2>2. CASE j \in 1..Len(old)
    BY <1>6, <1>7, <1>9, <2>1, <2>2
  <2>3. CASE j = Len(old) + 1
    BY <1>7, <1>9, <2>1, <2>3
  <2> QED BY <1>8, <2>2, <2>3
<1>11. /\ new = t \/ (new = Tail(t) /\ Len(t) > MAX_QUEUE_SIZE)
       /\ MAX_QUEUE_SIZE \in Nat \ {0}
  BY PipelineAssumption DEF PushBounded
<1>12. /\ (\A i, j \in 1..Len(new) : i < j => Earlier(accepted', new[i], new[j]))
       /\ {new[i] : i \in 1..Len(new)} = (Queued \ gone) \cup {x}
       /\ gone \subseteq Queued /\ \A y, z \in gone : y = z
  <2>1. CASE new = t
    <3>1. {t[i] : i \in 1..Len(t)} = Queued \cup {x}
      BY <1>3, <1>7, <1>8
    <3> QED BY <1>10, <2>1, <3>1
  <2>2. CASE new # t
    <3>1. new = Tail(t) /\ Len(t) > 1 /\ gone = {old[1]} /\ 1 \in 1..Len(old)
      BY <1>7, <1>11, <2>2
    <3>2. /\ Len(Tail(t)) = Len(old)
          /\ \A i \in 1..Len(old) : Tail(t)[i] = t[i + 1] /\ i + 1 \in 1..Len(t)
      BY <1>7, <3>1
    <3> HIDE DEF new, gone, t
    <3>3. \A i, j \in 1..Len(new) : i < j => Earlier(accepted', new[i], new[j])
      <4> SUFFICES ASSUME NEW i \in 1..Len(new), NEW j \in 1..Len(new), i < j
                   PROVE  Earlier(accepted', new[i], new[j])
        OBVIOUS
      <4>1. /\ new[i] = t[i + 1] /\ new[j] = t[j + 1] /\ i + 1 < j + 1
            /\ i + 1 \in 1..Len(t) /\ j + 1 \in 1..Len(t)
        BY <3>1, <3>2
      <4> QED BY <1>10, <4>1
    <3>4. old[1] \in Queued
      BY <1>3, <3>1
    <3>5. \A i \in 1..Len(new) : new[i] \in (Queued \ {old[1]}) \cup {x}
      <4> SUFFICES ASSUME NEW i \in 1..Len(new), new[i] # x
                   PROVE  new[i] \in Queued \ {old[1]}
        OBVIOUS
      <4>1. i + 1 \in 1..Len(old) /\ new[i] = old[i + 1] /\ i + 1 # 1
        BY <1>7, <1>8, <3>1, <3>2
      <4> QED BY <1>3, <3>1, <4>1 DEF NoRepeat
    <3>6. \A y \in Queued \ {old[1]} : \E i \in 1..Len(new) : new[i] = y
      <4> SUFFICES ASSUME NEW k \in 1..Len(old), k # 1
                   PROVE  \E i \in 1..Len(new) : new[i] = old[k]
        BY <1>3
      <4>1. k - 1 \in 1..Len(old) /\ (k - 1) + 1 = k
        BY <1>7
      <4>2. new[k - 1] = t[k] /\ t[k] = old[k]
        BY <1>7, <3>1, <3>2, <4>1
      <4> QED BY <3>1, <3>2, <4>1, <4>2
    <3>7. Len(old) \in 1..Len(new) /\ new[Len(old)] = x
      BY <1>7, <3>1, <3>2
    <3> QED BY <3>1, <3>3, <3>4, <3>5, <3>6, <3>7
  <2> QED BY <2>1, <2>2
<1>13. Queued' = (Queued \ gone) \cup {x}
  <2> HIDE DEF new, gone
  <2> QED BY <1>4, <1>12 DEF Queued
<1>14. InOrder'
  <2>1. (\A y \in InHand, z \in Queued : Earlier(accepted, y, z))'
    <3> SUFFICES ASSUME NEW y \in InHand, NEW z \in Queued \cup {x}
                 PROVE  Earlier(accepted', y, z)
      BY <1>2, <1>13
    <3>1. CASE z \in Queued
      BY <1>9, <3>1 DEF InOrder
    <3>2. CASE z = x
      BY <1>9, <3>2 DEF OneItemEach
    <3> QED BY <3>1, <3>2
  <2> HIDE DEF new
  <2> QED BY <1>4, <1>12, <2>1 DEF InOrder
<1>15. Flow!Accept(x)
  <2> HIDE DEF gone, new, t
  <2>1. x \notin Flow!Members(accepted)
    BY <1>1 DEF Flow!Members, Accepted
  <2>2. Queued' \cup InHand' = ((Queued \cup InHand) \ gone) \cup {x}
    BY <1>2, <1>12, <1>13 DEF OneItemEach, Apart
  <2>3. gone \in SUBSET (Queued \cup InHand)
    BY <1>12
  <2> QED BY <1>1, <1>12, <2>1, <2>2, <2>3 DEF Flow!Accept
<1> QED BY <1>1, <1>14, <1>15 DEF Flow!Next

\* The first item leaves the queue, for the hand of the loop or for nobody.
LEMMA DequeueFlow ==
    ASSUME PInv, InOrder, NEW c \in calls, HandleDequeue(c)
    PROVE  InOrder' /\ Flow!Next
<1> DEFINE old == Q!Items("history")
           x == Q!DequeueResult("history")
           new == IF old = <<>> THEN <<>> ELSE Tail(old)
<1>1. /\ UNCHANGED <<accepted, evaluated>> /\ Q!QueuesTypeOK
      /\ Respond(c, 200, x) /\ QUEUES' = Q!WithItems("history", new)
      /\ Q!Dequeue("history")
  BY DEF HandleDequeue, rulesVars, PInv, TypeOK, QueueTypes, Q!Dequeue
<1>2. old \in Seq(Item) /\ Queued = {old[i] : i \in 1..Len(old)}
  BY <1>1, ItemsType DEF Queued
<1>3. \A i, j \in 1..Len(old) : i < j => Earlier(accepted, old[i], old[j])
  BY DEF InOrder
<1>4. \A r \in replies' \ replies : r.body = x
  BY <1>1, RespondNew
<1>5. InHand' \subseteq InHand \cup ({x} \ {NoItem})
  BY <1>4 DEF InHand
<1>6. x = IF old = <<>> THEN NoItem ELSE Head(old)
  BY DEF Q!DequeueResult
<1> HIDE DEF x, old
<1>7. \A y, z : Earlier(accepted', y, z) = Earlier(accepted, y, z)
  BY <1>1 DEF Earlier
<1>8. /\ new \in Seq(Item)
      /\ \A i \in 1..Len(new) : /\ i + 1 \in 1..Len(old) /\ new[i] = old[i + 1]
                                /\ x = old[1] /\ 1 \in 1..Len(old) /\ 1 < i + 1
      /\ x # NoItem => x \in Queued
  <2>1. CASE old = <<>>
    BY <1>6, <2>1
  <2>2. CASE old # <<>>
    <3>1. /\ Len(Tail(old)) = Len(old) - 1 /\ Len(old) \in Nat /\ Tail(old) \in Seq(Item)
          /\ \A i \in 1..Len(Tail(old)) : Tail(old)[i] = old[i + 1]
          /\ 1 \in 1..Len(old) /\ x = old[1]
      BY <1>2, <1>6, <2>2
    <3> QED BY <1>2, <2>2, <3>1
  <2> QED BY <2>1, <2>2
<1> HIDE DEF new
<1>9. Q!Items("history")' = new /\ Queued' = {new[i] : i \in 1..Len(new)}
  <2>1. Q!Items("history")' = new
    BY <1>1, <1>8, WithItemsHistory
  <2> QED BY <2>1 DEF Queued
<1>10. Queued' \subseteq Queued /\ \A y \in Queued' : x # NoItem => Earlier(accepted, x, y)
  BY <1>2, <1>3, <1>8, <1>9
<1>11. \A i, j \in 1..Len(new) : i < j => Earlier(accepted, new[i], new[j])
  <2> SUFFICES ASSUME NEW i \in 1..Len(new), NEW j \in 1..Len(new), i < j
               PROVE  Earlier(accepted, new[i], new[j])
    OBVIOUS
  <2>1. new[i] = old[i + 1] /\ new[j] = old[j + 1] /\ i + 1 < j + 1
    BY <1>8
  <2> QED BY <1>3, <1>8, <2>1
<1>12. InOrder'
  BY <1>5, <1>7, <1>9, <1>10, <1>11 DEF InOrder
<1>13. Queued' \cup InHand' \subseteq Queued \cup InHand
  BY <1>5, <1>8, <1>10
<1> QED BY <1>1, <1>12, <1>13, LosingIsAFlow

\* The evaluation of the item in hand begins: nothing that waits is older.
LEMMA EvaluateFlow ==
    ASSUME PInv, OneItemEach, InOrder, NEW r \in replies, Begins(r)
    PROVE  InOrder' /\ Flow!Next
<1> DEFINE e == [item |-> r.body, cfg |-> HISTORY_RULE]
           done == [i \in 1..Len(evaluated) |-> evaluated[i].item]
<1>1. /\ r.op = "dequeue" /\ evaluated' = Append(evaluated, e) /\ r.body \in Item
      /\ UNCHANGED <<accepted, QUEUES>> /\ r.body # NoItem
      /\ EnterPhase(r, FirstAction(HISTORY_RULE), r.body, HISTORY_RULE)
  BY ReplyFields DEF Begins, DequeueAnswered, queueVars, PInv, TypeOK, NetTypes
<1>2. e.item = r.body /\ e \in Evaluation /\ evaluated \in Seq(Evaluation)
  BY <1>1 DEF Evaluation, PInv, TypeOK, RulesTypes
<1> HIDE DEF e
<1>3. InHand = {r.body} /\ InHand' = {}
  <2>1. RulesReplies = {r} /\ replies' \subseteq replies \ {r}
    BY <1>1, Ops DEF PInv, OneCallOut, RulesReplies, EnterPhase, Resume
  <2> QED BY <1>1, <2>1, Ops DEF InHand, RulesReplies
<1>4. Queued' = Queued /\ Q!Items("history")' = Q!Items("history")
  BY <1>1 DEF Queued, Q!Items
<1>5. \A x, y : Earlier(accepted', x, y) = Earlier(accepted, x, y)
  BY <1>1
<1>6. InOrder'
  BY <1>3, <1>4, <1>5 DEF InOrder
<1>7. done' = Append(done, r.body)
  <2>1. /\ Len(evaluated') = Len(evaluated) + 1 /\ Len(evaluated) \in Nat
        /\ \A i \in 1..Len(evaluated) : evaluated'[i] = evaluated[i]
        /\ evaluated'[Len(evaluated) + 1] = e
    BY <1>1, <1>2
  <2>2. \A i \in 1..Len(evaluated) : evaluated[i].item \in Item
    <3>1. \A i \in 1..Len(evaluated) : evaluated[i] \in Evaluation
      BY <1>2
    <3>2. \A f \in Evaluation : f.item \in Item
      BY DEF Evaluation
    <3> QED BY <3>1, <3>2
  <2>3. done \in Seq(Item) /\ Len(done) = Len(evaluated)
    <3>1. done \in [1..Len(evaluated) -> Item] /\ Len(evaluated) \in Nat
      BY <2>1, <2>2
    <3> HIDE DEF done
    <3> QED BY <3>1
  <2>4. Append(done, r.body) =
            [i \in 1..(Len(evaluated) + 1) |->
                IF i = Len(evaluated) + 1 THEN r.body ELSE done[i]]
    BY <2>1, <2>3
  <2>5. \A i \in 1..(Len(evaluated) + 1) :
            evaluated'[i].item = IF i = Len(evaluated) + 1 THEN r.body ELSE done[i]
    BY <1>2, <2>1
  <2> QED BY <2>1, <2>4, <2>5
<1> HIDE DEF done
<1>8. Flow!Evaluate(r.body)
  <2>1. \A y \in (Queued \cup InHand) \ {r.body} : Flow!Before(r.body, y)
    BY <1>3 DEF InOrder, Earlier, Flow!Before
  <2>2. Queued' \cup InHand' = (Queued \cup InHand) \ {r.body}
    BY <1>3, <1>4 DEF OneItemEach, Apart
  <2> QED BY <1>1, <1>3, <1>7, <2>1, <2>2 DEF Flow!Evaluate, done
<1> QED BY <1>1, <1>6, <1>8 DEF Flow!Next

\* Seen from the queue, six processes, their messages and their faults come to
\* this: items are accepted once each, may be lost while they wait, and are
\* evaluated once, in the order in which they were accepted.
THEOREM PipelineImplementsFlow == Spec => ImplementsFlow
<1>1. Init => Flow!Init /\ InOrder
  BY DEF Init, Flow!Init, InOrder, Queued, InHand, Q!Items
<1>2. ASSUME PInv, OneItemEach, InOrder, [Next]_vars
      PROVE  InOrder' /\ [Flow!Next]_(Flow!flowVars)
  BY <1>2, ItemSteps, QuietFlow, EnqueueFlow, DequeueFlow, EvaluateFlow
<1>3. Spec => [](PInv /\ OneItemEach)
  BY OneItemAlways, PTL
<1> QED BY <1>1, <1>2, <1>3, PTL DEF Spec, ImplementsFlow, Flow!Spec

-----------------------------------------------------------------------------
\* What is lost without faults

\* As long as nothing fails, every answer is one of a handler that ran; what
\* was accepted is still somewhere, unless the queue overflowed.
NothingFailed == \A r \in replies : r.status # 500
NothingLost ==
    Len(accepted) <= MAX_QUEUE_SIZE => Accepted \subseteq Queued \cup InHand \cup Evaluated
Undisturbed == Faults = 0 => NothingFailed /\ NothingLost

\* Faults only grow: there was none before a state without any, and its step
\* was none.
LEMMA NoFault ==
    ASSUME TypeOK, [Next]_vars, Faults' = 0
    PROVE  /\ Faults = 0 /\ ~Fault
           /\ \A s \in Process : restarts[s] = 0
           /\ UNCHANGED faultVars
<1>0. /\ losses \in Nat /\ restarts \in [Process -> Nat]
      /\ Process = {"event", "storage", "queue", "rules", "logging", "analytics"}
  BY DEF TypeOK, FaultTypes, Process
<1>1. UNCHANGED faultVars \/ Fault
  BY DEF Next, vars, Receive, EventStep, StoreAnswered, EnqueueAnswered, PollerStep,
         DequeueAnswered, ActionAnswered, Serve, HandleStore, HandleEnqueue, HandleDequeue,
         HandleReplicate, HandleLog, HandleRecord, Tick, SetRule
<1>2. ASSUME Fault PROVE \/ losses' = losses + 1 /\ restarts' = restarts
                         \/ \E s \in Process : restarts' = [restarts EXCEPT ![s] = @ + 1]
                                               /\ losses' = losses
  BY <1>0, <1>2 DEF Fault, LoseCall, LoseReply, Lose, RestartEvent, RestartStorage, RestartQueue,
              RestartRules, RestartLogging, RestartAnalytics, Restarted
<1>3. ~Fault
  <2> SUFFICES ASSUME Fault PROVE FALSE
    OBVIOUS
  <2>1. \A s \in Process : restarts[s] \in Nat
    BY <1>0
  <2>2. /\ losses' \in Nat /\ \A s \in Process : restarts'[s] \in Nat
    BY <1>0, <1>2
  <2>3. losses' = 0 /\ \A s \in Process : restarts'[s] = 0
    <3>1. PICK l \in Nat : l = losses'
      BY <2>2
    <3>2. PICK a \in Nat : a = restarts'["event"]
      BY <1>0, <2>2
    <3>3. PICK b \in Nat : b = restarts'["storage"]
      BY <1>0, <2>2
    <3>4. PICK c \in Nat : c = restarts'["queue"]
      BY <1>0, <2>2
    <3>5. PICK d \in Nat : d = restarts'["rules"]
      BY <1>0, <2>2
    <3>6. PICK e \in Nat : e = restarts'["logging"]
      BY <1>0, <2>2
    <3>7. PICK f \in Nat : f = restarts'["analytics"]
      BY <1>0, <2>2
    <3>8. l + a + b + c + d + e + f = 0
      BY <3>1, <3>2, <3>3, <3>4, <3>5, <3>6, <3>7 DEF Faults
    <3>9. l = 0 /\ a = 0 /\ b = 0 /\ c = 0 /\ d = 0 /\ e = 0 /\ f = 0
      BY <3>8
    <3> QED BY <1>0, <3>1, <3>2, <3>3, <3>4, <3>5, <3>6, <3>7, <3>9
  <2> QED BY <1>0, <1>2, <2>1, <2>3
<1>4. Faults = 0
  BY <1>1, <1>3 DEF Faults, faultVars
<1> QED BY <1>0, <1>1, <1>3, <1>4 DEF Faults

\* A sequence of distinct publications is no longer than one that has them all.
LEMMA DistinctFit ==
    ASSUME NEW s \in Seq(Item), NEW t \in Seq(Item), NoRepeat(s),
           \A i \in 1..Len(s) : \E j \in 1..Len(t) : s[i] = t[j]
    PROVE  Len(s) <= Len(t)
<1> DEFINE f == [i \in 1..Len(s) |-> CHOOSE j \in 1..Len(t) : s[i] = t[j]]
<1>1. \A i \in 1..Len(s) : f[i] \in 1..Len(t) /\ s[i] = t[f[i]]
  OBVIOUS
<1>2. f \in [1..Len(s) -> 1..Len(t)]
  BY <1>1
<1> HIDE DEF f
<1>3. f \in Injection(1..Len(s), 1..Len(t))
  <2>1. ASSUME NEW a \in 1..Len(s), NEW b \in 1..Len(s), f[a] = f[b] PROVE a = b
    <3>1. s[a] = s[b]
      BY <1>1, <2>1
    <3>2. s[a].by = s[b].by
      BY <3>1
    <3> QED BY <3>2 DEF NoRepeat
  <2>2. DOMAIN f = 1..Len(s)
    BY <1>2
  <2>3. IsInjective(f)
    BY <2>1, <2>2 DEF IsInjective
  <2> QED BY <1>2, <2>3 DEF Injection
<1>4. /\ Len(s) \in Int /\ Len(t) \in Int /\ 1 \in Int
      /\ Len(s) = (IF 1 > Len(s) THEN 0 ELSE Len(s) - 1 + 1)
      /\ Len(t) = (IF 1 > Len(t) THEN 0 ELSE Len(t) - 1 + 1)
  OBVIOUS
<1>5. /\ IsFiniteSet(1..Len(s)) /\ Cardinality(1..Len(s)) = Len(s)
      /\ IsFiniteSet(1..Len(t)) /\ Cardinality(1..Len(t)) = Len(t)
  BY <1>4, FS_Interval
<1> QED BY <1>3, <1>5, FS_Injection

\* What is pushed within the bound pushes nothing out.
LEMMA PushedKeepsAll ==
    ASSUME NEW s \in Seq(Item), NEW x \in Item, NEW max \in Nat, Len(s) < max
    PROVE  {PushBounded(s, x, max)[i] : i \in 1..Len(PushBounded(s, x, max))}
               = {s[i] : i \in 1..Len(s)} \cup {x}
<1>1. Len(Append(s, x)) = Len(s) + 1 /\ Len(s) \in Nat
  OBVIOUS
<1>2. PushBounded(s, x, max) = Append(s, x)
  BY <1>1 DEF PushBounded
<1>3. /\ \A i \in 1..Len(s) : Append(s, x)[i] = s[i]
      /\ Append(s, x)[Len(s) + 1] = x
  OBVIOUS
<1>4. \A i \in 1..(Len(s) + 1) : i \in 1..Len(s) \/ i = Len(s) + 1
  BY <1>1
<1>5. {Append(s, x)[i] : i \in 1..(Len(s) + 1)} = {s[i] : i \in 1..Len(s)} \cup {x}
  BY <1>1, <1>3, <1>4
<1> QED BY <1>1, <1>2, <1>5

\* An accepted item that the queue has room for is added to it.
LEMMA EnqueueFits ==
    ASSUME PInv, AnswersInv, OneItemEach, NEW c \in calls, HandleEnqueue(c),
           Len(accepted') <= MAX_QUEUE_SIZE
    PROVE  Queued' = Queued \cup {c.body} /\ Len(accepted) <= MAX_QUEUE_SIZE
<1> DEFINE x == c.body
           old == Q!Items("history")
<1>1. /\ c.op = "enqueue" /\ x \in Item /\ x.by = c.from /\ \A y \in Accepted : y.by # x.by
      /\ accepted \in Seq(Item) /\ accepted' = Append(accepted, x) /\ Q!QueuesTypeOK
      /\ MAX_QUEUE_SIZE \in Nat
  BY CallFields, PipelineAssumption
     DEF HandleEnqueue, PInv, TypeOK, NetTypes, OneItemEach, QueueTypes
<1>2. old \in Seq(Item) /\ NoRepeat(old)
  BY <1>1, ItemsType DEF OneItemEach
<1>3. QUEUES' = Q!WithItems("history", PushBounded(old, x, MAX_QUEUE_SIZE))
  BY QueuePush DEF HandleEnqueue, Q!Enqueue
<1>4. Queued = {old[i] : i \in 1..Len(old)}
  BY DEF Queued
<1>5. \A i \in 1..Len(old) : old[i] \in Accepted
  BY <1>4 DEF OneItemEach
<1> HIDE DEF old, x
<1>6. NoRepeat(Append(old, x))
  BY <1>1, <1>2, <1>5, DistinctAppend
<1>7. /\ Append(old, x) \in Seq(Item) /\ Len(Append(old, x)) = Len(old) + 1 /\ Len(old) \in Nat
      /\ \A i \in 1..Len(old) : Append(old, x)[i] = old[i]
      /\ Append(old, x)[Len(old) + 1] = x
  BY <1>1, <1>2
<1>8. /\ Append(accepted, x) \in Seq(Item) /\ Len(Append(accepted, x)) = Len(accepted) + 1
      /\ Len(accepted) \in Nat
      /\ \A i \in 1..Len(accepted) : Append(accepted, x)[i] = accepted[i]
      /\ Append(accepted, x)[Len(accepted) + 1] = x
  BY <1>1
<1>9. \A i \in 1..Len(Append(old, x)) :
          \E j \in 1..Len(Append(accepted, x)) : Append(old, x)[i] = Append(accepted, x)[j]
  <2> SUFFICES ASSUME NEW i \in 1..Len(Append(old, x))
               PROVE  \E j \in 1..Len(Append(accepted, x)) :
                          Append(old, x)[i] = Append(accepted, x)[j]
    OBVIOUS
  <2>1. CASE i \in 1..Len(old)
    <3>1. PICK j \in 1..Len(accepted) : old[i] = accepted[j]
      BY <1>5, <2>1 DEF Accepted
    <3>2. j \in 1..Len(Append(accepted, x))
      BY <1>8
    <3> QED BY <1>7, <1>8, <2>1, <3>1, <3>2
  <2>2. CASE i = Len(old) + 1
    BY <1>7, <1>8, <2>2
  <2> QED BY <1>7, <2>1, <2>2
<1>10. Len(old) + 1 <= Len(accepted) + 1
  BY <1>6, <1>7, <1>8, <1>9, DistinctFit
<1>11. Len(old) < MAX_QUEUE_SIZE /\ Len(accepted) <= MAX_QUEUE_SIZE
  BY <1>1, <1>7, <1>8, <1>10
<1> DEFINE new == PushBounded(old, x, MAX_QUEUE_SIZE)
<1>12. new \in Seq(Item) /\ {new[i] : i \in 1..Len(new)} = {old[i] : i \in 1..Len(old)} \cup {x}
  BY <1>1, <1>2, <1>11, PushedKeepsAll, PushBoundedMembers
<1> HIDE DEF new
<1>13. Q!Items("history")' = new
  BY <1>1, <1>3, <1>12, WithItemsHistory DEF new
<1>14. Queued' = {new[i] : i \in 1..Len(new)}
  BY <1>13 DEF Queued
<1> QED BY <1>4, <1>11, <1>12, <1>14 DEF x

\* The items in hand stay there.
LEMMA HeldStay ==
    (\A r \in replies \ replies' : r.op # "dequeue" \/ r.body = NoItem) => InHand \subseteq InHand'
BY DEF InHand

\* Steps without a fault after which items are where they were
LEMMA StayingLosesNothing ==
    ASSUME NothingLost, UNCHANGED <<accepted, evaluated, QUEUES>>,
           \A r \in replies \ replies' : r.op # "dequeue" \/ r.body = NoItem
    PROVE  NothingLost'
<1>1. Accepted' = Accepted /\ Queued' = Queued /\ Evaluated' = Evaluated
  BY PlacesStay DEF Accepted
<1>2. InHand \subseteq InHand'
  BY HeldStay
<1> QED BY <1>1, <1>2 DEF NothingLost

LEMMA EnqueueLosesNothing ==
    ASSUME PInv, AnswersInv, OneItemEach, NothingLost, NEW c \in calls, HandleEnqueue(c)
    PROVE  NothingLost'
<1> SUFFICES ASSUME Len(accepted') <= MAX_QUEUE_SIZE
             PROVE  Accepted' \subseteq Queued' \cup InHand' \cup Evaluated'
  BY DEF NothingLost
<1>1. Queued' = Queued \cup {c.body} /\ Len(accepted) <= MAX_QUEUE_SIZE
  BY EnqueueFits
<1>2. Accepted' \subseteq Accepted \cup {c.body}
  BY CallFields DEF Accepted, HandleEnqueue, PInv, TypeOK, QueueTypes, NetTypes
<1>3. InHand \subseteq InHand' /\ Evaluated' = Evaluated
  <2>1. replies \subseteq replies' /\ evaluated' = evaluated
    BY DEF HandleEnqueue, Respond, rulesVars
  <2> QED BY <2>1, HeldStay, PlacesStay
<1> QED BY <1>1, <1>2, <1>3 DEF NothingLost

\* The loop still waits for what the queue hands out.
LEMMA DequeueLosesNothing ==
    ASSUME PInv, NothingLost, restarts["rules"] = 0, NEW c \in calls, HandleDequeue(c)
    PROVE  NothingLost'
<1> DEFINE old == Q!Items("history")
           x == Q!DequeueResult("history")
<1>1. /\ accepted' = accepted /\ evaluated' = evaluated /\ Q!QueuesTypeOK
      /\ Respond(c, 200, x) /\ Q!Dequeue("history") /\ c.op = "dequeue"
  BY DEF HandleDequeue, rulesVars, PInv, TypeOK, QueueTypes
<1>2. old \in Seq(Item)
  BY <1>1, ItemsType
<1>3. Waiting(c)
  <2>1. c.from \in Nat /\ c.from <= 0
    BY <1>1, CallFields, Ops DEF PInv, TypeOK, NetTypes, OneCallOut
  <2>2. c.from = 0
    BY <2>1
  <2> QED BY <1>1, <2>2 DEF Waiting
<1> DEFINE a == [op |-> "dequeue", from |-> c.from, status |-> 200, body |-> x]
<1>4. replies' = replies \cup {a} /\ a.op = "dequeue" /\ a.body = x
  BY <1>1, <1>3 DEF Respond
<1> HIDE DEF a
<1>5. InHand' = InHand \cup ({x} \ {NoItem})
  BY <1>4 DEF InHand
<1>6. Queued \subseteq Queued' \cup ({x} \ {NoItem})
  <2>1. CASE old = <<>>
    BY <2>1 DEF Queued
  <2>2. CASE old # <<>>
    <3>1. x = old[1] /\ QUEUES' = Q!WithItems("history", Tail(old)) /\ Tail(old) \in Seq(Item)
      BY <1>1, <1>2, <2>2 DEF Q!DequeueResult, Q!Dequeue
    <3>2. Q!Items("history")' = Tail(old)
      BY <1>1, <3>1, WithItemsHistory
    <3>3. x # NoItem
      <4>1. 1 \in 1..Len(old)
        BY <1>2, <2>2
      <4>2. x \in Item
        BY <1>2, <3>1, <4>1
      <4> QED BY <4>2, NoItemAssumption
    <3>4. Queued = {old[i] : i \in 1..Len(old)}
      BY DEF Queued
    <3> HIDE DEF old, x
    <3>5. \A i \in 1..Len(old) : i = 1 \/ (i - 1 \in 1..Len(Tail(old)) /\ old[i] = Tail(old)[i - 1])
      BY <1>2, <2>2
    <3>6. Queued' = {Tail(old)[i] : i \in 1..Len(Tail(old))}
      BY <3>2 DEF Queued
    <3>7. ASSUME NEW i \in 1..Len(old) PROVE old[i] \in Queued' \cup {x}
      BY <3>1, <3>5, <3>6
    <3> QED BY <3>3, <3>4, <3>7
  <2> QED BY <2>1, <2>2
<1>7. Accepted' = Accepted /\ Evaluated' = Evaluated
  BY <1>1, PlacesStay DEF Accepted
<1> HIDE DEF x
<1> QED BY <1>1, <1>5, <1>6, <1>7 DEF NothingLost

LEMMA BeginningLosesNothing ==
    ASSUME PInv, OneItemEach, NothingLost, NEW r, Begins(r)
    PROVE  NothingLost'
<1>1. /\ Evaluated' = Evaluated \cup {r.body} /\ r.op = "dequeue"
      /\ UNCHANGED <<accepted, QUEUES>>
  BY EvaluationBegins DEF Begins, DequeueAnswered, queueVars
<1>2. replies' = replies \ {r}
  BY DEF Begins, DequeueAnswered, EnterPhase, Resume
<1>3. InHand \subseteq InHand' \cup {r.body}
  BY <1>2 DEF InHand
<1>4. Accepted' = Accepted /\ Queued' = Queued
  BY <1>1, PlacesStay DEF Accepted
<1> QED BY <1>1, <1>3, <1>4 DEF NothingLost

LEMMA NextLosesNothing ==
    ASSUME PInv, AnswersInv, OneItemEach, [Next]_vars, ~Fault, restarts["rules"] = 0,
           NothingFailed, NothingLost
    PROVE  NothingLost'
<1>1. CASE UNCHANGED vars
  <2>1. UNCHANGED <<accepted, evaluated, replies, QUEUES>>
    BY <1>1 DEF vars, queueVars, rulesVars, netVars
  <2> QED BY <2>1, StayingLosesNothing
<1>2. CASE Tick \/ (\E p \in Publish, r \in Request : Receive(p, r))
           \/ (\E v \in RuleValue : SetRule(v))
  <2>1. UNCHANGED <<accepted, evaluated, replies, QUEUES>>
    BY <1>2 DEF Tick, Receive, SetRule, queueVars, rulesVars, netVars
  <2> QED BY <2>1, StayingLosesNothing
<1>3. ASSUME NEW r \in replies, EventStep(r) \/ ActionAnswered(r) PROVE NothingLost'
  <2>1. r.op # "dequeue"
    BY <1>3, Ops DEF EventStep, StoreAnswered, EnqueueAnswered, ActionAnswered
  <2>2. UNCHANGED <<accepted, evaluated, QUEUES>> /\ replies' = replies \ {r}
    BY <1>3 DEF EventStep, StoreAnswered, EnqueueAnswered, ActionAnswered, EnterPhase, Resume,
                queueVars, rulesVars
  <2> QED BY <2>1, <2>2, StayingLosesNothing
<1>4. ASSUME NEW r \in replies, DequeueAnswered(r) PROVE NothingLost'
  <2>1. CASE r.status = 200 /\ r.body # NoItem
    BY <1>4, <2>1, BeginningLosesNothing DEF Begins
  <2>2. CASE ~(r.status = 200 /\ r.body # NoItem)
    <3>1. r.op = "dequeue" /\ r \in Reply
      BY <1>4 DEF DequeueAnswered, PInv, TypeOK, NetTypes
    <3>2. r.status = 200
      BY <3>1 DEF NothingFailed, Reply, Action
    <3>3. UNCHANGED <<accepted, evaluated, QUEUES>> /\ replies' = replies \ {r}
      BY <1>4, <2>2 DEF DequeueAnswered, EnterPhase, Resume, queueVars
    <3> QED BY <2>2, <3>2, <3>3, StayingLosesNothing
  <2> QED BY <2>1, <2>2
<1>5. ASSUME NEW c \in calls, Serve(c) PROVE NothingLost'
  <2>1. CASE HandleEnqueue(c) \/ HandleDequeue(c)
    BY <2>1, EnqueueLosesNothing, DequeueLosesNothing
  <2>2. CASE HandleStore(c) \/ HandleReplicate(c) \/ HandleLog(c) \/ HandleRecord(c)
    <3>1. UNCHANGED <<accepted, evaluated, QUEUES>> /\ replies \subseteq replies'
      BY <2>2 DEF HandleStore, HandleReplicate, HandleLog, HandleRecord, Respond, queueVars,
                  rulesVars
    <3> QED BY <3>1, StayingLosesNothing
  <2> QED BY <1>5, <2>1, <2>2 DEF Serve
<1> QED BY <1>1, <1>2, <1>3, <1>4, <1>5 DEF Next, PollerStep

\* Without a fault an answer is one of a handler.
LEMMA NextFailsNothing == ASSUME [Next]_vars, ~Fault, NothingFailed PROVE NothingFailed'
<1>1. CASE \E c \in calls : Serve(c)
  <2>0. PICK c \in calls : \E status \in {200, 400, 403} : \E body : Respond(c, status, body)
    BY <1>1 DEF Serve, HandleStore, HandleEnqueue, HandleDequeue, HandleReplicate, HandleLog,
                HandleRecord
  <2>1. PICK status \in {200, 400, 403} : \E body : Respond(c, status, body)
    BY <2>0
  <2>2. \A r \in replies' \ replies : r.status = status
    BY <2>1, RespondNew
  <2> QED BY <2>1, <2>2 DEF NothingFailed
<1>2. CASE ~\E c \in calls : Serve(c)
  <2>1. replies' \subseteq replies
    BY <1>2 DEF Next, vars, Receive, EventStep, StoreAnswered, EnqueueAnswered, PollerStep,
                DequeueAnswered, ActionAnswered, EnterPhase, Resume, Tick, SetRule, netVars
  <2> QED BY <2>1 DEF NothingFailed
<1> QED BY <1>1, <1>2

LEMMA NextUndisturbed ==
    ASSUME PInv, AnswersInv, OneItemEach, Undisturbed, [Next]_vars PROVE Undisturbed'
<1> SUFFICES ASSUME Faults' = 0 PROVE NothingFailed' /\ NothingLost'
  BY DEF Undisturbed
<1>1. Faults = 0 /\ ~Fault /\ restarts["rules"] = 0
  BY NoFault DEF PInv, Process
<1>2. NothingFailed /\ NothingLost
  BY <1>1 DEF Undisturbed
<1> QED BY <1>1, <1>2, NextFailsNothing, NextLosesNothing

\* Without faults only a full queue loses an accepted item
\* (services/queue/index.js:17-30, services/rules/server.js:95-115).
THEOREM OnlyFaultsAndFullQueuesLose == Spec => []LostOnlyByFaultOrFullQueue
<1>1. Init => Undisturbed
  BY DEF Init, Undisturbed, NothingFailed, NothingLost, Accepted
<1>2. PInv /\ AnswersInv /\ OneItemEach /\ Undisturbed /\ [Next]_vars => Undisturbed'
  BY NextUndisturbed
<1>3. OneItemEach /\ Undisturbed => LostOnlyByFaultOrFullQueue
  BY DEF OneItemEach, Undisturbed, NothingLost, LostOnlyByFaultOrFullQueue
<1> QED BY <1>1, <1>2, <1>3, OneItemAlways, PTL DEF Spec

-----------------------------------------------------------------------------
\* Answers are true

Restarting == RestartEvent \/ RestartStorage \/ RestartQueue \/ RestartRules \/ RestartLogging
                \/ RestartAnalytics
\* A step in which no call breaks
Lossless == Fault => Restarting

\* While no call breaks, the queue answers a handler of /publish only for an
\* item it accepted.
Enqueued(p) == stage[p] = "200" \/ \E r \in replies : r.op = "enqueue" /\ r.from = p
NothingInvented == \A p \in Publish : Enqueued(p) => \E x \in Accepted : x.by = p

\* The queue answers for what it accepted; nobody else ends a handler with 200.
LEMMA NextInventsNothing ==
    ASSUME PInv, OneItemEach, [Next]_vars, Lossless, NothingInvented
    PROVE  NothingInvented'
<1>0. Accepted \subseteq Accepted'
  <2>1. CASE \E c \in calls : HandleEnqueue(c)
    <3>1. PICK x : accepted' = Append(accepted, x) /\ x \in Item
      BY <2>1, CallFields DEF HandleEnqueue, PInv, TypeOK, NetTypes
    <3> QED BY <3>1 DEF Accepted, PInv, TypeOK, QueueTypes
  <2>2. CASE ~\E c \in calls : HandleEnqueue(c)
    <3>1. accepted' = accepted
      BY <2>2 DEF Next, vars, Receive, EventStep, StoreAnswered, EnqueueAnswered, PollerStep,
                  DequeueAnswered, ActionAnswered, Serve, HandleStore, HandleDequeue,
                  HandleReplicate, HandleLog, HandleRecord, Tick, SetRule, Lossless, Restarting,
                  RestartEvent, RestartStorage, RestartQueue, RestartRules, RestartLogging,
                  RestartAnalytics, queueVars
    <3> QED BY <3>1 DEF Accepted
  <2> QED BY <2>1, <2>2
<1>1. ASSUME NEW c \in calls, HandleEnqueue(c), NEW p \in Publish, Enqueued(p)'
      PROVE  \E x \in Accepted' : x.by = p
  <2>1. /\ c.op = "enqueue" /\ c.body \in Item /\ c.body.by = c.from
        /\ stage' = stage /\ accepted' = Append(accepted, c.body) /\ accepted \in Seq(Item)
        /\ \A r \in replies' \ replies : r.from = c.from
    BY <1>1, CallFields, RespondNew
       DEF HandleEnqueue, PInv, TypeOK, NetTypes, QueueTypes, OneItemEach, eventVars
  <2>2. c.body \in Accepted'
    <3>1. /\ Append(accepted, c.body)[Len(accepted) + 1] = c.body
          /\ Len(accepted) + 1 \in 1..Len(Append(accepted, c.body))
      BY <2>1
    <3> QED BY <2>1, <3>1 DEF Accepted
  <2>3. Enqueued(p) \/ p = c.from
    BY <1>1, <2>1 DEF Enqueued
  <2> QED BY <1>0, <2>1, <2>2, <2>3 DEF NothingInvented
<1>2. ASSUME ~\E c \in calls : HandleEnqueue(c), NEW p \in Publish, Enqueued(p)'
      PROVE  Enqueued(p)
  <2>1. \A r \in replies' \ replies : r.op # "enqueue"
    <3>1. CASE \E c \in calls : Serve(c)
      <4>1. PICK c \in calls : c.op # "enqueue" /\ \E status, body : Respond(c, status, body)
        BY <1>2, <3>1 DEF Serve, HandleStore, HandleDequeue, HandleReplicate, HandleLog,
                          HandleRecord
      <4> QED BY <4>1, RespondNew
    <3>2. CASE ~\E c \in calls : Serve(c)
      BY <3>2 DEF Next, vars, Receive, EventStep, StoreAnswered, EnqueueAnswered, PollerStep,
                  DequeueAnswered, ActionAnswered, EnterPhase, Resume, Tick, SetRule, Lossless,
                  Restarting, RestartEvent, RestartStorage, RestartQueue, RestartRules,
                  RestartLogging, RestartAnalytics, netVars
    <3> QED BY <3>1, <3>2
  <2>2. stage'[p] = "200" => stage[p] = "200" \/ \E r \in replies : r.op = "enqueue" /\ r.from = p
    <3> HAVE stage'[p] = "200"
    <3>0. stage \in [Publish -> {"new", "storing", "enqueuing", "gone"} \cup Answer]
      BY DEF PInv, TypeOK, EventTypes
    <3>1. CASE stage' = stage
      BY <3>1
    <3>2. ASSUME NEW q \in Publish, NEW r \in Request, Receive(q, r) PROVE stage[p] = "200"
      BY <3>0, <3>2 DEF Receive, FirstAnswer, Request, Form
    <3>3. ASSUME NEW r \in replies, StoreAnswered(r) PROVE stage[p] = "200"
      BY <3>0, <3>3 DEF StoreAnswered
    <3>4. ASSUME NEW r \in replies, EnqueueAnswered(r)
          PROVE  stage[p] = "200" \/ (r.op = "enqueue" /\ r.from = p)
      BY <3>0, <3>4 DEF EnqueueAnswered
    <3>5. \/ stage' = stage
          \/ RestartEvent
          \/ \E q \in Publish, r \in Request : Receive(q, r)
          \/ \E r \in replies : StoreAnswered(r) \/ EnqueueAnswered(r)
      BY DEF Next, vars, EventStep, PollerStep, DequeueAnswered, ActionAnswered, Serve,
             HandleStore, HandleEnqueue, HandleDequeue, HandleReplicate, HandleLog, HandleRecord,
             Tick, SetRule, Lossless, Restarting, RestartStorage, RestartQueue, RestartRules,
             RestartLogging, RestartAnalytics, eventVars
    <3>6. CASE RestartEvent
      BY <3>0, <3>6 DEF RestartEvent
    <3> QED BY <3>1, <3>2, <3>3, <3>4, <3>5, <3>6
  <2> QED BY <1>2, <2>1, <2>2 DEF Enqueued
<1>3. CASE \E c \in calls : HandleEnqueue(c)
  BY <1>1, <1>3 DEF NothingInvented
<1>4. CASE ~\E c \in calls : HandleEnqueue(c)
  BY <1>0, <1>2, <1>4 DEF NothingInvented
<1> QED BY <1>3, <1>4

\* Losses are counted: there was none before a state without any.
LEMMA NoLoss ==
    ASSUME TypeOK, [Next]_vars, losses' = 0
    PROVE  losses = 0 /\ Lossless
<1>0. losses \in Nat
  BY DEF TypeOK, FaultTypes
<1>1. CASE (\E c \in calls : LoseCall(c)) \/ (\E r \in replies : LoseReply(r))
  <2>1. losses' = losses + 1
    BY <1>1 DEF LoseCall, LoseReply, Lose
  <2> QED BY <1>0, <2>1
<1>2. CASE Restarting
  <2>1. losses' = losses
    BY <1>2 DEF Restarting, RestartEvent, RestartStorage, RestartQueue, RestartRules,
                RestartLogging, RestartAnalytics, Restarted
  <2> QED BY <1>2, <2>1 DEF Lossless
<1>3. CASE ~Fault
  <2>1. losses' = losses
    BY <1>3 DEF Next, vars, Receive, EventStep, StoreAnswered, EnqueueAnswered, PollerStep,
                DequeueAnswered, ActionAnswered, Serve, HandleStore, HandleEnqueue, HandleDequeue,
                HandleReplicate, HandleLog, HandleRecord, Tick, SetRule, faultVars
  <2> QED BY <1>3, <2>1 DEF Lossless
<1> QED BY <1>1, <1>2, <1>3 DEF Fault, Restarting

\* Answer and effects of a publication agree: one that was refused or failed is
\* nowhere, although a call of its handler may have been handled without its
\* knowing; one that was answered 200 is stored, and unless a call broke it was
\* accepted by the queue (services/event/server.js:118-170).
THEOREM AnswersAreTrue == Spec => []AnswerTellsTheTruth
<1> DEFINE Backed == losses = 0 => NothingInvented
<1>1. Init => Backed
  BY DEF Init, NothingInvented, Enqueued, Accepted
<1>2. PInv /\ AnswersInv /\ OneItemEach /\ Backed /\ [Next]_vars => Backed'
  BY NoLoss, NextInventsNothing DEF PInv
<1>3. PInv /\ AnswersInv /\ Backed => AnswerTellsTheTruth
  <2> SUFFICES ASSUME PInv, AnswersInv, Backed, NEW p \in Publish
               PROVE  /\ stage[p] = "200" =>
                             /\ restarts["storage"] = 0 =>
                                    /\ hash_id[p] \in DOMAIN STORE
                                    /\ STORE[hash_id[p]] = Unwrapped(request[p].payload)
                             /\ losses = 0 => \E x \in Accepted : x.by = p
                      /\ stage[p] \in {"400", "403", "500"} =>
                             \A x \in Accepted \cup OnBus \cup Delivered : x.by # p
    BY DEF AnswerTellsTheTruth
  <2>1. ASSUME stage[p] = "200", restarts["storage"] = 0
        PROVE  hash_id[p] \in DOMAIN STORE /\ STORE[hash_id[p]] = Unwrapped(request[p].payload)
    <3>1. hash_id[p] # NoItem
      BY <2>1 DEF AnswersInv, HashOf
    <3>2. PICK h \in Hash, y \in Payload : hash_id[p] = h /\ Founded(p, h, y)
      BY <3>1 DEF PInv, Sound
    <3> QED BY <2>1, <3>2 DEF Founded
  <2>2. stage[p] = "200" /\ losses = 0 => \E x \in Accepted : x.by = p
    BY DEF NothingInvented, Enqueued
  <2>3. ASSUME stage[p] \in {"400", "403", "500"},
               NEW x \in Accepted \cup OnBus \cup Delivered
        PROVE  x.by # p
    <3>1. hash_id[x.by] # NoItem
      BY DEF AnswersInv, PInv, Sound, Traced, Everywhere
    <3>2. hash_id[p] = NoItem
      BY <2>3 DEF AnswersInv, HashOf
    <3> QED BY <3>1, <3>2
  <2> QED BY <2>1, <2>2, <2>3
<1> HIDE DEF Backed
<1> QED BY <1>1, <1>2, <1>3, OneItemAlways, PTL DEF Spec

-----------------------------------------------------------------------------
\* Evaluations are complete

\* The evaluation begun last is the one the loop is at, and its call carries
\* the item.
LastBegun ==
    /\ poller.phase \in Action =>
           /\ evaluated # <<>>
           /\ evaluated[Len(evaluated)] = [item |-> poller.item, cfg |-> poller.cfg]
    /\ \A c \in CurrentCalls : c.op \in Action => c.body = poller.item

\* Every sink that the evaluation's configuration names has its item.
Sent(e) == \A op \in Action : e.cfg[op] => e.item \in Kept(op)

\* The actions that come before this one
Behind(phase) ==
    CASE phase = "log" -> {"replicate"}
      [] phase = "analytics" -> {"replicate", "log"}
      [] OTHER -> {}

\* The loop has sent every item but the one it is at, and that one as far as it
\* has got: an answer of a sink says that the sink has it.
InTurn ==
    /\ \A i \in 1..Len(evaluated) :
           poller.phase \notin Action \/ i < Len(evaluated) => Sent(evaluated[i])
    /\ \A r \in replies : r.op \in Action => poller.item \in Kept(r.op)
    /\ \A op \in Behind(poller.phase) : poller.cfg[op] => poller.item \in Kept(op)

SentInTurn == (Faults = 0 /\ Len(accepted) <= MAX_LOGS) => InTurn

WholeInv == LastBegun /\ SentInTurn

\* Steps in which the loop makes no call for an action
LEMMA BegunStays ==
    ASSUME OneCallOut', LastBegun, evaluated' = evaluated,
           poller' = poller \/ poller'.phase \in {"idle", "asked"},
           \A c \in CurrentCalls' \ CurrentCalls : c.op \notin Action
    PROVE  LastBegun'
<1>1. CASE poller' = poller
  BY <1>1 DEF LastBegun
<1>2. CASE poller'.phase \in {"idle", "asked"}
  BY <1>2, Ops DEF LastBegun, OneCallOut
<1> QED BY <1>1, <1>2

\* The loop goes on with the evaluation begun last.
LEMMA BegunEnters ==
    ASSUME OneCallOut, NEW r \in RulesReplies, NEW phase \in {"idle"} \cup Action,
           NEW item, NEW cfg, EnterPhase(r, phase, item, cfg), restarts' = restarts,
           phase # "idle" => /\ evaluated' # <<>>
                             /\ evaluated'[Len(evaluated')] = [item |-> item, cfg |-> cfg]
    PROVE  LastBegun'
<1>1. CurrentCalls = {}
  BY DEF OneCallOut
<1>2. CASE phase = "idle"
  <2>1. calls' = calls /\ poller'.phase = "idle"
    BY <1>2 DEF EnterPhase, Resume, IdlePoller
  <2>2. CurrentCalls' = {}
    BY <1>1, <2>1 DEF CurrentCalls
  <2> QED BY <2>1, <2>2, Ops DEF LastBegun
<1>3. CASE phase # "idle"
  <2> DEFINE d == [op |-> phase, from |-> restarts["rules"], body |-> item]
  <2>1. /\ calls' = calls \cup {d} /\ d.body = item
        /\ poller' = [phase |-> phase, item |-> item, cfg |-> cfg]
    BY <1>3 DEF EnterPhase, Resume
  <2> HIDE DEF d
  <2>2. CurrentCalls' \subseteq {d}
    BY <1>1, <2>1 DEF CurrentCalls
  <2> QED BY <1>3, <2>1, <2>2 DEF LastBegun
<1> QED BY <1>2, <1>3

LEMMA NextBegun == ASSUME PInv, LastBegun, [Next]_vars PROVE LastBegun'
<1>0. TypeOK /\ OneCallOut /\ OneCallOut'
  BY NextOut DEF PInv
<1>1. ASSUME NEW r \in replies, DequeueAnswered(r) PROVE LastBegun'
  <2>1. r \in RulesReplies /\ restarts' = restarts /\ evaluated \in Seq(Evaluation)
    BY <1>1, Ops DEF DequeueAnswered, RulesReplies, faultVars, PInv, TypeOK, RulesTypes
  <2>2. CASE r.status = 200 /\ r.body # NoItem
    <3> DEFINE e == [item |-> r.body, cfg |-> HISTORY_RULE]
    <3>1. /\ EnterPhase(r, FirstAction(HISTORY_RULE), r.body, HISTORY_RULE)
          /\ evaluated' = Append(evaluated, e)
      BY <1>1, <2>2 DEF DequeueAnswered
    <3> HIDE DEF e
    <3>2. evaluated' # <<>> /\ evaluated'[Len(evaluated')] = e
      BY <2>1, <3>1
    <3> QED BY <1>0, <2>1, <3>1, <3>2, BegunEnters, PhaseRange DEF e
  <2>3. CASE ~(r.status = 200 /\ r.body # NoItem)
    <3>1. EnterPhase(r, "idle", NoItem, NoRule)
      BY <1>1, <2>3 DEF DequeueAnswered
    <3> QED BY <1>0, <2>1, <3>1, BegunEnters
  <2> QED BY <2>2, <2>3
<1>2. ASSUME NEW r \in replies, ActionAnswered(r) PROVE LastBegun'
  <2>1. /\ r \in RulesReplies /\ restarts' = restarts /\ evaluated' = evaluated /\ r.op \in Action
        /\ EnterPhase(r, NextAction(r.op, poller.cfg), poller.item, poller.cfg)
    BY <1>2, Ops DEF ActionAnswered, RulesReplies, faultVars
  <2>2. poller.phase \in Action
    BY <1>0, <2>1, Ops DEF OneCallOut
  <2> QED BY <1>0, <2>1, <2>2, BegunEnters, PhaseRange DEF LastBegun
<1>3. CASE \/ UNCHANGED vars
           \/ \E p \in Publish, r \in Request : Receive(p, r)
           \/ \E r \in replies : EventStep(r) \/ LoseReply(r)
           \/ \E c \in calls : Serve(c) \/ LoseCall(c)
           \/ \E v \in RuleValue : SetRule(v)
  <2>1. /\ UNCHANGED <<evaluated, poller>> /\ restarts' = restarts
        /\ \A c \in calls' \ calls : c.op \notin RulesOp
    <3>1. CASE \E c \in calls : Serve(c) \/ LoseCall(c)
      BY <3>1 DEF Serve, HandleStore, HandleEnqueue, HandleDequeue, HandleReplicate, HandleLog,
                  HandleRecord, LoseCall, Lose, Respond, rulesVars, faultVars
    <3>2. CASE (\E r \in replies : LoseReply(r)) \/ (\E v \in RuleValue : SetRule(v))
               \/ UNCHANGED vars
      BY <3>2 DEF LoseReply, Lose, SetRule, vars, rulesVars, netVars, faultVars
    <3>3. CASE (\E p \in Publish, r \in Request : Receive(p, r)) \/ \E r \in replies : EventStep(r)
      BY <3>3, Ops DEF Receive, EventStep, StoreAnswered, EnqueueAnswered, Resume, rulesVars,
                       faultVars
    <3> QED BY <1>3, <3>1, <3>2, <3>3
  <2>2. CurrentCalls' \subseteq CurrentCalls
    BY <2>1 DEF CurrentCalls
  <2> QED BY <1>0, <2>1, <2>2, BegunStays
<1>4. CASE Tick
  <2>1. /\ evaluated' = evaluated /\ poller'.phase = "asked" /\ restarts' = restarts
        /\ \A c \in calls' \ calls : c.op = "dequeue"
    BY <1>4 DEF Tick, IdlePoller, faultVars
  <2>2. \A c \in CurrentCalls' \ CurrentCalls : c.op \notin Action
    BY <2>1, Ops DEF CurrentCalls
  <2> QED BY <1>0, <2>1, <2>2, BegunStays
<1>5. CASE RestartEvent \/ RestartStorage \/ RestartQueue \/ RestartLogging \/ RestartAnalytics
  <2>1. restarts'["rules"] = restarts["rules"]
    BY <1>0, <1>5, RestartCount
       DEF RestartEvent, RestartStorage, RestartQueue, RestartLogging, RestartAnalytics, Process
  <2>2. UNCHANGED <<evaluated, poller, calls>>
    BY <1>5 DEF RestartEvent, RestartStorage, RestartQueue, RestartLogging, RestartAnalytics,
                rulesVars, netVars
  <2>3. CurrentCalls' = CurrentCalls
    BY <2>1, <2>2 DEF CurrentCalls
  <2> QED BY <1>0, <2>2, <2>3, BegunStays
<1>6. CASE RestartRules
  <2>1. evaluated' = evaluated /\ poller'.phase = "idle"
    BY <1>6 DEF RestartRules, IdlePoller
  <2>2. \A c \in CurrentCalls' : c.op \notin Action
    BY <1>0, <2>1, Ops DEF OneCallOut
  <2> QED BY <1>0, <2>1, <2>2, BegunStays
<1> QED BY <1>1, <1>2, <1>3, <1>4, <1>5, <1>6 DEF Next, Fault, PollerStep

-----------------------------------------------------------------------------
\* The log has room for what was accepted.
LEMMA LogFits ==
    ASSUME PInv, OneItemEach, OneCallEach, NEW c \in calls, HandleLog(c), Len(accepted) <= MAX_LOGS
    PROVE  Logged' = Logged \cup {c.body}
<1> DEFINE x == c.body
<1>1. /\ c.op = "log" /\ logs' = PushBounded(logs, x, MAX_LOGS) /\ x \in Item
      /\ logs \in Seq(Item) /\ accepted \in Seq(Item) /\ MAX_LOGS \in Nat
  BY CallFields, PipelineAssumption
     DEF HandleLog, addLog, Action, PInv, TypeOK, NetTypes, SinkTypes, QueueTypes
<1>2. x \in Accepted /\ \A i \in 1..Len(logs) : logs[i] \in Accepted /\ logs[i].by # x.by
  BY <1>1 DEF OneCallEach, OneItemEach, Delivered, Logged, Kept, Action
<1>3. NoRepeat(logs)
  BY DEF OneCallEach
<1> HIDE DEF x
<1>4. NoRepeat(Append(logs, x))
  BY <1>1, <1>2, <1>3, DistinctAppend
<1>5. /\ Append(logs, x) \in Seq(Item) /\ Len(Append(logs, x)) = Len(logs) + 1
      /\ Len(logs) \in Nat /\ Len(accepted) \in Nat
      /\ \A i \in 1..Len(logs) : Append(logs, x)[i] = logs[i]
      /\ Append(logs, x)[Len(logs) + 1] = x
      /\ \A i \in 1..(Len(logs) + 1) : i \in 1..Len(logs) \/ i = Len(logs) + 1
  BY <1>1
<1>6. \A i \in 1..Len(Append(logs, x)) : Append(logs, x)[i] \in Accepted
  BY <1>2, <1>5
<1>7. \A i \in 1..Len(Append(logs, x)) : \E j \in 1..Len(accepted) : Append(logs, x)[i] = accepted[j]
  BY <1>6 DEF Accepted
<1>8. Len(logs) + 1 <= Len(accepted)
  BY <1>1, <1>4, <1>5, <1>7, DistinctFit
<1>9. Len(logs) < MAX_LOGS
  BY <1>1, <1>5, <1>8
<1>10. {PushBounded(logs, x, MAX_LOGS)[i] : i \in 1..Len(PushBounded(logs, x, MAX_LOGS))}
           = {logs[i] : i \in 1..Len(logs)} \cup {x}
  BY <1>1, <1>9, PushedKeepsAll
<1> QED BY <1>1, <1>10 DEF Logged, x

\* Without faults no sink loses anything, and it has what it was just sent.
LEMMA KeptGrows ==
    ASSUME PInv, OneItemEach, OneCallEach, [Next]_vars, ~Fault, Len(accepted) <= MAX_LOGS
    PROVE  /\ \A op \in Action : Kept(op) \subseteq Kept(op)'
           /\ \A c \in calls : HandleReplicate(c) \/ HandleLog(c) \/ HandleRecord(c) =>
                  c.op \in Action /\ c.body \in Kept(c.op)'
<1>1. ASSUME NEW c \in calls, HandleLog(c)
      PROVE  /\ c.op = "log" /\ Logged' = Logged \cup {c.body} /\ Recorded' = Recorded
             /\ Replicated' = Replicated
  BY <1>1, LogFits, PlacesStay DEF HandleLog
<1>2. ASSUME NEW c \in calls, HandleRecord(c)
      PROVE  /\ c.op = "analytics" /\ Recorded' = Recorded \cup {c.body} /\ Logged' = Logged
             /\ Replicated' = Replicated
  <2>1. /\ c.op = "analytics" /\ records' = Append(records, c.body)
        /\ UNCHANGED <<logs, replicated>> /\ records \in Seq(Item)
    BY <1>2 DEF HandleRecord, PInv, TypeOK, SinkTypes
  <2>2. /\ \A i \in 1..Len(records) : records'[i] = records[i]
        /\ Len(records') = Len(records) + 1 /\ records'[Len(records) + 1] = c.body
        /\ \A i \in 1..(Len(records) + 1) : i \in 1..Len(records) \/ i = Len(records) + 1
        /\ Len(records) + 1 \in 1..Len(records') /\ 1..Len(records) \subseteq 1..Len(records')
    BY <2>1
  <2>3. Recorded' = Recorded \cup {c.body}
    BY <2>2 DEF Recorded
  <2> QED BY <2>1, <2>3, PlacesStay
<1>3. ASSUME NEW c \in calls, HandleReplicate(c)
      PROVE  /\ c.op = "replicate" /\ Replicated' = Replicated \cup {c.body} /\ Logged' = Logged
             /\ Recorded' = Recorded
  <2>1. /\ c.op = "replicate" /\ replicated' = Append(replicated, c.body)
        /\ UNCHANGED <<logs, records>> /\ replicated \in Seq(Item)
    BY <1>3 DEF HandleReplicate, PInv, TypeOK, SinkTypes
  <2>2. /\ \A i \in 1..Len(replicated) : replicated'[i] = replicated[i]
        /\ Len(replicated') = Len(replicated) + 1 /\ replicated'[Len(replicated) + 1] = c.body
        /\ \A i \in 1..(Len(replicated) + 1) :
               i \in 1..Len(replicated) \/ i = Len(replicated) + 1
        /\ Len(replicated) + 1 \in 1..Len(replicated')
        /\ 1..Len(replicated) \subseteq 1..Len(replicated')
    BY <2>1
  <2>3. Replicated' = Replicated \cup {c.body}
    BY <2>2 DEF Replicated
  <2> QED BY <2>1, <2>3, PlacesStay
<1>4. CASE ~\E c \in calls : HandleReplicate(c) \/ HandleLog(c) \/ HandleRecord(c)
  <2>1. UNCHANGED <<logs, records, replicated>>
    BY <1>4 DEF Next, vars, Receive, EventStep, StoreAnswered, EnqueueAnswered, PollerStep,
                DequeueAnswered, ActionAnswered, Serve, HandleStore, HandleEnqueue, HandleDequeue,
                Tick, SetRule, sinkVars
  <2>2. Logged' = Logged /\ Recorded' = Recorded /\ Replicated' = Replicated
    BY <2>1, PlacesStay
  <2> QED BY <1>4, <2>2 DEF Kept
<1>5. ASSUME NEW c \in calls, HandleReplicate(c) \/ HandleLog(c) \/ HandleRecord(c)
      PROVE  /\ \A op \in Action : Kept(op) \subseteq Kept(op)'
             /\ c.op \in Action /\ c.body \in Kept(c.op)'
  BY <1>1, <1>2, <1>3, <1>5 DEF Kept, Action
<1> QED BY <1>4, <1>5

LEMMA ActionOrder ==
    /\ \A cfg : FirstAction(cfg) # "replicate" => ~cfg["replicate"]
    /\ \A cfg : FirstAction(cfg) \notin {"replicate", "log"} => ~cfg["log"]
    /\ \A cfg : FirstAction(cfg) = "idle" => ~cfg["analytics"]
    /\ \A cfg : NextAction("replicate", cfg) # "log" => ~cfg["log"]
    /\ \A cfg : NextAction("replicate", cfg) = "idle" => ~cfg["analytics"]
    /\ \A cfg : NextAction("log", cfg) = "idle" => ~cfg["analytics"]
    /\ \A cfg : NextAction("log", cfg) # "log" /\ NextAction("analytics", cfg) = "idle"
<1>1. \A cfg : AfterLogging(cfg) = "idle" => ~cfg["analytics"]
  BY DEF AfterLogging
<1>2. \A cfg : AfterReplication(cfg) # "log" => ~cfg["log"]
  BY DEF AfterReplication
<1>3. \A cfg : AfterReplication(cfg) = "idle" => ~cfg["analytics"]
  BY <1>1 DEF AfterReplication
<1>4. \A cfg : FirstAction(cfg) \notin {"replicate", "log"} => ~cfg["log"]
  BY <1>2 DEF FirstAction
<1>5. \A cfg : FirstAction(cfg) = "idle" => ~cfg["analytics"]
  BY <1>3 DEF FirstAction
<1>6. \A cfg : /\ NextAction("replicate", cfg) = AfterReplication(cfg)
               /\ NextAction("log", cfg) = AfterLogging(cfg)
               /\ NextAction("analytics", cfg) = "idle"
  BY DEF NextAction
<1>7. \A cfg : AfterLogging(cfg) # "log"
  BY DEF AfterLogging
<1>8. \A cfg : AfterReplication(cfg) # "replicate"
  BY <1>1 DEF AfterReplication, AfterLogging
<1>9. \A cfg : FirstAction(cfg) # "replicate" => ~cfg["replicate"]
  BY DEF FirstAction
<1> QED BY <1>1, <1>2, <1>3, <1>4, <1>5, <1>6, <1>7, <1>8, <1>9

LEMMA BehindType ==
    /\ \A phase : Behind(phase) \subseteq Action
    /\ Behind("replicate") = {} /\ Behind("log") = {"replicate"}
    /\ Behind("analytics") = {"replicate", "log"} /\ Behind("idle") = {} /\ Behind("asked") = {}
BY DEF Behind, Action

\* Steps in which sinks answer, or nothing happens to the loop
LEMMA StaysInTurn ==
    ASSUME InTurn, UNCHANGED <<evaluated, poller>>,
           \A op \in Action : Kept(op) \subseteq Kept(op)',
           \A r \in replies' \ replies : r.op \in Action => poller.item \in Kept(r.op)'
    PROVE  InTurn'
<1>1. \A e : Sent(e) => \A op \in Action : e.cfg[op] => e.item \in Kept(op)'
  BY DEF Sent
<1>2. ASSUME NEW i \in 1..Len(evaluated'), poller'.phase \notin Action \/ i < Len(evaluated')
      PROVE  Sent(evaluated[i])'
  <2>1. Sent(evaluated[i])
    BY <1>2 DEF InTurn
  <2> QED BY <1>1, <2>1 DEF Sent
<1>3. \A r \in replies' : r.op \in Action => poller'.item \in Kept(r.op)'
  BY DEF InTurn
<1>4. \A op \in Behind(poller'.phase) : poller'.cfg[op] => poller'.item \in Kept(op)'
  BY BehindType DEF InTurn
<1> QED BY <1>2, <1>3, <1>4 DEF InTurn

\* The loop goes on from an answer.
LEMMA EntersInTurn ==
    ASSUME OneCallOut, NEW r \in RulesReplies, NEW phase \in {"idle"} \cup Action,
           NEW item, NEW cfg, EnterPhase(r, phase, item, cfg), UNCHANGED <<logs, records, replicated>>,
           \A i \in 1..Len(evaluated') :
               phase \notin Action \/ i < Len(evaluated') => Sent(evaluated'[i]),
           \A op \in Behind(phase) : cfg[op] => item \in Kept(op)
    PROVE  InTurn'
<1>1. \A op : Kept(op)' = Kept(op)
  BY PlacesStay DEF Kept
<1>2. \/ poller' = IdlePoller /\ phase = "idle"
      \/ poller' = [phase |-> phase, item |-> item, cfg |-> cfg]
  BY DEF EnterPhase
<1>3. poller'.phase = phase
  BY <1>2 DEF IdlePoller
<1>4. ASSUME NEW s \in replies' PROVE s.op \notin Action
  <2>1. RulesReplies = {r} /\ s \in replies /\ s # r
    BY DEF OneCallOut, EnterPhase, Resume
  <2> QED BY <2>1 DEF RulesReplies, RulesOp, Action, Action
<1>5. ASSUME NEW i \in 1..Len(evaluated'), poller'.phase \notin Action \/ i < Len(evaluated')
      PROVE  Sent(evaluated[i])'
  BY <1>1, <1>3, <1>5 DEF Sent
<1>6. \A op \in Behind(poller'.phase) : poller'.cfg[op] => poller'.item \in Kept(op)'
  BY <1>1, <1>2, <1>3, BehindType
<1> QED BY <1>4, <1>5, <1>6 DEF InTurn

LEMMA PollerInTurn ==
    ASSUME PInv, LastBegun, InTurn, NEW r \in replies, PollerStep(r)
    PROVE  InTurn'
<1>0. TypeOK /\ OneCallOut /\ evaluated \in Seq(Evaluation)
  BY DEF PInv, TypeOK, RulesTypes
<1>1. CASE DequeueAnswered(r)
  <2>1. r \in RulesReplies /\ UNCHANGED <<logs, records, replicated>> /\ r.op = "dequeue"
    BY <1>1, Ops DEF DequeueAnswered, RulesReplies, sinkVars
  <2>2. poller.phase = "asked"
    BY <1>0, <2>1, Ops DEF OneCallOut
  <2>3. \A i \in 1..Len(evaluated) : Sent(evaluated[i])
    BY <2>2, Ops DEF InTurn
  <2>4. CASE r.status = 200 /\ r.body # NoItem
    <3> DEFINE e == [item |-> r.body, cfg |-> HISTORY_RULE]
    <3>1. /\ EnterPhase(r, FirstAction(HISTORY_RULE), r.body, HISTORY_RULE)
          /\ evaluated' = Append(evaluated, e) /\ e.item = r.body /\ e.cfg = HISTORY_RULE
      BY <1>1, <2>4 DEF DequeueAnswered
    <3> HIDE DEF e
    <3>2. /\ Len(evaluated') = Len(evaluated) + 1 /\ Len(evaluated) \in Nat
          /\ \A i \in 1..Len(evaluated) : evaluated'[i] = evaluated[i]
          /\ evaluated'[Len(evaluated) + 1] = e
      BY <1>0, <3>1
    <3>3. FirstAction(HISTORY_RULE) \notin Action => Sent(e)
      BY <3>1, ActionOrder, Phases DEF Sent, Action
    <3>4. \A i \in 1..Len(evaluated') :
              FirstAction(HISTORY_RULE) \notin Action \/ i < Len(evaluated') => Sent(evaluated'[i])
      <4> SUFFICES ASSUME NEW i \in 1..Len(evaluated'),
                          FirstAction(HISTORY_RULE) \notin Action \/ i < Len(evaluated')
                   PROVE  Sent(evaluated'[i])
        OBVIOUS
      <4>1. CASE i \in 1..Len(evaluated)
        BY <2>3, <3>2, <4>1
      <4>2. CASE i \notin 1..Len(evaluated)
        <5>1. i = Len(evaluated) + 1
          BY <3>2, <4>2
        <5>2. evaluated'[i] = e /\ FirstAction(HISTORY_RULE) \notin Action
          BY <3>2, <5>1
        <5> QED BY <3>3, <5>2
      <4> QED BY <4>1, <4>2
    <3>5. \A op \in Behind(FirstAction(HISTORY_RULE)) : ~HISTORY_RULE[op]
      <4>1. FirstAction(HISTORY_RULE) \in {"idle", "replicate", "log", "analytics"}
        BY PhaseRange DEF Action
      <4> QED BY <4>1, ActionOrder, BehindType
    <3> QED BY <1>0, <2>1, <3>1, <3>4, <3>5, EntersInTurn, PhaseRange
  <2>5. CASE ~(r.status = 200 /\ r.body # NoItem)
    <3>1. EnterPhase(r, "idle", NoItem, NoRule) /\ evaluated' = evaluated
      BY <1>1, <2>5 DEF DequeueAnswered
    <3> QED BY <1>0, <2>1, <2>3, <3>1, EntersInTurn, BehindType
  <2> QED BY <2>4, <2>5
<1>2. CASE ActionAnswered(r)
  <2> DEFINE next == NextAction(r.op, poller.cfg)
  <2>1. /\ r \in RulesReplies /\ UNCHANGED <<logs, records, replicated>> /\ r.op \in Action
        /\ EnterPhase(r, next, poller.item, poller.cfg) /\ evaluated' = evaluated
    BY <1>2, Ops DEF ActionAnswered, RulesReplies, sinkVars
  <2>2. poller.phase = r.op
    BY <1>0, <2>1, Ops DEF OneCallOut
  <2>3. r.op \in Action => poller.item \in Kept(r.op)
    BY DEF InTurn
  <2>4. \A op \in Behind(r.op) \cup {r.op} : poller.cfg[op] => poller.item \in Kept(op)
    BY <2>1, <2>2, <2>3 DEF InTurn
  <2>5. next \in {"idle"} \cup Action
    BY <2>1, PhaseRange
  <2>6. ASSUME NEW op \in Action, op \in Behind(next) \/ next = "idle", poller.cfg[op]
        PROVE  poller.item \in Kept(op)
    <3>1. CASE r.op = "replicate"
      <4>1. next # "log" => ~poller.cfg["log"]
        BY <3>1, ActionOrder
      <4>2. next = "idle" => ~poller.cfg["analytics"]
        BY <3>1, ActionOrder
      <4>3. op = "replicate"
        BY <2>5, <2>6, <4>1, <4>2, BehindType DEF Action
      <4> QED BY <2>4, <2>6, <3>1, <4>3
    <3>2. CASE r.op = "log"
      <4>1. next = "idle" => ~poller.cfg["analytics"]
        BY <3>2, ActionOrder
      <4>2. op \in {"replicate", "log"}
        BY <2>5, <2>6, <4>1, BehindType DEF Action
      <4> QED BY <2>4, <2>6, <3>2, <4>2, BehindType
    <3>3. CASE r.op = "analytics"
      BY <2>4, <2>6, <3>3, BehindType DEF Action
    <3> QED BY <2>1, <3>1, <3>2, <3>3 DEF Action
  <2> HIDE DEF next
  <2>7. ASSUME NEW i \in 1..Len(evaluated'), next \notin Action \/ i < Len(evaluated')
        PROVE  Sent(evaluated'[i])
    <3>1. CASE i < Len(evaluated)
      BY <2>1, <2>7, <3>1 DEF InTurn
    <3>2. CASE ~(i < Len(evaluated))
      <4>1. i = Len(evaluated) /\ next = "idle"
        BY <1>0, <2>1, <2>5, <2>7, <3>2
      <4>2. evaluated[i] = [item |-> poller.item, cfg |-> poller.cfg]
        BY <2>1, <2>2, <4>1 DEF LastBegun
      <4> QED BY <2>1, <2>6, <4>1, <4>2 DEF Sent
    <3> QED BY <3>1, <3>2
  <2>8. \A op \in Behind(next) : poller.cfg[op] => poller.item \in Kept(op)
    BY <2>6, BehindType
  <2> QED BY <1>0, <2>1, <2>5, <2>7, <2>8, EntersInTurn
<1> QED BY <1>1, <1>2 DEF PollerStep

LEMMA NextInTurn ==
    ASSUME PInv, OneItemEach, OneCallEach, LastBegun, InTurn, [Next]_vars, ~Fault,
           restarts["rules"] = 0, Len(accepted) <= MAX_LOGS
    PROVE  InTurn'
<1>0. \A op \in Action : Kept(op) \subseteq Kept(op)'
  BY KeptGrows
<1>1. ASSUME NEW r \in replies, PollerStep(r) PROVE InTurn'
  BY <1>1, PollerInTurn
<1>2. CASE \/ UNCHANGED vars
           \/ \E p \in Publish, r \in Request : Receive(p, r)
           \/ \E r \in replies : EventStep(r)
           \/ \E v \in RuleValue : SetRule(v)
  <2>1. UNCHANGED <<evaluated, poller>> /\ replies' \subseteq replies
    BY <1>2 DEF vars, Receive, EventStep, StoreAnswered, EnqueueAnswered, Resume, SetRule,
                rulesVars, netVars
  <2> QED BY <1>0, <2>1, StaysInTurn
<1>3. ASSUME NEW c \in calls, Serve(c) PROVE InTurn'
  <2>1. UNCHANGED <<evaluated, poller>>
    BY <1>3 DEF Serve, HandleStore, HandleEnqueue, HandleDequeue, HandleReplicate, HandleLog,
                HandleRecord, rulesVars
  <2>2. \A r \in replies' \ replies : r.op = c.op
    BY <1>3, RespondNew DEF Serve, HandleStore, HandleEnqueue, HandleDequeue, HandleReplicate,
                            HandleLog, HandleRecord
  <2>3. CASE HandleReplicate(c) \/ HandleLog(c) \/ HandleRecord(c)
    <3>1. c.op \in Action /\ c.body \in Kept(c.op)'
      BY <2>3, KeptGrows
    <3>2. c.op \in Action /\ c.op \in RulesOp
      BY <3>1 DEF Action, RulesOp
    <3>3. c.from \in Nat /\ c.from <= 0
      BY <3>2, CallFields DEF PInv, TypeOK, NetTypes, OneCallOut
    <3>4. c \in CurrentCalls
      BY <3>2, <3>3 DEF CurrentCalls
    <3>5. c.body = poller.item
      BY <3>2, <3>4 DEF LastBegun
    <3> QED BY <1>0, <2>1, <2>2, <3>1, <3>5, StaysInTurn
  <2>4. CASE HandleStore(c) \/ HandleEnqueue(c) \/ HandleDequeue(c)
    <3>1. c.op \notin Action
      BY <2>4 DEF HandleStore, HandleEnqueue, HandleDequeue, Action
    <3> QED BY <1>0, <2>1, <2>2, <3>1, StaysInTurn
  <2> QED BY <1>3, <2>3, <2>4 DEF Serve
<1>4. CASE Tick
  <2>1. /\ poller.phase = "idle" /\ poller'.phase = "asked"
        /\ UNCHANGED <<evaluated, logs, records, replicated, replies>>
    BY <1>4 DEF Tick, IdlePoller, sinkVars
  <2>2. \A op : Kept(op)' = Kept(op)
    BY <2>1, PlacesStay DEF Kept
  <2>3. \A r \in replies : r.op \notin Action
    BY <2>1, Ops DEF PInv, OneCallOut, RulesReplies, Action
  <2>4. ASSUME NEW i \in 1..Len(evaluated') PROVE Sent(evaluated[i])'
    <3>1. Sent(evaluated[i])
      BY <2>1, <2>4, Ops DEF InTurn
    <3> QED BY <2>1, <2>2, <3>1 DEF Sent
  <2> QED BY <2>1, <2>3, <2>4, BehindType DEF InTurn
<1> QED BY <1>1, <1>2, <1>3, <1>4 DEF Next

LEMMA NextWhole ==
    ASSUME PInv, AnswersInv, OneItemEach, OneCallEach, WholeInv, [Next]_vars
    PROVE  WholeInv'
<1>1. LastBegun'
  BY NextBegun DEF WholeInv
<1>2. ASSUME Faults' = 0, Len(accepted') <= MAX_LOGS PROVE InTurn'
  <2>1. Faults = 0 /\ ~Fault /\ restarts["rules"] = 0
    BY <1>2, NoFault DEF PInv, Process
  <2>2. Len(accepted) <= MAX_LOGS
    <3>1. accepted \in Seq(Item) /\ MAX_LOGS \in Nat
      BY PipelineAssumption DEF PInv, TypeOK, QueueTypes
    <3>2. accepted' = accepted \/ \E x \in Item : accepted' = Append(accepted, x)
      <4>1. ASSUME NEW c \in calls, HandleEnqueue(c)
            PROVE  c.body \in Item /\ accepted' = Append(accepted, c.body)
        BY <4>1, CallFields DEF HandleEnqueue, PInv, TypeOK, NetTypes
      <4>2. CASE ~\E c \in calls : HandleEnqueue(c)
        BY <2>1, <4>2
           DEF Next, vars, Receive, EventStep, StoreAnswered, EnqueueAnswered, PollerStep,
               DequeueAnswered, ActionAnswered, Serve, HandleStore, HandleDequeue,
               HandleReplicate, HandleLog, HandleRecord, Tick, SetRule, queueVars
      <4> QED BY <4>1, <4>2
    <3>3. CASE accepted' = accepted
      BY <1>2, <3>3
    <3>4. ASSUME NEW x \in Item, accepted' = Append(accepted, x) PROVE Len(accepted) <= MAX_LOGS
      <4>1. Len(accepted') = Len(accepted) + 1 /\ Len(accepted) \in Nat
        BY <3>1, <3>4
      <4> QED BY <1>2, <3>1, <4>1
    <3> QED BY <3>2, <3>3, <3>4
  <2> QED BY <2>1, <2>2, NextInTurn DEF WholeInv, SentInTurn
<1> QED BY <1>1, <1>2 DEF WholeInv, SentInTurn

\* An evaluation takes the actions of one configuration, and without faults all
\* of them: the loop waits for each action before it goes on, and an answer of a
\* sink means that the sink has the item (services/rules/index.js:88-123).
THEOREM WholeEvaluations == Spec => []EvaluationsAreWhole
<1>1. Init => WholeInv
  BY DEF Init, WholeInv, LastBegun, SentInTurn, InTurn, IdlePoller, Action, Behind, CurrentCalls
<1>2. PInv /\ AnswersInv /\ OneItemEach /\ OneCallEach /\ WholeInv /\ [Next]_vars => WholeInv'
  BY NextWhole
<1>3. WholeInv => EvaluationIsComplete
  <2> SUFFICES ASSUME WholeInv, Faults = 0, Len(accepted) <= MAX_LOGS,
                      NEW i \in 1..Len(evaluated),
                      ~(poller.phase \in Action /\ poller.item = evaluated[i].item)
               PROVE  /\ evaluated[i].cfg.replicate => evaluated[i].item \in Replicated
                      /\ evaluated[i].cfg.log => evaluated[i].item \in Logged
                      /\ evaluated[i].cfg.analytics => evaluated[i].item \in Recorded
    BY DEF EvaluationIsComplete
  <2>1. InTurn /\ LastBegun
    BY DEF WholeInv, SentInTurn
  <2>2. poller.phase \notin Action \/ i < Len(evaluated)
    <3>1. ASSUME poller.phase \in Action, i = Len(evaluated) PROVE FALSE
      BY <2>1, <3>1 DEF LastBegun
    <3>2. i = Len(evaluated) \/ i < Len(evaluated)
      OBVIOUS
    <3> QED BY <3>1, <3>2
  <2>3. Sent(evaluated[i])
    BY <2>1, <2>2 DEF InTurn
  <2> QED BY <2>3 DEF Sent, Action, Kept
<1>4. EvaluationIsComplete /\ ActionsFollowOneSnapshot => EvaluationsAreWhole
  BY DEF EvaluationsAreWhole
<1> QED BY <1>1, <1>2, <1>3, <1>4, OneItemAlways, OneCallAlways, OneSnapshotEach, PTL DEF Spec

-----------------------------------------------------------------------------
\* Nobody waits for nothing

\* Whoever awaits an answer has a call or an answer of its own on the way.
Served(p) == stage[p] \in {"storing", "enqueuing"} => CallsOf(p) \cup RepliesOf(p) # {}
LoopServed == poller.phase # "idle" => CurrentCalls \cup RulesReplies # {}
AwaitInv == LoopServed /\ \A p \in Publish : Served(p)

\* A callee answers, or its call fails: who waits for the call has an answer.
LEMMA RespondServes ==
    ASSUME PInv, AnswersInv, AwaitInv, NEW c \in calls, NEW status, NEW body,
           Respond(c, status, body), stage' = stage, poller' = poller,
           restarts'["rules"] = restarts["rules"]
    PROVE  AwaitInv'
<1> DEFINE a == [op |-> c.op, from |-> c.from, status |-> status, body |-> body]
<1>1. /\ calls' = calls \ {c} /\ a.op = c.op /\ a.from = c.from
      /\ replies \subseteq replies' /\ (Waiting(c) => a \in replies')
  BY DEF Respond
<1> HIDE DEF a
<1>2. ASSUME NEW p \in Publish, Served(p) PROVE Served(p)'
  <2> SUFFICES ASSUME stage[p] \in {"storing", "enqueuing"}
               PROVE  CallsOf(p)' \cup RepliesOf(p)' # {}
    BY DEF Served
  <2>1. CASE c \in CallsOf(p)
    <3>1. c.op \in PubOps /\ c.from = p /\ stage[p] = StageOf(c.op)
      BY <2>1 DEF CallsOf, AnswersInv, PlaceOf
    <3>2. Waiting(c)
      BY <3>1 DEF Waiting, PubOps, StageOf
    <3>3. a \in RepliesOf(p)'
      BY <1>1, <3>1, <3>2 DEF RepliesOf
    <3> QED BY <3>3
  <2>2. CASE c \notin CallsOf(p)
    <3>1. CallsOf(p) \subseteq CallsOf(p)' /\ RepliesOf(p) \subseteq RepliesOf(p)'
      BY <1>1, <2>2 DEF CallsOf, RepliesOf
    <3> QED BY <1>2, <3>1 DEF Served
  <2> QED BY <2>1, <2>2
<1>3. LoopServed'
  <2> SUFFICES ASSUME poller.phase # "idle"
               PROVE  CurrentCalls' \cup RulesReplies' # {}
    BY DEF LoopServed
  <2>1. CASE c \in CurrentCalls
    <3>1. c.op \in RulesOp /\ Waiting(c)
      BY <2>1, Ops DEF CurrentCalls, Waiting
    <3>2. a \in RulesReplies'
      BY <1>1, <3>1 DEF RulesReplies
    <3> QED BY <3>2
  <2>2. CASE c \notin CurrentCalls
    <3>1. CurrentCalls \subseteq CurrentCalls' /\ RulesReplies \subseteq RulesReplies'
      BY <1>1, <2>2 DEF CurrentCalls, RulesReplies
    <3> QED BY <3>1 DEF AwaitInv, LoopServed
  <2> QED BY <2>1, <2>2
<1> QED BY <1>2, <1>3 DEF AwaitInv

\* A step of /publish of p leaves the other handlers and the loop theirs.
LEMMA EventServes ==
    ASSUME PInv, AnswersInv, AwaitInv, NEW p \in Publish,
           \/ \E r \in Request : Receive(p, r)
           \/ \E r \in replies : r.from = p /\ EventStep(r)
    PROVE  AwaitInv'
<1>0. stage \in [Publish -> {"new", "storing", "enqueuing", "gone"} \cup Answer]
  BY DEF PInv, TypeOK, EventTypes
<1> DEFINE LeavesOthers ==
              /\ poller' = poller /\ restarts' = restarts
              /\ \A q \in Publish : q # p => stage'[q] = stage[q]
              /\ calls \subseteq calls'
              /\ \A r \in replies \ replies' : r.op \in PubOps /\ r.from = p
<1>1. LeavesOthers
  <2>1. ASSUME NEW r \in Request, Receive(p, r) PROVE LeavesOthers
    BY <1>0, <2>1 DEF Receive, rulesVars, faultVars
  <2>2. ASSUME NEW r \in replies, r.from = p, EventStep(r) PROVE LeavesOthers
    <3>1. CASE StoreAnswered(r)
      BY <1>0, <2>2, <3>1 DEF StoreAnswered, Resume, rulesVars, faultVars, PubOps
    <3>2. CASE EnqueueAnswered(r)
      BY <1>0, <2>2, <3>2 DEF EnqueueAnswered, Resume, rulesVars, faultVars, PubOps
    <3> QED BY <2>2, <3>1, <3>2 DEF EventStep
  <2> QED BY <2>1, <2>2
<1>2. LoopServed'
  <2>1. CurrentCalls \subseteq CurrentCalls' /\ RulesReplies \subseteq RulesReplies'
    BY <1>1, PubOpsApart DEF CurrentCalls, RulesReplies
  <2> QED BY <1>1, <2>1 DEF AwaitInv, LoopServed
<1>3. ASSUME NEW q \in Publish, q # p PROVE Served(q)'
  <2>1. CallsOf(q) \subseteq CallsOf(q)' /\ RepliesOf(q) \subseteq RepliesOf(q)'
    BY <1>1, <1>3 DEF CallsOf, RepliesOf
  <2> QED BY <1>1, <1>3, <2>1 DEF AwaitInv, Served
<1>4. Served(p)'
  <2>1. ASSUME NEW r \in Request, Receive(p, r) PROVE Served(p)'
    <3> DEFINE c == [op |-> "store", from |-> p, body |-> r.payload]
    <3>1. stage'[p] = "storing" => c \in calls' /\ c.op = "store" /\ c.from = p
      BY <1>0, <2>1 DEF Receive
    <3>2. stage'[p] # "enqueuing"
      BY <1>0, <2>1 DEF Receive, FirstAnswer, Request, Form
    <3> HIDE DEF c
    <3> QED BY <3>1, <3>2 DEF Served, CallsOf, PubOps
  <2>2. ASSUME NEW r \in replies, r.from = p, StoreAnswered(r) PROVE Served(p)'
    <3> DEFINE c == [op |-> "enqueue", from |-> r.from, body |-> ItemOf(r.from, r.body)]
    <3>1. /\ stage'[p] \in {"enqueuing", "500"} /\ c.op = "enqueue" /\ c.from = p
          /\ stage'[p] = "enqueuing" => c \in calls'
      BY <1>0, <2>2 DEF StoreAnswered, Resume
    <3> HIDE DEF c
    <3> QED BY <3>1 DEF Served, CallsOf, PubOps
  <2>3. ASSUME NEW r \in replies, r.from = p, EnqueueAnswered(r) PROVE Served(p)'
    BY <1>0, <2>3 DEF EnqueueAnswered, Served
  <2> QED BY <2>1, <2>2, <2>3 DEF EventStep
<1> QED BY <1>2, <1>3, <1>4 DEF AwaitInv

\* The loop goes on: it is idle, or its next call is on the way.
LEMMA LoopServes ==
    ASSUME PInv, AwaitInv,
           Tick \/ \E r \in replies : PollerStep(r)
    PROVE  AwaitInv'
<1> DEFINE LeavesHandlers ==
              /\ stage' = stage /\ restarts' = restarts /\ calls \subseteq calls'
              /\ \A r \in replies \ replies' : r.op \in RulesOp
<1>1. LeavesHandlers
  <2>1. CASE Tick
    BY <2>1 DEF Tick, eventVars, faultVars
  <2>2. ASSUME NEW r \in replies, PollerStep(r) PROVE LeavesHandlers
    BY <2>2 DEF PollerStep, DequeueAnswered, ActionAnswered, EnterPhase, Resume, eventVars,
                faultVars, RulesOp
  <2> QED BY <2>1, <2>2
<1>2. ASSUME NEW p \in Publish PROVE Served(p)'
  <2>1. CallsOf(p) \subseteq CallsOf(p)' /\ RepliesOf(p) \subseteq RepliesOf(p)'
    BY <1>1, PubOpsApart DEF CallsOf, RepliesOf
  <2> QED BY <1>1, <2>1 DEF AwaitInv, Served
<1>3. LoopServed'
  <2>1. CASE Tick
    <3> DEFINE d == [op |-> "dequeue", from |-> restarts["rules"], body |-> NoItem]
    <3>1. d \in calls' /\ d.op \in RulesOp /\ d.from = restarts'["rules"]
      BY <2>1, Ops DEF Tick, faultVars
    <3> HIDE DEF d
    <3> QED BY <3>1 DEF LoopServed, CurrentCalls
  <2>2. ASSUME NEW r \in replies, NEW phase \in {"idle"} \cup Action, NEW item, NEW cfg,
               EnterPhase(r, phase, item, cfg)
        PROVE  LoopServed'
    <3>1. CASE phase = "idle"
      BY <2>2, <3>1 DEF EnterPhase, LoopServed, IdlePoller
    <3>2. CASE phase # "idle"
      <4> DEFINE d == [op |-> phase, from |-> restarts["rules"], body |-> item]
      <4>1. d \in calls' /\ d.op \in RulesOp /\ d.from = restarts'["rules"]
        BY <1>1, <2>2, <3>2, Ops DEF EnterPhase, Resume
      <4> HIDE DEF d
      <4> QED BY <4>1 DEF LoopServed, CurrentCalls
    <3> QED BY <3>1, <3>2
  <2>3. ASSUME NEW r \in replies, DequeueAnswered(r) PROVE LoopServed'
    <3>1. \/ EnterPhase(r, FirstAction(HISTORY_RULE), r.body, HISTORY_RULE)
          \/ EnterPhase(r, "idle", NoItem, NoRule)
      BY <2>3 DEF DequeueAnswered
    <3> QED BY <2>2, <3>1, PhaseRange
  <2>4. ASSUME NEW r \in replies, ActionAnswered(r) PROVE LoopServed'
    <3>1. /\ EnterPhase(r, NextAction(r.op, poller.cfg), poller.item, poller.cfg)
          /\ r.op \in Action
      BY <2>4 DEF ActionAnswered
    <3> QED BY <2>2, <3>1, PhaseRange
  <2> QED BY <2>1, <2>3, <2>4 DEF PollerStep
<1> QED BY <1>2, <1>3 DEF AwaitInv

LEMMA FaultServes ==
    ASSUME PInv, AnswersInv, AwaitInv, Fault
    PROVE  AwaitInv'
<1>1. ASSUME NEW c \in calls, LoseCall(c) PROVE AwaitInv'
  BY <1>1, RespondServes DEF LoseCall, Lose, eventVars, rulesVars
<1>2. ASSUME NEW r \in replies, LoseReply(r) PROVE AwaitInv'
  <2> DEFINE a == [op |-> r.op, from |-> r.from, status |-> 500, body |-> NoItem]
  <2>1. /\ a \in replies' /\ replies \ {r} \subseteq replies' /\ a.op = r.op /\ a.from = r.from
        /\ calls' = calls /\ restarts' = restarts /\ poller' = poller /\ stage' = stage
    BY <1>2 DEF LoseReply, Lose, eventVars, rulesVars
  <2> HIDE DEF a
  <2>2. LoopServed'
    <3>1. CurrentCalls' = CurrentCalls /\ (RulesReplies # {} => RulesReplies' # {})
      BY <2>1 DEF CurrentCalls, RulesReplies
    <3> QED BY <2>1, <3>1 DEF AwaitInv, LoopServed
  <2>3. ASSUME NEW p \in Publish PROVE Served(p)'
    <3>1. CallsOf(p)' = CallsOf(p) /\ (RepliesOf(p) # {} => RepliesOf(p)' # {})
      BY <2>1 DEF CallsOf, RepliesOf
    <3> QED BY <2>1, <3>1 DEF AwaitInv, Served
  <2> QED BY <2>2, <2>3 DEF AwaitInv
<1>3. CASE RestartEvent
  <2>1. /\ poller' = poller /\ calls' = calls /\ restarts'["rules"] = restarts["rules"]
        /\ \A r \in replies : r.op \in RulesOp => r \in replies'
    BY <1>3, RestartCount, Ops DEF RestartEvent, rulesVars, Process, PInv, TypeOK, FaultTypes
  <2>2. CurrentCalls \subseteq CurrentCalls' /\ RulesReplies \subseteq RulesReplies'
    BY <2>1 DEF CurrentCalls, RulesReplies
  <2>3. \A p \in Publish : stage'[p] \notin {"storing", "enqueuing"}
    BY <1>3 DEF RestartEvent
  <2> QED BY <2>1, <2>2, <2>3 DEF AwaitInv, LoopServed, Served
<1>4. CASE RestartRules
  <2>1. /\ poller' = IdlePoller /\ calls' = calls /\ stage' = stage
        /\ \A r \in replies : r.op \in PubOps => r \in replies'
    BY <1>4 DEF RestartRules, eventVars, PubOps
  <2>2. \A p \in Publish : CallsOf(p)' = CallsOf(p) /\ RepliesOf(p) \subseteq RepliesOf(p)'
    BY <2>1 DEF CallsOf, RepliesOf
  <2> QED BY <2>1, <2>2 DEF AwaitInv, LoopServed, Served, IdlePoller
<1>5. CASE RestartStorage \/ RestartQueue \/ RestartLogging \/ RestartAnalytics
  <2>1. /\ poller' = poller /\ calls' = calls /\ replies' = replies /\ stage' = stage
        /\ restarts'["rules"] = restarts["rules"]
    BY <1>5, RestartCount DEF RestartStorage, RestartQueue, RestartLogging, RestartAnalytics,
                              eventVars, rulesVars, netVars, Process, PInv, TypeOK, FaultTypes
  <2> QED BY <2>1 DEF AwaitInv, LoopServed, Served, CurrentCalls, RulesReplies, CallsOf, RepliesOf
<1> QED BY <1>1, <1>2, <1>3, <1>4, <1>5 DEF Fault

LEMMA NextServes ==
    ASSUME PInv, AnswersInv, AwaitInv, [Next]_vars
    PROVE  AwaitInv'
<1>1. CASE UNCHANGED vars \/ \E v \in RuleValue : SetRule(v)
  <2>1. /\ poller' = poller /\ calls' = calls /\ replies' = replies /\ stage' = stage
        /\ restarts'["rules"] = restarts["rules"]
    BY <1>1 DEF vars, SetRule, eventVars, rulesVars, netVars, faultVars
  <2> QED BY <2>1 DEF AwaitInv, LoopServed, Served, CurrentCalls, RulesReplies, CallsOf, RepliesOf
<1>2. ASSUME NEW p \in Publish, NEW r \in Request, Receive(p, r) PROVE AwaitInv'
  BY <1>2, EventServes
<1>3. ASSUME NEW r \in replies, EventStep(r) PROVE AwaitInv'
  <2>1. r.from \in Publish
    BY <1>3, ReplyFields DEF EventStep, StoreAnswered, EnqueueAnswered, PInv, TypeOK, NetTypes
  <2> QED BY <1>3, <2>1, EventServes
<1>4. CASE Tick \/ \E r \in replies : PollerStep(r)
  BY <1>4, LoopServes
<1>5. ASSUME NEW c \in calls, Serve(c) PROVE AwaitInv'
  <2>1. stage' = stage /\ poller' = poller /\ restarts' = restarts
    BY <1>5 DEF Serve, HandleStore, HandleEnqueue, HandleDequeue, HandleReplicate, HandleLog,
                HandleRecord, eventVars, rulesVars, faultVars
  <2>2. PICK status, body : Respond(c, status, body)
    BY <1>5 DEF Serve, HandleStore, HandleEnqueue, HandleDequeue, HandleReplicate, HandleLog,
                HandleRecord
  <2> QED BY <2>1, <2>2, RespondServes
<1>6. CASE Fault
  BY <1>6, FaultServes
<1> QED BY <1>1, <1>2, <1>3, <1>4, <1>5, <1>6 DEF Next

\* What a handler of /publish waits for, and what the loop does: the call that
\* its stage or phase names, or the answer to it; calls of earlier processes of
\* rules do not count.
MessagesFor(p) ==
    {m \in calls \cup replies : m.op \in PubOps /\ m.from = p /\ stage[p] = StageOf(m.op)}
MessagesForLoop ==
    {m \in calls \cup replies : /\ m.op \in RulesOp /\ PhaseOf(m.op) = poller.phase
                                /\ m \in calls => m.from = restarts["rules"]}
NobodyWaitsForNothing ==
    /\ \A p \in Publish : stage[p] \in {"storing", "enqueuing"} => \E m : MessagesFor(p) = {m}
    /\ poller.phase # "idle" => \E m : MessagesForLoop = {m}

\* The safety side of NothingHangs: a handler of /publish and the loop of rules
\* wait for one message exactly, their call or its answer, whatever is lost and
\* whichever process restarts (services/routing/index.js:13-46 answers errors).
THEOREM WaitersAreServed == Spec => []NobodyWaitsForNothing
<1>1. Init => AwaitInv
  BY DEF Init, AwaitInv, Served, LoopServed, IdlePoller
<1>2. PInv /\ AnswersInv /\ AwaitInv /\ [Next]_vars => AwaitInv'
  BY NextServes
<1>3. PInv /\ AnswersInv /\ AwaitInv => NobodyWaitsForNothing
  <2> SUFFICES ASSUME PInv, AnswersInv, AwaitInv PROVE NobodyWaitsForNothing
    OBVIOUS
  <2>1. ASSUME NEW p \in Publish, stage[p] \in {"storing", "enqueuing"}
        PROVE  \E m : MessagesFor(p) = {m}
    <3>1. PICK m \in CallsOf(p) \cup RepliesOf(p) : CallsOf(p) \cup RepliesOf(p) = {m}
      BY <2>1 DEF AwaitInv, Served, AnswersInv, PlaceOf
    <3>2. MessagesFor(p) = CallsOf(p) \cup RepliesOf(p)
      BY <2>1 DEF AnswersInv, PlaceOf, CallsOf, RepliesOf, MessagesFor
    <3> QED BY <3>1, <3>2
  <2>2. ASSUME poller.phase # "idle" PROVE \E m : MessagesForLoop = {m}
    <3>1. PICK m \in CurrentCalls \cup RulesReplies : CurrentCalls \cup RulesReplies = {m}
      BY <2>2 DEF AwaitInv, LoopServed, PInv, OneCallOut
    <3>2. replies \cap calls = {}
      BY DEF PInv, TypeOK, NetTypes, Call, Reply
    <3>3. \A c \in CurrentCalls \cup RulesReplies : PhaseOf(c.op) = poller.phase
      BY DEF PInv, OneCallOut
    <3>4. MessagesForLoop = CurrentCalls \cup RulesReplies
      BY <3>2, <3>3 DEF CurrentCalls, RulesReplies, MessagesForLoop
    <3> QED BY <3>1, <3>4
  <2> QED BY <2>1, <2>2 DEF NobodyWaitsForNothing
<1> QED BY <1>1, <1>2, <1>3, AnswersAlways, PTL DEF Spec

=============================================================================

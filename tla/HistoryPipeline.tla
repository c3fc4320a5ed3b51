--------------------------- MODULE HistoryPipeline ---------------------------
(***************************************************************************)
(* The path of a signed event through five processes:                      *)
(*                                                                         *)
(*   client -> event /publish -> storage /cas/store                        *)
(*                            -> queue /enqueue "history"                  *)
(*   rules poller -> queue /dequeue -> replication, logging, analytics     *)
(*                                                                         *)
(* A process runs one synchronous stretch of code at a time: an action is  *)
(* the stretch between two awaits.  A call is a message in `calls` until   *)
(* the callee's handler has run, then a message in `replies` until the     *)
(* caller resumes.  Every process keeps its state in memory only, so a     *)
(* restart forgets it while its calls are still on their way.  A call or a *)
(* reply that fails reaches the caller as status 500 (the "error" listener *)
(* of forward) or as a rejected fetch that the caller swallows; the caller *)
(* cannot tell a request that was never handled from a lost answer.        *)
(***************************************************************************)
EXTENDS BoundedBuffer, FiniteSets

CONSTANTS Publish,         \* the requests clients send to POST /publish
          Payload,         \* the event payloads they carry
          Carried,         \* the payload inside each payload that is a routing packet
          Storable,        \* the payloads storeObject is given (objects)
          RuleValue,       \* the values POST /set gives history_rule
          NotAnObject,     \* a value of /set that setHistoryRule ignores
          NoItem,          \* no queue item; the null of dequeue()
          MAX_QUEUE_SIZE, MAX_EVENTS, MAX_LOGS,
          MaxFaults,       \* model bound: restarts and lost messages
          MaxRuleSets      \* model bound: calls of POST /set

Action == {"replicate", "log", "analytics"}
Form == {"signed", "badSignature", "badKey", "missingField"}
RuleConfig == [Action -> BOOLEAN]

ASSUME PipelineAssumption ==
    /\ Storable \subseteq Payload
    /\ DOMAIN Carried \subseteq Payload /\ Carried \in [DOMAIN Carried -> Payload]
    /\ {MAX_QUEUE_SIZE, MAX_EVENTS, MAX_LOGS} \subseteq Nat \ {0}
    /\ {MaxFaults, MaxRuleSets} \subseteq Nat
    /\ \A v \in RuleValue \ {NotAnObject} :
           DOMAIN v \subseteq Action /\ v \in [DOMAIN v -> BOOLEAN]

\* generateHash: deterministic and without collisions
Sha256(payload) == [sha256 |-> payload]

Hash == {Sha256(x) : x \in Payload}
Request == [payload : Payload, form : Form]
\* `by` is not in the code: it tells apart two publications of one payload.
Item == [by : Publish, hash_id : Hash, payload : Payload]

ASSUME NoItemAssumption == NoItem \notin Item \cup Request \cup Hash

VARIABLES
    request,       \* event: the request being handled, per publication
    stage,         \* event: where its /publish handler is, or its answer
    hash_id,       \* event: the handler's local of that name
    EVENTS,        \* event: the bus, newest last
    STORE,         \* storage: the CAS
    QUEUES,        \* queue: only "history" is used here
    poller,        \* rules: the processHistoryQueue loop
    HISTORY_RULE,  \* rules: the configuration in force
    RULES,         \* rules: what POST /set stored under "history_rule"
    logs, records, \* logging and analytics: what they were sent
    replicated,    \* history: what replication was sent, in order
    calls, replies,
    accepted,      \* history: the items the queue accepted, in order
    evaluated,     \* history: the evaluations begun, in order
    restarts,      \* history: how often each process restarted
    losses,        \* history: lost calls and replies
    ruleSets       \* history: calls of POST /set

eventVars == <<request, stage, hash_id, EVENTS>>
rulesVars == <<poller, HISTORY_RULE, RULES, evaluated, ruleSets>>
sinkVars == <<logs, records, replicated>>
queueVars == <<QUEUES, accepted>>
netVars == <<calls, replies>>
faultVars == <<restarts, losses>>
vars == <<eventVars, STORE, queueVars, rulesVars, sinkVars, netVars, faultVars>>

\* The queue service of module Queue; its test-only tasks array has no part here.
Q == INSTANCE Queue
       WITH QueueName <- {"history"}, Payload <- Item, Nothing <- NoItem,
            MAX_TASKS <- 0, tasks <- <<>>

Process == {"event", "storage", "queue", "rules", "logging", "analytics"}
Answer == {"200", "400", "403", "500"}
NoRule == [a \in Action |-> FALSE]
Evaluation == [item : Item, cfg : RuleConfig]

IdlePoller == [phase |-> "idle", item |-> NoItem, cfg |-> NoRule]

Call ==
    [op : {"store"}, from : Publish, body : Payload]
        \cup [op : {"enqueue"}, from : Publish, body : Item]
        \cup [op : {"dequeue"}, from : Nat, body : {NoItem}]
        \cup [op : Action, from : Nat, body : Item]

Reply ==
    [op : {"store"}, from : Publish, status : {200, 400, 403, 500}, body : Hash \cup {NoItem}]
        \cup [op : {"enqueue"}, from : Publish, status : {200, 500}, body : {NoItem}]
        \cup [op : {"dequeue"}, from : Nat, status : {200, 500}, body : Item \cup {NoItem}]
        \cup [op : Action, from : Nat, status : {200, 500}, body : {NoItem}]

Init ==
    /\ request = [p \in Publish |-> NoItem]
    /\ stage = [p \in Publish |-> "new"]
    /\ hash_id = [p \in Publish |-> NoItem]
    /\ EVENTS = <<>>
    /\ STORE = [h \in {} |-> NoItem]
    /\ QUEUES = [q \in {} |-> <<>>]
    /\ poller = IdlePoller
    /\ HISTORY_RULE = NoRule
    /\ RULES = NotAnObject
    /\ logs = <<>> /\ records = <<>> /\ replicated = <<>>
    /\ calls = {} /\ replies = {}
    /\ accepted = <<>> /\ evaluated = <<>>
    /\ restarts = [s \in Process |-> 0]
    /\ losses = 0
    /\ ruleSets = 0

-----------------------------------------------------------------------------
\* Messages

\* The caller of c is still waiting for it.
Waiting(c) ==
    CASE c.op = "store"   -> stage[c.from] = "storing"
      [] c.op = "enqueue" -> stage[c.from] = "enqueuing"
      [] OTHER            -> c.from = restarts["rules"]

\* The answer to c starts its way back, if its caller is still there.
Respond(c, status, body) ==
    /\ calls' = calls \ {c}
    /\ replies' = IF Waiting(c)
                  THEN replies \cup {[op |-> c.op, from |-> c.from,
                                      status |-> status, body |-> body]}
                  ELSE replies

\* A caller consumes r and, unless next is empty, makes its next call.
Resume(r, next) ==
    /\ replies' = replies \ {r}
    /\ calls' = calls \cup next

-----------------------------------------------------------------------------
\* event: POST /publish, in three stretches

\* The answer the handler gives before its first await, "storing" if none
FirstAnswer(r) ==
    CASE r.form = "missingField" -> "400"
      [] r.form = "badSignature" -> "403"
      [] r.form = "badKey"       -> "400"
      [] r.form = "signed"       -> "storing"

\* Checks the fields, then the signature, then asks storage for a hash.
Receive(p, r) ==
    /\ stage[p] = "new"
    /\ request' = [request EXCEPT ![p] = r]
    /\ stage' = [stage EXCEPT ![p] = FirstAnswer(r)]
    /\ calls' = IF FirstAnswer(r) = "storing"
                THEN calls \cup {[op |-> "store", from |-> p, body |-> r.payload]}
                ELSE calls
    /\ UNCHANGED <<hash_id, EVENTS, STORE, queueVars, rulesVars, sinkVars, replies, faultVars>>

ItemOf(p, hash) == [by |-> p, hash_id |-> hash, payload |-> request[p].payload]

\* Faulty variant: the status of storage's answer is not looked at
StoreAnsweredUnchecked(r) ==
    /\ r \in replies /\ r.op = "store"
    /\ hash_id' = [hash_id EXCEPT ![r.from] = r.body]
    /\ stage' = [stage EXCEPT ![r.from] = "enqueuing"]
    /\ Resume(r, {[op |-> "enqueue", from |-> r.from, body |-> ItemOf(r.from, r.body)]})
    /\ UNCHANGED <<request, EVENTS, STORE, queueVars, rulesVars, sinkVars, faultVars>>

\* Anything but 200 from storage ends the request with 500.
StoreAnswered(r) ==
    /\ r \in replies /\ r.op = "store"
    /\ IF r.status = 200
       THEN /\ hash_id' = [hash_id EXCEPT ![r.from] = r.body]
            /\ stage' = [stage EXCEPT ![r.from] = "enqueuing"]
            /\ Resume(r, {[op |-> "enqueue", from |-> r.from,
                           body |-> ItemOf(r.from, r.body)]})
       ELSE /\ stage' = [stage EXCEPT ![r.from] = "500"]
            /\ Resume(r, {})
            /\ UNCHANGED hash_id
    /\ UNCHANGED <<request, EVENTS, STORE, queueVars, rulesVars, sinkVars, faultVars>>

\* The bus after one more event; module-level state of services/event/index.js
publishEvent(x) == PushBounded(EVENTS, x, MAX_EVENTS)

\* Faulty variant: a failed call is taken for "not enqueued" and answered 500
EnqueueAnsweredChecked(r) ==
    /\ r \in replies /\ r.op = "enqueue"
    /\ stage' = [stage EXCEPT ![r.from] = IF r.status = 200 THEN "200" ELSE "500"]
    /\ Resume(r, {})
    /\ UNCHANGED <<request, hash_id, EVENTS, STORE, queueVars, rulesVars, sinkVars, faultVars>>

\* The queue's answer is not looked at: publishEvent, then 200 to the client.
EnqueueAnswered(r) ==
    /\ r \in replies /\ r.op = "enqueue"
    /\ EVENTS' = publishEvent(ItemOf(r.from, hash_id[r.from]))
    /\ stage' = [stage EXCEPT ![r.from] = "200"]
    /\ Resume(r, {})
    /\ UNCHANGED <<request, hash_id, STORE, queueVars, rulesVars, sinkVars, faultVars>>

-----------------------------------------------------------------------------
\* storage: POST /cas/store

\* What parseRequestBodyWithCrypto makes of a body: a routing packet is opened
\* once, whatever it carries; anything else is taken as it is.
Unwrapped(x) == IF x \in DOMAIN Carried THEN Carried[x] ELSE x

\* storeObject: an object goes under its hash, over an equal one.
StoreObject(x) ==
    STORE' = [h \in DOMAIN STORE \cup {Sha256(x)} |-> IF h = Sha256(x) THEN x ELSE STORE[h]]

\* A packet is refused when its sender is unknown to storage, its time is off
\* or its signature is bad: whether this one is, is left open.
HandleStore(c) ==
    /\ c \in calls /\ c.op = "store"
    /\ \/ /\ Unwrapped(c.body) \in Storable
          /\ StoreObject(Unwrapped(c.body))
          /\ Respond(c, 200, Sha256(Unwrapped(c.body)))
       \/ /\ Unwrapped(c.body) \notin Storable
          /\ Respond(c, 400, NoItem) /\ UNCHANGED STORE
       \/ /\ c.body \in DOMAIN Carried
          /\ Respond(c, 403, NoItem) /\ UNCHANGED STORE
    /\ UNCHANGED <<eventVars, queueVars, rulesVars, sinkVars, faultVars>>

-----------------------------------------------------------------------------
\* queue: POST /enqueue and POST /dequeue on "history"

HandleEnqueue(c) ==
    /\ c \in calls /\ c.op = "enqueue"
    /\ Q!Enqueue("history", c.body)
    /\ accepted' = Append(accepted, c.body)
    /\ Respond(c, 200, NoItem)
    /\ UNCHANGED <<eventVars, STORE, rulesVars, sinkVars, faultVars>>

HandleDequeue(c) ==
    /\ c \in calls /\ c.op = "dequeue"
    /\ Q!Dequeue("history")
    /\ Respond(c, 200, Q!DequeueResult("history"))
    /\ UNCHANGED <<eventVars, STORE, accepted, rulesVars, sinkVars, faultVars>>

-----------------------------------------------------------------------------
\* rules: the polling loop and the evaluation of one item

\* evaluateRules goes through its three actions in this order and skips the
\* ones that cfg turns off; "idle" is the end of the tick.
AfterLogging(cfg) == IF cfg.analytics THEN "analytics" ELSE "idle"
AfterReplication(cfg) == IF cfg.log THEN "log" ELSE AfterLogging(cfg)

\* Faulty variant: replication is an alternative to logging
FirstActionAlternates(cfg) ==
    IF cfg.replicate /\ ~cfg.log THEN "replicate" ELSE AfterReplication(cfg)

FirstAction(cfg) == IF cfg.replicate THEN "replicate" ELSE AfterReplication(cfg)

\* Faulty variant: each action reads HISTORY_RULE anew
NextActionRereads(op, cfg) ==
    CASE op = "replicate" -> AfterReplication(HISTORY_RULE)
      [] op = "log"       -> AfterLogging(HISTORY_RULE)
      [] op = "analytics" -> "idle"

NextAction(op, cfg) ==
    CASE op = "replicate" -> AfterReplication(cfg)
      [] op = "log"       -> AfterLogging(cfg)
      [] op = "analytics" -> "idle"

\* Continue the tick with `phase`, whose call, if any, carries the item.
EnterPhase(r, phase, item, cfg) ==
    IF phase = "idle"
    THEN poller' = IdlePoller /\ Resume(r, {})
    ELSE /\ poller' = [phase |-> phase, item |-> item, cfg |-> cfg]
         /\ Resume(r, {[op |-> phase, from |-> restarts["rules"], body |-> item]})

\* The timer fires: ask the queue for one item.
Tick ==
    /\ poller.phase = "idle"
    /\ poller' = [IdlePoller EXCEPT !.phase = "asked"]
    /\ calls' = calls \cup {[op |-> "dequeue", from |-> restarts["rules"], body |-> NoItem]}
    /\ UNCHANGED <<eventVars, STORE, queueVars, HISTORY_RULE, RULES, evaluated, ruleSets,
                   sinkVars, replies, faultVars>>

\* Faulty variants: the next tick is not scheduled after a failed call, or
\* after an empty answer
DequeueFailureStops(r) ==
    /\ r \in replies /\ r.op = "dequeue"
    /\ IF r.status = 200 /\ r.body # NoItem
       THEN /\ evaluated' = Append(evaluated, [item |-> r.body, cfg |-> HISTORY_RULE])
            /\ EnterPhase(r, FirstAction(HISTORY_RULE), r.body, HISTORY_RULE)
       ELSE IF r.status = 200
       THEN EnterPhase(r, "idle", NoItem, NoRule) /\ UNCHANGED evaluated
       ELSE Resume(r, {}) /\ UNCHANGED <<poller, evaluated>>
    /\ UNCHANGED <<eventVars, STORE, queueVars, HISTORY_RULE, RULES, ruleSets, sinkVars,
                   faultVars>>
DequeueEmptyStops(r) ==
    /\ r \in replies /\ r.op = "dequeue"
    /\ IF r.body # NoItem
       THEN /\ evaluated' = Append(evaluated, [item |-> r.body, cfg |-> HISTORY_RULE])
            /\ EnterPhase(r, FirstAction(HISTORY_RULE), r.body, HISTORY_RULE)
       ELSE Resume(r, {}) /\ UNCHANGED <<poller, evaluated>>
    /\ UNCHANGED <<eventVars, STORE, queueVars, HISTORY_RULE, RULES, ruleSets, sinkVars,
                   faultVars>>

\* An item starts an evaluation under the configuration of this moment; an
\* empty queue or a failed call ends the tick.
DequeueAnswered(r) ==
    /\ r \in replies /\ r.op = "dequeue"
    /\ IF r.status = 200 /\ r.body # NoItem
       THEN /\ evaluated' = Append(evaluated, [item |-> r.body, cfg |-> HISTORY_RULE])
            /\ EnterPhase(r, FirstAction(HISTORY_RULE), r.body, HISTORY_RULE)
       ELSE /\ EnterPhase(r, "idle", NoItem, NoRule)
            /\ UNCHANGED evaluated
    /\ UNCHANGED <<eventVars, STORE, queueVars, HISTORY_RULE, RULES, ruleSets, sinkVars,
                   faultVars>>

\* Faulty variant: an action whose call failed is tried again
ActionRetried(r) ==
    /\ r \in replies /\ r.op \in Action
    /\ EnterPhase(r, IF r.status = 200 THEN NextAction(r.op, poller.cfg) ELSE r.op,
                  poller.item, poller.cfg)
    /\ UNCHANGED <<eventVars, STORE, queueVars, HISTORY_RULE, RULES, evaluated, ruleSets,
                   sinkVars, faultVars>>

\* Whatever an action's call came to, the next one follows.
ActionAnswered(r) ==
    /\ r \in replies /\ r.op \in Action
    /\ EnterPhase(r, NextAction(r.op, poller.cfg), poller.item, poller.cfg)
    /\ UNCHANGED <<eventVars, STORE, queueVars, HISTORY_RULE, RULES, evaluated, ruleSets,
                   sinkVars, faultVars>>

\* Faulty variant: the spread in the other order, {...value, ...HISTORY_RULE}
MergedOldWins(rule, value) == rule

\* setHistoryRule merges the fields it is given and ignores other values.
Merged(rule, value) ==
    IF value = NotAnObject
    THEN rule
    ELSE [a \in Action |-> IF a \in DOMAIN value THEN value[a] ELSE rule[a]]

\* POST /set with key "history_rule"
SetRule(value) ==
    /\ ruleSets < MaxRuleSets
    /\ RULES' = value
    /\ HISTORY_RULE' = Merged(HISTORY_RULE, value)
    /\ ruleSets' = ruleSets + 1
    /\ UNCHANGED <<eventVars, STORE, queueVars, poller, evaluated, sinkVars, netVars, faultVars>>

-----------------------------------------------------------------------------
\* the three services rules calls

\* replication: a packet that is not signed is echoed and merges nothing
HandleReplicate(c) ==
    /\ c \in calls /\ c.op = "replicate"
    /\ replicated' = Append(replicated, c.body)
    /\ Respond(c, 200, NoItem)
    /\ UNCHANGED <<eventVars, STORE, queueVars, rulesVars, logs, records, faultVars>>

addLog(x) == PushBounded(logs, x, MAX_LOGS)

HandleLog(c) ==
    /\ c \in calls /\ c.op = "log"
    /\ logs' = addLog(c.body)
    /\ Respond(c, 200, NoItem)
    /\ UNCHANGED <<eventVars, STORE, queueVars, rulesVars, records, replicated, faultVars>>

\* analytics keeps every record: there is no bound in the code
HandleRecord(c) ==
    /\ c \in calls /\ c.op = "analytics"
    /\ records' = Append(records, c.body)
    /\ Respond(c, 200, NoItem)
    /\ UNCHANGED <<eventVars, STORE, queueVars, rulesVars, logs, replicated, faultVars>>

-----------------------------------------------------------------------------
\* Faults

Faults == losses + restarts["event"] + restarts["storage"] + restarts["queue"]
            + restarts["rules"] + restarts["logging"] + restarts["analytics"]

MayFail == Faults < MaxFaults

Lose == MayFail /\ losses' = losses + 1 /\ UNCHANGED restarts

\* The request never reaches its handler; a caller still there sees an error.
LoseCall(c) ==
    /\ c \in calls
    /\ Lose
    /\ Respond(c, 500, NoItem)
    /\ UNCHANGED <<eventVars, STORE, queueVars, rulesVars, sinkVars>>

\* The handler has run, but its answer is lost: the same error.
LoseReply(r) ==
    /\ r \in replies /\ r.status # 500
    /\ Lose
    /\ replies' = (replies \ {r})
                      \cup {[op |-> r.op, from |-> r.from, status |-> 500, body |-> NoItem]}
    /\ UNCHANGED <<eventVars, STORE, queueVars, rulesVars, sinkVars, calls>>

Restarted(s) ==
    /\ MayFail
    /\ restarts' = [restarts EXCEPT ![s] = @ + 1]
    /\ UNCHANGED losses

\* Handlers in progress are gone with their process, the bus with them.
RestartEvent ==
    /\ Restarted("event")
    /\ stage' = [p \in Publish |-> IF stage[p] \in {"storing", "enqueuing"}
                                   THEN "gone" ELSE stage[p]]
    /\ EVENTS' = <<>>
    /\ replies' = {r \in replies : r.op \notin {"store", "enqueue"}}
    /\ UNCHANGED <<request, hash_id, STORE, queueVars, rulesVars, sinkVars, calls>>

RestartStorage ==
    /\ Restarted("storage")
    /\ STORE' = [h \in {} |-> NoItem]
    /\ UNCHANGED <<eventVars, queueVars, rulesVars, sinkVars, netVars>>

RestartQueue ==
    /\ Restarted("queue")
    /\ Q!Restart
    /\ UNCHANGED <<eventVars, STORE, accepted, rulesVars, sinkVars, netVars>>

\* The item being evaluated and the configuration are gone; polling begins anew.
RestartRules ==
    /\ Restarted("rules")
    /\ poller' = IdlePoller
    /\ HISTORY_RULE' = NoRule
    /\ RULES' = NotAnObject
    /\ replies' = {r \in replies : r.op \in {"store", "enqueue"}}
    /\ UNCHANGED <<eventVars, STORE, queueVars, evaluated, ruleSets, sinkVars, calls>>

RestartLogging ==
    /\ Restarted("logging")
    /\ logs' = <<>>
    /\ UNCHANGED <<eventVars, STORE, queueVars, rulesVars, records, replicated, netVars>>

RestartAnalytics ==
    /\ Restarted("analytics")
    /\ records' = <<>>
    /\ UNCHANGED <<eventVars, STORE, queueVars, rulesVars, logs, replicated, netVars>>

-----------------------------------------------------------------------------
EventStep(r) == StoreAnswered(r) \/ EnqueueAnswered(r)
PollerStep(r) == DequeueAnswered(r) \/ ActionAnswered(r)
Serve(c) == HandleStore(c) \/ HandleEnqueue(c) \/ HandleDequeue(c)
              \/ HandleReplicate(c) \/ HandleLog(c) \/ HandleRecord(c)

Fault ==
    \/ \E c \in calls : LoseCall(c)
    \/ \E r \in replies : LoseReply(r)
    \/ RestartEvent \/ RestartStorage \/ RestartQueue
    \/ RestartRules \/ RestartLogging \/ RestartAnalytics

Next ==
    \/ \E p \in Publish, r \in Request : Receive(p, r)
    \/ \E r \in replies : EventStep(r) \/ PollerStep(r)
    \/ \E c \in calls : Serve(c)
    \/ Tick
    \/ \E v \in RuleValue : SetRule(v)
    \/ Fault

Spec == Init /\ [][Next]_vars

\* Every handler that has its message runs, every message is handled or
\* fails, and the loop's timer fires.  Clients, /set and faults are free.
FairSpec ==
    /\ Spec
    /\ WF_vars(\E r \in replies : EventStep(r))
    /\ WF_vars(\E r \in replies : PollerStep(r))
    /\ \A op \in {"store", "enqueue", "dequeue"} \cup Action :
           WF_vars(\E c \in calls : c.op = op /\ Serve(c))
    /\ WF_vars(Tick)

-----------------------------------------------------------------------------
\* Where items are

Queued == {Q!Items("history")[i] : i \in 1..Len(Q!Items("history"))}
\* Dequeued, and on the way to the poller that asked for it
InHand == {r.body : r \in {r \in replies : r.op = "dequeue"}} \ {NoItem}
Evaluated == {evaluated[i].item : i \in 1..Len(evaluated)}
Accepted == {accepted[i] : i \in 1..Len(accepted)}
Logged == {logs[i] : i \in 1..Len(logs)}
Recorded == {records[i] : i \in 1..Len(records)}
Replicated == {replicated[i] : i \in 1..Len(replicated)}
OnBus == {EVENTS[i] : i \in 1..Len(EVENTS)}
InCalls == {c.body : c \in {c \in calls : c.op \in {"enqueue"} \cup Action}}

EventTypes ==
    /\ request \in [Publish -> Request \cup {NoItem}]
    /\ stage \in [Publish -> {"new", "storing", "enqueuing", "gone"} \cup Answer]
    /\ hash_id \in [Publish -> Hash \cup {NoItem}]
    /\ EVENTS \in Seq(Item) /\ Len(EVENTS) <= MAX_EVENTS
StoreTypes == DOMAIN STORE \subseteq Hash /\ STORE \in [DOMAIN STORE -> Payload]
QueueTypes == Q!QueuesTypeOK /\ accepted \in Seq(Item)
RulesTypes ==
    /\ poller \in [phase : {"idle", "asked"} \cup Action, item : Item \cup {NoItem},
                   cfg : RuleConfig]
    /\ HISTORY_RULE \in RuleConfig
    /\ RULES \in RuleValue \cup {NotAnObject}
    /\ evaluated \in Seq(Evaluation)
    /\ ruleSets \in Nat
SinkTypes ==
    /\ logs \in Seq(Item) /\ Len(logs) <= MAX_LOGS
    /\ records \in Seq(Item) /\ replicated \in Seq(Item)
NetTypes == calls \subseteq Call /\ replies \subseteq Reply
FaultTypes == restarts \in [Process -> Nat] /\ losses \in Nat

TypeOK == EventTypes /\ StoreTypes /\ QueueTypes /\ RulesTypes /\ SinkTypes /\ NetTypes /\ FaultTypes

-----------------------------------------------------------------------------
\* Safety

\* p is signed and carries `payload`, and `hash` leads in the CAS to it or, if
\* it is a routing packet, to what it carries
Founded(p, hash, payload) ==
    /\ request[p] # NoItem
    /\ request[p].form = "signed" /\ request[p].payload = payload
    /\ restarts["storage"] = 0 => hash \in DOMAIN STORE /\ STORE[hash] = Unwrapped(payload)

Delivered == Logged \cup Recorded \cup Replicated
Everywhere == InCalls \cup Queued \cup InHand \cup Evaluated \cup OnBus \cup Delivered

\* Wherever an item has got to, it comes from a publication whose signature
\* was good, it is that publication's payload, and while storage has not
\* restarted its hash leads to that payload in the CAS, or to what storage
\* unwrapped it to: the event is stored before it is queued or published
\* (services/event/server.js:136-166), for every interleaving of handlers and
\* every fault.
NoDanglingHash == \A x \in Everywhere : Founded(x.by, x.hash_id, x.payload)

\* The client's answer and what the pipeline did agree, as far as they do.  A
\* publication that was answered 200 is stored (until storage restarts) and was
\* accepted by the queue, unless a call broke: the handler does not look at the
\* queue's answer (services/event/server.js:154-170), so only calls that end
\* keep its 200 true, and with them no overlap of handlers and no restart can
\* make it untrue.  One that was refused or failed never entered the queue, the
\* bus or a sink, even when the failure was a lost answer of storage.
AnswerTellsTheTruth ==
    \A p \in Publish :
        /\ stage[p] = "200" =>
               /\ restarts["storage"] = 0 =>
                      /\ hash_id[p] \in DOMAIN STORE
                      /\ STORE[hash_id[p]] = Unwrapped(request[p].payload)
               /\ losses = 0 => \E x \in Accepted : x.by = p
        /\ stage[p] \in {"400", "403", "500"} => \A x \in Accepted \cup OnBus \cup Delivered : x.by # p

NoRepeat(s) == \A i, j \in 1..Len(s) : s[i].by = s[j].by => i = j

\* One publication is enqueued, replicated, logged and recorded at most once:
\* nothing in the pipeline repeats a call, so lost answers, orphaned calls of a
\* dead process and restarts lose items but never double them.
AtMostOnce ==
    NoRepeat(accepted) /\ NoRepeat(replicated) /\ NoRepeat(logs) /\ NoRepeat(records)

CfgOf(x) == {e.cfg : e \in {evaluated[i] : i \in {k \in 1..Len(evaluated) :
                                                        evaluated[k].item = x}}}

\* evaluateRules reads HISTORY_RULE once (services/rules/index.js:93): the
\* actions taken for an item are the ones of the configuration in force when
\* its evaluation began, although /set may run between any two of them.
ActionsFollowOneSnapshot ==
    /\ \A x \in Replicated : \E cfg \in CfgOf(x) : cfg.replicate
    /\ \A x \in Logged : \E cfg \in CfgOf(x) : cfg.log
    /\ \A x \in Recorded : \E cfg \in CfgOf(x) : cfg.analytics
    /\ \A c \in calls : c.op \in Action => \E cfg \in CfgOf(c.body) : cfg[c.op]

\* ... and all of them: without faults, once the poller has moved on from an
\* item, replication, logging and analytics have been sent it, each if that
\* configuration names it.
EvaluationIsComplete ==
    (Faults = 0 /\ Len(accepted) <= MAX_LOGS) =>
        \A i \in 1..Len(evaluated) :
            LET e == evaluated[i] IN
            \/ poller.phase \in Action /\ poller.item = e.item
            \/ /\ e.cfg.replicate => e.item \in Replicated
               /\ e.cfg.log => e.item \in Logged
               /\ e.cfg.analytics => e.item \in Recorded

\* One evaluation takes the actions of one configuration, no others and no
\* fewer, however many calls of /set come between its awaited actions.
EvaluationsAreWhole == ActionsFollowOneSnapshot /\ EvaluationIsComplete

\* Without faults the only way to lose an accepted item is a full queue: the
\* item is queued, in hand, or its evaluation has begun.
LostOnlyByFaultOrFullQueue ==
    (Faults = 0 /\ Len(accepted) <= MAX_QUEUE_SIZE) =>
        Accepted = Queued \cup InHand \cup Evaluated

\* GET /get/history_rule and GET /config never contradict each other on a
\* field that the last /set named, over updates and restarts of rules.
StoredRuleInForce ==
    RULES # NotAnObject =>
        \A a \in Action \cap DOMAIN RULES : HISTORY_RULE[a] = RULES[a]

\* The pipeline implements the flow of items of module HistoryFlow.
Flow == INSTANCE HistoryFlow
          WITH waiting <- Queued \cup InHand,
               done <- [i \in 1..Len(evaluated) |-> evaluated[i].item]

ImplementsFlow == Flow!Spec

-----------------------------------------------------------------------------
\* Liveness, under FairSpec

\* A handler of /publish that got past the signature check answers, unless its
\* process restarts: forward resolves on errors too (services/routing/index.js:39).
EveryPublishIsAnswered ==
    \A p \in Publish : stage[p] = "storing" ~> stage[p] \in Answer \cup {"gone"}

\* The loop survives every failure of its calls and every restart: each tick
\* ends and the next one is scheduled (services/rules/server.js:95-115).
PollerKeepsPolling == []<>(poller.phase = "idle")

\* Neither a handler of /publish nor the loop of rules waits for ever, whatever
\* call of theirs fails and whatever process restarts.
NothingHangs == EveryPublishIsAnswered /\ PollerKeepsPolling

\* Unless a fault occurs, and with room in the queue, what was acknowledged is
\* evaluated: every tick takes the next item, and an empty one does not end the loop.
AcknowledgedIsEvaluated ==
    \A p \in Publish : stage[p] = "200" ~> (Faults > 0 \/ \E x \in Evaluated : x.by = p)

=============================================================================

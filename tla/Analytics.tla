------------------------------ MODULE Analytics ------------------------------
(***************************************************************************)
(* services/analytics over services/logging and the event bus: POST        *)
(* /recompute asks logging, then event, for their newest entries and       *)
(* replaces METRICS.  Each request is a round of its own, so that rounds   *)
(* overlap.  A call that fails counts as no entries.                       *)
(*                                                                         *)
(* events_by_source has the same form as events_by_type, under another key *)
(* of the entries, and is left out.  The bus moves by what is published    *)
(* and by ends of its process; subscriptions play no part here.            *)
(***************************************************************************)
EXTENDS EventBus

CONSTANTS Round,        \* model bound: recomputations that may be under way at once
          LIMIT,        \* entries asked for: 200 in the code
          MAX_LOGS,     \* 500 in the code
          MaxWritten    \* model bound: log entries

AnalyticsAssumption ==
    LIMIT \in Nat \ {0} /\ MAX_LOGS \in Nat \ {0} /\ MaxWritten \in Nat

VARIABLES
    logs,       \* logging: the entries kept, by number
    written,    \* history: how many there were
    rounds,     \* what each round is waiting for, and what it has read
    METRICS,
    reading     \* history: what the round behind METRICS had read

analyticsVars == <<busVars, logs, written, rounds, METRICS, reading>>

Idle == [at |-> "idle"]
Kinds == Type \cup {"unknown"}

\* A reading: entries logging and event answered with, and how far the bus had
\* got when the round was asked for, and when event answered
Reading == [logged : Nat, held : Nat, asked : 0..MaxPublished, upTo : 0..MaxPublished,
            answered : BOOLEAN]
NoReading == [logged |-> 0, held |-> 0, asked |-> 0, upTo |-> 0, answered |-> FALSE]

AnalyticsTypeOK ==
    /\ logs \in Seq(1..MaxWritten) /\ Len(logs) <= MAX_LOGS /\ written \in 0..MaxWritten
    /\ \A r \in Round : rounds[r].at \in {"idle", "logging", "event", "answered"}
    /\ METRICS \in [byType : [Kinds -> Nat], total : Nat]
    /\ reading \in Reading

NoMetrics == [byType |-> [k \in Kinds |-> 0], total |-> 0]

AnalyticsInit ==
    /\ Init
    /\ logs = <<>> /\ written = 0
    /\ rounds = [r \in Round |-> Idle]
    /\ METRICS = NoMetrics
    /\ reading = NoReading

-----------------------------------------------------------------------------
(* Logging *)

\* The parser of services/logging
LogReads(b) == Resolved(b, [level |-> Undefined])

addLog ==
    /\ written < MaxWritten
    /\ written' = written + 1
    /\ logs' = PushBounded(logs, written + 1, MAX_LOGS)
    /\ UNCHANGED <<busVars, rounds, METRICS, reading>>

\* POST /write and POST /log: an entry even for an empty body
PostLog(b) == LogReads(b) # {} /\ addLog

\* GET /events?limit=..., GET /logs: Number(...) || 100
getLogs(limit) == Sliced(logs, IF limit = 0 THEN 100 ELSE limit)

-----------------------------------------------------------------------------
(* Analytics *)

Await(r, state) ==
    /\ rounds' = [rounds EXCEPT ![r] = state]
    /\ UNCHANGED <<busVars, logs, written, METRICS, reading>>

\* The parser of services/analytics; the body itself is not used.
AnalyticsReads(b) == Resolved(b, {})

\* Faulty variant: a request joins a round that is already under way
JoinRecompute(r, b) ==
    /\ AnalyticsReads(b) # {}
    /\ rounds[r] = Idle
    /\ \/ /\ \A q \in Round : rounds[q] = Idle
          /\ Await(r, [at |-> "logging", asked |-> Len(published)])
       \/ \E q \in Round :
              /\ rounds[q] # Idle
              /\ Await(r, [rounds[q] EXCEPT !.asked = Len(published)])

PostRecompute(r, b) ==
    /\ AnalyticsReads(b) # {}
    /\ rounds[r] = Idle
    /\ Await(r, [at |-> "logging", asked |-> Len(published)])

\* An answer with what logging has at that moment, or a failure
fetchLoggingEvents(r) ==
    /\ rounds[r].at = "logging"
    /\ \E logged \in {Len(getLogs(LIMIT)), 0} :
           Await(r, [at |-> "event", asked |-> rounds[r].asked, logged |-> logged])

fetchBusEvents(r) ==
    /\ rounds[r].at = "event"
    /\ \E answered \in BOOLEAN :
           Await(r, [at |-> "answered", asked |-> rounds[r].asked, logged |-> rounds[r].logged,
                     events |-> IF answered THEN getEvents(Undefined, LIMIT) ELSE <<>>,
                     upTo |-> Len(published), answered |-> answered])

\* ev.type || "unknown": no log entry has a type
KindOf(type) == IF type = Undefined THEN "unknown" ELSE type

Metrics(logged, events) ==
    [byType |-> [k \in Kinds |-> Cardinality({i \in DOMAIN events : KindOf(events[i].type) = k})
                                    + IF k = "unknown" THEN logged ELSE 0],
     total |-> logged + Len(events)]

\* The rest of recomputeMetrics, which is synchronous
recomputeMetrics(r) ==
    /\ rounds[r].at = "answered"
    /\ LET got == rounds[r] IN
       /\ METRICS' = Metrics(got.logged, got.events)
       /\ reading' = [logged |-> got.logged, held |-> Len(got.events), asked |-> got.asked,
                      upTo |-> got.upTo, answered |-> got.answered]
    /\ rounds' = [rounds EXCEPT ![r] = Idle]
    /\ UNCHANGED <<busVars, logs, written>>

RestartLogging ==
    /\ logs' = <<>>
    /\ UNCHANGED <<busVars, written, rounds, METRICS, reading>>

RestartAnalytics ==
    /\ METRICS' = NoMetrics
    /\ reading' = NoReading
    /\ rounds' = [r \in Round |-> Idle]
    /\ UNCHANGED <<busVars, logs, written>>

AnalyticsNext ==
    \/ \E b \in Bodies([level : {Undefined}]) : PostLog(b)
    \/ \E r \in Round, b \in Bodies({{}}) : PostRecompute(r, b)
    \/ \E r \in Round : fetchLoggingEvents(r) \/ fetchBusEvents(r) \/ recomputeMetrics(r)
    \/ RestartLogging \/ RestartAnalytics
    \/ /\ (\E b \in Bodies([type : Type]) : PostEvent(b)) \/ Restart
       /\ UNCHANGED <<logs, written, rounds, METRICS, reading>>

AnalyticsSpec == AnalyticsInit /\ [][AnalyticsNext]_analyticsVars

-----------------------------------------------------------------------------
(* However recomputations overlap, METRICS are of one reading of the two   *)
(* sources: of the newest LIMIT entries of either, each event counted once *)
(* under its type.  Whoever asks for a recomputation is answered with      *)
(* metrics that reach up to what was published before (recomputeMetrics).  *)
MetricsAreFresh ==
    LET counted == (reading.upTo - reading.held + 1)..reading.upTo
        ofKind(k) == Cardinality({n \in counted : KindOf(published[n]) = k})
    IN /\ \A k \in Kinds : METRICS.byType[k] = ofKind(k) + IF k = "unknown" THEN reading.logged ELSE 0
       /\ METRICS.total = reading.logged + reading.held /\ METRICS.total <= 2 * LIMIT
       /\ reading.answered => reading.asked <= reading.upTo
=============================================================================

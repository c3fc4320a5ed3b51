----------------------------- MODULE MCServices -----------------------------
(***************************************************************************)
(* The services that keep something in memory and share nothing with one   *)
(* another.  A behaviour is one of a single service, chosen at the start:  *)
(* the others do not move.                                                 *)
(***************************************************************************)
EXTENDS QueueHistory, TLC

CONSTANTS Undefined,
          Type, Callback, MAX_EVENTS, MaxPublished, MaxSubscribed, MaxEnds,  \* EventBus
          Round, LIMIT, MAX_LOGS, MaxWritten, MaxHeard,                       \* Analytics
          Key, Value, MAX_KEYS, MaxClock,                                     \* StateStore
          Id, Topic, NoProposal, MaxReports                                   \* Consensus

VARIABLES service,
          EVENTS, SUBSCRIPTIONS, notices, run, published, term, called,
          logs, written, rounds, METRICS, reading,
          STATE_, clock, last,
          proposals, reports

Bus == INSTANCE EventBus
Metrics == INSTANCE Analytics
State == INSTANCE StateStore
Ballot == INSTANCE Consensus

ASSUME ServicesAssumption ==
    /\ Bus!EventBusAssumption /\ Metrics!AnalyticsAssumption
    /\ State!StateStoreAssumption /\ Ballot!ConsensusAssumption

queueSide == vars
busSide == <<EVENTS, SUBSCRIPTIONS, notices, run, published, term, called>>
analyticsSide == <<logs, written, rounds, METRICS, reading>>
stateSide == <<STATE_, clock, last>>
consensusSide == <<proposals, reports>>

ServicesInit ==
    /\ service \in {"queue", "event", "analytics", "state", "consensus"}
    /\ HInit /\ Metrics!AnalyticsInit /\ State!StateInit /\ Ballot!ConsensusInit

ServicesNext ==
    /\ UNCHANGED service
    /\ \/ /\ service = "queue" /\ HNext
          /\ UNCHANGED <<busSide, analyticsSide, stateSide, consensusSide>>
       \/ /\ service = "event" /\ Bus!Next
          /\ UNCHANGED <<queueSide, analyticsSide, stateSide, consensusSide>>
       \/ /\ service = "analytics" /\ Metrics!AnalyticsNext
          /\ Len(published') <= MaxHeard     \* model bound: events while analytics is looked at
          /\ UNCHANGED <<queueSide, stateSide, consensusSide>>
       \/ /\ service = "state" /\ State!StateNext
          /\ UNCHANGED <<queueSide, busSide, analyticsSide, consensusSide>>
       \/ /\ service = "consensus" /\ Ballot!ConsensusNext
          /\ UNCHANGED <<queueSide, busSide, analyticsSide, stateSide>>

ServicesSpec ==
    ServicesInit /\ [][ServicesNext]_<<vars, service, busSide, analyticsSide, stateSide, consensusSide>>

-----------------------------------------------------------------------------
(* Every service keeps what its handlers expect, and no more than its      *)
(* bound (Queue, EventBus, Analytics, StateStore, Consensus).              *)
TypesOK ==
    /\ TypeOK /\ Bus!BusTypeOK /\ Metrics!AnalyticsTypeOK
    /\ State!StateTypeOK /\ Ballot!ConsensusTypeOK

(* Nobody is called about an event of a type he has not subscribed to, or  *)
(* twice for one subscription (publishEvent of services/event/index.js).   *)
NotifiedAsSubscribed == Bus!NotifiedAsSubscribed

(* GET /events answers the newest events of the type asked for, as many as *)
(* there are up to the limit (getEvents of services/event/index.js).       *)
AnswersAreTheNewest == Bus!AnswersAreTheNewest

(* Recomputed metrics count what the two services had when the computation *)
(* read them (recomputeMetrics of services/analytics/index.js).            *)
MetricsAreFresh == Metrics!MetricsAreFresh

(* A key keeps its last value until newer keys have filled the store       *)
(* (setState of services/state/index.js).                                  *)
KeptUntilCrowdedOut == State!KeptUntilCrowdedOut

(* A proposal is pending, accepted or rejected as the last report about    *)
(* its id said, whatever payload that decision was made on                 *)
(* (POST /propose and POST /verify of services/consensus/server.js).       *)
ProposalsAreAsReported == Ballot!ProposalsAreAsReported

Symmetry == Permutations(Round)
=============================================================================

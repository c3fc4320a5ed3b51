----------------------------- MODULE Replication -----------------------------
(***************************************************************************)
(* services/replication on several nodes: what POST /replicate merges, what*)
(* the refresh timer replaces, and what the sync timer does.               *)
(*                                                                         *)
(* A write is known by its timestamp: state is a map from keys to          *)
(* timestamps, rules one from rule ids, events a sequence of timestamps.   *)
(* An entry that refreshLocalSnapshot reads has no timestamp, NoTs, and is *)
(* neither newer nor older than any other.                                 *)
(*                                                                         *)
(* A refresh spans many awaits and its timer does not wait for it: rounds  *)
(* may overlap, each of its three parts may fail without the others, and   *)
(* what the services answer may be anything.  So each part is an action of *)
(* its own that may happen at any time.                                    *)
(***************************************************************************)
EXTENDS Naturals, Sequences, FiniteSets

CONSTANTS Node, Key, RuleId,
          Ts,           \* timestamps, naturals
          NoTs,         \* no timestamp
          Missing,      \* a field the dump lacks, or one that is no array
          MAX_EVENTS,   \* 200
          Dump,         \* dumps that clients hold
          Refreshed,    \* answers of the event service to /events?limit=200
          MaxMerges,    \* model bound: dumps posted
          MaxParcels    \* model bound: dumps of nodes that are under way

Maps(K, V) == UNION {[S -> V] : S \in SUBSET K}
StateMap == Maps(Key, Ts \cup {NoTs})
RuleMap == Maps(RuleId, Ts)

ASSUME ReplicationAssumption ==
    /\ Ts \subseteq Nat /\ NoTs \notin Nat
    /\ MAX_EVENTS \in Nat /\ MaxMerges \in Nat /\ MaxParcels \in Nat
    /\ Missing \notin RuleMap
    /\ \A d \in Dump : /\ d.state \in StateMap
                       /\ d.events = Missing \/ d.events \in Seq(Ts)
                       /\ d.rules \in RuleMap \cup {Missing}
    /\ \A s \in Refreshed : s \in Seq(Ts) /\ Len(s) <= MAX_EVENTS

VARIABLES state, events, rules,   \* LOCAL_DATA of each node
          parcels,                \* dumps of nodes, read by GET /dump and not yet posted
          merges,                 \* how many dumps were posted
          seenState,              \* history: entries a node came by since its state was replaced
          seenEvents,             \* history: the same for events, in order
          acked                   \* history: dumps answered 200 since the rules were replaced

vars == <<state, events, rules, parcels, merges, seenState, seenEvents, acked>>

Data(n) == [state |-> state[n], events |-> events[n], rules |-> rules[n]]

TypeOK ==
    /\ state \in [Node -> StateMap]
    /\ events \in [Node -> Seq(Ts)] /\ \A n \in Node : Len(events[n]) <= MAX_EVENTS
    /\ rules \in [Node -> RuleMap \cup {Missing}]
    /\ merges \in 0..MaxMerges
    /\ Cardinality(parcels) <= MaxParcels
    /\ \A d \in parcels : /\ d.state \in StateMap /\ d.events \in Seq(Ts)
                          /\ d.rules \in RuleMap \cup {Missing}

Empty == [x \in {} |-> NoTs]

Init ==
    /\ state = [n \in Node |-> Empty]
    /\ events = [n \in Node |-> <<>>]
    /\ rules = [n \in Node |-> Empty]
    /\ parcels = {}
    /\ merges = 0
    /\ seenState = [n \in Node |-> {}]
    /\ seenEvents = [n \in Node |-> <<>>]
    /\ acked = [n \in Node |-> {}]

-----------------------------------------------------------------------------
\* Faulty variant: what comes last wins
LastWins(local, remote) == remote

\* remote.ts > local.ts ? remote : local, where undefined compares as false
Later(local, remote) ==
    IF local # NoTs /\ remote # NoTs /\ remote > local THEN remote ELSE local

\* Key by key, or rule by rule: what is not there yet is taken, else the later of the two
MergeMaps(local, remote) ==
    [k \in DOMAIN local \cup DOMAIN remote |->
        IF k \notin DOMAIN local THEN remote[k]
        ELSE IF k \notin DOMAIN remote THEN local[k]
        ELSE Later(local[k], remote[k])]

\* The stable sort by timestamp: an element comes after those that are earlier, and after
\* those of the same time that stood before it.
Place(s, i) == Cardinality({j \in 1..Len(s) : s[j] < s[i] \/ (s[j] = s[i] /\ j <= i)})

Sorted(s) == [r \in 1..Len(s) |-> s[CHOOSE i \in 1..Len(s) : Place(s, i) = r]]

\* slice(-MAX_EVENTS)
Window(s) == IF Len(s) <= MAX_EVENTS THEN s ELSE SubSeq(s, Len(s) - MAX_EVENTS + 1, Len(s))

MergeEvents(local, remote) == Window(Sorted(local \o remote))

\* Faulty variant: an error on the way is not told to the caller
MergeDataQuietly(n, d) ==
    /\ state' = [state EXCEPT ![n] = MergeMaps(@, d.state)]
    /\ events' = [events EXCEPT ![n] = IF d.events = Missing THEN @ ELSE MergeEvents(@, d.events)]
    /\ rules' = [rules EXCEPT ![n] =
           IF Missing \in {d.events, d.rules, @} THEN @ ELSE MergeMaps(@, d.rules)]
    /\ acked' = [acked EXCEPT ![n] = @ \cup {d}]

\* mergeData: state first, then events, then rules; spreading what is no array throws, and
\* what was merged until then stays merged.  The caller is told 200 or 400.
MergeData(n, d) ==
    /\ state' = [state EXCEPT ![n] = MergeMaps(@, d.state)]
    /\ events' = [events EXCEPT ![n] = IF d.events = Missing THEN @ ELSE MergeEvents(@, d.events)]
    /\ IF Missing \in {d.events, d.rules, rules[n]}
       THEN UNCHANGED <<rules, acked>>
       ELSE /\ rules' = [rules EXCEPT ![n] = MergeMaps(@, d.rules)]
            /\ acked' = [acked EXCEPT ![n] = @ \cup {d}]

Seen(n, d) ==
    /\ seenState' = [seenState EXCEPT ![n] = @ \cup {<<k, d.state[k]>> : k \in DOMAIN d.state}]
    /\ seenEvents' = [seenEvents EXCEPT ![n] = IF d.events = Missing THEN @ ELSE @ \o d.events]

\* POST /replicate with a signed packet: a client's dump, or one read from a node
Replicate(n, d) ==
    /\ merges < MaxMerges /\ merges' = merges + 1
    /\ MergeData(n, d) /\ Seen(n, d)
    /\ UNCHANGED parcels

\* POST /replicate with plain JSON, as pushToPeer sends it, merges nothing.
ReplicatePlain(n) == UNCHANGED vars

\* GET /dump
TakeDump(n) ==
    /\ Cardinality(parcels) < MaxParcels
    /\ parcels' = parcels \cup {Data(n)}
    /\ UNCHANGED <<state, events, rules, merges, seenState, seenEvents, acked>>

\* The first part of refreshLocalSnapshot: what the state service holds, without timestamps
RefreshState(n) ==
    \E keys \in SUBSET Key :
        /\ state' = [state EXCEPT ![n] = [k \in keys |-> NoTs]]
        /\ seenState' = [seenState EXCEPT ![n] = {<<k, NoTs>> : k \in keys}]
        /\ UNCHANGED <<events, rules, parcels, merges, seenEvents, acked>>

RefreshEvents(n) ==
    \E s \in Refreshed :
        /\ events' = [events EXCEPT ![n] = s]
        /\ seenEvents' = [seenEvents EXCEPT ![n] = s]
        /\ UNCHANGED <<state, rules, parcels, merges, seenState, acked>>

\* The rules service has no /rules: it answers 404 with an object, which is taken for the rules.
RefreshRules(n) ==
    /\ rules' = [rules EXCEPT ![n] = Missing]
    /\ acked' = [acked EXCEPT ![n] = {}]
    /\ UNCHANGED <<state, events, parcels, merges, seenState, seenEvents>>

\* The sync timer asks localhost:${PORTS.p2p} for peers; config/ports.js has no p2p, the
\* request fails before it is sent, and no peer is pulled from or pushed to.
SyncTick(n) == UNCHANGED vars

\* The process starts again, with LOCAL_DATA empty.
Restart(n) ==
    /\ state' = [state EXCEPT ![n] = Empty]
    /\ events' = [events EXCEPT ![n] = <<>>]
    /\ rules' = [rules EXCEPT ![n] = Empty]
    /\ seenState' = [seenState EXCEPT ![n] = {}]
    /\ seenEvents' = [seenEvents EXCEPT ![n] = <<>>]
    /\ acked' = [acked EXCEPT ![n] = {}]
    /\ UNCHANGED <<parcels, merges>>

Timers == \E n \in Node : RefreshState(n) \/ RefreshEvents(n) \/ RefreshRules(n) \/ SyncTick(n)

Clients ==
    \E n \in Node :
        \/ \E d \in Dump \cup parcels : Replicate(n, d)
        \/ ReplicatePlain(n)
        \/ TakeDump(n)

Next == Timers \/ Clients \/ \E n \in Node : Restart(n)

Spec == Init /\ [][Next]_vars

-----------------------------------------------------------------------------
(* Of the entries a node came by since its state was last replaced it holds*)
(* one for each key, and one with a timestamp is the newest of those that  *)
(* have one, whatever the order in which the dumps came and how often      *)
(* (mergeData, the loop over state).                                       *)
StateIsNewest ==
    \A n \in Node :
        /\ DOMAIN state[n] = {e[1] : e \in seenState[n]}
        /\ \A k \in DOMAIN state[n] :
               /\ <<k, state[n][k]>> \in seenState[n]
               /\ state[n][k] # NoTs =>
                      \A e \in seenState[n] : e[1] = k /\ e[2] # NoTs => state[n][k] >= e[2]

(* The bounded window holds the newest of all the events that came since it*)
(* was last replaced: cutting it at every merge loses nothing that a single*)
(* cut at the end would keep (mergeData, the events).  The events are in   *)
(* order, but for an answer of the bus that nothing was merged with yet.   *)
WindowOfTheNewest ==
    \A n \in Node :
        LET newest == Window(Sorted(seenEvents[n]))
        IN  events[n] = newest \/ (events[n] = seenEvents[n] /\ Sorted(events[n]) = newest)

(* Of whatever came in, in any order and repeatedly, a node's copies hold  *)
(* what is newest, entry by entry and event by event (mergeData).          *)
CopiesAreOfTheNewest == TypeOK /\ StateIsNewest /\ WindowOfTheNewest

(* A dump answered 200 has its rules in force, each of them or a newer one *)
(* of the same id, until the rules are replaced (mergeData with the answer *)
(* of POST /replicate).                                                    *)
AckedRulesInForce ==
    \A n \in Node : \A d \in acked[n] :
        /\ rules[n] # Missing
        /\ \A id \in DOMAIN d.rules : id \in DOMAIN rules[n] /\ rules[n][id] >= d.rules[id]

(* "Merge rules (latest timestamp wins)", the comment in mergeData: after a*)
(* dump with rules came in, the node holds each of them or a newer one.    *)
LatestRuleWins ==
    [][\A n \in Node : \A d \in Dump :
          Replicate(n, d) /\ Missing \notin {d.events, d.rules} =>
              /\ rules'[n] # Missing
              /\ \A id \in DOMAIN d.rules :
                     id \in DOMAIN rules'[n] /\ rules'[n][id] >= d.rules[id]]_vars
=============================================================================

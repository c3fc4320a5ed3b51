------------------------------ MODULE PeerTable ------------------------------
(***************************************************************************)
(* services/p2p_node: a table of at most MAX_PEERS peers, filled by what   *)
(* others announce, beat or pass on, and a timer that calls every peer in  *)
(* turn.  A round of calls works on the list of its start, awaits each     *)
(* call and ignores its failure; the timer does not wait for the round     *)
(* before.                                                                 *)
(*                                                                         *)
(* Every node gives out the same url, http://localhost:3015, whichever     *)
(* host it runs on: a call of it comes back to the node itself.            *)
(***************************************************************************)
EXTENDS BoundedTable, RequestBody

CONSTANTS Peer,         \* ids of other nodes
          Self,         \* this node's id
          Elsewhere,    \* urls that lead to other processes, or nowhere
          Undefined,    \* the id or url of a body that has none
          Malformed,    \* an element of a list of peers that is null
          MAX_PEERS,    \* 200 in the code
          MaxClock,     \* model bound: seconds
          Slot          \* model bound: rounds that may be under way at once

PeerTableAssumption ==
    /\ Self \notin Peer /\ Undefined \notin Peer \cup Elsewhere \cup {Self}
    /\ MAX_PEERS \in Nat \ {0} /\ MaxClock \in Nat

VARIABLES PEERS, clock,
          rounds,       \* by slot: the peers a round still has to call, the first being called
          heard,        \* history: when each id was last heard of, plus one
          steppedBack   \* history: the clock was set back

peerVars == <<PEERS, clock, rounds, heard, steppedBack>>

OwnUrl == "http://localhost:3015"
Ids == Peer \cup {Self, Undefined}
Urls == Elsewhere \cup {OwnUrl, Undefined}
PeerInfo == [id : Ids, url : Urls]

PeersTypeOK ==
    /\ PEERS \in Seq([key : Ids, url : Urls, ts : 0..MaxClock]) /\ Len(PEERS) <= MAX_PEERS
    /\ clock \in 0..MaxClock
    /\ rounds \in [Slot -> Seq(PeerInfo)]
    /\ heard \in [Ids -> 0..MaxClock + 1] /\ steppedBack \in BOOLEAN

PeersInit ==
    /\ PEERS = <<>> /\ clock = 0
    /\ rounds = [k \in Slot |-> <<>>]
    /\ heard = [i \in Ids |-> 0] /\ steppedBack = FALSE

-----------------------------------------------------------------------------
\* The parser of services/p2p_node
PeerReads(b, emptyObject) == Resolved(b, emptyObject)

\* Faulty variant: room is made before the peer is stored, as if it were new
EvictedFirst(t, p) ==
    Stored(IF Len(t) >= MAX_PEERS THEN Without(t, OldestKey(t)) ELSE t,
           [key |-> p.id, url |-> p.url, ts |-> clock])

\* addPeer: the oldest entry goes after the insert
Added(t, p) ==
    LET stored == Stored(t, [key |-> p.id, url |-> p.url, ts |-> clock]) IN
    IF Len(stored) > MAX_PEERS THEN Without(stored, OldestKey(stored)) ELSE stored

\* What precedes the first null of a list
Sound(list) ==
    SubSeq(list, 1, Cardinality({n \in DOMAIN list : \A j \in 1..n : list[j] # Malformed}))

\* The table as peers are added to it, one after the other
AfterEach(peers) ==
    LET after[i \in 0..Len(peers)] == IF i = 0 THEN PEERS ELSE Added(after[i - 1], peers[i])
    IN after

\* addPeer for one after the other, up to the first that is null
mergePeers(list) == AfterEach(Sound(list))[Len(Sound(list))]

HeardOf(ids) ==
    /\ heard' = [i \in Ids |-> IF i \in ids THEN clock + 1 ELSE heard[i]]
    /\ UNCHANGED <<clock, steppedBack>>

\* POST /p2p/announce and /p2p/heartbeat; an empty body is of a peer without id and url
PostPeer(b) ==
    \E p \in PeerReads(b, [id |-> Undefined, url |-> Undefined]) :
        /\ PEERS' = Added(PEERS, p)
        /\ HeardOf({p.id})
        /\ UNCHANGED rounds

\* POST /p2p/merge: answered 400 at a null, with what came before it in the table;
\* a body without a list is no list of anything.
PostMerge(b) ==
    \E list \in PeerReads(b, <<>>) :
        /\ PEERS' = mergePeers(list)
        /\ HeardOf({Sound(list)[i].id : i \in DOMAIN Sound(list)})
        /\ UNCHANGED rounds

\* listPeers
Listed == [i \in DOMAIN PEERS |-> [id |-> PEERS[i].key, url |-> PEERS[i].url]]

\* The timer
StartRound(k) ==
    /\ rounds[k] = <<>> /\ PEERS # <<>>
    /\ rounds' = [rounds EXCEPT ![k] = Listed]
    /\ UNCHANGED <<PEERS, clock, heard, steppedBack>>

\* sendHeartbeat to the first peer of the list, answered: this node's own url
\* takes this node into its own table.
CallAnswered(k) ==
    /\ rounds[k] # <<>> /\ Head(rounds[k]).url # Undefined
    /\ rounds' = [rounds EXCEPT ![k] = Tail(@)]
    /\ IF Head(rounds[k]).url = OwnUrl
       THEN /\ PEERS' = Added(PEERS, [id |-> Self, url |-> OwnUrl])
            /\ HeardOf({Self})
       ELSE UNCHANGED <<PEERS, heard, clock, steppedBack>>

\* Faulty variant: without the catch, the failure ends the round
CallEndsRound(k) ==
    /\ rounds[k] # <<>> /\ Head(rounds[k]).url # OwnUrl
    /\ rounds' = [rounds EXCEPT ![k] = <<>>]
    /\ UNCHANGED <<PEERS, clock, heard, steppedBack>>

\* sendHeartbeat to a url nobody answers at, or to none
CallFails(k) ==
    /\ rounds[k] # <<>> /\ Head(rounds[k]).url # OwnUrl
    /\ rounds' = [rounds EXCEPT ![k] = Tail(@)]
    /\ UNCHANGED <<PEERS, clock, heard, steppedBack>>

ClockGoesOn ==
    /\ clock < MaxClock /\ clock' = clock + 1
    /\ UNCHANGED <<PEERS, rounds, heard, steppedBack>>

ClockIsSetBack ==
    /\ clock > 0 /\ clock' = clock - 1 /\ steppedBack' = TRUE
    /\ UNCHANGED <<PEERS, rounds, heard>>

\* A process that starts again has another id, and hears of its old one from others.
RestartNode ==
    /\ PEERS' = <<>> /\ rounds' = [k \in Slot |-> <<>>]
    /\ heard' = [i \in Ids |-> 0] /\ steppedBack' = FALSE
    /\ UNCHANGED clock

\* What others announce, and lists they pass on
Infos == [id : Peer, url : Elsewhere \cup {OwnUrl}]
Lists == {<<p, q>> : p \in Infos, q \in Infos \cup {Malformed}}

PeersNext ==
    \/ \E b \in Bodies(Infos) : PostPeer(b)
    \/ \E b \in Bodies(Lists) : PostMerge(b)
    \/ \E k \in Slot : StartRound(k) \/ CallAnswered(k) \/ CallFails(k)
    \/ ClockGoesOn \/ ClockIsSetBack \/ RestartNode

PeersSpec == PeersInit /\ [][PeersNext]_peerVars

\* The timer fires; fetch gives up on a peer that does not answer.
PeersFairSpec ==
    /\ PeersSpec
    /\ WF_peerVars(\E k \in Slot : StartRound(k))
    /\ \A k \in Slot : WF_peerVars(CallAnswered(k) \/ CallFails(k))

-----------------------------------------------------------------------------
(* Unless the clock is set back, the table has the peers heard of last:    *)
(* one that is missing has given way to MAX_PEERS others that were heard   *)
(* of no earlier, and in particular the one just heard of is there.  So it *)
(* is for any mix of announcements, beats, merges that fail half way, and  *)
(* beats that reach the node itself (addPeer, mergePeers).                 *)
HeardOfLastAreListed ==
    ~steppedBack =>
        \A i \in Ids : heard[i] > 0 /\ i \notin Keys(PEERS) =>
            Cardinality({j \in Ids \ {i} : heard[j] >= heard[i]}) >= MAX_PEERS

(* A peer that stays in the table is called again and again, whoever else  *)
(* cannot be reached, and although rounds overlap and the table changes    *)
(* under them (the timer, sendHeartbeat).                                  *)
Called(i) ==
    \E k \in Slot : rounds[k] # <<>> /\ Head(rounds[k]).id = i /\ (CallAnswered(k) \/ CallFails(k))

ListedAreCalled ==
    \A i \in Ids : []<>(i \notin Keys(PEERS)) \/ []<><<Called(i)>>_peerVars
=============================================================================

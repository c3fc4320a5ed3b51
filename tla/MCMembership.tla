---------------------------- MODULE MCMembership ----------------------------
(***************************************************************************)
(* Three ways in which a node learns of others and keeps them in a table:  *)
(* the registry of services, discovery with the copies of its table, and   *)
(* the table of peers.  They share nothing: a behaviour is one of a single *)
(* part, chosen at the start, and the others do not move.                  *)
(***************************************************************************)
EXTENDS TrustStore, TLC

CONSTANTS TTL, ForeignTTL, NoTTL, HEARTBEAT, CLEANUP, RETRY, MAX_SERVICES, MaxDelay,
          MaxMishaps,                                                           \* Directory
          Peer, PeerSelf, Elsewhere, Undefined, MAX_PEERS, MaxClock             \* PeerTable

VARIABLES part,
          SERVICES, dirUp, cleanIn, run, up, registration, retryIn, beatIn, calls, mishaps,
          PEERS, clock, rounds, heard, steppedBack

Registry == INSTANCE Directory WITH MaxFaults <- MaxMishaps, faults <- mishaps
Peers == INSTANCE PeerTable WITH Self <- PeerSelf

ASSUME MembershipAssumption == Registry!DirectoryAssumption /\ Peers!PeerTableAssumption

registrySide == <<SERVICES, dirUp, cleanIn, run, up, registration, retryIn, beatIn, calls, mishaps>>
trustSide == vars
peersSide == <<PEERS, clock, rounds, heard, steppedBack>>
allVars == <<part, registrySide, trustSide, peersSide>>

InRegistry == part = "registry"
InTrust == part = "trust"
InPeers == part = "peers"

\* A part that does not move is in its first state.
MembershipInit ==
    /\ part \in {"registry", "trust", "peers"}
    /\ Registry!Init /\ Init /\ Peers!PeersInit
    /\ part # "trust" =>
           /\ directoryUp
           /\ \A s \in Service : polls[s][CHOOSE k \in Slot : TRUE] = Asked

MembershipNext ==
    \/ InRegistry /\ Registry!Next /\ UNCHANGED <<part, trustSide, peersSide>>
    \/ InTrust /\ Next /\ UNCHANGED <<part, registrySide, peersSide>>
    \/ InPeers /\ Peers!PeersNext /\ UNCHANGED <<part, registrySide, trustSide>>

\* The fairness of each part (FairSpec, PeersFairSpec), as long as it is the part that moves
MembershipFairness ==
    /\ WF_registrySide(InRegistry /\ Registry!Tick)
    /\ WF_registrySide(InRegistry /\ Registry!cleanupExpired)
    /\ WF_registrySide(InRegistry /\ Registry!StartDirectory)
    /\ WF_registrySide(InRegistry /\ \E c \in calls : Registry!Deliver(c))
    /\ \A s \in Service : /\ WF_registrySide(InRegistry /\ Registry!Attempt(s))
                          /\ WF_registrySide(InRegistry /\ Registry!Beat(s))
    /\ \A n \in Node : WF_vars(InTrust /\ Announce(n)) /\ WF_vars(InTrust /\ Hear(n))
    /\ \A s \in Service : WF_vars(InTrust /\ Poll(s))
    /\ \A s \in Service, k \in Slot :
           WF_vars(InTrust /\ (AnswerPoll(s, k) \/ RefusePoll(s, k) \/ TakeAnswer(s, k)))
    /\ WF_vars(InTrust /\ StartDiscovery)
    /\ WF_vars(InTrust /\ (Registered \/ RegistrationRefused))
    /\ WF_peersSide(InPeers /\ \E k \in Slot : Peers!StartRound(k))
    /\ \A k \in Slot : WF_peersSide(InPeers /\ (Peers!CallAnswered(k) \/ Peers!CallFails(k)))

MembershipSpec == MembershipInit /\ [][MembershipNext]_allVars /\ MembershipFairness

-----------------------------------------------------------------------------
(* Every table keeps its shape and its bound (Directory, TrustStore,       *)
(* PeerTable).                                                             *)
TablesTypeOK == Registry!TypeOK /\ TypeOK /\ Peers!PeersTypeOK

(* "Retries until Directory becomes available" (lib/nz-lib.js:7): a        *)
(* service that keeps running gets its registration answered.              *)
RegistersEventually == part = "registry" => Registry!RegistersEventually

(* Restarts, losses and answers in the wrong order are made good by the    *)
(* timers: with the directory reachable for good, every service ends up    *)
(* trusting every node that keeps announcing itself (TrustStore).          *)
EveryNodeGetsTrustedAgain == part = "trust" => EveryNodeGetsTrusted

(* The table of peers has those heard of last (addPeer, mergePeers of      *)
(* services/p2p_node).                                                     *)
HeardOfLastAreListed == Peers!HeardOfLastAreListed

(* A peer that stays listed is called again and again, whoever else cannot *)
(* be reached (the timer of services/p2p_node).                            *)
ListedAreCalled == part = "peers" => Peers!ListedAreCalled

=============================================================================

----------------------------- MODULE TrustStore -----------------------------
(***************************************************************************)
(* services/discovery and the copies of its table that every service keeps *)
(* (updateKnownNodes, the same code in each server.js).                    *)
(*                                                                         *)
(* Discovery hears announcements of nodes over UDP and answers GET /nodes  *)
(* with all it has heard since it was started.  A service asks for the     *)
(* table on a timer, without waiting for an earlier answer, and replaces   *)
(* its copy by whatever answer comes in.  Packets are verified against the *)
(* copy (lib/nz-crypto-routing.js).                                        *)
(*                                                                         *)
(* A node's id and key are generated together and never change, so an      *)
(* entry is the node itself.  One process listens at the model's host; it  *)
(* is a node too (Self) and hears its own broadcasts.                      *)
(***************************************************************************)
EXTENDS Naturals, FiniteSets

CONSTANTS Node, Self,
          Malformed,   \* a datagram that is no JSON, or lacks a field of an announcement
          Service,
          Slot,        \* model bound: polls of a service that may be outstanding at once
          MaxFaults    \* model bound: processes that end, messages that are lost

ASSUME TrustAssumption == Self \in Node /\ Malformed \notin Node /\ MaxFaults \in Nat

VARIABLES
    discovery,    \* the process of discovery: down, registering at the directory, up
    knownNodes,   \* its table
    air,          \* announcements on their way
    copy,         \* service: its knownNodes
    polls,        \* service: its outstanding GET /nodes, by slot
    directoryUp,  \* a connection to the directory succeeds
    copyOld,      \* history: the copy is from an earlier process of discovery
    overlapped,   \* history: a service has had two polls outstanding in this run
    faults

vars == <<discovery, knownNodes, air, copy, polls, directoryUp, copyOld, overlapped, faults>>

Free == [at |-> "free"]
Asked == [at |-> "asked"]
Answer == [at : {"answered"}, nodes : SUBSET Node, old : BOOLEAN]

TypeOK ==
    /\ discovery \in {"down", "registering", "up"}
    /\ knownNodes \subseteq Node /\ air \subseteq Node \cup {Malformed}
    /\ copy \in [Service -> SUBSET Node]
    /\ polls \in [Service -> [Slot -> {Free, Asked} \cup Answer]]
    /\ directoryUp \in BOOLEAN
    /\ copyOld \in [Service -> BOOLEAN]
    /\ overlapped \in [Service -> BOOLEAN]
    /\ faults \in 0..MaxFaults
    /\ discovery = "down" => knownNodes = {}

Init ==
    /\ discovery = "registering"
    /\ knownNodes = {} /\ air = {}
    /\ copy = [s \in Service |-> {}]
    /\ \E k \in Slot : polls = [s \in Service |-> [j \in Slot |-> IF j = k THEN Asked ELSE Free]]
    /\ directoryUp \in BOOLEAN
    /\ copyOld = [s \in Service |-> FALSE]
    /\ overlapped = [s \in Service |-> FALSE]
    /\ faults = 0

Runs == discovery # "down"

Outstanding(s) == {k \in Slot : polls[s][k] # Free}

-----------------------------------------------------------------------------
\* The broadcast timer of a node; that of Self runs in the process of discovery.
Announce(n) ==
    /\ n = Self => Runs
    /\ air' = air \cup {n}
    /\ UNCHANGED <<discovery, knownNodes, copy, polls, directoryUp, copyOld, overlapped, faults>>

\* Whatever else is sent to the UDP port
Stray ==
    /\ air' = air \cup {Malformed}
    /\ UNCHANGED <<discovery, knownNodes, copy, polls, directoryUp, copyOld, overlapped, faults>>

\* Faulty variant: the table holds the last announcement only
HeardLast(n) == IF n = Malformed THEN knownNodes ELSE {n}

\* Faulty variant: the fields are not looked at
HeardUnchecked(n) == knownNodes \cup {n}

\* knownNodes[data.node_id] = ..., unless the datagram is malformed
Heard(n) == IF n = Malformed THEN knownNodes ELSE knownNodes \cup {n}

\* The UDP listener; nobody listens while discovery is down.
Hear(n) ==
    /\ n \in air
    /\ air' = air \ {n}
    /\ knownNodes' = IF Runs THEN Heard(n) ELSE knownNodes
    /\ UNCHANGED <<discovery, copy, polls, directoryUp, copyOld, overlapped, faults>>

\* updateKnownNodes on the timer, whatever became of earlier polls
Poll(s) ==
    \E k \in Slot :
        /\ polls[s][k] = Free
        /\ polls' = [polls EXCEPT ![s][k] = Asked]
        /\ overlapped' = [overlapped EXCEPT ![s] = @ \/ Outstanding(s) # {}]
        /\ UNCHANGED <<discovery, knownNodes, air, copy, directoryUp, copyOld, faults>>

\* GET /nodes
AnswerPoll(s, k) ==
    /\ polls[s][k] = Asked /\ Runs
    /\ polls' = [polls EXCEPT ![s][k] = [at |-> "answered", nodes |-> knownNodes, old |-> FALSE]]
    /\ UNCHANGED <<discovery, knownNodes, air, copy, directoryUp, copyOld, overlapped, faults>>

\* Nobody listens: the request ends with an error event, the copy stays.
RefusePoll(s, k) ==
    /\ polls[s][k] = Asked /\ ~Runs
    /\ polls' = [polls EXCEPT ![s][k] = Free]
    /\ UNCHANGED <<discovery, knownNodes, air, copy, directoryUp, copyOld, overlapped, faults>>

\* knownNodes = JSON.parse(data), in whatever order the answers arrive
TakeAnswer(s, k) ==
    /\ polls[s][k].at = "answered"
    /\ polls' = [polls EXCEPT ![s][k] = Free]
    /\ copy' = [copy EXCEPT ![s] = polls[s][k].nodes]
    /\ copyOld' = [copyOld EXCEPT ![s] = polls[s][k].old]
    /\ UNCHANGED <<discovery, knownNodes, air, directoryUp, overlapped, faults>>

\* The process ends, and its table with it; answers on their way still arrive.
Forget ==
    /\ discovery' = "down" /\ knownNodes' = {}
    /\ polls' = [s \in Service |-> [k \in Slot |->
                    IF polls[s][k].at = "answered" THEN [polls[s][k] EXCEPT !.old = TRUE]
                    ELSE polls[s][k]]]
    /\ copyOld' = [s \in Service |-> TRUE]

\* pm2 starts the process again; it listens at once and calls the directory.
StartDiscovery ==
    /\ discovery = "down"
    /\ discovery' = "registering"
    /\ UNCHANGED <<knownNodes, air, copy, polls, directoryUp, copyOld, overlapped, faults>>

Registered ==
    /\ discovery = "registering" /\ directoryUp
    /\ discovery' = "up"
    /\ UNCHANGED <<knownNodes, air, copy, polls, directoryUp, copyOld, overlapped, faults>>

\* The promise of fetch is neither awaited nor caught: its rejection ends the process.
RegistrationRefused ==
    /\ discovery = "registering" /\ ~directoryUp
    /\ Forget
    /\ UNCHANGED <<air, copy, directoryUp, overlapped, faults>>

DirectoryComesUp ==
    /\ ~directoryUp /\ directoryUp' = TRUE
    /\ UNCHANGED <<discovery, knownNodes, air, copy, polls, copyOld, overlapped, faults>>

-----------------------------------------------------------------------------
\* What may go wrong, MaxFaults times
DiscoveryEnds ==
    /\ Runs
    /\ Forget
    /\ UNCHANGED <<air, copy, directoryUp, overlapped>>

LoseAnnouncement(n) ==
    /\ n \in air /\ air' = air \ {n}
    /\ UNCHANGED <<discovery, knownNodes, copy, polls, directoryUp, copyOld, overlapped>>

LosePoll(s, k) ==
    /\ polls[s][k] # Free
    /\ polls' = [polls EXCEPT ![s][k] = Free]
    /\ UNCHANGED <<discovery, knownNodes, air, copy, directoryUp, copyOld, overlapped>>

\* A new process polls once as it starts.
RestartService(s) ==
    /\ copy' = [copy EXCEPT ![s] = {}]
    /\ \E k \in Slot : polls' = [polls EXCEPT ![s] = [j \in Slot |-> IF j = k THEN Asked ELSE Free]]
    /\ copyOld' = [copyOld EXCEPT ![s] = FALSE]
    /\ overlapped' = [overlapped EXCEPT ![s] = FALSE]
    /\ UNCHANGED <<discovery, knownNodes, air, directoryUp>>

DirectoryGoesDown ==
    /\ directoryUp /\ directoryUp' = FALSE
    /\ UNCHANGED <<discovery, knownNodes, air, copy, polls, copyOld, overlapped>>

Fault ==
    /\ faults < MaxFaults /\ faults' = faults + 1
    /\ \/ DiscoveryEnds
       \/ DirectoryGoesDown
       \/ \E n \in Node \cup {Malformed} : LoseAnnouncement(n)
       \/ \E s \in Service, k \in Slot : LosePoll(s, k)
       \/ \E s \in Service : RestartService(s)

Discovers ==
    \/ \E n \in Node : Announce(n)
    \/ Stray
    \/ \E n \in Node \cup {Malformed} : Hear(n)
    \/ StartDiscovery \/ Registered \/ RegistrationRefused

Polls ==
    \E s \in Service :
        \/ Poll(s)
        \/ \E k \in Slot : AnswerPoll(s, k) \/ RefusePoll(s, k) \/ TakeAnswer(s, k)

Next == Discovers \/ Polls \/ DirectoryComesUp \/ Fault

Spec == Init /\ [][Next]_vars

\* Timers fire, what is sent arrives unless it is lost, pm2 starts discovery again.
Fairness ==
    /\ \A n \in Node : WF_vars(Announce(n)) /\ WF_vars(Hear(n))
    /\ \A s \in Service :
           /\ WF_vars(Poll(s))
           /\ \A k \in Slot : WF_vars(AnswerPoll(s, k) \/ RefusePoll(s, k) \/ TakeAnswer(s, k))
    /\ WF_vars(StartDiscovery)
    /\ WF_vars(Registered \/ RegistrationRefused)

FairSpec == Spec /\ Fairness

-----------------------------------------------------------------------------
(* A service goes on trusting a node for as long as neither it nor         *)
(* discovery is restarted: of answers to polls that did not overlap, the   *)
(* later one knows more.                                                   *)
TrustIsKept ==
    [][\A s \in Service :
           faults' = faults /\ ~overlapped[s] /\ ~copyOld[s] => copy[s] \subseteq copy'[s]]_vars

(* Restarts of discovery and of services, lost announcements and answers   *)
(* and answers in the wrong order are made good by the timers: once the    *)
(* directory can be reached for good, every service ends up with every     *)
(* node that keeps announcing itself, and keeps it.                        *)
EveryNodeGetsTrusted ==
    <>[]directoryUp => \A s \in Service : <>[](copy[s] = Node)
=============================================================================

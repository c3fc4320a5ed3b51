-------------------------- MODULE MembershipProofs --------------------------
(***************************************************************************)
(* The tables in which a node keeps others, for any nodes, services,       *)
(* bounds, clocks and faults: why a copy of discovery's table that is      *)
(* replaced by whatever answer comes loses nobody; the types of the        *)
(* registry; and why the table of peers keeps those heard of last.         *)
(***************************************************************************)
EXTENDS MCMembership, BoundedBufferTheorems

-----------------------------------------------------------------------------
(* Discovery and the copies of its table *)

\* A service whose polls never overlapped waits for one at most.
OnePoll ==
    \A s \in Service : ~overlapped[s] =>
        \A j, k \in Slot : polls[s][j] # Free /\ polls[s][k] # Free => j = k

Fresh(s) == ~overlapped[s] /\ ~copyOld[s]

\* Copy, answer on its way and table are one within the other.
Nested ==
    \A s \in Service :
        /\ Fresh(s) => copy[s] \subseteq knownNodes
        /\ \A k \in Slot : polls[s][k].at = "answered" =>
               /\ ~polls[s][k].old => polls[s][k].nodes \subseteq knownNodes
               /\ Fresh(s) => ~polls[s][k].old /\ copy[s] \subseteq polls[s][k].nodes

TInv == TypeOK /\ OnePoll /\ Nested

-----------------------------------------------------------------------------
LEMMA PollType ==
    ASSUME TypeOK, NEW s \in Service, NEW k \in Slot
    PROVE  /\ polls[s][k] \in {Free, Asked} \cup Answer
           /\ polls[s][k].at = "answered" <=> polls[s][k] \in Answer
BY DEF TypeOK, Free, Asked, Answer

\* What touches neither copies, answers on their way nor the table
LEMMA OthersKeep ==
    ASSUME TInv, TypeOK', UNCHANGED <<copy, polls, copyOld, overlapped>>, knownNodes \subseteq knownNodes'
    PROVE  OnePoll' /\ Nested'
BY DEF TInv, OnePoll, Nested, Fresh

\* The polls of one service change.
LEMMA OneChanges ==
    ASSUME TInv, TypeOK', knownNodes' = knownNodes, NEW s \in Service,
           \A t \in Service \ {s} : /\ polls'[t] = polls[t] /\ copy'[t] = copy[t]
                                    /\ copyOld'[t] = copyOld[t] /\ overlapped'[t] = overlapped[t],
           ~overlapped'[s] =>
               \A j, k \in Slot : polls'[s][j] # Free /\ polls'[s][k] # Free => j = k,
           Fresh(s)' => copy'[s] \subseteq knownNodes,
           \A k \in Slot : polls'[s][k].at = "answered" =>
               /\ ~polls'[s][k].old => polls'[s][k].nodes \subseteq knownNodes
               /\ Fresh(s)' => ~polls'[s][k].old /\ copy'[s] \subseteq polls'[s][k].nodes
    PROVE  OnePoll' /\ Nested'
<1>1. OnePoll'
  BY DEF TInv, OnePoll
<1>2. ASSUME NEW t \in Service, t # s
      PROVE  /\ Fresh(t)' => copy'[t] \subseteq knownNodes'
             /\ \A k \in Slot : polls'[t][k].at = "answered" =>
                    /\ ~polls'[t][k].old => polls'[t][k].nodes \subseteq knownNodes'
                    /\ Fresh(t)' => ~polls'[t][k].old /\ copy'[t] \subseteq polls'[t][k].nodes
  BY <1>2 DEF TInv, Nested, Fresh
<1> QED
  BY <1>1, <1>2 DEF Nested

-----------------------------------------------------------------------------
\* The table is gone, and whatever comes from it is old from now on.
LEMMA ForgetStep ==
    ASSUME TInv, Forget, UNCHANGED <<air, copy, directoryUp, overlapped>>, faults' \in 0..MaxFaults
    PROVE  TInv'
<1>1. ASSUME NEW s \in Service, NEW k \in Slot
      PROVE  /\ polls'[s][k] \in {Free, Asked} \cup Answer
             /\ polls[s][k].at = "answered" =>
                    polls'[s][k] = [at |-> "answered", nodes |-> polls[s][k].nodes, old |-> TRUE]
             /\ polls[s][k].at # "answered" => polls'[s][k] = polls[s][k]
             /\ polls'[s][k].at = polls[s][k].at
             /\ polls'[s][k] = Free <=> polls[s][k] = Free
  <2>1. polls'[s][k] = IF polls[s][k].at = "answered" THEN [polls[s][k] EXCEPT !.old = TRUE]
                      ELSE polls[s][k]
    BY DEF Forget
  <2>2. CASE polls[s][k].at = "answered"
    BY <2>1, <2>2, PollType DEF TInv, Answer, Free, Asked
  <2>3. CASE polls[s][k].at # "answered"
    BY <2>1, <2>3, PollType DEF TInv
  <2> QED
    BY <2>2, <2>3
<1>2. \A s \in Service : copyOld'[s] = TRUE
  BY DEF Forget
<1>3. TypeOK'
  <2>1. polls' \in [Service -> [Slot -> {Free, Asked} \cup Answer]]
    BY <1>1 DEF Forget
  <2> QED
    BY <2>1 DEF Forget, TInv, TypeOK
<1>4. OnePoll'
  BY <1>1 DEF TInv, OnePoll
<1>5. Nested'
  <2>1. ASSUME NEW s \in Service, NEW k \in Slot, polls'[s][k].at = "answered"
        PROVE  polls'[s][k].old = TRUE
    <3>1. polls'[s][k] = [at |-> "answered", nodes |-> polls[s][k].nodes, old |-> TRUE]
      BY <1>1, <2>1
    <3>2. ASSUME NEW n PROVE [at |-> "answered", nodes |-> n, old |-> TRUE].old = TRUE
      OBVIOUS
    <3> QED
      BY <3>1, <3>2
  <2>2. ASSUME NEW s \in Service PROVE ~Fresh(s)'
    BY <1>2 DEF Fresh
  <2> QED
    BY <2>1, <2>2 DEF Nested
<1> QED
  BY <1>3, <1>4, <1>5 DEF TInv

LEMMA DiscoversStep ==
    ASSUME TInv, Discovers
    PROVE  TInv'
<1>1. ASSUME NEW n \in Node, Announce(n) PROVE TInv'
  <2>1. TypeOK'
    BY <1>1 DEF TInv, TypeOK, Announce
  <2> QED
    BY <1>1, <2>1, OthersKeep DEF Announce, TInv
<1>2. CASE Stray
  <2>1. TypeOK'
    BY <1>2 DEF TInv, TypeOK, Stray
  <2> QED
    BY <1>2, <2>1, OthersKeep DEF Stray, TInv
<1>3. ASSUME NEW n \in Node \cup {Malformed}, Hear(n) PROVE TInv'
  <2>1. TypeOK'
    BY <1>3 DEF TInv, TypeOK, Hear, Heard, Runs
  <2>2. knownNodes \subseteq knownNodes'
    BY <1>3 DEF Hear, Heard
  <2> QED
    BY <1>3, <2>1, <2>2, OthersKeep DEF Hear, TInv
<1>4. CASE StartDiscovery
  <2>1. TypeOK'
    BY <1>4 DEF TInv, TypeOK, StartDiscovery
  <2> QED
    BY <1>4, <2>1, OthersKeep DEF StartDiscovery, TInv
<1>5. CASE Registered
  <2>1. TypeOK'
    BY <1>5 DEF TInv, TypeOK, Registered
  <2> QED
    BY <1>5, <2>1, OthersKeep DEF Registered, TInv
<1>6. CASE RegistrationRefused
  BY <1>6, ForgetStep DEF RegistrationRefused, TInv, TypeOK
<1> QED
  BY <1>1, <1>2, <1>3, <1>4, <1>5, <1>6 DEF Discovers

LEMMA PollsStep ==
    ASSUME TInv, NEW s \in Service,
           \/ Poll(s)
           \/ \E k \in Slot : AnswerPoll(s, k) \/ RefusePoll(s, k) \/ TakeAnswer(s, k)
    PROVE  TInv'
<1> DEFINE Freed(k) == polls' = [polls EXCEPT ![s][k] = Free]
<1>1. CASE Poll(s)
  <2>1. PICK k \in Slot :
            /\ polls[s][k] = Free
            /\ polls' = [polls EXCEPT ![s][k] = Asked]
            /\ overlapped' = [overlapped EXCEPT ![s] = @ \/ Outstanding(s) # {}]
            /\ UNCHANGED <<discovery, knownNodes, air, copy, directoryUp, copyOld, faults>>
    BY <1>1 DEF Poll
  <2>2. TypeOK'
    BY <2>1 DEF TInv, TypeOK
  <2>3. /\ polls'[s] = [polls[s] EXCEPT ![k] = Asked]
        /\ \A t \in Service \ {s} : polls'[t] = polls[t] /\ overlapped'[t] = overlapped[t]
        /\ ~overlapped'[s] => ~overlapped[s] /\ \A j \in Slot : polls[s][j] = Free
    BY <2>1 DEF TInv, TypeOK, Outstanding
  <2>4. /\ polls'[s][k] = Asked
        /\ \A j \in Slot \ {k} : polls'[s][j] = polls[s][j]
    BY <2>3 DEF TInv, TypeOK
  <2>5. Asked.at # "answered"
    BY DEF Asked
  <2>6. Fresh(s)' => Fresh(s)
    BY <2>1, <2>3 DEF Fresh
  <2>7. \A j \in Slot : polls'[s][j].at = "answered" =>
            /\ ~polls'[s][j].old => polls'[s][j].nodes \subseteq knownNodes
            /\ Fresh(s)' => ~polls'[s][j].old /\ copy'[s] \subseteq polls'[s][j].nodes
    BY <2>1, <2>4, <2>5, <2>6 DEF TInv, Nested
  <2>8. ~overlapped'[s] =>
            \A i, j \in Slot : polls'[s][i] # Free /\ polls'[s][j] # Free => i = j
    BY <2>3, <2>4
  <2>9. Fresh(s)' => copy'[s] \subseteq knownNodes
    BY <2>1, <2>6 DEF TInv, Nested
  <2> QED
    BY <2>1, <2>2, <2>3, <2>7, <2>8, <2>9, OneChanges DEF TInv
<1>2. ASSUME NEW k \in Slot, AnswerPoll(s, k) PROVE TInv'
  <2> DEFINE given == [at |-> "answered", nodes |-> knownNodes, old |-> FALSE]
  <2>1. /\ polls[s][k] = Asked /\ polls' = [polls EXCEPT ![s][k] = given]
        /\ UNCHANGED <<discovery, knownNodes, air, copy, directoryUp, copyOld, overlapped, faults>>
    BY <1>2 DEF AnswerPoll
  <2>2. given \in Answer
    BY DEF TInv, TypeOK, Answer
  <2>3. TypeOK'
    <3> HIDE DEF given
    <3> QED
      BY <2>1, <2>2 DEF TInv, TypeOK
  <2>4. /\ \A t \in Service \ {s} : polls'[t] = polls[t]
        /\ polls'[s][k] = given
        /\ \A j \in Slot \ {k} : polls'[s][j] = polls[s][j]
    <3> HIDE DEF given
    <3> QED
      BY <2>1 DEF TInv, TypeOK
  <2>5. Asked # Free
    BY DEF Asked, Free
  <2>6. \A j \in Slot : polls'[s][j].at = "answered" =>
            /\ ~polls'[s][j].old => polls'[s][j].nodes \subseteq knownNodes
            /\ Fresh(s)' => ~polls'[s][j].old /\ copy'[s] \subseteq polls'[s][j].nodes
    BY <2>1, <2>4 DEF TInv, Nested, Fresh
  <2>7. ~overlapped'[s] =>
            \A i, j \in Slot : polls'[s][i] # Free /\ polls'[s][j] # Free => i = j
    <3> HIDE DEF given
    <3> QED
      BY <2>1, <2>4, <2>5 DEF TInv, OnePoll
  <2>8. Fresh(s)' => copy'[s] \subseteq knownNodes
    BY <2>1 DEF TInv, Nested, Fresh
  <2> QED
    BY <2>1, <2>3, <2>4, <2>6, <2>7, <2>8, OneChanges DEF TInv
<1>3. ASSUME NEW k \in Slot, Freed(k), OnePoll, knownNodes' = knownNodes, TypeOK',
             \A t \in Service \ {s} : copy'[t] = copy[t] /\ copyOld'[t] = copyOld[t],
             overlapped' = overlapped, Fresh(s)' => copy'[s] \subseteq knownNodes,
             \/ copy'[s] = copy[s] /\ copyOld'[s] = copyOld[s]
             \/ polls[s][k] # Free
      PROVE  TInv'
  <2>1. /\ \A t \in Service \ {s} : polls'[t] = polls[t]
        /\ polls'[s][k] = Free
        /\ \A j \in Slot \ {k} : polls'[s][j] = polls[s][j]
    BY <1>3 DEF TInv, TypeOK
  <2>2. Free.at # "answered"
    BY DEF Free
  <2>3. ~overlapped'[s] =>
            \A i, j \in Slot : polls'[s][i] # Free /\ polls'[s][j] # Free => i = j
    BY <1>3, <2>1 DEF OnePoll
  <2>4. ASSUME NEW j \in Slot, polls'[s][j].at = "answered"
        PROVE  /\ ~polls'[s][j].old => polls'[s][j].nodes \subseteq knownNodes
               /\ Fresh(s)' => ~polls'[s][j].old /\ copy'[s] \subseteq polls'[s][j].nodes
    <3>1. j # k /\ polls'[s][j] = polls[s][j] /\ polls[s][j] # Free
      BY <2>1, <2>2, <2>4
    <3>2. CASE copy'[s] = copy[s] /\ copyOld'[s] = copyOld[s]
      BY <1>3, <2>4, <3>1, <3>2 DEF TInv, Nested, Fresh
    <3>3. CASE polls[s][k] # Free
      <4>1. overlapped[s]
        BY <3>1, <3>3 DEF TInv, OnePoll
      <4> QED
        BY <1>3, <2>4, <3>1, <4>1 DEF TInv, Nested, Fresh
    <3> QED
      BY <1>3, <3>2, <3>3
  <2> QED
    BY <1>3, <2>1, <2>3, <2>4, OneChanges DEF TInv
<1>4. ASSUME NEW k \in Slot, RefusePoll(s, k) PROVE TInv'
  <2>1. TypeOK'
    BY <1>4 DEF RefusePoll, TInv, TypeOK
  <2> QED
    BY <1>3, <1>4, <2>1 DEF RefusePoll, TInv, Nested, Fresh
<1>5. ASSUME NEW k \in Slot, TakeAnswer(s, k) PROVE TInv'
  <2>1. polls[s][k] \in Answer /\ polls[s][k].at = "answered" /\ polls[s][k] # Free
    BY <1>5, PollType DEF TakeAnswer, TInv, Free
  <2>2. TypeOK'
    BY <1>5, <2>1 DEF TakeAnswer, TInv, TypeOK, Answer
  <2>3. /\ copy'[s] = polls[s][k].nodes /\ copyOld'[s] = polls[s][k].old
        /\ \A t \in Service \ {s} : copy'[t] = copy[t] /\ copyOld'[t] = copyOld[t]
    BY <1>5 DEF TakeAnswer, TInv, TypeOK
  <2>4. Fresh(s)' => copy'[s] \subseteq knownNodes
    BY <1>5, <2>1, <2>3 DEF TakeAnswer, TInv, Nested, Fresh
  <2> QED
    BY <1>3, <1>5, <2>1, <2>2, <2>3, <2>4 DEF TakeAnswer, TInv
<1> QED
  BY <1>1, <1>2, <1>4, <1>5

LEMMA FaultStep ==
    ASSUME TInv, Fault
    PROVE  TInv'
<1>0. faults' \in 0..MaxFaults
  BY TrustAssumption DEF Fault, TInv, TypeOK
<1>1. CASE DiscoveryEnds
  BY <1>0, <1>1, ForgetStep DEF DiscoveryEnds
<1>2. CASE DirectoryGoesDown
  <2>1. TypeOK'
    BY <1>0, <1>2 DEF DirectoryGoesDown, TInv, TypeOK
  <2> QED
    BY <1>2, <2>1, OthersKeep DEF DirectoryGoesDown, TInv
<1>3. ASSUME NEW n \in Node \cup {Malformed}, LoseAnnouncement(n) PROVE TInv'
  <2>1. TypeOK'
    BY <1>0, <1>3 DEF LoseAnnouncement, TInv, TypeOK
  <2> QED
    BY <1>3, <2>1, OthersKeep DEF LoseAnnouncement, TInv
<1>4. ASSUME NEW s \in Service, NEW k \in Slot, LosePoll(s, k) PROVE TInv'
  <2>1. TypeOK'
    BY <1>0, <1>4 DEF LosePoll, TInv, TypeOK
  <2>2. /\ \A t \in Service \ {s} : polls'[t] = polls[t]
        /\ polls'[s][k] = Free
        /\ \A j \in Slot \ {k} : polls'[s][j] = polls[s][j]
    BY <1>4 DEF LosePoll, TInv, TypeOK
  <2>3. ~overlapped'[s] =>
            \A i, j \in Slot : polls'[s][i] # Free /\ polls'[s][j] # Free => i = j
    BY <1>4, <2>2 DEF LosePoll, TInv, OnePoll
  <2>4. Free.at # "answered"
    BY DEF Free
  <2>5. \A j \in Slot : polls'[s][j].at = "answered" =>
            /\ ~polls'[s][j].old => polls'[s][j].nodes \subseteq knownNodes
            /\ Fresh(s)' => ~polls'[s][j].old /\ copy'[s] \subseteq polls'[s][j].nodes
    BY <1>4, <2>2, <2>4 DEF LosePoll, TInv, Nested, Fresh
  <2>6. Fresh(s)' => copy'[s] \subseteq knownNodes
    BY <1>4 DEF LosePoll, TInv, Nested, Fresh
  <2> QED
    BY <1>4, <2>1, <2>2, <2>3, <2>5, <2>6, OneChanges DEF LosePoll, TInv
<1>5. ASSUME NEW s \in Service, RestartService(s) PROVE TInv'
  <2>1. PICK k \in Slot :
            polls' = [polls EXCEPT ![s] = [j \in Slot |-> IF j = k THEN Asked ELSE Free]]
    BY <1>5 DEF RestartService
  <2>2. TypeOK'
    BY <1>0, <1>5, <2>1 DEF RestartService, TInv, TypeOK
  <2>3. /\ \A t \in Service \ {s} : /\ polls'[t] = polls[t] /\ copy'[t] = copy[t]
                                     /\ copyOld'[t] = copyOld[t] /\ overlapped'[t] = overlapped[t]
        /\ polls'[s][k] = Asked /\ \A j \in Slot \ {k} : polls'[s][j] = Free
        /\ copy'[s] = {} /\ knownNodes' = knownNodes
    BY <1>5, <2>1 DEF RestartService, TInv, TypeOK
  <2>4. Free.at # "answered" /\ Asked.at # "answered"
    BY DEF Free, Asked
  <2>5. \A j \in Slot : polls'[s][j].at # "answered"
    BY <2>3, <2>4
  <2> QED
    BY <2>2, <2>3, <2>5, OneChanges DEF TInv
<1> QED
  BY <1>1, <1>2, <1>3, <1>4, <1>5 DEF Fault

LEMMA TrustStarts == Init => TInv
<1> SUFFICES ASSUME Init PROVE TInv
  OBVIOUS
<1>1. PICK k \in Slot : polls = [s \in Service |-> [j \in Slot |-> IF j = k THEN Asked ELSE Free]]
  BY DEF Init
<1>2. TypeOK
  BY <1>1, TrustAssumption DEF Init, TypeOK
<1>3. \A s \in Service, j \in Slot : polls[s][j] = IF j = k THEN Asked ELSE Free
  BY <1>1
<1>4. \A s \in Service, j \in Slot : polls[s][j].at # "answered"
  BY <1>3 DEF Asked, Free
<1>5. OnePoll
  BY <1>3 DEF OnePoll
<1>6. Nested
  BY <1>4 DEF Init, Nested
<1> QED
  BY <1>2, <1>5, <1>6 DEF TInv

LEMMA TrustSteps == TInv /\ [Next]_vars => TInv'
<1> SUFFICES ASSUME TInv, [Next]_vars PROVE TInv'
  OBVIOUS
<1>1. CASE UNCHANGED vars
  BY <1>1 DEF vars, TInv, TypeOK, OnePoll, Nested, Fresh
<1>2. CASE Polls
  BY <1>2, PollsStep DEF Polls
<1>3. CASE DirectoryComesUp
  <2>1. TypeOK'
    BY <1>3 DEF DirectoryComesUp, TInv, TypeOK
  <2> QED
    BY <1>3, <2>1, OthersKeep DEF DirectoryComesUp, TInv
<1> QED
  BY <1>1, <1>2, <1>3, DiscoversStep, FaultStep DEF Next

(* A service that has the newest process of discovery to ask, and never    *)
(* had two polls outstanding, forgets no node unless it is restarted       *)
(* itself: of the answers to its polls, each knows what the one before     *)
(* knew (updateKnownNodes in every server.js, GET /nodes of discovery).    *)
THEOREM CopiesLoseNobody == Spec => TrustIsKept
<1>1. TInv /\ [Next]_vars =>
          [\A s \in Service :
               faults' = faults /\ ~overlapped[s] /\ ~copyOld[s] => copy[s] \subseteq copy'[s]]_vars
  <2> SUFFICES ASSUME TInv, Next, NEW s \in Service,
                      faults' = faults, ~overlapped[s], ~copyOld[s]
               PROVE  copy[s] \subseteq copy'[s]
    OBVIOUS
  <2>1. ~Fault
    BY TrustAssumption DEF Fault, TInv, TypeOK
  <2>2. CASE Discovers \/ DirectoryComesUp
    BY <2>2 DEF Discovers, DirectoryComesUp, Announce, Stray, Hear, StartDiscovery,
                Registered, RegistrationRefused
  <2>3. ASSUME NEW t \in Service, NEW k \in Slot, TakeAnswer(t, k)
        PROVE  copy[s] \subseteq copy'[s]
    <3>1. copy' = [copy EXCEPT ![t] = polls[t][k].nodes] /\ polls[t][k].at = "answered"
      BY <2>3 DEF TakeAnswer
    <3>2. CASE t = s
      BY <3>1, <3>2 DEF TInv, TypeOK, Nested, Fresh
    <3>3. CASE t # s
      BY <3>1, <3>3 DEF TInv, TypeOK
    <3> QED
      BY <3>2, <3>3
  <2>4. CASE Polls
    BY <2>3, <2>4 DEF Polls, Poll, AnswerPoll, RefusePoll
  <2> QED
    BY <2>1, <2>2, <2>4 DEF Next
<1> QED
  BY <1>1, TrustStarts, TrustSteps, PTL DEF Spec, TrustIsKept

-----------------------------------------------------------------------------
(* The registry *)

\* The operators on buffers are the ones the theorems of buffers are about.
LEMMA SameBuffer ==
    /\ \A s, x, max : Registry!PushBounded(s, x, max) = PushBounded(s, x, max)
    /\ \A s, P : Registry!ElementsAt(s, P) = ElementsAt(s, P)
<1>1. \A s, x, max : Registry!PushBounded(s, x, max) = PushBounded(s, x, max)
  BY DEF Registry!PushBounded, PushBounded
<1>2. \A S : Registry!Cardinality(S) = Cardinality(S)
  BY DEF Registry!Cardinality, Cardinality
<1>3. \A P, i : Registry!Nth(P, i) = Nth(P, i)
  BY <1>2 DEF Registry!Nth, Nth
<1>4. \A s, P : Registry!ElementsAt(s, P) = ElementsAt(s, P)
  BY <1>2, <1>3 DEF Registry!ElementsAt, ElementsAt
<1> QED
  BY <1>1, <1>4

LEMMA RegistryBounds ==
    /\ TTL \in Nat /\ HEARTBEAT \in Nat /\ CLEANUP \in Nat /\ RETRY \in Nat
    /\ MAX_SERVICES \in Nat \ {0} /\ MaxDelay \in Nat
    /\ ForeignTTL \subseteq Nat \cup {NoTTL}
BY MembershipAssumption DEF Registry!DirectoryAssumption

LEMMA EntriesAre ==
    ASSUME Registry!TypeOK
    PROVE  /\ Len(SERVICES) \in Nat
           /\ \A i \in 1..Len(SERVICES) : SERVICES[i] \in Registry!Entry
           /\ \A e \in Registry!Entry : \A a \in Nat : [e EXCEPT !.age = a] \in Registry!Entry
           /\ \A e \in Registry!Entry : \A ttl \in Nat \cup {NoTTL} : Registry!Refreshed(e, ttl) \in Registry!Entry
<1>1. \A e \in Registry!Entry : \A a \in Nat : [e EXCEPT !.age = a] \in Registry!Entry
  BY DEF Registry!Entry
<1>2. \A e \in Registry!Entry : \A ttl \in Nat \cup {NoTTL} : Registry!Refreshed(e, ttl) \in Registry!Entry
  BY DEF Registry!Entry, Registry!Refreshed
<1> QED
  BY <1>1, <1>2 DEF Registry!TypeOK

LEMMA EntryAddedFits ==
    ASSUME Registry!TypeOK, NEW s \in Service, SERVICES' = Registry!registerService(s)
    PROVE  SERVICES' \in Seq(Registry!Entry) /\ Len(SERVICES') <= MAX_SERVICES
<1>1. PICK e : e = [svc |-> s, age |-> 0, ttl |-> TTL]
  OBVIOUS
<1>2. e \in Registry!Entry
  BY <1>1, RegistryBounds DEF Registry!Entry
<1>3. SERVICES' = PushBounded(SERVICES, e, MAX_SERVICES)
  BY <1>1, SameBuffer DEF Registry!registerService
<1>4. SERVICES \in Seq(Registry!Entry) /\ Len(SERVICES) <= MAX_SERVICES /\ MAX_SERVICES \in Nat \ {0}
  BY RegistryBounds DEF Registry!TypeOK
<1>5. /\ PushBounded(SERVICES, e, MAX_SERVICES) \in Seq(Registry!Entry)
      /\ Len(PushBounded(SERVICES, e, MAX_SERVICES)) <= MAX_SERVICES
  BY <1>2, <1>4, PushBoundedType
<1> QED
  BY <1>3, <1>5

LEMMA EntryRefreshedFits ==
    ASSUME Registry!TypeOK, NEW s, NEW ttl \in Nat \cup {NoTTL},
           SERVICES' = Registry!updateHeartbeat(s, ttl)
    PROVE  SERVICES' \in Seq(Registry!Entry) /\ Len(SERVICES') <= MAX_SERVICES
<1> DEFINE Value(i) == IF Registry!IsFirst(i, s) THEN Registry!Refreshed(SERVICES[i], ttl) ELSE SERVICES[i]
<1>1. \A i \in 1..Len(SERVICES) : Value(i) \in Registry!Entry
  BY EntriesAre
<1>2. SERVICES' = [i \in 1..Len(SERVICES) |-> Value(i)] /\ Len(SERVICES) \in Nat
  BY EntriesAre DEF Registry!updateHeartbeat
<1>3. Len(SERVICES) <= MAX_SERVICES
  BY DEF Registry!TypeOK
<1> HIDE DEF Value
<1> QED
  BY <1>1, <1>2, <1>3

LEMMA EntriesLeftFit ==
    ASSUME Registry!TypeOK, NEW P \in SUBSET (1..Len(SERVICES)), SERVICES' = Registry!ElementsAt(SERVICES, P)
    PROVE  SERVICES' \in Seq(Registry!Entry) /\ Len(SERVICES') <= MAX_SERVICES
<1> DEFINE t == ElementsAt(SERVICES, P)
<1>1. /\ SERVICES \in Seq(Registry!Entry) /\ Len(SERVICES) \in Nat /\ Len(SERVICES) <= MAX_SERVICES
      /\ MAX_SERVICES \in Nat
  BY RegistryBounds DEF Registry!TypeOK
<1>2. t \in Seq(Registry!Entry) /\ Len(t) = Cardinality(P) /\ Cardinality(P) \in 0..Len(SERVICES)
  BY <1>1, ElementsAtKeeps
<1>3. SERVICES' = t
  BY SameBuffer
<1> HIDE DEF t
<1> QED
  BY <1>1, <1>2, <1>3

\* What a call's end does to the service that made it
LEMMA EndedCallFits ==
    ASSUME Registry!TypeOK, NEW c \in calls, NEW answered \in BOOLEAN, Registry!CallEnds(c, answered)
    PROVE  /\ run' = run /\ up' = up /\ beatIn' = beatIn /\ calls' \subseteq Registry!Call
           /\ registration' \in [Service -> {"none", "calling", "waiting", "registered"}]
           /\ retryIn' \in [Service -> 0..RETRY]
<1>1. /\ run' = run /\ up' = up /\ beatIn' = beatIn /\ calls' = calls \ {c}
      /\ \/ UNCHANGED <<registration, retryIn>>
         \/ /\ registration' = [registration EXCEPT ![c.svc] = IF answered THEN "registered" ELSE "waiting"]
            /\ retryIn' = [retryIn EXCEPT ![c.svc] = IF answered THEN 0 ELSE RETRY]
  BY DEF Registry!CallEnds
<1>2. 0 \in 0..RETRY /\ RETRY \in 0..RETRY
  BY RegistryBounds
<1>3. calls' \subseteq Registry!Call
  BY <1>1 DEF Registry!TypeOK
<1>4. /\ registration \in [Service -> {"none", "calling", "waiting", "registered"}]
      /\ retryIn \in [Service -> 0..RETRY]
  BY DEF Registry!TypeOK
<1>5. registration' \in [Service -> {"none", "calling", "waiting", "registered"}]
  BY <1>1, <1>4
<1>6. retryIn' \in [Service -> 0..RETRY]
  BY <1>1, <1>2, <1>4
<1> QED
  BY <1>1, <1>3, <1>5, <1>6

LEMMA FailsFits ==
    ASSUME Registry!TypeOK, NEW kind \in Registry!FaultKind, Registry!Fails(kind)
    PROVE  mishaps' \in [Registry!FaultKind -> Nat]
BY DEF Registry!TypeOK, Registry!Fails

LEMMA ServiceStepFits ==
    ASSUME Registry!TypeOK, NEW s \in Service,
           Registry!Start(s) \/ Registry!Stop(s) \/ Registry!Attempt(s) \/ Registry!Beat(s)
    PROVE  Registry!TypeOK'
<1>1. /\ \A op \in {"register", "heartbeat"}, n \in Nat : Registry!Request(op, s, n) \in Registry!Call
      /\ run[s] \in Nat /\ run[s] + 1 \in Nat
      /\ 0 \in 0..RETRY /\ 0 \in 0..HEARTBEAT /\ HEARTBEAT \in 0..HEARTBEAT
  BY RegistryBounds DEF Registry!TypeOK, Registry!Request, Registry!Call
<1>2. CASE Registry!Start(s)
  <2>1. calls' \subseteq Registry!Call
    BY <1>1, <1>2 DEF Registry!Start, Registry!TypeOK
  <2> QED
    BY <1>1, <1>2, <2>1 DEF Registry!Start, Registry!TypeOK, Registry!directoryVars
<1>3. CASE Registry!Stop(s)
  <2>1. mishaps' \in [Registry!FaultKind -> Nat]
    BY <1>3, FailsFits DEF Registry!Stop, Registry!FaultKind
  <2> QED
    BY <1>1, <1>3, <2>1 DEF Registry!Stop, Registry!TypeOK, Registry!directoryVars
<1>4. CASE Registry!Attempt(s)
  <2>1. calls' \subseteq Registry!Call
    BY <1>1, <1>4 DEF Registry!Attempt, Registry!TypeOK
  <2> QED
    BY <1>1, <1>4, <2>1 DEF Registry!Attempt, Registry!TypeOK, Registry!directoryVars
<1>5. CASE Registry!Beat(s)
  <2>1. calls' \subseteq Registry!Call
    BY <1>1, <1>5 DEF Registry!Beat, Registry!TypeOK
  <2> QED
    BY <1>1, <1>5, <2>1 DEF Registry!Beat, Registry!TypeOK, Registry!directoryVars
<1> QED
  BY <1>2, <1>3, <1>4, <1>5

LEMMA CallStepFits ==
    ASSUME Registry!TypeOK, NEW c \in calls,
           Registry!Deliver(c) \/ Registry!LoseCall(c) \/ Registry!LoseReply(c)
    PROVE  Registry!TypeOK'
<1>1. c.svc \in Service
  BY DEF Registry!TypeOK, Registry!Call
<1>2. ASSUME NEW answered \in BOOLEAN, Registry!CallEnds(c, answered), UNCHANGED <<dirUp, cleanIn>>,
             SERVICES' \in Seq(Registry!Entry), Len(SERVICES') <= MAX_SERVICES,
             mishaps' \in [Registry!FaultKind -> Nat]
      PROVE  Registry!TypeOK'
  BY <1>2, EndedCallFits DEF Registry!TypeOK
<1>3. ASSUME UNCHANGED SERVICES
      PROVE  SERVICES' \in Seq(Registry!Entry) /\ Len(SERVICES') <= MAX_SERVICES
  BY <1>3 DEF Registry!TypeOK
<1>4. ASSUME UNCHANGED mishaps
      PROVE  mishaps' \in [Registry!FaultKind -> Nat]
  BY <1>4 DEF Registry!TypeOK
<1>5. CASE Registry!HandleRegister(c)
  BY <1>1, <1>2, <1>4, <1>5, EntryAddedFits DEF Registry!HandleRegister
<1>6. CASE Registry!HandleHeartbeat(c)
  BY <1>2, <1>4, <1>6, RegistryBounds, EntryRefreshedFits DEF Registry!HandleHeartbeat
<1>7. CASE Registry!Refused(c)
  BY <1>2, <1>3, <1>4, <1>7 DEF Registry!Refused, Registry!directoryVars
<1>8. CASE Registry!LoseCall(c)
  BY <1>2, <1>3, <1>8, FailsFits DEF Registry!LoseCall, Registry!directoryVars, Registry!FaultKind
<1>9. CASE Registry!LoseReply(c)
  BY <1>1, <1>2, <1>9, EntryAddedFits, FailsFits DEF Registry!LoseReply, Registry!FaultKind
<1> QED
  BY <1>5, <1>6, <1>7, <1>8, <1>9 DEF Registry!Deliver

LEMMA DirectoryStepFits ==
    ASSUME Registry!TypeOK,
           \/ Registry!cleanupExpired \/ Registry!StartDirectory \/ Registry!StopDirectory
           \/ \E i \in 1..Len(SERVICES) : Registry!removeService(i)
           \/ \E s \in Service, ttl \in ForeignTTL : Registry!ForeignBeat(s, ttl)
    PROVE  Registry!TypeOK'
<1>1. CLEANUP \in 0..CLEANUP /\ MAX_SERVICES \in Nat
  BY RegistryBounds
<1>2. CASE Registry!cleanupExpired
  <2>1. PICK P : P = {i \in 1..Len(SERVICES) : ~Registry!Expired(SERVICES[i])}
    OBVIOUS
  <2>2. P \in SUBSET (1..Len(SERVICES)) /\ SERVICES' = Registry!ElementsAt(SERVICES, P)
    BY <1>2, <2>1 DEF Registry!cleanupExpired, Registry!Cleaned
  <2>3. SERVICES' \in Seq(Registry!Entry) /\ Len(SERVICES') <= MAX_SERVICES
    BY <2>2, EntriesLeftFit
  <2> QED
    BY <1>1, <1>2, <2>3 DEF Registry!cleanupExpired, Registry!TypeOK, Registry!serviceVars
<1>3. CASE Registry!StartDirectory
  BY <1>1, <1>3 DEF Registry!StartDirectory, Registry!TypeOK, Registry!serviceVars
<1>4. CASE Registry!StopDirectory
  <2>1. mishaps' \in [Registry!FaultKind -> Nat]
    BY <1>4, FailsFits DEF Registry!StopDirectory, Registry!FaultKind
  <2>2. SERVICES' \in Seq(Registry!Entry) /\ Len(SERVICES') <= MAX_SERVICES
    BY <1>1, <1>4 DEF Registry!StopDirectory
  <2> QED
    BY <1>4, <2>1, <2>2 DEF Registry!StopDirectory, Registry!TypeOK, Registry!serviceVars
<1>5. ASSUME NEW i \in 1..Len(SERVICES), Registry!removeService(i)
      PROVE  Registry!TypeOK'
  <2>1. PICK P : P = (1..Len(SERVICES)) \ {i}
    OBVIOUS
  <2>2. P \in SUBSET (1..Len(SERVICES)) /\ SERVICES' = Registry!ElementsAt(SERVICES, P)
    BY <1>5, <2>1 DEF Registry!removeService
  <2>3. SERVICES' \in Seq(Registry!Entry) /\ Len(SERVICES') <= MAX_SERVICES
    BY <2>2, EntriesLeftFit
  <2>4. mishaps' \in [Registry!FaultKind -> Nat]
    BY <1>5, FailsFits DEF Registry!removeService, Registry!FaultKind
  <2> QED
    BY <1>5, <2>3, <2>4 DEF Registry!removeService, Registry!TypeOK, Registry!serviceVars
<1>6. ASSUME NEW s \in Service, NEW ttl \in ForeignTTL, Registry!ForeignBeat(s, ttl)
      PROVE  Registry!TypeOK'
  <2>1. ttl \in Nat \cup {NoTTL} /\ SERVICES' = Registry!updateHeartbeat(s, ttl)
    BY <1>6, RegistryBounds DEF Registry!ForeignBeat
  <2>2. SERVICES' \in Seq(Registry!Entry) /\ Len(SERVICES') <= MAX_SERVICES
    BY <2>1, EntryRefreshedFits
  <2>3. mishaps' \in [Registry!FaultKind -> Nat]
    BY <1>6, FailsFits DEF Registry!ForeignBeat, Registry!FaultKind
  <2> QED
    BY <1>6, <2>2, <2>3 DEF Registry!ForeignBeat, Registry!TypeOK, Registry!serviceVars
<1> QED
  BY <1>2, <1>3, <1>4, <1>5, <1>6

LEMMA RegistryTickFits ==
    ASSUME Registry!TypeOK, Registry!Tick
    PROVE  Registry!TypeOK'
<1>1. \A n \in Nat : \A m \in 0..n : Registry!Down(m) \in 0..n
  BY DEF Registry!Down
<1>2. /\ cleanIn' \in 0..CLEANUP /\ retryIn' \in [Service -> 0..RETRY]
      /\ beatIn' \in [Service -> 0..HEARTBEAT]
  BY <1>1, RegistryBounds DEF Registry!Tick, Registry!TypeOK
<1>3. \A c \in calls : [c EXCEPT !.waited = @ + 1] \in Registry!Call
  <2> SUFFICES ASSUME NEW c \in calls PROVE [c EXCEPT !.waited = @ + 1] \in Registry!Call
    OBVIOUS
  <2>1. c \in Registry!Call /\ c.waited \in 0..MaxDelay /\ c.waited # MaxDelay
    BY DEF Registry!Tick, Registry!Due, Registry!TypeOK, Registry!Call
  <2>2. c.waited + 1 \in 0..MaxDelay
    BY <2>1, RegistryBounds
  <2> QED
    BY <2>1, <2>2 DEF Registry!Call
<1>4. calls' \subseteq Registry!Call
  BY <1>3 DEF Registry!Tick
<1>5. SERVICES' \in Seq(Registry!Entry) /\ Len(SERVICES') <= MAX_SERVICES
  <2> DEFINE Value(i) == Registry!Older(SERVICES[i])
  <2>1. ASSUME NEW i \in 1..Len(SERVICES)
        PROVE  Value(i) \in Registry!Entry
    <3>1. PICK e \in Registry!Entry : e = SERVICES[i]
      BY EntriesAre
    <3>2. e.age + 1 \in Nat /\ (Value(i) = e \/ Value(i) = [e EXCEPT !.age = e.age + 1])
      BY <3>1 DEF Registry!Entry, Registry!Older
    <3> QED
      BY <3>2, EntriesAre
  <2>2. SERVICES' = [i \in 1..Len(SERVICES) |-> Value(i)] /\ Len(SERVICES) \in Nat
    BY EntriesAre DEF Registry!Tick
  <2>3. Len(SERVICES) <= MAX_SERVICES
    BY DEF Registry!TypeOK
  <2> HIDE DEF Value
  <2> QED
    BY <2>1, <2>2, <2>3
<1>6. UNCHANGED <<dirUp, run, up, registration, mishaps>>
  BY DEF Registry!Tick
<1> QED
  BY <1>2, <1>4, <1>5, <1>6 DEF Registry!TypeOK

LEMMA RegistryStarts == Registry!Init => Registry!TypeOK
<1> SUFFICES ASSUME Registry!Init PROVE Registry!TypeOK
  OBVIOUS
<1>1. SERVICES \in Seq(Registry!Entry) /\ Len(SERVICES) <= MAX_SERVICES
  BY RegistryBounds DEF Registry!Init
<1>2. 0 \in 0..RETRY /\ 0 \in 0..HEARTBEAT /\ CLEANUP \in 0..CLEANUP
  BY RegistryBounds
<1>3. mishaps \in [Registry!FaultKind -> Nat]
  BY DEF Registry!Init
<1> QED
  BY <1>1, <1>2, <1>3 DEF Registry!Init, Registry!TypeOK

LEMMA RegistrySteps == Registry!TypeOK /\ [Registry!Next]_registrySide => Registry!TypeOK'
<1> SUFFICES ASSUME Registry!TypeOK, [Registry!Next]_registrySide PROVE Registry!TypeOK'
  OBVIOUS
<1>1. CASE UNCHANGED registrySide
  BY <1>1 DEF registrySide, Registry!TypeOK
<1> QED
  BY <1>1, ServiceStepFits, CallStepFits, DirectoryStepFits, RegistryTickFits DEF Registry!Next

-----------------------------------------------------------------------------
(* Peers *)

Row == [key : Peers!Ids, url : Peers!Urls, ts : 0..MaxClock]

\* The other ids that were heard of no earlier than i
HeardSince(h, i) == {j \in Peers!Ids \ {i} : h[j] >= h[i]}

\* The ids that were ever heard of
EverHeard(h) == {j \in Peers!Ids : h[j] > 0}

\* What the table holds was heard of at that time, and no peer has two rows.
TableAsHeard(t, h) ==
    /\ t \in Seq(Row) /\ Len(t) <= MAX_PEERS /\ Distinct(t)
    /\ h \in [Peers!Ids -> 0..MaxClock + 1] /\ IsFiniteSet(EverHeard(h))
    /\ \A r \in Rows(t) : h[r.key] = r.ts + 1

\* A peer heard of and not in the table was crowded out.
CrowdedOut(t, h) ==
    \A i \in Peers!Ids : h[i] > 0 /\ i \notin Table!Keys(t) =>
        Cardinality(HeardSince(h, i)) >= MAX_PEERS

PeersKept(t, h) ==
    /\ TableAsHeard(t, h)
    /\ ~steppedBack => CrowdedOut(t, h) /\ \A i \in Peers!Ids : h[i] <= clock + 1

PeersInv ==
    /\ clock \in 0..MaxClock /\ steppedBack \in BOOLEAN
    /\ rounds \in [Slot -> Seq(Peers!PeerInfo)]
    /\ PeersKept(PEERS, heard)

\* The table's operators are the ones the theorems of tables are about.
LEMMA SameTable ==
    /\ \A t : Peers!Keys(t) = Table!Keys(t)
    /\ \A t, k : Peers!Without(t, k) = Table!Without(t, k)
    /\ \A t, e : Peers!Stored(t, e) = Table!Stored(t, e)
    /\ \A t : Peers!OldestKey(t) = Table!OldestKey(t)
    /\ \A S : Peers!Cardinality(S) = Cardinality(S)
<1>1. \A S : Peers!Cardinality(S) = Cardinality(S)
  BY DEF Peers!Cardinality, Cardinality
<1>2. \A t : Peers!Keys(t) = Table!Keys(t)
  BY DEF Peers!Keys, Table!Keys
<1>3. \A t, k : Peers!Spliced(t, k) = Table!Spliced(t, k) /\ Peers!PlaceOf(t, k) = Table!PlaceOf(t, k)
  BY DEF Peers!Spliced, Table!Spliced, Peers!PlaceOf, Table!PlaceOf
<1>4. \A t, k : Peers!Without(t, k) = Table!Without(t, k)
  BY <1>2, <1>3 DEF Peers!Without, Table!Without
<1>5. \A t, e : Peers!Stored(t, e) = Table!Stored(t, e)
  BY <1>2 DEF Peers!Stored, Table!Stored
<1>6. \A t : Peers!OldestKey(t) = Table!OldestKey(t)
  BY DEF Peers!OldestKey, Table!OldestKey
<1> QED
  BY <1>1, <1>2, <1>4, <1>5, <1>6

\* Of a table with one row too many, whose oldest goes, all the others were
\* heard of no earlier.
LEMMA OldestIsCrowdedOut ==
    ASSUME NEW t \in Seq(Row), Distinct(t), NEW h, h \in [Peers!Ids -> 0..MaxClock + 1],
           IsFiniteSet(EverHeard(h)), \A r \in Rows(t) : h[r.key] = r.ts + 1,
           NEW n \in Nat, Len(t) = n + 1,
           NEW o \in Rows(t), \A r \in Rows(t) : o.ts <= r.ts
    PROVE  Cardinality(HeardSince(h, o.key)) >= n
<1> DEFINE K == Table!Keys(t)
           L == K \ {o.key}
<1>1. IsFiniteSet(K) /\ Cardinality(K) = n + 1
  BY KeysCounted
<1>2. o.key \in K
  BY KeysOfRows
<1>3. IsFiniteSet(L) /\ Cardinality(L) = n
  <2> HIDE DEF K
  <2>1. IsFiniteSet(L) /\ Cardinality(L) = Cardinality(K) - 1
    BY <1>1, <1>2, FS_RemoveElement
  <2> QED
    BY <1>1, <2>1
<1>4. \A r \in Rows(t) : r.key \in Peers!Ids /\ r.ts \in Nat
  <2>1. \A r \in Rows(t) : r \in Row
    BY DEF Rows
  <2> QED
    BY <2>1 DEF Row
<1>5. L \subseteq HeardSince(h, o.key)
  <2> SUFFICES ASSUME NEW k \in L PROVE k \in HeardSince(h, o.key)
    OBVIOUS
  <2>1. PICK r \in Rows(t) : r.key = k
    BY KeysOfRows
  <2> QED
    BY <1>4, <2>1 DEF HeardSince
<1>6. HeardSince(h, o.key) \subseteq EverHeard(h)
  BY <1>4 DEF HeardSince, EverHeard
<1>7. IsFiniteSet(HeardSince(h, o.key))
  BY <1>6, FS_Subset
<1> HIDE DEF L
<1>8. Cardinality(L) <= Cardinality(HeardSince(h, o.key))
  BY <1>5, <1>7, FS_Subset
<1> QED
  BY <1>3, <1>8

\* addPeer
LEMMA AddedKeeps ==
    ASSUME NEW t, NEW h, PeersKept(t, h), clock \in 0..MaxClock, NEW p,
           p.id \in Peers!Ids, p.url \in Peers!Urls,
           NEW h2, h2 = [h EXCEPT ![p.id] = clock + 1]
    PROVE  PeersKept(Peers!Added(t, p), h2)
<1> DEFINE e == [key |-> p.id, url |-> p.url, ts |-> clock]
           u == Table!Stored(t, e)
           w == Peers!Added(t, p)
<1>1. MAX_PEERS \in Nat /\ MaxClock \in Nat /\ clock \in Nat /\ clock + 1 \in 0..MaxClock + 1
  BY MembershipAssumption DEF Peers!PeerTableAssumption
<1>2. /\ t \in Seq(Row) /\ Len(t) <= MAX_PEERS /\ Len(t) \in Nat /\ Distinct(t)
      /\ h \in [Peers!Ids -> 0..MaxClock + 1] /\ IsFiniteSet(EverHeard(h))
      /\ \A r \in Rows(t) : h[r.key] = r.ts + 1
  BY DEF PeersKept, TableAsHeard
<1>3. e \in Row /\ e.key = p.id /\ e.ts = clock
  BY DEF Row
<1>4. w = IF Len(u) > MAX_PEERS THEN Table!Without(u, Table!OldestKey(u)) ELSE u
  BY SameTable DEF Peers!Added
<1> HIDE DEF e, w
<1>5. /\ u \in Seq(Row) /\ Distinct(u) /\ Rows(u) = {r \in Rows(t) : r.key # p.id} \cup {e}
      /\ Len(u) = IF p.id \in Table!Keys(t) THEN Len(t) ELSE Len(t) + 1
  <2>1. /\ u \in Seq(Row) /\ Distinct(u) /\ Rows(u) = {r \in Rows(t) : r.key # e.key} \cup {e}
        /\ Len(u) = IF e.key \in Table!Keys(t) THEN Len(t) ELSE Len(t) + 1
    <3>1. t \in Seq(Row) /\ Distinct(t) /\ e \in Row
      BY <1>2, <1>3
    <3> QED
      BY <3>1, StoredKeeps
  <2> HIDE DEF u
  <2> QED
    BY <1>3, <2>1
<1> HIDE DEF u
<1>6. /\ h2 \in [Peers!Ids -> 0..MaxClock + 1] /\ h2[p.id] = clock + 1
      /\ \A i \in Peers!Ids : i # p.id => h2[i] = h[i]
  BY <1>1, <1>2
<1>7. IsFiniteSet(EverHeard(h2))
  <2>1. EverHeard(h2) \subseteq EverHeard(h) \cup {p.id}
    BY <1>6 DEF EverHeard
  <2>2. IsFiniteSet(EverHeard(h) \cup {p.id})
    BY <1>2, FS_AddElement
  <2> QED
    BY <2>1, <2>2, FS_Subset
<1>8. \A r \in Rows(t) : r.key \in Peers!Ids
  <2>1. \A r \in Rows(t) : r \in Row
    BY <1>2 DEF Rows
  <2> QED
    BY <2>1 DEF Row
<1>9. \A r \in Rows(u) : h2[r.key] = r.ts + 1 /\ r.ts \in Nat
  <2>1. \A r \in Rows(u) : r \in Row
    BY <1>5 DEF Rows
  <2>2. \A r \in Row : r.ts \in Nat
    BY DEF Row
  <2>3. \A r \in Rows(u) : h2[r.key] = r.ts + 1
    BY <1>2, <1>3, <1>5, <1>6, <1>8
  <2> QED
    BY <2>1, <2>2, <2>3
\* What is in the table, and what goes
<1>10. /\ w \in Seq(Row) /\ Len(w) <= MAX_PEERS /\ Distinct(w) /\ Rows(w) \subseteq Rows(u)
       /\ \A i \in Table!Keys(u) : i \notin Table!Keys(w) =>
              Cardinality(HeardSince(h2, i)) >= MAX_PEERS
  <2>1. CASE ~(Len(u) > MAX_PEERS)
    BY <1>1, <1>2, <1>4, <1>5, <2>1
  <2>2. CASE Len(u) > MAX_PEERS
    <3>1. Len(u) = MAX_PEERS + 1 /\ u # <<>>
      BY <1>1, <1>2, <1>5, <2>2
    <3>2. PICK o \in Rows(u) : Table!OldestKey(u) = o.key /\ \A r \in Rows(u) : o.ts <= r.ts
      BY <1>5, <1>9, <3>1, OldestKeyIsOldest
    <3>3. w = Table!Without(u, o.key)
      BY <1>4, <2>2, <3>2
    <3>4. /\ w \in Seq(Row) /\ Distinct(w) /\ Rows(w) = {r \in Rows(u) : r.key # o.key}
          /\ Len(w) = IF o.key \in Table!Keys(u) THEN Len(u) - 1 ELSE Len(u)
      BY <1>5, <3>3, WithoutKeeps
    <3>5. /\ Table!Keys(u) = {r.key : r \in Rows(u)} /\ Table!Keys(w) = {r.key : r \in Rows(w)}
      BY <1>5, <3>4, KeysOfRows
    <3>6. Len(w) <= MAX_PEERS
      BY <1>1, <3>1, <3>4, <3>5
    <3>7. Cardinality(HeardSince(h2, o.key)) >= MAX_PEERS
      BY <1>1, <1>5, <1>6, <1>7, <1>9, <3>1, <3>2, OldestIsCrowdedOut
    <3> QED
      BY <3>4, <3>5, <3>6, <3>7
  <2> QED
    BY <2>1, <2>2
<1>11. TableAsHeard(w, h2)
  BY <1>6, <1>7, <1>9, <1>10 DEF TableAsHeard
<1>12. ASSUME ~steppedBack
       PROVE  CrowdedOut(w, h2) /\ \A i \in Peers!Ids : h2[i] <= clock + 1
  <2>1. CrowdedOut(t, h) /\ \A i \in Peers!Ids : h[i] <= clock + 1
    BY <1>12 DEF PeersKept
  <2>2. \A i \in Peers!Ids : h2[i] <= clock + 1 /\ h2[i] >= h[i]
    BY <1>1, <1>2, <1>6, <2>1
  <2>3. ASSUME NEW i \in Peers!Ids, h2[i] > 0, i \notin Table!Keys(w)
        PROVE  Cardinality(HeardSince(h2, i)) >= MAX_PEERS
    <3>1. CASE i \in Table!Keys(u)
      BY <1>10, <2>3, <3>1
    <3>2. CASE i \notin Table!Keys(u)
      <4>1. /\ Table!Keys(u) = {r.key : r \in Rows(u)} /\ Table!Keys(t) = {r.key : r \in Rows(t)}
        BY <1>2, <1>5, KeysOfRows
      <4>2. i # p.id /\ i \notin Table!Keys(t)
        BY <1>3, <1>5, <3>2, <4>1
      <4>3. h2[i] = h[i]
        BY <1>6, <4>2
      <4>4. Cardinality(HeardSince(h, i)) >= MAX_PEERS
        BY <2>1, <2>3, <4>2, <4>3 DEF CrowdedOut
      <4>5. HeardSince(h, i) \subseteq HeardSince(h2, i)
        BY <1>2, <1>6, <2>2, <4>3 DEF HeardSince
      <4>6. HeardSince(h2, i) \subseteq EverHeard(h2)
        BY <1>6, <2>3 DEF HeardSince, EverHeard
      <4>7. IsFiniteSet(HeardSince(h2, i))
        BY <1>7, <4>6, FS_Subset
      <4>8. /\ Cardinality(HeardSince(h, i)) <= Cardinality(HeardSince(h2, i))
            /\ IsFiniteSet(HeardSince(h, i))
        BY <4>5, <4>7, FS_Subset
      <4>9. Cardinality(HeardSince(h, i)) \in Nat /\ Cardinality(HeardSince(h2, i)) \in Nat
        BY <4>7, <4>8, FS_CardinalityType
      <4> QED
        BY <1>1, <4>4, <4>8, <4>9
    <3> QED
      BY <3>1, <3>2
  <2> QED
    BY <2>2, <2>3 DEF CrowdedOut
<1> QED
  BY <1>11, <1>12 DEF PeersKept, w

-----------------------------------------------------------------------------
\* mergePeers

\* What comes before the first null is a list of peers.
LEMMA SoundIsSound ==
    ASSUME NEW S, NEW list, list \in Seq(S \cup {Malformed})
    PROVE  Peers!Sound(list) \in Seq(S)
<1> DEFINE n == Len(list)
           Ok(i) == \A j \in 1..i : list[j] # Malformed
           P == {i \in 1..n : Ok(i)}
           Q == {i \in Nat : i > n \/ (i > 0 /\ list[i] = Malformed)}
<1>1. n \in Nat /\ DOMAIN list = 1..n /\ \A i \in 1..n : list[i] \in S \cup {Malformed}
  OBVIOUS
<1> HIDE DEF n
<1>2. n + 1 \in Q
  BY <1>1
<1>3. PICK m \in Q : \A i \in Q : ~(<<i, m>> \in OpToRel(<, Nat))
  <2>1. Q \subseteq Nat /\ Q # {}
    BY <1>2
  <2> QED
    BY <2>1, NatLessThanWellFounded, WFMin
<1>4. /\ \A i \in Q : m <= i
      /\ m > n \/ list[m] = Malformed
  <2>1. \A i \in Q : i \in Nat
    OBVIOUS
  <2>2. \A i \in Q : ~(i < m)
    BY <1>3, <2>1 DEF OpToRel
  <2>3. m > n \/ list[m] = Malformed
    BY <1>3
  <2> HIDE DEF Q
  <2>4. m \in Nat /\ \A i \in Q : i \in Nat /\ ~(i < m)
    BY <1>3, <2>1, <2>2
  <2>5. \A i, j \in Nat : ~(i < j) => j <= i
    OBVIOUS
  <2>6. \A i \in Q : m <= i
    BY <2>4, <2>5
  <2> QED
    BY <2>3, <2>6
<1>5. m \in Nat /\ m # 0 /\ m <= n + 1
  BY <1>1, <1>2, <1>4
<1>6. \A i \in 1..(m - 1) : i \in 1..n /\ list[i] # Malformed
  BY <1>1, <1>4, <1>5
<1>7. P = 1..(m - 1)
  <2>1. ASSUME NEW i \in P
        PROVE  i \in 1..(m - 1)
    <3>1. m <= n => list[m] = Malformed
      BY <1>1, <1>4, <1>5
    <3>2. ~(m <= i)
      BY <1>1, <1>5, <2>1, <3>1
    <3> QED
      BY <1>1, <1>5, <2>1, <3>2
  <2>2. ASSUME NEW i \in 1..(m - 1)
        PROVE  i \in P
    BY <1>1, <1>5, <1>6, <2>2
  <2> QED
    BY <2>1, <2>2
<1>8. Cardinality(P) = m - 1
  <2>1. PICK q \in Nat : q = m - 1
    BY <1>5
  <2>2. 1 \in Int /\ q \in Int /\ q = (IF 1 > q THEN 0 ELSE q - 1 + 1)
    BY <2>1
  <2>3. Cardinality(1..q) = q
    BY <2>2, FS_Interval
  <2> HIDE DEF P
  <2> QED
    BY <1>7, <2>1, <2>3
<1>9. Peers!Sound(list) = SubSeq(list, 1, m - 1)
  <2>1. Peers!Sound(list) = SubSeq(list, 1, Peers!Cardinality(P))
    BY <1>1 DEF Peers!Sound
  <2> HIDE DEF P
  <2> QED
    BY <1>8, <2>1, SameTable
<1>10. PICK q \in Nat : q = m - 1
  BY <1>5
<1>11. SubSeq(list, 1, q) = [i \in 1..q |-> list[i]]
  BY <1>1, <1>6, <1>10
<1>12. \A i \in 1..q : list[i] \in S
  BY <1>1, <1>6, <1>10
<1> QED
  BY <1>9, <1>10, <1>11, <1>12

\* The tables between exist: one after each peer.
LEMMA AfterEachIs ==
    ASSUME NEW L, Len(L) \in Nat
    PROVE  /\ Peers!AfterEach(L)[0] = PEERS
           /\ \A i \in 1..Len(L) : Peers!AfterEach(L)[i] = Peers!Added(Peers!AfterEach(L)[i - 1], L[i])
<1> DEFINE Is(f, n) == f = [i \in 0..n |-> IF i = 0 THEN PEERS ELSE Peers!Added(f[i - 1], L[i])]
           None == {n \in Nat : ~\E f : Is(f, n)}
<1>1. ASSUME None # {}
      PROVE  FALSE
  <2>1. None \subseteq Nat
    OBVIOUS
  <2>2. PICK n \in None : \A i \in None : ~(<<i, n>> \in OpToRel(<, Nat))
    BY <1>1, <2>1, NatLessThanWellFounded, WFMin
  <2>3. \A i \in None : ~(i < n)
    BY <2>1, <2>2 DEF OpToRel
  <2>4. CASE n = 0
    <3>1. Is([i \in 0..0 |-> PEERS], 0)
      OBVIOUS
    <3> QED
      BY <2>4, <3>1
  <2>5. CASE n # 0
    <3>1. n - 1 \in Nat /\ n - 1 < n /\ n \in Nat
      BY <2>5
    <3>2. PICK f : Is(f, n - 1)
      BY <2>3, <3>1
    <3> DEFINE last == Peers!Added(f[n - 1], L[n])
               g == [i \in 0..n |-> IF i = n THEN last ELSE f[i]]
    <3> HIDE DEF last
    <3>3. \A i \in 0..(n - 1) : f[i] = IF i = 0 THEN PEERS ELSE Peers!Added(f[i - 1], L[i])
      BY <3>2
    <3>4. \A i \in 0..(n - 1) : g[i] = f[i]
      BY <3>1
    <3>5. g[n] = Peers!Added(g[n - 1], L[n])
      BY <3>1, <3>4 DEF last
    <3>6. \A i \in 0..n : g[i] = IF i = 0 THEN PEERS ELSE Peers!Added(g[i - 1], L[i])
      <4> SUFFICES ASSUME NEW i \in 0..n PROVE g[i] = IF i = 0 THEN PEERS ELSE Peers!Added(g[i - 1], L[i])
        OBVIOUS
      <4>1. CASE i = n
        BY <2>5, <3>5, <4>1
      <4>2. CASE i = 0
        BY <3>1, <3>3, <3>4, <4>2
      <4>3. CASE i # n /\ i # 0
        <5>1. i \in 0..(n - 1) /\ i - 1 \in 0..(n - 1)
          BY <3>1, <4>3
        <5> QED
          BY <3>3, <3>4, <4>3, <5>1
      <4> QED
        BY <4>1, <4>2, <4>3
    <3>7. g = [i \in 0..n |-> g[i]]
      OBVIOUS
    <3> HIDE DEF g
    <3>8. Is(g, n)
      BY <3>6, <3>7
    <3> QED
      BY <3>8
  <2> QED
    BY <2>4, <2>5
<1>2. \E f : Is(f, Len(L))
  BY <1>1
<1>3. Is(Peers!AfterEach(L), Len(L))
  <2>1. Peers!AfterEach(L) = CHOOSE f : Is(f, Len(L))
    BY DEF Peers!AfterEach
  <2> HIDE DEF Is
  <2> QED
    BY <1>2, <2>1
<1> QED
  BY <1>3

\* Merging a list is adding its peers one after the other.
LEMMA MergedKeeps ==
    ASSUME NEW L \in Seq(Peers!Infos), PeersKept(PEERS, heard), clock \in 0..MaxClock,
           NEW h2, h2 = [i \in Peers!Ids |-> IF i \in {L[j].id : j \in DOMAIN L} THEN clock + 1 ELSE heard[i]]
    PROVE  PeersKept(Peers!AfterEach(L)[Len(L)], h2)
<1> DEFINE H(n) == [i \in Peers!Ids |-> IF \E j \in 1..n : L[j].id = i THEN clock + 1 ELSE heard[i]]
           f == Peers!AfterEach(L)
           Bad == {n \in 0..Len(L) : ~PeersKept(f[n], H(n))}
<1>1. /\ Len(L) \in Nat /\ DOMAIN L = 1..Len(L) /\ \A j \in 1..Len(L) : L[j] \in Peers!Infos
      /\ heard \in [Peers!Ids -> 0..MaxClock + 1]
  BY DEF PeersKept, TableAsHeard
<1>2. f[0] = PEERS /\ \A n \in 1..Len(L) : f[n] = Peers!Added(f[n - 1], L[n])
  BY <1>1, AfterEachIs
<1> HIDE DEF f
<1>3. PeersKept(f[0], H(0))
  <2>1. heard = [i \in Peers!Ids |-> heard[i]]
    BY <1>1
  <2>2. H(0) = heard
    BY <2>1
  <2> HIDE DEF H
  <2> QED
    BY <1>2, <2>2
<1>4. ASSUME NEW n \in 1..Len(L), PeersKept(f[n - 1], H(n - 1))
      PROVE  PeersKept(f[n], H(n))
  <2>1. L[n].id \in Peers!Ids /\ L[n].url \in Peers!Urls
    BY <1>1 DEF Peers!Infos, Peers!Ids, Peers!Urls
  <2>2. H(n) = [H(n - 1) EXCEPT ![L[n].id] = clock + 1]
    <3>1. ASSUME NEW i \in Peers!Ids
          PROVE  (\E j \in 1..n : L[j].id = i) <=> (L[n].id = i \/ \E j \in 1..(n - 1) : L[j].id = i)
      <4>1. \A j : j \in 1..n <=> (j = n \/ j \in 1..(n - 1))
        BY <1>1
      <4> QED
        BY <4>1
    <3> QED
      BY <2>1, <3>1
  <2>3. f[n] = Peers!Added(f[n - 1], L[n])
    BY <1>2
  <2> DEFINE h1 == H(n - 1)
             h3 == H(n)
  <2>4. PeersKept(f[n - 1], h1) /\ h3 = [h1 EXCEPT ![L[n].id] = clock + 1]
    BY <1>4, <2>2
  <2> HIDE DEF h1, h3
  <2>5. PeersKept(Peers!Added(f[n - 1], L[n]), h3)
    BY <2>1, <2>4, AddedKeeps
  <2> QED
    BY <2>3, <2>5 DEF h3
<1> HIDE DEF H
<1>5. Bad = {}
  <2> SUFFICES ASSUME Bad # {} PROVE FALSE
    OBVIOUS
  <2>1. Bad \subseteq Nat
    BY <1>1
  <2>2. PICK n \in Bad : \A i \in Bad : ~(<<i, n>> \in OpToRel(<, Nat))
    BY <2>1, NatLessThanWellFounded, WFMin
  <2>3. \A i \in Bad : ~(i < n)
    BY <2>1, <2>2 DEF OpToRel
  <2>4. n # 0
    BY <1>3
  <2>5. n \in 1..Len(L) /\ n - 1 \in 0..Len(L) /\ n - 1 < n
    BY <1>1, <2>4
  <2>6. PeersKept(f[n - 1], H(n - 1))
    BY <2>3, <2>5
  <2> QED
    BY <1>4, <2>5, <2>6
<1>6. PeersKept(f[Len(L)], H(Len(L)))
  BY <1>1, <1>5
<1>7. H(Len(L)) = h2
  <2>1. \A i : i \in {L[j].id : j \in DOMAIN L} <=> \E j \in 1..Len(L) : L[j].id = i
    BY <1>1
  <2> QED
    BY <2>1 DEF H
<1> QED
  BY <1>6, <1>7 DEF f

-----------------------------------------------------------------------------
\* Steps

LEMMA NothingHeard ==
    ASSUME NEW t, t = <<>>, NEW h, h = [i \in Peers!Ids |-> 0]
    PROVE  /\ TableAsHeard(t, h) /\ CrowdedOut(t, h)
           /\ \A n \in Nat : \A i \in Peers!Ids : h[i] <= n + 1
<1>1. MAX_PEERS \in Nat /\ MaxClock \in Nat
  BY MembershipAssumption DEF Peers!PeerTableAssumption
<1>2. t \in Seq(Row) /\ Len(t) = 0
  OBVIOUS
<1>3. Rows(t) = {} /\ Distinct(t)
  BY <1>2 DEF Rows, Distinct
<1>4. h \in [Peers!Ids -> 0..MaxClock + 1] /\ \A i \in Peers!Ids : h[i] = 0
  BY <1>1
<1>5. EverHeard(h) = {}
  BY <1>4 DEF EverHeard
<1>6. TableAsHeard(t, h)
  BY <1>1, <1>2, <1>3, <1>4, <1>5, FS_EmptySet DEF TableAsHeard
<1>7. CrowdedOut(t, h)
  BY <1>4 DEF CrowdedOut
<1> QED
  BY <1>4, <1>6, <1>7

LEMMA PeersStart == Peers!PeersInit => PeersInv
<1> SUFFICES ASSUME Peers!PeersInit PROVE PeersInv
  OBVIOUS
<1>1. /\ PEERS = <<>> /\ clock = 0 /\ rounds = [k \in Slot |-> <<>>]
      /\ heard = [i \in Peers!Ids |-> 0] /\ steppedBack = FALSE
      /\ MaxClock \in Nat
  BY MembershipAssumption DEF Peers!PeersInit, Peers!PeerTableAssumption
<1>2. rounds \in [Slot -> Seq(Peers!PeerInfo)]
  <2>1. <<>> \in Seq(Peers!PeerInfo)
    OBVIOUS
  <2> QED
    BY <1>1, <2>1
<1>3. clock \in Nat /\ clock \in 0..MaxClock
  BY <1>1
<1> QED
  BY <1>1, <1>2, <1>3, NothingHeard DEF PeersInv, PeersKept

\* A table and what was heard change together, at an instant.
LEMMA TableStep ==
    ASSUME PeersInv, UNCHANGED <<clock, steppedBack>>, NEW t, NEW h, PeersKept(t, h),
           PEERS' = t, heard' = h, rounds' \in [Slot -> Seq(Peers!PeerInfo)]
    PROVE  PeersInv'
BY DEF PeersInv, PeersKept, TableAsHeard, CrowdedOut

LEMMA PostPeerStep ==
    ASSUME PeersInv, NEW b \in Peers!Bodies(Peers!Infos), Peers!PostPeer(b)
    PROVE  PeersInv'
<1>1. PICK p \in Peers!PeerReads(b, [id |-> Undefined, url |-> Undefined]) :
          PEERS' = Peers!Added(PEERS, p) /\ Peers!HeardOf({p.id}) /\ UNCHANGED rounds
  BY DEF Peers!PostPeer
<1>2. p.id \in Peers!Ids /\ p.url \in Peers!Urls
  BY <1>1 DEF Peers!PeerReads, Peers!Resolved, Peers!Bodies, Peers!Infos, Peers!Ids, Peers!Urls
<1>3. heard \in [Peers!Ids -> 0..MaxClock + 1] /\ PeersKept(PEERS, heard) /\ clock \in 0..MaxClock
      /\ rounds \in [Slot -> Seq(Peers!PeerInfo)]
  BY DEF PeersInv, PeersKept, TableAsHeard
<1>4. heard' = [heard EXCEPT ![p.id] = clock + 1] /\ UNCHANGED <<clock, steppedBack>>
  BY <1>1, <1>3 DEF Peers!HeardOf
<1>5. PeersKept(Peers!Added(PEERS, p), [heard EXCEPT ![p.id] = clock + 1])
  BY <1>2, <1>3, AddedKeeps
<1>6. PICK t : t = Peers!Added(PEERS, p)
  OBVIOUS
<1>7. PICK h : h = [heard EXCEPT ![p.id] = clock + 1]
  OBVIOUS
<1> QED
  BY <1>1, <1>3, <1>4, <1>5, <1>6, <1>7, TableStep

LEMMA PostMergeStep ==
    ASSUME PeersInv, NEW b \in Peers!Bodies(Peers!Lists), Peers!PostMerge(b)
    PROVE  PeersInv'
<1>1. PICK list \in Peers!PeerReads(b, <<>>) :
          /\ PEERS' = Peers!mergePeers(list)
          /\ Peers!HeardOf({Peers!Sound(list)[i].id : i \in DOMAIN Peers!Sound(list)})
          /\ UNCHANGED rounds
  BY DEF Peers!PostMerge
<1>2. list \in Seq(Peers!Infos \cup {Malformed})
  <2>1. \A l \in Peers!Lists : l \in Seq(Peers!Infos \cup {Malformed})
    <3> SUFFICES ASSUME NEW l \in Peers!Lists PROVE l \in Seq(Peers!Infos \cup {Malformed})
      OBVIOUS
    <3>1. PICK p \in Peers!Infos, q \in Peers!Infos \cup {Malformed} : l = <<p, q>>
      BY DEF Peers!Lists
    <3>2. PICK S : S = Peers!Infos \cup {Malformed}
      OBVIOUS
    <3>3. p \in S /\ q \in S
      BY <3>1, <3>2
    <3>4. <<p, q>> \in Seq(S)
      BY <3>3
    <3> QED
      BY <3>1, <3>2, <3>4
  <2>2. list = <<>> \/ list \in Peers!Lists
    BY <1>1 DEF Peers!PeerReads, Peers!Resolved, Peers!Bodies
  <2>3. <<>> \in Seq(Peers!Infos \cup {Malformed})
    OBVIOUS
  <2> QED
    BY <2>1, <2>2, <2>3
<1>3. PICK L : L = Peers!Sound(list)
  OBVIOUS
<1>4. L \in Seq(Peers!Infos)
  BY <1>2, <1>3, SoundIsSound
<1>5. PICK h : h = [i \in Peers!Ids |-> IF i \in {L[j].id : j \in DOMAIN L} THEN clock + 1 ELSE heard[i]]
  OBVIOUS
<1>6. heard' = h /\ UNCHANGED <<clock, steppedBack>>
  BY <1>1, <1>3, <1>5 DEF Peers!HeardOf
<1>7. PeersKept(PEERS, heard) /\ clock \in 0..MaxClock /\ rounds \in [Slot -> Seq(Peers!PeerInfo)]
  BY DEF PeersInv
<1>8. PICK t : t = Peers!AfterEach(L)[Len(L)]
  OBVIOUS
<1>9. PeersKept(t, h)
  BY <1>4, <1>5, <1>7, <1>8, MergedKeeps
<1>10. PEERS' = t
  <2>1. Peers!mergePeers(list) = Peers!AfterEach(L)[Len(L)]
    BY <1>3 DEF Peers!mergePeers
  <2> QED
    BY <1>1, <1>8, <2>1
<1> QED
  BY <1>1, <1>6, <1>7, <1>9, <1>10, TableStep

LEMMA RoundStep ==
    ASSUME PeersInv, NEW k \in Slot, Peers!StartRound(k) \/ Peers!CallAnswered(k) \/ Peers!CallFails(k)
    PROVE  PeersInv'
<1>1. /\ rounds \in [Slot -> Seq(Peers!PeerInfo)] /\ PEERS \in Seq(Row) /\ clock \in 0..MaxClock
      /\ heard \in [Peers!Ids -> 0..MaxClock + 1] /\ PeersKept(PEERS, heard)
  BY DEF PeersInv, PeersKept, TableAsHeard
<1>2. CASE Peers!StartRound(k)
  <2>1. Peers!Listed \in Seq(Peers!PeerInfo)
    <3>1. \A i \in DOMAIN PEERS : [id |-> PEERS[i].key, url |-> PEERS[i].url] \in Peers!PeerInfo
      <4>1. \A i \in DOMAIN PEERS : PEERS[i] \in Row
        BY <1>1
      <4>2. \A r \in Row : r.key \in Peers!Ids /\ r.url \in Peers!Urls
        BY DEF Row
      <4> QED
        BY <4>1, <4>2 DEF Peers!PeerInfo
    <3>2. Len(PEERS) \in Nat /\ DOMAIN PEERS = 1..Len(PEERS)
      BY <1>1
    <3> QED
      BY <3>1, <3>2 DEF Peers!Listed
  <2>2. rounds' \in [Slot -> Seq(Peers!PeerInfo)] /\ UNCHANGED <<PEERS, clock, heard, steppedBack>>
    BY <1>1, <1>2, <2>1 DEF Peers!StartRound
  <2> QED
    BY <1>1, <2>2, TableStep
<1>3. ASSUME rounds[k] # <<>>, rounds' = [rounds EXCEPT ![k] = Tail(@)]
      PROVE  rounds' \in [Slot -> Seq(Peers!PeerInfo)]
  <2>1. Tail(rounds[k]) \in Seq(Peers!PeerInfo)
    BY <1>1, <1>3
  <2> QED
    BY <1>1, <1>3, <2>1
<1>4. CASE Peers!CallFails(k)
  <2>1. rounds' \in [Slot -> Seq(Peers!PeerInfo)] /\ UNCHANGED <<PEERS, clock, heard, steppedBack>>
    BY <1>3, <1>4 DEF Peers!CallFails
  <2> QED
    BY <1>1, <2>1, TableStep
<1>5. CASE Peers!CallAnswered(k)
  <2>1. rounds' \in [Slot -> Seq(Peers!PeerInfo)]
    BY <1>3, <1>5 DEF Peers!CallAnswered
  <2>2. CASE UNCHANGED <<PEERS, heard, clock, steppedBack>>
    BY <1>1, <2>1, <2>2, TableStep
  <2>3. CASE /\ PEERS' = Peers!Added(PEERS, [id |-> PeerSelf, url |-> Peers!OwnUrl])
             /\ Peers!HeardOf({PeerSelf})
    <3>1. PICK p : p = [id |-> PeerSelf, url |-> Peers!OwnUrl]
      OBVIOUS
    <3>2. p.id \in Peers!Ids /\ p.url \in Peers!Urls /\ p.id = PeerSelf
      BY <3>1 DEF Peers!Ids, Peers!Urls
    <3>3. heard' = [heard EXCEPT ![p.id] = clock + 1] /\ UNCHANGED <<clock, steppedBack>>
      BY <1>1, <2>3, <3>2 DEF Peers!HeardOf
    <3>4. PICK h : h = [heard EXCEPT ![p.id] = clock + 1]
      OBVIOUS
    <3>5. PICK t : t = Peers!Added(PEERS, p)
      OBVIOUS
    <3>6. PeersKept(t, h)
      BY <1>1, <3>2, <3>4, <3>5, AddedKeeps
    <3> QED
      BY <2>1, <2>3, <3>1, <3>3, <3>4, <3>5, <3>6, TableStep
  <2> QED
    BY <1>5, <2>2, <2>3 DEF Peers!CallAnswered
<1> QED
  BY <1>2, <1>4, <1>5

LEMMA ClockStep ==
    ASSUME PeersInv, Peers!ClockGoesOn \/ Peers!ClockIsSetBack
    PROVE  PeersInv'
<1>1. /\ clock' \in 0..MaxClock /\ UNCHANGED <<PEERS, rounds, heard>> /\ steppedBack' \in BOOLEAN
      /\ ~steppedBack' => ~steppedBack /\ clock' = clock + 1 /\ clock \in Nat
  <2>1. clock \in 0..MaxClock /\ MaxClock \in Nat /\ steppedBack \in BOOLEAN
    BY MembershipAssumption DEF PeersInv, Peers!PeerTableAssumption
  <2>2. CASE Peers!ClockGoesOn
    BY <2>1, <2>2 DEF Peers!ClockGoesOn
  <2>3. CASE Peers!ClockIsSetBack
    BY <2>1, <2>3 DEF Peers!ClockIsSetBack
  <2> QED
    BY <2>2, <2>3
<1>2. TableAsHeard(PEERS, heard)
  BY DEF PeersInv, PeersKept
<1>3. ASSUME ~steppedBack'
      PROVE  CrowdedOut(PEERS, heard) /\ \A i \in Peers!Ids : heard[i] <= clock' + 1
  <2>1. CrowdedOut(PEERS, heard) /\ \A i \in Peers!Ids : heard[i] <= clock + 1
    BY <1>1, <1>3 DEF PeersInv, PeersKept
  <2>2. \A i \in Peers!Ids : heard[i] \in Nat
    BY <1>2 DEF TableAsHeard
  <2> QED
    BY <1>1, <1>3, <2>1, <2>2
<1>4. TableAsHeard(PEERS', heard')
  BY <1>1, <1>2
<1>5. ~steppedBack' => CrowdedOut(PEERS', heard') /\ \A i \in Peers!Ids : heard'[i] <= clock' + 1
  BY <1>1, <1>3
<1>6. rounds' \in [Slot -> Seq(Peers!PeerInfo)]
  BY <1>1 DEF PeersInv
<1> QED
  BY <1>1, <1>4, <1>5, <1>6 DEF PeersInv, PeersKept, TableAsHeard, CrowdedOut

LEMMA PeersSteps == PeersInv /\ [Peers!PeersNext]_peersSide => PeersInv'
<1> SUFFICES ASSUME PeersInv, [Peers!PeersNext]_peersSide PROVE PeersInv'
  OBVIOUS
<1>1. CASE UNCHANGED peersSide
  BY <1>1 DEF peersSide, PeersInv, PeersKept, TableAsHeard, CrowdedOut
<1>2. CASE Peers!RestartNode
  <2>1. PICK x \in 0..MaxClock : x = clock /\ clock' = x
    BY <1>2 DEF PeersInv, Peers!RestartNode
  <2>2. /\ PEERS' = <<>> /\ rounds' = [k \in Slot |-> <<>>]
        /\ heard' = [i \in Peers!Ids |-> 0] /\ steppedBack' = FALSE
    BY <1>2 DEF Peers!RestartNode
  <2>3. rounds' \in [Slot -> Seq(Peers!PeerInfo)]
    <3>1. <<>> \in Seq(Peers!PeerInfo)
      OBVIOUS
    <3> QED
      BY <2>2, <3>1
  <2>4. PICK t : t = PEERS'
    OBVIOUS
  <2>5. PICK h : h = heard'
    OBVIOUS
  <2>6. /\ TableAsHeard(t, h) /\ CrowdedOut(t, h)
        /\ \A n \in Nat : \A i \in Peers!Ids : h[i] <= n + 1
    BY <2>2, <2>4, <2>5, NothingHeard
  <2>7. clock' \in Nat /\ clock' \in 0..MaxClock
    BY <2>1
  <2>8. PeersKept(t, h)'
    BY <2>6, <2>7 DEF PeersKept, TableAsHeard, CrowdedOut
  <2>9. PeersKept(PEERS, heard)'
    BY <2>4, <2>5, <2>8
  <2> QED
    BY <2>2, <2>3, <2>7, <2>9 DEF PeersInv
<1> QED
  BY <1>1, <1>2, PostPeerStep, PostMergeStep, RoundStep, ClockStep DEF Peers!PeersNext

LEMMA PeersListed ==
    ASSUME PeersInv
    PROVE  Peers!PeersTypeOK /\ Peers!HeardOfLastAreListed
<1>1. Peers!PeersTypeOK
  BY DEF PeersInv, PeersKept, TableAsHeard, Peers!PeersTypeOK, Row
<1>2. Peers!HeardOfLastAreListed
  <2> SUFFICES ASSUME ~steppedBack, NEW i \in Peers!Ids, heard[i] > 0, i \notin Peers!Keys(PEERS)
               PROVE  Peers!Cardinality({j \in Peers!Ids \ {i} : heard[j] >= heard[i]}) >= MAX_PEERS
    BY DEF Peers!HeardOfLastAreListed
  <2>1. Cardinality(HeardSince(heard, i)) >= MAX_PEERS
    BY SameTable DEF PeersInv, PeersKept, CrowdedOut
  <2>2. HeardSince(heard, i) = {j \in Peers!Ids \ {i} : heard[j] >= heard[i]}
    BY DEF HeardSince
  <2> QED
    BY <2>1, <2>2, SameTable
<1> QED
  BY <1>1, <1>2

-----------------------------------------------------------------------------
(* The three together: a step of one part leaves the others as they are. *)

MembershipInv == TInv /\ Registry!TypeOK /\ PeersInv

LEMMA MembershipStarts == MembershipInit => MembershipInv
BY TrustStarts, RegistryStarts, PeersStart DEF MembershipInit, MembershipInv

LEMMA MembershipSteps == MembershipInv /\ [MembershipNext]_allVars => MembershipInv'
<1> SUFFICES ASSUME MembershipInv, [MembershipNext]_allVars PROVE MembershipInv'
  OBVIOUS
<1>1. [Next]_vars /\ [Registry!Next]_registrySide /\ [Peers!PeersNext]_peersSide
  BY DEF MembershipNext, allVars, trustSide
<1>2. TInv'
  BY <1>1, TrustSteps DEF MembershipInv
<1>3. Registry!TypeOK'
  BY <1>1, RegistrySteps DEF MembershipInv
<1>4. PeersInv'
  BY <1>1, PeersSteps DEF MembershipInv
<1> QED
  BY <1>2, <1>3, <1>4 DEF MembershipInv

\* Registry, trust store and peer table keep their types and bounds
\* (services/directory, services/discovery, services/p2p_node).
THEOREM TablesKeepTheirTypes == MembershipSpec => []TablesTypeOK
<1>1. MembershipInv => TablesTypeOK
  BY PeersListed DEF MembershipInv, TInv, TablesTypeOK
<1> QED
  BY <1>1, MembershipStarts, MembershipSteps, PTL DEF MembershipSpec

\* Unless the clock is set back, a peer is missing in the table only when as many
\* others as it takes were heard of no earlier, whatever mix of announcements,
\* beats and merges came in (addPeer and mergePeers of services/p2p_node).
THEOREM LastHeardAreListed == MembershipSpec => []HeardOfLastAreListed
<1>1. MembershipInv => HeardOfLastAreListed
  BY PeersListed DEF MembershipInv, HeardOfLastAreListed
<1> QED
  BY <1>1, MembershipStarts, MembershipSteps, PTL DEF MembershipSpec

=============================================================================

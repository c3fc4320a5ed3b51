--------------------------- MODULE DirectoryProofs ---------------------------
(***************************************************************************)
(* The registry, for any services and any times: what it lists is fresh,   *)
(* a service whose registration was answered stays listed, and entries are *)
(* only as many as the restarts and lost answers account for.              *)
(***************************************************************************)
EXTENDS Directory, BoundedBufferTheorems, WellFoundedInduction

\* The entries of some services
CopiesOf(T, entries) == {i \in 1..Len(entries) : entries[i].svc \in T}

\* The registrations that are still to be answered
Asked(s, n) == \E c \in calls : c.op = "register" /\ c.svc = s /\ c.run = n
Again(s, n) == n = run[s] /\ registration[s] = "waiting"
Open(T) == {x \in Starts(T) : Asked(x[1], x[2]) \/ Again(x[1], x[2])}

\* Of a process that calls, one registration is under way; of one that waits or
\* is registered, none; of a process that ended, at most one.
CallsOK ==
    /\ \A c \in calls : c.run \in 1..run[c.svc]
    /\ \A c, d \in calls : c.op = "register" /\ d.op = "register"
                            /\ c.svc = d.svc /\ c.run = d.run => c = d
    /\ \A s \in Service :
           /\ IF up[s] THEN run[s] # 0 ELSE registration[s] = "none"
           /\ up[s] /\ registration[s] # "calling" => ~Asked(s, run[s])

\* Each start and each lost answer accounts for an entry, or for a registration
\* that may still add one.
AccountedFor ==
    /\ IsFiniteSet(Starts(Service))
    /\ \A T \in SUBSET Service :
           Cardinality(CopiesOf(T, SERVICES)) + Cardinality(Open(T))
               <= Cardinality(Starts(T)) + faults["lostReply"]

\* The entry expires no later than its ttl, and is not older once n ticks are left
\* to the next round.
FreshEnough(e, n) == e.ttl # NoTTL => e.age + n <= e.ttl + CLEANUP

\* An entry ages up to the next round of cleanup, and has the ttl of the clients
\* unless someone else beat for it.
AgesOK ==
    /\ \A i \in 1..Len(SERVICES) : /\ FreshEnough(SERVICES[i], cleanIn)
                                   /\ faults["foreignBeat"] = 0 => SERVICES[i].ttl = TTL
    /\ ~dirUp => SERVICES = <<>>

\* A heartbeat reaches the directory before an entry of that age expires: it is
\* on its way, or will be sent in time.
RefreshedInTime(s, age) ==
    \/ age + beatIn[s] + MaxDelay <= TTL
    \/ \E c \in calls : c.op = "heartbeat" /\ c.svc = s /\ age + MaxDelay <= TTL + c.waited

Undisturbed ==
    /\ faults["directoryStop"] + faults["lostCall"] + faults["delete"] + faults["foreignBeat"] = 0
    /\ Registrations <= MAX_SERVICES

\* One copy of a registered service, not always the same, is refreshed in time.
LiveOK ==
    Undisturbed =>
        \A s \in Service : up[s] /\ registration[s] = "registered" =>
            \E i \in 1..Len(SERVICES) : SERVICES[i].svc = s /\ RefreshedInTime(s, SERVICES[i].age)

DirectoryInv == TypeOK /\ CallsOK /\ AccountedFor /\ AgesOK /\ LiveOK

-----------------------------------------------------------------------------
\* Entries

LEMMA Counted ==
    ASSUME NEW S, IsFiniteSet(S), NEW R, NEW f \in [R -> S], \A x, y \in R : f[x] = f[y] => x = y
    PROVE  IsFiniteSet(R) /\ Cardinality(R) \in Nat /\ Cardinality(R) <= Cardinality(S)
<1>1. f \in Injection(R, S)
  BY DEF Injection, IsInjective
<1> QED
  BY <1>1, FS_Injection, FS_CardinalityType

LEMMA CopiesFinite ==
    ASSUME NEW T, NEW entries \in Seq(Entry)
    PROVE  /\ CopiesOf(T, entries) \subseteq 1..Len(entries)
           /\ IsFiniteSet(CopiesOf(T, entries)) /\ Cardinality(CopiesOf(T, entries)) \in Nat
<1>1. IsFiniteSet(1..Len(entries)) /\ CopiesOf(T, entries) \subseteq 1..Len(entries)
  BY FS_Interval DEF CopiesOf
<1> QED
  BY <1>1, FS_Subset, FS_CardinalityType

LEMMA Pushed ==
    ASSUME NEW entries \in Seq(Entry), Len(entries) <= MAX_SERVICES, NEW e \in Entry
    PROVE  LET now == PushBounded(entries, e, MAX_SERVICES) IN
           /\ now \in Seq(Entry) /\ Len(now) <= MAX_SERVICES
           /\ \A i \in 1..Len(now) : now[i] = e \/ \E j \in 1..Len(entries) : now[i] = entries[j]
           /\ \E i \in 1..Len(now) : now[i] = e
           /\ Len(entries) < MAX_SERVICES =>
                  \A j \in 1..Len(entries) : \E i \in 1..Len(now) : now[i] = entries[j]
<1> DEFINE n == Len(entries)
           t == PushBounded(entries, e, MAX_SERVICES)
           From(i) == IF n = MAX_SERVICES THEN i + 1 ELSE i
<1>1. MAX_SERVICES \in Nat \ {0} /\ n \in Nat
  BY DirectoryAssumption
<1>2. /\ t \in Seq(Entry) /\ Len(t) = IF n = MAX_SERVICES THEN MAX_SERVICES ELSE n + 1
      /\ \A i \in 1..Len(t) : t[i] = IF From(i) = n + 1 THEN e ELSE entries[From(i)]
  BY <1>1, PushBoundedType, PushBoundedElements
<1> HIDE DEF t
<1>3. Len(t) \in 1..Len(t) /\ t[Len(t)] = e /\ Len(t) <= MAX_SERVICES
  BY <1>1, <1>2
<1>4. ASSUME NEW i \in 1..Len(t)
      PROVE  t[i] = e \/ \E j \in 1..n : t[i] = entries[j]
  <2>1. t[i] = IF From(i) = n + 1 THEN e ELSE entries[From(i)]
    BY <1>2
  <2>2. From(i) = n + 1 \/ From(i) \in 1..n
    BY <1>1, <1>2
  <2> HIDE DEF From
  <2> QED
    BY <2>1, <2>2
<1>5. ASSUME n < MAX_SERVICES, NEW j \in 1..n
      PROVE  j \in 1..Len(t) /\ t[j] = entries[j]
  BY <1>1, <1>2, <1>5
<1> QED
  BY <1>2, <1>3, <1>4, <1>5 DEF t

LEMMA CopiesPushed ==
    ASSUME NEW T, NEW entries \in Seq(Entry), Len(entries) <= MAX_SERVICES, NEW e \in Entry
    PROVE  LET now == CopiesOf(T, PushBounded(entries, e, MAX_SERVICES)) IN
           /\ Cardinality(now) <= Cardinality(CopiesOf(T, entries)) + 1
           /\ e.svc \notin T => Cardinality(now) <= Cardinality(CopiesOf(T, entries))
<1> DEFINE n == Len(entries)
           t == PushBounded(entries, e, MAX_SERVICES)
           now == CopiesOf(T, t)
           was == CopiesOf(T, entries)
           From(i) == IF n = MAX_SERVICES THEN i + 1 ELSE i
           f == [i \in now |-> From(i)]
<1>1. MAX_SERVICES \in Nat \ {0} /\ n \in Nat
  BY DirectoryAssumption
<1>2. /\ t \in Seq(Entry) /\ Len(t) = IF n = MAX_SERVICES THEN MAX_SERVICES ELSE n + 1
      /\ \A i \in 1..Len(t) : t[i] = IF From(i) = n + 1 THEN e ELSE entries[From(i)]
  BY <1>1, PushBoundedType, PushBoundedElements
<1> HIDE DEF t
<1>3. \A i \in now : i \in 1..Len(t) /\ t[i].svc \in T /\ From(i) \in 1..(n + 1)
  BY <1>1, <1>2 DEF CopiesOf
<1>4. \A i \in now : From(i) \in was \cup {n + 1} /\ (e.svc \notin T => From(i) \in was)
  BY <1>2, <1>3 DEF CopiesOf
<1>5. \A x, y \in now : f[x] = f[y] => x = y
  BY <1>3
<1>6. /\ IsFiniteSet(was) /\ Cardinality(was) \in Nat /\ n + 1 \notin was
      /\ IsFiniteSet(was \cup {n + 1}) /\ Cardinality(was \cup {n + 1}) = Cardinality(was) + 1
  <2>1. IsFiniteSet(was) /\ Cardinality(was) \in Nat /\ was \subseteq 1..n
    BY CopiesFinite
  <2>2. n + 1 \notin was
    BY <1>1, <2>1
  <2> QED
    BY <2>1, <2>2, FS_AddElement
<1>7. Cardinality(now) <= Cardinality(was) + 1
  <2>1. f \in [now -> was \cup {n + 1}]
    BY <1>4
  <2> HIDE DEF f, now, was
  <2> QED
    BY <1>5, <1>6, <2>1, Counted
<1>8. ASSUME e.svc \notin T
      PROVE  Cardinality(now) <= Cardinality(was)
  <2>1. f \in [now -> was]
    BY <1>4, <1>8
  <2> HIDE DEF f, now, was
  <2> QED
    BY <1>5, <1>6, <2>1, Counted
<1> QED
  BY <1>7, <1>8 DEF t

LEMMA CopiesLeft ==
    ASSUME NEW T, NEW entries \in Seq(Entry), NEW P \in SUBSET (1..Len(entries))
    PROVE  Cardinality(CopiesOf(T, ElementsAt(entries, P))) <= Cardinality(CopiesOf(T, entries))
<1> DEFINE t == ElementsAt(entries, P)
           now == CopiesOf(T, t)
           was == CopiesOf(T, entries)
           f == [i \in now |-> Nth(P, i)]
<1>1. /\ Len(t) = Cardinality(P)
      /\ \A i \in 1..Len(t) : Nth(P, i) \in P /\ t[i] = entries[Nth(P, i)]
      /\ \A i, j \in 1..Len(t) : Nth(P, i) = Nth(P, j) => i = j
  BY ElementsAtKeeps
<1> HIDE DEF t
<1>2. \A i \in now : i \in 1..Len(t) /\ Nth(P, i) \in was
  BY <1>1 DEF CopiesOf
<1>3. f \in [now -> was] /\ \A x, y \in now : f[x] = f[y] => x = y
  BY <1>1, <1>2
<1> HIDE DEF f
<1> QED
  BY <1>3, CopiesFinite, Counted DEF t

LEMMA CopiesSame ==
    ASSUME NEW T, NEW entries, NEW others, Len(others) = Len(entries),
           \A i \in 1..Len(entries) : others[i].svc = entries[i].svc
    PROVE  CopiesOf(T, others) = CopiesOf(T, entries)
BY DEF CopiesOf

LEMMA EntryTypes ==
    ASSUME TypeOK, NEW i \in 1..Len(SERVICES)
    PROVE  /\ SERVICES[i] \in Entry /\ SERVICES[i].svc \in Service /\ SERVICES[i].age \in Nat
           /\ SERVICES[i].ttl \in Nat \cup {NoTTL}
<1>1. SERVICES[i] \in Entry
  BY DEF TypeOK
<1> QED
  BY <1>1 DEF Entry

-----------------------------------------------------------------------------
\* Starts and registrations

LEMMA StartsAre ==
    ASSUME NEW T
    PROVE  /\ \A x \in Starts(T) : x = <<x[1], x[2]>> /\ x[1] \in T /\ x[2] \in 1..run[x[1]]
           /\ \A s \in T : \A n \in 1..run[s] : <<s, n>> \in Starts(T)
BY DEF Starts

LEMMA StartsFinite ==
    ASSUME AccountedFor, NEW T \in SUBSET Service
    PROVE  /\ IsFiniteSet(Starts(T)) /\ Cardinality(Starts(T)) \in Nat
           /\ IsFiniteSet(Open(T)) /\ Cardinality(Open(T)) \in Nat
<1>1. Starts(T) \subseteq Starts(Service) /\ Open(T) \subseteq Starts(T)
  BY DEF Starts, Open
<1> QED
  BY <1>1, FS_Subset, FS_CardinalityType DEF AccountedFor

LEMMA FailsMore ==
    ASSUME TypeOK, NEW kind \in FaultKind, Fails(kind)
    PROVE  /\ faults' \in [FaultKind -> Nat]
           /\ faults'[kind] = faults[kind] + 1
           /\ \A k \in FaultKind \ {kind} : faults'[k] = faults[k]
           /\ \A k \in FaultKind : faults'[k] >= faults[k]
BY DEF TypeOK, Fails

\* No entry more, or one more for a lost answer or for a registration that is over
LEMMA StillAccounted ==
    ASSUME TypeOK, AccountedFor, NEW T \in SUBSET Service,
           run' = run, Open(T)' \subseteq Open(T), SERVICES' \in Seq(Entry),
           faults' \in [FaultKind -> Nat], faults'["lostReply"] >= faults["lostReply"],
           \/ Cardinality(CopiesOf(T, SERVICES')) <= Cardinality(CopiesOf(T, SERVICES))
           \/ /\ Cardinality(CopiesOf(T, SERVICES')) <= Cardinality(CopiesOf(T, SERVICES)) + 1
              /\ \/ faults'["lostReply"] = faults["lostReply"] + 1
                 \/ Open(T)' # Open(T)
    PROVE  Cardinality(CopiesOf(T, SERVICES')) + Cardinality(Open(T)')
               <= Cardinality(Starts(T)') + faults'["lostReply"]
<1>1. Starts(T)' = Starts(T)
  BY DEF Starts
<1>2. /\ IsFiniteSet(Open(T)) /\ Cardinality(Open(T)) \in Nat /\ Cardinality(Starts(T)) \in Nat
      /\ Cardinality(Open(T)') \in Nat /\ Cardinality(Open(T)') <= Cardinality(Open(T))
      /\ Open(T)' # Open(T) => Cardinality(Open(T)') # Cardinality(Open(T))
  BY StartsFinite, FS_Subset, FS_CardinalityType
<1>3. /\ Cardinality(CopiesOf(T, SERVICES)) \in Nat /\ Cardinality(CopiesOf(T, SERVICES')) \in Nat
      /\ faults["lostReply"] \in Nat /\ faults'["lostReply"] \in Nat
  BY CopiesFinite DEF TypeOK, FaultKind
<1>4. Cardinality(CopiesOf(T, SERVICES)) + Cardinality(Open(T)) <= Cardinality(Starts(T)) + faults["lostReply"]
  BY DEF AccountedFor
<1>5. CASE Cardinality(CopiesOf(T, SERVICES')) <= Cardinality(CopiesOf(T, SERVICES))
  BY <1>1, <1>2, <1>3, <1>4, <1>5
<1>6. CASE /\ Cardinality(CopiesOf(T, SERVICES')) <= Cardinality(CopiesOf(T, SERVICES)) + 1
           /\ faults'["lostReply"] = faults["lostReply"] + 1
  BY <1>1, <1>2, <1>3, <1>4, <1>6
<1>7. CASE /\ Cardinality(CopiesOf(T, SERVICES')) <= Cardinality(CopiesOf(T, SERVICES)) + 1
           /\ Open(T)' # Open(T)
  <2>1. Cardinality(Open(T)') + 1 <= Cardinality(Open(T))
    BY <1>2, <1>7
  <2> QED
    BY <1>1, <1>2, <1>3, <1>4, <1>7, <2>1
<1> QED
  BY <1>5, <1>6, <1>7

LEMMA AgesAre ==
    ASSUME AgesOK, NEW i \in 1..Len(SERVICES)
    PROVE  FreshEnough(SERVICES[i], cleanIn) /\ (faults["foreignBeat"] = 0 => SERVICES[i].ttl = TTL)
BY DEF AgesOK, FreshEnough

LEMMA FaultsMore ==
    ASSUME TypeOK, faults' \in [FaultKind -> Nat], \A k \in FaultKind : faults'[k] >= faults[k]
    PROVE  faults'["foreignBeat"] = 0 => faults["foreignBeat"] = 0
BY DEF TypeOK, FaultKind

\* As long as nothing that is counted changes, the history is as undisturbed as it was.
LEMMA UndisturbedBefore ==
    ASSUME TypeOK, AccountedFor, AccountedFor', Undisturbed', faults' \in [FaultKind -> Nat],
           Starts(Service) \subseteq Starts(Service)', \A k \in FaultKind : faults'[k] >= faults[k]
    PROVE  Undisturbed
<1>1. \A k \in FaultKind : faults[k] \in Nat /\ faults'[k] \in Nat
  BY DEF TypeOK
<1>2. {"directoryStop", "lostCall", "delete", "foreignBeat", "lostReply"} \subseteq FaultKind
  BY DEF FaultKind
<1>3. /\ Cardinality(Starts(Service)) \in Nat /\ Cardinality(Starts(Service)') \in Nat
      /\ Cardinality(Starts(Service)) <= Cardinality(Starts(Service)')
  BY FS_Subset, FS_CardinalityType DEF AccountedFor
<1>4. MAX_SERVICES \in Nat
  BY DirectoryAssumption
<1>5. faults["directoryStop"] + faults["lostCall"] + faults["delete"] + faults["foreignBeat"] = 0
  <2>1. faults'["directoryStop"] + faults'["lostCall"] + faults'["delete"] + faults'["foreignBeat"] = 0
    BY DEF Undisturbed
  <2>3. \A k \in {"directoryStop", "lostCall", "delete", "foreignBeat"} :
            faults[k] \in Nat /\ faults'[k] \in Nat /\ faults'[k] >= faults[k]
    BY <1>1, <1>2
  <2>4. \A k \in {"directoryStop", "lostCall", "delete", "foreignBeat"} : faults'[k] = 0
    <3>1. \A x, y, z, w \in Nat : x + y + z + w = 0 => x = 0 /\ y = 0 /\ z = 0 /\ w = 0
      OBVIOUS
    <3> QED
      BY <2>1, <2>3, <3>1
  <2>5. \A k \in {"directoryStop", "lostCall", "delete", "foreignBeat"} : faults[k] = 0
    BY <2>3, <2>4
  <2> QED
    BY <2>5
<1>6. Registrations <= MAX_SERVICES
  <2>1. Cardinality(Starts(Service)') + faults'["lostReply"] <= MAX_SERVICES
    BY DEF Undisturbed, Registrations
  <2>2. faults'["lostReply"] >= faults["lostReply"]
    BY <1>2
  <2> QED
    BY <1>1, <1>2, <1>3, <1>4, <2>1, <2>2 DEF Registrations
<1> QED
  BY <1>5, <1>6 DEF Undisturbed

-----------------------------------------------------------------------------
\* The end of a call

LEMMA EndedCalls ==
    ASSUME TypeOK, CallsOK, NEW c \in calls, NEW answered \in BOOLEAN, CallEnds(c, answered)
    PROVE  /\ CallsOK'
           /\ calls' = calls \ {c} /\ run' = run /\ up' = up /\ beatIn' = beatIn
           /\ registration' \in [Service -> {"none", "calling", "waiting", "registered"}]
           /\ retryIn' \in [Service -> 0..RETRY]
           /\ c.op = "heartbeat" => registration' = registration
           /\ \A s \in Service : /\ registration'[s] # registration[s] => s = c.svc
                                 /\ ~answered /\ registration'[s] = "registered" => registration[s] = "registered"
           /\ \A T \in SUBSET Service :
                  /\ Open(T)' \subseteq Open(T)
                  /\ c.op = "register" /\ answered /\ c.svc \in T => Open(T)' # Open(T)
<1>1. /\ c \in Call /\ c.svc \in Service /\ c.run \in 1..run[c.svc] /\ c.op \in {"register", "heartbeat"}
      /\ RETRY \in Nat
  BY DirectoryAssumption DEF TypeOK, CallsOK, Call
<1>2. calls' = calls \ {c} /\ run' = run /\ up' = up /\ beatIn' = beatIn
  BY DEF CallEnds
<1>3. CASE c.op = "register" /\ Waiting(c)
  <2>1. /\ registration' = [registration EXCEPT ![c.svc] = IF answered THEN "registered" ELSE "waiting"]
        /\ retryIn' = [retryIn EXCEPT ![c.svc] = IF answered THEN 0 ELSE RETRY]
        /\ up[c.svc] /\ run[c.svc] = c.run
    BY <1>3 DEF CallEnds, Waiting
  <2>2. /\ registration' \in [Service -> {"none", "calling", "waiting", "registered"}]
        /\ retryIn' \in [Service -> 0..RETRY]
        /\ registration'[c.svc] = IF answered THEN "registered" ELSE "waiting"
        /\ \A s \in Service \ {c.svc} : registration'[s] = registration[s]
    BY <1>1, <2>1 DEF TypeOK
  <2>3. Asked(c.svc, c.run) /\ ~Asked(c.svc, c.run)'
    BY <1>2, <1>3 DEF Asked, CallsOK
  <2>4. \A s \in Service : \A n : /\ Asked(s, n)' => Asked(s, n)
                                  /\ Again(s, n)' => Again(s, n) \/ (s = c.svc /\ n = c.run /\ ~answered)
    BY <1>2, <2>1, <2>2 DEF Asked, Again
  <2>5. CallsOK'
    BY <1>2, <2>1, <2>2, <2>3, <2>4 DEF CallsOK
  <2>6. ASSUME NEW T \in SUBSET Service
        PROVE  Open(T)' \subseteq Open(T)
    BY <1>2, <2>3, <2>4, StartsAre DEF Open, Starts
  <2>7. ASSUME NEW T \in SUBSET Service, answered, c.svc \in T
        PROVE  Open(T)' # Open(T)
    <3>1. <<c.svc, c.run>> \in Open(T)
      BY <1>1, <2>3, <2>7, StartsAre DEF Open
    <3>2. <<c.svc, c.run>> \notin Open(T)'
      BY <1>2, <2>2, <2>3, <2>7 DEF Open, Again
    <3> QED
      BY <3>1, <3>2
  <2> QED
    BY <1>2, <1>3, <2>2, <2>5, <2>6, <2>7
<1>4. CASE ~(c.op = "register" /\ Waiting(c))
  <2>1. registration' = registration /\ retryIn' = retryIn
    BY <1>4 DEF CallEnds
  <2>2. \A s \in Service : \A n : /\ Asked(s, n)' => Asked(s, n)
                                  /\ Again(s, n)' <=> Again(s, n)
    BY <1>2, <2>1 DEF Asked, Again
  <2>3. CallsOK'
    BY <1>2, <2>1, <2>2 DEF CallsOK
  <2>4. ASSUME NEW T \in SUBSET Service
        PROVE  Open(T)' \subseteq Open(T)
    BY <1>2, <2>2, StartsAre DEF Open, Starts
  <2>5. ASSUME NEW T \in SUBSET Service, c.op = "register", c.svc \in T
        PROVE  Open(T)' # Open(T)
    <3>1. Asked(c.svc, c.run) /\ ~Asked(c.svc, c.run)'
      BY <1>2, <2>5 DEF Asked, CallsOK
    <3>2. ~Again(c.svc, c.run)'
      BY <1>1, <1>4, <2>1, <1>2, <2>5 DEF Again, Waiting, CallsOK
    <3>3. <<c.svc, c.run>> \in Open(T)
      BY <1>1, <2>5, <3>1, StartsAre DEF Open
    <3>4. <<c.svc, c.run>> \notin Open(T)'
      BY <3>1, <3>2 DEF Open
    <3> QED
      BY <3>3, <3>4
  <2> QED
    BY <1>2, <2>1, <2>3, <2>4, <2>5 DEF TypeOK
<1> QED
  BY <1>3, <1>4

-----------------------------------------------------------------------------
\* The steps of a service

LEMMA StartStep ==
    ASSUME DirectoryInv, NEW s \in Service, Start(s)
    PROVE  DirectoryInv'
<1> USE DEF DirectoryInv
<1> DEFINE n == run[s] + 1
           new == {Request("register", s, n), Request("heartbeat", s, n)}
<1>1. /\ run[s] \in Nat /\ n \in Nat /\ n # 0 /\ HEARTBEAT \in Nat /\ 0 \in 0..MaxDelay
      /\ run' = [run EXCEPT ![s] = @ + 1] /\ up' = [up EXCEPT ![s] = TRUE]
      /\ registration' = [registration EXCEPT ![s] = "calling"]
      /\ beatIn' = [beatIn EXCEPT ![s] = HEARTBEAT]
      /\ calls' = calls \cup new
      /\ UNCHANGED <<SERVICES, dirUp, cleanIn, retryIn, faults>>
  BY DirectoryAssumption DEF TypeOK, Start, directoryVars
<1>2. TypeOK'
  <2>1. new \subseteq Call
    BY <1>1 DEF Request, Call
  <2>2. /\ run' \in [Service -> Nat] /\ up' \in [Service -> BOOLEAN]
        /\ registration' \in [Service -> {"none", "calling", "waiting", "registered"}]
        /\ beatIn' \in [Service -> 0..HEARTBEAT]
    BY <1>1 DEF TypeOK
  <2> QED
    BY <1>1, <2>1, <2>2 DEF TypeOK
<1>3. /\ run'[s] = n /\ up'[s] /\ registration'[s] = "calling"
      /\ \A t \in Service \ {s} : /\ run'[t] = run[t] /\ up'[t] = up[t] /\ beatIn'[t] = beatIn[t]
                                  /\ registration'[t] = registration[t]
      /\ \A c \in new : c.svc = s /\ c.run = n
      /\ \A c \in new : c.op = "register" => c = Request("register", s, n)
      /\ \A c \in calls : c.svc \in Service /\ c.run \in 1..run[c.svc]
  BY <1>1 DEF TypeOK, Request, CallsOK, Call
<1> HIDE DEF new, n
<1>4. /\ \A t \in Service : run[t] \in Nat /\ 1..run[t] \subseteq 1..run'[t]
      /\ \A m \in 1..run[s] : m # n
  BY <1>1, <1>3 DEF TypeOK, n
<1>5. \A c \in calls : c.svc = s => c.run # n
  BY <1>3, <1>4
<1>6. CallsOK'
  <2>1. \A c \in calls' : c.run \in 1..run'[c.svc]
    BY <1>1, <1>3, <1>4
  <2>2. \A c, d \in calls' : c.op = "register" /\ d.op = "register"
                             /\ c.svc = d.svc /\ c.run = d.run => c = d
    BY <1>1, <1>3, <1>5 DEF CallsOK
  <2>3. \A t \in Service : \A m : t # s => (Asked(t, m)' <=> Asked(t, m))
    BY <1>1, <1>3 DEF Asked
  <2>4. ASSUME NEW t \in Service
        PROVE  /\ IF up'[t] THEN run'[t] # 0 ELSE registration'[t] = "none"
               /\ up'[t] /\ registration'[t] # "calling" => ~Asked(t, run[t])'
    BY <1>1, <1>3, <2>3 DEF CallsOK
  <2> QED
    BY <2>1, <2>2, <2>4 DEF CallsOK
<1>7. ASSUME NEW T \in SUBSET Service
      PROVE  /\ Starts(T)' = IF s \in T THEN Starts(T) \cup {<<s, n>>} ELSE Starts(T)
             /\ <<s, n>> \notin Starts(T)
             /\ Open(T)' \subseteq IF s \in T THEN Open(T) \cup {<<s, n>>} ELSE Open(T)
  <2>1. \A t \in Service : \A m : /\ t # s => (Asked(t, m)' <=> Asked(t, m)) /\ (Again(t, m)' <=> Again(t, m))
                                  /\ m # n => (Asked(s, m)' <=> Asked(s, m))
                                  /\ ~Again(s, m)'
    BY <1>1, <1>3 DEF Asked, Again
  <2>2. <<s, n>> \notin Starts(T)
    BY <1>4, StartsAre
  <2>3. 1..run'[s] = 1..run[s] \cup {n}
    BY <1>1, <1>3 DEF n
  <2>4. Starts(T)' = IF s \in T THEN Starts(T) \cup {<<s, n>>} ELSE Starts(T)
    <3>1. ASSUME NEW t \in Service, NEW m
          PROVE  <<t, m>> \in {t} \X (1..run'[t]) <=> \/ <<t, m>> \in {t} \X (1..run[t])
                                                      \/ t = s /\ m = n
      BY <1>3, <2>3
    <3>2. \A x : x \in Starts(T)' <=> \E t \in T : x \in {t} \X (1..run'[t])
      BY DEF Starts
    <3>3. \A x : x \in Starts(T) <=> \E t \in T : x \in {t} \X (1..run[t])
      BY DEF Starts
    <3>4. \A x : x \in Starts(T)' <=> x \in Starts(T) \/ (s \in T /\ x = <<s, n>>)
      BY <3>1, <3>2, <3>3
    <3> QED
      BY <3>4
  <2> QED
    BY <2>1, <2>2, <2>4, StartsAre DEF Open
<1>8. AccountedFor'
  <2>1. IsFiniteSet(Starts(Service)')
    BY <1>7, FS_AddElement DEF AccountedFor
  <2>2. ASSUME NEW T \in SUBSET Service
        PROVE  Cardinality(CopiesOf(T, SERVICES')) + Cardinality(Open(T)')
                   <= Cardinality(Starts(T)') + faults'["lostReply"]
    <3>1. /\ IsFiniteSet(Starts(T)) /\ Cardinality(Starts(T)) \in Nat
          /\ IsFiniteSet(Open(T)) /\ Cardinality(Open(T)) \in Nat
          /\ Cardinality(CopiesOf(T, SERVICES)) \in Nat /\ faults["lostReply"] \in Nat
      BY StartsFinite, CopiesFinite DEF TypeOK, FaultKind
    <3>2. Cardinality(CopiesOf(T, SERVICES)) + Cardinality(Open(T)) <= Cardinality(Starts(T)) + faults["lostReply"]
      BY DEF AccountedFor
    <3>3. CASE s \in T
      <4>1. Cardinality(Starts(T)') = Cardinality(Starts(T)) + 1
        BY <1>7, <3>1, <3>3, FS_AddElement
      <4>2. <<s, n>> \notin Open(T)
        BY <1>7 DEF Open
      <4>3. /\ IsFiniteSet(Open(T) \cup {<<s, n>>})
            /\ Cardinality(Open(T) \cup {<<s, n>>}) = Cardinality(Open(T)) + 1
        BY <3>1, <4>2, FS_AddElement
      <4>4. IsFiniteSet(Open(T)') /\ Cardinality(Open(T)') <= Cardinality(Open(T)) + 1 /\ Cardinality(Open(T)') \in Nat
        BY <1>7, <3>3, <4>3, FS_Subset, FS_CardinalityType
      <4> QED
        BY <1>1, <3>1, <3>2, <4>1, <4>4
    <3>4. CASE s \notin T
      <4>1. IsFiniteSet(Open(T)') /\ Cardinality(Open(T)') <= Cardinality(Open(T)) /\ Cardinality(Open(T)') \in Nat
        BY <1>7, <3>1, <3>4, FS_Subset, FS_CardinalityType
      <4>2. Starts(T)' = Starts(T)
        BY <1>7, <3>4
      <4> QED
        BY <1>1, <3>1, <3>2, <4>1, <4>2
    <3> QED
      BY <3>3, <3>4
  <2> QED
    BY <2>1, <2>2 DEF AccountedFor
<1>9. AgesOK'
  BY <1>1 DEF AgesOK
<1>10. LiveOK'
  <2>1. Undisturbed' => Undisturbed
    <3>1. Starts(Service) \subseteq Starts(Service)'
      BY <1>7
    <3>2. \A k \in FaultKind : faults'[k] >= faults[k]
      BY <1>1 DEF TypeOK
    <3> QED
      BY <1>2, <1>8, <3>1, <3>2, UndisturbedBefore DEF TypeOK
  <2>2. \A t \in Service : \A a : t # s /\ RefreshedInTime(t, a) => RefreshedInTime(t, a)'
    BY <1>1, <1>3 DEF RefreshedInTime
  <2> QED
    BY <1>1, <1>3, <2>1, <2>2 DEF LiveOK
<1> QED
  BY <1>2, <1>6, <1>8, <1>9, <1>10

\* What a step that starts no process has to show
LEMMA NoStart ==
    ASSUME DirectoryInv, TypeOK', run' = run,
           \A k \in FaultKind : faults'[k] >= faults[k],
           \A T \in SUBSET Service :
               /\ Open(T)' \subseteq Open(T)
               /\ \/ Cardinality(CopiesOf(T, SERVICES')) <= Cardinality(CopiesOf(T, SERVICES))
                  \/ /\ Cardinality(CopiesOf(T, SERVICES')) <= Cardinality(CopiesOf(T, SERVICES)) + 1
                     /\ faults'["lostReply"] = faults["lostReply"] + 1 \/ Open(T)' # Open(T)
    PROVE  AccountedFor' /\ (Undisturbed' => Undisturbed)
<1>1. Starts(Service)' = Starts(Service)
  BY DEF Starts
<1>2. SERVICES' \in Seq(Entry) /\ faults' \in [FaultKind -> Nat] /\ faults'["lostReply"] >= faults["lostReply"]
  BY DEF TypeOK, FaultKind
<1>3. ASSUME NEW T \in SUBSET Service
      PROVE  Cardinality(CopiesOf(T, SERVICES')) + Cardinality(Open(T)')
                 <= Cardinality(Starts(T)') + faults'["lostReply"]
  BY <1>2, StillAccounted DEF DirectoryInv
<1>4. AccountedFor'
  BY <1>1, <1>3 DEF AccountedFor, DirectoryInv
<1> QED
  BY <1>1, <1>2, <1>4, UndisturbedBefore DEF DirectoryInv

LEMMA StopStep ==
    ASSUME DirectoryInv, NEW s \in Service, Stop(s)
    PROVE  DirectoryInv'
<1> USE DEF DirectoryInv
<1>1. /\ up' = [up EXCEPT ![s] = FALSE] /\ registration' = [registration EXCEPT ![s] = "none"]
      /\ retryIn' = [retryIn EXCEPT ![s] = 0] /\ beatIn' = [beatIn EXCEPT ![s] = 0]
      /\ UNCHANGED <<SERVICES, dirUp, cleanIn, run, calls>> /\ Fails("serviceStop")
      /\ HEARTBEAT \in Nat /\ RETRY \in Nat
  BY DirectoryAssumption DEF Stop, directoryVars
<1>2. faults' \in [FaultKind -> Nat] /\ \A k \in FaultKind : faults'[k] >= faults[k]
  BY <1>1, FailsMore DEF FaultKind
<1>3. TypeOK'
  BY <1>1, <1>2 DEF TypeOK
<1>4. /\ registration'[s] = "none" /\ ~up'[s]
      /\ \A t \in Service \ {s} : registration'[t] = registration[t] /\ up'[t] = up[t] /\ beatIn'[t] = beatIn[t]
  BY <1>1 DEF TypeOK
<1>5. \A t, m : (Asked(t, m)' <=> Asked(t, m)) /\ (t \in Service /\ Again(t, m)' => Again(t, m))
  BY <1>1, <1>4 DEF Asked, Again
<1>6. CallsOK'
  BY <1>1, <1>4, <1>5 DEF CallsOK
<1>7. ASSUME NEW T \in SUBSET Service
      PROVE  /\ Open(T)' \subseteq Open(T)
             /\ Cardinality(CopiesOf(T, SERVICES')) <= Cardinality(CopiesOf(T, SERVICES))
  BY <1>1, <1>5, StartsAre, CopiesFinite DEF Open, Starts, TypeOK
<1>8. AccountedFor' /\ (Undisturbed' => Undisturbed)
  BY <1>1, <1>2, <1>3, <1>7, NoStart
<1>9. LiveOK'
  <2>1. \A t \in Service \ {s} : \A a : RefreshedInTime(t, a) => RefreshedInTime(t, a)'
    BY <1>1, <1>4 DEF RefreshedInTime
  <2> QED
    BY <1>1, <1>4, <1>8, <2>1 DEF LiveOK
<1>10. AgesOK'
  BY <1>1, <1>2, FaultsMore DEF AgesOK
<1> QED
  BY <1>1, <1>3, <1>6, <1>8, <1>9, <1>10

LEMMA AttemptStep ==
    ASSUME DirectoryInv, NEW s \in Service, Attempt(s)
    PROVE  DirectoryInv'
<1> USE DEF DirectoryInv
<1> DEFINE c == Request("register", s, run[s])
<1>1. /\ up[s] /\ registration[s] = "waiting" /\ registration' = [registration EXCEPT ![s] = "calling"]
      /\ calls' = calls \cup {c} /\ c \in Call
      /\ UNCHANGED <<SERVICES, dirUp, cleanIn, run, up, retryIn, beatIn, faults>>
  BY DirectoryAssumption DEF Attempt, directoryVars, Request, Call, TypeOK
<1>2. TypeOK'
  BY <1>1 DEF TypeOK
<1>3. /\ registration'[s] = "calling"
      /\ \A t \in Service \ {s} : registration'[t] = registration[t]
      /\ c.svc = s /\ c.run = run[s] /\ c.op = "register"
  BY <1>1 DEF TypeOK, Request
<1>4. ~Asked(s, run[s]) /\ Again(s, run[s])
  BY <1>1 DEF CallsOK, Again
<1>5. run[s] \in 1..run[s]
  <2>1. run[s] \in Nat /\ run[s] # 0
    BY <1>1 DEF TypeOK, CallsOK
  <2> QED
    BY <2>1
<1> HIDE DEF c
<1>6. \A t \in Service : \A m : /\ Asked(t, m)' <=> Asked(t, m) \/ (t = s /\ m = run[s])
                                /\ Again(t, m)' => Again(t, m)
  BY <1>1, <1>3 DEF Asked, Again
<1>7. CallsOK'
  <2>1. \A d \in calls' : d.run \in 1..run'[d.svc]
    BY <1>1, <1>3, <1>5 DEF CallsOK
  <2>2. \A d, e \in calls' : d.op = "register" /\ e.op = "register"
                             /\ d.svc = e.svc /\ d.run = e.run => d = e
    BY <1>1, <1>3, <1>4 DEF CallsOK, Asked
  <2> QED
    BY <1>1, <1>3, <1>6, <2>1, <2>2 DEF CallsOK
<1>8. ASSUME NEW T \in SUBSET Service
      PROVE  /\ Open(T)' \subseteq Open(T)
             /\ Cardinality(CopiesOf(T, SERVICES')) <= Cardinality(CopiesOf(T, SERVICES))
  BY <1>1, <1>4, <1>6, StartsAre, CopiesFinite DEF Open, Starts, TypeOK
<1>9. AccountedFor' /\ (Undisturbed' => Undisturbed)
  BY <1>1, <1>2, <1>8, NoStart DEF TypeOK
<1>10. LiveOK'
  <2>1. \A t \in Service : \A a : RefreshedInTime(t, a) => RefreshedInTime(t, a)'
    BY <1>1 DEF RefreshedInTime
  <2> QED
    BY <1>1, <1>3, <1>9, <2>1 DEF LiveOK
<1> QED
  BY <1>1, <1>2, <1>7, <1>9, <1>10 DEF AgesOK

LEMMA BeatStep ==
    ASSUME DirectoryInv, NEW s \in Service, Beat(s)
    PROVE  DirectoryInv'
<1> USE DEF DirectoryInv
<1> DEFINE c == Request("heartbeat", s, run[s])
<1>1. /\ up[s] /\ beatIn[s] = 0 /\ beatIn' = [beatIn EXCEPT ![s] = HEARTBEAT]
      /\ calls' = calls \cup {c} /\ c \in Call /\ HEARTBEAT \in Nat /\ MaxDelay \in Nat /\ TTL \in Nat
      /\ UNCHANGED <<SERVICES, dirUp, cleanIn, run, up, registration, retryIn, faults>>
  BY DirectoryAssumption DEF Beat, directoryVars, Request, Call, TypeOK
<1>2. TypeOK'
  BY <1>1 DEF TypeOK
<1>3. c.svc = s /\ c.run = run[s] /\ c.op = "heartbeat" /\ c.waited = 0
  BY DEF Request
<1>4. \A t, m : (Asked(t, m)' <=> Asked(t, m)) /\ (Again(t, m)' <=> Again(t, m))
  BY <1>1, <1>3 DEF Asked, Again
<1>5. run[s] \in 1..run[s]
  <2>1. run[s] \in Nat /\ run[s] # 0
    BY <1>1 DEF TypeOK, CallsOK
  <2> QED
    BY <2>1
<1> HIDE DEF c
<1>6. CallsOK'
  <2>1. \A d \in calls' : d.run \in 1..run'[d.svc] /\ (d.op = "register" => d \in calls)
    BY <1>1, <1>3, <1>5 DEF CallsOK
  <2> QED
    BY <1>1, <1>4, <2>1 DEF CallsOK
<1>7. ASSUME NEW T \in SUBSET Service
      PROVE  /\ Open(T)' \subseteq Open(T)
             /\ Cardinality(CopiesOf(T, SERVICES')) <= Cardinality(CopiesOf(T, SERVICES))
  BY <1>1, <1>4, CopiesFinite DEF Open, Starts, TypeOK
<1>8. AccountedFor' /\ (Undisturbed' => Undisturbed)
  BY <1>1, <1>2, <1>7, NoStart DEF TypeOK
<1>9. LiveOK'
  <2>1. \A t \in Service : \A a \in Nat : RefreshedInTime(t, a) => RefreshedInTime(t, a)'
    <3>1. ASSUME NEW t \in Service, NEW a \in Nat, RefreshedInTime(t, a)
          PROVE  RefreshedInTime(t, a)'
      <4>1. CASE t = s /\ a + beatIn[s] + MaxDelay <= TTL
        <5>1. c \in calls' /\ a + MaxDelay <= TTL + c.waited
          BY <1>1, <1>3, <4>1
        <5> QED
          BY <1>3, <4>1, <5>1 DEF RefreshedInTime
      <4>2. CASE t # s /\ a + beatIn[t] + MaxDelay <= TTL
        <5>1. beatIn'[t] = beatIn[t]
          BY <1>1, <4>2 DEF TypeOK
        <5> QED
          BY <4>2, <5>1 DEF RefreshedInTime
      <4>3. CASE \E d \in calls : d.op = "heartbeat" /\ d.svc = t /\ a + MaxDelay <= TTL + d.waited
        BY <1>1, <4>3 DEF RefreshedInTime
      <4> QED
        BY <3>1, <4>1, <4>2, <4>3 DEF RefreshedInTime
    <3> QED
      BY <3>1
  <2>2. \A i \in 1..Len(SERVICES) : SERVICES[i].age \in Nat
    BY EntryTypes
  <2> QED
    BY <1>1, <1>8, <2>1, <2>2 DEF LiveOK
<1> QED
  BY <1>1, <1>2, <1>6, <1>8, <1>9 DEF AgesOK

-----------------------------------------------------------------------------
\* The steps of the directory

\* A push of a service's entry within the bound keeps the others where they are.
LEMMA EntryAdded ==
    ASSUME TypeOK, NEW s \in Service, SERVICES' = registerService(s)
    PROVE  /\ SERVICES' \in Seq(Entry) /\ Len(SERVICES') <= MAX_SERVICES
           /\ \A i \in 1..Len(SERVICES') :
                  \/ SERVICES'[i].age = 0 /\ SERVICES'[i].ttl = TTL
                  \/ \E j \in 1..Len(SERVICES) : SERVICES'[i] = SERVICES[j]
           /\ \E i \in 1..Len(SERVICES') : SERVICES'[i].svc = s /\ SERVICES'[i].age = 0
           /\ Len(SERVICES) < MAX_SERVICES =>
                  \A j \in 1..Len(SERVICES) : \E i \in 1..Len(SERVICES') : SERVICES'[i] = SERVICES[j]
           /\ \A T \in SUBSET Service :
                  /\ Cardinality(CopiesOf(T, SERVICES')) <= Cardinality(CopiesOf(T, SERVICES)) + 1
                  /\ s \notin T => Cardinality(CopiesOf(T, SERVICES')) <= Cardinality(CopiesOf(T, SERVICES))
<1> DEFINE e == [svc |-> s, age |-> 0, ttl |-> TTL]
<1>1. e \in Entry /\ e.svc = s /\ e.age = 0 /\ e.ttl = TTL
  BY DirectoryAssumption DEF Entry
<1> HIDE DEF e
<1>2. /\ SERVICES \in Seq(Entry) /\ Len(SERVICES) <= MAX_SERVICES
      /\ SERVICES' = PushBounded(SERVICES, e, MAX_SERVICES)
  BY DEF TypeOK, registerService, e
<1>3. /\ SERVICES' \in Seq(Entry) /\ Len(SERVICES') <= MAX_SERVICES
      /\ \A i \in 1..Len(SERVICES') :
             SERVICES'[i] = e \/ \E j \in 1..Len(SERVICES) : SERVICES'[i] = SERVICES[j]
      /\ \E i \in 1..Len(SERVICES') : SERVICES'[i] = e
      /\ Len(SERVICES) < MAX_SERVICES =>
             \A j \in 1..Len(SERVICES) : \E i \in 1..Len(SERVICES') : SERVICES'[i] = SERVICES[j]
  <2> DEFINE t == PushBounded(SERVICES, e, MAX_SERVICES)
  <2>1. /\ t \in Seq(Entry) /\ Len(t) <= MAX_SERVICES
        /\ \A i \in 1..Len(t) : t[i] = e \/ \E j \in 1..Len(SERVICES) : t[i] = SERVICES[j]
        /\ \E i \in 1..Len(t) : t[i] = e
        /\ Len(SERVICES) < MAX_SERVICES =>
               \A j \in 1..Len(SERVICES) : \E i \in 1..Len(t) : t[i] = SERVICES[j]
    BY <1>1, <1>2, Pushed, Zenon
  <2> QED
    BY <1>2, <2>1
<1>4. \A T \in SUBSET Service :
          /\ Cardinality(CopiesOf(T, SERVICES')) <= Cardinality(CopiesOf(T, SERVICES)) + 1
          /\ s \notin T => Cardinality(CopiesOf(T, SERVICES')) <= Cardinality(CopiesOf(T, SERVICES))
  BY <1>1, <1>2, CopiesPushed
<1> QED
  BY <1>1, <1>3, <1>4

\* An undisturbed directory has room for the registration that is under way.
LEMMA RoomForOne ==
    ASSUME TypeOK, AccountedFor, Undisturbed, Open(Service) # {}
    PROVE  Len(SERVICES) < MAX_SERVICES
<1>1. CopiesOf(Service, SERVICES) = 1..Len(SERVICES) /\ Cardinality(1..Len(SERVICES)) = Len(SERVICES)
  <2>1. CopiesOf(Service, SERVICES) = 1..Len(SERVICES)
    BY EntryTypes DEF CopiesOf
  <2>2. Len(SERVICES) \in Nat
    BY DEF TypeOK
  <2>3. \A n \in Nat : Cardinality(1..n) = n
    BY FS_Interval
  <2> QED
    BY <2>1, <2>2, <2>3
<1>2. /\ IsFiniteSet(Open(Service)) /\ Cardinality(Open(Service)) \in Nat /\ Cardinality(Open(Service)) # 0
      /\ Cardinality(Starts(Service)) \in Nat
  BY StartsFinite, FS_EmptySet
<1>3. Len(SERVICES) + Cardinality(Open(Service)) <= Cardinality(Starts(Service)) + faults["lostReply"]
  BY <1>1 DEF AccountedFor
<1>4. faults["lostReply"] \in Nat /\ Len(SERVICES) \in Nat /\ MAX_SERVICES \in Nat
  BY DirectoryAssumption DEF TypeOK, FaultKind
<1> QED
  BY <1>2, <1>3, <1>4 DEF Undisturbed, Registrations

\* POST /register, with its answer or without
LEMMA RegisterStep ==
    ASSUME DirectoryInv, NEW c \in calls, HandleRegister(c) \/ LoseReply(c)
    PROVE  DirectoryInv'
<1> USE DEF DirectoryInv
<1>1. PICK answered \in BOOLEAN :
          /\ dirUp /\ c.op = "register" /\ SERVICES' = registerService(c.svc)
          /\ CallEnds(c, answered)
          /\ IF answered THEN faults' = faults ELSE Fails("lostReply")
          /\ UNCHANGED <<dirUp, cleanIn>>
  BY DEF HandleRegister, LoseReply
<1>2. c.svc \in Service
  BY DEF TypeOK, Call
<1>3. /\ SERVICES' \in Seq(Entry) /\ Len(SERVICES') <= MAX_SERVICES
      /\ \A i \in 1..Len(SERVICES') :
             \/ SERVICES'[i].age = 0 /\ SERVICES'[i].ttl = TTL
             \/ \E j \in 1..Len(SERVICES) : SERVICES'[i] = SERVICES[j]
      /\ \E i \in 1..Len(SERVICES') : SERVICES'[i].svc = c.svc /\ SERVICES'[i].age = 0
      /\ Len(SERVICES) < MAX_SERVICES =>
             \A j \in 1..Len(SERVICES) : \E i \in 1..Len(SERVICES') : SERVICES'[i] = SERVICES[j]
      /\ \A T \in SUBSET Service :
             /\ Cardinality(CopiesOf(T, SERVICES')) <= Cardinality(CopiesOf(T, SERVICES)) + 1
             /\ c.svc \notin T => Cardinality(CopiesOf(T, SERVICES')) <= Cardinality(CopiesOf(T, SERVICES))
  BY <1>1, <1>2, EntryAdded
<1>4. /\ CallsOK'
      /\ calls' = calls \ {c} /\ run' = run /\ up' = up /\ beatIn' = beatIn
      /\ registration' \in [Service -> {"none", "calling", "waiting", "registered"}]
      /\ retryIn' \in [Service -> 0..RETRY]
      /\ \A s \in Service : registration'[s] # registration[s] => s = c.svc
      /\ \A T \in SUBSET Service :
             /\ Open(T)' \subseteq Open(T)
             /\ answered /\ c.svc \in T => Open(T)' # Open(T)
  BY <1>1, EndedCalls
<1>5. /\ faults' \in [FaultKind -> Nat] /\ \A k \in FaultKind : faults'[k] >= faults[k]
      /\ ~answered => faults'["lostReply"] = faults["lostReply"] + 1
      /\ faults'["foreignBeat"] = faults["foreignBeat"]
  <2>1. "lostReply" \in FaultKind /\ "foreignBeat" \in FaultKind \ {"lostReply"}
    BY DEF FaultKind
  <2>2. CASE answered
    BY <1>1, <2>2 DEF TypeOK
  <2>3. CASE ~answered
    BY <1>1, <2>1, <2>3, FailsMore
  <2> QED
    BY <2>2, <2>3
<1>6. TypeOK'
  BY <1>1, <1>3, <1>4, <1>5 DEF TypeOK
<1>7. AccountedFor' /\ (Undisturbed' => Undisturbed)
  BY <1>3, <1>4, <1>5, <1>6, NoStart
<1>8. AgesOK'
  <2>1. TTL \in Nat /\ CLEANUP \in Nat /\ cleanIn \in 0..CLEANUP
    BY DirectoryAssumption DEF TypeOK
  <2>2. ASSUME NEW i \in 1..Len(SERVICES')
        PROVE  /\ FreshEnough(SERVICES'[i], cleanIn)
               /\ faults["foreignBeat"] = 0 => SERVICES'[i].ttl = TTL
    <3>1. CASE SERVICES'[i].age = 0 /\ SERVICES'[i].ttl = TTL
      BY <2>1, <3>1 DEF FreshEnough
    <3>2. ASSUME NEW j \in 1..Len(SERVICES), SERVICES'[i] = SERVICES[j]
          PROVE  /\ FreshEnough(SERVICES'[i], cleanIn)
                 /\ faults["foreignBeat"] = 0 => SERVICES'[i].ttl = TTL
      BY <3>2, AgesAre
    <3> QED
      BY <1>3, <3>1, <3>2
  <2> QED
    BY <1>1, <1>5, <2>2 DEF AgesOK
<1>9. LiveOK'
  <2>1. /\ TTL \in Nat /\ HEARTBEAT \in Nat /\ MaxDelay \in Nat /\ HEARTBEAT + MaxDelay <= TTL
        /\ \A s \in Service : beatIn[s] \in 0..HEARTBEAT
    BY DirectoryAssumption DEF TypeOK
  <2>2. RefreshedInTime(c.svc, 0)'
    BY <1>2, <1>4, <2>1 DEF RefreshedInTime
  <2>3. \A s, a : RefreshedInTime(s, a) => RefreshedInTime(s, a)'
    BY <1>1, <1>4 DEF RefreshedInTime
  <2>4. Undisturbed => Len(SERVICES) < MAX_SERVICES
    <3>1. <<c.svc, c.run>> \in Open(Service)
      BY <1>1, <1>2, StartsAre DEF Open, Asked, CallsOK
    <3> QED
      BY <3>1, RoomForOne
  <2>5. ASSUME Undisturbed', NEW s \in Service, up'[s], registration'[s] = "registered"
        PROVE  \E i \in 1..Len(SERVICES') : /\ SERVICES'[i].svc = s
                                             /\ \E a : a = SERVICES'[i].age /\ RefreshedInTime(s, a)'
    <3>1. CASE s = c.svc
      BY <1>3, <2>2, <3>1
    <3>2. CASE s # c.svc
      <4>4. PICK j \in 1..Len(SERVICES) : \E x :
                SERVICES[j].svc = s /\ x = SERVICES[j].age /\ RefreshedInTime(s, x)
        BY <1>4, <1>7, <2>5, <3>2 DEF LiveOK
      <4>1. PICK a : SERVICES[j].svc = s /\ a = SERVICES[j].age /\ RefreshedInTime(s, a)
        BY <4>4
      <4>2. PICK i \in 1..Len(SERVICES') : SERVICES'[i] = SERVICES[j]
        BY <1>3, <1>7, <2>4, <2>5
      <4>3. RefreshedInTime(s, a)'
        BY <2>3, <4>1
      <4> QED
        BY <4>1, <4>2, <4>3
    <3> QED
      BY <3>1, <3>2
  <2> QED
    BY <2>5 DEF LiveOK
<1> QED
  BY <1>4, <1>6, <1>7, <1>8, <1>9

\* A heartbeat changes age and ttl, and those of one of the service's entries if it has any.
LEMMA EntryRefreshed ==
    ASSUME TypeOK, NEW s \in Service, NEW ttl \in Nat \cup {NoTTL}, SERVICES' = updateHeartbeat(s, ttl)
    PROVE  /\ SERVICES' \in Seq(Entry) /\ Len(SERVICES') = Len(SERVICES)
           /\ \A i \in 1..Len(SERVICES) :
                  /\ SERVICES'[i].svc = SERVICES[i].svc
                  /\ \/ SERVICES'[i] = SERVICES[i]
                     \/ SERVICES'[i].age = 0 /\ SERVICES'[i].ttl = ttl
                  /\ SERVICES[i].svc # s => SERVICES'[i] = SERVICES[i]
           /\ (\E i \in 1..Len(SERVICES) : SERVICES[i].svc = s) =>
                  \E i \in 1..Len(SERVICES) : SERVICES[i].svc = s /\ SERVICES'[i].age = 0
<1>1. Len(SERVICES) \in Nat
  BY DEF TypeOK
<1>2. SERVICES' = [i \in 1..Len(SERVICES) |-> IF IsFirst(i, s) THEN Refreshed(SERVICES[i], ttl)
                                                             ELSE SERVICES[i]]
  BY DEF updateHeartbeat
<1>3. ASSUME NEW i \in 1..Len(SERVICES)
      PROVE  /\ SERVICES'[i] \in Entry
             /\ SERVICES'[i].svc = SERVICES[i].svc
             /\ IF IsFirst(i, s) THEN SERVICES'[i].age = 0 /\ SERVICES'[i].ttl = ttl ELSE SERVICES'[i] = SERVICES[i]
             /\ SERVICES[i].svc # s => SERVICES'[i] = SERVICES[i]
  <2>1. PICK e \in Entry : e = SERVICES[i]
    BY EntryTypes
  <2>2. /\ Refreshed(e, ttl) \in Entry /\ Refreshed(e, ttl).svc = e.svc
        /\ Refreshed(e, ttl).age = 0 /\ Refreshed(e, ttl).ttl = ttl
    BY DEF Entry, Refreshed
  <2>3. IsFirst(i, s) => SERVICES[i].svc = s
    BY DEF IsFirst
  <2> QED
    BY <1>2, <2>1, <2>2, <2>3
<1>4. SERVICES' \in Seq(Entry) /\ Len(SERVICES') = Len(SERVICES)
  <2> DEFINE Value(i) == IF IsFirst(i, s) THEN Refreshed(SERVICES[i], ttl) ELSE SERVICES[i]
  <2>1. \A i \in 1..Len(SERVICES) : Value(i) \in Entry
    BY <1>2, <1>3
  <2>2. SERVICES' = [i \in 1..Len(SERVICES) |-> Value(i)]
    BY <1>2
  <2> HIDE DEF Value
  <2> QED
    BY <1>1, <2>1, <2>2
<1>5. ASSUME \E i \in 1..Len(SERVICES) : SERVICES[i].svc = s
      PROVE  \E i \in 1..Len(SERVICES) : IsFirst(i, s)
  <2> DEFINE copies == {i \in 1..Len(SERVICES) : SERVICES[i].svc = s}
  <2>1. copies \subseteq Nat /\ copies # {}
    BY <1>5
  <2>2. PICK i \in copies : \A j \in copies : ~(<<j, i>> \in OpToRel(<, Nat))
    BY <2>1, NatLessThanWellFounded, WFMin
  <2>3. \A j \in copies : ~(j < i)
    BY <2>1, <2>2 DEF OpToRel
  <2>4. \A j \in 1..(i - 1) : j \in 1..Len(SERVICES) /\ j < i
    BY <1>1
  <2>5. \A j \in 1..(i - 1) : SERVICES[j].svc # s
    BY <2>3, <2>4
  <2> QED
    BY <2>5 DEF IsFirst
<1>6. \A i \in 1..Len(SERVICES) : IsFirst(i, s) => SERVICES[i].svc = s
  BY DEF IsFirst
<1> QED
  BY <1>3, <1>4, <1>5, <1>6

LEMMA HeartbeatStep ==
    ASSUME DirectoryInv, NEW c \in calls, HandleHeartbeat(c)
    PROVE  DirectoryInv'
<1> USE DEF DirectoryInv
<1>1. /\ dirUp /\ c.op = "heartbeat" /\ SERVICES' = updateHeartbeat(c.svc, TTL)
      /\ CallEnds(c, TRUE)
      /\ UNCHANGED <<dirUp, cleanIn, faults>>
      /\ c.svc \in Service /\ TTL \in Nat \cup {NoTTL}
  BY DirectoryAssumption DEF HandleHeartbeat, TypeOK, Call
<1>2. /\ SERVICES' \in Seq(Entry) /\ Len(SERVICES') = Len(SERVICES)
      /\ \A i \in 1..Len(SERVICES) :
             /\ SERVICES'[i].svc = SERVICES[i].svc
             /\ SERVICES'[i] = SERVICES[i] \/ (SERVICES'[i].age = 0 /\ SERVICES'[i].ttl = TTL)
             /\ SERVICES[i].svc # c.svc => SERVICES'[i] = SERVICES[i]
      /\ (\E i \in 1..Len(SERVICES) : SERVICES[i].svc = c.svc) =>
             \E i \in 1..Len(SERVICES) : SERVICES[i].svc = c.svc /\ SERVICES'[i].age = 0
  BY <1>1, EntryRefreshed
<1>3. /\ CallsOK'
      /\ calls' = calls \ {c} /\ run' = run /\ up' = up /\ beatIn' = beatIn
      /\ registration' = registration
      /\ retryIn' \in [Service -> 0..RETRY]
      /\ \A T \in SUBSET Service : Open(T)' \subseteq Open(T)
  BY <1>1, EndedCalls
<1>4. TypeOK'
  BY <1>1, <1>2, <1>3 DEF TypeOK
<1>5. \A T : CopiesOf(T, SERVICES') = CopiesOf(T, SERVICES)
  BY <1>2, CopiesSame
<1>6. AccountedFor' /\ (Undisturbed' => Undisturbed)
  <2>1. \A T : Cardinality(CopiesOf(T, SERVICES')) <= Cardinality(CopiesOf(T, SERVICES))
    BY <1>5, CopiesFinite DEF TypeOK
  <2>2. \A k \in FaultKind : faults'[k] >= faults[k]
    BY <1>1 DEF TypeOK
  <2> QED
    BY <1>3, <1>4, <2>1, <2>2, NoStart
<1>7. AgesOK'
  <2>1. TTL \in Nat /\ CLEANUP \in Nat /\ cleanIn \in 0..CLEANUP
    BY DirectoryAssumption DEF TypeOK
  <2>2. ASSUME NEW i \in 1..Len(SERVICES)
        PROVE  /\ FreshEnough(SERVICES'[i], cleanIn)
               /\ faults["foreignBeat"] = 0 => SERVICES'[i].ttl = TTL
    <3>1. FreshEnough(SERVICES[i], cleanIn) /\ (faults["foreignBeat"] = 0 => SERVICES[i].ttl = TTL)
      BY AgesAre
    <3>2. CASE SERVICES'[i] = SERVICES[i]
      BY <3>1, <3>2
    <3>3. CASE SERVICES'[i].age = 0 /\ SERVICES'[i].ttl = TTL
      BY <2>1, <3>3 DEF FreshEnough
    <3> QED
      BY <1>2, <3>2, <3>3
  <2> QED
    BY <1>1, <1>2, <2>2 DEF AgesOK
<1>8. LiveOK'
  <2>1. /\ TTL \in Nat /\ HEARTBEAT \in Nat /\ MaxDelay \in Nat /\ HEARTBEAT + MaxDelay <= TTL
        /\ \A s \in Service : beatIn[s] \in 0..HEARTBEAT
    BY DirectoryAssumption DEF TypeOK
  <2>2. RefreshedInTime(c.svc, 0)'
    BY <1>1, <1>3, <2>1 DEF RefreshedInTime
  <2>3. \A s, a : s # c.svc /\ RefreshedInTime(s, a) => RefreshedInTime(s, a)'
    BY <1>3 DEF RefreshedInTime
  <2>4. ASSUME Undisturbed', NEW s \in Service, up'[s], registration'[s] = "registered"
        PROVE  \E i \in 1..Len(SERVICES') : /\ SERVICES'[i].svc = s
                                             /\ \E a : a = SERVICES'[i].age /\ RefreshedInTime(s, a)'
    <3>4. PICK j \in 1..Len(SERVICES) : \E x :
              SERVICES[j].svc = s /\ x = SERVICES[j].age /\ RefreshedInTime(s, x)
      BY <1>3, <1>6, <2>4 DEF LiveOK
    <3>1. PICK a : SERVICES[j].svc = s /\ a = SERVICES[j].age /\ RefreshedInTime(s, a)
      BY <3>4
    <3>2. CASE s = c.svc
      BY <1>2, <2>2, <3>1, <3>2
    <3>3. CASE s # c.svc
      <4>1. RefreshedInTime(s, a)'
        BY <2>3, <3>1, <3>3
      <4> QED
        BY <1>2, <3>1, <3>3, <4>1
    <3> QED
      BY <3>2, <3>3
  <2> QED
    BY <2>4 DEF LiveOK
<1> QED
  BY <1>3, <1>4, <1>6, <1>7, <1>8

\* A step that touches no service, no call and no history
LEMMA DirectoryAlone ==
    ASSUME DirectoryInv, UNCHANGED <<serviceVars, calls>>, TypeOK',
           \A k \in FaultKind : faults'[k] >= faults[k],
           \A T \in SUBSET Service : Cardinality(CopiesOf(T, SERVICES')) <= Cardinality(CopiesOf(T, SERVICES))
    PROVE  CallsOK' /\ AccountedFor' /\ (Undisturbed' => Undisturbed)
<1>1. \A s, n : (Asked(s, n)' <=> Asked(s, n)) /\ (Again(s, n)' <=> Again(s, n))
  BY DEF Asked, Again, serviceVars
<1>2. CallsOK'
  BY <1>1 DEF CallsOK, DirectoryInv, serviceVars
<1>3. \A T \in SUBSET Service : Open(T)' \subseteq Open(T)
  BY <1>1 DEF Open, Starts, serviceVars
<1> QED
  BY <1>2, <1>3, NoStart DEF serviceVars

LEMMA EntriesLeft ==
    ASSUME TypeOK, NEW P \in SUBSET (1..Len(SERVICES)), SERVICES' = ElementsAt(SERVICES, P)
    PROVE  /\ SERVICES' \in Seq(Entry) /\ Len(SERVICES') <= MAX_SERVICES
           /\ \A i \in 1..Len(SERVICES') : \E j \in P : SERVICES'[i] = SERVICES[j]
           /\ \A j \in P : \E i \in 1..Len(SERVICES') : SERVICES'[i] = SERVICES[j]
           /\ \A T : Cardinality(CopiesOf(T, SERVICES')) <= Cardinality(CopiesOf(T, SERVICES))
<1> DEFINE t == ElementsAt(SERVICES, P)
<1>1. /\ SERVICES \in Seq(Entry) /\ Len(SERVICES) \in Nat /\ Len(SERVICES) <= MAX_SERVICES
      /\ MAX_SERVICES \in Nat
  BY DirectoryAssumption DEF TypeOK
<1>2. /\ t \in Seq(Entry) /\ Len(t) = Cardinality(P) /\ Cardinality(P) \in 0..Len(SERVICES)
      /\ \A i \in 1..Cardinality(P) : Nth(P, i) \in P /\ t[i] = SERVICES[Nth(P, i)]
      /\ \A k \in P : \E i \in 1..Cardinality(P) : t[i] = SERVICES[k]
  BY <1>1, ElementsAtKeeps
<1>3. \A T : Cardinality(CopiesOf(T, t)) <= Cardinality(CopiesOf(T, SERVICES))
  BY <1>1, CopiesLeft
<1>4. Len(t) <= MAX_SERVICES
  BY <1>1, <1>2
<1> HIDE DEF t
<1> QED
  BY <1>2, <1>3, <1>4 DEF t

LEMMA CleanupStep ==
    ASSUME DirectoryInv, cleanupExpired
    PROVE  DirectoryInv'
<1> USE DEF DirectoryInv
<1> DEFINE P == {i \in 1..Len(SERVICES) : ~Expired(SERVICES[i])}
<1>1. /\ dirUp /\ SERVICES' = ElementsAt(SERVICES, P) /\ cleanIn' = CLEANUP
      /\ UNCHANGED <<dirUp, serviceVars, calls, faults>>
      /\ TTL \in Nat /\ CLEANUP \in Nat /\ MaxDelay \in Nat
  BY DirectoryAssumption DEF cleanupExpired, Cleaned
<1>2. \A j \in 1..Len(SERVICES) :
          /\ SERVICES[j].age \in Nat /\ SERVICES[j].ttl \in Nat \cup {NoTTL}
          /\ j \in P <=> SERVICES[j].ttl = NoTTL \/ SERVICES[j].age <= SERVICES[j].ttl
  BY <1>1, EntryTypes DEF Expired
<1>3. P \in SUBSET (1..Len(SERVICES))
  OBVIOUS
<1> HIDE DEF P
<1>4. /\ SERVICES' \in Seq(Entry) /\ Len(SERVICES') <= MAX_SERVICES
      /\ \A i \in 1..Len(SERVICES') : \E j \in P : SERVICES'[i] = SERVICES[j]
      /\ \A j \in P : \E i \in 1..Len(SERVICES') : SERVICES'[i] = SERVICES[j]
      /\ \A T : Cardinality(CopiesOf(T, SERVICES')) <= Cardinality(CopiesOf(T, SERVICES))
  BY <1>1, <1>3, EntriesLeft
<1>5. TypeOK'
  BY <1>1, <1>4 DEF TypeOK, serviceVars
<1>6. CallsOK' /\ AccountedFor' /\ (Undisturbed' => Undisturbed)
  <2>1. \A k \in FaultKind : faults'[k] >= faults[k]
    BY <1>1 DEF TypeOK
  <2> QED
    BY <1>1, <1>4, <1>5, <2>1, DirectoryAlone
<1>7. AgesOK'
  <2>1. ASSUME NEW i \in 1..Len(SERVICES')
        PROVE  /\ FreshEnough(SERVICES'[i], CLEANUP)
               /\ faults["foreignBeat"] = 0 => SERVICES'[i].ttl = TTL
    <3>1. PICK j \in P : SERVICES'[i] = SERVICES[j]
      BY <1>4
    <3> QED
      BY <1>1, <1>2, <1>3, <3>1, AgesAre DEF FreshEnough
  <2> QED
    BY <1>1, <2>1 DEF AgesOK
<1>8. LiveOK'
  <2>1. \A s \in Service : beatIn[s] \in Nat
    BY DirectoryAssumption DEF TypeOK
  <2>2. \A c \in calls : c.waited \in Nat /\ c.waited <= MaxDelay
    BY <1>1 DEF TypeOK, Call
  <2>3. \A s \in Service : \A a \in Nat :
            RefreshedInTime(s, a) => a <= TTL /\ RefreshedInTime(s, a)'
    BY <1>1, <2>1, <2>2 DEF RefreshedInTime, serviceVars
  <2>5. Undisturbed => faults["foreignBeat"] = 0
    <3>1. \A x, y, z, w \in Nat : x + y + z + w = 0 => w = 0
      OBVIOUS
    <3> QED
      BY <3>1 DEF Undisturbed, TypeOK, FaultKind
  <2>4. ASSUME Undisturbed', NEW s \in Service, up'[s], registration'[s] = "registered"
        PROVE  \E i \in 1..Len(SERVICES') : /\ SERVICES'[i].svc = s
                                             /\ \E a : a = SERVICES'[i].age /\ RefreshedInTime(s, a)'
    <3>1. PICK j \in 1..Len(SERVICES) : SERVICES[j].svc = s /\ RefreshedInTime(s, SERVICES[j].age)
      BY <1>1, <1>6, <2>4 DEF LiveOK, serviceVars
    <3>2. PICK a \in Nat : a = SERVICES[j].age
      BY <1>2
    <3>3. a <= SERVICES[j].ttl /\ RefreshedInTime(s, a)'
      BY <1>1, <1>6, <2>3, <2>4, <2>5, <3>1, <3>2, AgesAre
    <3>4. PICK i \in 1..Len(SERVICES') : SERVICES'[i] = SERVICES[j]
      BY <1>2, <1>4, <3>2, <3>3
    <3> QED
      BY <3>1, <3>2, <3>3, <3>4
  <2> QED
    BY <2>4 DEF LiveOK
<1> QED
  BY <1>5, <1>6, <1>7, <1>8

\* Once an entry was deleted or beaten for by someone else, a call lost or the
\* directory stopped, nothing is said of the services that are listed.
LEMMA Disturbed ==
    ASSUME TypeOK, NEW kind \in {"directoryStop", "lostCall", "delete", "foreignBeat"}, Fails(kind)
    PROVE  ~Undisturbed' /\ faults' \in [FaultKind -> Nat] /\ \A k \in FaultKind : faults'[k] >= faults[k]
<1>1. {"directoryStop", "lostCall", "delete", "foreignBeat"} \subseteq FaultKind
  BY DEF FaultKind
<1>2. /\ faults' \in [FaultKind -> Nat] /\ faults[kind] \in Nat /\ faults'[kind] = faults[kind] + 1
      /\ \A k \in FaultKind : faults'[k] >= faults[k]
  BY <1>1, FailsMore DEF TypeOK
<1>3. \A x, y, z, w \in Nat : x + y + z + w = 0 => x = 0 /\ y = 0 /\ z = 0 /\ w = 0
  OBVIOUS
<1>4. /\ faults'["directoryStop"] \in Nat /\ faults'["lostCall"] \in Nat
      /\ faults'["delete"] \in Nat /\ faults'["foreignBeat"] \in Nat
  BY <1>1, <1>2
<1>5. Undisturbed' => faults'[kind] = 0
  <2> SUFFICES ASSUME Undisturbed' PROVE faults'[kind] = 0
    OBVIOUS
  <2>1. faults'["directoryStop"] + faults'["lostCall"] + faults'["delete"] + faults'["foreignBeat"] = 0
    BY DEF Undisturbed
  <2>2. \A k \in {"directoryStop", "lostCall", "delete", "foreignBeat"} : faults'[k] = 0
    BY <1>3, <1>4, <2>1
  <2> QED
    BY <2>2
<1> QED
  BY <1>2, <1>5

LEMMA RemoveStep ==
    ASSUME DirectoryInv, NEW i \in 1..Len(SERVICES), removeService(i)
    PROVE  DirectoryInv'
<1> USE DEF DirectoryInv
<1> DEFINE P == (1..Len(SERVICES)) \ {i}
<1>1. /\ dirUp /\ SERVICES' = ElementsAt(SERVICES, P) /\ Fails("delete")
      /\ UNCHANGED <<dirUp, cleanIn, serviceVars, calls>>
  BY DEF removeService
<1>2. P \in SUBSET (1..Len(SERVICES))
  OBVIOUS
<1> HIDE DEF P
<1>3. /\ SERVICES' \in Seq(Entry) /\ Len(SERVICES') <= MAX_SERVICES
      /\ \A k \in 1..Len(SERVICES') : \E j \in P : SERVICES'[k] = SERVICES[j]
      /\ \A T : Cardinality(CopiesOf(T, SERVICES')) <= Cardinality(CopiesOf(T, SERVICES))
  BY <1>1, <1>2, EntriesLeft
<1>4. ~Undisturbed' /\ faults' \in [FaultKind -> Nat] /\ \A k \in FaultKind : faults'[k] >= faults[k]
  BY <1>1, Disturbed
<1>5. TypeOK'
  BY <1>1, <1>3, <1>4 DEF TypeOK, serviceVars
<1>6. CallsOK' /\ AccountedFor'
  BY <1>1, <1>3, <1>4, <1>5, DirectoryAlone
<1>7. AgesOK'
  BY <1>1, <1>2, <1>3, <1>4, FaultsMore DEF AgesOK
<1> QED
  BY <1>4, <1>5, <1>6, <1>7 DEF LiveOK

LEMMA ForeignBeatStep ==
    ASSUME DirectoryInv, NEW s \in Service, NEW ttl \in ForeignTTL, ForeignBeat(s, ttl)
    PROVE  DirectoryInv'
<1> USE DEF DirectoryInv
<1>1. /\ dirUp /\ SERVICES' = updateHeartbeat(s, ttl) /\ Fails("foreignBeat")
      /\ UNCHANGED <<dirUp, cleanIn, serviceVars, calls>>
      /\ ttl \in Nat \cup {NoTTL} /\ CLEANUP \in Nat /\ cleanIn \in 0..CLEANUP
  BY DirectoryAssumption DEF ForeignBeat, TypeOK
<1>2. /\ SERVICES' \in Seq(Entry) /\ Len(SERVICES') = Len(SERVICES)
      /\ \A i \in 1..Len(SERVICES) :
             /\ SERVICES'[i].svc = SERVICES[i].svc
             /\ SERVICES'[i] = SERVICES[i] \/ (SERVICES'[i].age = 0 /\ SERVICES'[i].ttl = ttl)
  BY <1>1, EntryRefreshed
<1>3. /\ ~Undisturbed' /\ faults' \in [FaultKind -> Nat] /\ \A k \in FaultKind : faults'[k] >= faults[k]
      /\ faults'["foreignBeat"] # 0
  <2>1. "foreignBeat" \in FaultKind
    BY DEF FaultKind
  <2>2. faults'["foreignBeat"] = faults["foreignBeat"] + 1 /\ faults["foreignBeat"] \in Nat
    BY <1>1, <2>1, FailsMore DEF TypeOK
  <2> QED
    BY <1>1, <2>2, Disturbed
<1>4. TypeOK'
  BY <1>1, <1>2, <1>3 DEF TypeOK, serviceVars
<1>5. CallsOK' /\ AccountedFor'
  <2>1. \A T : CopiesOf(T, SERVICES') = CopiesOf(T, SERVICES)
    BY <1>2, CopiesSame
  <2>2. \A T : Cardinality(CopiesOf(T, SERVICES')) <= Cardinality(CopiesOf(T, SERVICES))
    BY <2>1, CopiesFinite DEF TypeOK
  <2> QED
    BY <1>1, <1>3, <1>4, <2>2, DirectoryAlone
<1>6. AgesOK'
  <2>1. ASSUME NEW i \in 1..Len(SERVICES)
        PROVE  FreshEnough(SERVICES'[i], cleanIn)
    <3>1. CASE SERVICES'[i] = SERVICES[i]
      BY <3>1, AgesAre
    <3>2. CASE SERVICES'[i].age = 0 /\ SERVICES'[i].ttl = ttl
      BY <1>1, <3>2 DEF FreshEnough
    <3> QED
      BY <1>2, <3>1, <3>2
  <2> QED
    BY <1>1, <1>2, <1>3, <2>1 DEF AgesOK
<1> QED
  BY <1>3, <1>4, <1>5, <1>6 DEF LiveOK

LEMMA StartDirectoryStep ==
    ASSUME DirectoryInv, StartDirectory
    PROVE  DirectoryInv'
<1> USE DEF DirectoryInv
<1>1. /\ SERVICES = <<>> /\ SERVICES' = SERVICES /\ dirUp' = TRUE /\ cleanIn' = CLEANUP
      /\ UNCHANGED <<serviceVars, calls, faults>> /\ CLEANUP \in Nat
  BY DirectoryAssumption DEF StartDirectory, AgesOK
<1>2. TypeOK'
  BY <1>1 DEF TypeOK, serviceVars
<1>3. CallsOK' /\ AccountedFor' /\ (Undisturbed' => Undisturbed)
  <2>1. \A k \in FaultKind : faults'[k] >= faults[k]
    BY <1>1 DEF TypeOK
  <2>2. \A T : Cardinality(CopiesOf(T, SERVICES)) \in Nat
    BY CopiesFinite DEF TypeOK
  <2>3. \A n \in Nat : n <= n
    OBVIOUS
  <2>4. \A T : Cardinality(CopiesOf(T, SERVICES')) <= Cardinality(CopiesOf(T, SERVICES))
    BY <1>1, <2>2, <2>3
  <2> QED
    BY <1>1, <1>2, <2>1, <2>4, DirectoryAlone
<1>4. AgesOK'
  BY <1>1 DEF AgesOK
<1>5. LiveOK'
  <2>1. ~(Undisturbed /\ \E s \in Service : up[s] /\ registration[s] = "registered")
    BY <1>1 DEF LiveOK
  <2> QED
    BY <1>1, <1>3, <2>1 DEF LiveOK, serviceVars
<1> QED
  BY <1>2, <1>3, <1>4, <1>5

LEMMA StopDirectoryStep ==
    ASSUME DirectoryInv, StopDirectory
    PROVE  DirectoryInv'
<1> USE DEF DirectoryInv
<1>1. /\ SERVICES' = <<>> /\ dirUp' = FALSE /\ Fails("directoryStop")
      /\ UNCHANGED <<cleanIn, serviceVars, calls>>
      /\ MAX_SERVICES \in Nat
  BY DirectoryAssumption DEF StopDirectory
<1>2. ~Undisturbed' /\ faults' \in [FaultKind -> Nat] /\ \A k \in FaultKind : faults'[k] >= faults[k]
  BY <1>1, Disturbed
<1>3. TypeOK'
  <2>1. SERVICES' \in Seq(Entry) /\ Len(SERVICES') <= MAX_SERVICES
    BY <1>1
  <2> QED
    BY <1>1, <1>2, <2>1 DEF TypeOK, serviceVars
<1>4. CallsOK' /\ AccountedFor'
  <2>1. \A T : CopiesOf(T, SERVICES') = {} /\ Cardinality(CopiesOf(T, SERVICES')) = 0
    BY <1>1, FS_EmptySet DEF CopiesOf
  <2>2. \A T : Cardinality(CopiesOf(T, SERVICES)) \in Nat
    BY CopiesFinite DEF TypeOK
  <2>3. \A T : Cardinality(CopiesOf(T, SERVICES')) <= Cardinality(CopiesOf(T, SERVICES))
    BY <2>1, <2>2
  <2> QED
    BY <1>1, <1>2, <1>3, <2>3, DirectoryAlone
<1>5. AgesOK'
  BY <1>1 DEF AgesOK
<1> QED
  BY <1>2, <1>3, <1>4, <1>5 DEF LiveOK

-----------------------------------------------------------------------------
\* Calls that fail, and time

LEMMA FailedCallStep ==
    ASSUME DirectoryInv, NEW c \in calls, Refused(c) \/ LoseCall(c)
    PROVE  DirectoryInv'
<1> USE DEF DirectoryInv
<1>1. CallEnds(c, FALSE) /\ UNCHANGED <<SERVICES, dirUp, cleanIn>>
  BY DEF Refused, LoseCall, directoryVars
<1>2. /\ CallsOK'
      /\ calls' = calls \ {c} /\ run' = run /\ up' = up /\ beatIn' = beatIn
      /\ registration' \in [Service -> {"none", "calling", "waiting", "registered"}]
      /\ retryIn' \in [Service -> 0..RETRY]
      /\ \A s \in Service : registration'[s] = "registered" => registration[s] = "registered"
      /\ \A T \in SUBSET Service : Open(T)' \subseteq Open(T)
  BY <1>1, EndedCalls
<1>3. /\ faults' \in [FaultKind -> Nat] /\ \A k \in FaultKind : faults'[k] >= faults[k]
      /\ (~dirUp /\ faults' = faults) \/ ~Undisturbed'
  <2>1. CASE Refused(c)
    BY <2>1 DEF Refused, TypeOK
  <2>2. CASE LoseCall(c)
    BY <2>2, Disturbed DEF LoseCall
  <2> QED
    BY <2>1, <2>2
<1>4. TypeOK'
  BY <1>1, <1>2, <1>3 DEF TypeOK
<1>5. AccountedFor' /\ (Undisturbed' => Undisturbed)
  <2>1. \A T : Cardinality(CopiesOf(T, SERVICES')) <= Cardinality(CopiesOf(T, SERVICES))
    BY <1>1, CopiesFinite DEF TypeOK
  <2> QED
    BY <1>2, <1>3, <1>4, <2>1, NoStart
<1>6. AgesOK'
  BY <1>1, <1>3, FaultsMore DEF AgesOK
<1>7. LiveOK'
  <2>1. Undisturbed' => SERVICES = <<>>
    BY <1>3 DEF AgesOK
  <2>2. Undisturbed' => ~\E s \in Service : up[s] /\ registration[s] = "registered"
    BY <1>5, <2>1 DEF LiveOK
  <2> QED
    BY <1>2, <2>2 DEF LiveOK
<1> QED
  BY <1>2, <1>4, <1>5, <1>6, <1>7

LEMMA TickStep ==
    ASSUME DirectoryInv, Tick
    PROVE  DirectoryInv'
<1> USE DEF DirectoryInv
<1>1. /\ ~Due
      /\ SERVICES' = [i \in 1..Len(SERVICES) |-> Older(SERVICES[i])]
      /\ cleanIn' = IF dirUp THEN Down(cleanIn) ELSE cleanIn
      /\ retryIn' = [s \in Service |-> Down(retryIn[s])]
      /\ beatIn' = [s \in Service |-> Down(beatIn[s])]
      /\ calls' = {[c EXCEPT !.waited = @ + 1] : c \in calls}
      /\ UNCHANGED <<dirUp, run, up, registration, faults>>
  BY DEF Tick
<1>2. /\ TTL \in Nat /\ HEARTBEAT \in Nat /\ CLEANUP \in Nat /\ RETRY \in Nat /\ MaxDelay \in Nat
  BY DirectoryAssumption
<1>3. /\ dirUp => cleanIn # 0
      /\ \A s \in Service : up[s] => beatIn[s] # 0
      /\ \A c \in calls : c.waited # MaxDelay
  BY <1>1 DEF Due
<1>4. \A n \in Nat : Down(n) \in Nat /\ Down(n) <= n /\ (n # 0 => Down(n) = n - 1)
  BY DEF Down
<1>5. ASSUME NEW c \in calls
      PROVE  /\ [c EXCEPT !.waited = @ + 1] \in Call
             /\ [c EXCEPT !.waited = @ + 1] = [op |-> c.op, svc |-> c.svc, run |-> c.run, waited |-> c.waited + 1]
             /\ c = [op |-> c.op, svc |-> c.svc, run |-> c.run, waited |-> c.waited]
             /\ c.waited \in Nat
  <2>1. c \in Call /\ c.waited \in 0..MaxDelay /\ c.waited # MaxDelay
    BY <1>3 DEF TypeOK, Call
  <2>2. c.waited + 1 \in 0..MaxDelay
    BY <1>2, <2>1
  <2> QED
    BY <1>2, <2>1, <2>2 DEF Call
<1>6. /\ \A d \in calls' : \E c \in calls : d.op = c.op /\ d.svc = c.svc /\ d.run = c.run
      /\ \A c \in calls : \E d \in calls' :
             d.op = c.op /\ d.svc = c.svc /\ d.run = c.run /\ d.waited = c.waited + 1
  <2>1. \A c \in calls : LET d == [c EXCEPT !.waited = @ + 1] IN
            d \in calls' /\ d.op = c.op /\ d.svc = c.svc /\ d.run = c.run /\ d.waited = c.waited + 1
    BY <1>1, <1>5
  <2>2. \A d \in calls' : \E c \in calls : d = [c EXCEPT !.waited = @ + 1]
    BY <1>1
  <2> QED
    BY <2>1, <2>2
<1>7. ASSUME NEW i \in 1..Len(SERVICES)
      PROVE  /\ SERVICES'[i] \in Entry /\ SERVICES'[i].svc = SERVICES[i].svc
             /\ SERVICES'[i].age \in {SERVICES[i].age, SERVICES[i].age + 1}
             /\ SERVICES'[i].ttl = SERVICES[i].ttl
  <2>1. PICK e \in Entry : e = SERVICES[i]
    BY EntryTypes
  <2>2. PICK a \in {e.age, e.age + 1} : SERVICES'[i] = [e EXCEPT !.age = a]
    <3>1. [e EXCEPT !.age = e.age] = e
      BY DEF Entry
    <3> QED
      BY <1>1, <2>1, <3>1 DEF Older
  <2>3. a \in Nat
    BY <2>2 DEF Entry
  <2>4. /\ [e EXCEPT !.age = a] \in Entry /\ [e EXCEPT !.age = a].svc = e.svc
        /\ [e EXCEPT !.age = a].age = a /\ [e EXCEPT !.age = a].ttl = e.ttl
    BY <2>3 DEF Entry
  <2> QED
    BY <2>1, <2>2, <2>4
<1>8. SERVICES' \in Seq(Entry) /\ Len(SERVICES') = Len(SERVICES)
  <2> DEFINE Value(i) == Older(SERVICES[i])
  <2>1. \A i \in 1..Len(SERVICES) : Value(i) \in Entry
    BY <1>1, <1>7
  <2>2. SERVICES' = [i \in 1..Len(SERVICES) |-> Value(i)] /\ Len(SERVICES) \in Nat
    BY <1>1 DEF TypeOK
  <2> HIDE DEF Value
  <2> QED
    BY <2>1, <2>2
<1>9. TypeOK'
  <2>1. calls' \subseteq Call
    BY <1>1, <1>5
  <2>2. retryIn' \in [Service -> 0..RETRY]
    BY <1>1, <1>2, <1>4 DEF TypeOK
  <2>3. beatIn' \in [Service -> 0..HEARTBEAT]
    BY <1>1, <1>2, <1>4 DEF TypeOK
  <2>4. cleanIn' \in 0..CLEANUP
    BY <1>1, <1>2, <1>4 DEF TypeOK
  <2> QED
    BY <1>1, <1>8, <2>1, <2>2, <2>3, <2>4 DEF TypeOK
<1>10. \A s, n : (Asked(s, n)' <=> Asked(s, n)) /\ (Again(s, n)' <=> Again(s, n))
  <2>1. ASSUME NEW s, NEW n
        PROVE  Asked(s, n)' <=> Asked(s, n)
    <3>1. Asked(s, n)' => Asked(s, n)
      BY <1>6 DEF Asked
    <3>2. Asked(s, n) => Asked(s, n)'
      BY <1>6 DEF Asked
    <3> QED
      BY <3>1, <3>2
  <2>2. \A s, n : Again(s, n)' <=> Again(s, n)
    BY <1>1 DEF Again
  <2> QED
    BY <2>1, <2>2
<1>11. CallsOK'
  <2>1. \A d \in calls' : d.run \in 1..run'[d.svc]
    BY <1>1, <1>6 DEF CallsOK
  <2>2. ASSUME NEW d \in calls', NEW e \in calls', d.op = "register", e.op = "register",
               d.svc = e.svc, d.run = e.run
        PROVE  d = e
    <3>1. PICK b \in calls : d = [b EXCEPT !.waited = @ + 1]
      BY <1>1
    <3>2. PICK c \in calls : e = [c EXCEPT !.waited = @ + 1]
      BY <1>1
    <3>3. b.op = "register" /\ c.op = "register" /\ b.svc = c.svc /\ b.run = c.run
      BY <1>5, <2>2, <3>1, <3>2
    <3> QED
      BY <3>1, <3>2, <3>3 DEF CallsOK
  <2> QED
    BY <1>1, <1>10, <2>1, <2>2 DEF CallsOK
<1>12. AccountedFor' /\ (Undisturbed' => Undisturbed)
  <2>1. \A T : CopiesOf(T, SERVICES') = CopiesOf(T, SERVICES)
    BY <1>7, <1>8, CopiesSame
  <2>2. \A T : Cardinality(CopiesOf(T, SERVICES')) <= Cardinality(CopiesOf(T, SERVICES))
    BY <2>1, CopiesFinite DEF TypeOK
  <2>3. \A T \in SUBSET Service : Open(T)' \subseteq Open(T)
    BY <1>1, <1>10 DEF Open, Starts
  <2>4. \A k \in FaultKind : faults'[k] >= faults[k]
    BY <1>1 DEF TypeOK
  <2> QED
    BY <1>1, <1>9, <2>2, <2>3, <2>4, NoStart
<1>13. AgesOK'
  <2>1. ASSUME NEW i \in 1..Len(SERVICES)
        PROVE  /\ FreshEnough(SERVICES'[i], cleanIn')
               /\ faults["foreignBeat"] = 0 => SERVICES'[i].ttl = TTL
    <3>1. /\ dirUp /\ FreshEnough(SERVICES[i], cleanIn)
          /\ faults["foreignBeat"] = 0 => SERVICES[i].ttl = TTL
      BY AgesAre DEF AgesOK
    <3>2. cleanIn' = cleanIn - 1 /\ cleanIn \in Nat
      BY <1>1, <1>2, <1>3, <1>4, <3>1 DEF TypeOK
    <3>3. SERVICES[i].age \in Nat /\ SERVICES[i].ttl \in Nat \cup {NoTTL}
      BY EntryTypes
    <3>4. \A m, n, b, l \in Nat : b \in {m, m + 1} /\ m + n <= l + CLEANUP /\ n # 0
                                  => b + (n - 1) <= l + CLEANUP
      BY <1>2
    <3>5. SERVICES'[i].age \in {SERVICES[i].age, SERVICES[i].age + 1} /\ SERVICES'[i].age \in Nat
      BY <1>7, <3>3
    <3> QED
      BY <1>3, <1>7, <3>1, <3>2, <3>3, <3>4, <3>5 DEF FreshEnough
  <2>2. ~dirUp' => SERVICES' = <<>>
    BY <1>1, <1>8 DEF AgesOK
  <2> QED
    BY <1>1, <1>8, <2>1, <2>2 DEF AgesOK
<1>14. LiveOK'
  <2>1. ASSUME NEW s \in Service, up[s], NEW a \in Nat, RefreshedInTime(s, a)
        PROVE  RefreshedInTime(s, a)' /\ RefreshedInTime(s, a + 1)'
    <3>1. CASE a + beatIn[s] + MaxDelay <= TTL
      <4>1. beatIn'[s] = beatIn[s] - 1 /\ beatIn[s] \in Nat
        BY <1>1, <1>2, <1>3, <1>4, <2>1 DEF TypeOK
      <4>2. a + beatIn'[s] + MaxDelay <= TTL /\ (a + 1) + beatIn'[s] + MaxDelay <= TTL
        BY <1>2, <3>1, <4>1
      <4> QED
        BY <4>2 DEF RefreshedInTime
    <3>2. ASSUME NEW c \in calls, c.op = "heartbeat", c.svc = s, a + MaxDelay <= TTL + c.waited
          PROVE  RefreshedInTime(s, a)' /\ RefreshedInTime(s, a + 1)'
      <4>1. PICK d \in calls' : d.op = c.op /\ d.svc = c.svc /\ d.waited = c.waited + 1
        BY <1>6
      <4>2. a + MaxDelay <= TTL + d.waited /\ (a + 1) + MaxDelay <= TTL + d.waited
        <5>1. \A m, n \in Nat : m + MaxDelay <= TTL + n
                                 => m + MaxDelay <= TTL + (n + 1) /\ (m + 1) + MaxDelay <= TTL + (n + 1)
          BY <1>2
        <5>2. c.waited \in Nat
          BY <1>5
        <5> QED
          BY <3>2, <4>1, <5>1, <5>2
      <4> QED
        BY <3>2, <4>1, <4>2 DEF RefreshedInTime
    <3> QED
      BY <2>1, <3>1, <3>2 DEF RefreshedInTime
  <2>2. ASSUME Undisturbed', NEW s \in Service, up'[s], registration'[s] = "registered"
        PROVE  \E i \in 1..Len(SERVICES') : /\ SERVICES'[i].svc = s
                                             /\ \E a : a = SERVICES'[i].age /\ RefreshedInTime(s, a)'
    <3>1. PICK j \in 1..Len(SERVICES) : SERVICES[j].svc = s /\ RefreshedInTime(s, SERVICES[j].age)
      BY <1>1, <1>12, <2>2 DEF LiveOK
    <3>2. PICK a \in Nat : a = SERVICES[j].age
      BY EntryTypes
    <3>3. RefreshedInTime(s, a)' /\ RefreshedInTime(s, a + 1)'
      BY <1>1, <2>1, <2>2, <3>1, <3>2
    <3>4. SERVICES'[j].age \in {a, a + 1}
      BY <1>7, <3>2
    <3> QED
      BY <1>7, <1>8, <3>1, <3>3, <3>4
  <2> QED
    BY <2>2 DEF LiveOK
<1> QED
  BY <1>9, <1>11, <1>12, <1>13, <1>14

-----------------------------------------------------------------------------
LEMMA DirectoryStarts == Init => DirectoryInv
<1> SUFFICES ASSUME Init PROVE DirectoryInv
  OBVIOUS
<1>1. TypeOK
  <2>1. SERVICES \in Seq(Entry) /\ Len(SERVICES) = 0
    BY DEF Init
  <2>2. /\ CLEANUP \in 0..CLEANUP /\ 0 \in 0..RETRY /\ 0 \in 0..HEARTBEAT /\ 0 <= MAX_SERVICES
    BY DirectoryAssumption
  <2> QED
    BY <2>1, <2>2 DEF Init, TypeOK
<1>2. CallsOK
  BY DEF Init, CallsOK
<1>3. \A T \in SUBSET Service : Starts(T) = {} /\ Open(T) = {} /\ CopiesOf(T, SERVICES) = {}
  BY DEF Init, Starts, Open, CopiesOf
<1>4. AccountedFor
  <2>1. faults["lostReply"] = 0 /\ Service \in SUBSET Service /\ 0 + 0 <= 0 + 0
    BY DEF Init, FaultKind
  <2> QED
    BY <1>3, <2>1, FS_EmptySet DEF AccountedFor
<1>5. AgesOK /\ LiveOK
  BY DEF Init, AgesOK, LiveOK
<1> QED
  BY <1>1, <1>2, <1>4, <1>5 DEF DirectoryInv

LEMMA DirectorySteps == DirectoryInv /\ [Next]_vars => DirectoryInv'
<1> SUFFICES ASSUME DirectoryInv, [Next]_vars PROVE DirectoryInv'
  OBVIOUS
<1>1. CASE UNCHANGED vars
  <2> USE <1>1 DEF vars, directoryVars, serviceVars, DirectoryInv
  <2>1. TypeOK' /\ AgesOK'
    BY DEF TypeOK, AgesOK
  <2>2. CallsOK'
    BY DEF CallsOK, Asked
  <2>3. AccountedFor'
    BY DEF AccountedFor, Open, Asked, Again, Starts
  <2>4. LiveOK'
    BY DEF LiveOK, Undisturbed, Registrations, Starts, RefreshedInTime
  <2> QED
    BY <2>1, <2>2, <2>3, <2>4
<1>2. ASSUME NEW c \in calls, Deliver(c) \/ LoseCall(c) \/ LoseReply(c)
      PROVE  DirectoryInv'
  BY <1>2, RegisterStep, HeartbeatStep, FailedCallStep DEF Deliver
<1>3. ASSUME NEW s \in Service, Start(s) \/ Stop(s) \/ Attempt(s) \/ Beat(s)
      PROVE  DirectoryInv'
  BY <1>3, StartStep, StopStep, AttemptStep, BeatStep
<1> QED
  BY <1>1, <1>2, <1>3, CleanupStep, RemoveStep, ForeignBeatStep, StartDirectoryStep, StopDirectoryStep, TickStep DEF Next

\* Everything in the registry, the clients and on the way between them keeps its type.
THEOREM DirectoryTypeCorrect == Spec => []TypeOK
<1>1. DirectoryInv => TypeOK
  BY DEF DirectoryInv
<1> QED
  BY <1>1, DirectoryStarts, DirectorySteps, PTL DEF Spec

\* An entry is removed by the round of cleanup that follows its expiry: none gets
\* older than the ttl that came with the last beat for it, whoever sent that, and
\* a round, and none older than the clients' ttl and a round unless someone else
\* beat (services/directory/index.js:37-61).
THEOREM StaleEntriesGo == Spec => []NothingStaleListed
<1>1. DirectoryInv => NothingStaleListed
  <2> SUFFICES ASSUME DirectoryInv, NEW i \in 1..Len(SERVICES)
               PROVE  /\ SERVICES[i].ttl # NoTTL => SERVICES[i].age <= SERVICES[i].ttl + CLEANUP
                      /\ faults["foreignBeat"] = 0 => SERVICES[i].age <= TTL + CLEANUP
    BY DEF NothingStaleListed
  <2>1. /\ cleanIn \in 0..CLEANUP /\ CLEANUP \in Nat /\ TTL \in Nat /\ TTL # NoTTL
        /\ SERVICES[i].age \in Nat /\ SERVICES[i].ttl \in Nat \cup {NoTTL}
    BY EntryTypes, DirectoryAssumption DEF DirectoryInv, TypeOK
  <2>2. /\ FreshEnough(SERVICES[i], cleanIn)
        /\ faults["foreignBeat"] = 0 => SERVICES[i].ttl = TTL
    BY AgesAre DEF DirectoryInv
  <2> QED
    BY <2>1, <2>2 DEF FreshEnough
<1> QED
  BY <1>1, DirectoryStarts, DirectorySteps, PTL DEF Spec

\* A client that runs and is registered stays listed, unless the directory
\* stopped, a call was lost, somebody else deleted it or beat for it, or the
\* registry ran over
\* (updateHeartbeat and cleanupExpired of services/directory, lib/nz-lib.js).
THEOREM LiveServicesAreListed == Spec => []LiveServiceStaysListed
<1>1. DirectoryInv => LiveServiceStaysListed
  <2> SUFFICES ASSUME DirectoryInv, Undisturbed, NEW s \in Service, up[s], registration[s] = "registered"
               PROVE  Listed(s)
    BY DEF LiveServiceStaysListed, Undisturbed
  <2>1. \E i \in 1..Len(SERVICES) : SERVICES[i].svc = s
    BY DEF DirectoryInv, LiveOK
  <2> QED
    BY <2>1 DEF Listed, Copies
<1> QED
  BY <1>1, DirectoryStarts, DirectorySteps, PTL DEF Spec

\* The client half registers once for each start, and once more for each
\* answer that was lost (lib/nz-lib.js:12-31).
THEOREM CopiesHaveACause == Spec => []NoCopyWithoutCause
<1>1. DirectoryInv => NoCopyWithoutCause
  <2> SUFFICES ASSUME DirectoryInv, NEW s \in Service
               PROVE  Cardinality(Copies(s)) <= run[s] + faults["lostReply"]
    BY DEF NoCopyWithoutCause
  <2>1. Cardinality(CopiesOf({s}, SERVICES)) + Cardinality(Open({s})) <= Cardinality(Starts({s})) + faults["lostReply"]
    BY DEF DirectoryInv, AccountedFor
  <2>2. Copies(s) = CopiesOf({s}, SERVICES)
    BY DEF Copies, CopiesOf
  <2>3. Cardinality(Starts({s})) <= run[s] /\ Cardinality(Starts({s})) \in Nat /\ run[s] \in Nat
    <3>1. IsFiniteSet(1..run[s]) /\ Cardinality(1..run[s]) = run[s] /\ run[s] \in Nat
      BY FS_Interval DEF DirectoryInv, TypeOK
    <3>2. [x \in Starts({s}) |-> x[2]] \in [Starts({s}) -> 1..run[s]]
      BY StartsAre
    <3>3. \A x, y \in Starts({s}) : x[2] = y[2] => x = y
      BY StartsAre
    <3> QED
      BY <3>1, <3>2, <3>3, Counted
  <2>4. /\ Cardinality(Copies(s)) \in Nat /\ Cardinality(Open({s})) \in Nat /\ faults["lostReply"] \in Nat
    BY <2>2, CopiesFinite, StartsFinite DEF DirectoryInv, TypeOK, FaultKind
  <2> QED
    BY <2>1, <2>2, <2>3, <2>4
<1> QED
  BY <1>1, DirectoryStarts, DirectorySteps, PTL DEF Spec

=============================================================================

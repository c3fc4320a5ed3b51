------------------------------ MODULE Directory ------------------------------
(***************************************************************************)
(* The service registry (services/directory) and its clients, the services *)
(* that start both halves of lib/nz-lib.js: autoRegister, which repeats    *)
(* its call until one is answered, and startHeartbeat, which beats at once *)
(* and then every ttl/2 and looks at no answer.  A service stands for its  *)
(* (role, url) pair.  Who calls the registry without the library is no     *)
(* client here (discovery registers once and never beats, see TrustStore); *)
(* a beat that anyone else sends in a client's name, with the ttl he likes,*)
(* is ForeignBeat.                                                         *)
(*                                                                         *)
(* Time is counted in ticks.  Where the code keeps a timestamp and compares*)
(* it with Date.now(), the model keeps the age of the entry; timers are    *)
(* countdowns, fire when they are due, and may be overtaken by anything    *)
(* else that is due in the same tick.  A call takes at most MaxDelay ticks *)
(* to reach the directory, or fails.                                       *)
(***************************************************************************)
EXTENDS BoundedBuffer

CONSTANTS Service,
          TTL,            \* 10000 ms, given to new entries, and sent by every client
          ForeignTTL,     \* what others send for a ttl
          NoTTL,          \* a ttl that is missing or no number: nothing is greater
          HEARTBEAT,      \* Math.floor(ttlMs / 2)
          CLEANUP,        \* 5000 ms
          RETRY,          \* 2000 ms
          MAX_SERVICES,   \* 200
          MaxDelay,       \* model bound: ticks a call may be on its way
          MaxFaults       \* model bound: stops, lost messages, deletions, foreign beats

ASSUME DirectoryAssumption ==
    /\ {TTL, HEARTBEAT, CLEANUP, RETRY, MAX_SERVICES} \subseteq Nat \ {0}
    /\ HEARTBEAT = TTL \div 2
    /\ NoTTL \notin Nat /\ ForeignTTL \subseteq Nat \cup {NoTTL}
    /\ MaxDelay \in Nat /\ MaxDelay < HEARTBEAT
    /\ MaxFaults \in Nat

VARIABLES
    SERVICES,      \* directory: the entries, oldest first
    dirUp,         \* directory: the process runs
    cleanIn,       \* directory: ticks until cleanupExpired
    run,           \* service: how often it was started
    up,            \* service: the process runs
    registration,  \* service: where autoRegister is
    retryIn,       \* service: ticks until the next attempt
    beatIn,        \* service: ticks until the next beat
    calls,         \* on their way to the directory
    faults         \* history: what went wrong, by kind

directoryVars == <<SERVICES, dirUp, cleanIn>>
serviceVars == <<run, up, registration, retryIn, beatIn>>
vars == <<directoryVars, serviceVars, calls, faults>>

FaultKind == {"directoryStop", "serviceStop", "lostCall", "lostReply", "delete", "foreignBeat"}
Faults == faults["directoryStop"] + faults["serviceStop"] + faults["lostCall"]
            + faults["lostReply"] + faults["delete"] + faults["foreignBeat"]

Entry == [svc : Service, age : Nat, ttl : Nat \cup {NoTTL}]
Call == [op : {"register", "heartbeat"}, svc : Service, run : Nat, waited : 0..MaxDelay]

TypeOK ==
    /\ SERVICES \in Seq(Entry) /\ Len(SERVICES) <= MAX_SERVICES
    /\ dirUp \in BOOLEAN /\ cleanIn \in 0..CLEANUP
    /\ run \in [Service -> Nat] /\ up \in [Service -> BOOLEAN]
    /\ registration \in [Service -> {"none", "calling", "waiting", "registered"}]
    /\ retryIn \in [Service -> 0..RETRY] /\ beatIn \in [Service -> 0..HEARTBEAT]
    /\ calls \subseteq Call
    /\ faults \in [FaultKind -> Nat]

Init ==
    /\ SERVICES = <<>> /\ dirUp = FALSE /\ cleanIn = CLEANUP
    /\ run = [s \in Service |-> 0] /\ up = [s \in Service |-> FALSE]
    /\ registration = [s \in Service |-> "none"]
    /\ retryIn = [s \in Service |-> 0] /\ beatIn = [s \in Service |-> 0]
    /\ calls = {}
    /\ faults = [k \in FaultKind |-> 0]

Fails(kind) == Faults < MaxFaults /\ faults' = [faults EXCEPT ![kind] = @ + 1]

Request(op, s, n) == [op |-> op, svc |-> s, run |-> n, waited |-> 0]

\* The service that made c is still the process that waits for its answer.
Waiting(c) == up[c.svc] /\ run[c.svc] = c.run

-----------------------------------------------------------------------------
\* The client half

\* autoRegister and startHeartbeat both make their first call at once.
Start(s) ==
    /\ ~up[s] /\ run[s] <= MaxFaults
    /\ up' = [up EXCEPT ![s] = TRUE]
    /\ run' = [run EXCEPT ![s] = @ + 1]
    /\ registration' = [registration EXCEPT ![s] = "calling"]
    /\ beatIn' = [beatIn EXCEPT ![s] = HEARTBEAT]
    /\ calls' = calls \cup {Request("register", s, run[s] + 1),
                            Request("heartbeat", s, run[s] + 1)}
    /\ UNCHANGED <<directoryVars, retryIn, faults>>

Stop(s) ==
    /\ up[s] /\ Fails("serviceStop")
    /\ up' = [up EXCEPT ![s] = FALSE]
    /\ registration' = [registration EXCEPT ![s] = "none"]
    /\ retryIn' = [retryIn EXCEPT ![s] = 0]
    /\ beatIn' = [beatIn EXCEPT ![s] = 0]
    /\ UNCHANGED <<directoryVars, run, calls>>

\* setTimeout(attempt, 2000)
Attempt(s) ==
    /\ up[s] /\ registration[s] = "waiting" /\ retryIn[s] = 0
    /\ registration' = [registration EXCEPT ![s] = "calling"]
    /\ calls' = calls \cup {Request("register", s, run[s])}
    /\ UNCHANGED <<directoryVars, run, up, retryIn, beatIn, faults>>

\* setInterval(beat, ttlMs / 2)
Beat(s) ==
    /\ up[s] /\ beatIn[s] = 0
    /\ beatIn' = [beatIn EXCEPT ![s] = HEARTBEAT]
    /\ calls' = calls \cup {Request("heartbeat", s, run[s])}
    /\ UNCHANGED <<directoryVars, run, up, registration, retryIn, faults>>

\* Faulty variant: a failed registration is not repeated
CallEndsOnce(c, answered) ==
    /\ calls' = calls \ {c}
    /\ UNCHANGED <<run, up, registration, retryIn, beatIn>>

\* What the caller of c makes of its end: a heartbeat is forgotten either way,
\* a registration is done with the first answer and repeated after an error.
CallEnds(c, answered) ==
    /\ calls' = calls \ {c}
    /\ IF c.op = "register" /\ Waiting(c)
       THEN /\ registration' = [registration EXCEPT ![c.svc] =
                                    IF answered THEN "registered" ELSE "waiting"]
            /\ retryIn' = [retryIn EXCEPT ![c.svc] = IF answered THEN 0 ELSE RETRY]
       ELSE UNCHANGED <<registration, retryIn>>
    /\ UNCHANGED <<run, up, beatIn>>

-----------------------------------------------------------------------------
\* The directory

\* POST /register always adds an entry, a second one for a known service too.
registerService(s) == PushBounded(SERVICES, [svc |-> s, age |-> 0, ttl |-> TTL], MAX_SERVICES)

HandleRegister(c) ==
    /\ dirUp /\ c.op = "register"
    /\ SERVICES' = registerService(c.svc)
    /\ CallEnds(c, TRUE)
    /\ UNCHANGED <<dirUp, cleanIn, faults>>

\* Array.find: the oldest of the service's entries
IsFirst(i, s) == SERVICES[i].svc = s /\ \A j \in 1..(i - 1) : SERVICES[j].svc # s

Refreshed(e, ttl) == [e EXCEPT !.age = 0, !.ttl = ttl]

\* Faulty variants: ttl is set, ts is not; an unknown service is added
NoRefresh(s, ttl) ==
    [i \in 1..Len(SERVICES) |-> IF IsFirst(i, s) THEN [SERVICES[i] EXCEPT !.ttl = ttl]
                                                 ELSE SERVICES[i]]
RefreshOrAdd(s, ttl) ==
    IF \E i \in 1..Len(SERVICES) : SERVICES[i].svc = s
    THEN [i \in 1..Len(SERVICES) |-> IF IsFirst(i, s) THEN Refreshed(SERVICES[i], ttl)
                                                     ELSE SERVICES[i]]
    ELSE registerService(s)

\* POST /heartbeat refreshes one entry, and adds none.  The ttl is the caller's,
\* whatever it is.
updateHeartbeat(s, ttl) ==
    [i \in 1..Len(SERVICES) |-> IF IsFirst(i, s) THEN Refreshed(SERVICES[i], ttl)
                                                 ELSE SERVICES[i]]

HandleHeartbeat(c) ==
    /\ dirUp /\ c.op = "heartbeat"
    /\ SERVICES' = updateHeartbeat(c.svc, TTL)
    /\ CallEnds(c, TRUE)
    /\ UNCHANGED <<dirUp, cleanIn, faults>>

\* POST /heartbeat, by anyone who knows role and url
ForeignBeat(s, ttl) ==
    /\ dirUp /\ Fails("foreignBeat")
    /\ SERVICES' = updateHeartbeat(s, ttl)
    /\ UNCHANGED <<dirUp, cleanIn, serviceVars, calls>>

Expired(e) == e.ttl # NoTTL /\ e.age > e.ttl

\* Faulty variant: one expired entry per round, the way removeService does it
CleanedOne ==
    LET old == {i \in 1..Len(SERVICES) : Expired(SERVICES[i])}
        i == CHOOSE i \in old : \A j \in old : i <= j
    IN  IF old = {} THEN SERVICES
        ELSE ElementsAt(SERVICES, (1..Len(SERVICES)) \ {i})

Cleaned == ElementsAt(SERVICES, {i \in 1..Len(SERVICES) : ~Expired(SERVICES[i])})

cleanupExpired ==
    /\ dirUp /\ cleanIn = 0
    /\ SERVICES' = Cleaned
    /\ cleanIn' = CLEANUP
    /\ UNCHANGED <<dirUp, serviceVars, calls, faults>>

\* DELETE /services/<id>, by whoever knows the id
removeService(i) ==
    /\ dirUp /\ Fails("delete")
    /\ SERVICES' = ElementsAt(SERVICES, (1..Len(SERVICES)) \ {i})
    /\ UNCHANGED <<dirUp, cleanIn, serviceVars, calls>>

StartDirectory ==
    /\ ~dirUp
    /\ dirUp' = TRUE /\ cleanIn' = CLEANUP
    /\ UNCHANGED <<SERVICES, serviceVars, calls, faults>>

StopDirectory ==
    /\ dirUp /\ Fails("directoryStop")
    /\ dirUp' = FALSE /\ SERVICES' = <<>>
    /\ UNCHANGED <<cleanIn, serviceVars, calls>>

-----------------------------------------------------------------------------
\* Messages and time

\* Connection refused: the fetch is rejected.
Refused(c) ==
    /\ ~dirUp
    /\ CallEnds(c, FALSE)
    /\ UNCHANGED <<directoryVars, faults>>

LoseCall(c) ==
    /\ Fails("lostCall")
    /\ CallEnds(c, FALSE)
    /\ UNCHANGED directoryVars

\* The entry is added, and its owner registers again.
LoseReply(c) ==
    /\ dirUp /\ c.op = "register" /\ Fails("lostReply")
    /\ SERVICES' = registerService(c.svc)
    /\ CallEnds(c, FALSE)
    /\ UNCHANGED <<dirUp, cleanIn>>

Deliver(c) == HandleRegister(c) \/ HandleHeartbeat(c) \/ Refused(c)

Due == \/ dirUp /\ cleanIn = 0
       \/ \E s \in Service : up[s] /\ (beatIn[s] = 0 \/ (registration[s] = "waiting" /\ retryIn[s] = 0))
       \/ \E c \in calls : c.waited = MaxDelay

Down(n) == IF n > 0 THEN n - 1 ELSE 0

\* One tick more, as long as that makes a difference to the entry
Older(e) ==
    IF e.ttl # NoTTL /\ e.age <= e.ttl + CLEANUP THEN [e EXCEPT !.age = @ + 1] ELSE e

Tick ==
    /\ ~Due
    /\ SERVICES' = [i \in 1..Len(SERVICES) |-> Older(SERVICES[i])]
    /\ cleanIn' = IF dirUp THEN Down(cleanIn) ELSE cleanIn
    /\ retryIn' = [s \in Service |-> Down(retryIn[s])]
    /\ beatIn' = [s \in Service |-> Down(beatIn[s])]
    /\ calls' = {[c EXCEPT !.waited = @ + 1] : c \in calls}
    /\ UNCHANGED <<dirUp, run, up, registration, faults>>

Next ==
    \/ \E s \in Service : Start(s) \/ Stop(s) \/ Attempt(s) \/ Beat(s)
    \/ \E c \in calls : Deliver(c) \/ LoseCall(c) \/ LoseReply(c)
    \/ cleanupExpired
    \/ \E i \in 1..Len(SERVICES) : removeService(i)
    \/ \E s \in Service, ttl \in ForeignTTL : ForeignBeat(s, ttl)
    \/ StartDirectory \/ StopDirectory
    \/ Tick

Spec == Init /\ [][Next]_vars

\* Timers fire, time passes, calls arrive, and a stopped directory is started
\* again (pm2 restarts it); services are free to start and stop.
FairSpec ==
    /\ Spec
    /\ WF_vars(Tick) /\ WF_vars(cleanupExpired) /\ WF_vars(StartDirectory)
    /\ WF_vars(\E c \in calls : Deliver(c))
    /\ \A s \in Service : WF_vars(Attempt(s)) /\ WF_vars(Beat(s))

-----------------------------------------------------------------------------
Copies(s) == {i \in 1..Len(SERVICES) : SERVICES[i].svc = s}
Listed(s) == Copies(s) # {}

\* The entries there can be: one for each start, and one for each lost answer
Starts(T) == UNION {{s} \X (1..run[s]) : s \in T}
Registrations == Cardinality(Starts(Service)) + faults["lostReply"]

\* What the directory lists is never older than the ttl that was sent last for
\* it and one round of cleanup, whatever copies of it there are and however
\* beats, calls and rounds fall.  As long as only the clients beat, that is the
\* ttl of nz-lib, and a service that stopped is gone in time; a single beat by
\* someone else can keep it for any time he likes, or for ever if the ttl is
\* missing (services/directory/index.js:37-61).
NothingStaleListed ==
    \A i \in 1..Len(SERVICES) : LET e == SERVICES[i] IN
        /\ e.ttl # NoTTL => e.age <= e.ttl + CLEANUP
        /\ faults["foreignBeat"] = 0 => e.age <= TTL + CLEANUP

\* A running client whose registration was answered stays listed, although a
\* heartbeat refreshes only the oldest of its copies: restarts of services,
\* lost answers and delays of calls do not expire it, as long as the directory
\* runs, no call is lost, nobody else deletes it or beats for it and the
\* registry does not overflow (services/directory/index.js:37-61, lib/nz-lib.js).
LiveServiceStaysListed ==
    (/\ faults["directoryStop"] + faults["lostCall"] + faults["delete"] + faults["foreignBeat"] = 0
     /\ Registrations <= MAX_SERVICES) =>
        \A s \in Service : up[s] /\ registration[s] = "registered" => Listed(s)

\* A service has more than one entry only after a restart of it or a lost
\* answer: the client half registers no further time (lib/nz-lib.js:12-31), in
\* particular not when the first heartbeat overtakes the registration.
NoCopyWithoutCause ==
    \A s \in Service : Cardinality(Copies(s)) <= run[s] + faults["lostReply"]

\* "Retries until Directory becomes available" (lib/nz-lib.js:7)
RegistersEventually ==
    \A s \in Service : up[s] ~> (~up[s] \/ registration[s] = "registered")

\* "Heartbeat failures are normal if Directory is restarting"
\* (lib/nz-lib.js:53): a running service is in the registry, now or again
\* later, also after the directory restarted; unless somebody else deleted it
\* or beat for it.
RunningIsListedAgain ==
    \A s \in Service : up[s] ~> (~up[s] \/ Listed(s) \/ faults["delete"] + faults["foreignBeat"] > 0)

=============================================================================

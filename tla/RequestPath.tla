---------------------------- MODULE RequestPath ----------------------------
(***************************************************************************)
(* The ways of a client's request to POST /set and GET /get of metadata:   *)
(* directly, through the gateway's proxy, or through POST /route of        *)
(* routing, itself called directly or through the gateway.                 *)
(*                                                                         *)
(* Each hop is an HTTP server that keeps its client waiting while it       *)
(* waits for the next hop.  A request has one leg per hop: the call, the   *)
(* handler at work, the answer.  A connection may break at any moment; the *)
(* hop above then answers 500 while the handler below goes on, and a call  *)
(* already sent may still be handled (an orphan).                          *)
(*                                                                         *)
(* A message is the sequence of what is wrapped around the body: signed    *)
(* packets (nz-routing-crypto-01), the message of /route, or a text that   *)
(* is no JSON.  Signed packets are those of one node; trusts says which    *)
(* hops have its key in their copy of the node table (module TrustStore).  *)
(***************************************************************************)
EXTENDS Naturals, Sequences, FiniteSets

CONSTANTS Request, Nothing,
          Sent,      \* request: what may be sent as it: records of op, path and layers
          MaxFaults  \* model bound: broken connections and restarts

Hop == {"gateway", "routing", "metadata"}

\* A packet as the node signed it, and one that was altered or lacks a field
Packet == {"good", "bad"}

\* The message of /route with its inner message in `body`; with the inner
\* message in `payload`, the name in docs/ARCHITECTURE.md; the body {}; no JSON
Wrapping == Packet \cup {"route", "docroute", "empty", "text"}

\* Paths that end before metadata name a target the last hop does not know.
Path == {<<"metadata">>, <<"gateway", "metadata">>, <<"routing", "metadata">>,
         <<"gateway", "routing", "metadata">>,
         <<"gateway">>, <<"routing">>, <<"gateway", "routing">>}

ASSUME RequestAssumption ==
    /\ \A r \in Request : \A s \in Sent[r] :
           s.op \in {"set", "get"} /\ s.path \in Path /\ s.layers \in Seq(Wrapping)
    /\ \A r \in Request : Nothing \notin Sent[r]
    /\ MaxFaults \in Nat

VARIABLES
    request,  \* request: what was sent, or Nothing
    age,      \* request: its timestamp is ahead of, within or behind the window of 300 s
    legs,     \* request: its legs, one per hop of the longest path
    answer,   \* request: what its client was answered
    trusts,   \* hop: its knownNodes has the signing node
    store,    \* the value of the one key in metadata
    effect,   \* history: request: what it did in metadata
    checked,  \* history: request: the hops where a packet of it was accepted
    faults

vars == <<request, age, legs, answer, trusts, store, effect, checked, faults>>

Depth == 1..3
None == [status |-> "none", body |-> Nothing]
Status(s) == [status |-> s, body |-> Nothing]
Ok(v) == [status |-> "200", body |-> v]
Answer == [status : {"none", "200", "400", "403", "404", "500", "broken"},
           body : Request \cup {Nothing}]

\* cut: the caller has given up, nobody waits for the answer
Gone == [at |-> "gone", layers |-> <<>>, answer |-> None, cut |-> FALSE]
Called(layers) == [Gone EXCEPT !.at = "called", !.layers = layers]

Init ==
    /\ request = [r \in Request |-> Nothing]
    /\ age = [r \in Request |-> "within"]
    /\ legs = [r \in Request |-> [i \in Depth |-> Gone]]
    /\ answer = [r \in Request |-> None]
    /\ trusts \in [Hop -> BOOLEAN]
    /\ store = Nothing
    /\ effect = [r \in Request |-> <<>>]
    /\ checked = [r \in Request |-> <<>>]
    /\ faults = 0

IsHop(r, i, h) ==
    request[r] # Nothing /\ i \in 1..Len(request[r].path) /\ request[r].path[i] = h

\* The hop after the i-th, or none
NextHop(r, i) ==
    IF i < Len(request[r].path) THEN request[r].path[i + 1] ELSE "none"

Handles(r, i, h) == IsHop(r, i, h) /\ legs[r][i].at = "called"

Starts(layers, kinds) == layers # <<>> /\ Head(layers) \in kinds

-----------------------------------------------------------------------------
\* What the handlers have in common

\* The handler of a leg ends; its answer goes to whoever waits for it.
Finished(leg, a) ==
    IF leg.cut THEN Gone ELSE [leg EXCEPT !.at = "answered", !.layers = <<>>, !.answer = a]

Reply(r, i, a) ==
    /\ legs' = [legs EXCEPT ![r][i] = Finished(@, a)]
    /\ UNCHANGED <<request, age, answer, trusts, faults>>

Refused(r, i, s) ==
    /\ Reply(r, i, Status(s))
    /\ UNCHANGED <<store, effect, checked>>

\* proxyRequest and forward: the call of the next hop, which the handler awaits
Working(leg) == [leg EXCEPT !.at = "working", !.layers = <<>>]

CallOn(r, i, layers) ==
    /\ legs' = [legs EXCEPT ![r][i] = Working(@), ![r][i + 1] = Called(layers)]
    /\ UNCHANGED <<request, age, answer, trusts, store, effect, faults>>

\* verifyRoutingPacket.  On a node's key that is not in the spki form it throws where nobody
\* catches it, and the process ends: that is one of the restarts.
Accepts(r, h, packet) == packet = "good" /\ age[r] = "within" /\ trusts[h]

\* parseRequestBodyWithCrypto: a packet that is not accepted is refused, ...
RefusesPacket(r, i, h) ==
    /\ Starts(legs[r][i].layers, Packet) /\ ~Accepts(r, h, Head(legs[r][i].layers))
    /\ Refused(r, i, "403")

\* ... one that is accepted is opened, and anything else read as it is
Reads(r, i, h) ==
    /\ ~Starts(legs[r][i].layers, {"text"})
    /\ \/ /\ Starts(legs[r][i].layers, Packet) /\ Accepts(r, h, Head(legs[r][i].layers))
          /\ checked' = [checked EXCEPT ![r] = Append(@, h)]
       \/ /\ ~Starts(legs[r][i].layers, Packet)
          /\ UNCHANGED checked

Inner(r, i) ==
    LET layers == legs[r][i].layers IN
    IF Starts(layers, Packet) THEN Tail(layers) ELSE layers

-----------------------------------------------------------------------------
\* The gateway

UnknownRoute(r, i) ==
    /\ Handles(r, i, "gateway") /\ NextHop(r, i) = "none"
    /\ Refused(r, i, "404")

\* Faulty variant: a packet is verified here and sent on as it came
ProxyUnopened(r, i) ==
    /\ Handles(r, i, "gateway") /\ NextHop(r, i) = "metadata"
    /\ \/ RefusesPacket(r, i, "gateway")
       \/ Reads(r, i, "gateway") /\ CallOn(r, i, legs[r][i].layers)

\* The direct routes: verified and opened here
Proxy(r, i) ==
    /\ Handles(r, i, "gateway") /\ NextHop(r, i) = "metadata"
    /\ \/ RefusesPacket(r, i, "gateway")
       \/ Reads(r, i, "gateway") /\ CallOn(r, i, Inner(r, i))

\* POST /route: sent on as it is
PassThrough(r, i) ==
    /\ Handles(r, i, "gateway") /\ NextHop(r, i) = "routing"
    /\ ~Starts(legs[r][i].layers, {"text"})
    /\ CallOn(r, i, legs[r][i].layers)
    /\ UNCHANGED checked

\* A body that is no JSON, at every hop that parses it
NotJson(r, i) ==
    /\ legs[r][i].at = "called" /\ Starts(legs[r][i].layers, {"text"})
    /\ IsHop(r, i, "gateway") => NextHop(r, i) # "none"
    /\ IsHop(r, i, "metadata") => request[r].op = "set"
    /\ Refused(r, i, "400")

\* Routing: POST /route; without a known target, 400; without `body`, {}
Forwarded(inner) == IF Head(inner) = "route" THEN Tail(inner) ELSE <<"empty">>

IsRouted(r, i) == NextHop(r, i) # "none" /\ Starts(Inner(r, i), {"route", "docroute"})

Route(r, i) ==
    /\ Handles(r, i, "routing")
    /\ \/ RefusesPacket(r, i, "routing")
       \/ /\ Reads(r, i, "routing")
          /\ IF IsRouted(r, i) THEN CallOn(r, i, Forwarded(Inner(r, i)))
             ELSE Reply(r, i, Status("400")) /\ UNCHANGED <<store, effect>>

\* Metadata: POST /set; what is left around the body hides its key
Set(r, i) ==
    /\ Handles(r, i, "metadata") /\ request[r].op = "set"
    /\ \/ RefusesPacket(r, i, "metadata")
       \/ /\ Reads(r, i, "metadata")
          /\ IF Inner(r, i) = <<>>
             THEN /\ store' = r
                  /\ effect' = [effect EXCEPT ![r] = Append(@, <<"written">>)]
                  /\ Reply(r, i, Ok(r))
             ELSE Reply(r, i, Status("400")) /\ UNCHANGED <<store, effect>>

\* GET /get/:key, whatever its body
Get(r, i) ==
    /\ Handles(r, i, "metadata") /\ request[r].op = "get"
    /\ effect' = [effect EXCEPT ![r] = Append(@, <<"read", store>>)]
    /\ Reply(r, i, IF store = Nothing THEN Status("404") ELSE Ok(store))
    /\ UNCHANGED <<store, checked>>

-----------------------------------------------------------------------------
\* Clients, timers and time

Send(r, s) ==
    /\ request[r] = Nothing
    /\ request' = [request EXCEPT ![r] = s]
    /\ legs' = [legs EXCEPT ![r][1] = Called(s.layers)]
    /\ age' \in {[age EXCEPT ![r] = a] : a \in {"within"} \cup
                     IF \E i \in 1..Len(s.layers) : s.layers[i] \in Packet THEN {"ahead"} ELSE {}}
    /\ UNCHANGED <<answer, trusts, store, effect, checked, faults>>

\* Some leg still carries a packet, whose age matters
InTransit(r) ==
    \E i \in Depth : \E j \in 1..Len(legs[r][i].layers) : legs[r][i].layers[j] \in Packet

Wait(r) ==
    /\ InTransit(r) /\ age[r] # "behind"
    /\ age' = [age EXCEPT ![r] = IF @ = "ahead" THEN "within" ELSE "behind"]
    /\ UNCHANGED <<request, legs, answer, trusts, store, effect, checked, faults>>

\* An answer of discovery is taken for the copy (updateKnownNodes).
PollAnswered(h) ==
    /\ trusts' = [trusts EXCEPT ![h] = ~@]
    /\ UNCHANGED <<request, age, legs, answer, store, effect, checked, faults>>

\* The promise of the hop above resolves: status and body are passed on.
Return(r, i) ==
    /\ legs[r][i].at = "answered"
    /\ legs' = [legs EXCEPT ![r] = [j \in Depth |->
                    IF j = i THEN Gone
                    ELSE IF j = i - 1 THEN Finished(legs[r][j], legs[r][i].answer)
                    ELSE legs[r][j]]]
    /\ answer' = IF i = 1 THEN [answer EXCEPT ![r] = legs[r][1].answer] ELSE answer
    /\ UNCHANGED <<request, age, trusts, store, effect, checked, faults>>

-----------------------------------------------------------------------------
\* What may go wrong, MaxFaults times

\* Faulty variant: a failed call is taken for a bad request
Failed400 == Status("400")

\* The "error" listener of proxyRequest and forward
Failed == Status("500")

\* Faulty variant: no listener, the promise of a broken call never settles
AboveStuck(leg) == leg

\* The hop above goes on when its call has failed.
Above(leg) == Finished(leg, Failed)

\* An answer on its way is lost with the connection; a handler goes on alone.
Orphan(leg) == IF leg.at = "answered" THEN Gone ELSE [leg EXCEPT !.cut = leg.at # "gone"]

Waited(r, i) == legs[r][i].at # "gone" /\ ~legs[r][i].cut

\* The connection of leg i breaks, before or after its call was received.
Break(r, i) ==
    /\ Waited(r, i)
    /\ \E below \in {Orphan(legs[r][i])} \cup (IF legs[r][i].at = "called" THEN {Gone} ELSE {}) :
           legs' = [legs EXCEPT ![r] = [j \in Depth |->
                       IF j = i THEN below
                       ELSE IF j = i - 1 THEN Above(legs[r][j])
                       ELSE legs[r][j]]]
    /\ answer' = IF i = 1 THEN [answer EXCEPT ![r] = Status("broken")] ELSE answer
    /\ UNCHANGED <<request, age, trusts, store, effect, checked>>

\* A process ends with its handlers and its table, and pm2 starts another.
\* Messages on their way may reach the new process or break.
Restart(h) ==
    LET Dies(r, i) == IsHop(r, i, h) /\ legs[r][i].at = "working"
        After(r, i) ==
            IF Dies(r, i) THEN Gone
            ELSE IF Dies(r, i - 1) THEN Orphan(legs[r][i])
            ELSE IF Dies(r, i + 1) /\ Waited(r, i + 1) THEN Above(legs[r][i])
            ELSE legs[r][i]
    IN
    /\ legs' = [r \in Request |-> [i \in Depth |-> After(r, i)]]
    /\ answer' = [r \in Request |->
                     IF Dies(r, 1) /\ Waited(r, 1) THEN Status("broken") ELSE answer[r]]
    /\ trusts' = [trusts EXCEPT ![h] = FALSE]
    /\ store' = IF h = "metadata" THEN Nothing ELSE store
    /\ UNCHANGED <<request, age, effect, checked>>

Fault ==
    /\ faults < MaxFaults /\ faults' = faults + 1
    /\ \/ \E r \in Request, i \in Depth : Break(r, i)
       \/ \E h \in Hop : Restart(h)

-----------------------------------------------------------------------------
\* The legs at which a call or an answer has come in
Ready(r) == {i \in Depth : legs[r][i].at \in {"called", "answered"}}

Serve(r) ==
    \E i \in Ready(r) :
        \/ UnknownRoute(r, i) \/ Proxy(r, i) \/ PassThrough(r, i) \/ NotJson(r, i)
        \/ Route(r, i)
        \/ Set(r, i) \/ Get(r, i)
        \/ Return(r, i)

Next ==
    \/ \E r \in Request : Serve(r) \/ Wait(r) \/ \E s \in Sent[r] : Send(r, s)
    \/ \E h \in Hop : PollAnswered(h)
    \/ Fault

Spec == Init /\ [][Next]_vars

\* Calls that arrive are handled, and answers that arrive are taken.
FairSpec == Spec /\ \A r \in Request : WF_vars(Serve(r))

-----------------------------------------------------------------------------
LegTypeOK(leg) ==
    /\ leg.at \in {"gone", "called", "working", "answered"}
    /\ leg.layers \in Seq(Wrapping) /\ leg.answer \in Answer /\ leg.cut \in BOOLEAN
    /\ leg.at \in {"gone", "answered"} => ~leg.cut
    /\ leg.at = "answered" <=> leg.answer # None

TypeOK ==
    /\ \A r \in Request : request[r] \in Sent[r] \cup {Nothing}
    /\ age \in [Request -> {"ahead", "within", "behind"}]
    /\ \A r \in Request, i \in Depth : LegTypeOK(legs[r][i])
    /\ answer \in [Request -> Answer]
    /\ trusts \in [Hop -> BOOLEAN]
    /\ store \in Request \cup {Nothing}
    /\ \A r \in Request : checked[r] \in Seq(Hop) /\ Len(effect[r]) <= 1
    /\ faults \in 0..MaxFaults

\* The places of the signed packets in what was sent
Packets(r) == {i \in DOMAIN request[r].layers : request[r].layers[i] \in Packet}

(* A request that was signed and took effect was signed well, and each of  *)
(* its packets was accepted by exactly one hop, whichever way it came and  *)
(* whatever broke or was restarted on the way: the gateway opens what it   *)
(* proxies (gateway/server.js:158-173), passes on what goes to /route, and *)
(* routing opens that.                                                     *)
OnlyVerified ==
    \A r \in Request : effect[r] = <<<<"written">>>> =>
        /\ Len(checked[r]) = Cardinality(Packets(r))
        /\ \A i \in Packets(r) : request[r].layers[i] = "good"

(* Requests, legs and answers stay what the hops can make of them, and a   *)
(* write is applied only after each packet around it was verified at one   *)
(* hop (POST /route, the proxies and POST /set).                           *)
AppliedAsVerified == TypeOK /\ OnlyVerified

(* Seen from its clients, metadata behind its hops is the register of      *)
(* module SharedRegister: at most one effect, between request and answer   *)
(* unless the client was told of a failure, and none after a refusal.      *)
Outcome(a, r) ==
    CASE a.status = "none" -> <<"nothing">>
      [] a.status = "200" -> IF request[r].op = "set" THEN <<"written">> ELSE <<"read", a.body>>
      [] a.status = "404" /\ effect[r] # <<>> -> <<"read", Nothing>>
      [] a.status \in {"500", "broken"} -> <<"failed">>
      [] OTHER -> <<"refused">>

Progress(r) ==
    IF effect[r] # <<>> THEN effect[r][1]
    ELSE IF Outcome(answer[r], r) = <<"refused">> THEN <<"refused">>
    ELSE IF request[r] # Nothing THEN <<"open">> ELSE <<"new">>

Register == INSTANCE SharedRegister
              WITH value <- store,
                   progress <- [r \in Request |-> Progress(r)],
                   told <- [r \in Request |-> Outcome(answer[r], r)]

ImplementsRegister == Register!Spec

(* Every client is answered or sees its connection break: no hop waits for *)
(* a call that failed, however many hops there are above it.               *)
EveryRequestIsAnswered ==
    \A r \in Request : request[r] # Nothing ~> answer[r] # None

=============================================================================

# Verification of NewZoneReference

TLA+ models of NewZoneReference, a reference cluster of small Node.js HTTP
services, with TLC configurations that check them on small instances and
TLAPS proofs of what holds for every instance. Source paths below are
relative to the repository.

1. [The system](#1-the-system)
2. [Modules](#2-modules)
3. [What the runs check](#3-what-the-runs-check)
4. [What is proved](#4-what-is-proved)
5. [Disagreements with comments and tests](#5-disagreements-with-comments-and-tests)
6. [Assumptions and limits](#6-assumptions-and-limits)
7. [Plan](#7-plan)

## 1. The system

Nineteen services, each one Node process with an HTTP server and all of its
state in module-level variables. There is no database: a restarted process
starts empty (only the node keys are on disk). Inside a process one
synchronous stretch of code runs at a time; what interleaves is everything
separated by an `await` or a callback. Between processes there are HTTP calls
(`services/routing/index.js: forward`, or `fetch`), UDP broadcasts
(`discovery`), and polling timers (`setInterval`, `setTimeout`).

| component | state | operations that change it | talks to |
|---|---|---|---|
| `event` | `EVENTS` (500), `SUBSCRIPTIONS` | `/publish`, `/event`, `/subscribe`, `DELETE /subscriptions/…` | storage, queue, subscribers |
| `storage` | `STORE` (content-addressed), a key-value table | `/cas/store`, `/kv/set` | – |
| `queue` | `QUEUES` (500 items each), `tasks` | `/enqueue`, `/dequeue`, `/peek`, `/push` | – |
| `rules` | `RULES`, `HISTORY_RULE`, the polling loop | `/set`, the loop's timer | queue, replication, logging, analytics |
| `routing` | – | `/route`; the library function `forward` | every service |
| `logging` | `logs` (500) | `/log`, `/write` | – |
| `analytics` | `records`, metrics | `/record`, `/recompute` | event and others |
| `replication` | `LOCAL_DATA` (state, 200 events, rules) | `/replicate`, two timers | state, event, rules, other nodes |
| `directory` | `SERVICES` (200) with TTL | `/register`, `/heartbeat`, `DELETE /services/…`, cleanup timer | – |
| `lib/nz-lib` | – | `autoRegister`, `startHeartbeat`, in fourteen services (discovery registers once by itself and never beats; `logging`, `p2p_node`, `p2p_messaging` and directory itself do neither) | directory |
| `discovery`, trust stores | `knownNodes`, and a polled copy of it in the eighteen others | UDP announcements, the poll timers | all services |
| `gateway` | – | `/verify`, `/route` | routing and the services |
| `p2p_node` | `PEERS` (200) | `/p2p/announce`, `/p2p/heartbeat`, `/p2p/merge`, heartbeat timer | other nodes |
| `p2p_messaging` | `MESSAGES` (500) | `/send` | – |
| `state` | `STATE` (500 keys) | `/set`, `DELETE /delete/…` | – |
| `scheduler` | `TASKS` (200), and `JOBS` of the server | `/schedule`, the scheduler's timer | callbacks |
| `consensus` | `proposals` | `/propose`, `/verify` | logging |
| `identity`, `metadata` | metadata records | metadata `/set` | – |
| `monitoring` | `reports` | `/report` | all services |
| secure channel, handshake | epochs, counters and keys of two ends | encrypt, decrypt, rekey, the handshake's steps | its peer |
| crypto primitives | – | X25519, Ed25519, ChaCha20-Poly1305, BLAKE2b, HKDF | – |

What makes this code hard to test, and what should hold nevertheless:

* **History pipeline** (event → storage → queue → rules → replication,
  logging, analytics). Six processes, each of which may restart while its
  calls are on the way; a caller cannot tell a call that was never handled
  from a lost answer; dequeue is destructive; `/set` changes the configuration
  between two awaited calls. It should never log, record or publish an item
  whose signature was not checked or whose object is not in the CAS, never
  double an item, keep the order of the queue, apply one configuration per
  item, and keep polling.
* **Queue.** Push and shift at the bound, creation of queues by any first use.
  A queue should always be the unbroken end of what it accepted.
* **Directory and its clients.** Timers on both sides, late calls,
  registrations repeated after lost answers, expiry, restarts of either side, and
  heartbeats that bring any ttl, from anyone. What is listed should not be older than
  the ttl that came with it, and what runs should be listed.
* **Trust stores.** A copy of `knownNodes` up to one poll old; polls that
  overlap; packets verified against it.
* **Replication.** Merges of dumps in any order, partial failure of a merge,
  snapshots that span awaits.
* **Event bus.** Subscriber calls that are neither awaited nor caught; a
  subscription removed twice or after its process is gone. Whoever subscribed
  should be called for exactly what he subscribed to.
* **State and peer tables.** Eviction of the oldest entry at a limit, with equal
  timestamps and a clock that may step back; rounds of calls that overlap while
  the table changes. What was heard of last should be there.
* **Analytics.** Recomputations that overlap. Metrics should be of one reading.
* **Consensus.** Proposing again, deciding again, in any order. A status should be
  what was reported last, and no decision should outlive a new proposal of its id.
* **Secure channel and handshake.** Reordering around a rekey, late answers of
  an earlier run, hellos and answers taken twice by functions that keep nothing, a
  32-bit counter.
* **Crypto library.** The swap that a ladder carries from round to round, operands
  that are not reduced, the last block of a derived key, where a context ends and
  a message begins, packets repeated, changed, sealed anew.

`PROJECT.json` lists each of these hazards at its line, with the properties
that cover it, or the reason why none does.

## 2. Modules

| module | models | role |
|---|---|---|
| `BoundedBuffer` | push-then-shift, the idiom of seven services; removal at a place, and filters | operators |
| `Queue` | `services/queue` | component |
| `QueueHistory` | the queue with what it accepted and gave out | history variables, properties |
| `BoundedFifo` | what a bounded FIFO queue promises | abstract specification |
| `HistoryPipeline` | `event` (`/publish`), `storage` (`/cas/store`), `rules`, `forward`, the sinks; uses `Queue` by `INSTANCE` | composition |
| `HistoryFlow` | accept, lose, evaluate in order | abstract specification |
| `Directory` | `services/directory`, and the services that run both halves of `lib/nz-lib.js` | composition of server and clients |
| `TrustStore` | `services/discovery`, and `updateKnownNodes` as every service has it | composition of discovery, nodes and services |
| `Replication` | `services/replication` on several nodes | component |
| `RequestPath` | `gateway`, `routing` and `metadata` as the hops of a request, with `verifyRoutingPacket` | composition |
| `SharedRegister` | what clients of a value behind several hops may rely on | abstract specification |
| `SecureChannel` | `lib/secureChannel.js`, `lib/sessionKeys.js` | two ends and what is between them |
| `Handshake` | `lib/handshake.js`, and the channels built on its outcome | composition, of `SecureChannel` |
| `EventBus` | `services/event`: the bus, its subscriptions, the calls of subscribers | component |
| `Analytics` | `services/analytics` over `services/logging` and the bus; EXTENDS `EventBus` | composition |
| `StateStore`, `Consensus` | `services/state`, `services/consensus` | components |
| `PeerTable` | `services/p2p_node` | component |
| `BoundedTable` | delete-the-oldest, the idiom of `STATE` and `PEERS` | operators |
| `RequestBody` | `parseRequestBodyWithCrypto`, which every server repeats | operators |
| `X25519` | `lib/x25519.js`: bytes, clamping, the ladder | component |
| `KeyDerivation` | `lib/hkdf.js`, `lib/blake2b.js`, `deriveSessionKey` | component |
| `Ed25519` | `lib/ed25519.js`: plain signing, ctx and ph | component |
| `SignedPackets` | the packets of `lib/nz-crypto.js`, and `/verify` of the gateway | component |
| `BoundedBufferTheorems`, `ServicesProofs`, `HistoryPipelineProofs`, `CryptoProofs`, `DirectoryProofs`, `MembershipProofs`, `ReplicationProofs`, `RequestPathProofs` | – | lemmas and proofs |
| `MCHistoryPipeline`, `MCDirectory`, `MCReplication`, `MCRequestPath`, `MCHandshake` | – | small instances |
| `MCServices` | `QueueHistory`, `EventBus`, `Analytics`, `StateStore`, `Consensus` | small instances, one service at a time |
| `MCMembership` | `Directory`, `TrustStore`, `PeerTable` | small instances, one part at a time |
| `MCCrypto` | `X25519`, `KeyDerivation`, `Ed25519`, `SignedPackets` | small instances, one part at a time |

The last three instantiate parts that share no state. A behaviour is one of a
single part, chosen at the start (`service`, `part`), and the others stay in
their first state: the run checks each part completely, without the product of
their states, which could show nothing more.

Some definitions are preceded by *faulty variants*: the same operator with a
plausible programming error (a dropped status check, a wrong end of the array,
a timer that is not set again). No specification uses them; each property has
one that it would catch, named in `PROJECT.json` under `mutants`, so that no
property holds vacuously.

### Queue

`QUEUES` maps the names that were used to sequences, as the object in
`services/queue/index.js`. Every endpoint touches it in one synchronous
stretch, so `Enqueue`, `Dequeue`, `Peek`, `Push` are one action each; `Peek`
changes the state because `ensureQueue` creates the name. `Restart` empties
everything. `QueueHistory` adds `accepted` (all items a queue ever took, in
order), `gone` (how many of them it no longer holds) and `given` (what dequeue
handed out, with positions); `BoundedFifo` says the same without sequences
that move.

### History pipeline

A handler of `POST /publish` has three synchronous stretches, separated by its
two calls: `Receive` (fields, signature, then the call of `/cas/store`),
`StoreAnswered` (not 200: answer 500; else the call of `/enqueue`), and
`EnqueueAnswered` (publish on the bus and answer 200, whatever the queue
said). Storage reads its body with the parser that opens routing packets
(`services/storage/server.js:71-84`), a published payload that is one included:
`HandleStore` stores what was inside (`Unwrapped`) and answers with the hash of that,
or refuses the packet with 403, which the publisher sees as 500; a payload that is no
object gets 400. `stage[p]` is where the handler of publication `p` is, or its answer. A
call is a record in `calls` until its handler has run (`Handle…`), and its
answer a record in `replies` until the caller goes on. `LoseCall` and
`LoseReply` both end in status 500 at the caller, which is what the `"error"`
listener of `forward` makes of them; for the `fetch` calls of rules a
rejection and an error status are treated alike by the code.

`poller` is the loop of `services/rules/server.js`: `Tick` (the timer), then
`DequeueAnswered`, then one `ActionAnswered` per configured action. The
configuration is read once, in `evaluateRules`, and carried in `poller.cfg`.
`SetRule` is `/set` with key `history_rule`. `replicated` is history: replication keeps
nothing of what rules sends it. A `Restart…` action of a process
forgets its state and the answers on their way to it, but not its calls, which
may still be handled.

`HistoryFlow` is what is left when services, calls and faults are forgotten:
items are accepted, wait, are possibly lost, and are evaluated in order and
once. The mapping takes the queue's content and the answers of dequeue on
their way as *waiting*, and the evaluations begun as *done*.

### Directory

Timestamps are ages, timers are countdowns, and one `Tick` ages everything. A
timer that is due, and a call that has waited `MaxDelay`, must fire before
time goes on, in any order with whatever else is due. `HandleRegister` always
adds (the code never looks for an existing entry), `HandleHeartbeat` refreshes
the first entry of its service (`Array.find`) or nothing, and sets its ttl to that of
the body, which nobody checks: the clients send `TTL`, and a `ForeignBeat`, by anyone
who knows role and url, any of `ForeignTTL`, or none at all (`NoTTL`).
`cleanupExpired` removes what is older than its own ttl, which with `NoTTL` nothing is;
`removeService` is the `DELETE` endpoint.
On the client side `Start`, `Attempt`, `Beat` and `CallEnds` are `autoRegister`
and `startHeartbeat`: a beat is forgotten whatever becomes of it, a
registration is repeated after an error. A service stands for its (role, url)
pair. The clients are the fourteen services that start both functions; discovery,
which makes one call of `/register`, is in `TrustStore`.

### Trust stores

`Announce` is the broadcast timer of a node's discovery process, `Hear` the
UDP listener of `services/discovery/server.js`, which enters what it can parse
into `knownNodes`; datagrams of anything else on the port are `Stray`. Every
service has the same `updateKnownNodes`: a timer starts a poll (`Poll`) and
does not wait for it, so that polls overlap; discovery answers with its table
of that moment (`AnswerPoll`), and the answer replaces the copy whenever it
comes (`TakeAnswer`). A poll that fails leaves the copy alone.
`StartDiscovery` makes the call to the directory whose promise is neither
awaited nor caught; `RegistrationRefused` therefore ends the process.

### Replication

A write is known by its timestamp; `NoTs` is an entry that
`refreshLocalSnapshot` read from the state service, whose `/get/` answers
without one. `MergeData` is `mergeData` with its partial failure: state is
merged before events and events before rules, and spreading what is no array
throws between them. The three parts of a refresh are separated by awaits, may
each fail, and rounds may overlap, so each is an action of its own;
`RefreshRules` takes the rules service's 404 object, `Missing`. `seenState`,
`seenEvents` and `acked` are history variables. The stable sort is written by ranks
(`Place`, `Sorted`). A refresh takes the bus's list as it is, sorted or not; the next
merge sorts it.

### Request path

A request has one leg per hop of its way: *called* until a handler of the hop
has read the message, *working* while that handler waits for the next hop,
*answered* until the answer is taken. `Proxy`, `PassThrough`, `Route`, `Set` and
`Get` are the handlers; `Return` is the resolution of the promise of `forward` or
`proxyRequest`, which passes status and body on. `Break` cuts a leg: the hop
above gets 500 from the error listener (`Above`), the call below may be handled
or not, and a handler at work goes on for nobody. `Restart` ends the handlers
at work in a process, with its trust copy and, for metadata, its table. A
message is the sequence of what is wrapped around the body, so that opening a
packet (`Reads`, `Inner`) and unpacking a message of `/route` (`Forwarded`) take
the first element off, and metadata finds its key only when nothing is left.

`SharedRegister` is what remains for clients: one effect at one moment between
request and answer, none after a refusal, and after a failure perhaps one,
perhaps later, that may overwrite what another client was told was written.
The mapping reads a request's progress off its effect and its answer.

### Secure channel and handshake

An end is a record of its secret, epoch and counter and of the two keys that
`deriveSessionKeys` gives for them; a key is known by what it is derived from.
`Rekey`, `Encrypt` and `Decrypt` are the three methods; between the ends every
packet ever sent may arrive at either of them, any number of times, in any
order, and altered. An end may build another channel at any time, also on a secret it had
one on before (`NewChannel`); `used` and `reused` keep the account.

In `Handshake` both ends' functions are actions over hellos and answers that stay on the
way, and each successful answer or finish builds a channel, as the callers of the library
do. The functions keep nothing between calls. `aliceFinishHandshake` takes the ephemeral
key of whichever start, and any answer that verifies, again as well: the
secret is then the one Alice had, counters start at 1 under its keys, and nonces come
back. `outcomes` and `repeated` are history: the answers she took, and those she took
once more with the same key. Bob draws a new key in each call, so that no repetition
of a hello gives him a secret twice.

### Event bus and analytics

`publishEvent` puts an event into `EVENTS` and starts one call per matching
subscription, in one synchronous stretch; the calls are `notices` until
`CallbackAnswers` or `CallbackFails`. Since the promise is neither awaited nor
caught, a failure ends the process that started the call (`ProcessEnds`), and
nothing happens if that process is gone already. `PostEvent` and
`PostSubscribe` are the handlers behind the parser; the parser of `event` is
the one that lets JSON's `null` through, whose field access then throws
(`Breaks`). `published`, `term` and `called` are history: what was published,
which events each subscription covered, and every call ever started. `/publish`
comes to the same operator with the type `signed_event`.

A recomputation of `Analytics` is a round with three steps, separated by the
awaits of its two calls: `PostRecompute`, `fetchLoggingEvents` (which starts the
second call), `fetchBusEvents`, and the synchronous rest, `recomputeMetrics`.
Rounds overlap freely. A call that fails counts as no entries, as
`fetchLoggingEvents` and `fetchBusEvents` catch everything.

### State, consensus, peers

`BoundedTable` is the JavaScript object with its order of insertion, on which
the stable sort for the oldest entry depends when timestamps are equal.
`StateStore` makes room before it stores, and only for a key that is new;
`PeerTable` stores first and evicts afterwards, so that the entry just stored is
the victim when the clock was set back. `mergePeers` goes on up to the first
malformed element and leaves what came before it in the table. The rounds of
the heartbeat timer work on the list of their start (`StartRound`), one awaited
call after the other (`CallAnswered`, `CallFails`). Every node gives out
`http://localhost:3015` as its url, which leads back to the caller, and so does
the model. `Consensus` keeps proposals by id; `reports`, the calls of logging it
starts and does not await, serve as its history.

### Crypto library

`X25519` has one action per round of the ladder, between the decoding of the
operands and the division at the end; field, byte size and operand length are
constants, so that TLC can go through every operand of a small field and compare
with the group law of the curve, and so that the proof can be about every field. What
the module takes from mathematics (Fermat's little theorem, a point for every x on the
curve or its twist, the group law) are assumptions that TLC evaluates on that field. `KeyDerivation` has one action per round of
`hkdfExpand`; a digest is a sequence of symbolic bytes, distinct for distinct
inputs, while padding, cutting, chaining and the choice of the salt are the
code's. `Ed25519` keeps the last signature and how it was asked for: what a mode
gives to `node:crypto` is `FullMessage`. In `SignedPackets` nodes build packets,
whatever is on the way can be repeated, delayed, altered (`InTransit`), sealed anew or
misdirected (`Wire`), the table of nodes changes, and `PostVerify` is the
gateway's `/verify`. `sha256Hex` takes a string as it is and an object as its JSON, so
that a body is known to it by its `Text`: an object and the string of its JSON have one,
and the instance has both.

## 3. What the runs check

| run | instance | question |
|---|---|---|
| `pipeline_faults` | two publications, of objects, routing packets and other values, any two faults; queue, bus and log of one | Wherever an item got to, was its signature good and does its hash lead to its payload, or to what storage unwrapped it to (`NoDanglingHash`)? Is what was answered 200 stored, and accepted unless a call broke, and did what was refused get nowhere (`AnswerTellsTheTruth`)? Is nothing doubled (`AtMostOnce`)? Is the flow implemented (`ImplementsFlow`)? |
| `pipeline_rules` | two publications, room for both, two `/set` at any moment, one fault | Does each evaluation follow one configuration, and entirely: are replication, logging and analytics sent the item, each if it is named, and none else (`EvaluationsAreWhole`)? Is loss explained by faults or a full queue (`LostOnlyByFaultOrFullQueue`)? Do stored rule and configuration agree (`StoredRuleInForce`)? Is every publication answered and does the loop go on (`NothingHangs`), and is what was acknowledged evaluated unless a fault occurs (`AcknowledgedIsEvaluated`)? |
| `services` | one service at a time: two queues of two; three events on a bus of two with two subscriptions; two recomputations at once; three keys in a table of two; two proposals with four reports | Are queues bounded FIFOs (`ImplementsFifo`)? Is every subscriber called for exactly what his subscription covered (`NotifiedAsSubscribed`)? Are answers the newest events of their type (`AnswersAreTheNewest`)? Are metrics of one reading, which reaches up to the request (`MetricsAreFresh`)? Does a key keep its value until newer ones crowd it out (`KeptUntilCrowdedOut`)? Is each proposal as the last report says (`ProposalsAreAsReported`)? |
| `directory` | two services, any two faults, beats by others with no ttl, with 0 or with a longer one among them, calls up to one tick late, room for three | Is nothing listed that is older than the ttl sent last for it and a round of cleanup, and than the clients' ttl while only they beat (`NothingStaleListed`)? Does a running service stay listed (`LiveServiceStaysListed`)? Are copies explained by a restart or a lost answer (`NoCopyWithoutCause`)? |
| `membership` | one part at a time: one service with the registry, any two faults; two nodes and a service with two polls outstanding, any two faults; a node with one more peer than its table takes, two rounds under way, a clock that is set back | Does every running service get registered (`RegistersEventually`)? Does a service forget a node only for a restart or for polls that overlap (`TrustIsKept`), and does it come to trust every node (`EveryNodeGetsTrustedAgain`)? Does the peer table have those heard of last (`HeardOfLastAreListed`), and is whoever stays in it called again and again (`ListedAreCalled`)? |
| `replication` | two nodes, three dumps of four kinds, refreshes and restarts at any moment | Are state and events of the newest entries in any order of dumps (`CopiesAreOfTheNewest`), and is a dump that was answered 200 in force (`AckedRulesInForce`)? |
| `request_path` | one request of any kind, one write by `/route` or read by the proxy, one fault | Was what is applied verified at one hop per packet (`AppliedAsVerified`)? Are clients told the truth about the effect of their request (`ImplementsRegister`)? Is every client answered (`EveryRequestIsAnswered`)? |
| `handshake` | two starts of Alice, two answers of Bob, of which Alice takes two, or one twice, three packets one way and one back, one rekeying, counters that wrap at two | Is what is decrypted what the peer encrypted (`OpenedAsMeant`), is a nonce used once per key within the counter's range, unless a channel was built on a secret again (`NoncesAreUsedOnce`)? Does only Alice do that, by taking one answer with one key again (`SecondChannelsAreRepeats`)? Do secrets differ only because of a late answer (`LateAnswersOnly`)? |
| `crypto` | one part at a time: the field of 29 elements; keys of up to three blocks; contexts of up to one byte and messages of up to three; two packets of two nodes, in one of three bodies, two of which hash alike, delivered in four seconds until two are accepted, a skew of one | Does the ladder multiply, on curve and twist, for operands that are not reduced as well (`LadderMultiplies`)? Is a key of any length the RFC's, and another for other inputs (`KeysAreDerived`)? Does a signature verify in its own mode, context and message only (`SignaturesBindTheirMode`)? Was an accepted packet built as it is, up to bodies of one text, and is it accepted for one window only (`AcceptedAsBuilt`)? |
| `directory_restart`, `replication_rules`, `event_bus_refused` | smallest possible | See section 5. |

**Bounds.** A queue of two with three accepted items passes through
empty, partly full, full and overflowing; two names are enough to disturb one
another. In the pipeline two publications are enough for an overtaking and for
an overflow of a buffer of one; two faults are the shortest sequences in which
the loss of an answer meets a restart. Publications, services and rounds are
interchangeable, hence the symmetry sets of the safety runs; a run with a
temporal property has them only where the property is a step property (refinement
without fairness). The services of `TrustStore` do not interact, so that one is
enough; two slots are the fewest in which polls, or rounds of calls, overlap. On
the bus two subscriptions are enough for one to be removed beside the other, and
one end of the process lets calls of the old one fail under the new one. Three
keys in a table of two, and a peer, the node itself and a body without an id in
another of two, fill and overfill them with equal and unequal times. Four reports
are a proposal, its decision, a new proposal of the same id and a decision of
that. In `Replication` one key and one rule id are
enough because the merge treats each by itself; the window of two events is
overfilled by the first two dumps. In `RequestPath` the first request takes each
way and is refused at each hop that may refuse it; a second one is enough to
overwrite, to read in between, and to be overtaken by an orphan. With a counter
space of two, Alice's three packets go round the nonce's field; two finishes are enough
for one answer to be taken twice, or two answers with either key. Two acceptances are
the two that the window of a packet relates.

The field of 29 = 2^5 - 3 has, as the code's has, operands that are not reduced
(29, 30, 31) and a top bit beyond the field's; five rounds of the ladder take all
sequences of swaps. Three blocks are a first, a middle and a cut last one, with
salts on either side of the block size, zeros at their end included.

`MaxFaults`, `MaxMishaps`, `MaxRuleSets`, `MaxAccepted`, `MaxDelay`,
`MAX_TASKS`, `MaxMerges`, `MaxParcels`, `MaxEncrypted`, `MaxPublished`,
`MaxSubscribed`, `MaxFinishes`, `MaxHeard`, `MaxEnds`, `MaxWritten`, `MaxReports`, `MaxClock`, `MaxBuilt`,
`Slot`, `Round` and their like bound the model and nothing in the code;
`MAX_QUEUE_SIZE`, `MAX_EVENTS`, `MAX_LOGS`, `LIMIT`, `MAX_KEYS`, `MAX_PEERS`,
`MAX_SERVICES`, `TTL`, `HEARTBEAT`, `CLEANUP`, `RETRY`, `MaxSkew` are the code's
constants, scaled down. In `Directory` a tick stands for 2.5 seconds: ttl 4
(10 s), heartbeat 2, cleanup 2 (5 s each), retry 1 (2 s).

**Fairness.** `FairSpec` of the pipeline: a callee that has a call handles it
or the call fails; a caller that has an answer goes on; the loop's timer
fires. Node guarantees the last two. The first is an assumption on the network
and the callees: `forward` sets no timeout (`services/routing/index.js:13`), so
a callee that accepts a connection and stays silent holds up its caller for
ever, the rules loop included. Clients, `/set` and faults get no fairness.
`FairSpec` of the directory: time passes, timers fire, calls arrive or are
refused, and a stopped directory is started again (`pm2.config.js` lists it,
and pm2 restarts what ends). `FairSpec` of the trust stores: nodes announce,
services poll, what is on its way is handled unless it is lost, and discovery
is started again; that the directory is up in the end is a premise of
`EveryNodeGetsTrusted`. `PeersFairSpec`: the timer fires, and `fetch` gives up on
a peer that does not answer. `FairSpec` of the request path: calls that arrive are
handled, and answers that arrive are taken. `MembershipFairness` is the fairness
of each part for the behaviours in which it is the part that moves.
Weak fairness is enough everywhere: none of these steps is
disabled by another process while it is due.

## 4. What is proved

Eight modules hold theorems, checked by TLAPS for every value of the constants
that satisfies the named assumptions: `QueueAssumption`, `HistoryAssumption`
(the bounds are naturals, the capacity is positive, `Nothing` is no payload);
`PipelineAssumption`, `NoItemAssumption` (the same for the pipeline, with any
number of publications and any budget of faults and of `/set` calls);
`ChannelAssumption`, `HandshakeAssumption` (the counter space is positive, the
bounds are naturals, the secrets are those of the two ends' ephemeral keys);
`SignedPacketsAssumption` (the gateway is none of the nodes, clocks differ by
integers); `Ed25519Assumption` (flags and lengths are bytes); `TrustAssumption`
(discovery's own node is one of the nodes, and what is malformed is none);
`KeyDerivationAssumption` (hashes are shorter than blocks, at least one block may be
made, salts and information are sequences of numbers);
`ServicesAssumption`, `MembershipAssumption` (the bounds of the small services are
naturals, those of their tables positive, and `DirectoryAssumption` below);
`ReplicationAssumption` (timestamps are naturals, dumps are maps and sequences of them
or lack a field, and the bus answers no more events than were asked for); `DirectoryAssumption` (the periods are positive, the heartbeat is half
the ttl as in `nz-lib.js`, a call takes less than a heartbeat, the ttl that others send
is a natural or none); `RequestAssumption`
(what a client sends is a path of at most three hops and a sequence of wrappings).

* `BoundedBufferTheorems` – `PushBoundedType`, `PushBoundedElements`,
  `PushBoundedMembers`: push then shift yields a sequence of the same kind, within
  the bound if the old one was, whose elements are the old ones and the new one,
  moved by at most one place. Every other proof about a bounded array uses these.
  `NthNumbers`, `ElementsAtKeeps`: a filter is written as the elements at a set of
  positions, in their order, which is an increasing numbering of that set (by induction
  on its least missing number); so that what it keeps is exactly what fits. Then what
  removal at a place leaves (`SplicedKeeps`), and what the deletions and replacements of
  a table do to its rows (`WithoutKeeps`, `StoredKeeps`, `OldestKeyIsOldest`).

* `ServicesProofs`, the queue – `TypeCorrect`, `MemoryIsBounded`, `QueueHoldsTheEnd`,
  `ConsumersGetWhatWasAccepted`: each queue, under any mix of calls and restarts, is
  the unbroken end of what it accepted (`HoldsTheEnd`), within its bound, and gives
  nothing out twice or wrongly (`GivenWasAccepted`). The inductive invariant `QInv`
  is the conjunction of these with the types. None of them is inductive without the
  others: that a dequeued item is the `gone+1`-st accepted one follows only from the
  shape of the queue before the step, and that exactly one item leaves a full queue
  only from the bound. `QueueImplementsFifo`: `HSpec => Fifo!Spec`. An enqueue maps
  to `Accept`, a dequeue of something to `Take`, a restart to `LoseMemory`; peeks,
  pushes and dequeues of nothing stutter. These four properties are proved and not
  run; the run checks the refinement.

  The other services of `MCServices`, over `ServicesSpec`, from
  `ServicesInv == QInv /\ BusInv /\ MetricsInv /\ StateInv /\ BallotInv`
  (`ServicesTypeCorrect`):
  - `SubscribersAreNotified` (`NotifiedAsSubscribed`), `NewestAreAnswered`
    (`AnswersAreTheNewest`) from `BusInv`: the bus holds the last events published,
    one after the other (`Newest`); who is subscribed has a term that is open, and every
    other term has ended (`InTerm`); the calls made are those the terms cover
    (`Notified`). That a new event is in exactly the open terms ties the three.
  - `MetricsAreOfOneReading` (`MetricsAreFresh`) from `MetricsInv`: what a round has read
    from the bus was the newest up to a place not before its request (`RoundOK`), which
    stays true while the bus moves on; what it publishes counts that (`Counts`).
  - `KeysAreKept` (`KeptUntilCrowdedOut`) from `StateInv`: the table is what was last set,
    and a key set and not in it has as many newer ones as the table takes
    (`CrowdedOut`). The number of newer ones only grows (`Outgrown`) until the key is set
    again; that the oldest entry is the one evicted gives it the first time.
  - `ProposalsFollowReports` (`ProposalsAreAsReported`) from `BallotInv`.

* `HistoryPipelineProofs`, with every fault enabled:
  - `TypeCorrect`, `LoopIsSequential`, `NothingDangles` from
    `PInv == TypeOK /\ OneCallOut /\ Sound`. `TypeOK` alone is not inductive: what
    `DequeueAnswered` and `ActionAnswered` do with an answer depends on the phase of
    the loop, so that an answer of another call would be read as an item.
    `OneCallOut` excludes this: the calls and answers of the current process of rules
    are at most one, and of the kind its phase waits for. `Sound` extends
    `NoDanglingHash` to the messages: a call of `/cas/store` carries a payload whose
    request was signed, an answer 200 of it the hash of that payload, or of what storage
    unwrapped it to, stored (or storage restarted since), and every call or answer that
    carries an item carries a
    founded one. Founded stays founded (`FoundedStays`), because nothing deletes from
    the CAS but a restart.
  - `AnswersAreTrue` (`AnswerTellsTheTruth`) from `AnswersInv`: for each publication,
    what is on the way for it is at most one message, and the one its handler's stage says (`PlaceOf`), its
    `hash_id` is set once the handler is past storage (`HashOf`), and whatever was
    accepted is of a publication with a hash. The property looks only at
    answers; that an answer 500 leaves nothing behind needs to know that no call of an
    earlier stage is still to be handled.
  - `NothingIsDoubled` (`AtMostOnce`) from `OneItemEach` and `OneCallEach`: an item is
    in one place at a time – a call of `/enqueue`, the queue, the answer of a dequeue,
    the evaluations begun – and a sink has been sent it once or not at all, not at all
    as long as the sink is still ahead of the loop. That nothing is retried is what
    makes this inductive.
  - `PipelineImplementsFlow` (`ImplementsFlow`): `Spec => Flow!Spec`. The lemma
    `ItemSteps` sorts the steps into those that enqueue, dequeue, begin an evaluation,
    or leave the items where they are; `InOrder` says that the queue, and what was
    taken from it before what is in it, keep the order of acceptance. The steps of the
    last sort stutter.
  - `OneSnapshotEach` (`ActionsFollowOneSnapshot`) from `SnapshotInv`, which adds that
    while the loop is at a sink, its configuration is one that an evaluation of its
    item read, and names that sink. `StoredRulesAreInForce` (`StoredRuleInForce`).
  - `OnlyFaultsAndFullQueuesLose` (`LostOnlyByFaultOrFullQueue`) from `Undisturbed`: as
    long as nothing was lost and nothing restarted, no answer is 500, and whatever was
    accepted is queued, in hand or evaluated unless the queue overflowed. Faults only
    grow (`NoFault`), so that a state without any is reached by steps without any.
  - `WholeEvaluations` (`EvaluationsAreWhole`) from `WholeInv`: the loop is at the
    evaluation that was begun last (`LastBegun`), every earlier one has sent its item to
    all the sinks its configuration names, and the last one to those before the loop's
    phase (`InTurn`). A sink's log never shifts there, because its items are distinct
    and no more than were accepted.
  - `WaitersAreServed`, what of `NothingHangs` is safety: every handler of `/publish` that
    waits, and the loop, has exactly one message on its way, its call or the answer to it.
    At most one follows from the invariants above; `AwaitInv` adds at least one: a call a fault
    loses leaves an answer in its place, and only a restart of the process that waits
    leaves none.

* `CryptoProofs`, the channel – `ChannelTypeCorrect`, `OpensAsMeant`, `NonceOnce` and
  `KeysMeet` (the two ends understand one another exactly when they are on the same
  secret and in the same epoch; proved and not run), for any set of secrets, any
  counter space and any number of packets. The invariant `CInv` adds to them what
  ties a channel to its packets: its keys are those of its secret and epoch
  (`KeysInPlace`), every packet was sealed with the sending key of the secret and
  epoch it is said to be of (`SentWell`), and under one key the counter is above that
  of every packet sent, each once (`CounterOnce`). `NoncesAreUsedOnce` alone is not
  inductive: that `Encrypt` takes a fresh counter follows only from `CounterOnce`, and
  that `Rekey` may start the counter again only from epochs never coming back under
  the same secret.

* `CryptoProofs`, the handshake – `HandshakeTypeCorrect`, `SecondChannels`
  (`SecondChannelsAreRepeats`), `HandshakeKeepsNonces`, `HandshakeOpensAsMeant`
  (`OpenedAsMeant`) and `OnlyLateAnswersDiffer` (`LateAnswersOnly`), for any number of
  starts, answers and finishes. The invariant `HInv` adds to the types and to `CInv`:
  Bob's secrets are of keys he answered with, each for one hello (`BobsSecrets`); Alice's
  are of answers she took, which were Bob's (`AlicesSecrets`); and hellos are signed by
  whom they are from, who has the secret of each answer (`HellosAreSigned`). Bob's next
  key is therefore of no secret he had, and a secret that Alice has again is of
  an answer in `outcomes`: that the two public keys of a secret determine the answer is
  `SecretsApart` with Bob's one hello for each key. Since a channel may be built on
  any secret at any time, `HandshakeSpec => Spec` (`ChannelsOfHandshakes`), which carries
  the channel's theorems over: `HandshakeKeepsNonces` says that a nonce comes back under
  a key only if the counter went round, or in packets of Alice's after she took an answer
  again.

* `CryptoProofs`, packets – `PacketsAreAcceptedAsBuilt` (`AcceptedAsBuilt`): the invariant
  says that everything built is of one node's making (`BuiltByNodes`) and that each
  acceptance was of a built packet within the skew of its time (`AcceptedInTime`), from
  which the length of the window follows. *Of a built packet* is up to the text of its body
  (`SameMessage`), since the hash that is signed tells no more. The lemma `WireCarries` is
  that sealing, opening and redirecting make no packet another one.

* `CryptoProofs`, signatures – `SignaturesAreBound` (`SignaturesBindTheirMode`): dom2 with its
  flag and length separates modes and contexts for any prefix, bytes and messages,
  by comparing two concatenations byte by byte. Plain messages that begin like dom2 are
  excluded, since the code does sign the same bytes for them (section 5).

* `CryptoProofs`, keys – `KeysAreThoseOfTheReference` (`KeysAreDerived`), for any lengths
  of hashes and blocks, any bound on the blocks and any secrets, salts and information.
  The invariant `DerivationInv` says that the bytes made so far are the beginning of the
  reference's output and that `block` is its last block. That no byte comes twice
  (`NoByteTwice`) is because each block is the HMAC of something that ends with its number
  (`BlocksDiffer`); that other arguments give other keys (`OutputsAgree`) needs to know when
  two HMAC keys are one, which is what `SaltsAgree` says of short, padded and hashed
  salts. The code's indices are met by `Quotients`.

* `CryptoProofs`, the ladder – `LadderIsScalarMultiplication` (`LadderMultiplies`), for any
  odd prime, curve constant, width of a byte and length of the operands. Assumed of them,
  besides their ranges: `P` has no divisors and is no more than the operands can say;
  `FermatAssumption`; `TwistAssumption`; and `GroupAssumption`, that the
  addition of `Plus` stays on the curve and is associative. All are true of
  2^255 - 19 with A24 = 121665. `LadderInv` strengthens the property by what it is silent
  about: the types, the bound on the scalar, and the state for a coordinate that is zero
  in the field, the point of order two, where both denominators are 0 from the first
  round on. The argument is Montgomery's:
  - The code's `inv`, by squaring, is division by Fermat's theorem, which gives cancellation
    and with it equality of ratios: `(x : z)`, reduced or not, stands for one point's first
    coordinate.
  - From the slope formulas of `Plus`, the product of the first coordinates of a sum
    and a difference is a quotient of forms in those of the two points, and the first
    coordinate of a double is one in its own. These are the numbers that a round computes; infinity,
    equal and opposite points are cases of their own.
  - So a round takes the pairs of multiples m and m + 1 to those of 2m + b and 2m + b + 1
    for the bit b, by associativity and because the two differ by the point itself, in
    the order that `swap` tells before and after.
  - Bytes: encoding and decoding are inverse below the capacity, and clamping sets the top
    bit and leaves a multiple of the cofactor.

* `MembershipProofs` – over `MembershipSpec`, from
  `MembershipInv == TInv /\ Registry!TypeOK /\ PeersInv`:
  - `TablesKeepTheirTypes` (`TablesTypeOK`).
  - `CopiesLoseNobody` (`TrustIsKept`, a property of steps) from `TInv`, which says that a
    service whose polls never overlapped waits for one at most (`OnePoll`), and that
    copy, answer on the way and discovery's table are each within the next (`Nested`).
  - `LastHeardAreListed` (`HeardOfLastAreListed`) from `PeersInv`: every row has the time its
    peer was heard at last (`TableAsHeard`), and a peer that was heard of and is not in
    the table has `MAX_PEERS` others heard no earlier (`CrowdedOut`). A merge adds one
    element of a list after the other; the table after each of them is a function
    (`AfterEachIs`), by induction on which a merge keeps the invariant (`MergedKeeps`).

* `ReplicationProofs` – `CopiesKeepTheNewest` (`CopiesAreOfTheNewest`), `AckedRulesStay`
  (`AckedRulesInForce`), and `LatestRuleWinsUntilRefreshed`, which says that the property that
  `replication_rules` finds violated holds of every merge at a node whose rules are not
  the 404 object. For any nodes, dumps and bounds, from `RInv`, the conjunction of the
  parts of these properties with the types of the histories. The hard part is the window:
  that sorting and cutting at every merge leaves what one sort and one cut of everything
  would (`CutAgain`). A sorted sequence is known by how many of its elements are as late
  as each timestamp (`SameCounts`); sorting changes none of these numbers
  (`SortedCounts`), joining adds them (`CountsAdd`), and cutting bounds them
  (`WindowKeeps`).

* `DirectoryProofs` – `StaleEntriesGo` (`NothingStaleListed`), `LiveServicesAreListed`
  (`LiveServiceStaysListed`), `CopiesHaveACause` (`NoCopyWithoutCause`), for any number
  of services and entries and any periods. `DirectoryInv` adds to the types: a process
  has one registration under way at most, and none once it waits or is registered
  (`CallsOK`); entries and registrations still open, of any set of services, are
  no more than their starts and the lost answers (`AccountedFor`: for *any* set,
  since the bound on copies is of one service and the bound on room is of all); the age
  of an entry and the time to the next cleanup are within its ttl and a round, and the ttl
  is the clients' as long as nobody else beat (`AgesOK`); and
  one copy of a registered service will be refreshed before it expires, by a heartbeat
  on its way or one that is due in time (`LiveOK`) – not always the same copy, since a
  heartbeat refreshes the first.

* `RequestPathProofs` – `RequestsAppliedAsVerified` (`AppliedAsVerified`) and
  `PathImplementsRegister` (`ImplementsRegister`), for any requests, ways and wrappings.
  `PathInv` is a statement of one request at a time (`Sound`): one call of it at most is
  still to be handled, the last one made, and has had no effect (`CallOK`); what it
  carries is what was sent without the wrappings opened, each packet of which was well
  signed and accepted once (`Carries`); whoever waits for a leg is at work
  (`WaitingOK`); and an answer on its way back tells the truth about the effect (`Tells`).
  An orphan, a call whose caller has gone, is what makes this hard: a client that was
  told 500 may still see its request take effect, and one that was told 4xx may not.
  `RequestsAreInSomeHand`, what of `EveryRequestIsAnswered` is safety, follows from the same
  invariant: a request without an answer is at one hop, and every hop above it waits.

The step of each invariant is proved action by action, with a lemma per action where
it is long.

## 5. Disagreements with comments and tests

Three of them are runs with one property that TLC finds violated.

* `directory_restart`, property `RunningIsListedAgain`. "Heartbeat failures are
  normal if Directory is restarting" (`lib/nz-lib.js:53`): after a restart the
  directory knows nobody, a heartbeat adds no entry, its answer is not read and
  registration was done once; a running service stays unlisted.
* `replication_rules`, property `LatestRuleWins`. "Merge rules (latest timestamp
  wins)" (`services/replication/index.js:33`): the refresh takes the 404 object
  of the rules service, which has no `/rules`, for the rules; from then on each
  merge throws before it comes to the rules.
* `event_bus_refused`, property `ErrorsAreIgnored`. "ignore errors"
  (`services/event/index.js:37`): the `catch` around `fetch` does not see its
  rejection, which is not awaited; one subscriber that cannot be called ends the
  process, with all events and subscriptions.

The others are how the modules describe the code, and need no search to be seen:

* *Pipeline.* The end-to-end test describes an answered publication as "Publish
  event → CAS + queue" (`tests/integration/end_to_end_rules_pipeline.test.js:69`);
  the handler does not look at the status of `/enqueue`
  (`services/event/server.js:154`), so that a publication answered 200 may never
  reach the queue (`EnqueueAnswered`). "soft-fail, retry on next tick"
  (`services/rules/server.js:111`): the item that a failed tick had taken is not
  tried again; when the answer of `/dequeue` is lost the item is (`LoseReply`).
* *Handshake.* "If verification succeeds on both sides, they derive a shared
  X25519 secret" (`lib/handshake.js:10`): Bob signs his own ephemeral key only, so
  his answer to an earlier start of Alice verifies at a later one and gives her
a secret that he never derived. `LateAnswersOnly` shows that nothing else
  makes the secrets differ. The functions keep nothing, so that a caller which finishes
  twice on one answer, and builds a channel each time, sends two packets with one key and
  nonce: the library leaves it to the caller not to, and `SecondChannelsAreRepeats` says
  that this is the only way.
* *Discovery.* "Directory may be down — ignore"
  (`services/discovery/server.js:88`): the promise of `fetch` is not awaited,
  the `try` around it sees nothing, and the rejection ends the process, with
  its table (`RegistrationRefused`). `EveryNodeGetsTrusted` therefore has to
  assume that the directory is up in the end.
* *Routing.* A message of `/route` has its inner message in `payload`
  (`docs/ARCHITECTURE.md:55-60`), but routing reads `body`
  (`services/routing/server.js:113`): the target gets `{}` (`Forwarded`), and
  metadata answers 400.
* *Sync loop.* "Push/pull replication of state, events, and rules across peers"
  (`README.md:63`): the sync timer asks for its peers at `PORTS.p2p`, which
  `config/ports.js` does not define, and never has any (`SyncTick`).
* *Signed packets.* Repeated packets are accepted within the window, although nonces
  are described (`docs/NZ-CRYPTO-LAYER.md:25-28`): the gateway passes no
  `isNonceSeen` (`PostVerify`). A node that discovery announces
  (`services/discovery/server.js:46`) has the 44 bytes of an SPKI key
  (`lib/generate-node-keys.js:37`), and `ed25519Verify` wants 32 (`lib/ed25519.js:82`):
  `/verify` accepts nothing of it (`SignatureIsOf`). A raw key is of no use to
  `verifyRoutingPacket`, which imports SPKI. And whether the body is an object or the string
  of its JSON is not signed: a packet built with the one is accepted with the other in its
  place (`sha256Hex`), which is why `AcceptedAsBuilt` is of texts.
* *Ed25519.* The ctx and ph modes put dom2 before a message that is then signed plainly
  (`FullMessage`), which RFC 8032 does inside its two hashes: signatures are not those of
  the RFC's ctx and ph.
* *Consensus.* `/verify` compares a proof with the caller's own payload, not the
  proposal's (`Verify`): any payload with its proof accepts whatever proposal stands under the
  id, and any that do not match reject it. `ProposalsAreAsReported` is of statuses only.
  `/proof` of `docs/API.md:93` does not exist.
* *Bus.* JSON's `null` as a body ends the event process (`Breaks`): its parser lacks
  the `parsed &&` that most others have (`services/event/server.js:69`).

## 6. Assumptions and limits

* *Calls end.* See fairness above.
* *An answer arrives whole or not at all*: every handler sends its answer by one
  `res.end`. `forward` and `proxyRequest` listen for an error of the request, not
  of the response, and would wait for ever for the rest of an answer whose
  connection breaks in the middle of it.
* *SHA-256 has no collisions, signatures cannot be forged*: a hash is a record
  of its payload, and a request has a `form` that says whether its signature
  checks.
* *A publication has a number.* `Item.by` is not in the code; it tells two
  publications with the same payload apart.
* *JSON and HTTP parsing* are left out except for the refusals they lead to
  (`RequestBody`). Bodies are read before a handler's synchronous part, so their
  chunks do not interleave with it.
* *Clock.* Ages in `Directory` assume that `Date.now()` does not step back, and
  `StateStore` that milliseconds only go up; in `PeerTable` the clock may be set back,
  and what is lost then is excused.
* *Ciphers are ideal*: a packet opens only with the key, nonce and associated
  data it was sealed with; keys derived from different inputs differ; an X25519
  secret is known by its two ephemeral keys.
* *A node id stands for its key*: announcements are not authenticated, and a
  node that announces another's id is not modelled.
* *A timestamp identifies a write* in `Replication`; rules and events that lack
  one, and fields that are `null`, are left out.
* *Bytes of a digest* in `KeyDerivation` are distinct from one another and from any
  other byte. `node:crypto` ignores the key option of BLAKE2b, and short digests are
  beginnings of the full one; both are modelled as they are.
* *Only model-checked:* liveness and everything under fairness, which these provers do
  not reach (nor `ENABLED`): `NothingHangs`, `AcknowledgedIsEvaluated`,
  `RegistersEventually`, `EveryNodeGetsTrustedAgain`, `ListedAreCalled` and
  `EveryRequestIsAnswered`. What of the first and the last is safety is proved
  (`WaitersAreServed`, `RequestsAreInSomeHand`). Every other property of the passing runs
  is a theorem.
* *Assumed, not proved:* the four facts of mathematics named with the ladder. Of the
  2^255 - 19 elements of the code's field they are known; TLC evaluates them for 29.
* *Partly modelled:* `storage` without its key-value half, `rules` without the values
  stored under other keys, routing packets without the canonical form that is signed,
  the crypto primitives without what `node:crypto` computes and the hash chain of
  `nz-crypto-seed.js`.
* *Not modelled:* `p2p_messaging` (one bounded array, filled by one endpoint and read
  whole), `scheduler` (its server appends to a list; nothing starts the loop of its
  core), `monitoring` and `identity` (nothing that another service depends on), key
  files, health endpoints and the tools, which keep no state.

## 7. Plan

What is left, in the order of what it can show:

1. Proofs: a bound, in time, on the age of a trust copy; that the rounds of a heartbeat
   are of peers the table had.
2. The canonical form that a routing packet signs: that two packets with one form are
   one packet.
3. The key-value half of `storage`, beside the content-addressed one, and
   `p2p_messaging`, as two more parts of `MCServices`.

---------------------------- MODULE SecureChannel ----------------------------
(***************************************************************************)
(* lib/secureChannel.js on the keys of lib/sessionKeys.js: two ends that   *)
(* encrypt to one another, count, and move to fresh keys each on its own.  *)
(* The transport is not part of the code: a packet, once encrypted, may    *)
(* arrive late, out of order, several times, altered, at either end or not *)
(* at all.                                                                 *)
(*                                                                         *)
(* Keys are derived by a hash from the shared secret and a context, the    *)
(* AEAD opens what was sealed with the same key, nonce and associated      *)
(* data: a key is the record of what it is derived from, and a packet      *)
(* carries the key it is sealed with.                                      *)
(***************************************************************************)
EXTENDS Naturals, FiniteSets

CONSTANTS Secret,         \* shared secrets the ends may come by
          Aad,            \* associated data
          Closed,         \* an end that has no channel yet
          COUNTER_SPACE,  \* counters the last four nonce bytes tell apart: 2^32
          MaxEncrypted,   \* model bound: packets each end encrypts
          MaxEpoch,       \* model bound: epochs of a channel
          MaxOpened       \* model bound: packets opened in an epoch

VARIABLES chan,    \* the SecureChannel object of each end
          sent,    \* every packet ever encrypted
          opened,  \* history: what decryptFromPeer returned, and to whom
          used,    \* history: the secrets each end built a channel on
         reused   \* history: those it built more than one channel on

channelVars == <<chan, sent, opened, used, reused>>

Role == {"alice", "bob"}
Peer(r) == IF r = "alice" THEN "bob" ELSE "alice"

SessionKeys == [secret : Secret, epoch : Nat, from : Role]
Channel == [secret : Secret, epoch : Nat, sendCounter : Nat, recvCounter : Nat,
            sendKey : SessionKeys, recvKey : SessionKeys]
Packet == [by : Role, no : Nat, key : SessionKeys, low : Nat, aad : Aad,
           counter : Nat, epoch : Nat]
Receipt == [by : Role, no : Nat, to : Role, secret : Secret, epoch : Nat,
            aad : Aad, intact : BOOLEAN]

ASSUME ChannelAssumption ==
    /\ COUNTER_SPACE \in Nat \ {0}
    /\ MaxEncrypted \in [Role -> Nat] /\ MaxEpoch \in Nat /\ MaxOpened \in Nat
    /\ Closed \notin Channel

TypeOK ==
    /\ chan \in [Role -> Channel \cup {Closed}]
    /\ sent \subseteq Packet
    /\ opened \subseteq Receipt
    /\ used \in [Role -> SUBSET Secret]
    /\ reused \in [Role -> SUBSET Secret]

-----------------------------------------------------------------------------
\* Faulty variant: one context for both directions
DeriveOneWay(secret, epoch, from) == [secret |-> secret, epoch |-> epoch, from |-> "alice"]

\* The keys of one direction: the context is base/epoch-N/alice->bob or .../bob->alice
DeriveSessionKeys(secret, epoch, from) == [secret |-> secret, epoch |-> epoch, from |-> from]

\* The part of the nonce that the base does not fix
MakeNonce(counter) == counter % COUNTER_SPACE

\* _deriveKeysForEpoch on an object with these fields
ChannelOf(r, secret, epoch, send, recv) ==
    [secret |-> secret, epoch |-> epoch, sendCounter |-> send, recvCounter |-> recv,
     sendKey |-> DeriveSessionKeys(secret, epoch, r),
     recvKey |-> DeriveSessionKeys(secret, epoch, Peer(r))]

Encrypted(r) == Cardinality({p \in sent : p.by = r})

Init ==
    /\ chan = [r \in Role |-> Closed]
    /\ sent = {} /\ opened = {}
    /\ used = [r \in Role |-> {}] /\ reused = [r \in Role |-> {}]

\* new SecureChannel({sharedSecret, baseContext, role}): any secret will do, one it was
\* given before included
NewChannel(r, secret) ==
    /\ chan' = [chan EXCEPT ![r] = ChannelOf(r, secret, 0, 1, 1)]
    /\ used' = [used EXCEPT ![r] = @ \cup {secret}]
    /\ reused' = [reused EXCEPT ![r] = @ \cup ({secret} \cap used[r])]
    /\ UNCHANGED <<sent, opened>>

\* Faulty variant: counters start again, the epoch stays
RekeyInPlace(r) ==
    /\ chan[r] # Closed
    /\ chan' = [chan EXCEPT ![r] = ChannelOf(r, @.secret, @.epoch, 1, 1)]
    /\ UNCHANGED <<sent, opened, used, reused>>

\* Faulty variant: the shared secret was wiped after the first derivation
RekeyAfterWipe(r) ==
    /\ chan[r] # Closed /\ chan[r].epoch < MaxEpoch
    /\ chan' = [chan EXCEPT ![r] = ChannelOf(r, Closed, @.epoch + 1, 1, 1)]
    /\ UNCHANGED <<sent, opened, used, reused>>

Rekey(r) ==
    /\ chan[r] # Closed /\ chan[r].epoch < MaxEpoch
    /\ chan' = [chan EXCEPT ![r] = ChannelOf(r, @.secret, @.epoch + 1, 1, 1)]
    /\ UNCHANGED <<sent, opened, used, reused>>

\* encryptToPeer
Encrypt(r, aad) ==
    LET c == chan[r] IN
    /\ c # Closed /\ Encrypted(r) < MaxEncrypted[r]
    /\ sent' = sent \cup {[by |-> r, no |-> Encrypted(r) + 1, key |-> c.sendKey,
                           low |-> MakeNonce(c.sendCounter), aad |-> aad,
                           counter |-> c.sendCounter, epoch |-> c.epoch]}
    /\ chan' = [chan EXCEPT ![r] = [c EXCEPT !.sendCounter = c.sendCounter + 1]]
    /\ UNCHANGED <<opened, used, reused>>

\* The tag is right: same key (so same nonce base), same bytes, same associated data
Accepts(c, p, intact, aad) == intact /\ p.key = c.recvKey /\ p.aad = aad

\* decryptFromPeer
Decrypt(r, p, intact, aad) ==
    LET c == chan[r] IN
    /\ c # Closed /\ Accepts(c, p, intact, aad)
    /\ c.recvCounter <= MaxOpened
    /\ chan' = [chan EXCEPT ![r] = [c EXCEPT !.recvCounter = c.recvCounter + 1]]
    /\ opened' = opened \cup {[by |-> p.by, no |-> p.no, to |-> r, secret |-> c.secret,
                               epoch |-> c.epoch, aad |-> aad, intact |-> intact]}
    /\ UNCHANGED <<sent, used, reused>>

\* Null and no change when the tag of what arrives is wrong
DecryptFails(r) ==
    /\ chan[r] # Closed
    /\ ~\A p \in sent, intact \in BOOLEAN, aad \in Aad : Accepts(chan[r], p, intact, aad)
    /\ UNCHANGED channelVars

ChannelStep ==
    \E r \in Role :
        \/ Rekey(r)
        \/ DecryptFails(r)
        \/ \E aad \in Aad : Encrypt(r, aad)
        \/ \E p \in sent, intact \in BOOLEAN, aad \in Aad : Decrypt(r, p, intact, aad)

Next == ChannelStep \/ \E r \in Role, secret \in Secret : NewChannel(r, secret)

Spec == Init /\ [][Next]_channelVars

-----------------------------------------------------------------------------
(* Whatever decryptFromPeer returns was encrypted by the other end, on the *)
(* same shared secret, in the epoch and with the associated data the       *)
(* receiver is in and asks for, and arrived unaltered: not an end's own    *)
(* packet, not one of an earlier epoch or session.                         *)
OpenedAsMeant ==
    \A o \in opened :
        /\ o.intact /\ o.by = Peer(o.to)
        /\ \E p \in sent : /\ p.by = o.by /\ p.no = o.no
                          /\ p.key.secret = o.secret /\ p.epoch = o.epoch /\ p.aad = o.aad

(* makeNonce in encryptToPeer: under one key a nonce comes back only after *)
(* COUNTER_SPACE packets, however the ends rekey and whatever channels     *)
(* they build, unless the sender built a second channel on one secret: the *)
(* constructor counts from 1 again under the keys it had.                  *)
NoncesAreUsedOnce ==
    \A p, q \in sent : p.key = q.key /\ p.low = q.low /\ p # q =>
        \/ /\ p.counter # q.counter
           /\ p.counter % COUNTER_SPACE = q.counter % COUNTER_SPACE
        \/ p.key.secret \in reused[p.by]

(* Each end rekeys on its own.  The two understand one another exactly     *)
(* when they hold the same secret and are in the same epoch, whatever      *)
(* rekeying happened before and in which order.                            *)
KeysMeetExactly ==
    \A r \in Role : chan[r] # Closed /\ chan[Peer(r)] # Closed =>
        (chan[r].sendKey = chan[Peer(r)].recvKey
            <=> /\ chan[r].secret = chan[Peer(r)].secret
                /\ chan[r].epoch = chan[Peer(r)].epoch)
=============================================================================

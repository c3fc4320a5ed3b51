------------------------------ MODULE Handshake ------------------------------
(***************************************************************************)
(* lib/handshake.js with the channels built on its outcome, as             *)
(* examples/authenticated_secure_channel_demo.js does: Alice signs an      *)
(* ephemeral key, Bob answers with his own and derives the shared secret,  *)
(* Alice verifies the answer and derives hers.  The code leaves transport  *)
(* to the caller: hellos may be late, repeated, altered or lost, and Alice *)
(* may start again when she has waited for too long.  The functions keep   *)
(* nothing between calls: Alice finishes with the secret of whichever      *)
(* start her caller passes, on any answer that arrives, as often as asked. *)
(*                                                                         *)
(* X25519 of one side's secret and the other side's public key is the pair *)
(* of the two keys; a signature names who signed what.                     *)
(***************************************************************************)
EXTENDS SecureChannel

CONSTANTS None,
          MaxStarts,      \* model bound: handshakes Alice starts
          MaxResponds,    \* model bound: hellos Bob answers
          MaxFinishes     \* model bound: answers Alice takes, those she takes again included

VARIABLES started,    \* how often Alice started
          responded,  \* how often Bob answered
          hellos,     \* every hello ever sent
          outcomes,   \* history: the answers Alice took, each with the key she took it for
          repeated    \* history: those she took with the same key more than once

handshakeVars == <<started, responded, hellos, outcomes, repeated>>
vars == <<handshakeVars, channelVars>>

Ephemeral == [by : Role, no : Nat \ {0}]
Altered == [by |-> "alice", no |-> 0]      \* bytes that are nobody's key

\* x25519(secret of mine, public key of theirs)
X25519(mine, theirs) == {mine, theirs}

AliceKeys == [by : {"alice"}, no : 1..MaxStarts]
BobKeys == [by : {"bob"}, no : 1..MaxResponds]

\* The channels are built on the outcomes of the handshake.
ASSUME HandshakeAssumption ==
    /\ MaxStarts \in Nat /\ MaxResponds \in Nat /\ MaxFinishes \in Nat
    /\ Secret = {X25519(a, b) : a \in AliceKeys, b \in BobKeys}
    /\ None \notin Ephemeral

\* "answers" is in no message: it tells which hello an answer belongs to
Hello == [from : Role, eph : Ephemeral \cup {Altered}, answers : Ephemeral \cup {None},
          sig : [by : Role, over : Ephemeral]]

Outcome == [own : AliceKeys, eph : BobKeys, answers : AliceKeys]

HandshakeTypeOK ==
    /\ started \in 0..MaxStarts /\ responded \in 0..MaxResponds
    /\ hellos \subseteq Hello
    /\ outcomes \subseteq Outcome /\ repeated \subseteq outcomes
    /\ TypeOK

HandshakeInit ==
    /\ started = 0 /\ responded = 0
    /\ hellos = {} /\ outcomes = {} /\ repeated = {}
    /\ Init

-----------------------------------------------------------------------------
SignedHello(r, eph, answers) ==
    [from |-> r, eph |-> eph, answers |-> answers, sig |-> [by |-> r, over |-> eph]]

\* Faulty variant: the signature is not looked at
AcceptsAll(h, signer) == TRUE

\* ed25519Verify(LABEL || ephemeral, signature, identity of the signer)
Verified(h, signer) == h.sig = [by |-> signer, over |-> h.eph]

\* What may arrive for a hello: itself, or with other bytes in place of the key
Arrivals(r) ==
    UNION {{h, [h EXCEPT !.eph = Altered]} : h \in {x \in hellos : x.from = r}}

aliceStartHandshake ==
    LET eph == [by |-> "alice", no |-> started + 1] IN
    /\ started < MaxStarts
    /\ started' = started + 1
    /\ hellos' = hellos \cup {SignedHello("alice", eph, None)}
    /\ UNCHANGED <<responded, outcomes, repeated, channelVars>>

\* Faulty variant: Bob keeps one ephemeral key for all handshakes
RespondWithOneKey(h) ==
    LET eph == [by |-> "bob", no |-> 1] IN
    /\ Verified(h, "alice") /\ responded < MaxResponds
    /\ responded' = responded + 1
    /\ hellos' = hellos \cup {SignedHello("bob", eph, h.eph)}
    /\ NewChannel("bob", X25519(eph, h.eph))
    /\ UNCHANGED <<started, outcomes, repeated>>

\* A hello that does not verify is answered by { ok: false } and changes nothing.
bobRespondHandshake(h) ==
    LET eph == [by |-> "bob", no |-> responded + 1] IN
    /\ Verified(h, "alice") /\ responded < MaxResponds
    /\ responded' = responded + 1
    /\ hellos' = hellos \cup {SignedHello("bob", eph, h.eph)}
    /\ NewChannel("bob", X25519(eph, h.eph))
    /\ UNCHANGED <<started, outcomes, repeated>>

\* "own" is the ephemeral key of a start.  Nothing in the answer says which hello it
\* belongs to, and nothing that it was taken before.
aliceFinishHandshake(own, h) ==
    LET taken == [own |-> own, eph |-> h.eph, answers |-> h.answers] IN
    /\ own.no <= started /\ Verified(h, "bob")
    /\ Cardinality(outcomes) + Cardinality(repeated) < MaxFinishes
    /\ NewChannel("alice", X25519(own, h.eph))
    /\ outcomes' = outcomes \cup {taken}
    /\ repeated' = repeated \cup ({taken} \cap outcomes)
    /\ UNCHANGED <<started, responded, hellos>>

HandshakeRefused(h, signer) ==
    ~Verified(h, signer) /\ UNCHANGED vars

HandshakeNext ==
    \/ aliceStartHandshake
    \/ \E h \in Arrivals("alice") : bobRespondHandshake(h) \/ HandshakeRefused(h, "alice")
    \/ \E h \in Arrivals("bob") : \/ \E own \in AliceKeys : aliceFinishHandshake(own, h)
                                \/ HandshakeRefused(h, "bob")
    \/ ChannelStep /\ UNCHANGED handshakeVars

HandshakeSpec == HandshakeInit /\ [][HandshakeNext]_vars

-----------------------------------------------------------------------------
(* However hellos are repeated and reordered, Bob never builds a second    *)
(* channel on a secret, and Alice builds one only by finishing once more   *)
(* on an answer with the key she already finished that answer with.  Then, *)
(* and only then, nonces come back.                                        *)
SecondChannelsAreRepeats ==
    /\ reused["bob"] = {}
    /\ \A s \in reused["alice"] : \E o \in repeated : s = X25519(o.own, o.eph)

(* aliceFinishHandshake: a verified handshake that ends in a secret which  *)
(* Bob does not have has taken the answer to another start.                *)
LateAnswersOnly ==
    chan["alice"] # Closed /\ chan["alice"].secret \notin used["bob"] =>
        \E o \in outcomes : /\ chan["alice"].secret = X25519(o.own, o.eph)
                            /\ o.answers # o.own
=============================================================================

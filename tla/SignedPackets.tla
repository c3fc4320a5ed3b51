---------------------------- MODULE SignedPackets ----------------------------
(***************************************************************************)
(* Signed and sealed packets (buildSignedPacket, verifySignedPacket,       *)
(* encryptPacket, decryptPacket of lib/nz-crypto.js over                   *)
(* lib/chacha20poly1305.js) and the gateway's POST /verify, which opens    *)
(* sealed ones, verifies, and looks up no nonce (isNonceSeen: null).       *)
(*                                                                         *)
(* Hashes, signatures and seals are of what they were made from; a body is *)
(* hashed as text, which an object shares with its JSON in a string.       *)
(* A packet may be delivered any number of times, late, and with fields    *)
(* changed on the way.  Nodes' clocks are off by a constant number of      *)
(* seconds.                                                                *)
(***************************************************************************)
EXTENDS Integers, FiniteSets

CONSTANTS Node, Body, Gateway,
          Text,        \* body: what is hashed of it, a string as it is and an object as its JSON
          Offset,      \* node: its clock minus the gateway's
          SessionKey,  \* keys packets are sealed with
          GatewayKey,  \* the gateway's
          MaxSkew,     \* 300 s
          MaxClock,    \* model bound: seconds
          MaxBuilt,    \* model bound: packets
          MaxAccepted  \* model bound: packets answered 200

ASSUME SignedPacketsAssumption ==
    /\ Gateway \notin Node /\ GatewayKey \in SessionKey /\ DOMAIN Text = Body
    /\ Offset \in [Node -> Int] /\ MaxSkew \in Nat /\ MaxClock \in Nat
    /\ MaxBuilt \in Nat /\ MaxAccepted \in Nat

VARIABLES clock,      \* the gateway's
          knownNodes, \* the gateway's: the form of the key of each node in the table
          built,      \* history: packets as their nodes made them
          accepted    \* history: packets answered 200, and when

packetVars == <<clock, knownNodes, built, accepted>>

sha256Hex(body) == [hashOf |-> Text[body]]

\* The additional data of a seal: "sender->receiver"
SenderAndReceiver(from, to) == <<from, to>>

PacketsInit ==
    /\ clock = 0 /\ knownNodes = [n \in Node |-> "none"]
    /\ built = {} /\ accepted = {}

-----------------------------------------------------------------------------
(* On a node *)

buildSignedPacket(n, body) ==
    LET nonce == Cardinality(built) + 1
        auth == [node_id |-> n, timestamp |-> clock + Offset[n], nonce |-> nonce,
                 body_hash |-> sha256Hex(body)]
        packet == [auth |-> auth, signature |-> [by |-> n, over |-> auth], body |-> body]
    IN /\ nonce <= MaxBuilt
       /\ built' = built \cup {packet}
       /\ UNCHANGED <<clock, knownNodes, accepted>>

\* ChaCha20-Poly1305; every call takes a nonce of its own.
encrypt(key, packet, aad) == [key |-> key, aad |-> aad, packet |-> packet]

encryptPacket(p, key, from, to) ==
    [sealed |-> TRUE, sender |-> from, receiver |-> to,
     seal |-> encrypt(key, p, SenderAndReceiver(from, to))]

(* On the way, where a packet can be kept, changed, sealed anew and delivered again *)

Tampered(p) ==
    {[p EXCEPT !.body = b] : b \in Body}
    \cup {[p EXCEPT !.body = b, !.auth.body_hash = sha256Hex(b)] : b \in Body}
    \cup {[p EXCEPT !.auth.node_id = n] : n \in Node}
    \cup {[p EXCEPT !.auth.timestamp = clock]}

Bare(p) == [sealed |-> FALSE, packet |-> p]
Sealed(p) == {encryptPacket(p, key, n, Gateway) : key \in SessionKey, n \in Node}
Misdirected(w) == {[w EXCEPT !.sender = n] : n \in Node} \cup {[w EXCEPT !.receiver = n] : n \in Node}

\* Packets that may be on the way, built or altered, and what they may be delivered as
InTransit == built \cup UNION {Tampered(p) : p \in built}
Wire(p) == {Bare(p)} \cup Sealed(p) \cup UNION {Misdirected(w) : w \in Sealed(p)}

-----------------------------------------------------------------------------
(* At the gateway *)

\* What a seal opens to: nothing under another key or with other additional data
decrypt(key, seal, aad) == IF seal.key = key /\ seal.aad = aad THEN {seal.packet} ELSE {}

\* When nothing opens, decryptPacket throws.
decryptPacket(w) == decrypt(GatewayKey, w.seal, SenderAndReceiver(w.sender, w.receiver))

\* A key in another form than the raw one verifies nothing.
SignatureIsOf(p) ==
    knownNodes[p.auth.node_id] = "raw" /\ p.signature = [by |-> p.auth.node_id, over |-> p.auth]

\* Faulty variant: the hash is taken from the packet
VerifiesWithoutBody(p) ==
    /\ clock - p.auth.timestamp \in -MaxSkew..MaxSkew
    /\ knownNodes[p.auth.node_id] # "none"
    /\ SignatureIsOf(p)

\* verifySignedPacket
Verifies(p) ==
    /\ clock - p.auth.timestamp \in -MaxSkew..MaxSkew
    /\ sha256Hex(p.body) = p.auth.body_hash
    /\ knownNodes[p.auth.node_id] # "none"
    /\ SignatureIsOf(p)

\* POST /verify answers 200; the packet may come again.
PostVerify(w) ==
    /\ Cardinality(accepted) < MaxAccepted
    /\ \E p \in IF w.sealed THEN decryptPacket(w) ELSE {w.packet} :
           /\ Verifies(p)
           /\ accepted' = accepted \cup {[packet |-> p, at |-> clock]}
           /\ UNCHANGED <<clock, knownNodes, built>>

\* updateKnownNodes: the table is discovery's, in which nodes come and go.  Discovery
\* itself announces its key in the spki form; others may announce theirs in the raw one.
TableChanges(n) ==
    /\ \E form \in {"none", "raw", "spki"} : knownNodes' = [knownNodes EXCEPT ![n] = form]
    /\ UNCHANGED <<clock, built, accepted>>

Second == clock < MaxClock /\ clock' = clock + 1 /\ UNCHANGED <<knownNodes, built, accepted>>

PacketsNext ==
    \/ \E n \in Node, body \in Body : buildSignedPacket(n, body)
    \/ \E p \in InTransit : \E w \in Wire(p) : PostVerify(w)
    \/ \E n \in Node : TableChanges(n)
    \/ Second

PacketsSpec == PacketsInit /\ [][PacketsNext]_packetVars

-----------------------------------------------------------------------------
\* One signed message, with bodies of one text
SameMessage(p, q) ==
    p.auth = q.auth /\ p.signature = q.signature /\ Text[p.body] = Text[q.body]

(* Every packet the gateway accepts, sealed or not, was made by the node   *)
(* it names, with a body of that text, whatever was changed, repeated or   *)
(* delayed on the way; and a message that keeps coming, in one form of its *)
(* body or another, is accepted for one window of twice the allowed skew   *)
(* (POST /verify, verifySignedPacket).  The form of the body is not signed.*)
AcceptedAsBuilt ==
    \A a \in accepted :
        /\ \E p \in built : SameMessage(a.packet, p)
        /\ \A b \in accepted : SameMessage(a.packet, b.packet) => a.at - b.at <= 2 * MaxSkew
=============================================================================

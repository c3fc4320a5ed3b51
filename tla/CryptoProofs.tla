---------------------------- MODULE CryptoProofs ----------------------------
(***************************************************************************)
(* Theorems about the cryptographic library.                               *)
(*                                                                         *)
(* SecureChannel, for any secrets, any bound on packets and epochs and any *)
(* size of the counter field, and Handshake, for any number of starts and  *)
(* answers.  The invariant of the channels says that keys are those of the *)
(* secret and epoch of their owner, and that the packets of a session's    *)
(* current epoch have counters below the end's own, unless the end built a *)
(* second channel on the session's secret.  That of the handshake says that*)
(* Bob's secrets are each of a key he made for one hello, and Alice's each *)
(* of an answer she took: so Bob builds no second channel, and Alice only  *)
(* by taking an answer again.  What is shown of channels holds of those.   *)
(*                                                                         *)
(* SignedPackets: what the gateway's POST /verify accepts, for any nodes,  *)
(* bodies, keys and clocks, and any number of packets.  Ed25519: signatures*)
(* in a context and of hashes, for any bytes, prefix and lengths: dom2     *)
(* separates them, because it says how long the context is.                *)
(*                                                                         *)
(* KeyDerivation: keys of any length, from any salts and information, for  *)
(* any lengths of hashes and blocks and any bound on the blocks.  Blocks   *)
(* are told apart by the counter each ends with.                           *)
(*                                                                         *)
(* X25519: the ladder, for any prime, curve, width of a byte and length of *)
(* the operands.  The invariant says that before every round the two pairs *)
(* stand for consecutive multiples of the point, the one of the bits taken *)
(* so far and the next, in the order that swap tells; a round doubles one  *)
(* and adds the two, which differ by the point itself.  What it takes from *)
(* mathematics are assumptions of the module: P is prime, powers by P - 1  *)
(* are 1, every x is on the curve or its twist, and addition of points is  *)
(* closed and associative.                                                 *)
(***************************************************************************)
EXTENDS X25519, Handshake, SignedPackets, Ed25519, KeyDerivation, FiniteSetTheorems,
        SequenceTheorems, WellFoundedInduction, TLAPS

-----------------------------------------------------------------------------
\* The channels

\* The keys in place are those of the end's secret, epoch and role.
KeysInPlace ==
    \A r \in Role : chan[r] # Closed =>
        /\ chan[r].sendKey = DeriveSessionKeys(chan[r].secret, chan[r].epoch, r)
        /\ chan[r].recvKey = DeriveSessionKeys(chan[r].secret, chan[r].epoch, Peer(r))
        /\ chan[r].secret \in used[r]

\* A packet's counter is behind its sender's, as long as the session lasts and is the
\* only one on its secret.
Behind(p) ==
    LET c == chan[p.by] IN
    /\ c # Closed
    /\ p.key.secret = c.secret /\ p.key.secret \notin reused[p.by] =>
           p.epoch < c.epoch \/ (p.epoch = c.epoch /\ p.counter < c.sendCounter)

SentWell ==
    \A p \in sent :
        /\ p.key = DeriveSessionKeys(p.key.secret, p.epoch, p.by)
        /\ p.low = MakeNonce(p.counter)
        /\ p.key.secret \in used[p.by]
        /\ Behind(p)

CounterOnce ==
    \A p, q \in sent :
        p.key = q.key /\ p.counter = q.counter => p = q \/ p.key.secret \in reused[p.by]

CInv ==
    /\ TypeOK /\ IsFiniteSet(sent)
    /\ KeysInPlace /\ SentWell /\ CounterOnce /\ OpenedAsMeant

-----------------------------------------------------------------------------
LEMMA KeysType ==
    ASSUME NEW s \in Secret, NEW e \in Nat, NEW r \in Role
    PROVE  DeriveSessionKeys(s, e, r) \in SessionKeys /\ Peer(r) \in Role
BY DEF DeriveSessionKeys, SessionKeys, Role, Peer

LEMMA ChannelOfType ==
    ASSUME NEW s \in Secret, NEW e \in Nat, NEW n \in Nat, NEW m \in Nat, NEW r \in Role
    PROVE  ChannelOf(r, s, e, n, m) \in Channel
<1>1. /\ DeriveSessionKeys(s, e, r) \in SessionKeys
      /\ DeriveSessionKeys(s, e, Peer(r)) \in SessionKeys
  BY KeysType
<1> QED
  BY <1>1 DEF ChannelOf, Channel

\* What the two counters' increments leave alone
LEMMA Counting ==
    ASSUME NEW c \in Channel, NEW n \in Nat
    PROVE  /\ [c EXCEPT !.sendCounter = n] \in Channel
           /\ [c EXCEPT !.recvCounter = n] \in Channel
           /\ [c EXCEPT !.sendCounter = n].sendCounter = n
           /\ \A d \in {[c EXCEPT !.sendCounter = n], [c EXCEPT !.recvCounter = n]} :
                  /\ d.secret = c.secret /\ d.epoch = c.epoch
                  /\ d.sendKey = c.sendKey /\ d.recvKey = c.recvKey
           /\ [c EXCEPT !.recvCounter = n].sendCounter = c.sendCounter
BY DEF Channel

LEMMA NonceType == ASSUME ChannelAssumption, NEW n \in Nat PROVE MakeNonce(n) \in Nat
BY DEF ChannelAssumption, MakeNonce

LEMMA EncryptedType == IsFiniteSet(sent) => \A r \in Role : Encrypted(r) \in Nat
<1> SUFFICES ASSUME IsFiniteSet(sent), NEW r \in Role PROVE Encrypted(r) \in Nat
  OBVIOUS
<1> DEFINE S == {p \in sent : p.by = r}
<1>1. IsFiniteSet(S)
  BY FS_Subset
<1>2. Cardinality(S) \in Nat
  BY <1>1, FS_CardinalityType
<1> QED
  BY <1>2 DEF Encrypted

\* The record's key fields determine secret, epoch and direction.
LEMMA KeysApart ==
    ASSUME NEW s, NEW e, NEW r, NEW z, NEW f, NEW q,
           DeriveSessionKeys(s, e, r) = DeriveSessionKeys(z, f, q)
    PROVE  s = z /\ e = f /\ r = q
<1>1. /\ DeriveSessionKeys(s, e, r).secret = s /\ DeriveSessionKeys(z, f, q).secret = z
      /\ DeriveSessionKeys(s, e, r).epoch = e /\ DeriveSessionKeys(z, f, q).epoch = f
      /\ DeriveSessionKeys(s, e, r).from = r /\ DeriveSessionKeys(z, f, q).from = q
  BY DEF DeriveSessionKeys
<1> QED
  BY <1>1

LEMMA InitOK == ASSUME ChannelAssumption, Init PROVE CInv
<1>1. IsFiniteSet(sent)
  BY FS_EmptySet DEF Init
<1>2. TypeOK
  BY DEF Init, TypeOK
<1>3. KeysInPlace /\ SentWell /\ CounterOnce /\ OpenedAsMeant
  BY DEF Init, KeysInPlace, SentWell, CounterOnce, OpenedAsMeant
<1> QED
  BY <1>1, <1>2, <1>3 DEF CInv

\* A new channel: its secret is new to this end, hence to all of its packets, or it is
\* now one the end built a second channel on.
LEMMA OpenStep ==
    ASSUME ChannelAssumption, CInv, NEW r \in Role, NEW secret \in Secret, NewChannel(r, secret)
    PROVE  CInv'
<1> DEFINE c == ChannelOf(r, secret, 0, 1, 1)
<1>1. c \in Channel /\ c # Closed
  BY ChannelOfType DEF ChannelAssumption
<1>2. /\ chan' = [chan EXCEPT ![r] = c]
      /\ used' = [used EXCEPT ![r] = used[r] \cup {secret}]
      /\ reused' = [reused EXCEPT ![r] = reused[r] \cup ({secret} \cap used[r])]
      /\ sent' = sent /\ opened' = opened
  BY DEF NewChannel
<1>3. /\ chan \in [Role -> Channel \cup {Closed}]
      /\ used \in [Role -> SUBSET Secret] /\ reused \in [Role -> SUBSET Secret]
      /\ sent \subseteq Packet /\ opened \subseteq Receipt
  BY DEF CInv, TypeOK
<1>4. /\ chan'[r] = c
      /\ used'[r] = used[r] \cup {secret}
      /\ reused'[r] = reused[r] \cup ({secret} \cap used[r])
      /\ \A q \in Role : q # r => /\ chan'[q] = chan[q] /\ used'[q] = used[q]
                                /\ reused'[q] = reused[q]
  BY <1>2, <1>3
<1>5. /\ c.secret = secret
      /\ c.sendKey = DeriveSessionKeys(secret, 0, r)
      /\ c.recvKey = DeriveSessionKeys(secret, 0, Peer(r))
      /\ c.epoch = 0
  BY DEF ChannelOf
<1> HIDE DEF c
<1>6. TypeOK'
  <2>1. chan' \in [Role -> Channel \cup {Closed}]
    BY <1>1, <1>2, <1>3
  <2>2. used' \in [Role -> SUBSET Secret] /\ reused' \in [Role -> SUBSET Secret]
    BY <1>2, <1>3
  <2> QED
    BY <1>2, <1>3, <2>1, <2>2 DEF TypeOK
<1>7. KeysInPlace'
  <2> SUFFICES ASSUME NEW q \in Role, chan'[q] # Closed
               PROVE  /\ chan'[q].sendKey = DeriveSessionKeys(chan'[q].secret, chan'[q].epoch, q)
                      /\ chan'[q].recvKey
                             = DeriveSessionKeys(chan'[q].secret, chan'[q].epoch, Peer(q))
                      /\ chan'[q].secret \in used'[q]
    BY DEF KeysInPlace
  <2>1. CASE q = r
    BY <2>1, <1>4, <1>5
  <2>2. CASE q # r
    BY <2>2, <1>4 DEF CInv, KeysInPlace
  <2> QED
    BY <2>1, <2>2
<1>8. SentWell'
  <2> SUFFICES ASSUME NEW p \in sent
               PROVE  /\ p.key = DeriveSessionKeys(p.key.secret, p.epoch, p.by)
                      /\ p.low = MakeNonce(p.counter)
                      /\ p.key.secret \in used'[p.by]
                      /\ Behind(p)'
    BY <1>2 DEF SentWell
  <2>1. /\ p.key = DeriveSessionKeys(p.key.secret, p.epoch, p.by)
        /\ p.low = MakeNonce(p.counter)
        /\ p.key.secret \in used[p.by]
        /\ Behind(p)
    BY DEF CInv, SentWell
  <2>2. p.by \in Role
    BY <1>3 DEF Packet
  <2>3. CASE p.by = r
    <3>1. p.key.secret = secret => p.key.secret \in reused'[r]
      BY <2>1, <2>3, <1>4
    <3> QED
      BY <2>1, <2>3, <3>1, <1>1, <1>4, <1>5 DEF Behind
  <2>4. CASE p.by # r
    BY <2>1, <2>2, <2>4, <1>4 DEF Behind
  <2> QED
    BY <2>1, <2>3, <2>4
<1>9. CounterOnce'
  <2>1. \A p \in sent : reused[p.by] \subseteq reused'[p.by]
    BY <1>3, <1>4 DEF Packet
  <2> QED
    BY <1>2, <2>1 DEF CInv, CounterOnce
<1>10. OpenedAsMeant' /\ IsFiniteSet(sent)'
  BY <1>2 DEF CInv, OpenedAsMeant
<1> QED
  BY <1>6, <1>7, <1>8, <1>9, <1>10 DEF CInv

\* Rekeying moves past every packet of the epoch it leaves.
LEMMA RekeyStep ==
    ASSUME ChannelAssumption, CInv, NEW r \in Role, Rekey(r)
    PROVE  CInv'
<1>1. /\ chan \in [Role -> Channel \cup {Closed}]
      /\ used \in [Role -> SUBSET Secret] /\ reused \in [Role -> SUBSET Secret]
      /\ sent \subseteq Packet /\ opened \subseteq Receipt
  BY DEF CInv, TypeOK
<1>2. /\ chan[r] \in Channel
      /\ chan[r].secret \in Secret /\ chan[r].epoch \in Nat
  BY <1>1 DEF Rekey, Channel
<1> DEFINE c == ChannelOf(r, chan[r].secret, chan[r].epoch + 1, 1, 1)
<1>3. chan[r].epoch + 1 \in Nat
  BY <1>2
<1>4. c \in Channel /\ c # Closed
  BY <1>2, <1>3, ChannelOfType DEF ChannelAssumption
<1>5. /\ chan' = [chan EXCEPT ![r] = c]
      /\ chan[r] # Closed
      /\ sent' = sent /\ opened' = opened /\ used' = used /\ reused' = reused
  BY DEF Rekey
<1>6. chan'[r] = c /\ \A q \in Role : q # r => chan'[q] = chan[q]
  BY <1>1, <1>5
<1>7. /\ c.secret = chan[r].secret /\ c.epoch = chan[r].epoch + 1
      /\ c.sendKey = DeriveSessionKeys(chan[r].secret, chan[r].epoch + 1, r)
      /\ c.recvKey = DeriveSessionKeys(chan[r].secret, chan[r].epoch + 1, Peer(r))
  BY DEF ChannelOf
<1> HIDE DEF c
<1>8. TypeOK'
  <2>1. chan' \in [Role -> Channel \cup {Closed}]
    BY <1>1, <1>4, <1>5
  <2> QED
    BY <1>1, <1>5, <2>1 DEF TypeOK
<1>9. KeysInPlace'
  <2> SUFFICES ASSUME NEW q \in Role, chan'[q] # Closed
               PROVE  /\ chan'[q].sendKey = DeriveSessionKeys(chan'[q].secret, chan'[q].epoch, q)
                      /\ chan'[q].recvKey
                             = DeriveSessionKeys(chan'[q].secret, chan'[q].epoch, Peer(q))
                      /\ chan'[q].secret \in used[q]
    BY <1>5 DEF KeysInPlace
  <2>1. CASE q = r
    BY <2>1, <1>5, <1>6, <1>7 DEF CInv, KeysInPlace
  <2>2. CASE q # r
    BY <2>2, <1>6 DEF CInv, KeysInPlace
  <2> QED
    BY <2>1, <2>2
<1>10. SentWell'
  <2> SUFFICES ASSUME NEW p \in sent PROVE Behind(p)'
    BY <1>5 DEF CInv, SentWell
  <2>1. Behind(p)
    BY DEF CInv, SentWell
  <2>2. p.by \in Role /\ p.epoch \in Nat
    BY <1>1 DEF Packet
  <2>3. CASE p.by = r
    <3>1. p.key.secret = chan[r].secret /\ p.key.secret \notin reused[r] =>
              p.epoch < chan[r].epoch \/ p.epoch = chan[r].epoch
      BY <2>1, <2>3 DEF Behind
    <3>2. p.key.secret = chan[r].secret /\ p.key.secret \notin reused[r] =>
              p.epoch < chan[r].epoch + 1
      BY <1>2, <2>2, <3>1
    <3> QED
      BY <2>3, <3>2, <1>4, <1>5, <1>6, <1>7 DEF Behind
  <2>4. CASE p.by # r
    BY <2>1, <2>2, <2>4, <1>5, <1>6 DEF Behind
  <2> QED
    BY <2>3, <2>4
<1>11. CounterOnce' /\ OpenedAsMeant' /\ IsFiniteSet(sent)'
  BY <1>5 DEF CInv, CounterOnce, OpenedAsMeant
<1> QED
  BY <1>8, <1>9, <1>10, <1>11 DEF CInv

\* One more packet: its counter is the sender's, and the sender moves on.
LEMMA EncryptStep ==
    ASSUME ChannelAssumption, CInv, NEW r \in Role, NEW aad \in Aad, Encrypt(r, aad)
    PROVE  CInv'
<1> DEFINE c == chan[r]
           d == [c EXCEPT !.sendCounter = c.sendCounter + 1]
           packet == [by |-> r, no |-> Encrypted(r) + 1, key |-> c.sendKey,
                      low |-> MakeNonce(c.sendCounter), aad |-> aad,
                      counter |-> c.sendCounter, epoch |-> c.epoch]
<1>1. /\ chan \in [Role -> Channel \cup {Closed}]
      /\ used \in [Role -> SUBSET Secret] /\ reused \in [Role -> SUBSET Secret]
      /\ sent \subseteq Packet /\ opened \subseteq Receipt
  BY DEF CInv, TypeOK
<1>2. /\ c # Closed
      /\ sent' = sent \cup {packet}
      /\ chan' = [chan EXCEPT ![r] = d]
      /\ opened' = opened /\ used' = used /\ reused' = reused
  BY DEF Encrypt
<1>3. c \in Channel
  BY <1>1, <1>2
<1>4. /\ c.secret \in Secret /\ c.epoch \in Nat /\ c.sendCounter \in Nat
      /\ c.sendKey \in SessionKeys
  BY <1>3 DEF Channel
<1>5. c.sendCounter + 1 \in Nat /\ c.sendCounter < c.sendCounter + 1
  BY <1>4
<1>6. /\ d \in Channel /\ d.sendCounter = c.sendCounter + 1
      /\ d.secret = c.secret /\ d.epoch = c.epoch
      /\ d.sendKey = c.sendKey /\ d.recvKey = c.recvKey
  BY <1>3, <1>5, Counting
<1>7. /\ c.sendKey = DeriveSessionKeys(c.secret, c.epoch, r)
      /\ c.recvKey = DeriveSessionKeys(c.secret, c.epoch, Peer(r))
      /\ c.secret \in used[r]
  BY <1>2 DEF CInv, KeysInPlace
<1>8. packet \in Packet
  <2>1. Encrypted(r) \in Nat
    BY EncryptedType DEF CInv
  <2>2. Encrypted(r) + 1 \in Nat
    BY <2>1
  <2>3. MakeNonce(c.sendCounter) \in Nat
    BY <1>4, NonceType
  <2> QED
    BY <1>4, <2>2, <2>3 DEF Packet
<1>9. PICK new \in Packet :
          /\ new = packet
          /\ new.by = r /\ new.key = c.sendKey /\ new.low = MakeNonce(c.sendCounter)
          /\ new.counter = c.sendCounter /\ new.epoch = c.epoch
  BY <1>8
<1>10. c.sendKey.secret = c.secret
  BY <1>7 DEF DeriveSessionKeys
<1> HIDE DEF d, packet
<1>11. chan'[r] = d /\ \A q \in Role : q # r => chan'[q] = chan[q]
  BY <1>1, <1>2
<1>12. d # Closed
  BY <1>6 DEF ChannelAssumption
<1>13. TypeOK' /\ IsFiniteSet(sent)'
  <2>1. chan' \in [Role -> Channel \cup {Closed}]
    BY <1>1, <1>2, <1>6
  <2>2. sent' \subseteq Packet
    BY <1>1, <1>2, <1>9
  <2>3. IsFiniteSet(sent')
    BY <1>2, FS_AddElement DEF CInv
  <2> QED
    BY <1>1, <1>2, <2>1, <2>2, <2>3 DEF TypeOK
<1>14. KeysInPlace'
  <2> SUFFICES ASSUME NEW q \in Role, chan'[q] # Closed
               PROVE  /\ chan'[q].sendKey = DeriveSessionKeys(chan'[q].secret, chan'[q].epoch, q)
                      /\ chan'[q].recvKey
                             = DeriveSessionKeys(chan'[q].secret, chan'[q].epoch, Peer(q))
                      /\ chan'[q].secret \in used[q]
    BY <1>2 DEF KeysInPlace
  <2>1. CASE q = r
    BY <2>1, <1>6, <1>7, <1>11
  <2>2. CASE q # r
    BY <2>2, <1>11 DEF CInv, KeysInPlace
  <2> QED
    BY <2>1, <2>2
<1>15. ASSUME NEW p \in sent PROVE Behind(p)'
  <2>1. Behind(p)
    BY DEF CInv, SentWell
  <2>2. p.by \in Role /\ p.counter \in Nat
    BY <1>1 DEF Packet
  <2>3. CASE p.by = r
    <3>1. p.key.secret = c.secret /\ p.key.secret \notin reused[r] =>
              p.epoch < c.epoch \/ (p.epoch = c.epoch /\ p.counter < c.sendCounter)
      BY <2>1, <2>3 DEF Behind
    <3>2. p.counter < c.sendCounter => p.counter < c.sendCounter + 1
      BY <1>4, <2>2
    <3> HIDE DEF c
    <3> QED
      BY <2>3, <3>1, <3>2, <1>2, <1>6, <1>11, <1>12 DEF Behind
  <2>4. CASE p.by # r
    BY <2>1, <2>2, <2>4, <1>2, <1>11 DEF Behind
  <2> QED
    BY <2>3, <2>4
<1>16. Behind(new)'
  <2>1. chan'[new.by] = d /\ d # Closed
    BY <1>9, <1>11, <1>12
  <2>2. new.epoch = d.epoch /\ new.counter < d.sendCounter
    BY <1>5, <1>6, <1>9
  <2> HIDE DEF c
  <2> QED
    BY <2>1, <2>2 DEF Behind
<1>17. SentWell'
  <2>1. ASSUME NEW p \in sent
        PROVE  /\ p.key = DeriveSessionKeys(p.key.secret, p.epoch, p.by)
               /\ p.low = MakeNonce(p.counter)
               /\ p.key.secret \in used[p.by]
               /\ Behind(p)'
    BY <1>15 DEF CInv, SentWell
  <2>2. /\ new.key = DeriveSessionKeys(new.key.secret, new.epoch, new.by)
        /\ new.low = MakeNonce(new.counter)
        /\ new.key.secret \in used[new.by]
        /\ Behind(new)'
    BY <1>7, <1>9, <1>10, <1>16
  <2>3. \A p \in sent \cup {new} :
            /\ p.key = DeriveSessionKeys(p.key.secret, p.epoch, p.by)
            /\ p.low = MakeNonce(p.counter)
            /\ p.key.secret \in used[p.by]
            /\ Behind(p)'
    BY <2>1, <2>2
  <2> QED
    BY <2>3, <1>2, <1>9 DEF SentWell
<1>18. ASSUME NEW p \in sent, p.key = new.key, p.counter = new.counter
       PROVE  p.by = r /\ p.key.secret \in reused[r]
  <2>1. /\ p.key = DeriveSessionKeys(p.key.secret, p.epoch, p.by)
        /\ Behind(p)
    BY DEF CInv, SentWell
  <2>2. DeriveSessionKeys(p.key.secret, p.epoch, p.by) = DeriveSessionKeys(c.secret, c.epoch, r)
    BY <1>7, <1>9, <1>18, <2>1
  <2>3. p.key.secret = c.secret /\ p.epoch = c.epoch /\ p.by = r
    BY <2>2, KeysApart
  <2>4. p.key.secret \notin reused[r] => p.epoch < c.epoch \/ p.counter < c.sendCounter
    BY <2>1, <2>3 DEF Behind
  <2> QED
    BY <2>3, <2>4, <1>4, <1>9, <1>18
<1>19. CounterOnce'
  <2>1. sent' = sent \cup {new} /\ reused' = reused
    BY <1>2, <1>9
  <2>2. ASSUME NEW p \in sent \cup {new}, NEW q \in sent \cup {new},
               p.key = q.key, p.counter = q.counter, p # q
        PROVE  p.key.secret \in reused[p.by]
    <3>1. CASE p \in sent /\ q \in sent
      BY <2>2, <3>1 DEF CInv, CounterOnce
    <3>2. CASE p \in sent /\ q = new
      BY <2>2, <3>2, <1>18
    <3>3. CASE p = new /\ q \in sent
      <4>1. q.by = r /\ q.key.secret \in reused[r]
        BY <2>2, <3>3, <1>18
      <4> QED
        BY <2>2, <3>3, <4>1, <1>9
    <3> QED
      BY <2>2, <3>1, <3>2, <3>3
  <2> QED
    BY <2>1, <2>2 DEF CounterOnce
<1>20. OpenedAsMeant'
  BY <1>2 DEF CInv, OpenedAsMeant
<1> QED
  BY <1>13, <1>14, <1>17, <1>19, <1>20 DEF CInv

\* What opens is a packet of the other end's, in the same session and epoch.
LEMMA DecryptStep ==
    ASSUME ChannelAssumption, CInv, NEW r \in Role, NEW p \in sent,
           NEW intact \in BOOLEAN, NEW aad \in Aad, Decrypt(r, p, intact, aad)
    PROVE  CInv'
<1> DEFINE c == chan[r]
           d == [c EXCEPT !.recvCounter = c.recvCounter + 1]
           new == [by |-> p.by, no |-> p.no, to |-> r, secret |-> c.secret,
                   epoch |-> c.epoch, aad |-> aad, intact |-> intact]
<1>1. /\ chan \in [Role -> Channel \cup {Closed}]
      /\ used \in [Role -> SUBSET Secret] /\ reused \in [Role -> SUBSET Secret]
      /\ sent \subseteq Packet /\ opened \subseteq Receipt
  BY DEF CInv, TypeOK
<1>2. /\ c # Closed
      /\ intact /\ p.key = c.recvKey /\ p.aad = aad
      /\ chan' = [chan EXCEPT ![r] = d]
      /\ opened' = opened \cup {new}
      /\ sent' = sent /\ used' = used /\ reused' = reused
  BY DEF Decrypt, Accepts
<1>3. c \in Channel
  BY <1>1, <1>2
<1>4. /\ c.secret \in Secret /\ c.epoch \in Nat /\ c.recvCounter \in Nat
  BY <1>3 DEF Channel
<1>5. c.recvCounter + 1 \in Nat
  BY <1>4
<1>6. /\ d \in Channel /\ d.sendCounter = c.sendCounter
      /\ d.secret = c.secret /\ d.epoch = c.epoch
      /\ d.sendKey = c.sendKey /\ d.recvKey = c.recvKey
  BY <1>3, <1>5, Counting
<1>7. /\ c.sendKey = DeriveSessionKeys(c.secret, c.epoch, r)
      /\ c.recvKey = DeriveSessionKeys(c.secret, c.epoch, Peer(r))
      /\ c.secret \in used[r]
  BY <1>2 DEF CInv, KeysInPlace
<1>8. new \in Receipt
  BY <1>1, <1>4 DEF Receipt, Packet
<1> HIDE DEF d
<1>9. chan'[r] = d /\ \A q \in Role : q # r => chan'[q] = chan[q]
  BY <1>1, <1>2
<1>10. d # Closed
  BY <1>6 DEF ChannelAssumption
<1>11. TypeOK' /\ IsFiniteSet(sent)'
  <2>1. chan' \in [Role -> Channel \cup {Closed}]
    BY <1>1, <1>2, <1>6
  <2>2. opened' \subseteq Receipt
    BY <1>1, <1>2, <1>8
  <2> QED
    BY <1>1, <1>2, <2>1, <2>2 DEF TypeOK, CInv
<1>12. KeysInPlace'
  <2> SUFFICES ASSUME NEW q \in Role, chan'[q] # Closed
               PROVE  /\ chan'[q].sendKey = DeriveSessionKeys(chan'[q].secret, chan'[q].epoch, q)
                      /\ chan'[q].recvKey
                             = DeriveSessionKeys(chan'[q].secret, chan'[q].epoch, Peer(q))
                      /\ chan'[q].secret \in used[q]
    BY <1>2 DEF KeysInPlace
  <2>1. CASE q = r
    BY <2>1, <1>6, <1>7, <1>9
  <2>2. CASE q # r
    BY <2>2, <1>9 DEF CInv, KeysInPlace
  <2> QED
    BY <2>1, <2>2
<1>13. SentWell'
  <2> SUFFICES ASSUME NEW x \in sent PROVE Behind(x)'
    BY <1>2 DEF CInv, SentWell
  <2>1. Behind(x)
    BY DEF CInv, SentWell
  <2>2. x.by \in Role
    BY <1>1 DEF Packet
  <2>3. CASE x.by = r
    BY <2>1, <2>3, <1>2, <1>6, <1>9, <1>10 DEF Behind
  <2>4. CASE x.by # r
    BY <2>1, <2>2, <2>4, <1>2, <1>9 DEF Behind
  <2> QED
    BY <2>3, <2>4
<1>14. CounterOnce'
  BY <1>2 DEF CInv, CounterOnce
<1>15. p.by = Peer(r) /\ p.key.secret = c.secret /\ p.epoch = c.epoch
  <2>1. p.key = DeriveSessionKeys(p.key.secret, p.epoch, p.by)
    BY DEF CInv, SentWell
  <2>2. DeriveSessionKeys(p.key.secret, p.epoch, p.by)
            = DeriveSessionKeys(c.secret, c.epoch, Peer(r))
    BY <1>2, <1>7, <2>1
  <2> QED
    BY <2>2, KeysApart
<1>16. OpenedAsMeant'
  <2>1. /\ new.intact /\ new.by = Peer(new.to)
        /\ p.by = new.by /\ p.no = new.no
        /\ p.key.secret = new.secret /\ p.epoch = new.epoch /\ p.aad = new.aad
    BY <1>2, <1>15
  <2> HIDE DEF new
  <2> QED
    BY <1>2, <2>1 DEF CInv, OpenedAsMeant
<1> QED
  BY <1>11, <1>12, <1>13, <1>14, <1>16 DEF CInv

LEMMA Stutter == CInv /\ UNCHANGED channelVars => CInv'
BY DEF CInv, channelVars, TypeOK, KeysInPlace, SentWell, Behind, CounterOnce, OpenedAsMeant

LEMMA Inductive ==
    ASSUME ChannelAssumption, CInv, [Next]_channelVars
    PROVE  CInv'
<1>1. CASE UNCHANGED channelVars
  BY <1>1, Stutter
<1>2. ASSUME NEW r \in Role, NEW secret \in Secret, NewChannel(r, secret) PROVE CInv'
  BY <1>2, OpenStep
<1>3. ASSUME NEW r \in Role, Rekey(r) PROVE CInv'
  BY <1>3, RekeyStep
<1>4. ASSUME NEW r \in Role, NEW aad \in Aad, Encrypt(r, aad) PROVE CInv'
  BY <1>4, EncryptStep
<1>5. ASSUME NEW r \in Role, NEW p \in sent, NEW intact \in BOOLEAN, NEW aad \in Aad,
             Decrypt(r, p, intact, aad)
      PROVE  CInv'
  BY <1>5, DecryptStep
<1>6. ASSUME NEW r \in Role, DecryptFails(r) PROVE CInv'
  BY <1>6, Stutter DEF DecryptFails
<1> QED
  BY <1>1, <1>2, <1>3, <1>4, <1>5, <1>6 DEF Next, ChannelStep

LEMMA Invariance == Spec => []CInv
<1>1. Init => CInv
  BY InitOK, ChannelAssumption
<1>2. CInv /\ [Next]_channelVars => CInv'
  BY Inductive, ChannelAssumption
<1> QED
  BY <1>1, <1>2, PTL DEF Spec

-----------------------------------------------------------------------------
(* The channel objects, packets and histories keep their types.            *)
THEOREM ChannelTypeCorrect == Spec => []TypeOK
<1>1. CInv => TypeOK
  BY DEF CInv
<1> QED
  BY <1>1, Invariance, PTL

(* decryptFromPeer returns only what the other end encrypted in the same   *)
(* session and epoch with the same associated data.                        *)
THEOREM OpensAsMeant == Spec => []OpenedAsMeant
<1>1. CInv => OpenedAsMeant
  BY DEF CInv
<1> QED
  BY <1>1, Invariance, PTL

(* encryptToPeer repeats a nonce under a key only when its counter has gone *)
(* round the four bytes it has in the nonce, or when the sender built a     *)
(* second channel on one secret, however often both ends rekey and whatever *)
(* channels they build.                                                     *)
THEOREM NonceOnce == Spec => []NoncesAreUsedOnce
<1>1. CInv => NoncesAreUsedOnce
  <2> SUFFICES ASSUME CInv, NEW p \in sent, NEW q \in sent,
                      p.key = q.key, p.low = q.low, p # q
               PROVE  \/ /\ p.counter # q.counter
                         /\ p.counter % COUNTER_SPACE = q.counter % COUNTER_SPACE
                      \/ p.key.secret \in reused[p.by]
    BY DEF NoncesAreUsedOnce
  <2>1. p.counter # q.counter \/ p.key.secret \in reused[p.by]
    BY DEF CInv, CounterOnce
  <2>2. p.low = MakeNonce(p.counter) /\ q.low = MakeNonce(q.counter)
    BY DEF CInv, SentWell
  <2>3. p.counter % COUNTER_SPACE = q.counter % COUNTER_SPACE
    BY <2>2 DEF MakeNonce
  <2> QED
    BY <2>1, <2>3
<1> QED
  BY <1>1, Invariance, PTL

(* The two ends understand one another exactly when they are on the same    *)
(* secret and in the same epoch, in whatever order they rekeyed.            *)
THEOREM KeysMeet == Spec => []KeysMeetExactly
<1>1. CInv => KeysMeetExactly
  <2> SUFFICES ASSUME CInv, NEW r \in Role, chan[r] # Closed, chan[Peer(r)] # Closed
               PROVE  chan[r].sendKey = chan[Peer(r)].recvKey
                          <=> /\ chan[r].secret = chan[Peer(r)].secret
                              /\ chan[r].epoch = chan[Peer(r)].epoch
    BY DEF KeysMeetExactly
  <2>1. Peer(r) \in Role /\ Peer(Peer(r)) = r
    BY DEF Role, Peer
  <2>2. /\ chan[r].sendKey = DeriveSessionKeys(chan[r].secret, chan[r].epoch, r)
        /\ chan[Peer(r)].recvKey
               = DeriveSessionKeys(chan[Peer(r)].secret, chan[Peer(r)].epoch, r)
    BY <2>1 DEF CInv, KeysInPlace
  <2> QED
    BY <2>2, KeysApart
<1> QED
  BY <1>1, Invariance, PTL

-----------------------------------------------------------------------------
\* The handshake

\* Bob's secrets are of keys he has answered with, each for one hello.
BobsSecrets ==
    /\ \A s \in used["bob"] : \E a \in AliceKeys, b \in BobKeys :
           s = X25519(a, b) /\ b.no <= responded
    /\ \A a, c \in AliceKeys, b \in BobKeys :
           X25519(a, b) \in used["bob"] /\ X25519(c, b) \in used["bob"] => a = c

\* Alice's are of the answers she took, and those were Bob's.
AlicesSecrets ==
    /\ \A s \in used["alice"] : \E o \in outcomes : s = X25519(o.own, o.eph)
    /\ \A o \in outcomes : X25519(o.answers, o.eph) \in used["bob"]

\* A hello is signed, and Bob has the secret of each he sent.
HellosAreSigned ==
    \A h \in hellos :
        /\ h.sig = [by |-> h.from, over |-> h.eph]
        /\ h.from = "alice" => h.eph \in AliceKeys
        /\ h.from = "bob" => /\ h.eph \in BobKeys /\ h.answers \in AliceKeys
                             /\ X25519(h.answers, h.eph) \in used["bob"]

HInv ==
    /\ HandshakeTypeOK /\ CInv
    /\ BobsSecrets /\ AlicesSecrets /\ HellosAreSigned /\ SecondChannelsAreRepeats

-----------------------------------------------------------------------------
\* A secret determines the two keys it is of.
LEMMA SecretsApart ==
    ASSUME NEW a \in AliceKeys, NEW b \in BobKeys, NEW c \in AliceKeys, NEW d \in BobKeys,
           X25519(a, b) = X25519(c, d)
    PROVE  a = c /\ b = d
<1>1. a # b /\ a # d /\ c # b /\ c # d
  BY DEF AliceKeys, BobKeys
<1> QED
  BY <1>1 DEF X25519

LEMMA Commutes == ASSUME NEW a, NEW b PROVE X25519(a, b) = X25519(b, a)
BY DEF X25519

LEMMA KeysAreEphemeral ==
    /\ AliceKeys \subseteq Ephemeral /\ BobKeys \subseteq Ephemeral
    /\ Altered \notin AliceKeys \cup BobKeys
BY DEF AliceKeys, BobKeys, Ephemeral, Altered, Role

\* What verifies is as it was sent: other bytes are not what was signed.
LEMMA VerifiedIsSent ==
    ASSUME HInv, NEW r \in Role, NEW h \in Arrivals(r), Verified(h, r)
    PROVE  h \in hellos /\ h.from = r
<1>1. PICK x \in hellos : x.from = r /\ h \in {x, [x EXCEPT !.eph = Altered]}
  BY DEF Arrivals
<1>2. CASE h = x
  BY <1>1, <1>2
<1>3. CASE h = [x EXCEPT !.eph = Altered]
  <2>1. x \in Hello
    BY <1>1 DEF HInv, HandshakeTypeOK
  <2>2. h.eph = Altered /\ h.sig = x.sig
    BY <1>3, <2>1 DEF Hello
  <2>3. x.sig.over = x.eph
    <3>1. x.sig = [by |-> x.from, over |-> x.eph]
      BY DEF HInv, HellosAreSigned
    <3> QED
      BY <3>1
  <2>4. h.sig.over = h.eph
    <3>1. h.sig = [by |-> r, over |-> h.eph]
      BY DEF Verified
    <3> QED
      BY <3>1
  <2>5. x.eph \in AliceKeys \cup BobKeys
    BY <1>1 DEF HInv, HellosAreSigned, Role
  <2> QED
    BY <2>2, <2>3, <2>4, <2>5, KeysAreEphemeral
<1> QED
  BY <1>1, <1>2, <1>3

-----------------------------------------------------------------------------
LEMMA HandshakeInitOK == ASSUME HandshakeInit PROVE HInv
<1>1. CInv
  BY InitOK, ChannelAssumption DEF HandshakeInit
<1>2. HandshakeTypeOK
  BY <1>1, HandshakeAssumption DEF HandshakeInit, HandshakeTypeOK, CInv
<1>3. BobsSecrets /\ AlicesSecrets /\ HellosAreSigned /\ SecondChannelsAreRepeats
  BY DEF HandshakeInit, Init, BobsSecrets, AlicesSecrets, HellosAreSigned,
         SecondChannelsAreRepeats, Role
<1> QED
  BY <1>1, <1>2, <1>3 DEF HInv

LEMMA StartStep == ASSUME HInv, aliceStartHandshake PROVE HInv'
<1> DEFINE eph == [by |-> "alice", no |-> started + 1]
           hello == SignedHello("alice", eph, None)
<1> USE DEF HInv, aliceStartHandshake
<1>1. started \in Nat /\ started + 1 \in 1..MaxStarts /\ eph \in AliceKeys
  BY HandshakeAssumption DEF HandshakeTypeOK, AliceKeys
<1>2. CInv'
  BY Stutter
<1>3. hello \in Hello
  BY <1>1, KeysAreEphemeral DEF SignedHello, Hello, Role
<1>4. HandshakeTypeOK'
  BY <1>1, <1>2, <1>3, HandshakeAssumption DEF HandshakeTypeOK, CInv
<1>5. used' = used /\ reused' = reused
  BY DEF channelVars
<1>6. BobsSecrets' /\ AlicesSecrets' /\ SecondChannelsAreRepeats'
  BY <1>5 DEF BobsSecrets, AlicesSecrets, SecondChannelsAreRepeats
<1>7. HellosAreSigned'
  <2>1. hello.sig = [by |-> "alice", over |-> eph] /\ hello.from = "alice" /\ hello.eph = eph
    BY DEF SignedHello
  <2> QED
    BY <1>1, <1>5, <2>1 DEF HellosAreSigned
<1> QED
  BY <1>2, <1>4, <1>6, <1>7

\* Bob's key is new, and with it his secret.
LEMMA BobOpens ==
    ASSUME HInv, NEW h \in Arrivals("alice"), bobRespondHandshake(h)
    PROVE  LET eph == [by |-> "bob", no |-> responded + 1] IN
           /\ h.eph \in AliceKeys /\ eph \in BobKeys
           /\ X25519(h.eph, eph) \in Secret
           /\ NewChannel("bob", X25519(h.eph, eph))
           /\ \A a \in AliceKeys : X25519(a, eph) \notin used["bob"]
<1> DEFINE eph == [by |-> "bob", no |-> responded + 1]
<1> USE DEF bobRespondHandshake
<1>1. h \in hellos /\ h.from = "alice"
  BY VerifiedIsSent DEF Role
<1>2. h.eph \in AliceKeys
  BY <1>1 DEF HInv, HellosAreSigned
<1>3. responded \in Nat /\ eph \in BobKeys
  BY HandshakeAssumption DEF HInv, HandshakeTypeOK, BobKeys
<1>4. X25519(eph, h.eph) = X25519(h.eph, eph) /\ X25519(h.eph, eph) \in Secret
  BY <1>2, <1>3, Commutes, HandshakeAssumption
<1>5. ASSUME NEW c \in AliceKeys, X25519(c, eph) \in used["bob"] PROVE FALSE
  <2>1. PICK a \in AliceKeys, b \in BobKeys : X25519(c, eph) = X25519(a, b) /\ b.no <= responded
    BY <1>5 DEF HInv, BobsSecrets
  <2>2. b = eph
    BY <1>3, <2>1, SecretsApart
  <2> QED
    BY <1>3, <2>1, <2>2
<1> QED
  BY <1>2, <1>3, <1>4, <1>5

\* Alice's is one she had, or is new.
LEMMA AliceOpens ==
    ASSUME HInv, NEW own \in AliceKeys, NEW h \in Arrivals("bob"), aliceFinishHandshake(own, h)
    PROVE  /\ h \in hellos /\ h.from = "bob" /\ h.eph \in BobKeys /\ h.answers \in AliceKeys
           /\ X25519(own, h.eph) \in Secret
           /\ NewChannel("alice", X25519(own, h.eph))
<1> USE DEF aliceFinishHandshake
<1>1. h \in hellos /\ h.from = "bob"
  BY VerifiedIsSent DEF Role
<1>2. h.eph \in BobKeys /\ h.answers \in AliceKeys
  BY <1>1 DEF HInv, HellosAreSigned
<1>3. X25519(own, h.eph) \in Secret
  BY <1>2, HandshakeAssumption
<1> QED
  BY <1>1, <1>2, <1>3

LEMMA RespondStep ==
    ASSUME HInv, NEW h \in Arrivals("alice"), bobRespondHandshake(h)
    PROVE  HInv'
<1> DEFINE eph == [by |-> "bob", no |-> responded + 1]
           hello == SignedHello("bob", eph, h.eph)
           secret == X25519(h.eph, eph)
<1> USE DEF HInv, bobRespondHandshake
<1>1. /\ h.eph \in AliceKeys /\ eph \in BobKeys /\ secret \in Secret
      /\ NewChannel("bob", secret)
      /\ \A a \in AliceKeys : X25519(a, eph) \notin used["bob"]
  BY BobOpens
<1>2. CInv'
  BY <1>1, OpenStep, ChannelAssumption DEF Role
<1>3. /\ used' = [used EXCEPT !["bob"] = used["bob"] \cup {secret}]
      /\ reused' = [reused EXCEPT !["bob"] = reused["bob"] \cup ({secret} \cap used["bob"])]
      /\ used \in [Role -> SUBSET Secret] /\ reused \in [Role -> SUBSET Secret]
  BY <1>1 DEF NewChannel, HandshakeTypeOK, TypeOK
<1>4. /\ used'["alice"] = used["alice"] /\ reused'["alice"] = reused["alice"]
      /\ used'["bob"] = used["bob"] \cup {secret}
      /\ reused'["bob"] = reused["bob"]
  BY <1>1, <1>3 DEF Role
<1>5. responded \in Nat /\ responded + 1 \in 0..MaxResponds
  BY HandshakeAssumption DEF HandshakeTypeOK
<1>6. HandshakeTypeOK'
  <2>1. hello \in Hello
    BY <1>1, KeysAreEphemeral DEF SignedHello, Hello, Role
  <2> QED
    BY <1>2, <1>5, <2>1 DEF HandshakeTypeOK, CInv
<1>7. BobsSecrets'
  <2>1. ASSUME NEW s \in used'["bob"]
        PROVE  \E a \in AliceKeys, b \in BobKeys : s = X25519(a, b) /\ b.no <= responded + 1
    <3>1. CASE s = secret
      BY <1>1, <1>5, <3>1
    <3>2. CASE s \in used["bob"]
      <4>1. PICK a \in AliceKeys, b \in BobKeys : s = X25519(a, b) /\ b.no <= responded
        BY <3>2 DEF BobsSecrets
      <4>2. b.no <= responded + 1
        BY <1>5, <4>1 DEF BobKeys
      <4> QED
        BY <4>1, <4>2
    <3> QED
      BY <1>4, <2>1, <3>1, <3>2
  <2>2. ASSUME NEW a \in AliceKeys, NEW c \in AliceKeys, NEW b \in BobKeys,
               X25519(a, b) \in used'["bob"], X25519(c, b) \in used'["bob"]
        PROVE  a = c
    <3>1. CASE b = eph
      <4>1. X25519(a, b) = secret /\ X25519(c, b) = secret
        BY <1>1, <1>4, <2>2, <3>1
      <4> QED
        BY <4>1, SecretsApart
    <3>2. CASE b # eph
      <4>1. X25519(a, b) # secret /\ X25519(c, b) # secret
        BY <1>1, <3>2, SecretsApart
      <4> QED
        BY <1>4, <2>2, <4>1 DEF BobsSecrets
    <3> QED
      BY <3>1, <3>2
  <2> QED
    BY <2>1, <2>2 DEF BobsSecrets
<1>8. AlicesSecrets' /\ SecondChannelsAreRepeats'
  BY <1>4 DEF AlicesSecrets, SecondChannelsAreRepeats
<1>9. HellosAreSigned'
  <2>1. /\ hello.sig = [by |-> "bob", over |-> eph] /\ hello.from = "bob"
        /\ hello.eph = eph /\ hello.answers = h.eph
    BY DEF SignedHello
  <2> QED
    BY <1>1, <1>4, <2>1 DEF HellosAreSigned
<1> QED
  BY <1>2, <1>6, <1>7, <1>8, <1>9

\* A secret Alice has again is of an answer she took before: Bob made its key for one
\* hello only.
LEMMA FinishStep ==
    ASSUME HInv, NEW own \in AliceKeys, NEW h \in Arrivals("bob"), aliceFinishHandshake(own, h)
    PROVE  HInv'
<1> DEFINE secret == X25519(own, h.eph)
           taken == [own |-> own, eph |-> h.eph, answers |-> h.answers]
<1> USE DEF HInv, aliceFinishHandshake
<1>1. /\ h \in hellos /\ h.from = "bob" /\ h.eph \in BobKeys /\ h.answers \in AliceKeys
      /\ secret \in Secret /\ NewChannel("alice", secret)
  BY AliceOpens
<1>2. CInv'
  BY <1>1, OpenStep, ChannelAssumption DEF Role
<1>3. /\ used' = [used EXCEPT !["alice"] = used["alice"] \cup {secret}]
      /\ reused' = [reused EXCEPT !["alice"] = reused["alice"] \cup ({secret} \cap used["alice"])]
      /\ used \in [Role -> SUBSET Secret] /\ reused \in [Role -> SUBSET Secret]
  BY <1>1 DEF NewChannel, HandshakeTypeOK, TypeOK
<1>4. /\ used'["bob"] = used["bob"] /\ reused'["bob"] = reused["bob"]
      /\ used'["alice"] = used["alice"] \cup {secret}
      /\ reused'["alice"] = reused["alice"] \cup ({secret} \cap used["alice"])
  BY <1>3 DEF Role
<1>5. /\ taken \in Outcome
      /\ taken.own = own /\ taken.eph = h.eph /\ taken.answers = h.answers
      /\ outcomes' = outcomes \cup {taken}
      /\ repeated' = repeated \cup ({taken} \cap outcomes)
      /\ outcomes \subseteq Outcome
  BY <1>1 DEF Outcome, HandshakeTypeOK
<1>6. X25519(h.answers, h.eph) \in used["bob"]
  BY <1>1 DEF HellosAreSigned
<1> HIDE DEF taken
<1>7. HandshakeTypeOK'
  BY <1>2, <1>5 DEF HandshakeTypeOK, CInv
<1>8. BobsSecrets' /\ HellosAreSigned'
  BY <1>4 DEF BobsSecrets, HellosAreSigned
<1>9. AlicesSecrets'
  <2>1. \A s \in used'["alice"] : \E o \in outcomes' : s = X25519(o.own, o.eph)
    BY <1>4, <1>5 DEF AlicesSecrets
  <2>2. \A o \in outcomes' : X25519(o.answers, o.eph) \in used'["bob"]
    BY <1>4, <1>5, <1>6 DEF AlicesSecrets
  <2> QED
    BY <2>1, <2>2 DEF AlicesSecrets
<1>10. ASSUME secret \in used["alice"] PROVE taken \in outcomes
  <2>1. PICK o \in outcomes : secret = X25519(o.own, o.eph)
    BY <1>10 DEF AlicesSecrets
  <2>2. o.own \in AliceKeys /\ o.eph \in BobKeys /\ o.answers \in AliceKeys
    BY <1>5 DEF Outcome
  <2>3. o.own = own /\ o.eph = h.eph
    BY <1>1, <2>1, <2>2, SecretsApart
  <2>4. o.answers = h.answers
    BY <1>1, <1>6, <2>2, <2>3 DEF AlicesSecrets, BobsSecrets
  <2>5. o = taken
    BY <1>5, <2>3, <2>4 DEF Outcome
  <2> QED
    BY <2>5
<1>11. SecondChannelsAreRepeats'
  <2>1. ASSUME NEW s \in reused'["alice"] PROVE \E o \in repeated' : s = X25519(o.own, o.eph)
    <3>1. CASE s \in reused["alice"]
      BY <1>5, <3>1 DEF SecondChannelsAreRepeats
    <3>2. CASE s = secret /\ secret \in used["alice"]
      BY <1>5, <1>10, <3>2
    <3> QED
      BY <1>4, <2>1, <3>1, <3>2
  <2> QED
    BY <1>4, <2>1 DEF SecondChannelsAreRepeats
<1> QED
  BY <1>2, <1>7, <1>8, <1>9, <1>11

\* What the channels do leaves the handshake and the secrets as they are.
LEMMA ChannelStepOK ==
    ASSUME HInv, ChannelStep, UNCHANGED handshakeVars
    PROVE  HInv'
<1> USE DEF HInv, handshakeVars
<1>1. CInv'
  BY Inductive, ChannelAssumption DEF Next
<1>2. used' = used /\ reused' = reused
  BY DEF ChannelStep, Rekey, Encrypt, Decrypt, DecryptFails, channelVars
<1>3. HandshakeTypeOK'
  BY <1>1 DEF HandshakeTypeOK, CInv
<1>4. BobsSecrets' /\ AlicesSecrets' /\ HellosAreSigned' /\ SecondChannelsAreRepeats'
  BY <1>2 DEF BobsSecrets, AlicesSecrets, HellosAreSigned, SecondChannelsAreRepeats
<1> QED
  BY <1>1, <1>3, <1>4

LEMMA NothingMoves == ASSUME HInv, UNCHANGED vars PROVE HInv'
<1>1. CInv'
  BY Stutter DEF HInv, vars
<1> QED
  BY <1>1 DEF HInv, vars, handshakeVars, channelVars, CInv, HandshakeTypeOK, TypeOK,
              BobsSecrets, AlicesSecrets, HellosAreSigned, SecondChannelsAreRepeats

\* Every step of the handshake keeps the invariant, and is a step of the channels.
LEMMA HandshakeStep ==
    ASSUME HInv, [HandshakeNext]_vars
    PROVE  HInv' /\ [Next]_channelVars
<1>1. CASE aliceStartHandshake
  BY <1>1, StartStep DEF aliceStartHandshake
<1>2. ASSUME NEW h \in Arrivals("alice"), bobRespondHandshake(h)
      PROVE  HInv' /\ [Next]_channelVars
  <2>1. \E secret \in Secret : NewChannel("bob", secret)
    BY <1>2, BobOpens
  <2> QED
    BY <1>2, <2>1, RespondStep DEF Next, Role
<1>3. ASSUME NEW own \in AliceKeys, NEW h \in Arrivals("bob"), aliceFinishHandshake(own, h)
      PROVE  HInv' /\ [Next]_channelVars
  <2>1. \E secret \in Secret : NewChannel("alice", secret)
    BY <1>3, AliceOpens
  <2> QED
    BY <1>3, <2>1, FinishStep DEF Next, Role
<1>4. CASE ChannelStep /\ UNCHANGED handshakeVars
  BY <1>4, ChannelStepOK DEF Next
<1>5. CASE UNCHANGED vars
  BY <1>5, NothingMoves DEF vars
<1> QED
  BY <1>1, <1>2, <1>3, <1>4, <1>5 DEF HandshakeNext, HandshakeRefused

LEMMA HandshakeInvariance == HandshakeSpec => []HInv
<1>1. HandshakeInit => HInv
  BY HandshakeInitOK
<1>2. HInv /\ [HandshakeNext]_vars => HInv'
  BY HandshakeStep
<1> QED
  BY <1>1, <1>2, PTL DEF HandshakeSpec

-----------------------------------------------------------------------------
(* lib/handshake.js keeps the types of its keys, hellos and outcomes.      *)
THEOREM HandshakeTypeCorrect == HandshakeSpec => []HandshakeTypeOK
<1>1. HInv => HandshakeTypeOK
  BY DEF HInv
<1> QED
  BY <1>1, HandshakeInvariance, PTL

(* Every hello and every answer repeated, delayed and reordered, Bob builds *)
(* no second channel on a secret, and Alice one only on the answer and key  *)
(* she finished with before (bobRespondHandshake, aliceFinishHandshake).    *)
THEOREM SecondChannels == HandshakeSpec => []SecondChannelsAreRepeats
<1>1. HInv => SecondChannelsAreRepeats
  BY DEF HInv
<1> QED
  BY <1>1, HandshakeInvariance, PTL

\* Whatever the outcomes of handshakes, the ends are a secure channel.
LEMMA ChannelsOfHandshakes == HandshakeSpec => Spec
<1>1. HandshakeInit => Init
  BY DEF HandshakeInit
<1>2. HInv /\ [HandshakeNext]_vars => [Next]_channelVars
  BY HandshakeStep
<1> QED
  BY <1>1, <1>2, HandshakeInvariance, PTL DEF HandshakeSpec, Spec

\* A nonce comes back when the counter has gone round, or to Alice when she took an answer
\* again.
NoncesComeBackByRepeats ==
    \A p, q \in sent : p.key = q.key /\ p.low = q.low /\ p # q =>
        \/ /\ p.counter # q.counter
           /\ p.counter % COUNTER_SPACE = q.counter % COUNTER_SPACE
        \/ /\ p.by = "alice"
           /\ \E o \in repeated : p.key.secret = X25519(o.own, o.eph)

(* Channels built on handshakes repeat a nonce under a key within the       *)
(* counter's range only if the sender is Alice, and she took one answer     *)
(* again with the same key: Bob's packets never do.                         *)
THEOREM HandshakeKeepsNonces == HandshakeSpec => []NoncesComeBackByRepeats
<1>1. HInv /\ NoncesAreUsedOnce => NoncesComeBackByRepeats
  <2> SUFFICES ASSUME HInv, NoncesAreUsedOnce, NEW p \in sent, NEW q \in sent,
                      p.key = q.key, p.low = q.low, p # q
               PROVE  \/ /\ p.counter # q.counter
                         /\ p.counter % COUNTER_SPACE = q.counter % COUNTER_SPACE
                      \/ /\ p.by = "alice"
                         /\ \E o \in repeated : p.key.secret = X25519(o.own, o.eph)
    BY DEF NoncesComeBackByRepeats
  <2>1. \/ /\ p.counter # q.counter
           /\ p.counter % COUNTER_SPACE = q.counter % COUNTER_SPACE
        \/ p.key.secret \in reused[p.by]
    BY DEF NoncesAreUsedOnce
  <2>2. p.by \in Role
    BY DEF HInv, CInv, TypeOK, Packet
  <2> QED
    BY <2>1, <2>2 DEF HInv, SecondChannelsAreRepeats, Role
<1> QED
  BY <1>1, HandshakeInvariance, ChannelsOfHandshakes, NonceOnce, PTL

(* What channels built on handshakes return was sealed by the peer, for     *)
(* this secret, epoch and associated data, repeated handshakes included.    *)
COROLLARY HandshakeOpensAsMeant == HandshakeSpec => []OpenedAsMeant
BY ChannelsOfHandshakes, OpensAsMeant, PTL

(* A verified handshake ends in a secret that Bob does not have only when  *)
(* Alice took the answer to another start (aliceFinishHandshake).          *)
THEOREM OnlyLateAnswersDiffer == HandshakeSpec => []LateAnswersOnly
<1>1. HInv => LateAnswersOnly
  <2> SUFFICES ASSUME HInv, chan["alice"] # Closed, chan["alice"].secret \notin used["bob"]
               PROVE  \E o \in outcomes : /\ chan["alice"].secret = X25519(o.own, o.eph)
                                          /\ o.answers # o.own
    BY DEF LateAnswersOnly
  <2>1. chan["alice"].secret \in used["alice"]
    BY DEF HInv, CInv, KeysInPlace, Role
  <2>2. PICK o \in outcomes : chan["alice"].secret = X25519(o.own, o.eph)
    BY <2>1 DEF HInv, AlicesSecrets
  <2>3. X25519(o.answers, o.eph) \in used["bob"]
    BY DEF HInv, AlicesSecrets
  <2> QED
    BY <2>2, <2>3
<1> QED
  BY <1>1, HandshakeInvariance, PTL

-----------------------------------------------------------------------------
\* Packets

\* A packet as buildSignedPacket makes it
Made(n, time, nonce, body) ==
    LET auth == [node_id |-> n, timestamp |-> time, nonce |-> nonce, body_hash |-> sha256Hex(body)]
    IN [auth |-> auth, signature |-> [by |-> n, over |-> auth], body |-> body]

BuiltByNodes ==
    \A p \in built : \E n \in Node, time \in Int, body \in Body : \E nonce :
        p = Made(n, time, nonce, body)

\* Every packet was accepted as it was built, up to the form of its body, and within the
\* skew of its time.
AcceptedInTime ==
    \A a \in accepted : /\ a.at \in Nat
                        /\ \E p \in built : SameMessage(a.packet, p)
                        /\ a.at - a.packet.auth.timestamp \in -MaxSkew..MaxSkew

PInv == clock \in Nat /\ BuiltByNodes /\ AcceptedInTime

-----------------------------------------------------------------------------
\* Nothing that is sealed, opened or redirected is any other packet.
LEMMA WireCarries ==
    ASSUME NEW q, NEW w \in Wire(q), NEW p \in IF w.sealed THEN decryptPacket(w) ELSE {w.packet}
    PROVE  p = q
<1>1. CASE w = Bare(q)
  <2>1. w = [sealed |-> FALSE, packet |-> q]
    BY <1>1 DEF Bare
  <2> QED
    BY <2>1
<1>2. ASSUME NEW s \in Sealed(q)
      PROVE  /\ s = [sealed |-> TRUE, sender |-> s.sender, receiver |-> s.receiver, seal |-> s.seal]
             /\ s.seal.packet = q
  <2>1. PICK key \in SessionKey, n \in Node : s = encryptPacket(q, key, n, Gateway)
    BY <1>2 DEF Sealed
  <2>2. s = [sealed |-> TRUE, sender |-> n, receiver |-> Gateway,
             seal |-> encrypt(key, q, SenderAndReceiver(n, Gateway))]
    BY <2>1 DEF encryptPacket
  <2>3. encrypt(key, q, SenderAndReceiver(n, Gateway)).packet = q
    BY DEF encrypt
  <2> QED
    BY <2>2, <2>3
<1>3. ASSUME NEW s \in Sealed(q), w \in Misdirected(s) \cup {s}
      PROVE  w.sealed = TRUE /\ w.seal.packet = q
  <2>1. CASE w = s
    BY <1>2, <2>1
  <2>2. ASSUME NEW n \in Node, w = [s EXCEPT !.sender = n] \/ w = [s EXCEPT !.receiver = n]
        PROVE  w.sealed = TRUE /\ w.seal = s.seal
    BY <1>2, <2>2
  <2> QED
    BY <1>2, <1>3, <2>1, <2>2 DEF Misdirected
<1>4. ASSUME w.sealed = TRUE PROVE p = w.seal.packet
  BY <1>4 DEF decryptPacket, decrypt
<1>5. CASE \E s \in Sealed(q) : w \in Misdirected(s) \cup {s}
  BY <1>3, <1>4, <1>5
<1> QED
  BY <1>1, <1>5 DEF Wire

\* A packet that verifies is one of those built: the signature fixes the fields that are
\* signed, and they fix the text of the body.
LEMMA VerifiesAsBuilt ==
    ASSUME BuiltByNodes, NEW p \in InTransit, Verifies(p)
    PROVE  \E q \in built : SameMessage(p, q)
<1>1. CASE p \in built
  BY <1>1 DEF SameMessage
<1>2. ASSUME NEW q \in built, p \in Tampered(q) PROVE SameMessage(p, q)
  <2>1. PICK n \in Node, time \in Int, body \in Body : \E nonce : q = Made(n, time, nonce, body)
    BY DEF BuiltByNodes
  <2>2. PICK nonce : q = Made(n, time, nonce, body)
    BY <2>1
  <2> DEFINE auth == [node_id |-> n, timestamp |-> time, nonce |-> nonce,
                      body_hash |-> sha256Hex(body)]
             sealer == [by |-> n, over |-> auth]
  <2>3. q = [auth |-> auth, signature |-> sealer, body |-> body]
    BY <2>2 DEF Made
  <2>4. p = [auth |-> p.auth, signature |-> sealer, body |-> p.body]
    BY <1>2, <2>3 DEF Tampered
  <2>5. p.signature = [by |-> p.auth.node_id, over |-> p.auth] /\ p.auth.body_hash = sha256Hex(p.body)
    BY DEF Verifies, SignatureIsOf
  <2>6. p.auth = auth
    BY <2>4, <2>5
  <2>7. Text[p.body] = Text[body]
    <3>1. sha256Hex(p.body) = sha256Hex(body)
      BY <2>5, <2>6
    <3> QED
      BY <3>1 DEF sha256Hex
  <2>8. /\ q.auth = auth /\ q.signature = sealer /\ q.body = body
        /\ p.signature = sealer
    BY <2>3, <2>4
  <2> QED
    BY <2>6, <2>7, <2>8 DEF SameMessage
<1> QED
  BY <1>1, <1>2 DEF InTransit

-----------------------------------------------------------------------------
LEMMA PacketsInitOK == ASSUME PacketsInit PROVE PInv
BY DEF PacketsInit, PInv, BuiltByNodes, AcceptedInTime

LEMMA BuildStep ==
    ASSUME PInv, NEW n \in Node, NEW body \in Body, buildSignedPacket(n, body)
    PROVE  PInv'
<1> DEFINE nonce == Cardinality(built) + 1
           packet == Made(n, clock + Offset[n], nonce, body)
<1> USE DEF PInv, buildSignedPacket
<1>1. built' = built \cup {packet}
  BY DEF Made
<1>2. clock + Offset[n] \in Int
  BY SignedPacketsAssumption
<1>3. BuiltByNodes'
  <2>1. ASSUME NEW p \in built'
        PROVE  \E m \in Node, time \in Int, b \in Body : \E number : p = Made(m, time, number, b)
    <3>1. CASE p = packet
      <4>1. \E number : p = Made(n, clock + Offset[n], number, body)
        BY <3>1
      <4> QED
        BY <1>2, <4>1
    <3>2. CASE p \in built
      BY <3>2 DEF BuiltByNodes
    <3> QED
      BY <1>1, <2>1, <3>1, <3>2
  <2> QED
    BY <2>1 DEF BuiltByNodes
<1>4. AcceptedInTime'
  BY <1>1 DEF AcceptedInTime
<1> QED
  BY <1>3, <1>4

LEMMA VerifyStep ==
    ASSUME PInv, NEW q \in InTransit, NEW w \in Wire(q), PostVerify(w)
    PROVE  PInv'
<1> USE DEF PInv
<1>1. PICK p \in IF w.sealed THEN decryptPacket(w) ELSE {w.packet} :
          /\ Verifies(p)
          /\ accepted' = accepted \cup {[packet |-> p, at |-> clock]}
          /\ UNCHANGED <<clock, knownNodes, built>>
  BY DEF PostVerify
<1>2. \E x \in built : SameMessage(p, x)
  <2>1. p = q
    BY <1>1, WireCarries
  <2> QED
    BY <1>1, <2>1, VerifiesAsBuilt
<1>3. clock - p.auth.timestamp \in -MaxSkew..MaxSkew
  BY <1>1 DEF Verifies
<1>4. AcceptedInTime'
  BY <1>1, <1>2, <1>3 DEF AcceptedInTime
<1>5. BuiltByNodes'
  BY <1>1 DEF BuiltByNodes
<1> QED
  BY <1>1, <1>4, <1>5

LEMMA PacketsInvariance == PacketsSpec => []PInv
<1>1. PacketsInit => PInv
  BY PacketsInitOK
<1>2. PInv /\ [PacketsNext]_packetVars => PInv'
  <2> SUFFICES ASSUME PInv, [PacketsNext]_packetVars PROVE PInv'
    OBVIOUS
  <2>1. ASSUME NEW n \in Node, TableChanges(n) PROVE PInv'
    BY <2>1 DEF TableChanges, PInv, BuiltByNodes, AcceptedInTime
  <2>2. CASE Second
    BY <2>2 DEF Second, PInv, BuiltByNodes, AcceptedInTime
  <2>3. CASE UNCHANGED packetVars
    BY <2>3 DEF packetVars, PInv, BuiltByNodes, AcceptedInTime
  <2> QED
    BY <2>1, <2>2, <2>3, BuildStep, VerifyStep DEF PacketsNext
<1> QED
  BY <1>1, <1>2, PTL DEF PacketsSpec

-----------------------------------------------------------------------------
(* Whatever is kept, altered, sealed anew, redirected and repeated on the  *)
(* way: a packet that the gateway accepts was built by the node it names,  *)
(* with a body of the same text, and the message is accepted no longer     *)
(* than twice the skew from the first time (POST /verify over              *)
(* verifySignedPacket and decryptPacket).                                  *)
THEOREM PacketsAreAcceptedAsBuilt == PacketsSpec => []AcceptedAsBuilt
<1>1. PInv => AcceptedAsBuilt
  <2> SUFFICES ASSUME PInv, NEW a \in accepted
               PROVE  /\ \E p \in built : SameMessage(a.packet, p)
                      /\ \A b \in accepted :
                             SameMessage(a.packet, b.packet) => a.at - b.at <= 2 * MaxSkew
    BY DEF AcceptedAsBuilt
  <2>1. PICK p \in built : SameMessage(a.packet, p)
    BY DEF PInv, AcceptedInTime
  <2>2. PICK n \in Node, time \in Int, body \in Body : \E nonce : p = Made(n, time, nonce, body)
    BY DEF PInv, BuiltByNodes
  <2>3. p.auth.timestamp = time
    BY <2>2 DEF Made
  <2>4. a.packet.auth.timestamp \in Int
    BY <2>1, <2>2, <2>3 DEF SameMessage
  <2>5. ASSUME NEW b \in accepted, SameMessage(a.packet, b.packet)
        PROVE  a.at - b.at <= 2 * MaxSkew
    <3>1. a.packet.auth.timestamp = b.packet.auth.timestamp
      BY <2>5 DEF SameMessage
    <3>2. /\ a.at \in Nat /\ b.at \in Nat /\ MaxSkew \in Nat
          /\ a.at - a.packet.auth.timestamp \in -MaxSkew..MaxSkew
          /\ b.at - a.packet.auth.timestamp \in -MaxSkew..MaxSkew
      BY <3>1, SignedPacketsAssumption DEF PInv, AcceptedInTime
    <3> QED
      BY <2>4, <3>2
  <2> QED
    BY <2>1, <2>5
<1> QED
  BY <1>1, PacketsInvariance, PTL

-----------------------------------------------------------------------------
\* Signatures

\* The newest signature is of what was asked for.
SignedAsAsked ==
    asked # Nothing =>
        /\ asked.mode \in Modes /\ asked.seed \in Seed
        /\ asked.context \in Seq(Byte) /\ asked.msg \in Seq(Byte)
        /\ Takes(asked.mode, asked.context, asked.msg)
        /\ signature = [by |-> asked.seed, over |-> FullMessage(asked.mode, asked.context, asked.msg)]

\* What dom2 puts before the context, for a flag and a length
Header(f, l) == Prefix \o <<f>> \o <<l>>

-----------------------------------------------------------------------------
LEMMA StringsAreSequences ==
    ASSUME NEW n \in Nat, NEW s \in Strings(n)
    PROVE  s \in Seq(Byte)
<1>1. PICK m \in 0..n : s \in [1..m -> Byte]
  BY DEF Strings
<1> QED
  BY <1>1

\* Beginnings of one length of equal sequences are equal, and what follows them.
LEMMA SplitAlike ==
    ASSUME NEW S, NEW s \in Seq(S), NEW w \in Seq(S), NEW z \in Seq(S), NEW v \in Seq(S),
           Len(s) = Len(z), s \o w = z \o v
    PROVE  s = z /\ w = v
<1>1. Len(s) \in Nat /\ Len(w) \in Nat /\ Len(v) \in Nat
  BY LenProperties
<1>2. ASSUME NEW i \in 1..Len(s) PROVE s[i] = z[i]
  <2>1. i \in 1..Len(s) + Len(w) /\ i \in 1..Len(z) + Len(v) /\ i <= Len(s)
    BY <1>1
  <2>2. (s \o w)[i] = s[i] /\ (z \o v)[i] = z[i]
    BY <2>1, ConcatProperties
  <2> QED
    BY <2>2
<1>3. s = z
  BY <1>2, SeqEqual
<1> QED
  BY <1>3, ConcatSimplifications

\* The same about strings, with concatenation as an operator of its own
Joined(s, w) == s \o w

LEMMA JoinedSplit ==
    ASSUME NEW s \in Seq(Byte), NEW w \in Seq(Byte), NEW z \in Seq(Byte), NEW v \in Seq(Byte),
           Len(s) = Len(z), Joined(s, w) = Joined(z, v)
    PROVE  s = z /\ w = v
BY SplitAlike DEF Joined

LEMMA JoinedType ==
    ASSUME NEW s \in Seq(Byte), NEW w \in Seq(Byte)
    PROVE  Joined(s, w) \in Seq(Byte)
BY ConcatProperties DEF Joined

LEMMA Regrouped ==
    ASSUME NEW s \in Seq(Byte), NEW c \in Seq(Byte), NEW x \in Seq(Byte)
    PROVE  Joined(s, Joined(c, x)) = Joined(Joined(s, c), x)
BY ConcatAssociative DEF Joined

LEMMA SplitThreeAlike ==
    ASSUME NEW s \in Seq(Byte), NEW c \in Seq(Byte), NEW x \in Seq(Byte),
           NEW z \in Seq(Byte), NEW d \in Seq(Byte), NEW y \in Seq(Byte),
           Len(s) = Len(z), Joined(Joined(s, c), x) = Joined(Joined(z, d), y)
    PROVE  s = z /\ Joined(c, x) = Joined(d, y)
<1>1. Joined(c, x) \in Seq(Byte) /\ Joined(d, y) \in Seq(Byte)
  BY JoinedType
<1> DEFINE left == Joined(Joined(s, c), x)
           right == Joined(Joined(z, d), y)
<1>2. left = right
  OBVIOUS
<1>3. Joined(s, Joined(c, x)) = left /\ Joined(z, Joined(d, y)) = right
  BY Regrouped
<1> HIDE DEF left, right
<1>4. Joined(s, Joined(c, x)) = Joined(z, Joined(d, y))
  BY <1>2, <1>3
<1> QED
  BY <1>1, <1>4, JoinedSplit

LEMMA HeaderType ==
    ASSUME NEW f \in Byte, NEW l \in Byte
    PROVE  /\ Prefix \o <<f>> \in Seq(Byte) /\ Len(Prefix \o <<f>>) = Len(Prefix) + 1
           /\ Header(f, l) \in Seq(Byte) /\ Len(Header(f, l)) = Len(Prefix) + 2
<1>1. Prefix \in Seq(Byte) /\ Len(Prefix) \in Nat
  BY Ed25519Assumption, LenProperties
<1>2. <<f>> \in Seq(Byte) /\ Len(<<f>>) = 1 /\ <<l>> \in Seq(Byte) /\ Len(<<l>>) = 1
  OBVIOUS
<1>3. Prefix \o <<f>> \in Seq(Byte) /\ Len(Prefix \o <<f>>) = Len(Prefix) + 1
  BY <1>1, <1>2, ConcatProperties
<1> DEFINE s == Prefix \o <<f>>
<1>4. s \o <<l>> \in Seq(Byte) /\ Len(s \o <<l>>) = Len(s) + 1
  <2> HIDE DEF s
  <2> QED
    BY <1>2, <1>3, ConcatProperties DEF s
<1> QED
  BY <1>1, <1>2, <1>3, <1>4 DEF Header

\* A header has room for one flag and one length.
LEMMA HeadersApart ==
    ASSUME NEW f \in Byte, NEW l \in Byte, NEW g \in Byte, NEW j \in Byte,
           Header(f, l) = Header(g, j)
    PROVE  f = g /\ l = j
<1> DEFINE s == Prefix \o <<f>>
           z == Prefix \o <<g>>
<1>1. /\ s \in Seq(Byte) /\ z \in Seq(Byte) /\ Len(s) = Len(z)
      /\ <<l>> \in Seq(Byte) /\ <<j>> \in Seq(Byte)
  BY HeaderType
<1>2. s \o <<l>> = z \o <<j>>
  BY DEF Header
<1>3. s = z /\ <<l>> = <<j>>
  <2> HIDE DEF s, z
  <2> QED
    BY <1>1, <1>2, SplitAlike
<1>4. <<f>> \in Seq(Byte) /\ <<g>> \in Seq(Byte) /\ Prefix \in Seq(Byte)
  BY Ed25519Assumption
<1>5. <<f>> = <<g>>
  BY <1>3, <1>4, SplitAlike
<1> QED
  BY <1>3, <1>5

\* In either kind of mode, what is signed determines what was asked for.
LEMMA FullMessagesDiffer ==
    ASSUME NEW m \in Modes, NEW n \in Modes, m = "plain" <=> n = "plain",
           NEW c \in Seq(Byte), NEW d \in Seq(Byte), NEW x \in Seq(Byte), NEW y \in Seq(Byte),
           Takes(m, c, x), Takes(n, d, y), FullMessage(m, c, x) = FullMessage(n, d, y)
    PROVE  m = n /\ c = d /\ x = y
<1>1. CASE m = "plain"
  BY <1>1 DEF FullMessage, Takes
<1>2. CASE m # "plain"
  <2> DEFINE f == Flag(m)
             g == Flag(n)
             l == Len(c)
             j == Len(d)
             s == Header(f, l)
             z == Header(g, j)
  <2>1. f \in Byte /\ g \in Byte /\ l \in Byte /\ j \in Byte
    BY Ed25519Assumption, LenProperties DEF Flag, Takes
  <2>2. s \in Seq(Byte) /\ z \in Seq(Byte) /\ Len(s) = Len(z)
    <3> HIDE DEF f, g, l, j
    <3> QED
      BY <2>1, HeaderType
  <2>3. Joined(Joined(s, c), x) = Joined(Joined(z, d), y)
    BY <1>2 DEF FullMessage, dom2, Header, Joined
  <2>4. s = z /\ Joined(c, x) = Joined(d, y)
    <3> HIDE DEF s, z
    <3> QED
      BY <2>2, <2>3, SplitThreeAlike
  <2>5. f = g /\ l = j
    <3> HIDE DEF f, g, l, j
    <3> QED
      BY <2>1, <2>4, HeadersApart
  <2>6. m = n
    BY <1>2, <2>5 DEF Flag, Modes
  <2>7. c = d /\ x = y
    BY <2>4, <2>5, JoinedSplit, Zenon
  <2> QED
    BY <2>6, <2>7
<1> QED
  BY <1>1, <1>2

-----------------------------------------------------------------------------
LEMMA SignStep == SignedAsAsked /\ [SignNext]_signatureVars => SignedAsAsked'
<1> SUFFICES ASSUME SignedAsAsked, [SignNext]_signatureVars PROVE SignedAsAsked'
  OBVIOUS
<1>1. CASE UNCHANGED signatureVars
  BY <1>1 DEF signatureVars, SignedAsAsked
<1>2. ASSUME NEW mode \in Modes, NEW seed \in Seed,
             NEW context \in Strings(MaxContext + 1), NEW msg \in Strings(MaxMessage),
             Sign(mode, seed, context, msg)
      PROVE  SignedAsAsked'
  <2>1. context \in Seq(Byte) /\ msg \in Seq(Byte)
    BY StringsAreSequences, Ed25519Assumption
  <2>2. /\ asked'.mode = mode /\ asked'.seed = seed /\ asked'.context = context /\ asked'.msg = msg
        /\ signature' = [by |-> seed, over |-> FullMessage(mode, context, msg)]
    BY <1>2 DEF Sign, ed25519Sign
  <2> QED
    BY <1>2, <2>1, <2>2 DEF SignedAsAsked, Sign
<1> QED
  BY <1>1, <1>2 DEF SignNext

(* A signature of ed25519SignCtx or ed25519SignPh verifies only in its     *)
(* mode, with its context and for its message, wherever the one ends and   *)
(* the other begins; a plain one only for its message; and each only under *)
(* the raw key of its seed.                                                *)
THEOREM SignaturesAreBound == SignSpec => []SignaturesBindTheirMode
<1>1. SignInit => SignedAsAsked
  BY DEF SignInit, SignedAsAsked
<1>2. SignedAsAsked => SignaturesBindTheirMode
  <2> SUFFICES ASSUME SignedAsAsked, asked # Nothing,
                      NEW mode \in Modes, NEW pub \in PublicKey,
                      NEW context \in Strings(MaxContext), NEW msg \in Strings(MaxMessage),
                      Takes(mode, context, msg), mode = "plain" <=> asked.mode = "plain"
               PROVE  VerifiesAs(mode, pub, context, msg) <=>
                          /\ mode = asked.mode /\ context = asked.context /\ msg = asked.msg
                          /\ pub = [of |-> asked.seed, form |-> "raw"]
    BY DEF SignaturesBindTheirMode
  <2>1. context \in Seq(Byte) /\ msg \in Seq(Byte)
    BY StringsAreSequences, Ed25519Assumption
  <2>2. signature # Nothing
    BY DEF SignedAsAsked, Nothing
  <2>3. VerifiesAs(mode, pub, context, msg) <=>
            /\ pub.form = "raw" /\ pub.of = asked.seed
            /\ FullMessage(mode, context, msg) = FullMessage(asked.mode, asked.context, asked.msg)
    BY <2>2 DEF SignedAsAsked, VerifiesAs, ed25519Verify
  <2>4. pub = [of |-> asked.seed, form |-> "raw"] <=> pub.form = "raw" /\ pub.of = asked.seed
    BY DEF PublicKey
  <2>5. FullMessage(mode, context, msg) = FullMessage(asked.mode, asked.context, asked.msg) <=>
            mode = asked.mode /\ context = asked.context /\ msg = asked.msg
    BY <2>1, FullMessagesDiffer DEF SignedAsAsked
  <2> QED
    BY <2>3, <2>4, <2>5
<1> QED
  BY <1>1, <1>2, SignStep, PTL DEF SignSpec


-----------------------------------------------------------------------------
(* The derivation of keys.  Bytes of different kinds have no set in common,*)
(* so a sequence of bytes is one over any set.                             *)

Bytes(s) == \E S : s \in Seq(S)

LEMMA BytesLen ==
    ASSUME NEW s, Bytes(s)
    PROVE  Len(s) \in Nat /\ DOMAIN s = 1..Len(s)
BY LenProperties DEF Bytes

LEMMA InOneSet ==
    ASSUME NEW s, NEW r, Bytes(s), Bytes(r)
    PROVE  \E S : s \in Seq(S) /\ r \in Seq(S)
<1>1. PICK A : s \in Seq(A)
  BY DEF Bytes
<1>2. PICK B : r \in Seq(B)
  BY DEF Bytes
<1>3. s \in Seq(A \cup B)
  BY <1>1, SeqMonotonic
<1>4. r \in Seq(A \cup B)
  BY <1>2, SeqMonotonic
<1> QED
  BY <1>3, <1>4

LEMMA SameBytes ==
    ASSUME NEW s, NEW r, Bytes(s), Bytes(r), Len(s) = Len(r), \A j \in 1..Len(s) : s[j] = r[j]
    PROVE  s = r
<1>1. PICK S : s \in Seq(S) /\ r \in Seq(S)
  BY InOneSet
<1> QED
  BY <1>1, SeqEqual

LEMMA JoinedBytes ==
    ASSUME NEW s, NEW r, Bytes(s), Bytes(r)
    PROVE  /\ Bytes(s \o r) /\ Len(s \o r) = Len(s) + Len(r)
           /\ \A j \in 1..Len(s) + Len(r) : (s \o r)[j] = IF j <= Len(s) THEN s[j] ELSE r[j - Len(s)]
<1>1. PICK S : s \in Seq(S) /\ r \in Seq(S)
  BY InOneSet
<1>2. s \o r \in Seq(S) /\ Len(s \o r) = Len(s) + Len(r)
  BY <1>1, ConcatProperties
<1>3. \A j \in 1..Len(s) + Len(r) : (s \o r)[j] = IF j <= Len(s) THEN s[j] ELSE r[j - Len(s)]
  BY <1>1, ConcatProperties
<1> QED
  BY <1>2, <1>3 DEF Bytes

\* Joined sequences with ends of the same length are equal only when their parts are.
LEMMA SameEnds ==
    ASSUME NEW s, NEW r, NEW x, NEW y, Bytes(s), Bytes(r), Bytes(x), Bytes(y),
           s \o x = r \o y, Len(x) = Len(y)
    PROVE  s = r /\ x = y
<1>1. Len(s) \in Nat /\ Len(r) \in Nat /\ Len(x) \in Nat /\ Len(y) \in Nat
  BY BytesLen
<1>2. Len(s) + Len(x) = Len(r) + Len(y)
  BY JoinedBytes
<1>3. Len(s) = Len(r) /\ Len(x) = Len(y)
  BY <1>1, <1>2
<1>4. ASSUME NEW j \in 1..Len(s) PROVE s[j] = r[j]
  <2>1. j \in 1..Len(s) + Len(x) /\ j \in 1..Len(r) + Len(y) /\ j <= Len(s) /\ j <= Len(r)
    BY <1>1, <1>3
  <2>2. (s \o x)[j] = s[j]
    BY <2>1, JoinedBytes
  <2>3. (r \o y)[j] = r[j]
    BY <2>1, JoinedBytes
  <2> QED
    BY <2>2, <2>3
<1>5. ASSUME NEW j \in 1..Len(x) PROVE x[j] = y[j]
  <2> DEFINE p == Len(s) + j
  <2>1. p \in 1..Len(s) + Len(x) /\ p \in 1..Len(r) + Len(y) /\ ~(p <= Len(s)) /\ ~(p <= Len(r))
        /\ p - Len(s) = j /\ p - Len(r) = j
    BY <1>1, <1>3
  <2> HIDE DEF p
  <2>2. (s \o x)[p] = IF p <= Len(s) THEN s[p] ELSE x[p - Len(s)]
    BY <2>1, JoinedBytes
  <2>3. (r \o y)[p] = IF p <= Len(r) THEN r[p] ELSE y[p - Len(r)]
    BY <2>1, JoinedBytes
  <2> QED
    BY <2>1, <2>2, <2>3
<1> QED
  BY <1>3, <1>4, <1>5, SameBytes

LEMMA Lengths ==
    HLen \in Nat \ {0} /\ BlockSize \in Nat /\ HLen < BlockSize /\ MaxCounter \in Nat \ {0}
BY KeyDerivationAssumption

LEMMA DigestBytes ==
    ASSUME NEW x
    PROVE  /\ Bytes(Digest(x)) /\ Len(Digest(x)) = HLen
           /\ \A j \in 1..HLen : Digest(x)[j] = [is |-> "hash", of |-> x, at |-> j]
<1> DEFINE S == {[is |-> "hash", of |-> x, at |-> j] : j \in 1..HLen}
<1>1. Digest(x) \in [1..HLen -> S]
  BY DEF Digest
<1>2. HLen \in Nat
  BY Lengths
<1> HIDE DEF S
<1>3. Digest(x) \in Seq(S)
  BY <1>1, <1>2, SeqDef
<1> QED
  BY <1>2, <1>3 DEF Bytes, Digest

LEMMA DigestsDiffer ==
    ASSUME NEW x, NEW y, NEW j \in 1..HLen, NEW m \in 1..HLen, Digest(x)[j] = Digest(y)[m]
    PROVE  x = y /\ j = m
<1>1. [is |-> "hash", of |-> x, at |-> j] = [is |-> "hash", of |-> y, at |-> m]
  BY DigestBytes
<1> QED
  BY <1>1

LEMMA ZerosBytes ==
    ASSUME NEW n \in Nat
    PROVE  Bytes(Zeros(n)) /\ Len(Zeros(n)) = n /\ \A j \in 1..n : Zeros(n)[j] = Num(0)
<1>1. Zeros(n) \in [1..n -> {Num(0)}]
  BY DEF Zeros
<1>2. Zeros(n) \in Seq({Num(0)})
  BY <1>1, SeqDef
<1>3. Len(Zeros(n)) = n
  BY <1>1, <1>2, LenProperties
<1>4. \A j \in 1..n : Zeros(n)[j] = Num(0)
  BY DEF Zeros
<1> QED
  BY <1>2, <1>3, <1>4 DEF Bytes

LEMMA NumsBytes ==
    ASSUME NEW s, Bytes(s)
    PROVE  Bytes(Nums(s)) /\ Len(Nums(s)) = Len(s) /\ \A j \in 1..Len(s) : Nums(s)[j] = Num(s[j])
<1> DEFINE S == {Num(s[j]) : j \in 1..Len(s)}
<1>1. Len(s) \in Nat /\ DOMAIN s = 1..Len(s)
  BY BytesLen
<1>2. Nums(s) \in [1..Len(s) -> S]
  BY <1>1 DEF Nums
<1> HIDE DEF S
<1>3. Nums(s) \in Seq(S)
  BY <1>1, <1>2, SeqDef
<1>4. Len(Nums(s)) = Len(s)
  BY <1>1, <1>2, <1>3, LenProperties
<1> QED
  BY <1>1, <1>3, <1>4 DEF Bytes, Nums

LEMMA NumIsNoDigest ==
    ASSUME NEW n, NEW x, NEW j \in 1..HLen
    PROVE  Num(n) # Digest(x)[j] /\ \A m : Num(n) = Num(m) => n = m
<1>1. Digest(x)[j].is = "hash" /\ Num(n).is = "number"
  <2>1. Digest(x)[j] = [is |-> "hash", of |-> x, at |-> j]
    BY DigestBytes
  <2>2. [is |-> "hash", of |-> x, at |-> j].is = "hash"
    OBVIOUS
  <2> QED
    BY <2>1, <2>2 DEF Num
<1>2. Num(n).n = n /\ \A m : Num(m).n = m
  BY DEF Num
<1> QED
  BY <1>1, <1>2

LEMMA Counters ==
    ASSUME NEW n
    PROVE  Bytes(Nums(<<n>>)) /\ Len(Nums(<<n>>)) = 1 /\ Nums(<<n>>)[1] = Num(n)
<1>1. <<n>> \in Seq({n}) /\ Len(<<n>>) = 1 /\ <<n>>[1] = n
  OBVIOUS
<1>2. Bytes(<<n>>)
  BY <1>1 DEF Bytes
<1> QED
  BY <1>1, <1>2, NumsBytes

-----------------------------------------------------------------------------
\* What an HMAC is of
KeyOf(hash, key) ==
    IF hash = "sha512"
    THEN IF Len(key) > BlockSize THEN Digest([sha512 |-> key]) \o Zeros(BlockSize - HLen)
         ELSE key \o Zeros(BlockSize - Len(key))
    ELSE BlockKey(key)

HmacOf(hash, key, data) == [hmac |-> hash, key |-> KeyOf(hash, key), data |-> data]

LEMMA HmacIs ==
    ASSUME NEW hash \in Hash, NEW key, NEW data
    PROVE  hmac(hash, key, data) = Digest(HmacOf(hash, key, data))
<1>1. CASE hash = "sha512"
  <2>1. HmacOf(hash, key, data) =
            [hmac |-> "sha512", data |-> data,
             key |-> IF Len(key) > BlockSize THEN Digest([sha512 |-> key]) \o Zeros(BlockSize - HLen)
                     ELSE key \o Zeros(BlockSize - Len(key))]
    BY <1>1 DEF HmacOf, KeyOf
  <2> QED
    BY <1>1, <2>1 DEF hmac, hmacSha512
<1>2. CASE hash = "blake2b"
  <2>1. HmacOf(hash, key, data) = [hmac |-> "blake2b", key |-> BlockKey(key), data |-> data]
    BY <1>2 DEF HmacOf, KeyOf
  <2> QED
    BY <1>2, <2>1 DEF hmac, hmacBlake2b
<1> QED
  BY <1>1, <1>2 DEF Hash

LEMMA HmacsDiffer ==
    ASSUME NEW h1, NEW h2, NEW k1, NEW k2, NEW d1, NEW d2, HmacOf(h1, k1, d1) = HmacOf(h2, k2, d2)
    PROVE  h1 = h2 /\ KeyOf(h1, k1) = KeyOf(h2, k2) /\ d1 = d2
BY DEF HmacOf

\* The whole digest
LEMMA WholeDigest == ASSUME NEW x PROVE blake2b(x, HLen) = Digest([blake2b |-> x])
<1> DEFINE d == Digest([blake2b |-> x])
<1>1. Bytes(d) /\ Len(d) = HLen
  BY DigestBytes
<1>2. PICK S : d \in Seq(S)
  BY <1>1 DEF Bytes
<1> HIDE DEF d
<1>3. SubSeq(d, 1, Len(d)) = d
  BY <1>2, SubSeqFull
<1> QED
  BY <1>1, <1>3 DEF blake2b, d

\* A key of up to a block is padded, a longer one hashed and padded.
LEMMA KeyOfIs ==
    ASSUME NEW hash \in Hash, NEW key, Bytes(key)
    PROVE  /\ Len(key) <= BlockSize => KeyOf(hash, key) = key \o Zeros(BlockSize - Len(key))
           /\ Len(key) > BlockSize =>
                  KeyOf(hash, key) = Digest(IF hash = "sha512" THEN [sha512 |-> key] ELSE [blake2b |-> key])
                                         \o Zeros(BlockSize - HLen)
<1>1. Len(key) \in Nat /\ BlockSize \in Nat
  BY BytesLen, Lengths
<1>2. CASE hash = "sha512"
  BY <1>1, <1>2 DEF KeyOf
<1>3. CASE hash # "sha512"
  <2>1. CASE Len(key) <= BlockSize
    <3>1. ~(Len(key) > BlockSize)
      BY <1>1, <2>1
    <3> QED
      BY <1>3, <2>1, <3>1 DEF KeyOf, BlockKey
  <2>2. CASE Len(key) > BlockSize
    <3>1. ~(Len(key) <= BlockSize)
      BY <1>1, <2>2
    <3>2. Len(blake2b(key, HLen)) = HLen /\ blake2b(key, HLen) = Digest([blake2b |-> key])
      BY WholeDigest, DigestBytes
    <3> QED
      BY <1>3, <2>2, <3>1, <3>2 DEF KeyOf, BlockKey
  <2> QED
    BY <1>1, <2>1, <2>2
<1> QED
  BY <1>2, <1>3

-----------------------------------------------------------------------------
\* Salts: those of callers, and the halves of digests that deriveSessionKey takes
IsSalt(x) ==
    \/ \E c \in Salt : x = Nums(c)
    \/ \E c \in Info : x = blake2b(Nums(c), HLen \div 2)

\* No salt is a block of zeros.
Given(x) == IF x = <<>> THEN Zeros(HLen) ELSE x

Padded(x) == x \o Zeros(BlockSize - Len(x))

LEMMA InfoBytes ==
    /\ \A c \in Salt \cup Info : Bytes(c) /\ Bytes(Nums(c)) /\ Len(Nums(c)) = Len(c)
    /\ Bytes(SessionInfo)
<1>1. \A c \in Salt \cup Info : Bytes(c)
  BY KeyDerivationAssumption DEF Bytes
<1>2. <<2>> \in Seq(Nat)
  OBVIOUS
<1>3. Bytes(SessionInfo)
  BY <1>2, NumsBytes DEF SessionInfo, Bytes
<1> QED
  BY <1>1, <1>3, NumsBytes

LEMMA HalfDigest ==
    ASSUME NEW x
    PROVE  /\ Bytes(blake2b(x, HLen \div 2)) /\ Len(blake2b(x, HLen \div 2)) = HLen \div 2
           /\ HLen \div 2 \in Nat /\ HLen \div 2 < HLen
<1> DEFINE d == Digest([blake2b |-> x])
           h == HLen \div 2
<1>1. h \in Nat /\ h < HLen /\ h \in Int /\ 1 \in Int
  BY Lengths
<1>2. Bytes(d) /\ Len(d) = HLen
  BY DigestBytes
<1>3. PICK S : d \in Seq(S)
  BY <1>2 DEF Bytes
<1> HIDE DEF d, h
<1>4. \A j \in 1..h : d[j] \in S
  <2>1. \A j \in 1..h : j \in 1..Len(d)
    BY <1>1, <1>2, Lengths
  <2> QED
    BY <1>3, <2>1, ElementOfSeq
<1>5. SubSeq(d, 1, h) \in Seq(S) /\ Len(SubSeq(d, 1, h)) = IF 1 <= h THEN h - 1 + 1 ELSE 0
  BY <1>1, <1>4, SubSeqProperties
<1>6. Len(SubSeq(d, 1, h)) = h
  BY <1>1, <1>5
<1>7. blake2b(x, h) = SubSeq(d, 1, h)
  BY DEF blake2b, d
<1> QED
  BY <1>1, <1>5, <1>6, <1>7 DEF Bytes, h

LEMMA SaltBytes ==
    ASSUME NEW x, IsSalt(x)
    PROVE  Bytes(x) /\ Len(x) \in Nat
BY InfoBytes, HalfDigest, BytesLen DEF IsSalt

LEMMA PaddedIs ==
    ASSUME NEW x, Bytes(x), Len(x) <= BlockSize
    PROVE  /\ Bytes(Padded(x)) /\ Len(Padded(x)) = BlockSize
           /\ \A j \in 1..BlockSize : Padded(x)[j] = IF j <= Len(x) THEN x[j] ELSE Num(0)
<1>1. Len(x) \in Nat /\ BlockSize - Len(x) \in Nat /\ BlockSize \in Nat /\ Len(x) + (BlockSize - Len(x)) = BlockSize
  BY BytesLen, Lengths
<1>2. /\ Bytes(Zeros(BlockSize - Len(x))) /\ Len(Zeros(BlockSize - Len(x))) = BlockSize - Len(x)
      /\ \A j \in 1..BlockSize - Len(x) : Zeros(BlockSize - Len(x))[j] = Num(0)
  BY <1>1, ZerosBytes
<1> DEFINE z == Zeros(BlockSize - Len(x))
<1> HIDE DEF z
<1>3. /\ Bytes(x \o z) /\ Len(x \o z) = Len(x) + Len(z)
      /\ \A j \in 1..Len(x) + Len(z) : (x \o z)[j] = IF j <= Len(x) THEN x[j] ELSE z[j - Len(x)]
  BY <1>2, JoinedBytes DEF z
<1>4. Len(z) = BlockSize - Len(x) /\ \A j \in 1..BlockSize - Len(x) : z[j] = Num(0)
  BY <1>2 DEF z
<1>5. \A j \in 1..BlockSize : (x \o z)[j] = IF j <= Len(x) THEN x[j] ELSE Num(0)
  BY <1>1, <1>3, <1>4
<1> QED
  BY <1>1, <1>3, <1>4, <1>5 DEF Padded, z

LEMMA KeyOfShort ==
    ASSUME NEW hash \in Hash, NEW x, Bytes(x), Len(x) <= BlockSize
    PROVE  KeyOf(hash, Given(x)) = Padded(x)
<1>0. Len(x) \in Nat /\ HLen \in Nat /\ BlockSize \in Nat /\ HLen <= BlockSize /\ 0 <= BlockSize
  BY BytesLen, Lengths
<1>1. CASE x = <<>>
  <2>1. Bytes(Zeros(HLen)) /\ Len(Zeros(HLen)) = HLen /\ \A j \in 1..HLen : Zeros(HLen)[j] = Num(0)
    BY <1>0, ZerosBytes
  <2>2. KeyOf(hash, Zeros(HLen)) = Padded(Zeros(HLen))
    BY <1>0, <2>1, KeyOfIs DEF Padded
  <2>3. Len(x) = 0
    BY <1>1
  <2> DEFINE z == Zeros(HLen)
  <2>4. /\ Bytes(Padded(z)) /\ Len(Padded(z)) = BlockSize
        /\ \A j \in 1..BlockSize : Padded(z)[j] = IF j <= Len(z) THEN z[j] ELSE Num(0)
    BY <1>0, <2>1, PaddedIs
  <2>5. /\ Bytes(Padded(x)) /\ Len(Padded(x)) = BlockSize
        /\ \A j \in 1..BlockSize : Padded(x)[j] = IF j <= Len(x) THEN x[j] ELSE Num(0)
    BY PaddedIs
  <2> HIDE DEF z
  <2>6. \A j \in 1..BlockSize : Padded(z)[j] = Padded(x)[j]
    BY <1>0, <2>1, <2>3, <2>4, <2>5 DEF z
  <2>7. Padded(z) = Padded(x)
    BY <2>4, <2>5, <2>6, SameBytes
  <2> QED
    BY <1>1, <2>2, <2>7 DEF Given, z
<1>2. CASE x # <<>>
  BY <1>2, KeyOfIs DEF Given, Padded
<1> QED
  BY <1>1, <1>2

\* What a key that is too long is hashed to
LongKey(hash, x) == IF hash = "sha512" THEN [sha512 |-> x] ELSE [blake2b |-> x]

LEMMA KeyOfLong ==
    ASSUME NEW hash \in Hash, NEW x, Bytes(x), Len(x) > BlockSize
    PROVE  /\ KeyOf(hash, Given(x)) = Digest(LongKey(hash, x)) \o Zeros(BlockSize - HLen)
           /\ KeyOf(hash, Given(x))[HLen] = Digest(LongKey(hash, x))[HLen]
<1>0. Len(x) \in Nat /\ HLen \in Nat \ {0} /\ BlockSize \in Nat /\ BlockSize - HLen \in Nat /\ HLen <= HLen
  BY BytesLen, Lengths
<1>1. x # <<>>
  <2>1. Len(<<>>) = 0
    OBVIOUS
  <2> QED
    BY <1>0, <2>1
<1>2. KeyOf(hash, Given(x)) = Digest(LongKey(hash, x)) \o Zeros(BlockSize - HLen)
  BY <1>1, KeyOfIs DEF Given, LongKey
<1> DEFINE d == Digest(LongKey(hash, x))
           z == Zeros(BlockSize - HLen)
<1>3. Bytes(d) /\ Len(d) = HLen /\ Bytes(z) /\ Len(z) = BlockSize - HLen
  BY <1>0, DigestBytes, ZerosBytes
<1> HIDE DEF d, z
<1>4. HLen \in 1..Len(d) + Len(z) /\ HLen <= Len(d)
  BY <1>0, <1>3
<1>5. (d \o z)[HLen] = d[HLen]
  BY <1>3, <1>4, JoinedBytes
<1> QED
  BY <1>2, <1>5 DEF d, z

\* The byte of a short salt where a hashed one would end is a number.
LEMMA ShortSalt ==
    ASSUME NEW x, IsSalt(x), Len(x) <= BlockSize
    PROVE  \E n : Padded(x)[HLen] = Num(n)
<1>0. HLen \in 1..BlockSize /\ HLen \in Nat /\ Bytes(x) /\ Len(x) \in Nat
  BY Lengths, SaltBytes
<1>1. Padded(x)[HLen] = IF HLen <= Len(x) THEN x[HLen] ELSE Num(0)
  BY <1>0, PaddedIs
<1>2. CASE HLen <= Len(x)
  <2>1. PICK c \in Salt : x = Nums(c)
    <3>1. ASSUME NEW c \in Info, x = blake2b(Nums(c), HLen \div 2) PROVE FALSE
      <4>1. Len(x) = HLen \div 2 /\ HLen \div 2 < HLen /\ HLen \div 2 \in Nat
        BY <3>1, HalfDigest
      <4> QED
        BY <1>0, <1>2, <4>1
    <3> QED
      BY <3>1 DEF IsSalt
  <2>2. Bytes(c) /\ Len(c) = Len(x)
    BY <2>1, InfoBytes
  <2>3. HLen \in 1..Len(c)
    BY <1>0, <1>2, <2>2
  <2>4. x[HLen] = Num(c[HLen])
    BY <2>1, <2>2, <2>3, NumsBytes
  <2> QED
    BY <1>1, <1>2, <2>4
<1>3. CASE ~(HLen <= Len(x))
  BY <1>1, <1>3
<1> QED
  BY <1>2, <1>3

LEMMA SaltsAgree ==
    ASSUME NEW hash \in Hash, NEW x, NEW y, IsSalt(x), IsSalt(y)
    PROVE  KeyOf(hash, Given(x)) = KeyOf(hash, Given(y)) <=> SameSalt(x, y)
<1>0. /\ Bytes(x) /\ Bytes(y) /\ Len(x) \in Nat /\ Len(y) \in Nat
      /\ BlockSize \in Nat /\ HLen \in 1..HLen /\ BlockSize - HLen \in Nat
  BY SaltBytes, Lengths
<1>1. CASE Len(x) <= BlockSize /\ Len(y) <= BlockSize
  BY <1>0, <1>1, KeyOfShort DEF SameSalt, Padded
<1>2. CASE Len(x) > BlockSize /\ Len(y) > BlockSize
  <2>1. ASSUME KeyOf(hash, Given(x)) = KeyOf(hash, Given(y)) PROVE x = y
    <3>1. Digest(LongKey(hash, x))[HLen] = Digest(LongKey(hash, y))[HLen]
      BY <1>0, <1>2, <2>1, KeyOfLong
    <3>2. LongKey(hash, x) = LongKey(hash, y)
      BY <1>0, <3>1, DigestsDiffer
    <3>3. CASE hash = "sha512"
      <4>1. [sha512 |-> x] = [sha512 |-> y]
        BY <3>2, <3>3 DEF LongKey
      <4>2. [sha512 |-> x].sha512 = x /\ [sha512 |-> y].sha512 = y
        OBVIOUS
      <4> QED
        BY <4>1, <4>2
    <3>4. CASE hash # "sha512"
      <4>1. [blake2b |-> x] = [blake2b |-> y]
        BY <3>2, <3>4 DEF LongKey
      <4>2. [blake2b |-> x].blake2b = x /\ [blake2b |-> y].blake2b = y
        OBVIOUS
      <4> QED
        BY <4>1, <4>2
    <3> QED
      BY <3>3, <3>4
  <2>2. ~(Len(x) <= BlockSize)
    BY <1>0, <1>2
  <2> QED
    BY <2>1, <2>2 DEF SameSalt
<1>3. ASSUME NEW a, NEW b, IsSalt(a), IsSalt(b), Len(a) <= BlockSize, Len(b) > BlockSize
      PROVE  KeyOf(hash, Given(a)) # KeyOf(hash, Given(b)) /\ a # b
  <2>0. Bytes(a) /\ Bytes(b) /\ Len(a) \in Nat /\ Len(b) \in Nat
    BY <1>3, SaltBytes
  <2>1. PICK n : Padded(a)[HLen] = Num(n)
    BY <1>3, ShortSalt
  <2>2. KeyOf(hash, Given(a))[HLen] = Num(n)
    BY <1>3, <2>0, <2>1, KeyOfShort
  <2>3. KeyOf(hash, Given(b))[HLen] = Digest(LongKey(hash, b))[HLen]
    BY <1>3, <2>0, KeyOfLong
  <2>4. Num(n) # Digest(LongKey(hash, b))[HLen]
    BY <1>0, NumIsNoDigest
  <2>5. a # b
    BY <1>0, <1>3, <2>0
  <2> QED
    BY <2>2, <2>3, <2>4, <2>5
<1>4. CASE Len(x) <= BlockSize /\ Len(y) > BlockSize
  <2>1. ~(Len(y) <= BlockSize)
    BY <1>0, <1>4
  <2> QED
    BY <1>3, <1>4, <2>1 DEF SameSalt
<1>5. CASE Len(x) > BlockSize /\ Len(y) <= BlockSize
  <2>1. ~(Len(x) <= BlockSize)
    BY <1>0, <1>5
  <2> QED
    BY <1>3, <1>5, <2>1 DEF SameSalt
<1> QED
  BY <1>0, <1>1, <1>2, <1>4, <1>5

LEMMA ExtractIs ==
    ASSUME NEW hash \in Hash, NEW salt, NEW ikm
    PROVE  hkdfExtract(hash, salt, ikm) = Digest(HmacOf(hash, Given(salt), ikm))
BY HmacIs DEF hkdfExtract, Given

-----------------------------------------------------------------------------
\* The blocks are there: a function on 0..n with the rule of Blocks exists for every n.
LEMMA BlocksAre ==
    ASSUME NEW hash, NEW key, NEW info
    PROVE  /\ Blocks(hash, key, info)[0] = <<>>
           /\ \A n \in 1..MaxCounter :
                  Blocks(hash, key, info)[n] =
                      hmac(hash, key, Blocks(hash, key, info)[n - 1] \o info \o Nums(<<n>>))
<1> DEFINE Rule(f, m) == IF m = 0 THEN <<>> ELSE hmac(hash, key, f[m - 1] \o info \o Nums(<<m>>))
           Is(f, n) == f = [m \in 0..n |-> Rule(f, m)]
           Missing == {n \in Nat : ~\E f : Is(f, n)}
<1>1. ASSUME Missing # {}
      PROVE  FALSE
  <2>1. Missing \subseteq Nat
    OBVIOUS
  <2>2. PICK n \in Missing : \A m \in Missing : ~(<<m, n>> \in OpToRel(<, Nat))
    BY <1>1, <2>1, NatLessThanWellFounded, WFMin
  <2>3. \A m \in Missing : ~(m < n)
    BY <2>1, <2>2 DEF OpToRel
  <2>4. CASE n = 0
    <3>1. Is([m \in 0..0 |-> <<>>], 0)
      OBVIOUS
    <3> QED
      BY <2>4, <3>1
  <2>5. CASE n # 0
    <3>1. n - 1 \in Nat /\ n - 1 < n /\ n \in Nat
      BY <2>5
    <3>2. PICK f : Is(f, n - 1)
      BY <2>3, <3>1
    <3> DEFINE last == hmac(hash, key, f[n - 1] \o info \o Nums(<<n>>))
               g == [m \in 0..n |-> IF m = n THEN last ELSE f[m]]
    <3> HIDE DEF last
    <3>3. \A m \in 0..(n - 1) : f[m] = IF m = 0 THEN <<>> ELSE hmac(hash, key, f[m - 1] \o info \o Nums(<<m>>))
      BY <3>2
    <3>4. \A m \in 0..(n - 1) : g[m] = f[m]
      BY <3>1
    <3>5. g[n] = hmac(hash, key, g[n - 1] \o info \o Nums(<<n>>))
      BY <3>1, <3>4 DEF last
    <3>6. \A m \in 0..n : g[m] = Rule(g, m)
      <4> SUFFICES ASSUME NEW m \in 0..n PROVE g[m] = Rule(g, m)
        OBVIOUS
      <4>1. CASE m = n
        BY <2>5, <3>5, <4>1
      <4>2. CASE m = 0
        <5>1. 0 \in 0..(n - 1)
          BY <3>1
        <5>2. f[0] = <<>> /\ g[0] = f[0]
          BY <3>3, <3>4, <5>1
        <5> HIDE DEF g
        <5>3. Rule(g, m) = <<>>
          BY <4>2
        <5> QED
          BY <4>2, <5>2, <5>3
      <4>3. CASE m # n /\ m # 0
        <5>1. m \in 0..(n - 1) /\ m - 1 \in 0..(n - 1)
          BY <3>1, <4>3
        <5> QED
          BY <3>3, <3>4, <4>3, <5>1
      <4> QED
        BY <4>1, <4>2, <4>3
    <3>7. g = [m \in 0..n |-> g[m]]
      OBVIOUS
    <3> HIDE DEF g
    <3>8. Is(g, n)
      BY <3>6, <3>7
    <3> QED
      BY <3>8
  <2> QED
    BY <2>4, <2>5
<1>2. \E f : Is(f, MaxCounter)
  BY <1>1, Lengths
<1>3. Is(Blocks(hash, key, info), MaxCounter)
  <2>1. Blocks(hash, key, info) = CHOOSE f : Is(f, MaxCounter)
    BY DEF Blocks
  <2> HIDE DEF Is
  <2> QED
    BY <1>2, <2>1
<1>4. 0 \in 0..MaxCounter /\ \A n \in 1..MaxCounter : n \in 0..MaxCounter /\ n # 0
  BY Lengths
<1> HIDE DEF Missing
<1> QED
  BY <1>3, <1>4

\* What block n is the HMAC of
BlockOf(hash, key, info, n) == HmacOf(hash, key, Blocks(hash, key, info)[n - 1] \o info \o Nums(<<n>>))

LEMMA BlockIs ==
    ASSUME NEW hash \in Hash, NEW key, NEW info, NEW n \in 1..MaxCounter
    PROVE  Blocks(hash, key, info)[n] = Digest(BlockOf(hash, key, info, n))
BY BlocksAre, HmacIs DEF BlockOf

LEMMA BlockBytes ==
    ASSUME NEW hash \in Hash, NEW key, NEW info, NEW n \in 0..MaxCounter
    PROVE  /\ Bytes(Blocks(hash, key, info)[n])
           /\ Len(Blocks(hash, key, info)[n]) = IF n = 0 THEN 0 ELSE HLen
<1>1. CASE n = 0
  <2>1. Bytes(<<>>) /\ Len(<<>>) = 0
    <3>1. <<>> \in Seq({}) /\ Len(<<>>) = 0
      BY EmptySeq
    <3> QED
      BY <3>1 DEF Bytes
  <2> QED
    BY <1>1, <2>1, BlocksAre
<1>2. CASE n # 0
  <2>1. n \in 1..MaxCounter
    BY <1>2, Lengths
  <2> QED
    BY <1>2, <2>1, BlockIs, DigestBytes
<1> QED
  BY <1>1, <1>2

\* The counter at the end of what a block is of tells the blocks apart.
LEMMA BlocksDiffer ==
    ASSUME NEW hash \in Hash, NEW key, NEW info, Bytes(info), NEW n \in 1..MaxCounter, NEW m \in 1..MaxCounter,
           BlockOf(hash, key, info, n) = BlockOf(hash, key, info, m)
    PROVE  n = m
<1> DEFINE T == Blocks(hash, key, info)
<1> DEFINE x == T[n - 1] \o info
           y == T[m - 1] \o info
           cn == Nums(<<n>>)
           cm == Nums(<<m>>)
<1>1. x \o cn = y \o cm
  <2> DEFINE dn == x \o cn
             dm == y \o cm
  <2>1. HmacOf(hash, key, dn) = HmacOf(hash, key, dm)
    BY DEF BlockOf
  <2> HIDE DEF dn, dm
  <2>2. dn = dm
    BY <2>1, HmacsDiffer
  <2> QED
    BY <2>2 DEF dn, dm
<1>2. n - 1 \in 0..MaxCounter /\ m - 1 \in 0..MaxCounter
  BY Lengths
<1>3. Bytes(T[n - 1]) /\ Bytes(T[m - 1])
  BY <1>2, BlockBytes
<1> HIDE DEF T
<1>4. Bytes(x) /\ Bytes(y)
  BY <1>3, JoinedBytes
<1>5. Bytes(cn) /\ Bytes(cm) /\ Len(cn) = Len(cm) /\ cn[1] = Num(n) /\ cm[1] = Num(m)
  BY Counters
<1> HIDE DEF x, y, cn, cm
<1>6. cn = cm
  <2>1. Bytes(x) /\ Bytes(y) /\ Bytes(cn) /\ Bytes(cm) /\ x \o cn = y \o cm /\ Len(cn) = Len(cm)
    BY <1>1, <1>4, <1>5
  <2> QED
    BY ONLY <2>1, SameEnds
<1>7. Num(n) = Num(m)
  BY <1>5, <1>6
<1> QED
  BY <1>7, NumIsNoDigest, Lengths DEF Num

LEMMA Quotients ==
    ASSUME NEW p \in Nat \ {0}
    PROVE  /\ (p - 1) \div HLen \in Nat /\ (p - 1) % HLen \in 0..HLen - 1
           /\ p - 1 = (HLen * ((p - 1) \div HLen)) + ((p - 1) % HLen)
           /\ \A b \in Nat : p <= b * HLen => (p - 1) \div HLen < b
           /\ \A b \in Nat : \A j \in 1..HLen : p = b * HLen + j =>
                  (p - 1) \div HLen = b /\ (p - 1) % HLen = j - 1
<1> DEFINE q == (p - 1) \div HLen
           m == (p - 1) % HLen
<1>1. HLen \in Nat /\ HLen > 0 /\ p - 1 \in Nat
  BY Lengths
<1>2. q \in Int /\ m \in 0..HLen - 1 /\ p - 1 = HLen * q + m
  BY <1>1
<1> HIDE DEF q, m
<1>3. q \in Nat
  <2>1. CASE q < 0
    <3>1. q + 1 <= 0 /\ HLen * q + HLen = HLen * (q + 1)
      BY <1>1, <1>2, <2>1
    <3>2. \A a \in Nat, c \in Int : c <= 0 => a * c <= 0
      OBVIOUS
    <3>3. HLen * (q + 1) <= 0
      BY <1>1, <1>2, <3>1, <3>2
    <3> QED
      BY <1>1, <1>2, <3>1, <3>3
  <2> QED
    BY <1>2, <2>1
<1>4. \A a, b \in Nat : a <= b => HLen * a <= HLen * b
  BY <1>1
<1>5. ASSUME NEW b \in Nat, p <= b * HLen PROVE q < b
  <2>1. CASE b <= q
    <3>1. HLen * b <= HLen * q
      BY <1>3, <1>4, <2>1
    <3> QED
      BY <1>1, <1>2, <1>5, <3>1
  <2> QED
    BY <1>3, <2>1
<1>6. ASSUME NEW b \in Nat, NEW j \in 1..HLen, p = b * HLen + j PROVE q = b /\ m = j - 1
  <2>1. CASE b < q
    <3>1. HLen * (b + 1) <= HLen * q /\ HLen * (b + 1) = HLen * b + HLen
      BY <1>1, <1>3, <1>4, <2>1
    <3> QED
      BY <1>1, <1>2, <1>3, <1>6, <3>1
  <2>2. CASE q < b
    <3>1. HLen * (q + 1) <= HLen * b /\ HLen * (q + 1) = HLen * q + HLen
      BY <1>1, <1>3, <1>4, <2>2
    <3> QED
      BY <1>1, <1>2, <1>3, <1>6, <3>1
  <2>3. q = b
    BY <1>3, <2>1, <2>2
  <2> QED
    BY <1>1, <1>2, <1>6, <2>3
<1>7. /\ q \in Nat /\ m \in 0..HLen - 1 /\ p - 1 = (HLen * q) + m
      /\ \A b \in Nat : p <= b * HLen => q < b
      /\ \A b \in Nat : \A j \in 1..HLen : p = b * HLen + j => q = b /\ m = j - 1
  BY <1>2, <1>3, <1>5, <1>6
<1> QED
  BY ONLY <1>7, Zenon DEF q, m

\* The byte of the output at a place
LEMMA OutputAt ==
    ASSUME NEW hash \in Hash, NEW salt, NEW ikm, NEW info, NEW length \in 1..MaxCounter * HLen, NEW p \in 1..length
    PROVE  LET key == hkdfExtract(hash, salt, ikm)
               n == ((p - 1) \div HLen) + 1
               j == ((p - 1) % HLen) + 1
           IN  /\ n \in 1..MaxCounter /\ j \in 1..HLen
               /\ Output(hash, salt, ikm, info, length)[p] = Blocks(hash, key, info)[n][j]
               /\ Output(hash, salt, ikm, info, length)[p] = Digest(BlockOf(hash, key, info, n))[j]
<1> DEFINE key == hkdfExtract(hash, salt, ikm)
           q == (p - 1) \div HLen
           m == (p - 1) % HLen
<1>0. MaxCounter * HLen \in Nat /\ p \in Nat \ {0} /\ p <= MaxCounter * HLen /\ MaxCounter \in Nat /\ HLen \in Nat
  BY Lengths
<1>1. q \in Nat /\ m \in 0..HLen - 1 /\ q < MaxCounter
  BY <1>0, Quotients
<1>2. Output(hash, salt, ikm, info, length)[p] = Blocks(hash, key, info)[q + 1][m + 1]
  BY DEF Output
<1> HIDE DEF q, m, key
<1>3. q + 1 \in 1..MaxCounter /\ m + 1 \in 1..HLen
  BY <1>0, <1>1
<1>4. Blocks(hash, key, info)[q + 1] = Digest(BlockOf(hash, key, info, q + 1))
  BY <1>3, BlockIs
<1> QED
  BY <1>2, <1>3, <1>4 DEF q, m, key

LEMMA NoByteTwice ==
    ASSUME NEW hash \in Hash, NEW salt, NEW ikm, NEW info, Bytes(info), NEW length \in 1..MaxCounter * HLen,
           NEW a \in 1..length, NEW b \in 1..length,
           Output(hash, salt, ikm, info, length)[a] = Output(hash, salt, ikm, info, length)[b]
    PROVE  a = b
<1> DEFINE key == hkdfExtract(hash, salt, ikm)
           na == (a - 1) \div HLen
           ja == (a - 1) % HLen
           nb == (b - 1) \div HLen
           jb == (b - 1) % HLen
<1>0. MaxCounter * HLen \in Nat /\ a \in Nat \ {0} /\ b \in Nat \ {0} /\ HLen \in Nat
  BY Lengths
<1>1. /\ na + 1 \in 1..MaxCounter /\ ja + 1 \in 1..HLen
      /\ Output(hash, salt, ikm, info, length)[a] = Digest(BlockOf(hash, key, info, na + 1))[ja + 1]
  BY OutputAt
<1>2. /\ nb + 1 \in 1..MaxCounter /\ jb + 1 \in 1..HLen
      /\ Output(hash, salt, ikm, info, length)[b] = Digest(BlockOf(hash, key, info, nb + 1))[jb + 1]
  BY OutputAt
<1>3. a - 1 = HLen * na + ja /\ na \in Nat /\ ja \in Nat
  BY <1>0, Quotients
<1>4. b - 1 = HLen * nb + jb /\ nb \in Nat /\ jb \in Nat
  BY <1>0, Quotients
<1> HIDE DEF na, ja, nb, jb, key
<1>5. BlockOf(hash, key, info, na + 1) = BlockOf(hash, key, info, nb + 1) /\ ja + 1 = jb + 1
  <2> DEFINE x == BlockOf(hash, key, info, na + 1)
             y == BlockOf(hash, key, info, nb + 1)
  <2>1. Digest(x)[ja + 1] = Digest(y)[jb + 1]
    BY <1>1, <1>2
  <2> HIDE DEF x, y
  <2>2. x = y /\ ja + 1 = jb + 1
    BY <1>1, <1>2, <2>1, DigestsDiffer
  <2> QED
    BY <2>2 DEF x, y
<1>6. na + 1 = nb + 1
  BY <1>1, <1>2, <1>5, BlocksDiffer
<1>7. na = nb /\ ja = jb
  BY <1>3, <1>4, <1>5, <1>6
<1>8. a - 1 = b - 1
  BY <1>3, <1>4, <1>7
<1> QED
  BY <1>0, <1>8

\* Keys of other inputs are other keys.
LEMMA OutputsAgree ==
    ASSUME NEW h1 \in Hash, NEW h2 \in Hash, NEW x, NEW y, IsSalt(x), IsSalt(y), NEW ikm1, NEW ikm2,
           NEW info1, NEW info2, Bytes(info1), Bytes(info2), NEW length \in 1..MaxCounter * HLen
    PROVE  Output(h1, x, ikm1, info1, length) = Output(h2, y, ikm2, info2, length) <=>
               h1 = h2 /\ ikm1 = ikm2 /\ info1 = info2 /\ SameSalt(x, y)
<1> DEFINE key1 == hkdfExtract(h1, x, ikm1)
           key2 == hkdfExtract(h2, y, ikm2)
           of1 == HmacOf(h1, Given(x), ikm1)
           of2 == HmacOf(h2, Given(y), ikm2)
<1>0. /\ key1 = Digest(of1) /\ key2 = Digest(of2)
      /\ HLen \in Nat \ {0} /\ BlockSize \in Nat /\ HLen <= BlockSize /\ BlockSize - HLen \in Nat
      /\ 1 \in 1..length /\ 1 \in 1..MaxCounter /\ 1 \in 1..HLen /\ 0 \in 0..MaxCounter
  BY ExtractIs, Lengths
<1>1. ASSUME h1 = h2, ikm1 = ikm2, info1 = info2, SameSalt(x, y)
      PROVE  Output(h1, x, ikm1, info1, length) = Output(h2, y, ikm2, info2, length)
  <2>1. KeyOf(h1, Given(x)) = KeyOf(h2, Given(y))
    BY <1>1, SaltsAgree
  <2>2. of1 = of2
    BY <1>1, <2>1 DEF HmacOf
  <2>3. key1 = key2
    BY <1>0, <2>2
  <2> QED
    BY <1>1, <2>3 DEF Output
<1>2. ASSUME Output(h1, x, ikm1, info1, length) = Output(h2, y, ikm2, info2, length)
      PROVE  h1 = h2 /\ ikm1 = ikm2 /\ info1 = info2 /\ SameSalt(x, y)
  <2>1. (1 - 1) \div HLen = 0 /\ (1 - 1) % HLen = 0
    <3>1. 1 \in Nat \ {0} /\ 0 \in Nat /\ 1 \in 1..HLen /\ 1 = 0 * HLen + 1
      BY <1>0
    <3>2. (1 - 1) \div HLen = 0 /\ (1 - 1) % HLen = 1 - 1
      BY <3>1, Quotients
    <3> QED
      BY <3>2
  <2>2. Output(h1, x, ikm1, info1, length)[1] = Digest(BlockOf(h1, key1, info1, 1))[1]
    BY <1>0, <2>1, OutputAt
  <2>3. Output(h2, y, ikm2, info2, length)[1] = Digest(BlockOf(h2, key2, info2, 1))[1]
    BY <1>0, <2>1, OutputAt
  <2> HIDE DEF key1, key2, of1, of2
  <2>4. BlockOf(h1, key1, info1, 1) = BlockOf(h2, key2, info2, 1)
    <3> DEFINE b1 == BlockOf(h1, key1, info1, 1)
               b2 == BlockOf(h2, key2, info2, 1)
    <3>1. Digest(b1)[1] = Digest(b2)[1] /\ 1 \in 1..HLen
      BY <1>0, <1>2, <2>2, <2>3
    <3> HIDE DEF b1, b2
    <3>2. b1 = b2
      BY <3>1, DigestsDiffer
    <3> QED
      BY <3>2 DEF b1, b2
  <2>0. Blocks(h1, key1, info1)[1 - 1] = <<>> /\ Blocks(h2, key2, info2)[1 - 1] = <<>>
    <3>1. 1 - 1 = 0
      OBVIOUS
    <3> QED
      BY <3>1, BlocksAre
  <2>5. BlockOf(h1, key1, info1, 1) = HmacOf(h1, key1, <<>> \o info1 \o Nums(<<1>>))
    BY <2>0 DEF BlockOf
  <2>6. BlockOf(h2, key2, info2, 1) = HmacOf(h2, key2, <<>> \o info2 \o Nums(<<1>>))
    BY <2>0 DEF BlockOf
  <2>7. /\ <<>> \o info1 \o Nums(<<1>>) = <<>> \o info2 \o Nums(<<1>>)
        /\ h1 = h2 /\ KeyOf(h1, key1) = KeyOf(h2, key2)
    <3> DEFINE d1 == <<>> \o info1 \o Nums(<<1>>)
               d2 == <<>> \o info2 \o Nums(<<1>>)
    <3>1. HmacOf(h1, key1, d1) = HmacOf(h2, key2, d2)
      BY <2>4, <2>5, <2>6
    <3> HIDE DEF d1, d2
    <3>2. h1 = h2 /\ KeyOf(h1, key1) = KeyOf(h2, key2) /\ d1 = d2
      BY <3>1, HmacsDiffer
    <3> QED
      BY <3>2 DEF d1, d2
  <2>8. info1 = info2
    <3>1. \A S : \A s \in Seq(S) : <<>> \o s = s
      BY ConcatEmptySeq
    <3>2. <<>> \o info1 = info1 /\ <<>> \o info2 = info2
      BY <3>1 DEF Bytes
    <3> DEFINE c == Nums(<<1>>)
    <3>3. info1 \o c = info2 \o c
      BY <2>7, <3>2
    <3>4. Bytes(c) /\ Len(c) = Len(c)
      BY Counters
    <3> HIDE DEF c
    <3> QED
      BY <3>3, <3>4, SameEnds
  <2>9. key1 = key2
    <3>1. /\ Bytes(key1) /\ Len(key1) = HLen /\ Bytes(key2) /\ Len(key2) = HLen
          /\ Bytes(Zeros(BlockSize - HLen))
      BY <1>0, DigestBytes, ZerosBytes
    <3>2. KeyOf(h1, key1) = key1 \o Zeros(BlockSize - HLen) /\ KeyOf(h2, key2) = key2 \o Zeros(BlockSize - HLen)
      BY <1>0, <3>1, KeyOfIs
    <3>3. key1 \o Zeros(BlockSize - HLen) = key2 \o Zeros(BlockSize - HLen)
      BY <2>7, <3>2
    <3> DEFINE z == Zeros(BlockSize - HLen)
    <3> HIDE DEF z
    <3>4. Bytes(key1) /\ Bytes(key2) /\ Bytes(z) /\ key1 \o z = key2 \o z /\ Len(z) = Len(z)
      BY <3>1, <3>3 DEF z
    <3> QED
      BY ONLY <3>4, SameEnds
  <2>10. of1 = of2
    BY <1>0, <2>9, DigestsDiffer
  <2>11. KeyOf(h1, Given(x)) = KeyOf(h2, Given(y)) /\ ikm1 = ikm2
    BY <2>10, HmacsDiffer DEF of1, of2
  <2>12. SameSalt(x, y)
    BY <2>7, <2>11, SaltsAgree
  <2> QED
    BY <2>7, <2>8, <2>11, <2>12
<1> QED
  BY <1>1, <1>2

LEMMA HeadBytes ==
    ASSUME NEW d, Bytes(d), NEW n \in 1..Len(d)
    PROVE  /\ Bytes(SubSeq(d, 1, n)) /\ Len(SubSeq(d, 1, n)) = n
           /\ \A j \in 1..n : SubSeq(d, 1, n)[j] = d[j]
<1>1. PICK S : d \in Seq(S)
  BY DEF Bytes
<1>2. n \in Int /\ 1 \in Int /\ 1 <= n /\ Len(d) \in Nat /\ \A j \in 1..n : j \in 1..Len(d)
  BY BytesLen
<1>3. \A j \in 1..n : d[j] \in S
  BY <1>1, <1>2, ElementOfSeq
<1>4. SubSeq(d, 1, n) \in Seq(S) /\ Len(SubSeq(d, 1, n)) = n - 1 + 1
      /\ \A j \in 1..n - 1 + 1 : SubSeq(d, 1, n)[j] = d[1 + j - 1]
  BY <1>2, <1>3, SubSeqProperties
<1>5. n - 1 + 1 = n /\ \A j \in 1..n : 1 + j - 1 = j
  BY <1>2
<1>6. \A j \in 1..n : SubSeq(d, 1, n)[j] = d[j]
  BY <1>4, <1>5
<1> QED
  BY <1>4, <1>5, <1>6 DEF Bytes

\* These bytes are the beginning of the output.
Begins(o, hash, salt, ikm, info, length) ==
    Bytes(o) /\ \A p \in 1..Len(o) : o[p] = Output(hash, salt, ikm, info, length)[p]

\* What a block adds to them
WithBlock(o, b, length) == o \o SubSeq(b, 1, Smaller(HLen, length - Len(o)))

\* One round more: the bytes so far are those of the output, and so are the bytes of the next block.
LEMMA RoundAdds ==
    ASSUME NEW hash \in Hash, NEW salt, NEW ikm, NEW info, NEW length \in 1..MaxCounter * HLen,
           NEW n \in Nat, NEW o, Begins(o, hash, salt, ikm, info, length), Len(o) = n * HLen, n * HLen < length,
           NEW key, key = hkdfExtract(hash, salt, ikm)
    PROVE  /\ n + 1 \in 1..MaxCounter
           /\ Begins(WithBlock(o, Blocks(hash, key, info)[n + 1], length), hash, salt, ikm, info, length)
           /\ Len(WithBlock(o, Blocks(hash, key, info)[n + 1], length)) = Smaller((n + 1) * HLen, length)
<1>a. Bytes(o) /\ \A p \in 1..Len(o) : o[p] = Output(hash, salt, ikm, info, length)[p]
  BY DEF Begins
<1> DEFINE b == Blocks(hash, hkdfExtract(hash, salt, ikm), info)[n + 1]
           size == Smaller(HLen, length - Len(o))
           head == SubSeq(b, 1, size)
           more == o \o head
           max == MaxCounter * HLen
           at == n * HLen
<1>0. HLen \in Nat \ {0} /\ MaxCounter \in Nat \ {0} /\ max \in Nat /\ at \in Nat /\ length \in Nat /\ length <= max
  BY Lengths
<1>1. n + 1 \in 1..MaxCounter
  <2>1. CASE MaxCounter <= n
    <3>1. \A h, c, d \in Nat : c <= d => c * h <= d * h
      OBVIOUS
    <3>2. max <= at
      BY <1>0, <2>1, <3>1
    <3> HIDE DEF max, at
    <3>3. at < length
      BY DEF at
    <3> QED
      BY <1>0, <3>2, <3>3
  <2> QED
    BY <1>0, <2>1
<1>2. (n + 1) * HLen = at + HLen
  BY <1>0
<1>3. Bytes(b) /\ Len(b) = HLen
  <2>1. n + 1 \in 0..MaxCounter /\ n + 1 # 0
    BY <1>1
  <2> QED
    BY <2>1, BlockBytes
<1>4. at < length /\ Len(o) = at
  OBVIOUS
<1>5. size \in 1..HLen /\ size = (IF HLen < length - at THEN HLen ELSE length - at)
  <2> HIDE DEF at
  <2> QED
    BY <1>0, <1>4 DEF Smaller
<1>6. Bytes(head) /\ Len(head) = size /\ \A j \in 1..size : head[j] = b[j]
  <2> HIDE DEF b, size
  <2> QED
    BY <1>3, <1>5, HeadBytes
<1> HIDE DEF head
<1>7. /\ Bytes(more) /\ Len(more) = Len(o) + Len(head)
      /\ \A p \in 1..Len(o) + Len(head) : more[p] = IF p <= Len(o) THEN o[p] ELSE head[p - Len(o)]
  BY <1>a, <1>6, JoinedBytes
<1> HIDE DEF more, size
<1>8. Len(more) = Smaller((n + 1) * HLen, length)
  <2> HIDE DEF at
  <2>1. Len(more) = at + size
    BY <1>4, <1>6, <1>7
  <2>2. at + size = (IF at + HLen < length THEN at + HLen ELSE length)
    BY <1>0, <1>5
  <2> QED
    BY <1>2, <2>1, <2>2 DEF Smaller
<1>9. ASSUME NEW p \in 1..Len(more) PROVE more[p] = Output(hash, salt, ikm, info, length)[p]
  <2>0. p \in 1..at + size
    BY <1>4, <1>6, <1>7
  <2> HIDE DEF at
  <2>1. CASE p <= at
    <3>1. p \in 1..Len(o)
      BY <1>0, <1>4, <2>0, <2>1
    <3>2. more[p] = o[p]
      BY <1>4, <1>6, <1>7, <2>0, <2>1
    <3> QED
      BY <1>a, <3>1, <3>2
  <2>2. CASE ~(p <= at)
    <3> DEFINE j == p - at
    <3>1. j \in 1..size /\ j \in 1..HLen /\ p = at + j /\ p \in Nat \ {0}
      BY <1>0, <1>5, <2>0, <2>2
    <3> HIDE DEF j
    <3>2. more[p] = head[p - at]
      BY <1>4, <1>6, <1>7, <2>0, <2>2
    <3>3. more[p] = b[j]
      BY <1>6, <3>1, <3>2 DEF j
    <3>4. p = n * HLen + j
      BY <3>1 DEF at
    <3>5. (p - 1) \div HLen = n /\ (p - 1) % HLen = j - 1
      BY <3>1, <3>4, Quotients
    <3>6. p \in 1..length
      BY <1>0, <1>4, <1>5, <2>0
    <3>7. Output(hash, salt, ikm, info, length)[p] =
              Blocks(hash, hkdfExtract(hash, salt, ikm), info)[n + 1][(j - 1) + 1]
      BY <3>5, <3>6 DEF Output
    <3>8. (j - 1) + 1 = j
      BY <3>1
    <3> QED
      BY <3>3, <3>7, <3>8 DEF b
  <2> QED
    BY <2>1, <2>2
<1>10. more = WithBlock(o, Blocks(hash, key, info)[n + 1], length)
  BY DEF more, head, size, WithBlock
<1>11. Begins(more, hash, salt, ikm, info, length)
  BY <1>7, <1>9 DEF Begins
<1> QED
  BY <1>1, <1>8, <1>10, <1>11

-----------------------------------------------------------------------------
(* While a key is made, round blocks are made and the bytes so far are the *)
(* beginning of what the reference says.                                   *)
Expanded ==
    /\ request.hash \in Hash /\ IsSalt(request.salt) /\ Bytes(request.info)
    /\ request.length \in 1..MaxCounter * HLen
    /\ prk = hkdfExtract(request.hash, request.salt, request.ikm)
    /\ round \in 0..MaxCounter /\ block = Blocks(request.hash, prk, request.info)[round]
    /\ Begins(okm, request.hash, request.salt, request.ikm, request.info, request.length)
    /\ Len(okm) = Smaller(round * HLen, request.length)

DerivationInv ==
    /\ outcome \in {"expanding", "returned"} => Expanded
    /\ outcome = "returned" => Len(okm) = request.length

LEMMA EmptyBytes == Bytes(<<>>) /\ Len(<<>>) = 0 /\ Nums(<<>>) = <<>>
<1>1. <<>> \in Seq({}) /\ Len(<<>>) = 0
  BY EmptySeq
<1> QED
  BY <1>1 DEF Bytes, Nums

LEMMA hkdfExpands ==
    ASSUME NEW hash \in Hash, NEW salt, IsSalt(salt), NEW ikm, NEW info, Bytes(info),
           NEW length \in 0..MaxCounter * HLen + 1, hkdf(hash, salt, ikm, info, length)
    PROVE  DerivationInv'
<1>1. MaxCounter * HLen \in Nat /\ HLen \in Nat /\ MaxCounter \in Nat
  BY Lengths
<1>2. CASE length <= 0 \/ length > MaxCounter * HLen
  BY <1>2 DEF hkdf, DerivationInv
<1>3. CASE ~(length <= 0 \/ length > MaxCounter * HLen)
  <2>1. length \in 1..MaxCounter * HLen /\ length \in Nat
    BY <1>1, <1>3
  <2>2. /\ request'.hash = hash /\ request'.salt = salt /\ request'.ikm = ikm
        /\ request'.info = info /\ request'.length = length
        /\ prk' = hkdfExtract(hash, salt, ikm) /\ block' = <<>> /\ round' = 0 /\ okm' = <<>>
        /\ outcome' = "expanding"
    BY <1>3 DEF hkdf
  <2>3. 0 \in 0..MaxCounter /\ 0 * HLen = 0 /\ Smaller(0, length) = 0
    BY <1>1, <2>1 DEF Smaller
  <2>4. Blocks(hash, prk', info)[0] = <<>>
    BY BlocksAre
  <2>5. Begins(okm', hash, salt, ikm, info, length) /\ Len(okm') = 0
    BY <2>2, EmptyBytes DEF Begins
  <2>6. Expanded'
    BY <2>1, <2>2, <2>3, <2>4, <2>5 DEF Expanded
  <2> QED
    BY <2>2, <2>6 DEF DerivationInv
<1> QED
  BY <1>2, <1>3

LEMMA RoundExpands ==
    ASSUME DerivationInv, ExpandRound
    PROVE  DerivationInv'
<1> DEFINE n == round
           length == request.length
<1>1. Expanded /\ outcome = "expanding" /\ Len(okm) < length
  BY DEF DerivationInv, ExpandRound
<1>2. /\ request' = request /\ prk' = prk /\ outcome' = outcome /\ round' = n + 1
      /\ block' = hmac(request.hash, prk, BlockInput)
      /\ okm' = okm \o SubSeq(block', 1, Smaller(HLen, length - Len(okm)))
  BY DEF ExpandRound
<1>3. HLen \in Nat /\ n \in Nat /\ n * HLen \in Nat /\ length \in Nat /\ length \in 1..MaxCounter * HLen
  BY <1>1, Lengths DEF Expanded
<1>4. Len(okm) = n * HLen /\ n * HLen < length
  <2> DEFINE at == n * HLen
  <2>1. at \in Nat /\ Len(okm) = Smaller(at, length)
    BY <1>1, <1>3 DEF Expanded
  <2> HIDE DEF at, length, n
  <2>2. Len(okm) = at /\ at < length
    BY <1>1, <1>3, <2>1 DEF Smaller
  <2> QED
    BY <2>2 DEF at
<1>5. /\ n + 1 \in 1..MaxCounter
      /\ Begins(WithBlock(okm, Blocks(request.hash, prk, request.info)[n + 1], length),
                request.hash, request.salt, request.ikm, request.info, length)
      /\ Len(WithBlock(okm, Blocks(request.hash, prk, request.info)[n + 1], length)) = Smaller((n + 1) * HLen, length)
  <2> DEFINE hash == request.hash
             salt == request.salt
             ikm == request.ikm
             info == request.info
  <2>1. /\ hash \in Hash /\ length \in 1..MaxCounter * HLen /\ n \in Nat
        /\ Begins(okm, hash, salt, ikm, info, length) /\ Len(okm) = n * HLen /\ n * HLen < length
        /\ prk = hkdfExtract(hash, salt, ikm)
    BY <1>1, <1>3, <1>4 DEF Expanded
  <2> HIDE DEF hash, salt, ikm, info, length, n
  <2>2. /\ n + 1 \in 1..MaxCounter
        /\ Begins(WithBlock(okm, Blocks(hash, prk, info)[n + 1], length), hash, salt, ikm, info, length)
        /\ Len(WithBlock(okm, Blocks(hash, prk, info)[n + 1], length)) = Smaller((n + 1) * HLen, length)
    BY <2>1, RoundAdds
  <2> QED
    BY <2>2 DEF hash, salt, ikm, info, length, n
<1>6. block' = Blocks(request.hash, prk, request.info)[n + 1]
  <2>1. n + 1 \in 1..MaxCounter /\ (n + 1) - 1 = n
    BY <1>3, <1>5
  <2> QED
    BY <1>1, <1>2, <2>1, BlocksAre DEF Expanded, BlockInput
<1>7. Expanded'
  <2>1. n + 1 \in 0..MaxCounter
    BY <1>5
  <2>2. okm' = WithBlock(okm, Blocks(request.hash, prk, request.info)[n + 1], length)
    BY <1>2, <1>6 DEF WithBlock
  <2> QED
    BY <1>1, <1>2, <1>5, <1>6, <2>1, <2>2 DEF Expanded
<1> QED
  BY <1>1, <1>2, <1>7 DEF DerivationInv

LEMMA DerivationStep == DerivationInv /\ [DerivationNext]_derivationVars => DerivationInv'
<1> SUFFICES ASSUME DerivationInv, [DerivationNext]_derivationVars PROVE DerivationInv'
  OBVIOUS
<1>1. CASE \E hash \in Hash, s \in Ikm, length \in 0..MaxCounter * HLen + 1 :
             \/ \E salt \in Salt, info \in Info :
                    hkdf(hash, Nums(salt), SharedSecret(s), Nums(info), length)
             \/ \E context \in Info : deriveSessionKey(context, hash, SharedSecret(s), length)
  <2>1. PICK hash \in Hash, s \in Ikm, length \in 0..MaxCounter * HLen + 1 :
             \/ \E salt \in Salt, info \in Info :
                    hkdf(hash, Nums(salt), SharedSecret(s), Nums(info), length)
             \/ \E context \in Info : deriveSessionKey(context, hash, SharedSecret(s), length)
    BY <1>1
  <2>2. ASSUME NEW salt \in Salt, NEW info \in Info,
               hkdf(hash, Nums(salt), SharedSecret(s), Nums(info), length)
        PROVE  DerivationInv'
    <3>1. IsSalt(Nums(salt)) /\ Bytes(Nums(info))
      BY InfoBytes DEF IsSalt
    <3> QED
      BY <2>2, <3>1, hkdfExpands
  <2>3. ASSUME NEW context \in Info, deriveSessionKey(context, hash, SharedSecret(s), length)
        PROVE  DerivationInv'
    <3>1. IsSalt(blake2b(Nums(context), HLen \div 2)) /\ Bytes(SessionInfo)
      BY InfoBytes DEF IsSalt
    <3>2. hkdf(hash, blake2b(Nums(context), HLen \div 2), SharedSecret(s), SessionInfo, length)
      BY <2>3 DEF deriveSessionKey
    <3> QED
      BY <3>1, <3>2, hkdfExpands
  <2> QED
    BY <2>1, <2>2, <2>3
<1>2. CASE ExpandRound
  BY <1>2, RoundExpands
<1>3. CASE ExpandReturns
  BY <1>3 DEF ExpandReturns, DerivationInv, Expanded
<1>4. CASE UNCHANGED derivationVars
  BY <1>4 DEF derivationVars, DerivationInv, Expanded
<1> QED
  BY <1>1, <1>2, <1>3, <1>4 DEF DerivationNext

LEMMA ExpandedIsDerived == DerivationInv => KeysAreDerived
<1> SUFFICES ASSUME DerivationInv, outcome = "returned" PROVE KeysAreDerived
  BY DEF KeysAreDerived
<1> DEFINE length == request.length
           all == Output(request.hash, request.salt, request.ikm, request.info, length)
<1>1. Expanded /\ Len(okm) = length
  BY DEF DerivationInv
<1>2. /\ request.hash \in Hash /\ IsSalt(request.salt) /\ Bytes(request.info)
      /\ length \in 1..MaxCounter * HLen /\ Bytes(okm) /\ Len(okm) = length
      /\ \A p \in 1..length : okm[p] = all[p]
  BY <1>1 DEF Expanded, Begins
<1>3. okm = all
  <2>1. PICK S : okm \in Seq(S)
    BY <1>2 DEF Bytes
  <2>2. okm = [p \in 1..length |-> okm[p]]
    BY <1>2, <2>1, LenProperties
  <2>3. all = [p \in 1..length |-> all[p]]
    BY DEF Output
  <2> HIDE DEF all, length
  <2> QED
    BY <1>2, <2>2, <2>3
<1> DEFINE h == request.hash
           z == request.salt
           w == request.ikm
           i == request.info
<1>4. h \in Hash /\ IsSalt(z) /\ Bytes(i) /\ length \in 1..MaxCounter * HLen /\ all = Output(h, z, w, i, length)
  BY <1>2
<1> HIDE DEF h, z, w, i, length, all
<1>5. ASSUME NEW a \in 1..Len(okm), NEW b \in 1..Len(okm), a # b PROVE okm[a] # okm[b]
  <2>1. a \in 1..length /\ b \in 1..length
    BY <1>2
  <2>2. Output(h, z, w, i, length)[a] # Output(h, z, w, i, length)[b]
    BY <1>4, <1>5, <2>1, NoByteTwice
  <2> QED
    BY <1>3, <1>4, <2>2
<1>6. ASSUME NEW hash \in Hash, NEW salt \in Salt, NEW s \in Ikm, NEW info \in Info
      PROVE  okm = Output(hash, Nums(salt), SharedSecret(s), Nums(info), length) <=>
                 /\ hash = h /\ SharedSecret(s) = w /\ Nums(info) = i
                 /\ SameSalt(Nums(salt), z)
  <2> DEFINE x == Nums(salt)
             j == SharedSecret(s)
             c == Nums(info)
  <2>1. IsSalt(x) /\ Bytes(c)
    BY InfoBytes DEF IsSalt
  <2> HIDE DEF x, j, c
  <2>2. Output(hash, x, j, c, length) = Output(h, z, w, i, length) <=>
            hash = h /\ j = w /\ c = i /\ SameSalt(x, z)
    BY <1>4, <2>1, OutputsAgree
  <2> QED
    BY <1>3, <1>4, <2>2 DEF x, j, c
<1> QED
  BY <1>2, <1>3, <1>5, <1>6 DEF KeysAreDerived, h, z, w, i, length, all

(* Every key is the one of RFC 5869 for its arguments, of the length asked *)
(* for and with no byte twice, and only the same hash, secret, information *)
(* and salt give it (hkdf, hkdfExpand, deriveSessionKey).                  *)
THEOREM KeysAreThoseOfTheReference == DerivationSpec => []KeysAreDerived
<1>1. DerivationInit => DerivationInv
  BY DEF DerivationInit, DerivationInv
<1> QED
  BY <1>1, DerivationStep, ExpandedIsDerived, PTL DEF DerivationSpec

-----------------------------------------------------------------------------
\* X25519: the field.  Equalities of the field are congruences of integers.

Field == 0..P - 1
Cong(a, b) == \E m \in Int : a = b + m * P

LEMMA FieldFacts ==
    /\ P \in Nat /\ P >= 3 /\ 0 \in Field /\ 1 \in Field /\ Field \subseteq Int
    /\ \A a \in Field : a \in Nat /\ a < P
    /\ \A a \in Nat : a < P => a \in Field
BY X25519Assumption DEF Field

LEMMA ModP ==
    ASSUME NEW a \in Int
    PROVE  a % P \in Field /\ Cong(a % P, a)
<1>1. a % P \in 0..P - 1 /\ a = (P * (a \div P)) + (a % P) /\ a \div P \in Int
  BY FieldFacts
<1>2. P \in Int /\ a % P \in Int /\ a \div P \in Int
  BY <1>1, FieldFacts
<1> DEFINE r == a % P
           d == a \div P
<1>3. r \in Int /\ d \in Int /\ P \in Int /\ a = P * d + r
  BY <1>1, <1>2
<1> HIDE DEF r, d
<1>4. -d \in Int /\ r = a + (-d) * P
  BY <1>3
<1> QED BY <1>1, <1>4 DEF Cong, Field, r

LEMMA CongRefl == ASSUME NEW a \in Int PROVE Cong(a, a)
<1>1. 0 \in Int /\ a = a + 0 * P
  BY FieldFacts
<1> QED BY <1>1 DEF Cong

LEMMA CongSym == ASSUME NEW a \in Int, NEW b \in Int, Cong(a, b) PROVE Cong(b, a)
<1>1. PICK m \in Int : a = b + m * P
  BY DEF Cong
<1>2. -m \in Int /\ b = a + (-m) * P
  BY <1>1, FieldFacts
<1> QED BY <1>2 DEF Cong

LEMMA CongTrans ==
    ASSUME NEW a \in Int, NEW b \in Int, NEW c \in Int, Cong(a, b), Cong(b, c)
    PROVE  Cong(a, c)
<1>1. PICK m \in Int : a = b + m * P
  BY DEF Cong
<1>2. PICK n \in Int : b = c + n * P
  BY DEF Cong
<1>3. m + n \in Int /\ a = c + (m + n) * P
  BY <1>1, <1>2, FieldFacts
<1> QED BY <1>3 DEF Cong

LEMMA CongOps ==
    ASSUME NEW a \in Int, NEW b \in Int, NEW c \in Int, NEW d \in Int, Cong(a, b), Cong(c, d)
    PROVE  Cong(a + c, b + d) /\ Cong(a - c, b - d) /\ Cong(a * c, b * d)
<1>1. PICK m \in Int : a = b + m * P
  BY DEF Cong
<1>2. PICK n \in Int : c = d + n * P
  BY DEF Cong
<1>3. m + n \in Int /\ a + c = (b + d) + (m + n) * P
  BY <1>1, <1>2, FieldFacts
<1>4. m - n \in Int /\ a - c = (b - d) + (m - n) * P
  BY <1>1, <1>2, FieldFacts
<1>5. m * d + b * n + (m * P) * n \in Int /\ a * c = b * d + (m * d + b * n + (m * P) * n) * P
  BY <1>1, <1>2, FieldFacts
<1> QED BY <1>3, <1>4, <1>5 DEF Cong

LEMMA CongIsEqual == ASSUME NEW a \in Field, NEW b \in Field, Cong(a, b) PROVE a = b
<1>1. PICK m \in Int : a = b + m * P
  BY DEF Cong
<1>2. a \in Int /\ b \in Int /\ 0 <= a /\ 0 <= b /\ a < P /\ b < P /\ P \in Int
  BY FieldFacts
<1>3. CASE m >= 1
  <2>1. m * P >= P
    <3>1. \A x, y \in Nat : x >= 1 => x * y >= y
      OBVIOUS
    <3> QED BY <1>3, <3>1, FieldFacts
  <2> QED BY <1>1, <1>2, <2>1
<1>4. CASE m <= -1
  <2>1. (-m) * P >= P
    <3>1. \A x, y \in Nat : x >= 1 => x * y >= y
      OBVIOUS
    <3> QED BY <1>4, <3>1, FieldFacts
  <2>2. m * P = -((-m) * P)
    BY <1>2
  <2> QED BY <1>1, <1>2, <2>1, <2>2
<1> QED BY <1>1, <1>2, <1>3, <1>4

LEMMA CongMod == ASSUME NEW a \in Int, NEW b \in Int, Cong(a, b) PROVE a % P = b % P
<1>1. a % P \in Int /\ b % P \in Int
  BY ModP, FieldFacts
<1>2. Cong(a % P, b % P)
  BY <1>1, ModP, CongTrans, CongSym
<1> QED BY <1>2, ModP, CongIsEqual

\* The operations of the code stay in the field, and are those of the integers.
LEMMA Operations ==
    ASSUME NEW a \in Int, NEW b \in Int
    PROVE  /\ add(a, b) \in Field /\ Cong(add(a, b), a + b)
           /\ sub(a, b) \in Field /\ Cong(sub(a, b), a - b)
           /\ mul(a, b) \in Field /\ Cong(mul(a, b), a * b)
BY ModP DEF add, sub, mul

-----------------------------------------------------------------------------
\* X25519: functions defined by recursion on the naturals up to N

Iterated(f, n, S, first, step) ==
    /\ f \in [0..n -> S] /\ f[0] = first
    /\ \A m \in 1..n : f[m] = step[<<m, f[m - 1]>>]

\* What is missing of a set of naturals is missing from a least one on.
LEMMA LeastMissing ==
    ASSUME NEW T \in SUBSET Nat, NEW N \in Nat, N \notin T
    PROVE  \E n \in Nat : n <= N /\ n \notin T /\ \A m \in Nat : m < n => m \in T
<1> DEFINE Missing == {n \in Nat : n <= N /\ n \notin T}
<1>1. Missing \subseteq Nat /\ Missing # {}
  OBVIOUS
<1>2. PICK n \in Missing : \A m \in Missing : ~(<<m, n>> \in OpToRel(<, Nat))
  BY <1>1, NatLessThanWellFounded, WFMin
<1>3. \A m \in Missing : ~(m < n)
  BY <1>1, <1>2 DEF OpToRel
<1>4. n \in Nat /\ n <= N /\ n \notin T
  BY <1>2
<1>5. ASSUME NEW m \in Nat, m < n PROVE m \in T
  <2>1. m <= N
    BY <1>4, <1>5
  <2>2. m \notin Missing
    BY <1>3, <1>5
  <2> QED BY <2>1, <2>2
<1> QED BY <1>4, <1>5

LEMMA Iterates ==
    ASSUME NEW N \in Nat, NEW S, NEW first \in S, NEW step \in [(1..N) \X S -> S]
    PROVE  \E f : Iterated(f, N, S, first, step)
<1> DEFINE Done == {n \in Nat : \E f : Iterated(f, n, S, first, step)}
<1>1. SUFFICES ASSUME N \notin Done PROVE FALSE
  OBVIOUS
<1>2. PICK n \in Nat : n <= N /\ n \notin Done /\ \A m \in Nat : m < n => m \in Done
  <2>1. Done \in SUBSET Nat
    OBVIOUS
  <2> HIDE DEF Done
  <2> QED BY <1>1, <2>1, LeastMissing
<1>3. CASE n = 0
  <2> DEFINE g == [m \in 0..0 |-> first]
  <2>1. Iterated(g, 0, S, first, step)
    BY DEF Iterated
  <2> QED BY <1>2, <1>3, <2>1
<1>4. CASE n # 0
  <2>1. n - 1 \in Nat /\ n - 1 < n /\ n \in 1..N /\ n - 1 \in 0..n - 1
    BY <1>2, <1>4
  <2>2. PICK f : Iterated(f, n - 1, S, first, step)
    BY <1>2, <2>1
  <2> DEFINE last == step[<<n, f[n - 1]>>]
             g == [m \in 0..n |-> IF m = n THEN last ELSE f[m]]
  <2>3. f \in [0..n - 1 -> S] /\ f[0] = first /\ \A m \in 1..n - 1 : f[m] = step[<<m, f[m - 1]>>]
    BY <2>2 DEF Iterated
  <2>4. last \in S
    BY <2>1, <2>3
  <2> HIDE DEF last
  <2>5. g \in [0..n -> S]
    BY <2>1, <2>3, <2>4
  <2>6. \A m \in 0..n - 1 : g[m] = f[m]
    BY <2>1
  <2>7. g[n] = last
    BY <2>1
  <2>8. 0 \in 0..n - 1
    BY <2>1
  <2> HIDE DEF g
  <2>9. ASSUME NEW m \in 1..n PROVE g[m] = step[<<m, g[m - 1]>>]
    <3>1. CASE m = n
      <4>1. g[n - 1] = f[n - 1]
        BY <2>1, <2>6
      <4>2. last = step[<<n, g[n - 1]>>]
        BY <4>1 DEF last
      <4> QED BY <2>7, <3>1, <4>2
    <3>2. CASE m # n
      <4>1. m \in 1..n - 1 /\ m \in 0..n - 1 /\ m - 1 \in 0..n - 1
        BY <2>1, <3>2
      <4> QED BY <2>3, <2>6, <4>1
    <3> QED BY <3>1, <3>2
  <2>10. Iterated(g, n, S, first, step)
    BY <2>3, <2>5, <2>6, <2>8, <2>9 DEF Iterated
  <2> QED BY <1>2, <2>10
<1> QED BY <1>3, <1>4

\* Powers of two
LEMMA BitsType == BITS \in Nat /\ BITS >= 3 /\ BITS + 1 = ByteBits * Size
<1>1. ByteBits \in Nat /\ Size \in Nat /\ ByteBits >= 2 /\ Size >= 2
  BY X25519Assumption
<1>2. \A a, b \in Nat : a >= 2 /\ b >= 2 => a * b >= 4 /\ a * b \in Nat
  <2> SUFFICES ASSUME NEW a \in Nat, NEW b \in Nat, a >= 2, b >= 2 PROVE a * b >= 4 /\ a * b \in Nat
    OBVIOUS
  <2>1. (a - 2) * (b - 2) >= 0 /\ a * b = (a - 2) * (b - 2) + 2 * a + 2 * b - 4
    <3>1. \A c, d \in Nat : c * d >= 0
      OBVIOUS
    <3> QED BY <3>1
  <2> QED BY <2>1
<1>3. ByteBits * Size >= 4 /\ ByteBits * Size \in Nat
  BY <1>1, <1>2
<1> QED BY <1>3 DEF BITS

LEMMA PowersOfTwo ==
    /\ Pow2 \in [0..BITS + 1 -> Nat] /\ Pow2[0] = 1
    /\ \A n \in 1..BITS + 1 : Pow2[n] = 2 * Pow2[n - 1]
<1> DEFINE N == BITS + 1
           step == [p \in (1..N) \X Nat |-> 2 * p[2]]
           Is(f) == f = [n \in 0..N |-> IF n = 0 THEN 1 ELSE 2 * f[n - 1]]
<1>1. N \in Nat /\ step \in [(1..N) \X Nat -> Nat]
  BY BitsType
<1>2. Pow2 = CHOOSE f : Is(f)
  BY DEF Pow2
<1> HIDE DEF step
<1>3. PICK f : Iterated(f, N, Nat, 1, step)
  BY <1>1, Iterates
<1> HIDE DEF N
<1>4. f \in [0..N -> Nat] /\ f[0] = 1 /\ \A n \in 1..N : f[n] = 2 * f[n - 1]
  <2>1. f \in [0..N -> Nat] /\ f[0] = 1 /\ \A n \in 1..N : f[n] = step[<<n, f[n - 1]>>]
    BY <1>3 DEF Iterated
  <2>2. ASSUME NEW n \in 1..N PROVE f[n] = 2 * f[n - 1]
    <3>1. f[n - 1] \in Nat
      BY <1>1, <2>1
    <3> QED BY <2>1, <2>2, <3>1 DEF step
  <2> QED BY <2>1, <2>2
<1>5. Is(f)
  <2>1. \A n \in 0..N : n # 0 => n \in 1..N
    BY <1>1
  <2> QED BY <1>4, <2>1
<1>6. Is(Pow2)
  <2> HIDE DEF Is
  <2> QED BY <1>2, <1>5
<1>7. Pow2[0] = 1 /\ DOMAIN Pow2 = 0..N /\ \A n \in 1..N : Pow2[n] = 2 * Pow2[n - 1]
  BY <1>1, <1>6
<1> DEFINE T == {n \in Nat : n <= N => Pow2[n] = f[n]}
<1>8. ASSUME NEW n \in Nat, n <= N PROVE Pow2[n] = f[n]
  <2>1. T \in SUBSET Nat
    OBVIOUS
  <2>2. CASE n \notin T
    <3>1. PICK m \in Nat : m <= n /\ m \notin T /\ \A l \in Nat : l < m => l \in T
      <4> HIDE DEF T
      <4> QED BY <2>1, <2>2, LeastMissing
    <3>2. m <= N /\ Pow2[m] # f[m]
      BY <3>1
    <3>3. m # 0
      BY <1>4, <1>7, <3>2
    <3>4. m \in 1..N /\ m - 1 \in Nat /\ m - 1 < m /\ m - 1 <= N
      BY <3>1, <3>2, <3>3, <1>1
    <3>5. Pow2[m - 1] = f[m - 1]
      BY <3>1, <3>4
    <3> QED BY <1>4, <1>7, <3>2, <3>4, <3>5
  <2> QED BY <1>8, <2>2
<1>9. Pow2 \in [0..N -> Nat]
  <2>1. Pow2 = [n \in 0..N |-> IF n = 0 THEN 1 ELSE 2 * Pow2[n - 1]]
    BY <1>6
  <2>2. \A n \in 0..N : Pow2[n] \in Nat
    BY <1>1, <1>4, <1>8
  <2> QED BY <1>7, <2>1, <2>2
<1> QED BY <1>7, <1>9 DEF N

Zero(a) == \E m \in Int : a = m * P

\* Induction up to a bound, over a set of naturals.
LEMMA UpTo ==
    ASSUME NEW N \in Nat, NEW T \in SUBSET Nat, 0 \in T,
           \A n \in 1..N : n - 1 \in T => n \in T
    PROVE  \A n \in 0..N : n \in T
<1> SUFFICES ASSUME NEW n \in 0..N, n \notin T PROVE FALSE
  OBVIOUS
<1>1. n \in Nat
  OBVIOUS
<1>2. PICK m \in Nat : m <= n /\ m \notin T /\ \A l \in Nat : l < m => l \in T
  BY <1>1, LeastMissing
<1>3. m \in 1..N /\ m - 1 \in Nat /\ m - 1 < m
  BY <1>2
<1> QED BY <1>2, <1>3

LEMMA Congruences ==
    ASSUME NEW a \in Int, NEW b \in Int
    PROVE  Cong(a, b) <=> Zero(a - b)
<1>1. ASSUME Cong(a, b) PROVE Zero(a - b)
  <2>1. PICK m \in Int : a = b + m * P
    BY <1>1 DEF Cong
  <2>2. a - b = m * P
    BY <2>1, FieldFacts
  <2> QED BY <2>2 DEF Zero
<1>2. ASSUME Zero(a - b) PROVE Cong(a, b)
  <2>1. PICK m \in Int : a - b = m * P
    BY <1>2 DEF Zero
  <2>2. a = b + m * P
    BY <2>1, FieldFacts
  <2> QED BY <2>2 DEF Cong
<1> QED BY <1>1, <1>2

LEMMA ZeroFacts ==
    /\ Zero(0)
    /\ \A a, b \in Int : Zero(a) /\ Zero(b) => Zero(a + b) /\ Zero(a - b)
    /\ \A a, c \in Int : Zero(a) => Zero(c * a) /\ Zero(a * c) /\ Zero(-a)
<1>1. 0 \in Int /\ 0 = 0 * P
  BY FieldFacts
<1>2. ASSUME NEW a \in Int, NEW b \in Int, Zero(a), Zero(b) PROVE Zero(a + b) /\ Zero(a - b)
  <2>1. PICK m \in Int : a = m * P
    BY <1>2 DEF Zero
  <2>2. PICK n \in Int : b = n * P
    BY <1>2 DEF Zero
  <2>3. m + n \in Int /\ a + b = (m + n) * P /\ m - n \in Int /\ a - b = (m - n) * P
    BY <2>1, <2>2, FieldFacts
  <2> QED BY <2>3 DEF Zero
<1>3. ASSUME NEW a \in Int, NEW c \in Int, Zero(a) PROVE Zero(c * a) /\ Zero(a * c) /\ Zero(-a)
  <2>1. PICK m \in Int : a = m * P
    BY <1>3 DEF Zero
  <2>2. c * m \in Int /\ c * a = (c * m) * P /\ a * c = (c * m) * P
        /\ -m \in Int /\ -a = (-m) * P
    BY <2>1, FieldFacts
  <2> QED BY <2>2 DEF Zero
<1> QED
  <2>1. Zero(0)
    BY <1>1 DEF Zero
  <2> QED BY <2>1, <1>2, <1>3

\* A combination of numbers that are zero in the field is zero in it.
LEMMA Combination ==
    ASSUME NEW a \in Int, NEW b \in Int, NEW c \in Int, NEW p \in Int, NEW q \in Int, NEW r \in Int,
           Zero(a), Zero(b), Zero(c)
    PROVE  Zero(p * a) /\ Zero(p * a + q * b) /\ Zero(p * a + q * b + r * c)
<1>1. Zero(p * a) /\ Zero(q * b) /\ Zero(r * c)
  BY ZeroFacts
<1>2. p * a \in Int /\ q * b \in Int /\ r * c \in Int
  OBVIOUS
<1>3. Zero(p * a + q * b)
  <2> DEFINE x == p * a
             y == q * b
  <2>1. x \in Int /\ y \in Int /\ Zero(x) /\ Zero(y)
    BY <1>1, <1>2
  <2> HIDE DEF x, y
  <2>2. Zero(x + y)
    BY <2>1, ZeroFacts
  <2> QED BY <2>2 DEF x, y
<1>4. Zero(p * a + q * b + r * c)
  <2> DEFINE x == p * a + q * b
             y == r * c
  <2>1. x \in Int /\ y \in Int /\ Zero(x) /\ Zero(y)
    BY <1>1, <1>2, <1>3
  <2> HIDE DEF x, y
  <2>2. Zero(x + y)
    BY <2>1, ZeroFacts
  <2> QED BY <2>2 DEF x, y
<1> QED BY <1>1, <1>3, <1>4

\* Zero in the field, by the remainder; elements of the field
LEMMA ZeroIsRemainder ==
    ASSUME NEW a \in Int
    PROVE  /\ Zero(a) <=> a % P = 0
           /\ a \in Field /\ Zero(a) => a = 0
           /\ Zero((a % P) - a) /\ Zero(a - (a % P)) /\ (Zero(a % P) <=> Zero(a))
<1>1. a % P \in Field /\ a % P \in Int /\ Cong(a % P, a)
  BY ModP, FieldFacts
<1>2. Zero((a % P) - a)
  BY <1>1, Congruences
<1>3. Zero(a - (a % P))
  BY <1>1, CongSym, Congruences
<1> DEFINE r == a % P
<1>4. r \in Int /\ r \in Field /\ Zero(r - a) /\ Zero(a - r)
  BY <1>1, <1>2, <1>3
<1>5. ASSUME a \in Field, Zero(a) PROVE a = 0
  <2>1. Cong(a, 0) /\ 0 \in Field /\ 0 \in Int
    <3>1. a - 0 = a /\ 0 \in Int
      OBVIOUS
    <3> QED BY <1>5, <3>1, Congruences, FieldFacts
  <2> QED BY <1>5, <2>1, CongIsEqual
<1> HIDE DEF r
<1>6. Zero(a) => Zero(r)
  <2>1. r = (r - a) + a /\ r - a \in Int
    BY <1>4
  <2> QED BY <1>4, <2>1, ZeroFacts
<1>7. Zero(r) => Zero(a)
  <2>1. a = (a - r) + r /\ a - r \in Int
    BY <1>4
  <2> QED BY <1>4, <2>1, ZeroFacts
<1>8. Zero(r) => r = 0
  <2>1. Cong(r, 0) <=> Zero(r - 0)
    BY <1>4, Congruences
  <2>2. r - 0 = r
    BY <1>4
  <2> QED BY <1>4, <2>1, <2>2, CongIsEqual, FieldFacts
<1>9. r = 0 => Zero(r)
  BY ZeroFacts
<1> QED BY <1>2, <1>3, <1>5, <1>6, <1>7, <1>8, <1>9 DEF r

LEMMA CombinationOfTwo ==
    ASSUME NEW a \in Int, NEW b \in Int, NEW p \in Int, NEW q \in Int, Zero(a), Zero(b)
    PROVE  Zero(p * a + q * b)
BY Combination

LEMMA CongSub ==
    ASSUME NEW a \in Int, NEW b \in Int, NEW c \in Int
    PROVE  Cong(a, b) => mul(a, c) = mul(b, c) /\ mul(c, a) = mul(c, b)
<1> SUFFICES ASSUME Cong(a, b) PROVE mul(a, c) = mul(b, c) /\ mul(c, a) = mul(c, b)
  OBVIOUS
<1>1. Cong(a * c, b * c) /\ Cong(c * a, c * b)
  BY CongRefl, CongOps
<1>2. a * c \in Int /\ b * c \in Int /\ c * a \in Int /\ c * b \in Int
  OBVIOUS
<1>3. (a * c) % P = (b * c) % P /\ (c * a) % P = (c * b) % P
  BY <1>1, <1>2, CongMod
<1> QED BY <1>3 DEF mul

LEMMA Remainders == \A a \in Field : a % P = a
<1> SUFFICES ASSUME NEW a \in Field PROVE a % P = a
  OBVIOUS
<1>1. a \in Int /\ a % P \in Field /\ Cong(a % P, a)
  BY ModP, FieldFacts
<1> QED BY <1>1, CongIsEqual

LEMMA MulAssoc ==
    ASSUME NEW a \in Int, NEW b \in Int, NEW c \in Int
    PROVE  mul(mul(a, b), c) = mul(a, mul(b, c))
<1> DEFINE ab == mul(a, b)
           bc == mul(b, c)
<1>1. ab \in Int /\ Cong(ab, a * b) /\ bc \in Int /\ Cong(bc, b * c) /\ a * b \in Int /\ b * c \in Int
  <2>1. mul(a, b) \in Field /\ Cong(mul(a, b), a * b)
    BY Operations
  <2>2. mul(b, c) \in Field /\ Cong(mul(b, c), b * c)
    BY Operations
  <2>3. a * b \in Int /\ b * c \in Int
    OBVIOUS
  <2> QED BY <2>1, <2>2, <2>3, FieldFacts
<1> HIDE DEF ab, bc
<1>2. mul(ab, c) = mul(a * b, c) /\ mul(a, bc) = mul(a, b * c)
  BY <1>1, CongSub
<1>3. (a * b) * c = a * (b * c)
  OBVIOUS
<1>4. mul(a * b, c) = mul(a, b * c)
  BY <1>3 DEF mul
<1> QED BY <1>2, <1>4 DEF ab, bc

LEMMA PowersOf ==
    ASSUME NEW a \in Int
    PROVE  /\ Powers(a)[0] = 1
           /\ \A n \in 1..P - 1 : Powers(a)[n] = mul(Powers(a)[n - 1], a)
           /\ \A n \in 0..P - 1 : Powers(a)[n] \in Field
<1> DEFINE N == P - 1
           step == [p \in (1..N) \X Field |-> mul(p[2], a)]
           Is(f) == f = [n \in 0..N |-> IF n = 0 THEN 1 ELSE mul(f[n - 1], a)]
           W == Powers(a)
<1>1. N \in Nat /\ step \in [(1..N) \X Field -> Field] /\ 1 \in Field
  <2>1. \A p \in (1..N) \X Field : mul(p[2], a) \in Field
    BY Operations, FieldFacts
  <2> QED BY <2>1, FieldFacts
<1>2. W = CHOOSE f : Is(f)
  BY DEF Powers
<1> HIDE DEF step, W
<1>3. PICK f : Iterated(f, N, Field, 1, step)
  BY <1>1, Iterates
<1> HIDE DEF N
<1>4. f \in [0..N -> Field] /\ f[0] = 1 /\ \A n \in 1..N : f[n] = mul(f[n - 1], a)
  <2>1. f \in [0..N -> Field] /\ f[0] = 1 /\ \A n \in 1..N : f[n] = step[<<n, f[n - 1]>>]
    BY <1>3 DEF Iterated
  <2>2. ASSUME NEW n \in 1..N PROVE f[n] = mul(f[n - 1], a)
    <3>1. f[n - 1] \in Field
      BY <1>1, <2>1
    <3> QED BY <2>1, <2>2, <3>1 DEF step
  <2> QED BY <2>1, <2>2
<1>5. Is(f)
  <2>1. \A n \in 0..N : n # 0 => n \in 1..N
    BY <1>1
  <2> QED BY <1>4, <2>1
<1>6. Is(W)
  <2> HIDE DEF Is
  <2> QED BY <1>2, <1>5
<1>7. W[0] = 1 /\ \A n \in 1..N : W[n] = mul(W[n - 1], a)
  BY <1>1, <1>6
<1> DEFINE T == {n \in 0..N : W[n] \in Field}
<1>8. \A n \in 0..N : n \in T
  <2>1. T \in SUBSET Nat /\ 0 \in T
    BY <1>1, <1>7
  <2>2. \A n \in 1..N : n - 1 \in T => n \in T
    <3>1. \A n \in 1..N : W[n - 1] \in Field => W[n] \in Field
      BY <1>7, Operations, FieldFacts
    <3> QED BY <3>1, <1>1
  <2> HIDE DEF T
  <2> QED BY <1>1, <2>1, <2>2, UpTo
<1> QED BY <1>7, <1>8 DEF N, W

LEMMA PowersAdd ==
    ASSUME NEW a \in Int, NEW m \in 0..P - 1, NEW l \in 0..P - 1, m + l <= P - 1
    PROVE  Powers(a)[m + l] = mul(Powers(a)[m], Powers(a)[l])
<1> DEFINE W == Powers(a)
           T == {n \in 0..l : W[m + n] = mul(W[m], W[n])}
<1>1. W[0] = 1 /\ (\A n \in 1..P - 1 : W[n] = mul(W[n - 1], a)) /\ \A n \in 0..P - 1 : W[n] \in Field
  BY PowersOf
<1>2. P \in Nat /\ \A n \in 0..P - 1 : W[n] \in Int
  BY <1>1, FieldFacts
<1> HIDE DEF W
<1>3. T \in SUBSET Nat /\ 0 \in T
  <2>1. mul(W[m], 1) = W[m]
    <3>1. W[m] * 1 = W[m] /\ W[m] \in Field
      BY <1>1, <1>2
    <3> QED BY <3>1, Remainders DEF mul
  <2>2. m + 0 = m /\ 0 \in 0..l
    BY FieldFacts
  <2> QED BY <1>1, <2>1, <2>2
<1>4. ASSUME NEW n \in 1..l, n - 1 \in T PROVE n \in T
  <2>1. W[m + (n - 1)] = mul(W[m], W[n - 1])
    BY <1>4
  <2>2. n \in 1..P - 1 /\ m + n \in 1..P - 1 /\ m + (n - 1) = (m + n) - 1 /\ n - 1 \in 0..P - 1
        /\ n \in 0..l
    BY <1>2
  <2>3. W[m + n] = mul(W[(m + n) - 1], a) /\ W[n] = mul(W[n - 1], a)
    BY <1>1, <2>2
  <2>4. mul(mul(W[m], W[n - 1]), a) = mul(W[m], mul(W[n - 1], a))
    BY <1>2, <2>2, MulAssoc
  <2> QED BY <2>1, <2>2, <2>3, <2>4
<1>5. l \in Nat /\ l \in 0..l
  BY <1>2
<1>6. \A n \in 0..l : n \in T
  <2> HIDE DEF T
  <2> QED BY <1>3, <1>4, <1>5, UpTo
<1> QED BY <1>5, <1>6 DEF W

\* The exponentiation of the code, by squaring, computes the power.
LEMMA InverseIsPower ==
    ASSUME NEW a \in Int
    PROVE  inv(a) = Powers(a)[P - 2]
<1> DEFINE N == P - 2
           W == Powers(a)
           factor(e) == IF e % 2 = 1 THEN a ELSE 1
           Is(f) == f = [e \in 0..N |-> IF e = 0 THEN 1
                                        ELSE LET half == f[e \div 2] IN mul(mul(half, half), IF e % 2 = 1 THEN a ELSE 1)]
           V == CHOOSE f : Is(f)
           g == [e \in 0..N |-> W[e]]
<1>1. W[0] = 1 /\ (\A n \in 1..P - 1 : W[n] = mul(W[n - 1], a)) /\ \A n \in 0..P - 1 : W[n] \in Field
  BY PowersOf
<1>2. P \in Nat /\ N \in Nat /\ N + 1 = P - 1 /\ \A n \in 0..P - 1 : W[n] \in Int
  <2>1. P \in Nat /\ P >= 3 /\ \A x \in Field : x \in Int
    BY FieldFacts
  <2>2. N \in Nat /\ N + 1 = P - 1
    BY <2>1
  <2> HIDE DEF W, N
  <2>3. \A n \in 0..P - 1 : W[n] \in Int
    BY <1>1, <2>1
  <2> QED BY <2>1, <2>2, <2>3
<1>3. ASSUME NEW m \in 0..P - 1, NEW l \in 0..P - 1, m + l <= P - 1
      PROVE  W[m + l] = mul(W[m], W[l])
  BY <1>3, PowersAdd
<1>4. inv(a) = V[N]
  BY DEF inv
<1> HIDE DEF W
<1>5. ASSUME NEW e \in 1..N PROVE e \div 2 \in 0..N /\ e \div 2 < e /\ W[e] = mul(mul(W[e \div 2], W[e \div 2]), IF e % 2 = 1 THEN a ELSE 1)
  <2> DEFINE h == e \div 2
  <2>1. h \in Nat /\ ((e = h + h /\ e % 2 = 0) \/ (e = (h + h) + 1 /\ e % 2 = 1))
    <3>1. e \in Nat
      BY <1>2
    <3>2. \A x \in Nat : x \div 2 \in Nat /\ ((x = (x \div 2) + (x \div 2) /\ x % 2 = 0) \/ (x = ((x \div 2) + (x \div 2)) + 1 /\ x % 2 = 1))
      OBVIOUS
    <3> QED BY <3>1, <3>2
  <2> HIDE DEF h
  <2>2. h \in 0..N /\ h < e /\ h \in 0..P - 1 /\ h + h \in 0..P - 1 /\ h + h <= P - 1
    BY <1>2, <2>1
  <2>3. W[h + h] = mul(W[h], W[h]) /\ W[h + h] \in Field /\ W[h + h] \in Int
    BY <1>1, <1>2, <1>3, <2>2
  <2>4. CASE e = h + h /\ e % 2 = 0
    <3>1. W[e] * 1 = W[e] /\ W[e] \in Field
      BY <2>3, <2>4
    <3>2. mul(W[e], 1) = W[e]
      BY <3>1, Remainders DEF mul
    <3> QED BY <2>2, <2>3, <2>4, <3>2 DEF h
  <2>5. CASE e = (h + h) + 1 /\ e % 2 = 1
    <3>1. e \in 1..P - 1 /\ e - 1 = h + h
      BY <1>2, <2>1, <2>5
    <3>2. W[e] = mul(W[h + h], a)
      BY <1>1, <3>1
    <3> QED BY <2>2, <2>3, <2>5, <3>2 DEF h
  <2> QED BY <2>1, <2>4, <2>5
<1>6. Is(g)
  <2>1. ASSUME NEW e \in 0..N
        PROVE  g[e] = IF e = 0 THEN 1
                      ELSE LET half == g[e \div 2] IN mul(mul(half, half), IF e % 2 = 1 THEN a ELSE 1)
    <3>1. CASE e = 0
      BY <1>1, <3>1
    <3>2. CASE e # 0
      <4>1. e \in 1..N
        BY <1>2, <3>2
      <4>2. e \div 2 \in 0..N /\ W[e] = mul(mul(W[e \div 2], W[e \div 2]), IF e % 2 = 1 THEN a ELSE 1)
        BY <1>5, <4>1
      <4>3. g[e \div 2] = W[e \div 2] /\ g[e] = W[e]
        BY <4>2
      <4> HIDE DEF g
      <4> QED BY <3>2, <4>2, <4>3
    <3> QED BY <3>1, <3>2
  <2>2. g = [e \in 0..N |-> g[e]]
    OBVIOUS
  <2> HIDE DEF g
  <2> QED BY <2>1, <2>2
<1>7. Is(V)
  <2> HIDE DEF Is
  <2> QED BY <1>6
<1>8. ASSUME NEW e \in 0..N
      PROVE  V[e] = IF e = 0 THEN 1
                    ELSE mul(mul(V[e \div 2], V[e \div 2]), IF e % 2 = 1 THEN a ELSE 1)
  <2> HIDE DEF V
  <2> QED BY <1>7
<1> HIDE DEF V, Is, g
<1> DEFINE T == {e \in Nat : e <= N => V[e] = W[e]}
<1>9. N \in T
  <2> SUFFICES ASSUME N \notin T PROVE FALSE
    OBVIOUS
  <2>1. PICK m \in Nat : m <= N /\ m \notin T /\ \A l \in Nat : l < m => l \in T
    <3>1. T \in SUBSET Nat
      OBVIOUS
    <3> HIDE DEF T
    <3> QED BY <1>2, <3>1, LeastMissing
  <2>2. V[m] # W[m] /\ \A l \in Nat : l < m /\ l <= N => V[l] = W[l]
    BY <2>1
  <2>3. CASE m = 0
    BY <1>1, <1>2, <1>8, <2>2, <2>3
  <2>4. CASE m # 0
    <3>1. m \in 1..N /\ m \in 0..N
      BY <1>2, <2>1, <2>4
    <3>2. m \div 2 \in 0..N /\ m \div 2 < m /\ W[m] = mul(mul(W[m \div 2], W[m \div 2]), IF m % 2 = 1 THEN a ELSE 1)
      BY <1>5, <3>1
    <3>3. m \div 2 \in Nat /\ m \div 2 <= N
      BY <1>2, <3>2
    <3>4. V[m \div 2] = W[m \div 2]
      BY <2>2, <3>2, <3>3
    <3> QED BY <1>8, <2>2, <2>4, <3>1, <3>2, <3>4
  <2> QED BY <2>3, <2>4
<1> QED BY <1>2, <1>4, <1>9 DEF W

\* The inverse, for what is not zero in the field, and 0 for what is
LEMMA PowersReduced ==
    ASSUME NEW a \in Int, NEW b \in Int, Cong(a, b), NEW e \in 0..P - 1
    PROVE  Powers(a)[e] = Powers(b)[e]
<1> DEFINE V == Powers(a)
           W == Powers(b)
           T == {n \in 0..e : V[n] = W[n]}
<1>1. V[0] = 1 /\ (\A n \in 1..P - 1 : V[n] = mul(V[n - 1], a)) /\ \A n \in 0..P - 1 : V[n] \in Field
  BY PowersOf
<1>2. W[0] = 1 /\ (\A n \in 1..P - 1 : W[n] = mul(W[n - 1], b)) /\ \A n \in 0..P - 1 : W[n] \in Field
  BY PowersOf
<1> HIDE DEF V, W
<1>3. e \in Nat /\ P \in Nat
  BY FieldFacts
<1>4. T \in SUBSET Nat /\ 0 \in T
  BY <1>1, <1>2, <1>3
<1>5. ASSUME NEW n \in 1..e, n - 1 \in T PROVE n \in T
  <2>1. n \in 1..P - 1 /\ n - 1 \in 0..P - 1 /\ n \in 0..e
    BY <1>3
  <2>2. V[n] = mul(V[n - 1], a) /\ W[n] = mul(V[n - 1], b) /\ V[n - 1] \in Int
    BY <1>1, <1>2, <1>5, <2>1, FieldFacts
  <2>3. mul(V[n - 1], a) = mul(V[n - 1], b)
    BY <2>2, CongSub
  <2> QED BY <2>1, <2>2, <2>3
<1>6. e \in T
  <2>1. e \in 0..e
    BY <1>3
  <2> HIDE DEF T
  <2> QED BY <1>3, <1>4, <1>5, <2>1, UpTo
<1> QED BY <1>6 DEF V, W

LEMMA Inverses ==
    ASSUME NEW a \in Int
    PROVE  /\ inv(a) \in Field
           /\ ~Zero(a) => Zero(a * inv(a) - 1)
           /\ Zero(a) => inv(a) = 0
<1> DEFINE r == a % P
           W == Powers(a)
<1>1. r \in Field /\ r \in Int /\ Cong(r, a) /\ Cong(a, r) /\ (Zero(a) <=> r = 0)
  BY ModP, FieldFacts, CongSym, ZeroIsRemainder
<1>2. P - 2 \in 0..P - 1 /\ P - 1 \in 1..P - 1 /\ P - 1 \in 0..P - 1 /\ (P - 1) - 1 = P - 2 /\ P - 2 \in 1..P - 1
      /\ (P - 2) - 1 \in 0..P - 1
  BY FieldFacts
<1>3. inv(a) = W[P - 2]
  BY InverseIsPower
<1>4. \A n \in 0..P - 1 : W[n] \in Field /\ W[n] \in Int
  BY PowersOf, FieldFacts
<1>5. W[P - 1] = mul(W[P - 2], a) /\ W[P - 2] = mul(W[(P - 2) - 1], a)
  BY <1>2, PowersOf
<1>6. W[P - 1] = Powers(r)[P - 1]
  BY <1>1, <1>2, PowersReduced
<1> HIDE DEF W
<1>7. inv(a) \in Field /\ inv(a) \in Int
  BY <1>2, <1>3, <1>4
<1>8. ASSUME ~Zero(a) PROVE Zero(a * inv(a) - 1)
  <2>1. r \in 1..P - 1
    BY <1>1, <1>8, FieldFacts DEF Field
  <2>2. Powers(r)[P - 1] = 1
    BY <2>1, FermatAssumption
  <2>3. mul(inv(a), a) = 1
    BY <1>3, <1>5, <1>6, <2>2
  <2> DEFINE i == inv(a)
  <2>4. i \in Int /\ mul(i, a) = 1
    BY <1>7, <2>3
  <2> HIDE DEF i
  <2>5. i * a \in Int /\ Zero(i * a - ((i * a) % P))
    BY <2>4, ZeroIsRemainder
  <2>6. Zero(i * a - 1)
    BY <2>4, <2>5 DEF mul
  <2>7. i * a = a * i
    BY <2>4
  <2> QED BY <2>6, <2>7 DEF i
<1>9. ASSUME Zero(a) PROVE inv(a) = 0
  <2> DEFINE w == W[(P - 2) - 1]
  <2>1. w \in Int /\ inv(a) = mul(w, a)
    BY <1>2, <1>3, <1>4, <1>5
  <2> HIDE DEF w
  <2>2. w * a \in Int /\ Zero(w * a)
    BY <1>9, <2>1, ZeroFacts
  <2>3. (w * a) % P = 0
    BY <2>2, ZeroIsRemainder
  <2> QED BY <2>1, <2>3 DEF mul
<1> QED BY <1>7, <1>8, <1>9

\* No divisors of zero
LEMMA NoZeroDivisors ==
    ASSUME NEW a \in Int, NEW b \in Int, Zero(a * b)
    PROVE  Zero(a) \/ Zero(b)
<1> SUFFICES ASSUME ~Zero(a) PROVE Zero(b)
  OBVIOUS
<1> DEFINE i == inv(a)
<1>1. i \in Int /\ Zero(a * i - 1)
  BY Inverses, FieldFacts
<1> HIDE DEF i
<1>2. -b \in Int /\ a * b \in Int /\ a * i - 1 \in Int /\ b = i * (a * b) + (-b) * (a * i - 1)
  BY <1>1
<1>3. Zero(i * (a * b) + (-b) * (a * i - 1))
  <2> DEFINE c == a * b
             d == a * i - 1
             e == -b
  <2>1. c \in Int /\ d \in Int /\ e \in Int /\ Zero(c) /\ Zero(d) /\ Zero(0)
    BY <1>1, <1>2, ZeroFacts
  <2> HIDE DEF c, d, e
  <2>2. Zero(i * c + e * d)
    BY <1>1, <2>1, Combination
  <2> QED BY <2>2 DEF c, d, e
<1> QED BY <1>2, <1>3

Curves == {1, NonSquare}

\* The right side of the equation, not reduced
Cubic(x) == x * x * x + CurveA * x * x + x

Negative(p) == <<p[1], (-p[2]) % P>>

LEMMA CurveFacts ==
    /\ CurveA \in Int /\ O \notin Field \X Field
    /\ \A B \in Curves : B \in Int /\ ~Zero(B)
    /\ ~Zero(1) /\ ~Zero(2) /\ ~Zero(4)
    /\ \A x \in Int : Cubic(x) \in Int
<1>1. A24 \in Int /\ CurveA \in Int
  BY X25519Assumption DEF CurveA
<1>2. O \notin Field \X Field
  BY DEF O
<1>3. \A B \in Curves : B \in Int /\ B \in Field /\ B # 0
  BY X25519Assumption, FieldFacts DEF Curves, Field
<1>4. ~Zero(1)
  BY FieldFacts, ZeroIsRemainder
<1>5. ~Zero(2)
  <2>1. 2 \in Field
    BY FieldFacts DEF Field
  <2> QED BY <2>1, ZeroIsRemainder
<1>6. ~Zero(4)
  <2>1. 4 = 2 * 2
    OBVIOUS
  <2> QED BY <1>5, <2>1, NoZeroDivisors
<1>7. \A B \in Curves : ~Zero(B)
  BY <1>3, ZeroIsRemainder
<1>8. \A x \in Int : Cubic(x) \in Int
  BY <1>1 DEF Cubic
<1> QED BY <1>1, <1>2, <1>3, <1>4, <1>5, <1>6, <1>7, <1>8

LEMMA PointFacts ==
    ASSUME NEW B \in Curves, NEW x \in Field, NEW y \in Field
    PROVE  <<x, y>> \in Points(B) <=> Zero(B * (y * y) - Cubic(x))
<1>1. x \in Int /\ y \in Int /\ B \in Int /\ CurveA \in Int
  BY FieldFacts, CurveFacts
<1> DEFINE l == B * (y * y)
           r == Cubic(x)
<1>2. l \in Int /\ r \in Int
  BY <1>1, CurveFacts
<1>3. <<x, y>> \in Points(B) <=> l % P = r % P
  BY DEF Points, RightSide, mul, Cubic, O, Field
<1> HIDE DEF l, r
<1>4. ASSUME l % P = r % P PROVE Zero(l - r)
  <2>1. l % P \in Int /\ Cong(l, l % P) /\ Cong(l % P, r)
    BY <1>2, <1>4, ModP, CongSym, FieldFacts
  <2> QED BY <1>2, <2>1, CongTrans, Congruences
<1>5. ASSUME Zero(l - r) PROVE l % P = r % P
  BY <1>2, <1>5, Congruences, CongMod
<1> QED BY <1>3, <1>4, <1>5 DEF l, r

-----------------------------------------------------------------------------
\* X25519: the points of a curve

\* A point other than O is a pair of elements of the field
LEMMA Affine ==
    ASSUME NEW B \in Curves, NEW p \in Points(B), p # O
    PROVE  /\ p = <<p[1], p[2]>> /\ p[1] \in Field /\ p[2] \in Field
           /\ p[1] \in Int /\ p[2] \in Int
           /\ Zero(B * (p[2] * p[2]) - Cubic(p[1]))
<1>1. p \in Field \X Field
  BY DEF Points, Field
<1>2. p = <<p[1], p[2]>> /\ p[1] \in Field /\ p[2] \in Field
  BY <1>1
<1>3. <<p[1], p[2]>> \in Points(B)
  BY <1>2
<1>4. Zero(B * (p[2] * p[2]) - Cubic(p[1]))
  BY <1>2, <1>3, PointFacts
<1> QED BY <1>2, <1>4, FieldFacts

\* Adding the point at infinity
LEMMA PlusInfinity ==
    ASSUME NEW B \in Curves, NEW p \in Points(B)
    PROVE  O \in Points(B) /\ Plus(B, p, O) = p /\ Plus(B, O, p) = p
BY DEF Plus, Points

\* The negative of a point
LEMMA Negatives ==
    ASSUME NEW B \in Curves, NEW p \in Points(B), p # O
    PROVE  /\ Negative(p) \in Points(B) /\ Negative(p) # O
           /\ Negative(p)[1] = p[1] /\ Zero(Negative(p)[2] + p[2])
           /\ Plus(B, Negative(p), p) = O /\ Plus(B, p, Negative(p)) = O
<1> DEFINE x == p[1]
           y == p[2]
           n == (-y) % P
<1>1. p = <<x, y>> /\ x \in Field /\ y \in Field /\ x \in Int /\ y \in Int /\ Zero(B * (y * y) - Cubic(x))
  BY Affine
<1>2. B \in Int /\ Cubic(x) \in Int
  BY <1>1, CurveFacts
<1> HIDE DEF x, y
<1>3. -y \in Int /\ n \in Field /\ n \in Int /\ Zero(n - (-y))
  <2>1. -y \in Int
    BY <1>1
  <2> QED BY <2>1, ModP, ZeroIsRemainder, FieldFacts
<1> HIDE DEF n
<1>4. Zero(n + y)
  <2>1. n - (-y) = n + y
    BY <1>1, <1>3
  <2> QED BY <1>3, <2>1
<1>5. Zero(B * (n * n) - Cubic(x))
  <2> DEFINE c == Cubic(x)
             e1 == B * (y * y) - c
             e2 == n + y
             q == B * (n - y)
             i == 1
  <2>1. c \in Int
    BY <1>2
  <2> HIDE DEF c
  <2>2. e1 \in Int /\ e2 \in Int /\ q \in Int /\ B * (n * n) - c = i * e1 + q * e2 /\ i \in Int
    BY <1>1, <1>2, <1>3, <2>1
  <2>3. Zero(e1) /\ Zero(e2) /\ Zero(0)
    BY <1>1, <1>4, ZeroFacts DEF c
  <2> HIDE DEF e1, e2, q, i
  <2>4. Zero(i * e1 + q * e2)
    BY <1>2, <2>2, <2>3, CombinationOfTwo
  <2> QED BY <2>2, <2>4 DEF c
<1>6. <<x, n>> \in Points(B)
  BY <1>1, <1>3, <1>5, PointFacts
<1>7. (n + y) % P = 0 /\ (y + n) % P = 0
  <2>1. n + y \in Int /\ y + n = n + y
    BY <1>1, <1>3
  <2> QED BY <1>4, <2>1, ZeroIsRemainder
<1>8. Negative(p) = <<x, n>> /\ <<x, n>> # O /\ <<x, y>> # O
  BY DEF Negative, x, n, y, O
<1>9. Plus(B, <<x, n>>, <<x, y>>) = O /\ Plus(B, <<x, y>>, <<x, n>>) = O
  BY <1>7, <1>8 DEF Plus
<1>10. <<x, n>>[1] = x /\ <<x, n>>[2] = n
  OBVIOUS
<1> QED BY <1>1, <1>4, <1>6, <1>8, <1>9, <1>10 DEF x, y

LEMMA Quotient ==
    ASSUME NEW n \in Int, NEW d \in Int, ~Zero(d)
    PROVE  mul(n, inv(d)) \in Field /\ mul(n, inv(d)) \in Int /\ Zero(mul(n, inv(d)) * d - n)
<1> DEFINE i == inv(d)
           s == mul(n, i)
<1>1. i \in Int /\ Zero(d * i - 1)
  BY Inverses, FieldFacts
<1> HIDE DEF i
<1>2. s \in Field /\ s \in Int /\ Zero(s - n * i)
  <2>1. n * i \in Int
    BY <1>1
  <2>2. (n * i) % P \in Field /\ Zero(((n * i) % P) - n * i)
    BY <2>1, ModP, ZeroIsRemainder
  <2> QED BY <2>2, FieldFacts DEF mul
<1> HIDE DEF s
<1> DEFINE e1 == s - n * i
           e2 == d * i - 1
<1>3. e1 \in Int /\ e2 \in Int /\ s * d - n = d * e1 + n * e2
  BY <1>1, <1>2
<1>4. Zero(e1) /\ Zero(e2)
  BY <1>1, <1>2
<1> HIDE DEF e1, e2
<1>5. Zero(d * e1 + n * e2)
  BY <1>3, <1>4, CombinationOfTwo
<1> QED BY <1>2, <1>3, <1>5 DEF s, i

\* The first coordinate of a sum, for a slope s
LEMMA SumOfPoints ==
    ASSUME NEW B \in Curves, NEW p \in Points(B), NEW q \in Points(B), p # O, q # O,
           ~(p[1] = q[1] /\ (p[2] + q[2]) % P = 0)
    PROVE  LET s == Slope(B, p, q) IN
           /\ Plus(B, p, q) # O /\ Plus(B, p, q)[1] \in Field
           /\ s \in Int => Zero(Plus(B, p, q)[1] - (B * s * s - CurveA - p[1] - q[1]))
<1> DEFINE s == Slope(B, p, q)
           X == (B * s * s - CurveA - p[1] - q[1]) % P
           Y == sub(mul(s, p[1] - X), p[2])
<1>1. Plus(B, p, q) = <<X, Y>>
  BY DEF Plus
<1>2. <<X, Y>> # O /\ <<X, Y>>[1] = X
  BY DEF O
<1>3. Plus(B, p, q) \in Points(B)
  BY GroupAssumption DEF Curves
<1>4. X \in Field
  <2>1. Plus(B, p, q)[1] \in Field
    <3>1. Plus(B, p, q) # O
      BY <1>1, <1>2
    <3> QED BY <1>3, <3>1, Affine
  <2> QED BY <1>1, <1>2, <2>1
<1>5. ASSUME s \in Int PROVE Zero(X - (B * s * s - CurveA - p[1] - q[1]))
  <2>1. p[1] \in Int /\ q[1] \in Int /\ CurveA \in Int /\ B \in Int
    BY Affine, CurveFacts
  <2> HIDE DEF s
  <2>2. B * s * s - CurveA - p[1] - q[1] \in Int
    BY <1>5, <2>1
  <2> QED BY <2>2, ZeroIsRemainder
<1> HIDE DEF X, Y, s
<1> QED BY <1>1, <1>2, <1>4, <1>5 DEF s, X

LEMMA DoublingFormula ==
    ASSUME NEW x \in Int, NEW y \in Int, NEW s \in Int, NEW X \in Int, NEW f \in Int,
           NEW b \in Int, NEW A \in Int, f = x * x * x + A * x * x + x,
           Zero(b * (y * y) - f), Zero(s * (2 * b * y) - (3 * x * x + 2 * A * x + 1)),
           Zero(X - (b * s * s - A - x - x))
    PROVE  Zero(X * (4 * f) - (x * x - 1) * (x * x - 1))
<1> DEFINE n == 3 * x * x + 2 * A * x + 1
           w == b * s * s
           v == A + x + x
           e1 == X - (w - v)
           e2 == b * (y * y) - f
           e3 == s * (2 * b * y) - n
           p == 4 * f
           q == -(4 * w)
           r == s * (2 * b * y) + n
<1>1. n * n - (4 * f) * v = (x * x - 1) * (x * x - 1)
  OBVIOUS
<1>2. w \in Int /\ v \in Int /\ n \in Int /\ p \in Int
  OBVIOUS
<1>3. w - v = b * s * s - A - x - x
  OBVIOUS
<1>4. (4 * w) * (b * (y * y)) = (s * (2 * b * y)) * (s * (2 * b * y))
  OBVIOUS
<1> DEFINE m == s * (2 * b * y)
           g == b * (y * y)
<1>5. m \in Int /\ g \in Int /\ (4 * w) * g = m * m
  BY <1>4
<1> HIDE DEF n, w, v, m, g
<1> DEFINE d1 == X - (w - v)
           d2 == g - f
           d3 == m - n
           r1 == m + n
<1>6. d1 \in Int /\ d2 \in Int /\ d3 \in Int /\ q \in Int /\ r1 \in Int
  BY <1>2, <1>5
<1>7. X * (4 * f) - (n * n - (4 * f) * v) = p * d1 + q * d2 + r1 * d3
  <2>1. p * d1 = X * (4 * f) - (4 * f) * w + (4 * f) * v
    BY <1>2
  <2>2. q * d2 = (4 * w) * f - (4 * w) * g
    BY <1>2, <1>5
  <2>3. r1 * d3 = m * m - n * n
    BY <1>2, <1>5
  <2>4. (4 * f) * w = (4 * w) * f
    BY <1>2
  <2> QED BY <1>2, <1>5, <1>6, <2>1, <2>2, <2>3, <2>4
<1>8. Zero(d1) /\ Zero(d2) /\ Zero(d3)
  BY <1>3 DEF g, m, n
<1> HIDE DEF p, q, d1, d2, d3, r1
<1>9. Zero(p * d1 + q * d2 + r1 * d3)
  BY <1>2, <1>6, <1>8, Combination
<1> QED BY <1>1, <1>7, <1>9 DEF n, v

\* Twice a point
LEMMA TwiceAPoint ==
    ASSUME NEW B \in Curves, NEW p \in Points(B), p # O
    PROVE  /\ Zero(p[2]) => Plus(B, p, p) = O /\ Zero(Cubic(p[1]))
           /\ ~Zero(p[2]) => /\ Plus(B, p, p) # O /\ Plus(B, p, p)[1] \in Field
                             /\ ~Zero(Cubic(p[1]))
                             /\ Zero(Plus(B, p, p)[1] * (4 * Cubic(p[1]))
                                     - (p[1] * p[1] - 1) * (p[1] * p[1] - 1))
<1> DEFINE x == p[1]
           y == p[2]
           f == Cubic(x)
           A == CurveA
<1>1. x \in Int /\ y \in Int /\ Zero(B * (y * y) - f) /\ B \in Int /\ ~Zero(B) /\ f \in Int /\ A \in Int
      /\ f = x * x * x + A * x * x + x /\ y \in Field
  <2>1. x \in Int /\ y \in Int /\ Zero(B * (y * y) - f) /\ y \in Field
    BY Affine
  <2> QED BY <2>1, CurveFacts DEF Cubic
<1> HIDE DEF x, y, f, A
<1> DEFINE g == B * (y * y)
<1>2. g \in Int /\ Zero(g - f)
  BY <1>1
<1>3. CASE Zero(y)
  <2>1. y = 0
    BY <1>1, <1>3, ZeroIsRemainder
  <2>2. Plus(B, p, p) = O
    <3>1. (y + y) % P = 0
      BY <2>1, FieldFacts
    <3> QED BY <3>1 DEF Plus, x, y
  <2>3. g - f = -f
    BY <1>1, <2>1
  <2>4. Zero(f)
    <3> DEFINE h == -f
    <3>1. h \in Int /\ Zero(h) /\ f = -h
      BY <1>1, <1>2, <2>3
    <3> HIDE DEF h
    <3> QED BY <3>1, ZeroFacts
  <2> QED BY <1>3, <2>2, <2>4 DEF x, y, f
<1>4. CASE ~Zero(y)
  <2>1. ~Zero(y + y)
    <3>1. y + y = 2 * y
      BY <1>1
    <3> QED BY <1>1, <1>4, <3>1, CurveFacts, NoZeroDivisors
  <2>2. ~Zero(2 * B * y) /\ 2 * B * y \in Int
    <3>1. ~Zero(2 * B) /\ 2 * B \in Int
      BY <1>1, CurveFacts, NoZeroDivisors
    <3> QED BY <1>1, <1>4, <3>1, NoZeroDivisors
  <2>3. (y + y) % P # 0
    <3>1. y + y \in Int
      BY <1>1
    <3> QED BY <2>1, <3>1, ZeroIsRemainder
  <2> DEFINE n == 3 * x * x + 2 * A * x + 1
             s == mul(n, inv(2 * B * y))
  <2>4. n \in Int
    BY <1>1
  <2>5. s \in Int /\ Zero(s * (2 * B * y) - n)
    <3> DEFINE d == 2 * B * y
    <3> HIDE DEF n
    <3>1. d \in Int /\ ~Zero(d)
      BY <2>2
    <3> HIDE DEF d
    <3>2. mul(n, inv(d)) \in Int /\ Zero(mul(n, inv(d)) * d - n)
      BY <2>4, <3>1, Quotient
    <3> QED BY <3>2 DEF d
  <2>6. Slope(B, p, p) = s
    BY DEF Slope, x, y, A
  <2> DEFINE X == Plus(B, p, p)[1]
  <2>7. Plus(B, p, p) # O /\ X \in Field /\ X \in Int /\ Zero(X - (B * s * s - A - x - x))
    <3>1. ~(p[1] = p[1] /\ (p[2] + p[2]) % P = 0)
      BY <2>3 DEF y
    <3>2. /\ Plus(B, p, p) # O /\ Plus(B, p, p)[1] \in Field
          /\ Slope(B, p, p) \in Int => Zero(Plus(B, p, p)[1] - (B * Slope(B, p, p) * Slope(B, p, p) - CurveA - p[1] - p[1]))
      BY <3>1, SumOfPoints
    <3> HIDE DEF s
    <3> QED BY <2>5, <2>6, <3>2, FieldFacts DEF x, A
  <2>8. Zero(B * (y * y) - f) /\ Zero(s * (2 * B * y) - (3 * x * x + 2 * A * x + 1))
    BY <1>1, <2>5
  <2> HIDE DEF X, s
  <2>9. Zero(X * (4 * f) - (x * x - 1) * (x * x - 1))
    BY <1>1, <2>5, <2>7, <2>8, DoublingFormula
  <2>10. ~Zero(f)
    <3>1. ~Zero(y * y) /\ y * y \in Int
      BY <1>1, <1>4, NoZeroDivisors
    <3>2. ~Zero(g)
      BY <1>1, <3>1, NoZeroDivisors
    <3>3. g = (g - f) + f /\ g - f \in Int
      BY <1>1, <1>2
    <3> HIDE DEF g
    <3> QED BY <1>1, <1>2, <3>2, <3>3, ZeroFacts
  <2> QED BY <1>4, <2>7, <2>9, <2>10 DEF x, y, f, X
<1> QED BY <1>3, <1>4

\* The sum of two points whose first coordinates differ
LEMMA DifferentPoints ==
    ASSUME NEW B \in Curves, NEW p \in Points(B), NEW q \in Points(B), p # O, q # O, p[1] # q[1],
           NEW d, d = q[1] - p[1], NEW e, e = q[2] - p[2]
    PROVE  /\ ~Zero(d) /\ Plus(B, p, q) # O /\ Plus(B, p, q)[1] \in Field
           /\ Zero(Plus(B, p, q)[1] * (d * d) - (B * (e * e) - (CurveA + p[1] + q[1]) * (d * d)))
<1> DEFINE x == p[1]
           y == q[1]
           A == CurveA
           X == Plus(B, p, q)[1]
           s == mul(e, inv(d))
<1>1. x \in Int /\ y \in Int /\ x \in Field /\ y \in Field /\ d \in Int /\ e \in Int /\ d = y - x /\ x # y
      /\ B \in Int /\ A \in Int
  <2>1. p[1] \in Int /\ q[1] \in Int /\ p[1] \in Field /\ q[1] \in Field /\ p[2] \in Int /\ q[2] \in Int
    BY Affine
  <2> QED BY <2>1, CurveFacts
<1>2. ~Zero(d)
  <2>1. Zero(d) => Cong(y, x)
    BY <1>1, Congruences
  <2> QED BY <1>1, <2>1, CongIsEqual
<1>3. s \in Int /\ Zero(s * d - e)
  BY <1>1, <1>2, Quotient
<1>4. Slope(B, p, q) = s
  <2>1. p # q
    BY <1>1
  <2> QED BY <2>1 DEF Slope
<1>5. Plus(B, p, q) # O /\ X \in Field /\ X \in Int /\ Zero(X - (B * s * s - A - x - y))
  <2>1. ~(p[1] = q[1] /\ (p[2] + q[2]) % P = 0)
    BY <1>1
  <2>2. /\ Plus(B, p, q) # O /\ Plus(B, p, q)[1] \in Field
        /\ Slope(B, p, q) \in Int => Zero(Plus(B, p, q)[1] - (B * Slope(B, p, q) * Slope(B, p, q) - CurveA - p[1] - q[1]))
    BY <2>1, SumOfPoints
  <2> HIDE DEF s
  <2> QED BY <1>3, <1>4, <2>2, FieldFacts
<1> HIDE DEF x, y, A, X, s
<1> DEFINE c == A + x + y
           e1 == X - (B * s * s - A - x - y)
           e2 == s * d - e
           k1 == d * d
           k2 == B * (s * d + e)
<1>6. X * (d * d) - (B * (e * e) - c * (d * d)) = k1 * e1 + k2 * e2
  <2>1. k1 * e1 = (d * d) * X - (d * d) * (B * s * s) + (d * d) * c
    BY <1>1, <1>3, <1>5
  <2>2. k2 * e2 = B * (s * d) * (s * d) - B * (e * e)
    BY <1>1, <1>3
  <2>3. (d * d) * (B * s * s) = B * (s * d) * (s * d)
    BY <1>1, <1>3
  <2>4. (d * d) * c = c * (d * d) /\ (d * d) * X = X * (d * d)
    BY <1>1, <1>5
  <2>5. k1 * e1 \in Int /\ k2 * e2 \in Int /\ (d * d) * X \in Int /\ (d * d) * (B * s * s) \in Int /\ (d * d) * c \in Int
        /\ B * (e * e) \in Int
    BY <1>1, <1>3, <1>5
  <2> HIDE DEF c, e1, e2, k1, k2
  <2> QED BY <2>1, <2>2, <2>3, <2>4, <2>5
<1>7. k1 \in Int /\ k2 \in Int /\ e1 \in Int /\ e2 \in Int /\ Zero(e1) /\ Zero(e2)
  BY <1>1, <1>3, <1>5
<1>8. Zero(k1 * e1 + k2 * e2)
  <2> HIDE DEF e1, e2, k1, k2
  <2> QED BY <1>7, CombinationOfTwo
<1>9. Zero(X * (d * d) - (B * (e * e) - c * (d * d)))
  BY <1>6, <1>8
<1> QED BY <1>2, <1>5, <1>9 DEF X, x, y, A

-----------------------------------------------------------------------------
\* X25519: first coordinates of sums and differences

\* The sum and the difference of two points: the product of their first coordinates
LEMMA DifferentialFormula ==
    ASSUME NEW v1 \in Int, NEW v2 \in Int, NEW y1 \in Int, NEW y2 \in Int, NEW b \in Int, NEW A \in Int,
           NEW X \in Int, NEW U \in Int, NEW f1 \in Int, NEW f2 \in Int, NEW d \in Int, d = v2 - v1,
           f1 = v1 * v1 * v1 + A * v1 * v1 + v1, f2 = v2 * v2 * v2 + A * v2 * v2 + v2,
           Zero(b * (y1 * y1) - f1), Zero(b * (y2 * y2) - f2), ~Zero(d),
           Zero(X * (d * d) - (b * ((y2 - y1) * (y2 - y1)) - (A + v1 + v2) * (d * d))),
           Zero(U * (d * d) - (b * ((y2 + y1) * (y2 + y1)) - (A + v1 + v2) * (d * d)))
    PROVE  Zero(X * U * (d * d) - (v1 * v2 - 1) * (v1 * v2 - 1))
<1> DEFINE K == (A + v1 + v2) * (d * d)
           F == (v1 * v2 + 1) * (v1 + v2) + 2 * A * v1 * v2
           h1 == b * (y1 * y1)
           h2 == b * (y2 * y2)
           j == 2 * (b * y1 * y2)
           M == h1 + h2 - K
           w == v1 * v2 - 1
           D == d * d
\* The right sides of the two equations
<1>1. K \in Int /\ F \in Int /\ h1 \in Int /\ h2 \in Int /\ j \in Int /\ M \in Int /\ w \in Int /\ D \in Int
  OBVIOUS
<1>2. f1 + f2 - K = F
  OBVIOUS
<1>3. F * F - 4 * (f1 * f2) = (w * w) * D
  <2> DEFINE m == v1 * v2
             o == v1 + v2
             g1 == v1 * v1 + A * v1 + 1
             g2 == v2 * v2 + A * v2 + 1
             G == m * m + A * m * o + (o * o - 2 * m) + A * A * m + A * o + 1
  <2>1. f1 = v1 * g1 /\ f2 = v2 * g2 /\ g1 \in Int /\ g2 \in Int
    OBVIOUS
  <2>2. g1 * g2 = G
    OBVIOUS
  <2>3. f1 * f2 = m * G
    <3>1. f1 * f2 = (v1 * v2) * (g1 * g2)
      <4>1. \A a, b1, c, e \in Int : (a * b1) * (c * e) = (a * c) * (b1 * e)
        OBVIOUS
      <4> HIDE DEF g1, g2
      <4>2. (v1 * g1) * (v2 * g2) = (v1 * v2) * (g1 * g2)
        BY <2>1, <4>1
      <4> QED BY ONLY <2>1, <4>2
    <3> QED BY <2>2, <3>1
  <2>4. D = o * o - 4 * m
    OBVIOUS
  <2>5. F = (m + 1) * o + 2 * A * m /\ w = m - 1
    OBVIOUS
  <2>6. m \in Int /\ o \in Int
    OBVIOUS
  <2> HIDE DEF m, o, F, w, D
  <2>7. ((m + 1) * o + 2 * A * m) * ((m + 1) * o + 2 * A * m) - 4 * (m * G) = ((m - 1) * (m - 1)) * (o * o - 4 * m)
    BY <2>6
  <2> QED BY <2>3, <2>4, <2>5, <2>7
<1>4. j * j = 4 * (h1 * h2)
  OBVIOUS
<1>5. b * ((y2 - y1) * (y2 - y1)) - K = M - j
  OBVIOUS
<1>6. b * ((y2 + y1) * (y2 + y1)) - K = M + j
  OBVIOUS
<1>7. Zero(X * D - (M - j)) /\ Zero(U * D - (M + j))
  BY <1>5, <1>6
<1>8. Zero(h1 - f1) /\ Zero(h2 - f2)
  OBVIOUS
<1>9. ~Zero(D)
  BY NoZeroDivisors
<1>10. M = h1 + h2 - K
  OBVIOUS
<1> HIDE DEF K, F, h1, h2, j, M, w, D
\* M is F, and X U D D is M M - j j
<1>11. Zero(M - F)
  <2>1. M - F = (h1 - f1) + (h2 - f2) /\ h1 - f1 \in Int /\ h2 - f2 \in Int
    BY <1>1, <1>2, <1>10
  <2> QED BY <1>8, <2>1, ZeroFacts
<1>12. Zero((X * D) * (U * D) - (M * M - j * j))
  <2> DEFINE a1 == X * D - (M - j)
             a2 == U * D - (M + j)
             k1 == U * D
             k2 == M - j
  <2>1. a1 \in Int /\ a2 \in Int /\ k1 \in Int /\ k2 \in Int /\ (X * D) * (U * D) - (M * M - j * j) = k1 * a1 + k2 * a2
    BY <1>1
  <2>2. Zero(a1) /\ Zero(a2)
    BY <1>7
  <2> HIDE DEF a1, a2, k1, k2
  <2> QED BY <2>1, <2>2, CombinationOfTwo
<1>13. Zero(M * M - F * F)
  <2>1. M * M - F * F = (M + F) * (M - F) /\ M + F \in Int /\ M - F \in Int
    BY <1>1
  <2> QED BY <1>11, <2>1, ZeroFacts
<1>14. Zero(j * j - 4 * (f1 * f2))
  <2> DEFINE a1 == h1 - f1
             a2 == h2 - f2
             k1 == 4 * h2
             k2 == 4 * f1
  <2>1. a1 \in Int /\ a2 \in Int /\ k1 \in Int /\ k2 \in Int
    BY <1>1
  <2>3. j * j - 4 * (f1 * f2) = k1 * a1 + k2 * a2
    <3>1. k1 * a1 = 4 * (h1 * h2) - 4 * (f1 * h2)
      BY <1>1
    <3>2. k2 * a2 = 4 * (f1 * h2) - 4 * (f1 * f2)
      BY <1>1
    <3>3. h1 * h2 \in Int /\ f1 * h2 \in Int /\ f1 * f2 \in Int
      BY <1>1
    <3> HIDE DEF k1, k2, a1, a2
    <3> QED BY <1>4, <3>1, <3>2, <3>3
  <2>2. Zero(a1) /\ Zero(a2)
    BY <1>8
  <2> HIDE DEF a1, a2, k1, k2
  <2>4. Zero(k1 * a1 + k2 * a2)
    BY <2>1, <2>2, CombinationOfTwo
  <2> QED BY <2>3, <2>4
<1>15. Zero((X * D) * (U * D) - (w * w) * D)
  <2> DEFINE a1 == (X * D) * (U * D) - (M * M - j * j)
             a2 == M * M - F * F
             a3 == j * j - 4 * (f1 * f2)
  <2>1. a1 \in Int /\ a2 \in Int /\ a3 \in Int /\ (X * D) * (U * D) - (w * w) * D = (a1 + a2) - a3
    <3> DEFINE l == (X * D) * (U * D)
               mm == M * M
               jj == j * j
               ff == F * F
               g == 4 * (f1 * f2)
               ww == (w * w) * D
    <3>1. l \in Int /\ mm \in Int /\ jj \in Int /\ ff \in Int /\ g \in Int /\ ww \in Int /\ ff - g = ww
      BY <1>1, <1>3
    <3> HIDE DEF l, mm, jj, ff, g, ww
    <3>2. l - (mm - jj) \in Int /\ mm - ff \in Int /\ jj - g \in Int /\ l - ww = ((l - (mm - jj)) + (mm - ff)) - (jj - g)
      BY <3>1
    <3> QED BY <3>2 DEF l, mm, jj, ff, g, ww
  <2>2. Zero(a1) /\ Zero(a2) /\ Zero(a3)
    BY <1>12, <1>13, <1>14
  <2> HIDE DEF a1, a2, a3
  <2>3. Zero(a1 + a2) /\ a1 + a2 \in Int
    BY <2>1, <2>2, ZeroFacts
  <2> QED BY <2>1, <2>2, <2>3, ZeroFacts
<1>16. (X * D) * (U * D) - (w * w) * D = D * (X * U * D - w * w) /\ X * U * D - w * w \in Int
  BY <1>1
<1>17. Zero(X * U * D - w * w)
  BY <1>1, <1>9, <1>15, <1>16, NoZeroDivisors
<1> QED BY <1>17 DEF D, w

-----------------------------------------------------------------------------
\* X25519: a round computes the sum and the double

\* (a : c), not reduced, stands for the first coordinate of p.
Ratio(a, c, p) == IF p = O THEN ~Zero(a) /\ Zero(c) ELSE ~Zero(c) /\ Zero(a - p[1] * c)

\* Zero and not zero are carried over congruences.
LEMMA Carried ==
    ASSUME NEW a \in Int, NEW b \in Int, Zero(a - b)
    PROVE  Zero(a) <=> Zero(b)
<1> DEFINE e == a - b
<1>1. e \in Int /\ Zero(e) /\ a = e + b /\ b = a - e
  OBVIOUS
<1> HIDE DEF e
<1>2. Zero(b) => Zero(e + b)
  BY <1>1, ZeroFacts
<1>3. Zero(a) => Zero(a - e)
  BY <1>1, ZeroFacts
<1> QED BY <1>1, <1>2, <1>3

LEMMA ProductIsZero ==
    ASSUME NEW a \in Int, NEW b \in Int
    PROVE  Zero(a * b) <=> Zero(a) \/ Zero(b)
BY NoZeroDivisors, ZeroFacts

LEMMA CubicNotZero ==
    ASSUME NEW v \in Int, Zero(Cubic(v))
    PROVE  ~Zero(v * v - 1)
<1> SUFFICES ASSUME Zero(v * v - 1) PROVE FALSE
  OBVIOUS
<1> DEFINE A == CurveA
           w == v * v - 1
           l == A * v + 2
           n == A * v - 2
           m == A * A - 4
<1>1. A \in Int /\ A24 \in Int /\ A = 4 * A24 + 2 /\ Cubic(v) = v * v * v + A * v * v + v
  BY X25519Assumption DEF CurveA, Cubic
<1> HIDE DEF A
<1>2. w \in Int /\ l \in Int /\ n \in Int /\ m \in Int /\ Zero(w)
  BY <1>1
<1>3. ~Zero(v)
  <2> SUFFICES ASSUME Zero(v) PROVE FALSE
    OBVIOUS
  <2>1. Zero(v * v) /\ v * v \in Int
    BY ZeroFacts
  <2>2. 1 = v * v - w
    OBVIOUS
  <2> HIDE DEF w
  <2> QED BY <1>2, <2>1, <2>2, ZeroFacts, CurveFacts
<1>4. Zero(v * l)
  <2>1. v * l = Cubic(v) - v * w /\ v * w \in Int /\ Cubic(v) \in Int
    BY <1>1
  <2>2. Zero(v * w)
    BY <1>2, ZeroFacts
  <2> QED BY <2>1, <2>2, ZeroFacts
<1>5. Zero(l)
  BY <1>2, <1>3, <1>4, NoZeroDivisors
<1>6. Zero(m)
  <2>1. m = l * n - (A * A) * w /\ l * n \in Int /\ (A * A) * w \in Int /\ A * A \in Int
    BY <1>1
  <2>2. Zero(l * n) /\ Zero((A * A) * w)
    <3> HIDE DEF l, n, w
    <3> QED BY <1>2, <1>5, <2>1, ZeroFacts
  <2> QED BY <2>1, <2>2, ZeroFacts
<1>7. m = (4 * 4) * (A24 * (A24 + 1)) /\ A24 + 1 \in Int
  BY <1>1
<1>8. ~Zero(A24) /\ ~Zero(A24 + 1)
  <2>1. A24 \in Field /\ A24 + 1 \in Field /\ A24 # 0 /\ A24 + 1 # 0
    BY X25519Assumption, FieldFacts DEF Field
  <2> QED BY <1>1, <1>7, <2>1, ZeroIsRemainder
<1>9. ~Zero(A24 * (A24 + 1)) /\ A24 * (A24 + 1) \in Int
  BY <1>1, <1>7, <1>8, NoZeroDivisors
<1>10. ~Zero(4 * 4) /\ 4 * 4 \in Int
  <2>1. \A a, b \in Int : ~Zero(a) /\ ~Zero(b) => ~Zero(a * b)
    BY NoZeroDivisors
  <2>2. ~Zero(4) /\ 4 \in Int
    BY CurveFacts
  <2>3. ~Zero(4 * 4)
    BY ONLY <2>1, <2>2
  <2> QED BY <2>3
<1> QED BY <1>6, <1>7, <1>9, <1>10, NoZeroDivisors

\* Doubling: what the ladder does to the first pair
LEMMA DoubledPair ==
    ASSUME NEW B \in Curves, NEW p \in Points(B), NEW a \in Int, NEW c \in Int, Ratio(a, c, p),
           NEW x \in Int, NEW z \in Int,
           Zero(x - (a * a - c * c) * (a * a - c * c)),
           Zero(z - 4 * (a * c) * (a * a + CurveA * (a * c) + c * c))
    PROVE  Ratio(x, z, Plus(B, p, p))
<1> DEFINE A == CurveA
           g == a * a - c * c
           n == a * a + A * (a * c) + c * c
           N == 4 * (a * c) * n
<1>1. A \in Int
  BY CurveFacts
<1>2. g \in Int /\ n \in Int /\ N \in Int /\ Zero(x - g * g) /\ Zero(z - N) /\ g * g \in Int
  BY <1>1
<1>3. (Zero(x) <=> Zero(g * g)) /\ (Zero(z) <=> Zero(N))
  BY <1>2, Carried
<1> HIDE DEF A
<1>4. CASE p = O
  <2>1. Plus(B, p, p) = O
    BY <1>4, PlusInfinity
  <2>2. ~Zero(a) /\ Zero(c)
    BY <1>4 DEF Ratio
  <2>3. Zero(z)
    <3>1. N = c * (4 * a * n) /\ 4 * a * n \in Int
      <4> HIDE DEF n
      <4> QED BY <1>2
    <3> HIDE DEF n, N
    <3> QED BY <1>3, <2>2, <3>1, ZeroFacts
  <2>4. ~Zero(x)
    <3> SUFFICES ASSUME Zero(x) PROVE FALSE
      OBVIOUS
    <3>1. Zero(g)
      BY <1>2, <1>3, NoZeroDivisors
    <3>2. Zero(c * c) /\ c * c \in Int /\ a * a = g + c * c
      BY <2>2, ZeroFacts
    <3>3. Zero(a * a)
      <4> HIDE DEF g
      <4> QED BY <1>2, <3>1, <3>2, ZeroFacts
    <3> QED BY <2>2, <3>3, NoZeroDivisors
  <2> QED BY <2>1, <2>3, <2>4 DEF Ratio
<1>5. CASE p # O
  <2> DEFINE v == p[1]
             f == Cubic(v)
             C == c * c
             w == v * v - 1
             e == a - v * c
  <2>1. v \in Int /\ f \in Int /\ f = v * v * v + A * v * v + v /\ ~Zero(c) /\ Zero(e)
    <3>1. v \in Int
      BY <1>5, Affine
    <3> QED BY <1>5, <3>1, CurveFacts DEF Ratio, Cubic, A
  <2> HIDE DEF v, f
  <2>2. C \in Int /\ w \in Int /\ e \in Int /\ ~Zero(C)
    BY <2>1, NoZeroDivisors
  <2>3. Zero(x - (C * w) * (C * w))
    <3> DEFINE k1 == (a + v * c) * (g + C * w)
               e1 == x - g * g
               i == 1
    <3>1. k1 \in Int /\ e1 \in Int /\ i \in Int
      BY <1>2, <2>1, <2>2
    <3>2. g - C * w = (a + v * c) * e
      BY <2>1
    <3>3. x - (C * w) * (C * w) = i * e1 + k1 * e
      <4> DEFINE h == C * w
                 s == a + v * c
      <4>1. h \in Int /\ s \in Int /\ g - h = s * e
        BY <2>1, <2>2, <3>2
      <4> HIDE DEF g, h, e, s
      <4>2. g * g - h * h = (s * (g + h)) * e
        <5>1. g * g - h * h = (g + h) * (g - h)
          BY <1>2, <4>1
        <5>2. (g + h) * (s * e) = (s * (g + h)) * e
          BY <1>2, <4>1, <2>2
        <5> QED BY <4>1, <5>1, <5>2
      <4>3. x - h * h = (x - g * g) + (g * g - h * h)
        BY <1>2, <4>1
      <4>4. x - h * h = 1 * (x - g * g) + (s * (g + h)) * e
        BY <1>2, <4>1, <4>2, <4>3
      <4> QED BY <4>4 DEF h, s
    <3>4. Zero(e1)
      BY <1>2
    <3> HIDE DEF k1, e1, e, i
    <3> QED BY <2>1, <2>2, <3>1, <3>3, <3>4, CombinationOfTwo
  <2>4. Zero(z - (C * C) * (4 * f))
    <3> DEFINE r == v * c
               k1 == 4 * c * (a * a + a * r + r * r + (A * c) * (a + r) + c * c)
               e1 == z - N
               i == 1
    <3>1. k1 \in Int /\ e1 \in Int /\ i \in Int
      BY <1>1, <1>2, <2>1, <2>2
    <3>2. N - (C * C) * (4 * f) = k1 * e
      <4>1. N = 4 * c * (a * a * a + A * c * (a * a) + c * c * a)
        BY <1>1
      <4>2. (C * C) * (4 * f) = 4 * c * (r * r * r + A * c * (r * r) + c * c * r)
        BY <1>1, <2>1
      <4>3. r \in Int /\ e = a - r
        BY <2>1
      <4> HIDE DEF N, r, e
      <4>4. k1 * (a - r) = 4 * c * (a * a * a + A * c * (a * a) + c * c * a) - 4 * c * (r * r * r + A * c * (r * r) + c * c * r)
        BY <1>1, <4>3
      <4> QED BY <4>1, <4>2, <4>3, <4>4
    <3>3. z - (C * C) * (4 * f) = i * e1 + k1 * e
      <4>1. (C * C) * (4 * f) \in Int
        BY <2>1, <2>2
      <4> DEFINE M == (C * C) * (4 * f)
                 j == k1 * e
      <4>2. M \in Int /\ N - M = j /\ j \in Int
        BY <1>2, <2>2, <3>1, <3>2, <4>1
      <4> HIDE DEF N, M, j
      <4>3. z - M = 1 * (z - N) + j
        BY <1>2, <4>2
      <4> QED BY <4>3 DEF M, j
    <3>4. Zero(e1)
      BY <1>2
    <3> HIDE DEF k1, e1, e, i
    <3> QED BY <2>1, <2>2, <3>1, <3>3, <3>4, CombinationOfTwo
  <2>5. C * C \in Int /\ ~Zero(C * C) /\ C * w \in Int /\ (C * C) * (4 * f) \in Int /\ (C * w) * (C * w) \in Int
    BY <2>1, <2>2, NoZeroDivisors
  <2>6. (Zero(x) <=> Zero(w)) /\ (Zero(z) <=> Zero(f))
    <3> HIDE DEF C, w
    <3>1. Zero(x) <=> Zero((C * w) * (C * w))
      BY <2>3, <2>5, Carried
    <3>2. Zero(z) <=> Zero((C * C) * (4 * f))
      BY <2>4, <2>5, Carried
    <3>3. Zero((C * w) * (C * w)) <=> Zero(C * w)
      BY <2>5, ProductIsZero
    <3>4. Zero(C * w) <=> Zero(w)
      BY <2>2, ProductIsZero
    <3>5. 4 * f \in Int /\ (Zero(4 * f) <=> Zero(f))
      <4> DEFINE h == 4
      <4>1. h \in Int /\ ~Zero(h)
        BY CurveFacts
      <4> HIDE DEF h
      <4>2. h * f \in Int /\ (Zero(h * f) <=> Zero(f))
        <5>1. f \in Int
          BY <2>1
        <5>2. h * f \in Int
          BY <4>1, <5>1
        <5>3. Zero(h * f) <=> Zero(h) \/ Zero(f)
          BY ONLY <4>1, <5>1, ProductIsZero
        <5> QED BY <4>1, <5>2, <5>3
      <4> QED BY <4>2 DEF h
    <3>6. Zero((C * C) * (4 * f)) <=> Zero(4 * f)
      <4> DEFINE h == 4 * f
                 K == C * C
      <4>1. h \in Int /\ K \in Int /\ ~Zero(K)
        BY <2>5, <3>5
      <4> HIDE DEF h, K
      <4>2. Zero(K * h) <=> Zero(h)
        BY <4>1, ProductIsZero
      <4> QED BY <4>2 DEF h, K
    <3> QED BY <3>1, <3>2, <3>3, <3>4, <3>5, <3>6
  <2>7. CASE Zero(p[2])
    <3>1. Plus(B, p, p) = O /\ Zero(f)
      BY <1>5, <2>7, TwiceAPoint DEF f, v
    <3>2. ~Zero(w)
      BY <2>1, <3>1, CubicNotZero DEF f
    <3> QED BY <2>6, <3>1, <3>2 DEF Ratio
  <2>8. CASE ~Zero(p[2])
    <3> DEFINE X == Plus(B, p, p)[1]
               e1 == x - (C * w) * (C * w)
               e2 == X * (4 * f) - w * w
               e3 == z - (C * C) * (4 * f)
               k1 == 1
               k2 == -(C * C)
               k3 == -X
    <3>1. Plus(B, p, p) # O /\ X \in Int /\ ~Zero(f) /\ Zero(e2)
      BY <1>5, <2>8, TwiceAPoint, FieldFacts DEF f, v
    <3> HIDE DEF X
    <3>2. x - X * z = k1 * e1 + k2 * e2 + k3 * e3
      <4> HIDE DEF C, w, f
      <4>1. k2 * e2 = (C * C) * (w * w) - (C * C) * (X * (4 * f))
        BY <2>1, <2>2, <2>5, <3>1
      <4>2. k3 * e3 = X * ((C * C) * (4 * f)) - X * z
        BY <2>1, <2>2, <2>5, <3>1
      <4>3. (C * w) * (C * w) = (C * C) * (w * w) /\ (C * C) * (X * (4 * f)) = X * ((C * C) * (4 * f))
        BY <2>1, <2>2, <2>5, <3>1
      <4>4. (C * C) * (w * w) \in Int /\ X * ((C * C) * (4 * f)) \in Int /\ X * z \in Int
        BY <2>1, <2>2, <2>5, <3>1
      <4>5. k1 * e1 = x - (C * C) * (w * w)
        BY <2>5, <4>3
      <4> HIDE DEF e1, e2, e3, k1, k2, k3
      <4> QED BY <4>1, <4>2, <4>3, <4>4, <4>5
    <3>3. e1 \in Int /\ e2 \in Int /\ e3 \in Int /\ k1 \in Int /\ k2 \in Int /\ k3 \in Int
      BY <2>1, <2>2, <2>5, <3>1
    <3>4. Zero(e1) /\ Zero(e3)
      BY <2>3, <2>4
    <3> HIDE DEF e1, e2, e3, k1, k2, k3
    <3>5. Zero(x - X * z)
      BY <3>1, <3>2, <3>3, <3>4, Combination
    <3> QED BY <2>6, <3>1, <3>5 DEF Ratio, X
  <2> QED BY <2>7, <2>8
<1> QED BY <1>4, <1>5

\* The pair of a differential addition, and a first coordinate by its squares
AreSquares(x, z, g, h, U) == Zero(x - 4 * (g * g)) /\ Zero(z - 4 * (U * (h * h)))
BySquares(X, g, h, U) == Zero(X * (U * (h * h)) - g * g)

LEMMA SquaresRatio ==
    ASSUME NEW g \in Int, NEW h \in Int, NEW U \in Int, NEW X \in Int, NEW x \in Int, NEW z \in Int,
           AreSquares(x, z, g, h, U), ~Zero(U), ~Zero(h), BySquares(X, g, h, U)
    PROVE  ~Zero(z) /\ Zero(x - X * z)
<1> DEFINE n == U * (h * h)
           m == g * g
           e1 == x - 4 * m
           e2 == X * n - m
           e3 == z - 4 * n
           k1 == 1
           k2 == -4
           k3 == -X
<1>1. n \in Int /\ m \in Int /\ ~Zero(n)
  <2>1. h * h \in Int /\ ~Zero(h * h)
    BY NoZeroDivisors
  <2>2. ~Zero(U * (h * h))
    BY <2>1, NoZeroDivisors
  <2> QED BY <2>2
<1>2. Zero(e1) /\ Zero(e2) /\ Zero(e3)
  BY DEF AreSquares, BySquares
<1> HIDE DEF n, m
<1>3. e1 \in Int /\ e2 \in Int /\ e3 \in Int /\ k1 \in Int /\ k2 \in Int /\ k3 \in Int
  BY <1>1
<1>4. x - X * z = k1 * e1 + k2 * e2 + k3 * e3
  BY <1>1
<1>5. ~Zero(z)
  <2> DEFINE f == 4
             N == f * n
  <2>1. f \in Int /\ ~Zero(f) /\ Zero(z - N)
    BY <1>2, CurveFacts
  <2> HIDE DEF f
  <2>2. N \in Int /\ ~Zero(N)
    BY <1>1, <2>1, NoZeroDivisors
  <2> HIDE DEF N
  <2> QED BY <2>1, <2>2, Carried
<1> HIDE DEF e1, e2, e3, k1, k2, k3
<1>6. Zero(x - X * z)
  BY <1>2, <1>3, <1>4, Combination
<1> QED BY <1>5, <1>6

\* The case of one point at infinity
LEMMA SquaresOfMultiple ==
    ASSUME NEW g \in Int, NEW h \in Int, NEW U \in Int, NEW v \in Int, Zero(U - v),
           NEW e \in Int, Zero(e), e = v * h - g \/ e = v * h + g
    PROVE  Zero(v * (U * (h * h)) - g * g)
<1> DEFINE l == U - v
           k1 == v * (h * h)
           k2 == IF e = v * h - g THEN v * h + g ELSE v * h - g
<1>1. l \in Int /\ Zero(l) /\ k1 \in Int /\ k2 \in Int
  OBVIOUS
<1>2. v * (U * (h * h)) - g * g = k1 * l + k2 * e
  <2>1. k1 * l = v * (U * (h * h)) - (v * h) * (v * h)
    OBVIOUS
  <2>2. (v * h - g) * (v * h + g) = (v * h) * (v * h) - g * g /\ (v * h + g) * (v * h - g) = (v * h) * (v * h) - g * g
    OBVIOUS
  <2>3. k2 * e = (v * h) * (v * h) - g * g
    BY <2>2
  <2>4. v * (U * (h * h)) \in Int /\ (v * h) * (v * h) \in Int /\ g * g \in Int
    OBVIOUS
  <2> HIDE DEF k1, k2, l
  <2> QED BY <2>1, <2>3, <2>4
<1> HIDE DEF k1, k2, l
<1> QED BY <1>1, <1>2, CombinationOfTwo

\* Two points of the same first coordinate are equal or opposite.
LEMMA SameFirst ==
    ASSUME NEW B \in Curves, NEW p \in Points(B), NEW q \in Points(B), p # O, q # O, p[1] = q[1]
    PROVE  p = q \/ (q = Negative(p) /\ Plus(B, p, q) = O)
<1> DEFINE y1 == p[2]
           y2 == q[2]
           f == Cubic(p[1])
           n == Negative(p)[2]
<1>1. /\ y1 \in Int /\ y2 \in Int /\ y1 \in Field /\ y2 \in Field /\ f \in Int
      /\ B \in Int /\ ~Zero(B) /\ Zero(B * (y1 * y1) - f) /\ Zero(B * (y2 * y2) - f)
      /\ p = <<p[1], y1>> /\ q = <<p[1], y2>>
  <2>1. p[1] \in Int /\ y1 \in Int /\ y1 \in Field /\ Zero(B * (y1 * y1) - f) /\ p = <<p[1], y1>>
    BY Affine
  <2>2. y2 \in Int /\ y2 \in Field /\ Zero(B * (y2 * y2) - f) /\ q = <<p[1], y2>>
    BY Affine
  <2> QED BY <2>1, <2>2, CurveFacts
<1>2. n \in Int /\ n \in Field /\ Zero(n + y1) /\ Negative(p) = <<p[1], n>> /\ Plus(B, p, Negative(p)) = O
  <2>1. Negative(p) \in Points(B) /\ Negative(p) # O /\ Zero(n + y1) /\ Negative(p)[1] = p[1] /\ Plus(B, p, Negative(p)) = O
    BY Negatives
  <2>2. n \in Int /\ n \in Field /\ Negative(p) = <<Negative(p)[1], n>>
    BY <2>1, Affine
  <2> QED BY <2>1, <2>2
<1> HIDE DEF y1, y2, f, n
<1>3. Zero((B * (y1 - y2)) * (y1 + y2))
  <2> DEFINE e1 == B * (y1 * y1) - f
             e2 == B * (y2 * y2) - f
  <2>1. (B * (y1 - y2)) * (y1 + y2) = e1 - e2 /\ e1 \in Int /\ e2 \in Int /\ Zero(e1) /\ Zero(e2)
    BY <1>1
  <2> HIDE DEF e1, e2
  <2> QED BY <2>1, ZeroFacts
<1>4. Zero(y1 - y2) \/ Zero(y1 + y2)
  <2>1. B * (y1 - y2) \in Int /\ y1 + y2 \in Int /\ y1 - y2 \in Int
    BY <1>1
  <2>2. Zero(B * (y1 - y2)) \/ Zero(y1 + y2)
    BY <1>3, <2>1, NoZeroDivisors
  <2> QED BY <1>1, <2>1, <2>2, NoZeroDivisors
<1>5. CASE Zero(y1 - y2)
  <2>1. y1 = y2
    BY <1>1, <1>5, Congruences, CongIsEqual
  <2> QED BY <1>1, <2>1
<1>6. CASE Zero(y1 + y2)
  <2>1. Zero(n - y2)
    <3>1. n - y2 = (n + y1) - (y1 + y2) /\ n + y1 \in Int /\ y1 + y2 \in Int
      BY <1>1, <1>2
    <3> QED BY <1>2, <1>6, <3>1, ZeroFacts
  <2>2. n = y2
    BY <1>1, <1>2, <2>1, Congruences, CongIsEqual
  <2> QED BY <1>1, <1>2, <2>2
<1> QED BY <1>4, <1>5, <1>6

\* A point and its sum with another give back the other.
LEMMA Difference ==
    ASSUME NEW B \in Curves, NEW p \in Points(B), NEW q \in Points(B), p # O
    PROVE  Plus(B, Negative(p), Plus(B, p, q)) = q
<1>1. Negative(p) \in Points(B) /\ Plus(B, Negative(p), p) = O
  BY Negatives
<1>2. Plus(B, Plus(B, Negative(p), p), q) = Plus(B, Negative(p), Plus(B, p, q))
  BY <1>1, GroupAssumption DEF Curves
<1>3. Plus(B, O, q) = q
  BY PlusInfinity
<1> QED BY <1>1, <1>2, <1>3

\* The first coordinates of a sum and a difference, over the points
LEMMA SumAndDifference ==
    ASSUME NEW B \in Curves, NEW p \in Points(B), NEW Q \in Points(B), NEW q \in Points(B), q = Plus(B, p, Q),
           p # O, q # O, Q # O, p[1] # q[1], NEW d, d = q[1] - p[1]
    PROVE  /\ Plus(B, p, q) # O /\ Plus(B, p, q)[1] \in Int /\ ~Zero(d)
           /\ Zero(Plus(B, p, q)[1] * Q[1] * (d * d) - (p[1] * q[1] - 1) * (p[1] * q[1] - 1))
<1> DEFINE v1 == p[1]
           v2 == q[1]
           w1 == p[2]
           w2 == q[2]
           n == Negative(p)[2]
           X == Plus(B, p, q)[1]
           U == Q[1]
           A == CurveA
           f1 == Cubic(v1)
           f2 == Cubic(v2)
           K == (A + v1 + v2) * (d * d)
<1>1. /\ v1 \in Int /\ v2 \in Int /\ w1 \in Int /\ w2 \in Int /\ d \in Int /\ A \in Int /\ B \in Int /\ U \in Int
      /\ Zero(B * (w1 * w1) - f1) /\ Zero(B * (w2 * w2) - f2) /\ f1 \in Int /\ f2 \in Int
      /\ f1 = v1 * v1 * v1 + A * v1 * v1 + v1 /\ f2 = v2 * v2 * v2 + A * v2 * v2 + v2 /\ d = v2 - v1
  <2>1. v1 \in Int /\ w1 \in Int /\ Zero(B * (w1 * w1) - f1)
    BY Affine
  <2>2. v2 \in Int /\ w2 \in Int /\ Zero(B * (w2 * w2) - f2)
    BY Affine
  <2>3. U \in Int
    BY Affine
  <2> QED BY <2>1, <2>2, <2>3, CurveFacts DEF Cubic
<1>2. Plus(B, p, q) # O /\ X \in Int /\ ~Zero(d) /\ Zero(X * (d * d) - (B * ((w2 - w1) * (w2 - w1)) - K))
  <2>1. /\ ~Zero(d) /\ Plus(B, p, q) # O /\ X \in Field
        /\ Zero(X * (d * d) - (B * ((w2 - w1) * (w2 - w1)) - (A + v1 + v2) * (d * d)))
    BY DifferentPoints
  <2> QED BY <2>1, FieldFacts
<1>3. /\ Negative(p) \in Points(B) /\ Negative(p) # O /\ Negative(p)[1] = v1 /\ Zero(n + w1)
      /\ Plus(B, Negative(p), q) = Q
  BY Negatives, Difference
<1>4. n \in Int /\ Zero(U * (d * d) - (B * ((w2 - n) * (w2 - n)) - K))
  <2> DEFINE m == Negative(p)
  <2>1. m \in Points(B) /\ m # O /\ m[1] = v1 /\ Plus(B, m, q) = Q /\ m[1] # q[1] /\ d = q[1] - m[1]
    BY <1>3
  <2> HIDE DEF m
  <2>2. m[2] \in Int
    BY <2>1, Affine
  <2>3. Zero(Plus(B, m, q)[1] * (d * d) - (B * ((q[2] - m[2]) * (q[2] - m[2])) - (CurveA + m[1] + q[1]) * (d * d)))
    BY <2>1, DifferentPoints
  <2> QED BY <2>1, <2>2, <2>3 DEF m
<1> HIDE DEF v1, v2, w1, w2, n, X, U, A, f1, f2
<1>5. Zero(U * (d * d) - (B * ((w2 + w1) * (w2 + w1)) - K))
  <2> DEFINE D == U * (d * d)
             e1 == D - (B * ((w2 - n) * (w2 - n)) - K)
             e2 == n + w1
             k1 == 1
             k2 == -(B * ((w2 + w1) + (w2 - n)))
  <2>1. K \in Int /\ D \in Int
    BY <1>1
  <2> HIDE DEF K, D
  <2>2. e1 \in Int /\ e2 \in Int /\ k1 \in Int /\ k2 \in Int
    BY <1>1, <1>4, <2>1
  <2>3. D - (B * ((w2 + w1) * (w2 + w1)) - K) = k1 * e1 + k2 * e2
    BY <1>1, <1>4, <2>1
  <2>4. Zero(e1) /\ Zero(e2)
    BY <1>3, <1>4 DEF D
  <2> HIDE DEF e1, e2, k1, k2
  <2>5. Zero(k1 * e1 + k2 * e2)
    BY <2>2, <2>4, CombinationOfTwo
  <2> QED BY <2>3, <2>5 DEF D
<1>6. Zero(X * U * (d * d) - (v1 * v2 - 1) * (v1 * v2 - 1))
  BY <1>1, <1>2, <1>5, DifferentialFormula
<1> QED BY <1>2, <1>6 DEF X, U, v1, v2

\* Differential addition: what the ladder does to the two pairs
LEMMA AddedPair ==
    ASSUME NEW B \in Curves, NEW p \in Points(B), NEW Q \in Points(B), NEW q \in Points(B), q = Plus(B, p, Q),
           Q # O, ~Zero(Q[1]), NEW U \in Int, Zero(U - Q[1]),
           NEW a2 \in Int, NEW c2 \in Int, NEW a3 \in Int, NEW c3 \in Int,
           Ratio(a2, c2, p), Ratio(a3, c3, q),
           NEW g \in Int, g = a2 * a3 - c2 * c3, NEW h \in Int, h = a3 * c2 - c3 * a2,
           NEW x \in Int, NEW z \in Int, Zero(x - 4 * (g * g)), Zero(z - 4 * (U * (h * h)))
    PROVE  Ratio(x, z, Plus(B, p, q))
<1> DEFINE v == Q[1]
<1>1. v \in Int /\ ~Zero(v) /\ ~Zero(U) /\ Zero(U - v)
  <2>1. v \in Int
    BY Affine
  <2> QED BY <2>1, Carried
<1>0. /\ g \in Int /\ h \in Int /\ U \in Int /\ x \in Int /\ z \in Int
      /\ AreSquares(x, z, g, h, U)
  BY DEF AreSquares
<1>5. ASSUME NEW V \in Int, ~Zero(h), BySquares(V, g, h, U)
      PROVE  ~Zero(z) /\ Zero(x - V * z)
  BY ONLY <1>0, <1>1, <1>5, SquaresRatio
<1>2. CASE p = O
  <2>1. q = Q /\ Plus(B, p, q) = Q
    BY <1>2, PlusInfinity
  <2> HIDE DEF v
  <2>2. ~Zero(a2) /\ Zero(c2) /\ ~Zero(c3) /\ Zero(a3 - v * c3)
    BY <1>2, <2>1 DEF Ratio, v
  <2> DEFINE e == v * h + g
             e1 == a3 - v * c3
             e2 == v * a3 - c3
  <2>3. e1 \in Int /\ e2 \in Int /\ e \in Int /\ e = a2 * e1 + e2 * c2
    BY <1>1
  <2>4. Zero(e)
    <3> HIDE DEF e, e1, e2
    <3>1. Zero(e1)
      BY <2>2 DEF e1
    <3> QED BY <2>2, <2>3, <3>1, CombinationOfTwo
  <2>5. ~Zero(h)
    <3> DEFINE m == -(c3 * a2)
    <3>1. m \in Int /\ h - m = a3 * c2
      OBVIOUS
    <3>2. ~Zero(c3 * a2) /\ c3 * a2 \in Int
      BY <2>2, NoZeroDivisors
    <3>3. ~Zero(m)
      <4>1. c3 * a2 = -m
        BY <3>2
      <4> HIDE DEF m
      <4> QED BY <3>1, <3>2, <4>1, ZeroFacts
    <3>4. Zero(a3 * c2)
      BY <2>2, ZeroFacts
    <3> HIDE DEF m
    <3> QED BY <3>1, <3>3, <3>4, Carried
  <2>6. Zero(v * (U * (h * h)) - g * g)
    <3>1. e \in Int /\ Zero(e) /\ (e = v * h - g \/ e = v * h + g)
      BY <2>3, <2>4
    <3> HIDE DEF e
    <3> QED BY <1>1, <3>1, SquaresOfMultiple
  <2>7. ~Zero(z) /\ Zero(x - v * z)
    BY <1>1, <1>5, <2>5, <2>6 DEF BySquares
  <2> QED BY <2>1, <2>7 DEF Ratio, v
<1>3. CASE p # O /\ q = O
  <2>1. Plus(B, p, q) = p
    BY <1>3, PlusInfinity
  <2>2. p[1] = v
    <3> SUFFICES ASSUME p[1] # Q[1] PROVE FALSE
      OBVIOUS
    <3> DEFINE d == Q[1] - p[1]
               e == Q[2] - p[2]
    <3>1. Plus(B, p, Q) # O
      BY <1>3, DifferentPoints
    <3> QED BY <1>3, <3>1
  <2>3. ~Zero(c2) /\ Zero(a2 - v * c2) /\ ~Zero(a3) /\ Zero(c3)
    BY <1>3, <2>2 DEF Ratio
  <2> HIDE DEF v
  <2> DEFINE e == v * h - g
             e1 == a2 - v * c2
             e2 == v * a2 - c2
             k1 == -a3
             k2 == -e2
  <2>4. e1 \in Int /\ k1 \in Int /\ k2 \in Int /\ e \in Int /\ e = k1 * e1 + k2 * c3
    BY <1>1
  <2>5. Zero(e)
    <3> HIDE DEF e, e1, e2, k1, k2
    <3>1. Zero(e1)
      BY <2>3 DEF e1
    <3> QED BY <2>3, <2>4, <3>1, CombinationOfTwo
  <2>6. ~Zero(h)
    <3> DEFINE m == a3 * c2
    <3>1. m \in Int /\ m - h = c3 * a2
      OBVIOUS
    <3>2. ~Zero(m)
      BY <2>3, NoZeroDivisors
    <3>3. Zero(c3 * a2)
      BY <2>3, ZeroFacts
    <3> HIDE DEF m
    <3> QED BY <3>1, <3>2, <3>3, Carried
  <2>7. Zero(v * (U * (h * h)) - g * g)
    <3>1. e \in Int /\ Zero(e) /\ (e = v * h - g \/ e = v * h + g)
      BY <2>4, <2>5
    <3> HIDE DEF e
    <3> QED BY <1>1, <3>1, SquaresOfMultiple
  <2>8. ~Zero(z) /\ Zero(x - v * z)
    BY <1>1, <1>5, <2>6, <2>7 DEF BySquares
  <2> QED BY <1>3, <2>1, <2>2, <2>8 DEF Ratio
<1>4. CASE p # O /\ q # O
  <2> DEFINE v1 == p[1]
             v2 == q[1]
             c == c2 * c3
             d == v2 - v1
             w == v1 * v2 - 1
             e1 == a2 - v1 * c2
             e2 == a3 - v2 * c3
  <2>1. v1 \in Int /\ v2 \in Int /\ ~Zero(c2) /\ ~Zero(c3) /\ Zero(e1) /\ Zero(e2)
    <3>1. v1 \in Int
      BY <1>4, Affine
    <3>2. v2 \in Int
      BY <1>4, Affine
    <3> QED BY <1>4, <3>1, <3>2 DEF Ratio
  <2>2. c \in Int /\ ~Zero(c) /\ d \in Int /\ w \in Int /\ e1 \in Int /\ e2 \in Int
    <3>1. ~Zero(c2 * c3)
      BY <2>1, NoZeroDivisors
    <3> QED BY <2>1, <3>1
  <2> HIDE DEF v1, v2
  <2>3. Zero(g - c * w)
    <3> DEFINE k1 == a3
               k2 == v1 * c2
    <3>1. k1 \in Int /\ k2 \in Int /\ g - c * w = k1 * e1 + k2 * e2
      BY <2>1
    <3> HIDE DEF e1, e2, k1, k2
    <3>2. Zero(k1 * e1 + k2 * e2)
      BY <2>1, <2>2, <3>1, CombinationOfTwo
    <3> QED BY <3>1, <3>2
  <2>4. Zero(h - c * d)
    <3> DEFINE k1 == -c3
               k2 == c2
    <3>1. k1 \in Int /\ k2 \in Int /\ h - c * d = k1 * e1 + k2 * e2
      BY <2>1
    <3> HIDE DEF e1, e2, k1, k2
    <3>2. Zero(k1 * e1 + k2 * e2)
      BY <2>1, <2>2, <3>1, CombinationOfTwo
    <3> QED BY <3>1, <3>2
  <2>5. c * w \in Int /\ c * d \in Int /\ (Zero(c * w) <=> Zero(w)) /\ (Zero(c * d) <=> Zero(d))
    <3> HIDE DEF c, w, d
    <3>1. Zero(c * w) <=> Zero(c) \/ Zero(w)
      BY <2>2, ProductIsZero
    <3>2. Zero(c * d) <=> Zero(c) \/ Zero(d)
      BY <2>2, ProductIsZero
    <3> QED BY <2>2, <3>1, <3>2
  <2>6. (Zero(g) <=> Zero(w)) /\ (Zero(h) <=> Zero(d))
    <3> HIDE DEF c, w, d
    <3>1. Zero(g) <=> Zero(c * w)
      BY <2>3, <2>5, Carried
    <3>2. Zero(h) <=> Zero(c * d)
      BY <2>4, <2>5, Carried
    <3> QED BY <2>5, <3>1, <3>2
  <2>7. CASE v1 # v2
    <3> DEFINE X == Plus(B, p, q)[1]
    <3>1. Plus(B, p, q) # O /\ X \in Int /\ ~Zero(d) /\ Zero(X * v * (d * d) - w * w)
      BY <1>4, <2>7, SumAndDifference DEF v1, v2
    <3> HIDE DEF X, v, d, w, c
    <3>2. Zero(X * (U * (h * h)) - g * g)
      <4> DEFINE s == c * d
                 r == c * w
                 l1 == U - v
                 l2 == h - s
                 l3 == X * v * (d * d) - w * w
                 l4 == g - r
                 m1 == X * (h * h)
                 m2 == X * v * (h + s)
                 m3 == c * c
                 m4 == -(g + r)
      <4>1. s \in Int /\ r \in Int
        BY <2>2
      <4>2. l1 \in Int /\ l2 \in Int /\ l3 \in Int /\ l4 \in Int /\ m1 \in Int /\ m2 \in Int /\ m3 \in Int /\ m4 \in Int
        BY <1>1, <2>2, <3>1, <4>1
      <4>3. Zero(l1) /\ Zero(l2) /\ Zero(l3) /\ Zero(l4)
        BY <1>1, <2>3, <2>4, <3>1
      <4>4. X * (U * (h * h)) - g * g = ((m1 * l1 + m2 * l2) + m3 * l3) + m4 * l4
        <5>1. m1 * l1 = X * (U * (h * h)) - (X * v) * (h * h)
          BY <1>1, <3>1
        <5>2. m2 * l2 = (X * v) * (h * h) - (X * v) * (s * s)
          <6> HIDE DEF s
          <6> QED BY <1>1, <3>1, <4>1
        <5>3. m3 * l3 = (X * v) * (s * s) - r * r
          BY <1>1, <2>2, <3>1
        <5>4. m4 * l4 = r * r - g * g
          <6> HIDE DEF r
          <6> QED BY <4>1
        <5>5. X * (U * (h * h)) \in Int /\ (X * v) * (h * h) \in Int /\ (X * v) * (s * s) \in Int /\ r * r \in Int /\ g * g \in Int
          BY <1>1, <3>1, <4>1
        <5> HIDE DEF s, r, l1, l2, l3, l4, m1, m2, m3, m4
        <5> QED BY <5>1, <5>2, <5>3, <5>4, <5>5
      <4> HIDE DEF s, r, l1, l2, l3, l4, m1, m2, m3, m4
      <4> DEFINE n1 == m1 * l1
                 n2 == m2 * l2
                 n3 == m3 * l3
                 n4 == m4 * l4
      <4>5. Zero(n1) /\ Zero(n2) /\ Zero(n3) /\ Zero(n4)
        BY <4>2, <4>3, ZeroFacts
      <4>6. n1 \in Int /\ n2 \in Int /\ n3 \in Int /\ n4 \in Int
        BY <4>2
      <4> HIDE DEF n1, n2, n3, n4
      <4>7. Zero(n1 + n2) /\ n1 + n2 \in Int
        BY <4>5, <4>6, ZeroFacts
      <4>8. Zero((n1 + n2) + n3) /\ (n1 + n2) + n3 \in Int
        BY <4>5, <4>6, <4>7, ZeroFacts
      <4>9. Zero(((n1 + n2) + n3) + n4)
        BY <4>5, <4>6, <4>8, ZeroFacts
      <4> QED BY <4>4, <4>9 DEF n1, n2, n3, n4
    <3>3. ~Zero(h)
      BY <2>6, <3>1
    <3>5. X \in Int /\ ~Zero(U) /\ ~Zero(h)
      BY <1>1, <3>1, <3>3
    <3>4. ~Zero(z) /\ Zero(x - X * z)
      BY <1>5, <3>2, <3>3, <3>5 DEF BySquares
    <3> QED BY <3>1, <3>4 DEF Ratio, X
  <2>8. CASE v1 = v2
    <3>1. p # q
      <4> SUFFICES ASSUME p = q PROVE FALSE
        OBVIOUS
      <4>1. Plus(B, Negative(p), p) = O /\ Plus(B, Negative(p), q) = Q
        BY <1>4, Negatives, Difference
      <4> QED BY <4>1
    <3>2. q = Negative(p) /\ Plus(B, p, q) = O
      BY <1>4, <2>8, <3>1, SameFirst DEF v1, v2
    <3>3. Plus(B, q, q) = Q
      BY <1>4, <3>2, Difference
    <3>4. ~Zero(q[2])
      BY <1>4, <3>3, TwiceAPoint
    <3> DEFINE f == Cubic(v2)
    <3>5. ~Zero(f) /\ Zero(v * (4 * f) - (v2 * v2 - 1) * (v2 * v2 - 1)) /\ f \in Int
      <4>1. q[1] \in Int
        BY <2>1 DEF v2
      <4>2. Cubic(q[1]) \in Int
        BY <4>1, CurveFacts
      <4> QED BY <1>4, <3>3, <3>4, <4>2, TwiceAPoint DEF v2
    <3> HIDE DEF f, v
    <3>6. ~Zero(w)
      <4>1. w = v2 * v2 - 1
        BY <2>8
      <4> DEFINE r == 4
                 s == v * (r * f)
      <4>2. r \in Int /\ ~Zero(r)
        BY CurveFacts
      <4>3. Zero(s - w * w)
        BY <3>5, <4>1
      <4> HIDE DEF r, w
      <4>4. r * f \in Int /\ ~Zero(r * f)
        BY <3>5, <4>2, NoZeroDivisors
      <4>5. s \in Int /\ ~Zero(s)
        <5> DEFINE m == r * f
        <5>1. m \in Int /\ ~Zero(m)
          BY <4>4
        <5> HIDE DEF m
        <5>2. v * m \in Int /\ ~Zero(v * m)
          BY <1>1, <5>1, NoZeroDivisors
        <5> QED BY <5>2 DEF m
      <4> HIDE DEF s
      <4>6. ~Zero(w * w) /\ w * w \in Int
        BY <2>2, <4>3, <4>5, Carried
      <4> QED BY <2>2, <4>6, ZeroFacts
    <3>7. ~Zero(g) /\ Zero(h)
      <4>1. d = 0
        BY <2>1, <2>8
      <4>2. Zero(d)
        BY <4>1, ZeroFacts
      <4> HIDE DEF d, w
      <4> QED BY <2>6, <3>6, <4>2
    <3>8. ~Zero(x)
      <4> DEFINE r == 4
                 s == r * (g * g)
      <4>1. r \in Int /\ ~Zero(r)
        BY CurveFacts
      <4>2. Zero(x - s)
        OBVIOUS
      <4> HIDE DEF r
      <4>3. g * g \in Int /\ ~Zero(g * g)
        BY <3>7, NoZeroDivisors
      <4>4. s \in Int /\ ~Zero(s)
        BY <4>1, <4>3, NoZeroDivisors
      <4> HIDE DEF s
      <4> QED BY <4>2, <4>4, Carried
    <3>9. Zero(z)
      <4> DEFINE s == 4 * (U * (h * h))
                 r == 4 * U * h
      <4>1. s \in Int /\ r \in Int /\ s = r * h /\ Zero(z - s)
        OBVIOUS
      <4> HIDE DEF s, r
      <4>2. Zero(s)
        BY <3>7, <4>1, ZeroFacts
      <4> QED BY <4>1, <4>2, Carried
    <3> QED BY <3>2, <3>8, <3>9 DEF Ratio
  <2> QED BY <2>7, <2>8
<1> QED BY <1>2, <1>3, <1>4

LEMMA FieldOps ==
    ASSUME NEW a \in Int, NEW b \in Int, NEW c \in Int, NEW d \in Int, Cong(a, b), Cong(c, d)
    PROVE  /\ add(a, c) \in Int /\ Cong(add(a, c), b + d)
           /\ sub(a, c) \in Int /\ Cong(sub(a, c), b - d)
           /\ mul(a, c) \in Int /\ Cong(mul(a, c), b * d)
<1>1. Cong(a + c, b + d) /\ Cong(a - c, b - d) /\ Cong(a * c, b * d)
  BY CongOps
<1>2. /\ add(a, c) \in Int /\ Cong(add(a, c), a + c)
      /\ sub(a, c) \in Int /\ Cong(sub(a, c), a - c)
      /\ mul(a, c) \in Int /\ Cong(mul(a, c), a * c)
  BY Operations, FieldFacts
<1>3. a + c \in Int /\ b + d \in Int /\ a - c \in Int /\ b - d \in Int /\ a * c \in Int /\ b * d \in Int
  OBVIOUS
<1> QED BY <1>1, <1>2, <1>3, CongTrans

\* The pairs that a round computes
Square(x) == mul(x, x)
DoubleX(a, c) == mul(Square(add(a, c)), Square(sub(a, c)))
Excess(a, c) == sub(Square(add(a, c)), Square(sub(a, c)))
DoubleZ(a, c) == mul(Excess(a, c), add(Square(add(a, c)), mul(A24, Excess(a, c))))
CrossDA(a2, c2, a3, c3) == mul(sub(a3, c3), add(a2, c2))
CrossCB(a2, c2, a3, c3) == mul(add(a3, c3), sub(a2, c2))
AddX(a2, c2, a3, c3) == Square(add(CrossDA(a2, c2, a3, c3), CrossCB(a2, c2, a3, c3)))
AddZ(U, a2, c2, a3, c3) == mul(U, Square(sub(CrossDA(a2, c2, a3, c3), CrossCB(a2, c2, a3, c3))))

LEMMA CodeDoubles ==
    ASSUME NEW a \in Int, NEW c \in Int
    PROVE  /\ DoubleX(a, c) \in Int /\ DoubleZ(a, c) \in Int
           /\ Zero(DoubleX(a, c) - (a * a - c * c) * (a * a - c * c))
           /\ Zero(DoubleZ(a, c) - 4 * (a * c) * (a * a + CurveA * (a * c) + c * c))
<1> DEFINE s == add(a, c)
           d == sub(a, c)
           ss == mul(s, s)
           dd == mul(d, d)
           e == sub(ss, dd)
           ae == mul(A24, e)
           n == add(ss, ae)
           X == mul(ss, dd)
           Z == mul(e, n)
           S == (a + c) * (a + c)
           D == (a - c) * (a - c)
<1>1. Cong(a, a) /\ Cong(c, c) /\ A24 \in Int /\ Cong(A24, A24)
  BY CongRefl, X25519Assumption
<1>2. s \in Int /\ Cong(s, a + c) /\ d \in Int /\ Cong(d, a - c) /\ a + c \in Int /\ a - c \in Int
  BY <1>1, FieldOps
<1> HIDE DEF s, d
<1>3. ss \in Int /\ Cong(ss, S) /\ dd \in Int /\ Cong(dd, D) /\ S \in Int /\ D \in Int
  BY <1>2, FieldOps
<1> HIDE DEF ss, dd
<1>4. S - D = 4 * (a * c)
  OBVIOUS
<1>5. S * D = (a * a - c * c) * (a * a - c * c)
  OBVIOUS
<1>6. S + A24 * (4 * (a * c)) = a * a + CurveA * (a * c) + c * c
  BY <1>1 DEF CurveA
<1> DEFINE m == 4 * (a * c)
           l == a * a + CurveA * (a * c) + c * c
           g == (a * a - c * c) * (a * a - c * c)
<1>7. m \in Int /\ l \in Int /\ g \in Int /\ m * l \in Int
  BY CurveFacts
<1> HIDE DEF S, D
<1>8. e \in Int /\ Cong(e, m)
  <2>1. e \in Int /\ Cong(e, S - D)
    BY <1>3, FieldOps
  <2> QED BY <1>4, <2>1
<1> HIDE DEF e, m
<1>9. ae \in Int /\ Cong(ae, A24 * m) /\ A24 * m \in Int
  BY <1>1, <1>7, <1>8, FieldOps
<1> HIDE DEF ae
<1>10. n \in Int /\ Cong(n, l)
  <2>1. n \in Int /\ Cong(n, S + A24 * m)
    BY <1>3, <1>9, FieldOps
  <2> QED BY <1>6, <2>1 DEF m
<1> HIDE DEF n, l
<1>11. X \in Int /\ Cong(X, g)
  <2>1. X \in Int /\ Cong(X, S * D)
    BY <1>3, FieldOps
  <2> QED BY <1>5, <2>1
<1>12. Z \in Int /\ Cong(Z, m * l)
  BY <1>7, <1>8, <1>10, FieldOps
<1> HIDE DEF X, Z, g
<1>13. Zero(X - g) /\ Zero(Z - m * l)
  BY <1>7, <1>11, <1>12, Congruences
<1>14. X = DoubleX(a, c) /\ Z = DoubleZ(a, c)
  BY DEF X, Z, DoubleX, DoubleZ, Excess, Square, n, ae, e, ss, dd, s, d
<1> QED BY <1>11, <1>12, <1>13, <1>14 DEF g, m, l

LEMMA CodeAdds ==
    ASSUME NEW U \in Int, NEW a2 \in Int, NEW c2 \in Int, NEW a3 \in Int, NEW c3 \in Int
    PROVE  /\ AddX(a2, c2, a3, c3) \in Int /\ AddZ(U, a2, c2, a3, c3) \in Int
           /\ AreSquares(AddX(a2, c2, a3, c3), AddZ(U, a2, c2, a3, c3),
                         a2 * a3 - c2 * c3, a3 * c2 - c3 * a2, U)
<1> DEFINE p3 == sub(a3, c3)
           q3 == add(a3, c3)
           p2 == add(a2, c2)
           q2 == sub(a2, c2)
           da == mul(p3, p2)
           cb == mul(q3, q2)
           s == add(da, cb)
           d == sub(da, cb)
           X == mul(s, s)
           dd == mul(d, d)
           Z == mul(U, dd)
           g == a2 * a3 - c2 * c3
           h == a3 * c2 - c3 * a2
           DA == (a3 - c3) * (a2 + c2)
           CB == (a3 + c3) * (a2 - c2)
<1>1. Cong(a2, a2) /\ Cong(c2, c2) /\ Cong(a3, a3) /\ Cong(c3, c3) /\ Cong(U, U)
  BY CongRefl
<1>2. p3 \in Int /\ Cong(p3, a3 - c3) /\ q3 \in Int /\ Cong(q3, a3 + c3)
  BY <1>1, FieldOps
<1>3. p2 \in Int /\ Cong(p2, a2 + c2) /\ q2 \in Int /\ Cong(q2, a2 - c2)
  BY <1>1, FieldOps
<1>4. a3 - c3 \in Int /\ a3 + c3 \in Int /\ a2 + c2 \in Int /\ a2 - c2 \in Int
  OBVIOUS
<1> HIDE DEF p3, q3, p2, q2
<1>5. da \in Int /\ Cong(da, DA) /\ cb \in Int /\ Cong(cb, CB) /\ DA \in Int /\ CB \in Int
  BY <1>2, <1>3, <1>4, FieldOps
<1> HIDE DEF da, cb
<1>6. DA + CB = 2 * g /\ DA - CB = 2 * h
  OBVIOUS
<1>7. g \in Int /\ h \in Int
  OBVIOUS
<1> HIDE DEF DA, CB, g, h
<1>8. s \in Int /\ Cong(s, 2 * g) /\ d \in Int /\ Cong(d, 2 * h)
  <2>1. s \in Int /\ Cong(s, DA + CB) /\ d \in Int /\ Cong(d, DA - CB)
    BY <1>5, FieldOps
  <2> QED BY <1>6, <2>1
<1> HIDE DEF s, d
<1>9. 2 * g \in Int /\ 2 * h \in Int /\ (2 * g) * (2 * g) = 4 * (g * g) /\ (2 * h) * (2 * h) = 4 * (h * h)
  BY <1>7
<1> DEFINE gg == 2 * g
           hh == 2 * h
<1>10. gg \in Int /\ hh \in Int /\ Cong(s, gg) /\ Cong(d, hh) /\ gg * gg = 4 * (g * g) /\ hh * hh = 4 * (h * h)
  BY <1>8, <1>9
<1> HIDE DEF gg, hh
<1>11. X \in Int /\ Cong(X, gg * gg) /\ dd \in Int /\ Cong(dd, hh * hh) /\ gg * gg \in Int /\ hh * hh \in Int
  BY <1>8, <1>10, FieldOps
<1> HIDE DEF dd, X
<1>12. Z \in Int /\ Cong(Z, U * (hh * hh))
  BY <1>1, <1>11, FieldOps
<1> HIDE DEF Z
<1>13. U * (hh * hh) = 4 * (U * (h * h)) /\ U * (hh * hh) \in Int
  BY <1>7, <1>10
<1>14. Zero(X - gg * gg) /\ Zero(Z - U * (hh * hh))
  BY <1>11, <1>12, <1>13, Congruences
<1>15. AreSquares(X, Z, g, h, U)
  BY <1>10, <1>13, <1>14 DEF AreSquares
<1>16. X = AddX(a2, c2, a3, c3) /\ Z = AddZ(U, a2, c2, a3, c3)
  BY DEF X, Z, dd, AddX, AddZ, CrossDA, CrossCB, Square, s, d, da, cb, p2, q2, p3, q3
<1> QED BY <1>11, <1>12, <1>15, <1>16 DEF g, h

LEMMA StandsForRatio ==
    ASSUME NEW x \in Int, NEW z \in Field, NEW p, p # O => p[1] \in Field
    PROVE  StandsFor(x % P, z, p) <=> Ratio(x, z, p)
<1> DEFINE r == x % P
<1>1. r \in Field /\ r \in Int /\ Zero(r - x) /\ (Zero(x) <=> r = 0) /\ z \in Int /\ (Zero(z) <=> z = 0)
  <2>1. r \in Field /\ r \in Int /\ Zero(r - x) /\ (Zero(x) <=> r = 0)
    BY ModP, FieldFacts, ZeroIsRemainder
  <2>2. z \in Int /\ (Zero(z) => z = 0)
    BY FieldFacts, ZeroIsRemainder
  <2> QED BY <2>1, <2>2, ZeroFacts
<1> HIDE DEF r
<1>2. CASE p = O
  BY <1>1, <1>2 DEF StandsFor, Ratio, r
<1>3. CASE p # O
  <2> DEFINE v == p[1]
             i == inv(z)
             s == mul(r, i)
  <2>1. v \in Field /\ v \in Int
    BY <1>3, FieldFacts
  <2> HIDE DEF v
  <2>2. (StandsFor(r, z, p) <=> (z # 0 /\ s = v)) /\ (Ratio(x, z, p) <=> (~Zero(z) /\ Zero(x - v * z)))
    BY <1>3 DEF StandsFor, Ratio, v
  <2>3. ASSUME z # 0 PROVE s = v <=> Zero(x - v * z)
    <3>1. i \in Int /\ Zero(z * i - 1)
      BY <1>1, <2>3, Inverses, FieldFacts
    <3> HIDE DEF i
    <3>2. s \in Field /\ s \in Int /\ Zero(s - r * i)
      <4>1. mul(r, i) \in Field /\ Cong(mul(r, i), r * i)
        BY <1>1, <3>1, Operations
      <4>2. mul(r, i) \in Int /\ r * i \in Int
        <5>1. r * i \in Int
          BY <1>1, <3>1
        <5> QED BY <4>1, <5>1, FieldFacts
      <4> QED BY <4>1, <4>2, Congruences
    <3> HIDE DEF s
    <3> DEFINE l1 == s - r * i
               l2 == r - x
               l3 == z * i - 1
               l4 == x - v * z
               l5 == s - v
               m1 == i * l2
               m2 == v * l3
               m3 == i * l4
    <3>3. l1 \in Int /\ l2 \in Int /\ l3 \in Int /\ l4 \in Int /\ l5 \in Int /\ m1 \in Int /\ m2 \in Int /\ m3 \in Int
      BY <1>1, <2>1, <3>1, <3>2
    <3>4. l5 = ((l1 + m1) + m3) + m2
      BY <1>1, <2>1, <3>1, <3>2
    <3>5. Zero(l1) /\ Zero(m1) /\ Zero(m2) /\ (Zero(l4) => Zero(m3))
      <4>1. Zero(l1) /\ Zero(l2) /\ Zero(l3)
        BY <1>1, <3>1, <3>2
      <4> HIDE DEF l1, l2, l3, l4
      <4> QED BY <2>1, <3>1, <3>3, <4>1, ZeroFacts
    <3>6. (s = v <=> Zero(l5))
      <4>1. s = v => l5 = 0
        BY <2>1, <3>2
      <4>2. Zero(l5) => s = v
        BY <2>1, <3>2, Congruences, CongIsEqual
      <4> QED BY <4>1, <4>2, ZeroFacts
    <3>7. m3 = i * l4
      OBVIOUS
    <3> HIDE DEF l1, l2, l3, l4, l5, m1, m2, m3
    <3>8. Zero(l1 + m1) /\ l1 + m1 \in Int
      BY <3>3, <3>5, ZeroFacts
    <3>9. Zero(m3) => Zero(l5)
      <4>1. Zero(m3) => Zero((l1 + m1) + m3) /\ (l1 + m1) + m3 \in Int
        BY <3>3, <3>8, ZeroFacts
      <4> QED BY <3>3, <3>4, <3>5, <4>1, ZeroFacts
    <3>10. Zero(l5) => Zero(m3)
      <4>1. m3 = (l5 - m2) - (l1 + m1) /\ l5 - m2 \in Int
        BY <3>3, <3>4
      <4>2. Zero(l5) => Zero(l5 - m2)
        BY <3>3, <3>5, ZeroFacts
      <4> QED BY <3>8, <4>1, <4>2, ZeroFacts
    <3>11. ~Zero(i)
      <4> SUFFICES ASSUME Zero(i) PROVE FALSE
        OBVIOUS
      <4> DEFINE n == z * i
      <4>1. n \in Int /\ Zero(n) /\ Zero(n - 1) /\ 1 \in Int
        <5>1. z \in Int /\ i \in Int
          BY <1>1, <3>1
        <5>2. Zero(z * i)
          BY ONLY <5>1, Zero(i), ZeroFacts
        <5> QED BY <3>1, <5>1, <5>2
      <4> HIDE DEF n
      <4>2. 1 = n - (n - 1) /\ n - 1 \in Int
        BY <4>1
      <4> QED BY <4>1, <4>2, ZeroFacts, CurveFacts
    <3>12. Zero(m3) => Zero(l4)
      BY <3>1, <3>3, <3>7, <3>11, NoZeroDivisors
    <3> QED BY <3>5, <3>6, <3>9, <3>10, <3>12 DEF l4
  <2> QED BY <1>1, <2>2, <2>3 DEF r
<1> QED BY <1>2, <1>3

Many == Pow2[BITS]

LEMMA PowFacts ==
    /\ \A n \in 0..BITS + 1 : Pow2[n] \in Nat /\ Pow2[n] >= 1
    /\ Pow2[0] = 1 /\ \A n \in 1..BITS + 1 : Pow2[n] = 2 * Pow2[n - 1]
    /\ Many \in Nat /\ Many >= 1
<1> DEFINE T == {n \in 0..BITS + 1 : Pow2[n] >= 1}
<1>1. BITS + 1 \in Nat /\ BITS \in 0..BITS + 1
  BY BitsType
<1>2. \A n \in 0..BITS + 1 : Pow2[n] \in Nat
  BY PowersOfTwo
<1>3. T \in SUBSET Nat /\ 0 \in T
  BY <1>1, PowersOfTwo
<1>4. ASSUME NEW n \in 1..BITS + 1, n - 1 \in T PROVE n \in T
  <2>1. n \in 0..BITS + 1 /\ n - 1 \in 0..BITS + 1
    BY <1>1
  <2> QED BY <1>2, <1>4, <2>1, PowersOfTwo
<1>5. \A n \in 0..BITS + 1 : n \in T
  <2> HIDE DEF T
  <2> QED BY <1>1, <1>3, <1>4, UpTo
<1> QED BY <1>1, <1>2, <1>5, PowersOfTwo DEF Many

-----------------------------------------------------------------------------
\* X25519: multiples of a point

\* What the reference computes: m steps of adding a point Q of which x is the first coordinate
Multiplied(B, Q, x, W) ==
    /\ B \in Curves /\ Q \in Points(B) /\ Q # O /\ Q[1] = x
    /\ W[0] = O /\ \A n \in 1..Many : W[n] = Plus(B, W[n - 1], Q)
    /\ \A n \in 0..Many : W[n] \in Points(B)

LEMMA MultiplesExist ==
    ASSUME NEW x \in Field
    PROVE  \E B, Q : Multiplied(B, Q, x, AllMultiples[x])
<1> DEFINE OnIt(b) == \E y \in 0..P - 1 : <<x, y>> \in Points(b)
           B == CHOOSE b \in {1, NonSquare} : OnIt(b)
           Y == CHOOSE y \in 0..P - 1 : <<x, y>> \in Points(B)
           Q == <<x, Y>>
           S == Points(B)
           step == [p \in (1..Many) \X S |-> Plus(B, p[2], Q)]
           Is(f) == f = [n \in 0..Many |-> IF n = 0 THEN O ELSE Plus(B, f[n - 1], Q)]
           W == CHOOSE f : Is(f)
<1>1. \E b \in {1, NonSquare} : OnIt(b)
  BY TwistAssumption DEF Field
<1>2. B \in {1, NonSquare} /\ OnIt(B)
  <2> HIDE DEF OnIt
  <2> QED BY <1>1
<1>3. B \in Curves /\ Q \in S /\ Q # O /\ Q[1] = x
  <2>1. Y \in 0..P - 1 /\ <<x, Y>> \in Points(B)
    <3> HIDE DEF B
    <3> QED BY <1>2
  <2> HIDE DEF Y, B
  <2> QED BY <1>2, <2>1 DEF Curves, O
<1>4. Multiples(x) = W
  BY DEF Multiples, Many
<1> HIDE DEF B, Q, Y
<1>5. Many \in Nat /\ O \in S /\ \A p \in S : Plus(B, p, Q) \in S
  BY <1>3, PowFacts, PlusInfinity, GroupAssumption DEF Curves
<1>6. step \in [(1..Many) \X S -> S]
  BY <1>5
<1> HIDE DEF step, S, W
<1>7. PICK f : Iterated(f, Many, S, O, step)
  BY <1>5, <1>6, Iterates
<1>8. f \in [0..Many -> S] /\ f[0] = O /\ \A n \in 1..Many : f[n] = Plus(B, f[n - 1], Q)
  <2>1. f \in [0..Many -> S] /\ f[0] = O /\ \A n \in 1..Many : f[n] = step[<<n, f[n - 1]>>]
    BY <1>7 DEF Iterated
  <2>2. ASSUME NEW n \in 1..Many PROVE f[n] = Plus(B, f[n - 1], Q)
    <3>1. f[n - 1] \in S
      BY <1>5, <2>1
    <3> QED BY <2>1, <2>2, <3>1 DEF step
  <2> QED BY <2>1, <2>2
<1>9. Is(f)
  <2>1. \A n \in 0..Many : n # 0 => n \in 1..Many
    BY <1>5
  <2> QED BY <1>8, <2>1
<1>10. Is(W)
  <2> HIDE DEF Is
  <2> QED BY <1>9 DEF W
<1>11. W[0] = O /\ \A n \in 1..Many : W[n] = Plus(B, W[n - 1], Q)
  <2>1. 0 \in 0..Many /\ \A n \in 1..Many : n \in 0..Many /\ n # 0
    BY <1>5
  <2> HIDE DEF W
  <2>2. \A n \in 0..Many : W[n] = IF n = 0 THEN O ELSE Plus(B, W[n - 1], Q)
    BY <1>10
  <2> QED BY <2>1, <2>2
<1> HIDE DEF Is
<1> DEFINE T == {n \in 0..Many : W[n] \in S}
<1>12. \A n \in 0..Many : n \in T
  <2>1. T \in SUBSET Nat /\ 0 \in T
    BY <1>5, <1>11
  <2>2. ASSUME NEW n \in 1..Many, n - 1 \in T PROVE n \in T
    BY <1>5, <1>11, <2>2
  <2> HIDE DEF T
  <2> QED BY <1>5, <2>1, <2>2, UpTo
<1> DEFINE V == AllMultiples[x]
<1>13. V = [n \in 0..Many |-> W[n]]
  BY <1>4 DEF AllMultiples, Many, Field
<1>14. \A n \in 0..Many : V[n] = W[n]
  BY <1>13
<1> HIDE DEF V
<1>15. 0 \in 0..Many /\ \A n \in 1..Many : n \in 0..Many /\ n - 1 \in 0..Many
  BY <1>5
<1>16. /\ V[0] = O /\ \A n \in 1..Many : V[n] = Plus(B, V[n - 1], Q)
       /\ \A n \in 0..Many : V[n] \in Points(B)
  BY <1>11, <1>12, <1>14, <1>15 DEF S
<1> QED BY <1>3, <1>16 DEF Multiplied, V, S

LEMMA MultiplesAdd ==
    ASSUME NEW B, NEW Q, NEW x, NEW W, Multiplied(B, Q, x, W),
           NEW m \in 0..Many, NEW l \in 0..Many, m + l <= Many
    PROVE  W[m + l] = Plus(B, W[m], W[l])
<1> DEFINE T == {n \in 0..l : W[m + n] = Plus(B, W[m], W[n])}
<1>1. /\ B \in Curves /\ Q \in Points(B) /\ W[0] = O /\ \A n \in 1..Many : W[n] = Plus(B, W[n - 1], Q)
      /\ \A n \in 0..Many : W[n] \in Points(B)
  BY DEF Multiplied
<1>2. Many \in Nat /\ m \in Nat /\ l \in Nat
  BY PowFacts
<1>3. T \in SUBSET Nat /\ 0 \in T
  <2>1. m + 0 = m /\ 0 \in 0..l
    BY <1>2
  <2> QED BY <1>1, <2>1, PlusInfinity
<1>4. ASSUME NEW n \in 1..l, n - 1 \in T PROVE n \in T
  <2>1. n \in 0..l /\ m + n \in 1..Many /\ n \in 1..Many /\ (m + n) - 1 = m + (n - 1) /\ n - 1 \in 0..Many
    BY <1>2
  <2>2. W[m + n] = Plus(B, Plus(B, W[m], W[n - 1]), Q) /\ W[n] = Plus(B, W[n - 1], Q)
    BY <1>1, <1>4, <2>1
  <2>3. W[m] \in Points(B) /\ W[n - 1] \in Points(B)
    BY <1>1, <2>1
  <2>4. Plus(B, Plus(B, W[m], W[n - 1]), Q) = Plus(B, W[m], Plus(B, W[n - 1], Q))
    BY <1>1, <2>3, GroupAssumption DEF Curves
  <2> QED BY <2>1, <2>2, <2>4
<1>5. l \in T
  <2>1. l \in 0..l
    BY <1>2
  <2> HIDE DEF T
  <2> QED BY <1>2, <1>3, <1>4, <2>1, UpTo
<1> QED BY <1>5

\* The multiples of the point of first coordinate zero, which has order two
LEMMA MultiplesOfTwoTorsion ==
    ASSUME NEW W, NEW B, NEW Q, Multiplied(B, Q, 0, W), NEW n \in 0..Many
    PROVE  W[n] = O \/ W[n][1] = 0
<1> DEFINE T == {m \in 0..Many : W[m] = O \/ W[m] = Q}
<1>1. /\ B \in Curves /\ Q \in Points(B) /\ Q # O /\ Q[1] = 0 /\ W[0] = O
      /\ \A m \in 1..Many : W[m] = Plus(B, W[m - 1], Q)
  BY DEF Multiplied
<1>2. Plus(B, O, Q) = Q
  BY <1>1, PlusInfinity
<1>3. Plus(B, Q, Q) = O
  <2> DEFINE y == Q[2]
  <2>1. y \in Int /\ Zero(B * (y * y) - Cubic(Q[1])) /\ B \in Int /\ ~Zero(B)
    BY <1>1, Affine, CurveFacts
  <2>2. Cubic(Q[1]) = 0
    BY <1>1, CurveFacts DEF Cubic
  <2> HIDE DEF y
  <2>3. y * y \in Int /\ Zero(B * (y * y))
    BY <2>1, <2>2
  <2>4. Zero(y)
    BY <2>1, <2>3, NoZeroDivisors
  <2> QED BY <1>1, <2>4, TwiceAPoint DEF y
<1>4. Many \in Nat
  BY PowFacts
<1>5. T \in SUBSET Nat /\ 0 \in T
  BY <1>1, <1>4
<1>6. ASSUME NEW m \in 1..Many, m - 1 \in T PROVE m \in T
  BY <1>1, <1>2, <1>3, <1>4, <1>6
<1>7. n \in T
  <2> HIDE DEF T
  <2> QED BY <1>4, <1>5, <1>6, UpTo
<1> QED BY <1>1, <1>7

LEMMA Products ==
    /\ \A a, b \in Nat : a * b \in Nat
    /\ \A a, b, c \in Nat : a <= b => a * c <= b * c /\ c * a <= c * b
<1>1. ASSUME NEW a \in Nat, NEW b \in Nat, NEW c \in Nat, a <= b PROVE a * c <= b * c /\ c * a <= c * b
  <2> DEFINE d == b - a
  <2>1. d \in Nat /\ b = a + d
    BY <1>1
  <2> HIDE DEF d
  <2>2. d * c >= 0 /\ b * c = a * c + d * c /\ c * b = b * c /\ c * a = a * c
    BY <2>1
  <2> QED BY <2>1, <2>2
<1> QED BY <1>1

LEMMA Division ==
    ASSUME NEW n \in Nat, NEW a \in Nat, a >= 1
    PROVE  /\ n \div a \in Nat /\ n % a \in 0..a - 1
           /\ n = ((n \div a) * a) + (n % a)
           /\ (n \div a) * a <= n /\ n < ((n \div a) * a) + a
           /\ n \div a <= n
           /\ \A b \in Nat : b * a <= n /\ n < (b * a) + a => n \div a = b
           /\ n < a => n \div a = 0
<1> DEFINE q == n \div a
           m == n % a
<1>1. q \in Int /\ m \in 0..a - 1 /\ n = a * q + m
  OBVIOUS
<1> HIDE DEF q, m
<1>2. q \in Nat
  <2> SUFFICES ASSUME q < 0 PROVE FALSE
    BY <1>1
  <2>1. -q - 1 \in Nat /\ a * q = -(a * (-q - 1)) - a
    BY <1>1
  <2>2. a * (-q - 1) >= 0
    BY <2>1
  <2> QED BY <1>1, <2>1, <2>2
<1>3. a * q = q * a /\ q * a \in Nat
  BY <1>2
<1>4. ASSUME NEW b \in Nat, b * a <= n, n < (b * a) + a PROVE q = b
  <2>1. CASE q < b
    <3>1. (q + 1) * a <= b * a /\ (q + 1) * a = q * a + a
      BY <1>2, <2>1, Products
    <3> QED BY <1>1, <1>3, <1>4, <3>1
  <2>2. CASE b < q
    <3>1. (b + 1) * a <= q * a /\ (b + 1) * a = b * a + a
      BY <1>2, <2>2, Products
    <3> QED BY <1>1, <1>3, <1>4, <3>1
  <2> QED BY <1>2, <2>1, <2>2
<1>5. q <= n
  <2>1. q * 1 <= q * a
    BY <1>2, Products
  <2> QED BY <1>1, <1>2, <1>3, <2>1
<1>6. n < a => q = 0
  <2>1. 0 * a = 0
    OBVIOUS
  <2> QED BY <1>4, <2>1
<1> QED BY <1>1, <1>2, <1>3, <1>4, <1>5, <1>6 DEF q, m

\* Dividing twice
LEMMA DivisionTwice ==
    ASSUME NEW n \in Nat, NEW a \in Nat, a >= 1, NEW b \in Nat, b >= 1
    PROVE  (n \div a) \div b = n \div (a * b)
<1> DEFINE q == n \div a
           h == q \div b
           c == a * b
<1>1. q \in Nat /\ q * a <= n /\ n < q * a + a
  BY Division
<1> HIDE DEF q
<1>2. h \in Nat /\ h * b <= q /\ q < h * b + b
  BY <1>1, Division
<1>3. c \in Nat /\ c >= 1
  <2>1. a * 1 <= a * b
    BY Products
  <2> QED BY <2>1, Products
<1> HIDE DEF h
<1>4. h * c = (h * b) * a
  BY <1>2
<1>5. h * b \in Nat /\ (h * b) * a <= q * a
  BY <1>1, <1>2, Products
<1>6. (q + 1) * a <= (h * b + b) * a /\ (q + 1) * a = q * a + a /\ (h * b + b) * a = (h * b) * a + c
  <2>1. q + 1 \in Nat /\ h * b + b \in Nat /\ q + 1 <= h * b + b
    BY <1>1, <1>2, <1>5
  <2>2. (q + 1) * a <= (h * b + b) * a
    BY <2>1, Products
  <2>3. (h * b + b) * a = (h * b) * a + c
    BY <1>2
  <2> QED BY <1>1, <2>2, <2>3
<1>7. h * c <= n /\ n < h * c + c
  <2>1. h * c \in Nat /\ q * a \in Nat
    BY <1>1, <1>2, <1>3, Products
  <2> HIDE DEF c
  <2> QED BY <1>1, <1>3, <1>4, <1>5, <1>6, <2>1
<1> HIDE DEF c
<1>8. n \div c = h
  BY <1>2, <1>3, <1>7, Division
<1> QED BY <1>8 DEF c, h, q

\* One more bit
LEMMA NextBit ==
    ASSUME NEW n \in Nat, NEW i \in 0..BITS
    PROVE  /\ Bit(n, i) \in {0, 1}
           /\ n \div Pow2[i] = 2 * (n \div Pow2[i + 1]) + Bit(n, i)
           /\ n \div Pow2[i + 1] \in Nat /\ n \div Pow2[i] \in Nat /\ n \div Pow2[i] <= n
<1> DEFINE a == Pow2[i]
           q == n \div a
<1>1. i \in 0..BITS + 1 /\ i + 1 \in 1..BITS + 1 /\ (i + 1) - 1 = i
  BY BitsType
<1>2. a \in Nat /\ a >= 1 /\ Pow2[i + 1] = 2 * a
  BY <1>1, PowFacts
<1> HIDE DEF a
<1>3. q \in Nat /\ q <= n
  BY <1>2, Division
<1>4. q \div 2 = n \div (a * 2)
  BY <1>2, DivisionTwice
<1>5. a * 2 = 2 * a
  BY <1>2
<1>6. q \div 2 = n \div Pow2[i + 1]
  BY <1>2, <1>4, <1>5
<1> HIDE DEF q
<1>7. q % 2 \in {0, 1} /\ q = 2 * (q \div 2) + (q % 2) /\ q \div 2 \in Nat
  BY <1>3
<1>8. Bit(n, i) = q % 2
  BY DEF Bit, q, a
<1> QED BY <1>3, <1>6, <1>7, <1>8 DEF q, a

LEMMA PowSum ==
    ASSUME NEW m \in Nat, NEW l \in Nat, m + l <= BITS + 1
    PROVE  Pow2[m + l] = Pow2[m] * Pow2[l]
<1> DEFINE T == {n \in 0..l : Pow2[m + n] = Pow2[m] * Pow2[n]}
<1>1. BITS \in Nat /\ m \in 0..BITS + 1
  BY BitsType
<1>2. T \in SUBSET Nat /\ 0 \in T
  <2>1. m + 0 = m /\ 0 \in 0..l /\ Pow2[m] \in Nat
    BY <1>1, PowFacts
  <2>2. Pow2[m] * 1 = Pow2[m]
    BY <2>1
  <2> QED BY <2>1, <2>2, PowFacts
<1>3. ASSUME NEW n \in 1..l, n - 1 \in T PROVE n \in T
  <2>1. n \in 0..l /\ n \in 1..BITS + 1 /\ m + n \in 1..BITS + 1 /\ (m + n) - 1 = m + (n - 1) /\ n - 1 \in 0..BITS + 1
    BY <1>1
  <2>2. Pow2[m + n] = 2 * Pow2[m + (n - 1)] /\ Pow2[n] = 2 * Pow2[n - 1]
    BY <2>1, PowFacts
  <2>3. Pow2[m + (n - 1)] = Pow2[m] * Pow2[n - 1] /\ Pow2[m] \in Nat /\ Pow2[n - 1] \in Nat
    BY <1>1, <1>3, <2>1, PowFacts
  <2>4. \A a, b \in Nat : 2 * (a * b) = a * (2 * b)
    OBVIOUS
  <2> QED BY <2>1, <2>2, <2>3, <2>4
<1>4. l \in T
  <2>1. l \in 0..l
    OBVIOUS
  <2> HIDE DEF T
  <2> QED BY <1>2, <1>3, <2>1, UpTo
<1> QED BY <1>4

-----------------------------------------------------------------------------
\* X25519: bytes and numbers

\* The place of a byte
Radix == Pow2[ByteBits]
Place(i) == Pow2[ByteBits * i]

LEMMA Places ==
    /\ Radix \in Nat /\ Radix >= 1 /\ ByteBits \in Nat /\ ByteBits >= 2 /\ Size \in Nat /\ Size >= 2
    /\ Place(0) = 1 /\ Place(1) = Radix
    /\ \A i \in 0..Size : Place(i) \in Nat /\ Place(i) >= 1
    /\ \A i \in 1..Size : Place(i) = Place(i - 1) * Radix
    /\ Place(Size) = 2 * Many
<1>1. ByteBits \in Nat /\ ByteBits >= 2 /\ Size \in Nat /\ Size >= 2 /\ BITS \in Nat /\ BITS + 1 = ByteBits * Size
  BY X25519Assumption, BitsType
<1>2. ASSUME NEW i \in 0..Size PROVE ByteBits * i \in 0..BITS + 1
  <2>1. i \in Nat /\ ByteBits * i \in Nat /\ ByteBits * i <= ByteBits * Size
    BY <1>1, Products
  <2> QED BY <1>1, <2>1
<1>3. \A i \in 0..Size : Place(i) \in Nat /\ Place(i) >= 1
  BY <1>2, PowFacts DEF Place
<1>4. 1 \in 0..Size /\ ByteBits * 1 = ByteBits /\ ByteBits * 0 = 0
  BY <1>1
<1>5. Radix = Place(1) /\ Place(0) = 1
  BY <1>4, PowFacts DEF Radix, Place
<1>6. ASSUME NEW i \in 1..Size PROVE Place(i) = Place(i - 1) * Radix
  <2> DEFINE m == ByteBits * (i - 1)
  <2>1. i \in 0..Size /\ i - 1 \in 0..Size /\ m + ByteBits = ByteBits * i
    BY <1>1
  <2>2. m \in Nat /\ m + ByteBits <= BITS + 1
    BY <1>2, <2>1
  <2> HIDE DEF m
  <2>3. Pow2[m + ByteBits] = Pow2[m] * Pow2[ByteBits]
    BY <1>1, <2>2, PowSum
  <2> QED BY <2>1, <2>3 DEF Place, Radix, m
<1>7. Place(Size) = 2 * Many
  <2>1. BITS + 1 \in 1..BITS + 1 /\ (BITS + 1) - 1 = BITS
    BY <1>1
  <2>2. Pow2[BITS + 1] = 2 * Pow2[BITS]
    BY <2>1, PowFacts
  <2> QED BY <1>1, <2>2 DEF Place, Many
<1> QED BY <1>1, <1>3, <1>4, <1>5, <1>6, <1>7

\* The sum that a number is decoded by
Sums(s, b) ==
    /\ s[0] = 0 /\ \A i \in 1..Size : s[i] = s[i - 1] + b[i] * Place(i - 1)
    /\ \A i \in 0..Size : s[i] \in Nat

LEMMA Decodes ==
    ASSUME NEW b \in [1..Size -> Nat]
    PROVE  \E s : Sums(s, b) /\ bytesToBigIntLE(b) = s[Size]
<1> DEFINE step == [p \in (1..Size) \X Nat |-> p[2] + b[p[1]] * Place(p[1] - 1)]
           Is(f) == f = [i \in 0..Len(b) |-> IF i = 0 THEN 0 ELSE f[i - 1] + b[i] * Pow2[ByteBits * (i - 1)]]
           W == CHOOSE f : Is(f)
<1>1. Size \in Nat /\ \A i \in 1..Size : i - 1 \in 0..Size /\ Place(i - 1) \in Nat
  <2>1. Size \in Nat /\ \A i \in 0..Size : Place(i) \in Nat
    BY Places
  <2>2. \A i \in 1..Size : i - 1 \in 0..Size
    BY <2>1
  <2> QED BY <2>1, <2>2
<1>2. Len(b) = Size
  <2>1. b \in Seq(Nat)
    BY <1>1, IsASeq
  <2> QED BY <1>1, <2>1, LenProperties
<1>3. bytesToBigIntLE(b) = W[Size]
  BY <1>2 DEF bytesToBigIntLE
<1>4. step \in [(1..Size) \X Nat -> Nat]
  <2>1. ASSUME NEW p \in (1..Size) \X Nat PROVE p[2] + b[p[1]] * Place(p[1] - 1) \in Nat
    <3>1. p[1] \in 1..Size /\ p[2] \in Nat /\ b[p[1]] \in Nat /\ Place(p[1] - 1) \in Nat
      BY <1>1
    <3> QED BY <3>1, Products
  <2> QED BY <2>1
<1> HIDE DEF step, W
<1>5. PICK f : Iterated(f, Size, Nat, 0, step)
  BY <1>1, <1>4, Iterates
<1>6. f \in [0..Size -> Nat] /\ f[0] = 0 /\ \A i \in 1..Size : f[i] = f[i - 1] + b[i] * Place(i - 1)
  <2>1. f \in [0..Size -> Nat] /\ f[0] = 0 /\ \A i \in 1..Size : f[i] = step[<<i, f[i - 1]>>]
    BY <1>5 DEF Iterated
  <2>2. ASSUME NEW i \in 1..Size PROVE f[i] = f[i - 1] + b[i] * Place(i - 1)
    <3>1. f[i - 1] \in Nat
      BY <1>1, <2>1
    <3> QED BY <2>1, <2>2, <3>1 DEF step
  <2> QED BY <2>1, <2>2
<1>7. Is(f)
  <2>1. \A i \in 0..Size : i # 0 => i \in 1..Size
    BY <1>1
  <2>2. \A i \in 0..Size : f[i] = IF i = 0 THEN 0 ELSE f[i - 1] + b[i] * Pow2[ByteBits * (i - 1)]
    BY <1>6, <2>1 DEF Place
  <2> QED BY <1>2, <1>6, <2>2
<1>8. Is(W)
  <2> HIDE DEF Is
  <2> QED BY <1>7 DEF W
<1>9. W[0] = 0 /\ \A i \in 1..Size : W[i] = W[i - 1] + b[i] * Place(i - 1)
  <2>1. \A i \in 1..Size : i \in 0..Size /\ i # 0
    BY <1>1
  <2>2. 0 \in 0..Size
    BY <1>1
  <2> QED BY <1>2, <1>8, <2>1, <2>2 DEF Place
<1> HIDE DEF Is
<1> DEFINE T == {i \in 0..Size : W[i] \in Nat}
<1>10. \A i \in 0..Size : i \in T
  <2>1. T \in SUBSET Nat /\ 0 \in T
    BY <1>1, <1>9
  <2>2. ASSUME NEW i \in 1..Size, i - 1 \in T PROVE i \in T
    <3>1. b[i] * Place(i - 1) \in Nat /\ W[i - 1] \in Nat /\ i \in 0..Size
      BY <1>1, <2>2, Products
    <3> QED BY <1>9, <3>1
  <2> HIDE DEF T
  <2> QED BY <1>1, <2>1, <2>2, UpTo
<1> QED BY <1>3, <1>9, <1>10 DEF Sums

LEMMA SumsBound ==
    ASSUME NEW b \in [1..Size -> Nat], NEW s, Sums(s, b), NEW n \in 0..Size, \A i \in 1..n : b[i] < Radix
    PROVE  s[n] < Place(n)
<1> DEFINE T == {i \in 0..n : s[i] < Place(i)}
<1>1. Size \in Nat /\ n \in Nat /\ Radix \in Nat /\ \A i \in 0..Size : Place(i) \in Nat /\ s[i] \in Nat
  <2>1. \A i \in 0..Size : s[i] \in Nat
    BY DEF Sums
  <2>2. Size \in Nat /\ Radix \in Nat /\ \A i \in 0..Size : Place(i) \in Nat
    BY Places
  <2>3. n \in Nat
    BY <2>2
  <2> QED BY ONLY <2>1, <2>2, <2>3
<1>2. T \in SUBSET Nat /\ 0 \in T
  <2>1. s[0] = 0 /\ Place(0) = 1 /\ 0 \in 0..n
    BY <1>1, Places DEF Sums
  <2> QED BY <2>1
<1>3. ASSUME NEW i \in 1..n, i - 1 \in T PROVE i \in T
  <2>1. i \in 0..n /\ i \in 1..Size /\ i - 1 \in 0..Size
    BY <1>1
  <2>2. s[i] = s[i - 1] + b[i] * Place(i - 1) /\ Place(i) = Place(i - 1) * Radix /\ s[i - 1] < Place(i - 1)
    BY <1>3, <2>1, Places DEF Sums
  <2> DEFINE p == Place(i - 1)
             c == b[i]
  <2>3. p \in Nat /\ c \in Nat /\ c + 1 <= Radix
    BY <1>1, <2>1
  <2> HIDE DEF p, c
  <2>4. (c + 1) * p <= Radix * p /\ (c + 1) * p = c * p + p /\ Radix * p = p * Radix
    BY <1>1, <2>3, Products
  <2>5. c * p \in Nat /\ p * Radix \in Nat /\ s[i - 1] \in Nat /\ s[i - 1] < p
    BY <1>1, <2>1, <2>2, <2>3, Products DEF p
  <2>6. s[i] = s[i - 1] + c * p /\ Place(i) = p * Radix
    BY <2>2 DEF c, p
  <2>7. s[i] < Place(i)
    <3> DEFINE e == s[i - 1]
               cp == c * p
               rp == p * Radix
    <3>1. e \in Nat /\ e < p /\ cp \in Nat /\ rp \in Nat /\ cp + p <= rp /\ s[i] = e + cp /\ Place(i) = rp
      BY <2>4, <2>5, <2>6
    <3> HIDE DEF e, cp, rp
    <3>2. e + cp < rp
      BY <2>3, <3>1
    <3> QED BY <3>1, <3>2
  <2> QED BY <2>1, <2>7
<1>4. n \in T
  <2>1. n \in 0..n
    BY <1>1
  <2> HIDE DEF T
  <2> QED BY <1>1, <1>2, <1>3, <2>1, UpTo
<1> QED BY <1>4

\* The bytes of a number below the capacity decode to it.
LEMMA RoundTrip ==
    ASSUME NEW v \in Nat, v < Place(Size)
    PROVE  /\ bigIntToBytesLE(v) \in [1..Size -> Nat]
           /\ bytesToBigIntLE(bigIntToBytesLE(v)) = v
<1> DEFINE b == bigIntToBytesLE(v)
<1>0. /\ Radix \in Nat /\ Radix >= 1 /\ Size \in Nat /\ Place(0) = 1
      /\ \A i \in 0..Size : Place(i) \in Nat /\ Place(i) >= 1
      /\ \A i \in 1..Size : Place(i) = Place(i - 1) * Radix
  BY Places
<1>1. b = [i \in 1..Size |-> (v \div Place(i - 1)) % Radix]
  BY DEF bigIntToBytesLE, Place, Radix
<1> HIDE DEF b
<1>2. ASSUME NEW i \in 1..Size
      PROVE  LET q == v \div Place(i - 1) IN
             /\ b[i] = q % Radix /\ q \in Nat /\ b[i] \in Nat /\ q \div Radix \in Nat
             /\ q = ((q \div Radix) * Radix) + b[i]
             /\ v \div Place(i) = q \div Radix
  <2> DEFINE p == Place(i - 1)
             q == v \div p
  <2>1. i - 1 \in 0..Size
    BY <1>0
  <2>2. p \in Nat /\ p >= 1 /\ Place(i) = p * Radix
    BY <1>0, <2>1
  <2>3. b[i] = q % Radix
    BY <1>1
  <2> HIDE DEF p
  <2>4. q \in Nat /\ q \div Radix = v \div (p * Radix)
    <3>1. q \in Nat
      BY <2>2, Division
    <3>2. (v \div p) \div Radix = v \div (p * Radix)
      BY <1>0, <2>2, DivisionTwice
    <3> QED BY <3>1, <3>2
  <2> HIDE DEF q
  <2>5. q % Radix \in 0..Radix - 1 /\ q \div Radix \in Nat /\ q = ((q \div Radix) * Radix) + (q % Radix)
    BY <1>0, <2>4, Division
  <2>6. q % Radix \in Nat
    BY <1>0, <2>5
  <2> QED BY <2>2, <2>3, <2>4, <2>5, <2>6 DEF q, p
<1>3. b \in [1..Size -> Nat]
  <2>1. \A i \in 1..Size : b[i] \in Nat
    BY <1>2
  <2>2. b = [i \in 1..Size |-> b[i]]
    BY <1>1
  <2> QED BY <2>1, <2>2
<1>4. PICK s : Sums(s, b) /\ bytesToBigIntLE(b) = s[Size]
  BY <1>3, Decodes
<1>5. s[0] = 0 /\ (\A i \in 1..Size : s[i] = s[i - 1] + b[i] * Place(i - 1)) /\ \A i \in 0..Size : s[i] \in Nat
  BY <1>4 DEF Sums
<1> DEFINE T == {i \in 0..Size : v = s[i] + Place(i) * (v \div Place(i))}
<1>6. T \in SUBSET Nat /\ 0 \in T
  <2>1. v \div 1 = v /\ 0 \in 0..Size
    BY <1>0
  <2>2. v = 0 + 1 * v
    OBVIOUS
  <2> QED BY <1>0, <1>5, <2>1, <2>2
<1>7. ASSUME NEW i \in 1..Size, i - 1 \in T PROVE i \in T
  <2> DEFINE p == Place(i - 1)
             q == v \div p
             d == q \div Radix
             r == b[i]
             e == s[i - 1]
  <2>1. i - 1 \in 0..Size /\ i \in 0..Size
    BY <1>0
  <2>2. p \in Nat /\ Place(i) = p * Radix /\ q \in Nat /\ r \in Nat /\ d \in Nat /\ q = (d * Radix) + r
        /\ v \div Place(i) = d /\ e \in Nat /\ s[i] = e + r * p /\ v = e + p * q
    <3>1. p \in Nat /\ Place(i) = p * Radix /\ e \in Nat /\ s[i] = e + r * p
      BY <1>0, <1>5, <2>1
    <3>2. v = e + p * q
      BY <1>7
    <3>3. q \in Nat /\ r \in Nat /\ d \in Nat /\ q = (d * Radix) + r /\ v \div Place(i) = d
      BY <1>2
    <3> QED BY <3>1, <3>2, <3>3
  <2> HIDE DEF p, q, d, r, e
  <2>3. p * ((d * Radix) + r) = (p * Radix) * d + r * p
    BY <1>0, <2>2
  <2>4. (p * Radix) * d \in Nat /\ r * p \in Nat
    BY <1>0, <2>2, Products
  <2>5. v = (e + r * p) + (p * Radix) * d
    <3> DEFINE w == (p * Radix) * d
               z == r * p
    <3>1. v = e + (w + z) /\ w \in Nat /\ z \in Nat
      BY <2>2, <2>3, <2>4
    <3> HIDE DEF w, z
    <3>2. v = (e + z) + w
      BY <2>2, <3>1
    <3> QED BY <3>2 DEF w, z
  <2>6. v = s[i] + Place(i) * (v \div Place(i))
    BY <2>2, <2>5
  <2> QED BY <2>1, <2>6
<1>8. Size \in T
  <2>1. Size \in 0..Size
    BY <1>0
  <2> HIDE DEF T
  <2> QED BY <1>0, <1>6, <1>7, <2>1, UpTo
<1>9. Size \in 0..Size
  BY <1>0
<1>10. v \div Place(Size) = 0
  BY <1>0, <1>9, Division
<1>11. v = s[Size]
  <2>1. s[Size] \in Nat /\ Place(Size) \in Nat
    BY <1>0, <1>5, <1>9
  <2>2. v = s[Size] + Place(Size) * 0
    BY <1>8, <1>10
  <2> QED BY <2>1, <2>2
<1> QED BY <1>3, <1>4, <1>11 DEF b

\* The first byte is a multiple of the cofactor, and so is the number.
LEMMA CofactorDivides ==
    ASSUME NEW b \in [1..Size -> Nat], NEW s, Sums(s, b), b[1] % COFACTOR = 0
    PROVE  s[Size] % COFACTOR = 0
<1> DEFINE Multiple(n) == \E m \in Nat : n = m * COFACTOR
<1>0. COFACTOR \in Nat /\ COFACTOR >= 1 /\ Size \in Nat /\ Size >= 2 /\ Radix % COFACTOR = 0
  BY X25519Assumption DEF Radix
<1>1. ASSUME NEW n \in Nat PROVE n % COFACTOR = 0 <=> Multiple(n)
  <2>1. n = ((n \div COFACTOR) * COFACTOR) + (n % COFACTOR) /\ n \div COFACTOR \in Nat
    BY <1>0, Division
  <2> DEFINE d == n \div COFACTOR
  <2>2. n % COFACTOR = 0 => n = d * COFACTOR /\ d \in Nat
    BY <1>0, <2>1
  <2>3. ASSUME NEW m \in Nat, n = m * COFACTOR PROVE n % COFACTOR = 0
    <3>1. m * COFACTOR <= n /\ n < (m * COFACTOR) + COFACTOR
      BY <1>0, <2>3
    <3>2. d = m
      BY <1>0, <3>1, Division
    <3> DEFINE r == n % COFACTOR
    <3>3. r \in Int /\ n = n + r
      BY <1>0, <2>1, <2>3, <3>2
    <3> HIDE DEF r
    <3>4. r = 0
      BY <3>3
    <3> QED BY <3>4 DEF r
  <2> QED BY <2>2, <2>3
<1>2. ASSUME NEW m \in Nat, NEW n \in Nat PROVE /\ Multiple(m) /\ Multiple(n) => Multiple(m + n)
                                                /\ Multiple(m) => Multiple(n * m)
  <2>1. ASSUME NEW c \in Nat, NEW d \in Nat, m = c * COFACTOR, n = d * COFACTOR PROVE Multiple(m + n)
    <3>1. c + d \in Nat /\ m + n = (c + d) * COFACTOR
      BY <1>0, <2>1
    <3> QED BY <3>1
  <2>2. ASSUME NEW c \in Nat, m = c * COFACTOR PROVE Multiple(n * m)
    <3>1. n * c \in Nat /\ n * m = (n * c) * COFACTOR
      BY <1>0, <2>2
    <3> QED BY <3>1
  <2> QED BY <2>1, <2>2
<1>3. Radix \in Nat /\ Multiple(Radix)
  <2>1. Radix \in Nat
    BY Places
  <2> QED BY <1>0, <1>1, <2>1
<1>4. /\ s[0] = 0 /\ \A i \in 1..Size : s[i] = s[i - 1] + b[i] * Place(i - 1)
      /\ \A i \in 0..Size : s[i] \in Nat /\ Place(i) \in Nat
  <2>1. \A i \in 0..Size : Place(i) \in Nat
    BY Places
  <2> QED BY <2>1 DEF Sums
<1> HIDE DEF Multiple
<1>5. ASSUME NEW i \in 2..Size PROVE Multiple(Place(i - 1))
  <2>1. i - 1 \in 1..Size /\ i - 2 \in 0..Size /\ (i - 1) - 1 = i - 2
    BY <1>0
  <2>2. Place(i - 1) = Place(i - 2) * Radix /\ Place(i - 2) \in Nat
    BY <1>4, <2>1, Places
  <2> QED BY <1>2, <1>3, <2>2
<1> DEFINE T == {i \in 0..Size : i = 0 \/ Multiple(s[i])}
<1>6. T \in SUBSET Nat /\ 0 \in T
  BY <1>0
<1>7. ASSUME NEW i \in 1..Size, i - 1 \in T PROVE i \in T
  <2>0. i \in 0..Size /\ b[i] \in Nat
    BY <1>0
  <2>1. i \in 0..Size /\ s[i] = s[i - 1] + b[i] * Place(i - 1) /\ b[i] \in Nat
    BY <1>4, <2>0
  <2>2. CASE i = 1
    <3>1. b[1] \in Nat /\ s[1] = 0 + b[1] * 1
      <4>1. b[1] \in Nat /\ s[1] = s[1 - 1] + b[1] * Place(1 - 1) /\ 1 - 1 = 0
        BY <2>1, <2>2
      <4>2. s[0] = 0 /\ Place(0) = 1
        BY <1>4, Places
      <4> QED BY ONLY <4>1, <4>2
    <3>2. s[1] = b[1]
      BY <3>1
    <3>3. Multiple(b[1])
      BY <1>1, <3>1
    <3> QED BY <2>1, <2>2, <3>2, <3>3
  <2>3. CASE i # 1
    <3>1. i \in 2..Size /\ i - 1 # 0 /\ i - 1 \in 0..Size
      BY <1>0, <2>3
    <3>2. Multiple(Place(i - 1)) /\ Multiple(s[i - 1]) /\ s[i - 1] \in Nat /\ Place(i - 1) \in Nat
      BY <1>4, <1>5, <1>7, <3>1
    <3>3. Multiple(b[i] * Place(i - 1)) /\ b[i] * Place(i - 1) \in Nat
      BY <1>2, <2>1, <3>2, Products
    <3>4. Multiple(s[i])
      BY <1>2, <2>1, <3>2, <3>3
    <3> QED BY <2>1, <3>4
  <2> QED BY <2>2, <2>3
<1>8. Size \in T
  <2>1. Size \in 0..Size
    BY <1>0
  <2> HIDE DEF T
  <2> QED BY <1>0, <1>6, <1>7, <2>1, UpTo
<1>9. Multiple(s[Size]) /\ s[Size] \in Nat
  BY <1>0, <1>4, <1>8
<1> QED BY <1>1, <1>9

\* Clamping sets the top bit and clears those of the cofactor.
LEMMA Clamps ==
    ASSUME NEW b \in Operand
    PROVE  LET n == clampScalarBytes(b) IN
           n \in Nat /\ n < Many /\ n % COFACTOR = 0 /\ Bit(n, BITS - 1) = 1
<1> DEFINE H == Pow2[ByteBits - 2]
           low == b[Size] % TopBit
           first == b[1] - (b[1] % COFACTOR)
           last == IF low < TopBit \div 2 THEN low + TopBit \div 2 ELSE low
           c == [[b EXCEPT ![1] = first] EXCEPT ![Size] = last]
<1>0. /\ Radix \in Nat /\ Radix >= 1 /\ ByteBits \in Nat /\ ByteBits >= 2 /\ Size \in Nat /\ Size >= 2
      /\ BITS \in Nat /\ BITS >= 3 /\ COFACTOR \in Nat /\ COFACTOR >= 1 /\ ByteBits <= BITS + 1
      /\ BITS + 1 = ByteBits * Size
  <2>1. COFACTOR \in Nat /\ COFACTOR >= 1
    BY X25519Assumption
  <2>2. ByteBits * 1 <= ByteBits * Size
    BY Places, Products
  <2> QED BY <2>1, <2>2, Places, BitsType
<1>1. H \in Nat /\ H >= 1 /\ TopBit = 2 * H /\ Radix = 4 * H /\ TopBit \div 2 = H
  <2>1. ByteBits - 2 \in 0..BITS + 1 /\ ByteBits - 1 \in 1..BITS + 1 /\ (ByteBits - 1) - 1 = ByteBits - 2 /\ ByteBits \in 1..BITS + 1
    BY <1>0
  <2>2. H \in Nat /\ H >= 1 /\ TopBit = 2 * H /\ Radix = 2 * TopBit
    BY <2>1, PowFacts DEF TopBit, Radix
  <2> HIDE DEF H
  <2> QED BY <2>2
<1> HIDE DEF H
<1>2. b \in [1..Size -> Nat] /\ \A i \in 1..Size : b[i] < Radix
  <2>1. b \in [1..Size -> 0..Radix - 1]
    BY DEF Operand, ByteValue, Radix
  <2>2. \A i \in 1..Size : b[i] \in 0..Radix - 1
    BY <2>1
  <2> QED BY <1>0, <2>1, <2>2
<1>3. 1 \in 1..Size /\ Size \in 1..Size /\ 1 # Size
  BY <1>0
<1>4. first \in Nat /\ first % COFACTOR = 0 /\ first < Radix
  <2> DEFINE n == b[1]
  <2>1. n \in Nat /\ n < Radix
    BY <1>2, <1>3
  <2> HIDE DEF n
  <2> DEFINE d == n \div COFACTOR
  <2>2. d \in Nat /\ n = (d * COFACTOR) + (n % COFACTOR) /\ n % COFACTOR \in 0..COFACTOR - 1
    BY <1>0, <2>1, Division
  <2> HIDE DEF d
  <2>3. n - (n % COFACTOR) = d * COFACTOR /\ d * COFACTOR \in Nat /\ d * COFACTOR <= n
    BY <1>0, <2>1, <2>2
  <2> DEFINE e == d * COFACTOR
  <2>4. e \in Nat /\ d * COFACTOR <= e /\ e < (d * COFACTOR) + COFACTOR
    BY <1>0, <2>3
  <2> HIDE DEF e
  <2>5. e \div COFACTOR = d /\ e = ((e \div COFACTOR) * COFACTOR) + (e % COFACTOR) /\ e % COFACTOR \in 0..COFACTOR - 1
    BY <1>0, <2>2, <2>4, Division
  <2>6. e % COFACTOR = 0
    <3> DEFINE m == e % COFACTOR
    <3>1. m \in Nat /\ e = e + m
      BY <1>0, <2>5 DEF e
    <3> HIDE DEF m
    <3>2. m = 0
      BY <2>4, <3>1
    <3> QED BY <3>2 DEF m
  <2>7. e < Radix
    BY <1>0, <2>1, <2>3, <2>4 DEF e
  <2> QED BY <2>3, <2>4, <2>6, <2>7 DEF e, n
<1>5. low \in Nat /\ low < TopBit
  <2>1. b[Size] \in Nat
    BY <1>2, <1>3
  <2> QED BY <1>1, <2>1
<1>6. last \in Nat /\ H <= last /\ last < 2 * H
  <2> HIDE DEF low
  <2> QED BY <1>1, <1>5
<1> HIDE DEF first, low, last
<1>7. c \in [1..Size -> Nat] /\ c[1] = first /\ c[Size] = last /\ \A i \in 1..Size : c[i] < Radix
  <2>1. c \in [1..Size -> Nat]
    BY <1>2, <1>4, <1>6
  <2>2. c[1] = first /\ c[Size] = last /\ \A i \in 1..Size : i # 1 /\ i # Size => c[i] = b[i]
    BY <1>2, <1>3
  <2>3. last < Radix
    BY <1>1, <1>6
  <2> HIDE DEF c
  <2> QED BY <1>2, <1>4, <2>1, <2>2, <2>3
<1>8. clampScalarBytes(b) = bytesToBigIntLE(c)
  <2>1. b[1] = b[1] /\ Size # 1
    BY <1>3
  <2>2. [b EXCEPT ![1] = first][Size] = b[Size]
    BY <1>2, <1>3
  <2> QED BY <2>2 DEF clampScalarBytes, first, last, low
<1> HIDE DEF c
<1>9. PICK s : Sums(s, c) /\ bytesToBigIntLE(c) = s[Size]
  BY <1>7, Decodes
<1> DEFINE n == s[Size]
           l == Place(Size - 1)
           e == s[Size - 1]
<1>10. n % COFACTOR = 0
  BY <1>4, <1>7, <1>9, CofactorDivides
<1>11. Size - 1 \in 0..Size /\ Size \in 0..Size /\ \A i \in 1..Size - 1 : i \in 1..Size
  BY <1>0
<1>12. e < l
  BY <1>7, <1>9, <1>11, SumsBound
<1>13. n \in Nat /\ e \in Nat /\ n = e + last * l /\ l \in Nat
  BY <1>3, <1>7, <1>9, <1>11, Places DEF Sums
<1>14. Many = (2 * H) * l /\ Pow2[BITS - 1] = H * l
  <2>1. 2 * Many = l * (4 * H) /\ Many \in Nat
    BY <1>1, <1>3, <1>13, Places, PowFacts
  <2>2. Many = 2 * Pow2[BITS - 1] /\ Pow2[BITS - 1] \in Nat
    <3>1. BITS \in 1..BITS + 1 /\ BITS - 1 \in 0..BITS + 1
      BY <1>0
    <3> QED BY <3>1, PowFacts DEF Many
  <2> HIDE DEF l
  <2>3. l * (4 * H) = 2 * ((2 * H) * l) /\ (2 * H) * l = 2 * (H * l) /\ (2 * H) * l \in Nat /\ H * l \in Nat
    BY <1>1, <1>13
  <2> QED BY <2>1, <2>2, <2>3
<1> HIDE DEF n, l, e
<1>15. H * l <= last * l /\ (last + 1) * l <= (2 * H) * l /\ (last + 1) * l = last * l + l /\ last * l \in Nat
       /\ (2 * H) * l = H * l + H * l /\ H * l \in Nat /\ H * l >= 1
  <2>1. H * l <= last * l
    BY <1>1, <1>6, <1>13, Products
  <2>2. last + 1 \in Nat /\ 2 * H \in Nat /\ last + 1 <= 2 * H
    BY <1>1, <1>6
  <2>3. (last + 1) * l <= (2 * H) * l
    BY <1>13, <2>2, Products
  <2>4. (last + 1) * l = last * l + l /\ (2 * H) * l = H * l + H * l
    BY <1>1, <1>6, <1>13
  <2>5. last * l \in Nat /\ H * l \in Nat
    BY <1>1, <1>6, <1>13, Products
  <2>6. 1 * l <= H * l /\ 1 * l = l
    BY <1>1, <1>13, Products
  <2>7. l >= 1
    BY <1>12, <1>13
  <2> QED BY <1>13, <2>1, <2>3, <2>4, <2>5, <2>6, <2>7
<1> DEFINE a == H * l
           g == last * l
<1>16. a \in Nat /\ a >= 1 /\ a <= n /\ n < a + a /\ Pow2[BITS - 1] = a /\ Many = a + a
  <2>1. a \in Nat /\ a >= 1 /\ g \in Nat /\ a <= g /\ g + l <= a + a
    BY <1>13, <1>15
  <2>2. n = e + g /\ Pow2[BITS - 1] = a /\ Many = a + a
    BY <1>13, <1>14, <1>15
  <2> HIDE DEF a, g
  <2> QED BY <1>12, <1>13, <2>1, <2>2
<1> HIDE DEF a
<1>17. n \div a = 1
  <2>1. 1 * a = a
    BY <1>16
  <2> QED BY <1>13, <1>16, <2>1, Division
<1>18. Bit(n, BITS - 1) = 1 /\ n < Many
  BY <1>13, <1>16, <1>17 DEF Bit
<1> QED BY <1>8, <1>9, <1>10, <1>13, <1>18 DEF n

LEMMA DecodesPoint == ASSUME NEW b \in Operand PROVE decodeUCoordinateBytes(b) \in Nat
<1> DEFINE c == [b EXCEPT ![Size] = @ % TopBit]
<1>1. b \in [1..Size -> Nat]
  <2>1. b \in [1..Size -> 0..Radix - 1] /\ Radix \in Nat
    BY Places DEF Operand, ByteValue, Radix
  <2> QED BY <2>1
<1>2. TopBit \in Nat /\ TopBit >= 1
  <2>1. ByteBits \in Nat /\ ByteBits >= 2 /\ ByteBits - 1 \in 0..BITS + 1
    <3>1. ByteBits * 1 <= ByteBits * Size /\ ByteBits \in Nat /\ ByteBits >= 2
      BY Places, Products
    <3> QED BY <3>1, BitsType
  <2> QED BY <2>1, PowFacts DEF TopBit
<1>3. c \in [1..Size -> Nat]
  <2>1. \A x \in Nat : x % TopBit \in Nat
    BY <1>2
  <2> QED BY <1>1, <2>1
<1> HIDE DEF c
<1>4. PICK s : Sums(s, c) /\ bytesToBigIntLE(c) = s[Size]
  BY <1>3, Decodes
<1>5. Size \in 0..Size
  BY Places
<1> QED BY <1>4, <1>5 DEF Sums, decodeUCoordinateBytes, c

-----------------------------------------------------------------------------
\* X25519: the ladder

\* HoldsMultiples over pairs that are not reduced
Ratios(n, p, i, a, c, b, d, w) ==
    p % P # 0 =>
        /\ Ratio(IF w = 1 THEN b ELSE a, IF w = 1 THEN d ELSE c, AllMultiples[p % P][n \div Pow2[i + 1]])
        /\ Ratio(IF w = 1 THEN a ELSE b, IF w = 1 THEN c ELSE d, AllMultiples[p % P][(n \div Pow2[i + 1]) + 1])

Standing(n, p, i, a, c, b, d, w) ==
    p % P # 0 =>
        /\ StandsFor(IF w = 1 THEN b % P ELSE a % P, IF w = 1 THEN d ELSE c, AllMultiples[p % P][n \div Pow2[i + 1]])
        /\ StandsFor(IF w = 1 THEN a % P ELSE b % P, IF w = 1 THEN c ELSE d, AllMultiples[p % P][(n \div Pow2[i + 1]) + 1])

\* The multiples that a round is about
LEMMA MultiplesInRange ==
    ASSUME NEW n \in Nat, n < Many, NEW i \in -1..BITS - 1, NEW x \in Field
    PROVE  LET m == n \div Pow2[i + 1] IN
           /\ m \in Nat /\ m <= n /\ m \in 0..Many /\ m + 1 \in 0..Many
           /\ \A j \in 0..Many : AllMultiples[x][j] # O => AllMultiples[x][j][1] \in Field
<1> DEFINE a == Pow2[i + 1]
           m == n \div a
<1>1. a \in Nat /\ a >= 1
  <2>1. i + 1 \in 0..BITS + 1
    BY BitsType
  <2> QED BY <2>1, PowFacts
<1> HIDE DEF a
<1>2. m \in Nat /\ m <= n
  BY <1>1, Division
<1> HIDE DEF m
<1>3. m \in 0..Many /\ m + 1 \in 0..Many
  BY <1>2, PowFacts
<1>4. ASSUME NEW j \in 0..Many, AllMultiples[x][j] # O PROVE AllMultiples[x][j][1] \in Field
  <2>1. PICK B, Q : Multiplied(B, Q, x, AllMultiples[x])
    BY MultiplesExist
  <2>2. B \in Curves /\ AllMultiples[x][j] \in Points(B)
    BY <2>1 DEF Multiplied
  <2> QED BY <1>4, <2>2, Affine
<1> QED BY <1>2, <1>3, <1>4 DEF m, a

LEMMA StandingIsRatios ==
    ASSUME NEW n \in Nat, n < Many, NEW p \in Nat, NEW i \in -1..BITS - 1,
           NEW a \in Int, NEW b \in Int, NEW c \in Field, NEW d \in Field, NEW w \in {0, 1}
    PROVE  Standing(n, p, i, a, c, b, d, w) <=> Ratios(n, p, i, a, c, b, d, w)
<1> DEFINE x == p % P
           m == n \div Pow2[i + 1]
           W == AllMultiples[x]
           v1 == W[m]
           v2 == W[m + 1]
<1>1. x \in Field
  BY ModP
<1> HIDE DEF x
<1>2. (v1 # O => v1[1] \in Field) /\ (v2 # O => v2[1] \in Field)
  BY <1>1, MultiplesInRange
<1> HIDE DEF v1, v2
<1>3. (StandsFor(a % P, c, v1) <=> Ratio(a, c, v1)) /\ (StandsFor(b % P, d, v2) <=> Ratio(b, d, v2))
  BY <1>2, StandsForRatio
<1>4. (StandsFor(b % P, d, v1) <=> Ratio(b, d, v1)) /\ (StandsFor(a % P, c, v2) <=> Ratio(a, c, v2))
  BY <1>2, StandsForRatio
<1>5. CASE w = 0
  <2>1. Standing(n, p, i, a, c, b, d, w) <=> (x # 0 => StandsFor(a % P, c, v1) /\ StandsFor(b % P, d, v2))
    BY <1>5 DEF Standing, x, v1, v2
  <2>2. Ratios(n, p, i, a, c, b, d, w) <=> (x # 0 => Ratio(a, c, v1) /\ Ratio(b, d, v2))
    BY <1>5 DEF Ratios, x, v1, v2
  <2> QED BY <1>3, <2>1, <2>2
<1>6. CASE w = 1
  <2>1. Standing(n, p, i, a, c, b, d, w) <=> (x # 0 => StandsFor(b % P, d, v1) /\ StandsFor(a % P, c, v2))
    BY <1>6 DEF Standing, x, v1, v2
  <2>2. Ratios(n, p, i, a, c, b, d, w) <=> (x # 0 => Ratio(b, d, v1) /\ Ratio(a, c, v2))
    BY <1>6 DEF Ratios, x, v1, v2
  <2> QED BY <1>4, <2>1, <2>2
<1> QED BY <1>5, <1>6

\* A round on the pairs of m and m + 1 multiples, the one of the bit first
LEMMA PairsOfNext ==
    ASSUME NEW n \in Nat, n < Many, NEW p \in Nat, p % P # 0, NEW i \in 0..BITS - 1,
           NEW W, W = AllMultiples[p % P], NEW m, m = n \div Pow2[i + 1], NEW l, l = n \div Pow2[i],
           NEW a \in Int, NEW c \in Int, NEW b \in Int, NEW d \in Int,
           Ratio(a, c, W[m]), Ratio(b, d, W[m + 1])
    PROVE  /\ Bit(n, i) = 0 => /\ Ratio(DoubleX(a, c), DoubleZ(a, c), W[l])
                               /\ Ratio(AddX(a, c, b, d), AddZ(p, a, c, b, d), W[l + 1])
           /\ Bit(n, i) = 1 => /\ Ratio(DoubleX(b, d), DoubleZ(b, d), W[l + 1])
                               /\ Ratio(AddX(b, d, a, c), AddZ(p, b, d, a, c), W[l])
<1> DEFINE x == p % P
<1>1. x \in Field /\ x \in Int /\ x # 0 /\ Zero(p - x) /\ ~Zero(x)
  BY ModP, FieldFacts, ZeroIsRemainder
<1> HIDE DEF x
<1>2. PICK B, Q : Multiplied(B, Q, x, W)
  BY <1>1, MultiplesExist DEF x
<1>3. /\ B \in Curves /\ Q \in Points(B) /\ Q # O /\ Q[1] = x
      /\ (\A j \in 1..Many : W[j] = Plus(B, W[j - 1], Q)) /\ \A j \in 0..Many : W[j] \in Points(B)
  BY <1>2 DEF Multiplied
<1>4. m \in Nat /\ m \in 0..Many /\ m + 1 \in 1..Many /\ m + 1 \in 0..Many /\ (m + 1) - 1 = m
  <2>1. i \in -1..BITS - 1
    BY BitsType
  <2>2. m \in Nat /\ m <= n
    BY <1>1, <2>1, MultiplesInRange
  <2> QED BY <2>2, PowFacts
<1>5. l = 2 * m + Bit(n, i) /\ l \in Nat /\ l + 1 <= Many
  <2>1. i \in 0..BITS
    BY BitsType
  <2>2. l = 2 * m + Bit(n, i) /\ l \in Nat /\ l <= n
    BY <2>1, NextBit
  <2> QED BY <2>2, PowFacts
<1>6. W[m + 1] = Plus(B, W[m], Q) /\ W[m] \in Points(B) /\ W[m + 1] \in Points(B)
  BY <1>3, <1>4
<1>7. W[m + (m + 1)] = Plus(B, W[m], W[m + 1])
  <2>1. m + (m + 1) <= Many \/ Bit(n, i) \notin {0, 1}
    BY <1>4, <1>5, PowFacts
  <2>2. Bit(n, i) \in {0, 1}
    <3>1. i \in 0..BITS
      BY BitsType
    <3> QED BY <3>1, NextBit
  <2> QED BY <1>2, <1>4, <2>1, <2>2, MultiplesAdd
<1> DEFINE g == a * b - c * d
           h == b * c - d * a
<1>8. g \in Int /\ h \in Int /\ p \in Int /\ Zero(p - Q[1]) /\ ~Zero(Q[1])
  BY <1>1, <1>3
<1>9. ASSUME NEW X \in Int, NEW Z \in Int, AreSquares(X, Z, g, h, p)
      PROVE  Ratio(X, Z, W[m + (m + 1)])
  <2>1. Zero(X - 4 * (g * g)) /\ Zero(Z - 4 * (p * (h * h)))
    BY <1>9 DEF AreSquares
  <2>2. Ratio(X, Z, Plus(B, W[m], W[m + 1]))
    BY <1>3, <1>6, <1>8, <2>1, AddedPair
  <2> QED BY <1>7, <2>2
<1>10. CASE Bit(n, i) = 0
  <2>1. l = m + m /\ l + 1 = m + (m + 1) /\ m + m <= Many
    BY <1>4, <1>5, <1>10, PowFacts
  <2>2. W[l] = Plus(B, W[m], W[m])
    BY <1>2, <1>4, <2>1, MultiplesAdd
  <2>3. Ratio(DoubleX(a, c), DoubleZ(a, c), W[l])
    <3> DEFINE X == DoubleX(a, c)
               Z == DoubleZ(a, c)
    <3>1. /\ X \in Int /\ Z \in Int /\ Zero(X - (a * a - c * c) * (a * a - c * c))
          /\ Zero(Z - 4 * (a * c) * (a * a + CurveA * (a * c) + c * c))
      BY CodeDoubles
    <3> HIDE DEF X, Z
    <3>2. Ratio(X, Z, Plus(B, W[m], W[m]))
      BY <1>3, <1>6, <3>1, DoubledPair
    <3> QED BY <2>2, <3>2 DEF X, Z
  <2>4. Ratio(AddX(a, c, b, d), AddZ(p, a, c, b, d), W[l + 1])
    <3> DEFINE X == AddX(a, c, b, d)
               Z == AddZ(p, a, c, b, d)
    <3>1. X \in Int /\ Z \in Int /\ AreSquares(X, Z, g, h, p)
      BY <1>8, CodeAdds
    <3> HIDE DEF X, Z, g, h
    <3>2. Ratio(X, Z, W[m + (m + 1)])
      BY <1>9, <3>1
    <3> QED BY <2>1, <3>2 DEF X, Z
  <2> QED BY <1>10, <2>3, <2>4
<1>11. CASE Bit(n, i) = 1
  <2>1. l = m + (m + 1) /\ l + 1 = (m + 1) + (m + 1) /\ (m + 1) + (m + 1) <= Many
    BY <1>4, <1>5, <1>11, PowFacts
  <2>2. W[l + 1] = Plus(B, W[m + 1], W[m + 1])
    BY <1>2, <1>4, <2>1, MultiplesAdd
  <2>3. Ratio(DoubleX(b, d), DoubleZ(b, d), W[l + 1])
    <3> DEFINE X == DoubleX(b, d)
               Z == DoubleZ(b, d)
    <3>1. /\ X \in Int /\ Z \in Int /\ Zero(X - (b * b - d * d) * (b * b - d * d))
          /\ Zero(Z - 4 * (b * d) * (b * b + CurveA * (b * d) + d * d))
      BY CodeDoubles
    <3> HIDE DEF X, Z
    <3>2. Ratio(X, Z, Plus(B, W[m + 1], W[m + 1]))
      BY <1>3, <1>6, <3>1, DoubledPair
    <3> QED BY <2>2, <3>2 DEF X, Z
  <2>4. Ratio(AddX(b, d, a, c), AddZ(p, b, d, a, c), W[l])
    <3> DEFINE X == AddX(b, d, a, c)
               Z == AddZ(p, b, d, a, c)
    <3>1. X \in Int /\ Z \in Int /\ AreSquares(X, Z, b * a - d * c, a * d - c * b, p)
      BY <1>8, CodeAdds
    <3>2. b * a - d * c = g /\ (a * d - c * b) * (a * d - c * b) = h * h
      OBVIOUS
    <3>3. AreSquares(X, Z, g, h, p)
      <4> HIDE DEF X, Z, g, h
      <4> QED BY <3>1, <3>2 DEF AreSquares
    <3> HIDE DEF X, Z, g, h
    <3>4. Ratio(X, Z, W[m + (m + 1)])
      BY <1>9, <3>1, <3>3
    <3> QED BY <2>1, <3>4 DEF X, Z
  <2> QED BY <1>11, <2>3, <2>4
<1> QED BY <1>10, <1>11

\* One round, whichever way round the pairs are
LEMMA RoundKeepsRatios ==
    ASSUME NEW n \in Nat, n < Many, NEW p \in Nat, NEW i \in 0..BITS - 1,
           NEW a \in Int, NEW c \in Int, NEW b \in Int, NEW d \in Int, NEW w \in {0, 1},
           Ratios(n, p, i, a, c, b, d, w),
           NEW f, f = (w + Bit(n, i)) % 2,
           NEW a2, a2 = IF f = 1 THEN b ELSE a, NEW c2, c2 = IF f = 1 THEN d ELSE c,
           NEW a3, a3 = IF f = 1 THEN a ELSE b, NEW c3, c3 = IF f = 1 THEN c ELSE d
    PROVE  Ratios(n, p, i - 1, DoubleX(a2, c2), DoubleZ(a2, c2), AddX(a2, c2, a3, c3), AddZ(p, a2, c2, a3, c3), Bit(n, i))
<1> SUFFICES ASSUME p % P # 0
             PROVE  Ratios(n, p, i - 1, DoubleX(a2, c2), DoubleZ(a2, c2), AddX(a2, c2, a3, c3), AddZ(p, a2, c2, a3, c3), Bit(n, i))
  BY DEF Ratios
<1> DEFINE W == AllMultiples[p % P]
           m == n \div Pow2[i + 1]
           l == n \div Pow2[i]
           q == Bit(n, i)
           X == DoubleX(a2, c2)
           Z == DoubleZ(a2, c2)
           Y == AddX(a2, c2, a3, c3)
           V == AddZ(p, a2, c2, a3, c3)
<1>1. q \in {0, 1} /\ (i - 1) + 1 = i
  BY BitsType, NextBit
<1>2. Ratios(n, p, i - 1, X, Z, Y, V, q)
        <=> Ratio(IF q = 1 THEN Y ELSE X, IF q = 1 THEN V ELSE Z, W[l]) /\ Ratio(IF q = 1 THEN X ELSE Y, IF q = 1 THEN Z ELSE V, W[l + 1])
  <2> HIDE DEF X, Y, Z, V, q
  <2> QED BY <1>1 DEF Ratios
<1>3. Ratio(IF w = 1 THEN b ELSE a, IF w = 1 THEN d ELSE c, W[m]) /\ Ratio(IF w = 1 THEN a ELSE b, IF w = 1 THEN c ELSE d, W[m + 1])
  BY DEF Ratios
<1>4. ASSUME NEW a0 \in Int, NEW c0 \in Int, NEW b0 \in Int, NEW d0 \in Int, Ratio(a0, c0, W[m]), Ratio(b0, d0, W[m + 1])
      PROVE  /\ q = 0 => /\ Ratio(DoubleX(a0, c0), DoubleZ(a0, c0), W[l])
                         /\ Ratio(AddX(a0, c0, b0, d0), AddZ(p, a0, c0, b0, d0), W[l + 1])
             /\ q = 1 => /\ Ratio(DoubleX(b0, d0), DoubleZ(b0, d0), W[l + 1])
                         /\ Ratio(AddX(b0, d0, a0, c0), AddZ(p, b0, d0, a0, c0), W[l])
  BY <1>4, PairsOfNext
<1> HIDE DEF W, m, l, q
<1>5. CASE w = 0 /\ q = 0
  <2>1. a2 = a /\ c2 = c /\ a3 = b /\ c3 = d
    BY <1>5 DEF q
  <2>2. Ratio(a, c, W[m]) /\ Ratio(b, d, W[m + 1])
    BY <1>3, <1>5
  <2>3. Ratio(X, Z, W[l]) /\ Ratio(Y, V, W[l + 1])
    BY <1>4, <1>5, <2>1, <2>2
  <2> HIDE DEF X, Y, Z, V
  <2>4. Ratios(n, p, i - 1, X, Z, Y, V, q)
    BY <1>2, <1>5, <2>3
  <2> QED BY <2>4 DEF X, Y, Z, V, q
<1>6. CASE w = 1 /\ q = 0
  <2>1. a2 = b /\ c2 = d /\ a3 = a /\ c3 = c
    BY <1>6 DEF q
  <2>2. Ratio(b, d, W[m]) /\ Ratio(a, c, W[m + 1])
    BY <1>3, <1>6
  <2>3. Ratio(X, Z, W[l]) /\ Ratio(Y, V, W[l + 1])
    BY <1>4, <1>6, <2>1, <2>2
  <2> HIDE DEF X, Y, Z, V
  <2>4. Ratios(n, p, i - 1, X, Z, Y, V, q)
    BY <1>2, <1>6, <2>3
  <2> QED BY <2>4 DEF X, Y, Z, V, q
<1>7. CASE w = 0 /\ q = 1
  <2>1. a2 = b /\ c2 = d /\ a3 = a /\ c3 = c
    BY <1>7 DEF q
  <2>2. Ratio(a, c, W[m]) /\ Ratio(b, d, W[m + 1])
    BY <1>3, <1>7
  <2>3. Ratio(X, Z, W[l + 1]) /\ Ratio(Y, V, W[l])
    BY <1>4, <1>7, <2>1, <2>2
  <2> HIDE DEF X, Y, Z, V
  <2>4. Ratios(n, p, i - 1, X, Z, Y, V, q)
    BY <1>2, <1>7, <2>3
  <2> QED BY <2>4 DEF X, Y, Z, V, q
<1>8. CASE w = 1 /\ q = 1
  <2>1. a2 = a /\ c2 = c /\ a3 = b /\ c3 = d
    BY <1>8 DEF q
  <2>2. Ratio(b, d, W[m]) /\ Ratio(a, c, W[m + 1])
    BY <1>3, <1>8
  <2>3. Ratio(X, Z, W[l + 1]) /\ Ratio(Y, V, W[l])
    BY <1>4, <1>8, <2>1, <2>2
  <2> HIDE DEF X, Y, Z, V
  <2>4. Ratios(n, p, i - 1, X, Z, Y, V, q)
    BY <1>2, <1>8, <2>3
  <2> QED BY <2>4 DEF X, Y, Z, V, q
<1> QED BY <1>1, <1>5, <1>6, <1>7, <1>8

\* The state of the ladder between its steps. With a coordinate that is zero in the field both
\* denominators are zero from the first round on.
LadderInv ==
    /\ k \in Nat /\ k < Many /\ u \in Nat /\ t \in -1..BITS - 1
    /\ x2 \in Nat /\ x3 \in Nat /\ z2 \in Field /\ z3 \in Field /\ swap \in {0, 1}
    /\ t >= 0 => result = <<>>
    /\ result = <<>> => k % COFACTOR = 0 /\ Bit(k, BITS - 1) = 1
    /\ u % P = 0 /\ result = <<>> =>
           (t = BITS - 1 /\ swap = 0 /\ x2 = 1 /\ z2 = 0 /\ x3 = u /\ z3 = 1) \/ (t < BITS - 1 /\ z2 = 0 /\ z3 = 0)
    /\ Ratios(k, u, t, x2, z2, x3, z3, swap)
    /\ t = -1 /\ result # <<>> =>
           LET p == AllMultiples[u % P][k] IN bytesToBigIntLE(result) = IF p = O THEN 0 ELSE p[1]

LEMMA InvMultiplies == LadderInv => LadderMultiplies
<1> SUFFICES ASSUME LadderInv PROVE LadderMultiplies
  OBVIOUS
<1>1. /\ k \in Nat /\ k < Many /\ u \in Nat /\ t \in -1..BITS - 1
      /\ x2 \in Int /\ x3 \in Int /\ z2 \in Field /\ z3 \in Field /\ swap \in {0, 1}
      /\ Ratios(k, u, t, x2, z2, x3, z3, swap)
  BY DEF LadderInv
<1>2. Standing(k, u, t, x2, z2, x3, z3, swap)
  BY <1>1, StandingIsRatios
<1>3. HoldsMultiples
  BY <1>2 DEF Standing, HoldsMultiples
<1> QED BY <1>3 DEF LadderInv, LadderMultiplies, Many

LEMMA ZeroBytes == bytesToBigIntLE(bigIntToBytesLE(0)) = 0 /\ bigIntToBytesLE(0) # <<>>
<1>1. 0 \in Nat /\ 0 < Place(Size) /\ Size \in Nat /\ Size >= 2
  BY Places, PowFacts
<1>2. bigIntToBytesLE(0) \in [1..Size -> Nat] /\ bytesToBigIntLE(bigIntToBytesLE(0)) = 0
  BY <1>1, RoundTrip
<1> QED BY <1>1, <1>2

LEMMA BytesOf ==
    ASSUME NEW v \in Field
    PROVE  bytesToBigIntLE(bigIntToBytesLE(v)) = v /\ bigIntToBytesLE(v) # <<>>
<1>1. v \in Nat /\ v < Place(Size) /\ Size \in Nat /\ Size >= 2
  <2>1. P <= Many /\ Place(Size) = 2 * Many /\ Many \in Nat /\ Size \in Nat /\ Size >= 2
    BY Places, PowFacts, X25519Assumption DEF Many
  <2> QED BY <2>1, FieldFacts
<1>2. bigIntToBytesLE(v) \in [1..Size -> Nat] /\ bytesToBigIntLE(bigIntToBytesLE(v)) = v
  BY <1>1, RoundTrip
<1> QED BY <1>1, <1>2

\* What is returned for a coordinate that is zero in the field
LEMMA ZeroHasZeroMultiples ==
    ASSUME NEW n \in 0..Many
    PROVE  AllMultiples[0][n] = O \/ AllMultiples[0][n][1] = 0
<1>1. PICK B, Q : Multiplied(B, Q, 0, AllMultiples[0])
  BY MultiplesExist, FieldFacts
<1> QED BY <1>1, MultiplesOfTwoTorsion

LEMMA FirstMultiples ==
    ASSUME NEW x \in Field
    PROVE  AllMultiples[x][0] = O /\ AllMultiples[x][1] # O /\ AllMultiples[x][1][1] = x
<1>1. PICK B, Q : Multiplied(B, Q, x, AllMultiples[x])
  BY MultiplesExist
<1> DEFINE W == AllMultiples[x]
<1>2. 1 \in 1..Many /\ 1 - 1 = 0
  BY PowFacts
<1>3. W[0] = O /\ W[1] = Plus(B, W[1 - 1], Q) /\ B \in Curves /\ Q \in Points(B) /\ Q # O /\ Q[1] = x
  BY <1>1, <1>2 DEF Multiplied
<1>4. W[1] = Q
  BY <1>2, <1>3, PlusInfinity
<1> QED BY <1>3, <1>4

LEMMA LadderInitInv == LadderInit => LadderInv
<1> SUFFICES ASSUME LadderInit PROVE LadderInv
  OBVIOUS
<1>1. /\ k = 0 /\ u = 0 /\ t = -1 /\ x2 = 1 /\ z2 = 0 /\ x3 = 0 /\ z3 = 1 /\ swap = 0
      /\ result = bigIntToBytesLE(0)
  BY DEF LadderInit
<1>2. 0 % P = 0
  BY FieldFacts
<1>3. Ratios(k, u, t, x2, z2, x3, z3, swap)
  BY <1>1, <1>2 DEF Ratios
<1>4. result # <<>> /\ bytesToBigIntLE(result) = 0
  BY <1>1, ZeroBytes
<1>5. LET p == AllMultiples[u % P][k] IN bytesToBigIntLE(result) = IF p = O THEN 0 ELSE p[1]
  <2>1. AllMultiples[0][0] = O
    BY FirstMultiples, FieldFacts
  <2> QED BY <1>1, <1>2, <1>4, <2>1
<1>6. Many \in Nat /\ Many >= 1 /\ BITS \in Nat /\ BITS >= 3
  BY PowFacts, BitsType
<1> QED BY <1>1, <1>3, <1>4, <1>5, <1>6, FieldFacts DEF LadderInv

\* The start of a multiplication
LEMMA StartInv ==
    ASSUME NEW n \in Nat, n < Many, n % COFACTOR = 0, Bit(n, BITS - 1) = 1, NEW p \in Nat, Start(n, p)
    PROVE  LadderInv'
<1>1. k' = n /\ u' = p /\ t' = BITS - 1 /\ x2' = 1 /\ z2' = 0 /\ x3' = p /\ z3' = 1 /\ swap' = 0 /\ result' = <<>>
  BY DEF Start
<1>2. BITS \in Nat /\ BITS >= 3 /\ Many \in Nat /\ Many >= 1 /\ 0 \in Field /\ 1 \in Field
  BY PowFacts, BitsType, FieldFacts
<1>3. Ratios(n, p, BITS - 1, 1, 0, p, 1, 0)
  <2> DEFINE x == p % P
  <2>1. x \in Field /\ x \in Int /\ Zero(p - x)
    BY ModP, FieldFacts, ZeroIsRemainder
  <2>2. n \div Pow2[(BITS - 1) + 1] = 0
    <3> HIDE DEF x
    <3>1. n \div Many = 0 /\ (BITS - 1) + 1 = BITS
      <4>1. n \div Many = 0
        BY ONLY <1>2, n \in Nat, n < Many, Division
      <4> QED BY <1>2, <4>1
    <3> QED BY <3>1 DEF Many
  <2>3. AllMultiples[x][0] = O /\ AllMultiples[x][1] # O /\ AllMultiples[x][1][1] = x
    BY <2>1, FirstMultiples
  <2> HIDE DEF x
  <2>4. Ratio(1, 0, AllMultiples[x][0])
    BY <2>3, CurveFacts, ZeroFacts DEF Ratio
  <2>5. Ratio(p, 1, AllMultiples[x][1])
    <3>1. x * 1 = x
      BY <2>1
    <3> QED BY <2>1, <2>3, <3>1, CurveFacts DEF Ratio
  <2>6. Ratio(1, 0, AllMultiples[x][0]) /\ Ratio(p, 1, AllMultiples[x][0 + 1])
    BY <2>4, <2>5
  <2> QED BY <2>2, <2>6 DEF Ratios, x
<1> QED BY <1>1, <1>2, <1>3 DEF LadderInv

LEMMA RoundInv == ASSUME LadderInv, Round PROVE LadderInv'
<1> DEFINE f == SwapNow
           a2 == IF f = 1 THEN x3 ELSE x2
           a3 == IF f = 1 THEN x2 ELSE x3
           c2 == IF f = 1 THEN z3 ELSE z2
           c3 == IF f = 1 THEN z2 ELSE z3
           X == DoubleX(a2, c2)
           Z == DoubleZ(a2, c2)
           Y == AddX(a2, c2, a3, c3)
           V == AddZ(u, a2, c2, a3, c3)
<1>1. /\ x2' = X /\ z2' = Z /\ x3' = Y /\ z3' = V /\ swap' = Bit(k, t) /\ t' = t - 1 /\ t >= 0
      /\ k' = k /\ u' = u /\ result' = result
  BY DEF Round, DoubleX, DoubleZ, AddX, AddZ, Excess, Square, CrossDA, CrossCB
<1>2. /\ k \in Nat /\ k < Many /\ u \in Nat /\ t \in -1..BITS - 1
      /\ x2 \in Nat /\ x3 \in Nat /\ z2 \in Field /\ z3 \in Field /\ swap \in {0, 1}
      /\ result = <<>> /\ k % COFACTOR = 0 /\ Bit(k, BITS - 1) = 1
      /\ Ratios(k, u, t, x2, z2, x3, z3, swap)
  BY <1>1 DEF LadderInv
<1>3. x2 \in Int /\ x3 \in Int /\ z2 \in Int /\ z3 \in Int /\ t \in 0..BITS - 1 /\ t \in 0..BITS /\ u \in Int
  BY <1>1, <1>2, BitsType, FieldFacts
<1>4. a2 \in Int /\ a3 \in Int /\ c2 \in Int /\ c3 \in Int
  BY <1>3
<1>5. f = (swap + Bit(k, t)) % 2 /\ Bit(k, t) \in {0, 1}
  BY <1>2, <1>3, NextBit DEF SwapNow
<1>6. Ratios(k, u, t - 1, X, Z, Y, V, Bit(k, t))
  <2> HIDE DEF f
  <2>1. Ratios(k, u, t - 1, DoubleX(a2, c2), DoubleZ(a2, c2), AddX(a2, c2, a3, c3), AddZ(u, a2, c2, a3, c3), Bit(k, t))
    <3>1. /\ a2 = IF f = 1 THEN x3 ELSE x2
          /\ c2 = IF f = 1 THEN z3 ELSE z2
          /\ a3 = IF f = 1 THEN x2 ELSE x3
          /\ c3 = IF f = 1 THEN z2 ELSE z3
      OBVIOUS
    <3>2. /\ k \in Nat /\ k < Many /\ u \in Nat /\ t \in 0..BITS - 1 /\ x2 \in Int /\ z2 \in Int /\ x3 \in Int /\ z3 \in Int
          /\ swap \in {0, 1} /\ Ratios(k, u, t, x2, z2, x3, z3, swap) /\ f = (swap + Bit(k, t)) % 2
      BY <1>2, <1>3, <1>5
    <3> HIDE DEF a2, a3, c2, c3
    <3> QED BY ONLY <3>1, <3>2, RoundKeepsRatios
  <2> QED BY <2>1
<1>7. ASSUME NEW a \in Int, NEW c \in Int, NEW b \in Int, NEW d \in Int
      PROVE  /\ DoubleX(a, c) \in Field /\ DoubleZ(a, c) \in Field /\ AddX(a, c, b, d) \in Field /\ AddZ(u, a, c, b, d) \in Field
             /\ Zero(a) \/ Zero(c) => DoubleZ(a, c) = 0
             /\ u % P = 0 => AddZ(u, a, c, b, d) = 0
  <2>1. \A y, w \in Int : mul(y, w) \in Field /\ mul(y, w) \in Int /\ add(y, w) \in Int /\ sub(y, w) \in Int
    BY Operations, FieldFacts
  <2>2. Square(add(a, c)) \in Int /\ Square(sub(a, c)) \in Int /\ Excess(a, c) \in Int /\ A24 \in Int
    <3>1. add(a, c) \in Int /\ sub(a, c) \in Int
      BY <2>1
    <3>2. Square(add(a, c)) \in Int /\ Square(sub(a, c)) \in Int
      BY <2>1, <3>1 DEF Square
    <3>3. Excess(a, c) \in Int
      BY <2>1, <3>2 DEF Excess
    <3> QED BY <3>2, <3>3, X25519Assumption
  <2>3. DoubleX(a, c) \in Field /\ DoubleZ(a, c) \in Field
    BY <2>1, <2>2 DEF DoubleX, DoubleZ
  <2>4. CrossDA(a, c, b, d) \in Int /\ CrossCB(a, c, b, d) \in Int
    BY <2>1 DEF CrossDA, CrossCB
  <2> DEFINE s == Square(sub(CrossDA(a, c, b, d), CrossCB(a, c, b, d)))
  <2>5. s \in Int /\ AddX(a, c, b, d) \in Field
    BY <2>1, <2>4 DEF Square, AddX
  <2>6. AddZ(u, a, c, b, d) = mul(u, s)
    BY DEF AddZ
  <2> HIDE DEF s
  <2>7. u % P = 0 => mul(u, s) = 0
    <3>1. Zero(u) <=> u % P = 0
      BY <1>3, ZeroIsRemainder
    <3>2. u * s \in Int /\ (Zero(u) => Zero(u * s))
      <4>1. u \in Int /\ s \in Int
        BY <1>3, <2>5
      <4>2. Zero(u * s) <=> Zero(u) \/ Zero(s)
        BY ONLY <4>1, ProductIsZero
      <4>3. u * s \in Int
        BY <4>1
      <4> QED BY <4>2, <4>3
    <3>3. Zero(u * s) => (u * s) % P = 0
      BY <3>2, ZeroIsRemainder
    <3> QED BY <3>1, <3>2, <3>3 DEF mul
  <2>8. Zero(a) \/ Zero(c) => DoubleZ(a, c) = 0
    <3> DEFINE D == DoubleZ(a, c)
               m == a * c
               q == a * a + CurveA * m + c * c
               r == 4 * q
    <3>1. D \in Field /\ D \in Int /\ Zero(D - 4 * m * q) /\ CurveA \in Int
      BY <2>3, CodeDoubles, CurveFacts, FieldFacts
    <3> HIDE DEF D
    <3>2. m \in Int /\ (Zero(a) \/ Zero(c) => Zero(m))
      <4>1. Zero(a * c) <=> Zero(a) \/ Zero(c)
        BY ProductIsZero
      <4>2. a * c \in Int
        OBVIOUS
      <4> QED BY <4>1, <4>2 DEF m
    <3> HIDE DEF m
    <3>3. q \in Int
      BY <3>1, <3>2
    <3> HIDE DEF q
    <3>4. r \in Int /\ 4 * m * q = r * m /\ r * m \in Int
      BY <3>2, <3>3
    <3> HIDE DEF r
    <3>5. Zero(m) => Zero(r * m)
      BY <3>2, <3>4, ZeroFacts
    <3>6. Zero(r * m) => Zero(D)
      <4>1. Zero(D - r * m)
        BY <3>1, <3>4
      <4> QED BY <3>1, <3>4, <4>1, Carried
    <3>7. Zero(D) => D = 0
      BY <3>1, ZeroIsRemainder
    <3> QED BY <3>2, <3>5, <3>6, <3>7 DEF D
  <2> QED BY <2>3, <2>5, <2>6, <2>7, <2>8, <1>3, <2>1
<1>8. X \in Field /\ Z \in Field /\ Y \in Field /\ V \in Field
  <2> HIDE DEF a2, a3, c2, c3
  <2> QED BY <1>4, <1>7
<1>9. ASSUME u % P = 0 PROVE Z = 0 /\ V = 0
  <2>1. Zero(a2) \/ Zero(c2)
    <3>1. \/ (t = BITS - 1 /\ swap = 0 /\ x2 = 1 /\ z2 = 0 /\ x3 = u /\ z3 = 1)
          \/ (t < BITS - 1 /\ z2 = 0 /\ z3 = 0)
      BY <1>2, <1>9 DEF LadderInv
    <3>2. z2 = 0 /\ (z3 = 0 \/ x3 = u)
      BY <3>1
    <3>3. Zero(0) /\ Zero(u)
      BY <1>3, <1>9, ZeroFacts, ZeroIsRemainder
    <3> HIDE DEF f
    <3> QED BY <3>2, <3>3
  <2> HIDE DEF a2, a3, c2, c3
  <2> QED BY <1>4, <1>7, <1>9, <2>1
<1> HIDE DEF X, Y, Z, V
<1>10. /\ k' \in Nat /\ k' < Many /\ u' \in Nat /\ t' \in -1..BITS - 1
       /\ x2' \in Nat /\ x3' \in Nat /\ z2' \in Field /\ z3' \in Field /\ swap' \in {0, 1}
  <2>1. t' \in -1..BITS - 1
    BY <1>1, <1>3, BitsType
  <2> QED BY <1>1, <1>2, <1>5, <1>8, <2>1, FieldFacts
<1>11. result' = <<>> /\ k' % COFACTOR = 0 /\ Bit(k', BITS - 1) = 1
  BY <1>1, <1>2
<1>12. u' % P = 0 => t' < BITS - 1 /\ z2' = 0 /\ z3' = 0
  <2>1. t' < BITS - 1
    BY <1>1, <1>3, BitsType
  <2> QED BY <1>1, <1>9, <2>1
<1>13. Ratios(k', u', t', x2', z2', x3', z3', swap')
  BY <1>1, <1>6
<1> QED BY <1>10, <1>11, <1>12, <1>13 DEF LadderInv

\* The quotient of a pair is the first coordinate it stands for, and 0 at infinity.
LEMMA QuotientOfRatio ==
    ASSUME NEW a \in Nat, NEW c \in Field, NEW p, p # O => p[1] \in Field, Ratio(a, c, p)
    PROVE  mul(a, inv(c)) = IF p = O THEN 0 ELSE p[1]
<1>1. a \in Int /\ c \in Int /\ (Zero(c) <=> c = 0)
  <2>1. a \in Int /\ c \in Int
    BY FieldFacts
  <2>2. Zero(c) => c = 0
    BY <2>1, ZeroIsRemainder
  <2> QED BY <2>1, <2>2, ZeroFacts
<1>2. CASE p = O
  <2>1. Zero(c)
    BY <1>2 DEF Ratio
  <2>2. inv(c) = 0
    BY <1>1, <2>1, Inverses
  <2>3. a * 0 = 0 /\ 0 % P = 0
    BY FieldFacts
  <2> QED BY <1>2, <2>2, <2>3 DEF mul
<1>3. CASE p # O
  <2> DEFINE r == a % P
             i == inv(c)
  <2>1. r \in Field /\ r \in Int /\ Cong(r, a)
    BY <1>1, ModP, FieldFacts
  <2>2. StandsFor(r, c, p)
    BY <1>1, StandsForRatio
  <2>3. mul(r, i) = p[1]
    BY <1>3, <2>2 DEF StandsFor
  <2>4. i \in Int
    BY <1>1, Inverses, FieldFacts
  <2> HIDE DEF r, i
  <2>5. mul(r, i) = mul(a, i)
    BY <1>1, <2>1, <2>4, CongSub
  <2> QED BY <1>3, <2>3, <2>5 DEF i
<1> QED BY <1>2, <1>3

LEMMA ReturnInv == ASSUME LadderInv, Return PROVE LadderInv'
<1> DEFINE a == IF swap = 1 THEN x3 ELSE x2
           c == IF swap = 1 THEN z3 ELSE z2
           W == AllMultiples[u % P]
           v == mul(a, inv(c))
<1>1. /\ t = -1 /\ result = <<>> /\ result' = bigIntToBytesLE(v)
      /\ k' = k /\ u' = u /\ t' = t /\ x2' = x2 /\ z2' = z2 /\ x3' = x3 /\ z3' = z3 /\ swap' = swap
  BY DEF Return
<1>2. /\ k \in Nat /\ k < Many /\ u \in Nat /\ t \in -1..BITS - 1
      /\ x2 \in Nat /\ x3 \in Nat /\ z2 \in Field /\ z3 \in Field /\ swap \in {0, 1}
      /\ Ratios(k, u, t, x2, z2, x3, z3, swap)
  BY DEF LadderInv
<1>3. a \in Nat /\ c \in Field /\ BITS \in Nat /\ BITS >= 3 /\ k \in 0..Many
  BY <1>2, BitsType, PowFacts
<1>4. v \in Field /\ v \in Int
  <2>1. a \in Int /\ inv(c) \in Int
    <3> HIDE DEF a, c
    <3>1. a \in Int /\ c \in Int
      BY <1>3, FieldFacts
    <3>2. inv(c) \in Field
      BY <3>1, Inverses
    <3> QED BY <3>1, <3>2, FieldFacts
  <2> HIDE DEF a, c
  <2> QED BY <2>1, Operations, FieldFacts
<1>5. bytesToBigIntLE(result') = v /\ result' # <<>>
  <2> HIDE DEF v
  <2> QED BY <1>1, <1>4, BytesOf
<1>6. v = IF W[k] = O THEN 0 ELSE W[k][1]
  <2>1. CASE u % P # 0
    <3>1. Ratio(a, c, W[k])
      <4>1. Pow2[t + 1] = 1 /\ k \div 1 = k
        BY <1>1, <1>2, PowFacts
      <4>2. Ratio(a, c, W[k \div Pow2[t + 1]])
        BY <1>2, <2>1 DEF Ratios
      <4> QED BY <4>1, <4>2
    <3>2. u % P \in Field
      BY <1>2, ModP
    <3>3. W[k] # O => W[k][1] \in Field
      BY <1>2, <1>3, <3>2, MultiplesInRange
    <3> HIDE DEF a, c, W
    <3> QED BY <1>3, <3>1, <3>3, QuotientOfRatio
  <2>2. CASE u % P = 0
    <3>1. c = 0
      <4>1. \/ (t = BITS - 1 /\ swap = 0 /\ x2 = 1 /\ z2 = 0 /\ x3 = u /\ z3 = 1)
            \/ (t < BITS - 1 /\ z2 = 0 /\ z3 = 0)
        BY <1>1, <2>2 DEF LadderInv
      <4> QED BY <1>1, <1>3, <4>1
    <3>2. inv(c) = 0
      BY <3>1, FieldFacts, ZeroFacts, Inverses
    <3>3. v = 0
      <4>1. a * 0 = 0 /\ 0 % P = 0
        BY <1>3, FieldFacts
      <4> QED BY <3>2, <4>1 DEF mul
    <3>4. W[k] = O \/ W[k][1] = 0
      BY <1>3, <2>2, ZeroHasZeroMultiples
    <3> HIDE DEF v, W
    <3> QED BY <3>3, <3>4
  <2> QED BY <2>1, <2>2
<1> HIDE DEF v
<1>7. Ratios(k', u', t', x2', z2', x3', z3', swap')
  BY <1>1, <1>2
<1>8. bytesToBigIntLE(result') = IF AllMultiples[u' % P][k'] = O THEN 0 ELSE AllMultiples[u' % P][k'][1]
  BY <1>1, <1>5, <1>6
<1>9. ~(t' >= 0)
  BY <1>1
<1> QED BY <1>1, <1>2, <1>5, <1>7, <1>8, <1>9 DEF LadderInv

LEMMA LadderNextInv == ASSUME LadderInv, [LadderNext]_ladderVars PROVE LadderInv'
<1>1. CASE Round
  BY <1>1, RoundInv
<1>2. CASE Return
  BY <1>2, ReturnInv
<1>3. ASSUME NEW scalar \in Operand, NEW point \in Operand, x25519(scalar, point) PROVE LadderInv'
  <2>1. Start(clampScalarBytes(scalar), decodeUCoordinateBytes(point))
    BY <1>3 DEF x25519
  <2>2. decodeUCoordinateBytes(point) \in Nat
    BY DecodesPoint
  <2> QED BY <2>1, <2>2, Clamps, StartInv
<1>4. ASSUME NEW scalar \in Operand, x25519Base(scalar) PROVE LadderInv'
  <2>1. Start(clampScalarBytes(scalar), Base)
    BY <1>4 DEF x25519Base
  <2>2. Base \in Nat
    BY X25519Assumption, FieldFacts
  <2> QED BY <2>1, <2>2, Clamps, StartInv
<1>5. CASE UNCHANGED ladderVars
  <2>1. /\ k' = k /\ u' = u /\ t' = t /\ x2' = x2 /\ z2' = z2 /\ x3' = x3 /\ z3' = z3 /\ swap' = swap
        /\ result' = result
    BY <1>5 DEF ladderVars
  <2>2. Ratios(k', u', t', x2', z2', x3', z3', swap')
    BY <2>1 DEF LadderInv
  <2> QED BY <2>1, <2>2 DEF LadderInv
<1> QED BY <1>1, <1>2, <1>3, <1>4, <1>5 DEF LadderNext

(* The ladder computes scalar multiplication, whatever the field, the      *)
(* curve and the length of the operands: what it returns is the            *)
(* x-coordinate of the k-th multiple of the point by the group law, at     *)
(* every round the two pairs stand for consecutive multiples, and a scalar *)
(* is clamped (montgomeryLadder, clampScalarBytes, decodeUCoordinateBytes).*)
THEOREM LadderIsScalarMultiplication == LadderSpec => []LadderMultiplies
<1>1. LadderSpec => []LadderInv
  <2>1. LadderInit => LadderInv
    BY LadderInitInv
  <2>2. LadderInv /\ [LadderNext]_ladderVars => LadderInv'
    BY LadderNextInv
  <2> QED BY <2>1, <2>2, PTL DEF LadderSpec
<1>2. LadderInv => LadderMultiplies
  BY InvMultiplies
<1> QED BY <1>1, <1>2, PTL

=============================================================================

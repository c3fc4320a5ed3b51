------------------------------ MODULE MCCrypto ------------------------------
(***************************************************************************)
(* The cryptographic library: the ladder of X25519, the derivation of      *)
(* keys, the modes of signing, and packets.  They share no state: a        *)
(* behaviour is one of a single part, chosen at the start.                 *)
(***************************************************************************)
EXTENDS X25519, SignedPackets, Ed25519, KeyDerivation, TLC

VARIABLE part

MCSalt == {<<>>, <<0>>, <<1>>, <<1, 0>>, <<0, 1>>, <<1, 0, 1, 0>>}
MCInfo == {<<>>, <<1>>, <<1, 1>>}
MCByte == 0..2
MCPrefix == <<0>>
\* A string is its own text, and the JSON of an object is one of the strings.
MCBody == {"object", "object as JSON", "string"}
MCText == [b \in MCBody |-> IF b = "object" THEN "object as JSON" ELSE b]
\* The clock of one node is ahead of the gateway's.
MCOffset == [n \in Node |-> IF n = CHOOSE m \in Node : TRUE THEN 1 ELSE 0]

ladderSide == ladderVars
keySide == derivationVars
signatureSide == signatureVars
packetSide == packetVars

CryptoInit ==
    /\ part \in {"ladder", "keys", "signatures", "packets"}
    /\ LadderInit /\ DerivationInit /\ SignInit /\ PacketsInit

CryptoNext ==
    /\ UNCHANGED part
    /\ \/ /\ part = "ladder" /\ LadderNext
          /\ UNCHANGED <<keySide, signatureSide, packetSide>>
       \/ /\ part = "keys" /\ DerivationNext
          /\ UNCHANGED <<ladderSide, signatureSide, packetSide>>
       \/ /\ part = "signatures" /\ SignNext
          /\ UNCHANGED <<ladderSide, keySide, packetSide>>
       \/ /\ part = "packets" /\ PacketsNext
          /\ UNCHANGED <<ladderSide, keySide, signatureSide>>

CryptoSpec == CryptoInit /\ [][CryptoNext]_<<part, ladderSide, keySide, signatureSide, packetSide>>

=============================================================================

----------------------------- MODULE MCHandshake -----------------------------
(* Alice starts twice, Bob answers twice.  Alice sends more packets than   *)
(* the nonce can count, Bob answers one.                                   *)
EXTENDS Handshake, TLC

MCSecret == {X25519(a, b) : a \in AliceKeys, b \in BobKeys}
MCMaxEncrypted == [r \in Role |-> IF r = "alice" THEN 3 ELSE 1]

Symmetry == Permutations(Aad)
=============================================================================

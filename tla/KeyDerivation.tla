---------------------------- MODULE KeyDerivation ----------------------------
(***************************************************************************)
(* lib/hkdf.js over lib/blake2b.js, and deriveSessionKey of                *)
(* lib/nz-crypto.js: keys of any length from a secret.                     *)
(*                                                                         *)
(* Bytes are numbers, or stand for one byte of a hash: a hash or HMAC (of  *)
(* node:crypto) is as many bytes as it is long, and no byte of one is a    *)
(* byte of another or of something else.                                   *)
(***************************************************************************)
EXTENDS Integers, Sequences

CONSTANTS HLen,         \* bytes of a hash: 64
          BlockSize,    \* of BLAKE2b: 128
          MaxCounter,   \* 255
          Ikm,          \* secrets
          Salt, Info    \* what callers pass, as sequences of numbers

ASSUME KeyDerivationAssumption ==
    /\ HLen \in Nat \ {0} /\ BlockSize \in Nat /\ HLen < BlockSize /\ MaxCounter \in Nat \ {0}
    /\ Salt \subseteq Seq(Nat) /\ Info \subseteq Seq(Nat)

VARIABLES request,         \* the arguments of hkdf
          prk,             \* the extracted key
          block, round,    \* the last block T(i), and its number i
          okm, outcome     \* "idle", "expanding", "threw" or "returned"

derivationVars == <<request, prk, block, round, okm, outcome>>

Hash == {"sha512", "blake2b"}

Num(n) == [is |-> "number", n |-> n]
Nums(s) == [j \in DOMAIN s |-> Num(s[j])]
Digest(of) == [j \in 1..HLen |-> [is |-> "hash", of |-> of, at |-> j]]

\* blake2b(input, outLen): the beginning of the full digest
blake2b(input, outLen) == SubSeq(Digest([blake2b |-> input]), 1, outLen)

Zeros(n) == [j \in 1..n |-> Num(0)]

\* What a key counts as: hashed when it is longer than a block, and padded
BlockKey(key) ==
    LET short == IF Len(key) > BlockSize THEN blake2b(key, HLen) ELSE key
    IN short \o Zeros(BlockSize - Len(short))

hmacBlake2b(key, data) == Digest([hmac |-> "blake2b", key |-> BlockKey(key), data |-> data])

\* node:crypto's HMAC, with the same block size; its long keys are hashed with SHA-512
hmacSha512(key, data) ==
    Digest([hmac |-> "sha512", data |-> data,
            key |-> IF Len(key) > BlockSize THEN Digest([sha512 |-> key]) \o Zeros(BlockSize - HLen)
                    ELSE key \o Zeros(BlockSize - Len(key))])

hmac(hash, key, data) == IF hash = "sha512" THEN hmacSha512(key, data) ELSE hmacBlake2b(key, data)

hkdfExtract(hash, salt, ikm) == hmac(hash, IF salt = <<>> THEN Zeros(HLen) ELSE salt, ikm)

-----------------------------------------------------------------------------
Smaller(a, b) == IF a < b THEN a ELSE b

\* hkdf, up to the loop of hkdfExpand
hkdf(hash, salt, ikm, info, length) ==
    /\ request' = [hash |-> hash, salt |-> salt, ikm |-> ikm, info |-> info, length |-> length]
    /\ prk' = hkdfExtract(hash, salt, ikm)
    /\ block' = <<>> /\ round' = 0 /\ okm' = <<>>
    /\ outcome' = IF length <= 0 \/ length > MaxCounter * HLen THEN "threw" ELSE "expanding"

SessionInfo == Nums(<<2>>)     \* "NZ-CRYPTO-01/deriveSessionKey"

\* The salt is half a digest of the context, the secret that of X25519.
deriveSessionKey(context, hash, sharedSecret, keyLength) ==
    hkdf(hash, blake2b(Nums(context), HLen \div 2), sharedSecret, SessionInfo, keyLength)

\* Faulty variant: every block starts from the information alone
UnchainedInput == request.info \o Nums(<<round + 1>>)

\* t, info and the counter, one after the other
BlockInput == block \o request.info \o Nums(<<round + 1>>)

\* One round of the loop: a new block, or what is still needed of it
ExpandRound ==
    /\ outcome = "expanding" /\ Len(okm) < request.length
    /\ round' = round + 1
    /\ block' = hmac(request.hash, prk, BlockInput)
    /\ okm' = okm \o SubSeq(block', 1, Smaller(HLen, request.length - Len(okm)))
    /\ UNCHANGED <<request, prk, outcome>>

ExpandReturns ==
    /\ outcome = "expanding" /\ Len(okm) = request.length
    /\ outcome' = "returned"
    /\ UNCHANGED <<request, prk, block, round, okm>>

SharedSecret(s) == [j \in 1..HLen |-> [is |-> "secret", of |-> s, at |-> j]]

DerivationInit ==
    /\ request = [length |-> 0] /\ prk = <<>> /\ block = <<>> /\ round = 0 /\ okm = <<>>
    /\ outcome = "idle"

DerivationNext ==
    \/ /\ outcome = "idle"
       /\ \E hash \in Hash, s \in Ikm, length \in 0..MaxCounter * HLen + 1 :
             \/ \E salt \in Salt, info \in Info :
                    hkdf(hash, Nums(salt), SharedSecret(s), Nums(info), length)
             \/ \E context \in Info : deriveSessionKey(context, hash, SharedSecret(s), length)
    \/ ExpandRound \/ ExpandReturns
    \/ outcome \in {"returned", "threw"} /\ UNCHANGED derivationVars

DerivationSpec == DerivationInit /\ [][DerivationNext]_derivationVars

-----------------------------------------------------------------------------
(* The reference, from RFC 5869: T(0) is empty, T(n) = HMAC(PRK, T(n-1) |  *)
(* info | n), and the output is the beginning of T(1) | T(2) | ...         *)
Blocks(hash, key, info) ==
    LET T[n \in 0..MaxCounter] ==
            IF n = 0 THEN <<>> ELSE hmac(hash, key, T[n - 1] \o info \o Nums(<<n>>))
    IN T

Output(hash, salt, ikm, info, length) ==
    LET T == Blocks(hash, hkdfExtract(hash, salt, ikm), info)
    IN [p \in 1..length |-> T[((p - 1) \div HLen) + 1][((p - 1) % HLen) + 1]]

\* A salt of up to a block counts without the zeros at its end.
SameSalt(s, r) ==
    \/ s = r
    \/ /\ Len(s) <= BlockSize /\ Len(r) <= BlockSize
       /\ s \o Zeros(BlockSize - Len(s)) = r \o Zeros(BlockSize - Len(r))

(* A key of any length from one byte to MaxCounter blocks is what the RFC  *)
(* says, so that a shorter one is the beginning of a longer one, and no    *)
(* byte comes twice; other lengths throw.  Two callers get the same key    *)
(* only for the same hash, secret, information and salt (hkdfExtract,      *)
(* hkdfExpand, hmacBlake2b).                                               *)
KeysAreDerived ==
    outcome = "returned" =>
        /\ request.length \in 1..MaxCounter * HLen
        /\ okm = Output(request.hash, request.salt, request.ikm, request.info, request.length)
        /\ \A a, b \in 1..Len(okm) : a # b => okm[a] # okm[b]
        /\ \A hash \in Hash, salt \in Salt, s \in Ikm, info \in Info :
               okm = Output(hash, Nums(salt), SharedSecret(s), Nums(info), request.length) <=>
                   /\ hash = request.hash /\ SharedSecret(s) = request.ikm /\ Nums(info) = request.info
                   /\ SameSalt(Nums(salt), request.salt)
=============================================================================

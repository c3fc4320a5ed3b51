------------------------------- MODULE Ed25519 -------------------------------
(***************************************************************************)
(* lib/ed25519.js: signatures of plain messages, of messages in a context  *)
(* (ctx) and of hashed messages (ph).  The last two put dom2 in front of   *)
(* the message and sign plainly, which is not the ctx and ph of RFC 8032.  *)
(* node:crypto's own signatures are by one seed over one sequence of       *)
(* bytes.                                                                  *)
(***************************************************************************)
EXTENDS Naturals, Sequences

CONSTANTS Seed, Byte,
          Prefix,       \* "SigEd25519 no Ed25519 collisions", 32 bytes
          MaxContext,   \* 255
          HashLength,   \* 64
          MaxMessage    \* model bound: bytes of a message

ASSUME Ed25519Assumption ==
    /\ MaxContext \in Nat /\ HashLength \in Nat /\ MaxMessage \in Nat /\ MaxMessage >= HashLength
    /\ {1, 2} \cup 0..MaxContext \subseteq Byte /\ Prefix \in Seq(Byte)

VARIABLES asked,      \* how the newest signature was asked for
          signature   \* and what it is

signatureVars == <<asked, signature>>

Nothing == [mode |-> "none"]

\* Keys and signatures of any other form than the raw one do not have 32 and 64 bytes.
PublicKey == [of : Seed, form : {"raw", "spki"}]

ed25519Sign(msg, seed) == [by |-> seed, over |-> msg]

ed25519Verify(msg, sig, pub) ==
    pub.form = "raw" /\ sig # Nothing /\ sig = [by |-> pub.of, over |-> msg]

\* Faulty variant: the length of the context is not written
dom2WithoutLength(flag, context) == Prefix \o <<flag>> \o context

dom2(flag, context) == Prefix \o <<flag>> \o <<Len(context)>> \o context

Flag(mode) == IF mode = "ctx" THEN 1 ELSE 2

\* Messages and contexts that a mode does not throw at
Takes(mode, context, msg) ==
    /\ Len(context) <= MaxContext
    /\ mode = "ph" => Len(msg) = HashLength
    /\ mode = "plain" => context = <<>>

\* What is given to node:crypto
FullMessage(mode, context, msg) ==
    IF mode = "plain" THEN msg ELSE dom2(Flag(mode), context) \o msg

\* ed25519Sign, ed25519SignCtx, ed25519SignPh
Sign(mode, seed, context, msg) ==
    /\ Takes(mode, context, msg)
    /\ asked' = [mode |-> mode, seed |-> seed, context |-> context, msg |-> msg]
    /\ signature' = ed25519Sign(FullMessage(mode, context, msg), seed)

\* ed25519Verify, ed25519VerifyCtx, ed25519VerifyPh
VerifiesAs(mode, pub, context, msg) ==
    Takes(mode, context, msg) /\ ed25519Verify(FullMessage(mode, context, msg), signature, pub)

Strings(n) == UNION {[1..m -> Byte] : m \in 0..n}
Modes == {"plain", "ctx", "ph"}

SignInit == asked = Nothing /\ signature = Nothing

SignNext ==
    \E mode \in Modes, seed \in Seed, context \in Strings(MaxContext + 1), msg \in Strings(MaxMessage) :
        Sign(mode, seed, context, msg)

SignSpec == SignInit /\ [][SignNext]_signatureVars

-----------------------------------------------------------------------------
(* A signature verifies only in the mode, with the context and for the     *)
(* message it was made for, under the raw key of the seed that made it:    *)
(* wherever a context ends and its message begins.  Plain signatures are   *)
(* apart from the two others only as long as no plain message begins like  *)
(* dom2 (ed25519SignCtx, ed25519VerifyCtx, ed25519SignPh, ed25519VerifyPh).*)
SignaturesBindTheirMode ==
    asked # Nothing =>
        \A mode \in Modes, pub \in PublicKey, context \in Strings(MaxContext), msg \in Strings(MaxMessage) :
            Takes(mode, context, msg) /\ (mode = "plain" <=> asked.mode = "plain") =>
                (VerifiesAs(mode, pub, context, msg) <=>
                    /\ mode = asked.mode /\ context = asked.context /\ msg = asked.msg
                    /\ pub = [of |-> asked.seed, form |-> "raw"])
=============================================================================

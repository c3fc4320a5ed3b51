----------------------------- MODULE RequestBody -----------------------------
(***************************************************************************)
(* parseRequestBodyWithCrypto, which every server.js repeats: a body is    *)
(* empty, no JSON, plain JSON, or a routing packet, which counts only when *)
(* verifyRoutingPacket accepts it.  A refused body has been answered (400  *)
(* or 403) and the handler returns without touching its state.             *)
(* What verification itself depends on is modelled in RequestPath.         *)
(***************************************************************************)

\* Bodies around the given contents.  JSON's null is plain and holds nothing.
Bodies(contents) ==
    [wire : {"empty", "noJson", "null"}]
        \cup [wire : {"plain"}, holds : contents]
        \cup [wire : {"packet"}, verified : BOOLEAN, holds : contents]

\* The payloads the promise resolves to with ok: none when the body is refused.
\* The handlers go on with {} in place of null.
Resolved(b, emptyObject) ==
    IF b.wire \in {"empty", "null"} THEN {emptyObject}
    ELSE IF b.wire = "plain" \/ (b.wire = "packet" /\ b.verified) THEN {b.holds} ELSE {}
=============================================================================

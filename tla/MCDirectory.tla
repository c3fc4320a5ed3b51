----------------------------- MODULE MCDirectory -----------------------------
(* A tick stands for 2.5 seconds: ttl 4, heartbeat and cleanup 2, retry 1.  *)
EXTENDS Directory, TLC

Symmetry == Permutations(Service)

=============================================================================

-------------------------- MODULE MCHistoryPipeline --------------------------
(***************************************************************************)
(* Small instances of HistoryPipeline: publications are interchangeable,   *)
(* payloads are an object, one that is none, and a routing packet that     *)
(* carries the object.                                                     *)
(***************************************************************************)
EXTENDS HistoryPipeline, TLC

CONSTANTS object, packet

MCCarried == packet :> object
MCNoPackets == [x \in {} |-> x]

Symmetry == Permutations(Publish)

\* /set with every action on, /set that turns replication on and logging off
\* and leaves analytics as it is, and a value that is not an object
MCRuleValue ==
    {[a \in Action |-> TRUE], [a \in {"replicate", "log"} |-> a = "replicate"], NotAnObject}

\* The same but for a single value: every action on
MCAllOn == {[a \in Action |-> TRUE]}

=============================================================================

--------------------------- MODULE MCReplication ---------------------------
(* Dumps of clients: old and new entries, and a field that is no array.    *)
EXTENDS Replication, TLC

CONSTANTS k, r

MCDump ==
    {[state |-> k :> 1, events |-> <<3, 1>>, rules |-> r :> 2],
     [state |-> k :> 2, events |-> <<2>>, rules |-> r :> 1],
     [state |-> k :> 3, events |-> <<1>>, rules |-> Missing],
     [state |-> Empty, events |-> Missing, rules |-> r :> 3]}

\* The bus keeps the order of publication, which a clock that was set back does not follow.
MCRefreshed == {<<2, 1>>}

Symmetry == Permutations(Node)
=============================================================================

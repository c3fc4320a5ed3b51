----------------------------- MODULE BoundedFifo -----------------------------
(***************************************************************************)
(* What services/queue promises of its queues, independently of how they   *)
(* are kept: "FIFO message queue with bounded memory" (README.md:53).      *)
(* Each queue has the history of everything accepted; `gone` counts the    *)
(* items, oldest first, that it no longer holds, and `taken` has what      *)
(* consumers were given, each item with its position.  Nothing is ever re-ordered or given twice, and   *)
(* an item is given up without a consumer only when a new one needs its    *)
(* place, or when the whole memory is lost.                                *)
(***************************************************************************)
EXTENDS Naturals, Sequences

CONSTANTS Name, Value, Capacity

VARIABLES accepted, gone, taken

fifoVars == <<accepted, gone, taken>>

Init ==
    /\ accepted = [q \in Name |-> <<>>]
    /\ gone = [q \in Name |-> 0]
    /\ taken = [q \in Name |-> {}]

Held(q) == Len(accepted[q]) - gone[q]

Accept(q, x) ==
    /\ accepted' = [accepted EXCEPT ![q] = Append(@, x)]
    /\ gone' = [gone EXCEPT ![q] = IF Held(q) = Capacity THEN @ + 1 ELSE @]
    /\ UNCHANGED taken

Take(q) ==
    /\ Held(q) > 0
    /\ taken' = [taken EXCEPT ![q] = @ \cup {<<gone[q] + 1, accepted[q][gone[q] + 1]>>}]
    /\ gone' = [gone EXCEPT ![q] = @ + 1]
    /\ UNCHANGED accepted

LoseMemory ==
    /\ gone' = [q \in Name |-> Len(accepted[q])]
    /\ UNCHANGED <<accepted, taken>>

Next ==
    \/ \E q \in Name : Take(q) \/ (\E x \in Value : Accept(q, x))
    \/ LoseMemory

Spec == Init /\ [][Next]_fifoVars

=============================================================================

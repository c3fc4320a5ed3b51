----------------------------- MODULE HistoryFlow -----------------------------
(***************************************************************************)
(* What the history pipeline amounts to, seen from the queue: items are    *)
(* accepted once each; an accepted item waits, may be lost while it waits  *)
(* (a full queue, a restart, a lost answer), and otherwise is evaluated,   *)
(* once, before every item accepted after it that is still waiting.        *)
(***************************************************************************)
EXTENDS Naturals, Sequences

CONSTANT Item

VARIABLES accepted,   \* the items taken in, in order
          waiting,    \* the ones that may still be evaluated
          done        \* the ones whose evaluation began, in order

flowVars == <<accepted, waiting, done>>

Members(s) == {s[i] : i \in 1..Len(s)}

Before(x, y) == \E i, j \in 1..Len(accepted) :
                    i < j /\ accepted[i] = x /\ accepted[j] = y

Init == accepted = <<>> /\ waiting = {} /\ done = <<>>

\* A new item joins; a full queue may give up one that waits.
Accept(x) ==
    /\ x \notin Members(accepted)
    /\ accepted' = Append(accepted, x)
    /\ \E givenUp \in SUBSET waiting :
          /\ \A y, z \in givenUp : y = z
          /\ waiting' = (waiting \ givenUp) \cup {x}
    /\ UNCHANGED done

Evaluate(x) ==
    /\ x \in waiting
    /\ \A y \in waiting \ {x} : Before(x, y)
    /\ waiting' = waiting \ {x}
    /\ done' = Append(done, x)
    /\ UNCHANGED accepted

Lose ==
    /\ waiting' \in SUBSET waiting
    /\ UNCHANGED <<accepted, done>>

Next == (\E x \in Item : Accept(x) \/ Evaluate(x)) \/ Lose

Spec == Init /\ [][Next]_flowVars

=============================================================================

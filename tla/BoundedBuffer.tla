--------------------------- MODULE BoundedBuffer ---------------------------
(***************************************************************************)
(* The "bounded memory" idiom that seven services repeat: push at the end, *)
(* then shift the oldest element when the length has passed the maximum    *)
(* (queues, EVENTS, logs, MESSAGES, SERVICES, ...); and what is left of    *)
(* such an array when elements are spliced out of it or filtered.          *)
(***************************************************************************)
EXTENDS Naturals, Sequences, FiniteSets

\* Faulty variants, for the mutants of PROJECT.json: the bound is off by one, either way.
PushOneTooMany(s, x, max) ==
    LET t == Append(s, x) IN IF Len(t) > max + 1 THEN Tail(t) ELSE t
PushOneTooFew(s, x, max) ==
    LET t == Append(s, x) IN IF Len(t) >= max THEN Tail(t) ELSE t

\* array.push(x); if (array.length > max) array.shift();
PushBounded(s, x, max) ==
    LET t == Append(s, x) IN IF Len(t) > max THEN Tail(t) ELSE t

\* array.splice(k, 1)
Spliced(s, k) == [i \in 1..(Len(s) - 1) |-> s[IF i < k THEN i ELSE i + 1]]

\* The i-th smallest of a set of positions
Nth(positions, i) ==
    CHOOSE k \in positions : Cardinality({j \in positions : j < k}) = i - 1

\* The elements at some positions, in the order of the array
ElementsAt(s, positions) == [i \in 1..Cardinality(positions) |-> s[Nth(positions, i)]]

=============================================================================

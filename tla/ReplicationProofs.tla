-------------------------- MODULE ReplicationProofs --------------------------
(***************************************************************************)
(* What a node holds of the dumps it merged, for any nodes, keys,          *)
(* timestamps, dumps and bounds, any order of merges, refreshes and        *)
(* restarts: of state and rules the newest entries, of events the newest   *)
(* MAX_EVENTS.                                                             *)
(***************************************************************************)
EXTENDS Replication, FiniteSetTheorems, SequenceTheorems, TLAPS

-----------------------------------------------------------------------------
(* Sequences of timestamps, up to the order of what they hold: known by how*)
(* many of their elements are as late as any given time                    *)

AsLate(s, v) == {i \in 1..Len(s) : s[i] >= v}
Count(s, v) == Cardinality(AsLate(s, v))

NonDecreasing(s) == \A i, j \in 1..Len(s) : i < j => s[i] <= s[j]

AtMost(n, m) == IF n <= m THEN n ELSE m

LEMMA CountType ==
    ASSUME NEW s \in Seq(Nat), NEW v \in Nat
    PROVE  /\ IsFiniteSet(AsLate(s, v)) /\ Count(s, v) \in Nat /\ Count(s, v) <= Len(s)
           /\ Len(s) \in Nat
<1>1. Len(s) \in Nat /\ 1 \in Int /\ Len(s) \in Int
  OBVIOUS
<1>2. Len(s) = IF 1 > Len(s) THEN 0 ELSE Len(s) - 1 + 1
  BY <1>1
<1>3. IsFiniteSet(1..Len(s)) /\ Cardinality(1..Len(s)) = Len(s)
  BY <1>1, <1>2, FS_Interval
<1>4. AsLate(s, v) \in SUBSET (1..Len(s))
  BY DEF AsLate
<1>5. IsFiniteSet(AsLate(s, v)) /\ Cardinality(AsLate(s, v)) <= Len(s)
  BY <1>3, <1>4, FS_Subset
<1> QED
  BY <1>1, <1>5, FS_CardinalityType DEF Count

\* Sorting moves the elements of a sequence and puts them in order.
LEMMA SortedMoves ==
    ASSUME NEW s \in Seq(Nat)
    PROVE  /\ Sorted(s) \in Seq(Nat) /\ Len(Sorted(s)) = Len(s)
           /\ NonDecreasing(Sorted(s))
           /\ \E at \in Bijection(1..Len(s), 1..Len(s)) : \A r \in 1..Len(s) : Sorted(s)[r] = s[at[r]]
<1> DEFINE N == 1..Len(s)
           Before(i) == {j \in N : s[j] < s[i] \/ (s[j] = s[i] /\ j <= i)}
           place == [i \in N |-> Place(s, i)]
           at == [r \in N |-> CHOOSE i \in N : Place(s, i) = r]
<1>0. Len(s) \in Nat /\ N \subseteq Nat /\ \A i \in N : s[i] \in Nat
  OBVIOUS
<1>1. IsFiniteSet(N) /\ Cardinality(N) = Len(s)
  <2>1. Len(s) = IF 1 > Len(s) THEN 0 ELSE Len(s) - 1 + 1
    BY <1>0
  <2> QED
    BY <1>0, <2>1, FS_Interval
<1>2. \A i \in N : Place(s, i) = Cardinality(Before(i))
  BY DEF Place
<1>3. ASSUME NEW i \in N
      PROVE  i \in Before(i) /\ Before(i) \in SUBSET N /\ IsFiniteSet(Before(i)) /\ Place(s, i) \in N
  <2>1. i \in Before(i) /\ Before(i) \in SUBSET N
    BY <1>0
  <2> HIDE DEF Before, N
  <2>2. IsFiniteSet(Before(i)) /\ Cardinality(Before(i)) <= Len(s)
    BY <1>1, <2>1, FS_Subset
  <2>3. Cardinality(Before(i)) \in Nat /\ Cardinality(Before(i)) # 0
    BY <2>1, <2>2, FS_CardinalityType, FS_EmptySet
  <2>4. Place(s, i) \in Nat /\ 1 <= Place(s, i) /\ Place(s, i) <= Len(s)
    BY <1>2, <2>2, <2>3
  <2> QED
    BY <1>0, <2>1, <2>2, <2>4 DEF N
<1>4. ASSUME NEW i \in N, NEW j \in N, s[i] < s[j] \/ (s[i] = s[j] /\ i < j)
      PROVE  Place(s, i) < Place(s, j)
  <2>1. Before(i) \in SUBSET Before(j)
    BY <1>0, <1>4
  <2>2. j \notin Before(i)
    BY <1>0, <1>4
  <2>3. IsFiniteSet(Before(j)) /\ j \in Before(j) /\ IsFiniteSet(Before(i))
    BY <1>3
  <2> HIDE DEF Before
  <2>4. Cardinality(Before(i)) <= Cardinality(Before(j)) /\ Cardinality(Before(i)) # Cardinality(Before(j))
    BY <2>1, <2>2, <2>3, FS_Subset
  <2>5. Place(s, i) \in Nat /\ Place(s, j) \in Nat
    BY <1>0, <1>3
  <2> QED
    BY <1>2, <2>4, <2>5
<1>5. ASSUME NEW i \in N, NEW j \in N, Place(s, i) = Place(s, j)
      PROVE  i = j
  <2>1. \/ s[i] < s[j] \/ (s[i] = s[j] /\ i < j)
        \/ s[j] < s[i] \/ (s[j] = s[i] /\ j < i)
        \/ i = j
    BY <1>0
  <2>2. Place(s, i) \in Nat /\ Place(s, j) \in Nat
    BY <1>0, <1>3
  <2> QED
    BY <1>4, <1>5, <2>1, <2>2
<1>6. ASSUME NEW r \in N PROVE \E i \in N : Place(s, i) = r
  <2>1. place \in [N -> N]
    BY <1>3
  <2>2. \A i, j \in N : place[i] = place[j] => i = j
    BY <1>5
  <2> HIDE DEF place, N
  <2>3. place \in Injection(N, N)
    BY <2>1, <2>2 DEF Injection, IsInjective
  <2>4. place \in Surjection(N, N)
    BY <1>1, <2>3, FS_Injection
  <2>5. \E i \in N : place[i] = r
    BY <2>4 DEF Surjection
  <2> QED
    BY <2>5 DEF place
<1>7. \A r \in N : at[r] \in N /\ Place(s, at[r]) = r
  BY <1>6
<1>8. Sorted(s) = [r \in N |-> s[at[r]]]
  BY DEF Sorted
<1> HIDE DEF at, place, Before
<1>9. Sorted(s) \in Seq(Nat) /\ Len(Sorted(s)) = Len(s) /\ \A r \in N : Sorted(s)[r] = s[at[r]]
  BY <1>0, <1>7, <1>8
<1>10. NonDecreasing(Sorted(s))
  <2>1. ASSUME NEW r \in N, NEW q \in N, r < q PROVE s[at[r]] <= s[at[q]]
    <3>1. at[r] \in N /\ at[q] \in N /\ s[at[r]] \in Nat /\ s[at[q]] \in Nat
      BY <1>0, <1>7
    <3>2. CASE s[at[q]] < s[at[r]]
      <4>1. q < r
        BY <1>4, <1>7, <3>1, <3>2
      <4> QED
        BY <1>0, <2>1, <4>1
    <3> QED
      BY <3>1, <3>2
  <2> QED
    BY <1>9, <2>1 DEF NonDecreasing
<1>11. at \in Bijection(N, N)
  <2>1. at \in [N -> N]
    BY <1>7 DEF at
  <2>2. \A r, q \in N : at[r] = at[q] => r = q
    BY <1>7
  <2>3. \A i \in N : \E r \in N : at[r] = i
    BY <1>3, <1>5, <1>7
  <2> HIDE DEF N
  <2> QED
    BY <2>1, <2>2, <2>3 DEF Bijection, Injection, IsInjective, Surjection
<1> QED
  BY <1>9, <1>10, <1>11

LEMMA SortedCounts ==
    ASSUME NEW s \in Seq(Nat), NEW v \in Nat
    PROVE  Count(Sorted(s), v) = Count(s, v)
<1> DEFINE N == 1..Len(s)
           A == AsLate(Sorted(s), v)
           B == AsLate(s, v)
<1>1. PICK at \in Bijection(N, N) : \A r \in N : Sorted(s)[r] = s[at[r]]
  BY SortedMoves
<1>2. Len(Sorted(s)) = Len(s)
  BY SortedMoves
<1>3. /\ at \in [N -> N] /\ \A r, q \in N : at[r] = at[q] => r = q
      /\ \A i \in N : \E r \in N : at[r] = i
  BY <1>1 DEF Bijection, Injection, IsInjective, Surjection
<1> DEFINE f == [r \in A |-> at[r]]
<1>4. A \subseteq N /\ B \subseteq N /\ \A r \in N : r \in A <=> at[r] \in B
  BY <1>1, <1>2, <1>3 DEF AsLate
<1> HIDE DEF A, B, N
<1>5. f \in [A -> B]
  BY <1>3, <1>4
<1>6. \A r, q \in A : f[r] = f[q] => r = q
  BY <1>3, <1>4
<1>7. \A i \in B : \E r \in A : f[r] = i
  BY <1>3, <1>4
<1> HIDE DEF f
<1>8. f \in Bijection(A, B)
  BY <1>5, <1>6, <1>7 DEF Bijection, Injection, IsInjective, Surjection
<1>9. IsFiniteSet(A)
  BY CountType, SortedMoves DEF A
<1>10. Cardinality(A) = Cardinality(B)
  BY <1>8, <1>9, FS_Bijection DEF ExistsBijection
<1> QED
  BY <1>10 DEF A, B, Count

LEMMA CountsAdd ==
    ASSUME NEW s \in Seq(Nat), NEW t \in Seq(Nat), NEW v \in Nat
    PROVE  Count(s \o t, v) = Count(s, v) + Count(t, v)
<1> DEFINE n == Len(s)
           B == {i \in n + 1 .. n + Len(t) : t[i - n] >= v}
           f == [i \in AsLate(t, v) |-> i + n]
<1>1. n \in Nat /\ Len(t) \in Nat /\ Len(s \o t) = n + Len(t) /\ s \o t \in Seq(Nat)
  OBVIOUS
<1>2. \A i \in 1 .. n + Len(t) : (s \o t)[i] = IF i <= n THEN s[i] ELSE t[i - n]
  OBVIOUS
<1>3. AsLate(s \o t, v) = AsLate(s, v) \cup B
  BY <1>1, <1>2 DEF AsLate
<1>4. AsLate(s, v) \cap B = {}
  BY <1>1 DEF AsLate
<1>5. f \in [AsLate(t, v) -> B]
  BY <1>1 DEF AsLate
<1>6. \A i, j \in AsLate(t, v) : f[i] = f[j] => i = j
  BY <1>1 DEF AsLate
<1>7. ASSUME NEW j \in B PROVE \E i \in AsLate(t, v) : f[i] = j
  <2>1. j - n \in AsLate(t, v) /\ (j - n) + n = j
    BY <1>1 DEF AsLate
  <2> QED
    BY <2>1
<1> HIDE DEF f, B, n
<1>8. f \in Bijection(AsLate(t, v), B)
  BY <1>5, <1>6, <1>7 DEF Bijection, Injection, IsInjective, Surjection
<1>9. IsFiniteSet(AsLate(t, v)) /\ IsFiniteSet(AsLate(s, v))
  BY CountType
<1>10. IsFiniteSet(B) /\ Cardinality(B) = Cardinality(AsLate(t, v))
  BY <1>8, <1>9, FS_Bijection DEF ExistsBijection
<1>11. Cardinality(AsLate(s, v) \cup B) = Cardinality(AsLate(s, v)) + Cardinality(B) - Cardinality(AsLate(s, v) \cap B)
  BY <1>9, <1>10, FS_Union
<1>12. Cardinality(AsLate(s, v) \cap B) = 0
  BY <1>4, FS_EmptySet
<1>13. Count(s, v) \in Nat /\ Count(t, v) \in Nat
  BY CountType
<1>14. Cardinality(AsLate(s, v) \cup B) = Count(s, v) + Count(t, v) - 0
  BY <1>10, <1>11, <1>12 DEF Count
<1> QED
  BY <1>3, <1>13, <1>14 DEF Count

\* In an ordered sequence the elements that are as late as v are the last ones.
LEMMA LastAreLate ==
    ASSUME NEW s \in Seq(Nat), NonDecreasing(s), NEW v \in Nat, NEW i \in 1..Len(s)
    PROVE  s[i] >= v <=> i > Len(s) - Count(s, v)
<1> DEFINE n == Len(s)
           c == Count(s, v)
<1>1. n \in Nat /\ c \in Nat /\ c <= n /\ IsFiniteSet(AsLate(s, v)) /\ \A j \in 1..n : s[j] \in Nat
  <2>1. \A j \in 1..n : s[j] \in Nat
    OBVIOUS
  <2> QED
    BY <2>1, CountType
<1>2. CASE s[i] >= v
  <2>1. i..n \in SUBSET AsLate(s, v)
    BY <1>1, <1>2 DEF AsLate, NonDecreasing
  <2>2. Cardinality(i..n) = n - i + 1
    <3>1. i \in Int /\ n \in Int /\ n - i + 1 = IF i > n THEN 0 ELSE n - i + 1
      BY <1>1
    <3> QED
      BY <3>1, FS_Interval
  <2>3. n - i + 1 <= c
    BY <1>1, <2>1, <2>2, FS_Subset DEF Count
  <2> QED
    BY <1>1, <1>2, <2>3
<1>3. CASE ~(s[i] >= v)
  <2>1. AsLate(s, v) \in SUBSET (i + 1 .. n)
    <3>1. ASSUME NEW j \in 1..n, s[j] >= v PROVE i < j
      <4>1. CASE j < i
        BY <1>1, <1>3, <3>1, <4>1 DEF NonDecreasing
      <4> QED
        BY <1>1, <1>3, <3>1, <4>1
    <3> QED
      BY <1>1, <3>1 DEF AsLate
  <2>2. IsFiniteSet(i + 1 .. n) /\ Cardinality(i + 1 .. n) = n - i
    <3>1. i + 1 \in Int /\ n \in Int /\ n - i = IF i + 1 > n THEN 0 ELSE n - (i + 1) + 1
      BY <1>1
    <3> QED
      BY <3>1, FS_Interval
  <2>3. c <= n - i
    BY <2>1, <2>2, FS_Subset DEF Count
  <2> QED
    BY <1>1, <1>3, <2>3
<1> QED
  BY <1>2, <1>3

\* Ordered sequences with the same counts are the same.
LEMMA SameCounts ==
    ASSUME NEW s \in Seq(Nat), NEW t \in Seq(Nat), NonDecreasing(s), NonDecreasing(t),
           Len(s) = Len(t), \A v \in Nat : Count(s, v) = Count(t, v)
    PROVE  s = t
<1>1. ASSUME NEW i \in 1..Len(s) PROVE s[i] = t[i]
  <2>1. s[i] \in Nat /\ t[i] \in Nat /\ i \in 1..Len(t)
    OBVIOUS
  <2>2. ASSUME NEW v \in Nat PROVE s[i] >= v <=> t[i] >= v
    <3>1. Count(s, v) = Count(t, v)
      OBVIOUS
    <3> QED
      BY <2>1, <3>1, LastAreLate
  <2>3. s[i] >= s[i] /\ t[i] >= t[i]
    BY <2>1
  <2>4. t[i] >= s[i] /\ s[i] >= t[i]
    BY <2>1, <2>2, <2>3
  <2> QED
    BY <2>1, <2>4
<1> QED
  BY <1>1, SeqEqual

LEMMA WindowKeeps ==
    ASSUME NEW s \in Seq(Nat), NonDecreasing(s), MAX_EVENTS \in Nat
    PROVE  /\ Window(s) \in Seq(Nat) /\ NonDecreasing(Window(s))
           /\ Len(Window(s)) = AtMost(Len(s), MAX_EVENTS)
           /\ \A v \in Nat : Count(Window(s), v) = AtMost(Count(s, v), MAX_EVENTS)
<1> DEFINE n == Len(s)
           m == MAX_EVENTS
           w == Window(s)
<1>0. n \in Nat /\ m \in Nat /\ \A i \in 1..n : s[i] \in Nat
  OBVIOUS
<1>1. CASE n <= m
  <2>1. w = s
    BY <1>1 DEF Window
  <2>2. \A v \in Nat : Count(s, v) <= n /\ Count(s, v) \in Nat
    BY CountType
  <2> QED
    BY <1>0, <1>1, <2>1, <2>2 DEF AtMost
<1>2. CASE ~(n <= m)
  <2>1. w = SubSeq(s, n - m + 1, n)
    BY <1>2 DEF Window
  <2>2. /\ w \in Seq(Nat) /\ Len(w) = m
        /\ \A i \in 1..m : w[i] = s[i + (n - m)] /\ i + (n - m) \in 1..n
    BY <1>0, <1>2, <2>1
  <2> HIDE DEF w
  <2>3. NonDecreasing(w)
    <3>1. ASSUME NEW i \in 1..m, NEW j \in 1..m, i < j PROVE w[i] <= w[j]
      <4>1. i + (n - m) \in 1..n /\ j + (n - m) \in 1..n /\ i + (n - m) < j + (n - m)
        BY <1>0, <2>2, <3>1
      <4> QED
        BY <2>2, <4>1 DEF NonDecreasing
    <3> QED
      BY <2>2, <3>1 DEF NonDecreasing
  <2>4. ASSUME NEW v \in Nat PROVE Count(w, v) = AtMost(Count(s, v), m)
    <3> DEFINE c == Count(s, v)
    <3>1. c \in Nat /\ c <= n
      BY CountType
    <3>2. ASSUME NEW i \in 1..m PROVE w[i] >= v <=> i > m - c
      <4>1. i + (n - m) \in 1..n /\ w[i] = s[i + (n - m)]
        BY <2>2
      <4>2. w[i] >= v <=> i + (n - m) > n - c
        BY <4>1, LastAreLate
      <4> QED
        BY <1>0, <3>1, <4>2
    <3> HIDE DEF c
    <3>3. AsLate(w, v) = {i \in 1..m : i > m - c}
      BY <2>2, <3>2 DEF AsLate
    <3>4. CASE c <= m
      <4>1. AsLate(w, v) = m - c + 1 .. m
        BY <1>0, <3>1, <3>3, <3>4
      <4>2. m - c + 1 \in Int /\ m \in Int /\ c = IF m - c + 1 > m THEN 0 ELSE m - (m - c + 1) + 1
        BY <1>0, <3>1
      <4>3. Cardinality(m - c + 1 .. m) = c
        BY <4>2, FS_Interval
      <4> QED
        BY <3>4, <4>1, <4>3 DEF AtMost, Count, c
    <3>5. CASE ~(c <= m)
      <4>1. AsLate(w, v) = 1..m
        BY <1>0, <3>1, <3>3, <3>5
      <4>2. 1 \in Int /\ m \in Int /\ m = IF 1 > m THEN 0 ELSE m - 1 + 1
        BY <1>0
      <4>3. Cardinality(1..m) = m
        BY <4>2, FS_Interval
      <4> QED
        BY <3>5, <4>1, <4>3 DEF AtMost, Count, c
    <3> QED
      BY <3>4, <3>5
  <2>5. AtMost(n, m) = m
    BY <1>0, <1>2 DEF AtMost
  <2> QED
    BY <2>2, <2>3, <2>4, <2>5 DEF w
<1> QED
  BY <1>1, <1>2

\* Cutting the window at every merge loses nothing that one cut at the end would keep.
LEMMA CutAgain ==
    ASSUME NEW s \in Seq(Nat), NEW t \in Seq(Nat), MAX_EVENTS \in Nat
    PROVE  MergeEvents(Window(Sorted(s)), t) = Window(Sorted(s \o t))
<1> DEFINE m == MAX_EVENTS
           a == Window(Sorted(s))
           x == MergeEvents(a, t)
           y == Window(Sorted(s \o t))
<1>1. /\ a \in Seq(Nat) /\ Len(a) = AtMost(Len(s), m)
      /\ \A v \in Nat : Count(a, v) = AtMost(Count(s, v), m)
  BY SortedMoves, SortedCounts, WindowKeeps
<1> HIDE DEF a
<1>2. a \o t \in Seq(Nat) /\ Len(a \o t) = Len(a) + Len(t) /\ s \o t \in Seq(Nat) /\ Len(s \o t) = Len(s) + Len(t)
  BY <1>1, ConcatProperties
<1>3. /\ x \in Seq(Nat) /\ NonDecreasing(x) /\ Len(x) = AtMost(Len(a \o t), m)
      /\ \A v \in Nat : Count(x, v) = AtMost(Count(a \o t, v), m)
  <2>1. Sorted(a \o t) \in Seq(Nat) /\ NonDecreasing(Sorted(a \o t)) /\ Len(Sorted(a \o t)) = Len(a \o t)
    BY <1>2, SortedMoves
  <2>2. \A v \in Nat : Count(Sorted(a \o t), v) = Count(a \o t, v)
    BY <1>2, SortedCounts
  <2> QED
    BY <2>1, <2>2, WindowKeeps DEF MergeEvents
<1>4. /\ y \in Seq(Nat) /\ NonDecreasing(y) /\ Len(y) = AtMost(Len(s \o t), m)
      /\ \A v \in Nat : Count(y, v) = AtMost(Count(s \o t, v), m)
  <2>1. Sorted(s \o t) \in Seq(Nat) /\ NonDecreasing(Sorted(s \o t)) /\ Len(Sorted(s \o t)) = Len(s \o t)
    BY <1>2, SortedMoves
  <2>2. \A v \in Nat : Count(Sorted(s \o t), v) = Count(s \o t, v)
    BY <1>2, SortedCounts
  <2> QED
    BY <2>1, <2>2, WindowKeeps
<1> HIDE DEF x, y
<1>5. Len(x) = Len(y)
  <2>1. Len(s) \in Nat /\ Len(t) \in Nat
    OBVIOUS
  <2> QED
    BY <1>1, <1>2, <1>3, <1>4, <2>1 DEF AtMost
<1>6. ASSUME NEW v \in Nat PROVE Count(x, v) = Count(y, v)
  <2>1. Count(s, v) \in Nat /\ Count(t, v) \in Nat /\ Count(a, v) \in Nat
    BY <1>1, CountType
  <2>2. Count(a \o t, v) = Count(a, v) + Count(t, v) /\ Count(s \o t, v) = Count(s, v) + Count(t, v)
    BY <1>1, CountsAdd
  <2>3. Count(a, v) = AtMost(Count(s, v), m)
    BY <1>1
  <2>4. Count(x, v) = AtMost(Count(a \o t, v), m) /\ Count(y, v) = AtMost(Count(s \o t, v), m)
    BY <1>3, <1>4
  <2> QED
    BY <2>1, <2>2, <2>3, <2>4 DEF AtMost
<1>7. x = y
  BY <1>3, <1>4, <1>5, <1>6, SameCounts
<1> QED
  BY <1>7 DEF x, y, a

-----------------------------------------------------------------------------
(* Maps merged key by key *)

LEMMA MergedMaps ==
    ASSUME NEW K, NEW V \in SUBSET (Nat \cup {NoTs}), NoTs \notin Nat,
           NEW f \in Maps(K, V), NEW g \in Maps(K, V)
    PROVE  /\ MergeMaps(f, g) \in Maps(K, V)
           /\ DOMAIN MergeMaps(f, g) = DOMAIN f \cup DOMAIN g
           /\ \A k \in DOMAIN f \cup DOMAIN g :
                  /\ k \notin DOMAIN f => MergeMaps(f, g)[k] = g[k]
                  /\ k \notin DOMAIN g => MergeMaps(f, g)[k] = f[k]
                  /\ k \in DOMAIN f /\ k \in DOMAIN g =>
                         /\ MergeMaps(f, g)[k] \in {f[k], g[k]}
                         /\ f[k] # NoTs => MergeMaps(f, g)[k] # NoTs /\ MergeMaps(f, g)[k] >= f[k]
                         /\ MergeMaps(f, g)[k] # NoTs /\ g[k] # NoTs => MergeMaps(f, g)[k] >= g[k]
<1> DEFINE D == DOMAIN f \cup DOMAIN g
           h == MergeMaps(f, g)
<1>1. D \in SUBSET K /\ f \in [DOMAIN f -> V] /\ g \in [DOMAIN g -> V]
  BY DEF Maps
<1>2. h = [k \in D |-> IF k \notin DOMAIN f THEN g[k]
                       ELSE IF k \notin DOMAIN g THEN f[k] ELSE Later(f[k], g[k])]
  BY DEF MergeMaps
<1> HIDE DEF h
<1>3. \A a, b \in V : /\ Later(a, b) \in {a, b}
                      /\ a # NoTs => Later(a, b) # NoTs /\ Later(a, b) >= a
                      /\ Later(a, b) # NoTs /\ b # NoTs => Later(a, b) >= b
  BY DEF Later
<1>4. ASSUME NEW k \in D
      PROVE  /\ h[k] \in V
             /\ k \notin DOMAIN f => h[k] = g[k]
             /\ k \notin DOMAIN g => h[k] = f[k]
             /\ k \in DOMAIN f /\ k \in DOMAIN g =>
                    /\ h[k] \in {f[k], g[k]}
                    /\ f[k] # NoTs => h[k] # NoTs /\ h[k] >= f[k]
                    /\ h[k] # NoTs /\ g[k] # NoTs => h[k] >= g[k]
  <2>1. CASE k \notin DOMAIN f
    BY <1>1, <1>2, <2>1
  <2>2. CASE k \in DOMAIN f /\ k \notin DOMAIN g
    BY <1>1, <1>2, <2>2
  <2>3. CASE k \in DOMAIN f /\ k \in DOMAIN g
    <3>1. f[k] \in V /\ g[k] \in V /\ h[k] = Later(f[k], g[k])
      BY <1>1, <1>2, <2>3
    <3> QED
      BY <1>3, <2>3, <3>1
  <2> QED
    BY <2>1, <2>2, <2>3
<1>5. DOMAIN h = D /\ h \in [D -> V]
  BY <1>2, <1>4
<1>6. h \in Maps(K, V)
  BY <1>1, <1>5 DEF Maps
<1> QED
  BY <1>4, <1>5, <1>6 DEF h

-----------------------------------------------------------------------------
(* The invariant: the properties of the runs, and what their histories are *)

\* What a node may give out
Held == [state : StateMap, events : Seq(Ts), rules : RuleMap \cup {Missing}]

\* What was sent, seen and acknowledged
HistoriesOK ==
    /\ parcels \subseteq Held /\ IsFiniteSet(parcels)
    /\ seenState \in [Node -> SUBSET (Key \X (Ts \cup {NoTs}))]
    /\ seenEvents \in [Node -> Seq(Ts)]
    /\ acked \in [Node -> SUBSET (Dump \cup Held)]
    /\ \A n \in Node : \A d \in acked[n] : d.rules # Missing

RInv == TypeOK /\ HistoriesOK /\ StateIsNewest /\ WindowOfTheNewest /\ AckedRulesInForce

LEMMA DumpType ==
    ASSUME NEW d \in Dump \cup Held
    PROVE  /\ d.state \in StateMap
           /\ d.events = Missing \/ d.events \in Seq(Ts)
           /\ d.rules \in RuleMap \cup {Missing}
BY ReplicationAssumption DEF Held

LEMMA Constants ==
    /\ Ts \subseteq Nat /\ NoTs \notin Nat /\ MAX_EVENTS \in Nat /\ MaxMerges \in Nat
    /\ MaxParcels \in Nat /\ Missing \notin RuleMap
    /\ \A t \in Seq(Ts) : t \in Seq(Nat)
<1>1. Ts \subseteq Nat
  BY ReplicationAssumption
<1>2. ASSUME NEW t \in Seq(Ts) PROVE t \in Seq(Nat)
  <2>1. Len(t) \in Nat /\ t \in [1..Len(t) -> Nat]
    BY <1>1, LenProperties
  <2> QED
    BY <2>1, SeqDef
<1> QED
  BY <1>2, ReplicationAssumption

LEMMA MapValue == ASSUME NEW K, NEW V, NEW f \in Maps(K, V), NEW k \in DOMAIN f PROVE f[k] \in V
BY DEF Maps

LEMMA EmptyIsMap == ASSUME NEW K, NEW V PROVE Empty \in Maps(K, V) /\ DOMAIN Empty = {}
<1>1. Empty \in [{} -> V] /\ {} \in SUBSET K /\ DOMAIN Empty = {}
  BY DEF Empty
<1> QED
  BY <1>1 DEF Maps

\* A window holds elements of its sequence, and no more than MAX_EVENTS.
LEMMA WindowType ==
    ASSUME NEW t \in Seq(Ts)
    PROVE  /\ Window(Sorted(t)) \in Seq(Ts) /\ Len(Window(Sorted(t))) <= MAX_EVENTS
           /\ Len(t) <= MAX_EVENTS => Window(Sorted(t)) = Sorted(t)
<1>1. t \in Seq(Nat) /\ Len(t) \in Nat /\ MAX_EVENTS \in Nat
  BY Constants
<1>2. PICK at \in Bijection(1..Len(t), 1..Len(t)) : \A r \in 1..Len(t) : Sorted(t)[r] = t[at[r]]
  BY <1>1, SortedMoves
<1>3. \A r \in 1..Len(t) : at[r] \in 1..Len(t)
  BY <1>2 DEF Bijection, Injection
<1>4. Sorted(t) \in Seq(Ts) /\ Len(Sorted(t)) = Len(t)
  <2>1. Sorted(t) \in Seq(Nat) /\ Len(Sorted(t)) = Len(t)
    BY <1>1, SortedMoves
  <2>2. \A r \in 1..Len(t) : Sorted(t)[r] \in Ts
    BY <1>2, <1>3
  <2>3. Sorted(t) \in [1..Len(t) -> Ts]
    BY <2>1, <2>2, LenProperties
  <2>4. Sorted(t) \in Seq(Ts)
    BY <1>1, <2>3, SeqDef
  <2> QED
    BY <2>1, <2>4
<1> HIDE DEF Sorted
<1>5. Window(Sorted(t)) \in Seq(Ts)
  BY <1>1, <1>4 DEF Window
<1>6. Len(Window(Sorted(t))) = AtMost(Len(t), MAX_EVENTS)
  BY <1>1, <1>4, SortedMoves, WindowKeeps
<1> QED
  BY <1>1, <1>4, <1>5, <1>6 DEF AtMost, Window

-----------------------------------------------------------------------------
LEMMA NothingSorted == Window(Sorted(<<>>)) = <<>>
<1>1. <<>> \in Seq(Nat) /\ Len(<<>>) = 0
  OBVIOUS
<1>2. Sorted(<<>>) \in Seq(Nat) /\ Len(Sorted(<<>>)) = 0
  BY <1>1, SortedMoves
<1>3. Sorted(<<>>) = <<>>
  BY <1>2, EmptySeq
<1> QED
  BY <1>1, <1>3, Constants DEF Window

LEMMA Starts == Init => RInv
<1> SUFFICES ASSUME Init PROVE RInv
  OBVIOUS
<1>1. TypeOK
  <2>1. Cardinality(parcels) = 0 /\ IsFiniteSet(parcels)
    BY FS_EmptySet DEF Init
  <2>2. Empty \in StateMap /\ Empty \in RuleMap
    BY EmptyIsMap DEF StateMap, RuleMap
  <2> QED
    BY <2>1, <2>2, Constants DEF Init, TypeOK
<1>2. HistoriesOK
  BY FS_EmptySet DEF Init, HistoriesOK
<1>3. StateIsNewest
  BY EmptyIsMap DEF Init, StateIsNewest
<1>4. WindowOfTheNewest
  BY NothingSorted DEF Init, WindowOfTheNewest
<1>5. AckedRulesInForce
  BY DEF Init, AckedRulesInForce
<1> QED
  BY <1>1, <1>2, <1>3, <1>4, <1>5 DEF RInv

\* What a merge does to the state of its node
LEMMA StateMerged ==
    ASSUME RInv, NEW n \in Node, NEW d \in Dump \cup Held,
           state' = [state EXCEPT ![n] = MergeMaps(@, d.state)],
           seenState' = [seenState EXCEPT ![n] = @ \cup {<<k, d.state[k]>> : k \in DOMAIN d.state}]
    PROVE  /\ state' \in [Node -> StateMap]
           /\ seenState' \in [Node -> SUBSET (Key \X (Ts \cup {NoTs}))]
           /\ StateIsNewest'
<1> DEFINE f == state[n]
           g == d.state
           h == MergeMaps(f, g)
           V == Ts \cup {NoTs}
           new == {<<k, g[k]>> : k \in DOMAIN g}
<1>1. f \in Maps(Key, V) /\ g \in Maps(Key, V) /\ V \in SUBSET (Nat \cup {NoTs}) /\ NoTs \notin Nat
  BY DumpType, Constants DEF RInv, TypeOK, StateMap
<1>2. /\ h \in Maps(Key, V)
      /\ DOMAIN h = DOMAIN f \cup DOMAIN g
      /\ \A k \in DOMAIN f \cup DOMAIN g :
             /\ k \notin DOMAIN f => h[k] = g[k]
             /\ k \notin DOMAIN g => h[k] = f[k]
             /\ k \in DOMAIN f /\ k \in DOMAIN g =>
                    /\ h[k] \in {f[k], g[k]}
                    /\ f[k] # NoTs => h[k] # NoTs /\ h[k] >= f[k]
                    /\ h[k] # NoTs /\ g[k] # NoTs => h[k] >= g[k]
  BY <1>1, MergedMaps
<1>3. new \in SUBSET (Key \X V)
  BY <1>1 DEF Maps
<1>4. state' \in [Node -> StateMap] /\ seenState' \in [Node -> SUBSET (Key \X V)]
  BY <1>2, <1>3 DEF RInv, TypeOK, HistoriesOK, StateMap
<1>5. /\ state'[n] = h /\ seenState'[n] = seenState[n] \cup new
      /\ \A o \in Node \ {n} : state'[o] = state[o] /\ seenState'[o] = seenState[o]
  BY DEF RInv, TypeOK, HistoriesOK
<1>6. /\ DOMAIN f = {e[1] : e \in seenState[n]}
      /\ \A k \in DOMAIN f :
             /\ <<k, f[k]>> \in seenState[n]
             /\ f[k] # NoTs => \A e \in seenState[n] : e[1] = k /\ e[2] # NoTs => f[k] >= e[2]
  BY DEF RInv, StateIsNewest
<1>7. \A e \in new : e[1] \in DOMAIN g /\ e[2] = g[e[1]]
  OBVIOUS
<1>8. \A k \in DOMAIN g : <<k, g[k]>> \in new /\ <<k, g[k]>>[1] = k
  OBVIOUS
<1>9. \A e \in seenState[n] : e[2] \in V
  BY DEF RInv, HistoriesOK
<1>10. (\A k \in DOMAIN f : f[k] \in V) /\ (\A k \in DOMAIN g : g[k] \in V) /\ \A k \in DOMAIN h : h[k] \in V
  BY <1>1, <1>2 DEF Maps
<1> HIDE DEF h, f, g, new
<1>11. DOMAIN h = {e[1] : e \in seenState[n] \cup new}
  <2>1. \A k \in DOMAIN g : \E e \in new : e[1] = k
    BY <1>8
  <2> QED
    BY <1>2, <1>6, <1>7, <2>1
<1>12. ASSUME NEW k \in DOMAIN h PROVE <<k, h[k]>> \in seenState[n] \cup new
  BY <1>2, <1>6, <1>8
<1>13. ASSUME NEW k \in DOMAIN h, h[k] # NoTs, NEW e \in seenState[n] \cup new, e[1] = k, e[2] # NoTs
       PROVE  h[k] >= e[2]
  <2>1. CASE e \in seenState[n]
    <3>1. k \in DOMAIN f
      BY <1>6, <1>13, <2>1
    <3>2. h[k] = f[k] \/ (h[k] = g[k] /\ k \in DOMAIN g)
      BY <1>2, <3>1
    <3>3. e[2] \in Nat /\ h[k] \in Nat
      BY <1>1, <1>9, <1>10, <1>13, <2>1
    <3>4. CASE f[k] = NoTs
      <4>1. Later(f[k], g[k]) = f[k]
        BY <3>4 DEF Later
      <4>2. h[k] = f[k]
        BY <3>1, <4>1 DEF h, MergeMaps
      <4> QED
        BY <1>13, <3>4, <4>2
    <3>5. CASE f[k] # NoTs
      <4>1. f[k] >= e[2] /\ f[k] \in Nat
        BY <1>1, <1>6, <1>10, <1>13, <2>1, <3>1, <3>5
      <4>2. h[k] >= f[k]
        BY <1>2, <3>1, <3>5, <4>1
      <4> QED
        BY <3>3, <4>1, <4>2
    <3> QED
      BY <3>4, <3>5
  <2>2. CASE e \in new
    <3>1. k \in DOMAIN g /\ e[2] = g[k] /\ g[k] \in Nat
      BY <1>1, <1>7, <1>10, <1>13, <2>2
    <3> QED
      BY <1>2, <1>13, <3>1
  <2> QED
    BY <2>1, <2>2
<1>14. StateIsNewest'
  BY <1>5, <1>11, <1>12, <1>13 DEF RInv, StateIsNewest
<1> QED
  BY <1>4, <1>14

\* What a merge does to the events of its node
LEMMA EventsMerged ==
    ASSUME RInv, NEW n \in Node, NEW d \in Dump \cup Held,
           events' = [events EXCEPT ![n] = IF d.events = Missing THEN @ ELSE MergeEvents(@, d.events)],
           seenEvents' = [seenEvents EXCEPT ![n] = IF d.events = Missing THEN @ ELSE @ \o d.events]
    PROVE  /\ events' \in [Node -> Seq(Ts)] /\ \A m \in Node : Len(events'[m]) <= MAX_EVENTS
           /\ seenEvents' \in [Node -> Seq(Ts)]
           /\ WindowOfTheNewest'
<1>0. events \in [Node -> Seq(Ts)] /\ seenEvents \in [Node -> Seq(Ts)]
  BY DEF RInv, TypeOK, HistoriesOK
<1>1. CASE d.events = Missing
  <2>1. events' = events /\ seenEvents' = seenEvents
    BY <1>0, <1>1
  <2> QED
    BY <1>0, <2>1 DEF RInv, TypeOK, WindowOfTheNewest
<1>2. CASE d.events # Missing
  <2> DEFINE s == seenEvents[n]
             t == d.events
  <2>1. s \in Seq(Ts) /\ t \in Seq(Ts) /\ s \o t \in Seq(Ts)
    BY <1>0, <1>2, DumpType
  <2>2. events'[n] = MergeEvents(events[n], t) /\ seenEvents'[n] = s \o t
    BY <1>0, <1>2
  <2>3. events[n] = Window(Sorted(s)) \/ events[n] = s
    BY DEF RInv, WindowOfTheNewest
  <2>4. s \in Seq(Nat) /\ t \in Seq(Nat) /\ MAX_EVENTS \in Nat
    BY <2>1, Constants
  <2> HIDE DEF s, t
  <2>5. events'[n] = Window(Sorted(s \o t))
    BY <2>2, <2>3, <2>4, CutAgain DEF MergeEvents
  <2>6. \A m \in Node \ {n} : events'[m] = events[m] /\ seenEvents'[m] = seenEvents[m]
    BY <1>0
  <2>7. WindowOfTheNewest'
    BY <2>2, <2>5, <2>6 DEF RInv, WindowOfTheNewest
  <2>8. events'[n] \in Seq(Ts) /\ Len(events'[n]) <= MAX_EVENTS
    BY <2>1, <2>5, WindowType
  <2>9. events' = [events EXCEPT ![n] = events'[n]] /\ seenEvents' = [seenEvents EXCEPT ![n] = s \o t]
    BY <1>0, <1>2, <2>2
  <2>10. events' \in [Node -> Seq(Ts)] /\ seenEvents' \in [Node -> Seq(Ts)]
    BY <1>0, <2>1, <2>8, <2>9
  <2>11. \A m \in Node : Len(events'[m]) <= MAX_EVENTS
    BY <2>6, <2>8 DEF RInv, TypeOK
  <2> QED
    BY <2>7, <2>10, <2>11
<1> QED
  BY <1>1, <1>2

\* What a merge does to the rules of its node
LEMMA RulesMerged ==
    ASSUME RInv, NEW n \in Node, NEW d \in Dump \cup Held,
           IF Missing \in {d.events, d.rules, rules[n]}
           THEN UNCHANGED <<rules, acked>>
           ELSE /\ rules' = [rules EXCEPT ![n] = MergeMaps(@, d.rules)]
                /\ acked' = [acked EXCEPT ![n] = @ \cup {d}]
    PROVE  /\ rules' \in [Node -> RuleMap \cup {Missing}]
           /\ acked' \in [Node -> SUBSET (Dump \cup Held)]
           /\ \A m \in Node : \A e \in acked'[m] : e.rules # Missing
           /\ AckedRulesInForce'
<1>0. rules \in [Node -> RuleMap \cup {Missing}] /\ acked \in [Node -> SUBSET (Dump \cup Held)]
  BY DEF RInv, TypeOK, HistoriesOK
<1>1. CASE Missing \in {d.events, d.rules, rules[n]}
  BY <1>0, <1>1 DEF RInv, HistoriesOK, AckedRulesInForce
<1>2. CASE Missing \notin {d.events, d.rules, rules[n]}
  <2> DEFINE f == rules[n]
             g == d.rules
             h == MergeMaps(f, g)
  <2>1. f \in Maps(RuleId, Ts) /\ g \in Maps(RuleId, Ts) /\ Ts \in SUBSET (Nat \cup {NoTs}) /\ NoTs \notin Nat
    BY <1>0, <1>2, DumpType, Constants DEF RuleMap
  <2>2. /\ h \in Maps(RuleId, Ts)
        /\ DOMAIN h = DOMAIN f \cup DOMAIN g
        /\ \A k \in DOMAIN f \cup DOMAIN g :
               /\ k \notin DOMAIN f => h[k] = g[k]
               /\ k \notin DOMAIN g => h[k] = f[k]
               /\ k \in DOMAIN f /\ k \in DOMAIN g =>
                      /\ h[k] \in {f[k], g[k]}
                      /\ f[k] # NoTs => h[k] # NoTs /\ h[k] >= f[k]
                      /\ h[k] # NoTs /\ g[k] # NoTs => h[k] >= g[k]
    BY <2>1, MergedMaps
  <2>3. /\ rules'[n] = h /\ acked'[n] = acked[n] \cup {d}
        /\ \A m \in Node \ {n} : rules'[m] = rules[m] /\ acked'[m] = acked[m]
        /\ rules' \in [Node -> RuleMap \cup {Missing}] /\ acked' \in [Node -> SUBSET (Dump \cup Held)]
    BY <1>0, <1>2, <2>2 DEF RuleMap
  <2>4. \A k \in DOMAIN f : f[k] \in Nat /\ f[k] # NoTs
    BY <2>1, Constants DEF Maps
  <2>5. \A k \in DOMAIN g : g[k] \in Nat /\ g[k] # NoTs
    <3> HIDE DEF g
    <3> QED
      BY <2>1, Constants, MapValue
  <2>6. h # Missing
    BY <2>2, Constants DEF RuleMap
  <2> HIDE DEF h
  <2>7. \A k \in DOMAIN f : k \in DOMAIN h /\ h[k] >= f[k] /\ h[k] \in Nat
    BY <2>2, <2>4, <2>5
  <2>8. \A k \in DOMAIN g : k \in DOMAIN h /\ h[k] >= g[k]
    BY <2>2, <2>4, <2>5
  <2>9. ASSUME NEW e \in acked[n], NEW k \in DOMAIN e.rules PROVE k \in DOMAIN h /\ h[k] >= e.rules[k]
    <3>1. k \in DOMAIN f /\ f[k] >= e.rules[k]
      BY DEF RInv, AckedRulesInForce
    <3>2. e.rules \in RuleMap
      BY <1>0, DumpType DEF RInv, HistoriesOK
    <3>3. e.rules[k] \in Nat
      BY <3>2, Constants, MapValue DEF RuleMap
    <3> QED
      BY <2>4, <2>7, <3>1, <3>3
  <2>10. \A m \in Node : \A e \in acked'[m] : e.rules # Missing
    BY <1>2, <2>3 DEF RInv, HistoriesOK
  <2>11. AckedRulesInForce'
    <3>1. ASSUME NEW m \in Node, NEW e \in acked'[m]
          PROVE  /\ rules'[m] # Missing
                 /\ \A id \in DOMAIN e.rules : id \in DOMAIN rules'[m] /\ rules'[m][id] >= e.rules[id]
      <4>1. CASE m = n
        BY <2>3, <2>6, <2>8, <2>9, <4>1
      <4>2. CASE m # n
        BY <2>3, <4>2 DEF RInv, AckedRulesInForce
      <4> QED
        BY <4>1, <4>2
    <3> QED
      BY <3>1 DEF AckedRulesInForce
  <2> QED
    BY <2>3, <2>10, <2>11
<1> QED
  BY <1>1, <1>2

LEMMA ReplicateStep ==
    ASSUME RInv, NEW n \in Node, NEW d \in Dump \cup parcels, Replicate(n, d)
    PROVE  RInv'
<1>1. d \in Dump \cup Held
  BY DEF RInv, HistoriesOK
<1>2. /\ state' \in [Node -> StateMap]
      /\ seenState' \in [Node -> SUBSET (Key \X (Ts \cup {NoTs}))]
      /\ StateIsNewest'
  BY <1>1, StateMerged DEF Replicate, MergeData, Seen
<1>3. /\ events' \in [Node -> Seq(Ts)] /\ \A m \in Node : Len(events'[m]) <= MAX_EVENTS
      /\ seenEvents' \in [Node -> Seq(Ts)]
      /\ WindowOfTheNewest'
  BY <1>1, EventsMerged DEF Replicate, MergeData, Seen
<1>4. /\ rules' \in [Node -> RuleMap \cup {Missing}]
      /\ acked' \in [Node -> SUBSET (Dump \cup Held)]
      /\ \A m \in Node : \A e \in acked'[m] : e.rules # Missing
      /\ AckedRulesInForce'
  BY <1>1, RulesMerged DEF Replicate, MergeData
<1>5. merges' \in 0..MaxMerges /\ parcels' = parcels
  BY Constants DEF Replicate, RInv, TypeOK
<1>6. TypeOK'
  BY <1>2, <1>3, <1>4, <1>5 DEF RInv, TypeOK
<1>7. HistoriesOK'
  BY <1>2, <1>3, <1>4, <1>5 DEF RInv, HistoriesOK
<1> QED
  BY <1>2, <1>3, <1>4, <1>6, <1>7 DEF RInv

LEMMA TakeDumpStep ==
    ASSUME RInv, NEW n \in Node, TakeDump(n)
    PROVE  RInv'
<1>1. Data(n) \in Held
  BY DEF RInv, TypeOK, Data, Held
<1>2. /\ IsFiniteSet(parcels') /\ parcels' \subseteq Held
      /\ Cardinality(parcels') <= MaxParcels
  <2>1. IsFiniteSet(parcels) /\ Cardinality(parcels) \in Nat
    BY FS_CardinalityType DEF RInv, HistoriesOK
  <2>2. parcels' = parcels \cup {Data(n)} /\ Cardinality(parcels) < MaxParcels
    BY DEF TakeDump
  <2>3. /\ IsFiniteSet(parcels \cup {Data(n)})
        /\ Cardinality(parcels \cup {Data(n)}) =
               IF Data(n) \in parcels THEN Cardinality(parcels) ELSE Cardinality(parcels) + 1
    BY <2>1, FS_AddElement
  <2> QED
    BY <1>1, <2>1, <2>2, <2>3, Constants DEF RInv, HistoriesOK
<1>3. TypeOK' /\ HistoriesOK'
  BY <1>2 DEF TakeDump, RInv, TypeOK, HistoriesOK, Held
<1> QED
  BY <1>3 DEF TakeDump, RInv, StateIsNewest, WindowOfTheNewest, AckedRulesInForce

LEMMA RefreshStateStep ==
    ASSUME RInv, NEW n \in Node, RefreshState(n)
    PROVE  RInv'
<1>1. PICK keys \in SUBSET Key :
          /\ state' = [state EXCEPT ![n] = [k \in keys |-> NoTs]]
          /\ seenState' = [seenState EXCEPT ![n] = {<<k, NoTs>> : k \in keys}]
  BY DEF RefreshState
<1> DEFINE f == [k \in keys |-> NoTs]
           new == {<<k, NoTs>> : k \in keys}
<1>2. f \in StateMap /\ DOMAIN f = keys /\ \A k \in keys : f[k] = NoTs
  <2>1. f \in [keys -> Ts \cup {NoTs}]
    OBVIOUS
  <2> QED
    BY <2>1 DEF StateMap, Maps
<1>3. new \in SUBSET (Key \X (Ts \cup {NoTs})) /\ keys = {e[1] : e \in new} /\ \A k \in keys : <<k, NoTs>> \in new
  <2>1. \A k \in keys : <<k, NoTs>>[1] = k /\ <<k, NoTs>> \in new
    OBVIOUS
  <2>2. \A e \in new : e[1] \in keys /\ e \in Key \X (Ts \cup {NoTs})
    OBVIOUS
  <2> HIDE DEF new
  <2> QED
    BY <2>1, <2>2
<1> HIDE DEF f, new
<1>4. /\ state'[n] = f /\ seenState'[n] = new
      /\ \A m \in Node \ {n} : state'[m] = state[m] /\ seenState'[m] = seenState[m]
      /\ state' \in [Node -> StateMap] /\ seenState' \in [Node -> SUBSET (Key \X (Ts \cup {NoTs}))]
  BY <1>1, <1>2, <1>3 DEF RInv, TypeOK, HistoriesOK, f, new
<1>5. StateIsNewest'
  BY <1>2, <1>3, <1>4 DEF RInv, StateIsNewest
<1>6. TypeOK' /\ HistoriesOK'
  BY <1>4 DEF RefreshState, RInv, TypeOK, HistoriesOK
<1> QED
  BY <1>5, <1>6 DEF RefreshState, RInv, WindowOfTheNewest, AckedRulesInForce

LEMMA RefreshEventsStep ==
    ASSUME RInv, NEW n \in Node, RefreshEvents(n)
    PROVE  RInv'
<1>1. PICK s \in Refreshed : /\ events' = [events EXCEPT ![n] = s]
                             /\ seenEvents' = [seenEvents EXCEPT ![n] = s]
  BY DEF RefreshEvents
<1>2. s \in Seq(Ts) /\ Len(s) <= MAX_EVENTS
  BY ReplicationAssumption
<1>3. /\ events'[n] = s /\ seenEvents'[n] = s
      /\ \A m \in Node \ {n} : events'[m] = events[m] /\ seenEvents'[m] = seenEvents[m]
      /\ events' \in [Node -> Seq(Ts)] /\ seenEvents' \in [Node -> Seq(Ts)]
  BY <1>1, <1>2 DEF RInv, TypeOK, HistoriesOK
<1>4. Sorted(s) = Window(Sorted(s))
  BY <1>2, WindowType
<1>5. WindowOfTheNewest'
  BY <1>3, <1>4 DEF RInv, WindowOfTheNewest
<1>6. \A m \in Node : Len(events'[m]) <= MAX_EVENTS
  BY <1>2, <1>3 DEF RInv, TypeOK
<1>7. TypeOK' /\ HistoriesOK'
  BY <1>3, <1>6 DEF RefreshEvents, RInv, TypeOK, HistoriesOK
<1> QED
  BY <1>5, <1>7 DEF RefreshEvents, RInv, StateIsNewest, AckedRulesInForce

LEMMA RefreshRulesStep ==
    ASSUME RInv, NEW n \in Node, RefreshRules(n)
    PROVE  RInv'
<1>1. /\ acked'[n] = {} /\ rules'[n] = Missing
      /\ \A m \in Node \ {n} : rules'[m] = rules[m] /\ acked'[m] = acked[m]
      /\ rules' \in [Node -> RuleMap \cup {Missing}] /\ acked' \in [Node -> SUBSET (Dump \cup Held)]
  BY DEF RefreshRules, RInv, TypeOK, HistoriesOK
<1>2. AckedRulesInForce' /\ \A m \in Node : \A e \in acked'[m] : e.rules # Missing
  BY <1>1 DEF RInv, AckedRulesInForce, HistoriesOK
<1>3. TypeOK' /\ HistoriesOK'
  BY <1>1, <1>2 DEF RefreshRules, RInv, TypeOK, HistoriesOK
<1> QED
  BY <1>2, <1>3 DEF RefreshRules, RInv, StateIsNewest, WindowOfTheNewest

LEMMA RestartStep ==
    ASSUME RInv, NEW n \in Node, Restart(n)
    PROVE  RInv'
<1>1. Empty \in StateMap /\ Empty \in RuleMap /\ DOMAIN Empty = {} /\ <<>> \in Seq(Ts) /\ Len(<<>>) = 0
  BY EmptyIsMap DEF StateMap, RuleMap
<1>2. /\ state'[n] = Empty /\ events'[n] = <<>> /\ rules'[n] = Empty
      /\ seenState'[n] = {} /\ seenEvents'[n] = <<>> /\ acked'[n] = {}
  BY DEF Restart, RInv, TypeOK, HistoriesOK
<1>3. \A m \in Node \ {n} :
          /\ state'[m] = state[m] /\ events'[m] = events[m] /\ rules'[m] = rules[m]
          /\ seenState'[m] = seenState[m] /\ seenEvents'[m] = seenEvents[m] /\ acked'[m] = acked[m]
  BY DEF Restart, RInv, TypeOK, HistoriesOK
<1>4. /\ state' \in [Node -> StateMap] /\ seenState' \in [Node -> SUBSET (Key \X (Ts \cup {NoTs}))]
      /\ events' \in [Node -> Seq(Ts)] /\ seenEvents' \in [Node -> Seq(Ts)]
      /\ rules' \in [Node -> RuleMap \cup {Missing}] /\ acked' \in [Node -> SUBSET (Dump \cup Held)]
  BY <1>1 DEF Restart, RInv, TypeOK, HistoriesOK
<1>5. ASSUME NEW m \in Node PROVE Len(events'[m]) <= MAX_EVENTS
  <2>1. CASE m = n
    BY <1>1, <1>2, <2>1, Constants
  <2>2. CASE m # n
    BY <1>3, <2>2 DEF RInv, TypeOK
  <2> QED
    BY <2>1, <2>2
<1>6. \A m \in Node : \A e \in acked'[m] : e.rules # Missing
  BY <1>2, <1>3 DEF RInv, HistoriesOK
<1>7. TypeOK' /\ HistoriesOK'
  BY <1>4, <1>5, <1>6 DEF Restart, RInv, TypeOK, HistoriesOK
<1>8. StateIsNewest'
  BY <1>1, <1>2, <1>3 DEF RInv, StateIsNewest
<1>9. WindowOfTheNewest'
  BY <1>2, <1>3, NothingSorted DEF RInv, WindowOfTheNewest
<1>10. AckedRulesInForce'
  BY <1>2, <1>3 DEF RInv, AckedRulesInForce
<1> QED
  BY <1>7, <1>8, <1>9, <1>10 DEF RInv

LEMMA Steps == RInv /\ [Next]_vars => RInv'
<1> SUFFICES ASSUME RInv, [Next]_vars PROVE RInv'
  OBVIOUS
<1>1. CASE UNCHANGED vars
  BY <1>1 DEF vars, RInv, TypeOK, HistoriesOK, StateIsNewest, WindowOfTheNewest, AckedRulesInForce
<1>2. CASE Timers
  BY <1>1, <1>2, RefreshStateStep, RefreshEventsStep, RefreshRulesStep DEF Timers, SyncTick
<1>3. CASE Clients
  BY <1>1, <1>3, ReplicateStep, TakeDumpStep DEF Clients, ReplicatePlain
<1>4. CASE \E n \in Node : Restart(n)
  BY <1>4, RestartStep
<1> QED
  BY <1>1, <1>2, <1>3, <1>4 DEF Next

-----------------------------------------------------------------------------
(* Whatever dumps are merged, in any order and repeatedly, between any     *)
(* refreshes and restarts, a node's state has of each key the newest entry *)
(* it came by, and its window the newest events (mergeData,                *)
(* refreshLocalSnapshot).                                                  *)
THEOREM CopiesKeepTheNewest == Spec => []CopiesAreOfTheNewest
<1>1. RInv => CopiesAreOfTheNewest
  BY DEF RInv, CopiesAreOfTheNewest
<1> QED
  BY <1>1, Starts, Steps, PTL DEF Spec

(* The rules of a dump that was answered 200 stay in force, they or newer  *)
(* ones, until a refresh or a restart replaces the rules (mergeData).      *)
THEOREM AckedRulesStay == Spec => []AckedRulesInForce
<1>1. RInv => AckedRulesInForce
  BY DEF RInv
<1> QED
  BY <1>1, Starts, Steps, PTL DEF Spec

\* What LatestRuleWins says of every merge, of one that finds rules to merge with
MergedRulesWin ==
    \A n \in Node : \A d \in Dump :
        Replicate(n, d) /\ Missing \notin {d.events, d.rules, rules[n]} =>
            /\ rules'[n] # Missing
            /\ \A id \in DOMAIN d.rules : id \in DOMAIN rules'[n] /\ rules'[n][id] >= d.rules[id]

(* LatestRuleWins holds of every merge at a node whose rules no refresh has*)
(* replaced: the 404 object of refreshLocalSnapshot is the only reason why *)
(* it does not hold of all.                                                *)
THEOREM LatestRuleWinsUntilRefreshed == Spec => [][MergedRulesWin]_vars
<1>1. ASSUME RInv, [Next]_vars, NEW n \in Node, NEW d \in Dump, Replicate(n, d),
             Missing \notin {d.events, d.rules, rules[n]}
      PROVE  /\ rules'[n] # Missing
             /\ \A id \in DOMAIN d.rules : id \in DOMAIN rules'[n] /\ rules'[n][id] >= d.rules[id]
  <2>1. acked' = [acked EXCEPT ![n] = @ \cup {d}]
    BY <1>1 DEF Replicate, MergeData
  <2>2. d \in acked'[n]
    BY <1>1, <2>1 DEF RInv, HistoriesOK
  <2>3. RInv'
    BY <1>1, Steps
  <2> QED
    BY <2>2, <2>3 DEF RInv, AckedRulesInForce
<1>2. RInv /\ [Next]_vars => [MergedRulesWin]_vars
  BY <1>1 DEF MergedRulesWin
<1> QED
  BY <1>2, Starts, Steps, PTL DEF Spec
=============================================================================

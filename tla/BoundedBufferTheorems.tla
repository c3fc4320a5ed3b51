------------------------ MODULE BoundedBufferTheorems ------------------------
(***************************************************************************)
(* What PushBounded returns, for every buffer within its bound, what       *)
(* ElementsAt and Spliced keep of a buffer, and what deleting, storing and *)
(* looking for the oldest key do to a table (BoundedTable).                *)
(***************************************************************************)
EXTENDS BoundedBuffer, FiniteSetTheorems, WellFoundedInduction, TLAPS

Table == INSTANCE BoundedTable

\* Pushing keeps the buffer typed and within its bound: the bounded memory of
\* queues, bus and logs (services/queue/index.js:30-35 and its copies).
THEOREM PushBoundedType ==
    ASSUME NEW S, NEW s \in Seq(S), NEW x \in S, NEW max \in Nat \ {0}, Len(s) <= max
    PROVE  /\ PushBounded(s, x, max) \in Seq(S)
           /\ Len(PushBounded(s, x, max)) = IF Len(s) = max THEN max ELSE Len(s) + 1
           /\ Len(PushBounded(s, x, max)) <= max
<1> DEFINE t == Append(s, x)
<1>1. t \in Seq(S) /\ Len(t) = Len(s) + 1
  OBVIOUS
<1>2. CASE Len(s) = max
  <2>1. Len(t) > max /\ t # <<>>
    BY <1>1, <1>2
  <2>2. Tail(t) \in Seq(S) /\ Len(Tail(t)) = Len(t) - 1
    BY <1>1, <2>1
  <2>3. PushBounded(s, x, max) = Tail(t)
    BY <2>1 DEF PushBounded
  <2> QED BY <1>1, <1>2, <2>2, <2>3
<1>3. CASE Len(s) # max
  <2>1. PushBounded(s, x, max) = t
    BY <1>1, <1>3 DEF PushBounded
  <2> QED BY <1>1, <1>3, <2>1
<1> QED BY <1>2, <1>3

\* ... and shifts the elements by one exactly when the buffer was full: the
\* new element is last, and the oldest one is what a full buffer gives up.
THEOREM PushBoundedElements ==
    ASSUME NEW S, NEW s \in Seq(S), NEW x \in S, NEW max \in Nat \ {0}, Len(s) <= max
    PROVE  \A i \in 1..Len(PushBounded(s, x, max)) :
               LET j == IF Len(s) = max THEN i + 1 ELSE i
               IN PushBounded(s, x, max)[i] = IF j = Len(s) + 1 THEN x ELSE s[j]
<1> DEFINE t == Append(s, x)
<1>1. t \in Seq(S) /\ Len(t) = Len(s) + 1
  OBVIOUS
<1>2. \A j \in 1..Len(t) : t[j] = IF j = Len(s) + 1 THEN x ELSE s[j]
  OBVIOUS
<1>3. CASE Len(s) = max
  <2>1. Len(t) > max /\ t # <<>>
    BY <1>1, <1>3
  <2>2. PushBounded(s, x, max) = Tail(t)
    BY <2>1 DEF PushBounded
  <2>3. Len(Tail(t)) = Len(s) /\ \A i \in 1..Len(Tail(t)) : Tail(t)[i] = t[i + 1]
    BY <1>1, <2>1
  <2> QED BY <1>1, <1>2, <1>3, <2>2, <2>3
<1>4. CASE Len(s) # max
  <2>1. PushBounded(s, x, max) = t
    BY <1>1, <1>4 DEF PushBounded
  <2> QED BY <1>1, <1>2, <1>4, <2>1
<1> QED BY <1>3, <1>4

\* Only the pushed element is new, whatever the length of the buffer.
THEOREM PushBoundedMembers ==
    ASSUME NEW S, NEW s \in Seq(S), NEW x \in S, NEW max
    PROVE  /\ PushBounded(s, x, max) \in Seq(S)
           /\ \A i \in 1..Len(PushBounded(s, x, max)) :
                  \/ PushBounded(s, x, max)[i] = x
                  \/ \E j \in 1..Len(s) : PushBounded(s, x, max)[i] = s[j]
<1> DEFINE t == Append(s, x)
<1>1. t \in Seq(S) /\ Len(t) = Len(s) + 1
  OBVIOUS
<1>2. Len(t) > 0 /\ t # <<>>
  BY <1>1
<1>3. \A i \in 1..Len(t) : t[i] = x \/ \E j \in 1..Len(s) : t[i] = s[j]
  OBVIOUS
<1>4. /\ Tail(t) \in Seq(S)
      /\ \A i \in 1..Len(Tail(t)) : Tail(t)[i] = t[i + 1] /\ i + 1 \in 1..Len(t)
  BY <1>1, <1>2
<1>5. PushBounded(s, x, max) = t \/ PushBounded(s, x, max) = Tail(t)
  BY DEF PushBounded
<1> HIDE DEF t
<1> QED BY <1>1, <1>3, <1>4, <1>5

-----------------------------------------------------------------------------
\* Nth numbers the positions without a gap.
LEMMA NthNumbers ==
    ASSUME NEW n \in Nat, NEW P \in SUBSET (1..n)
    PROVE  /\ IsFiniteSet(P) /\ Cardinality(P) \in 0..n
           /\ \A i \in 1..Cardinality(P) : Nth(P, i) \in P
           /\ \A k \in P : \E i \in 1..Cardinality(P) : Nth(P, i) = k
           /\ \A i, j \in 1..Cardinality(P) : Nth(P, i) = Nth(P, j) => i = j
           /\ \A i \in 1..Cardinality(P) : Cardinality({j \in P : j < Nth(P, i)}) = i - 1
           /\ \A i, j \in 1..Cardinality(P) : i < j => Nth(P, i) < Nth(P, j)
<1> DEFINE Below(k) == {j \in P : j < k}
           rank == [k \in P |-> Cardinality(Below(k)) + 1]
<1>1. IsFiniteSet(P) /\ Cardinality(P) \in Nat /\ Cardinality(P) <= n
  <2>1. IsFiniteSet(1..n) /\ Cardinality(1..n) = n
    BY FS_Interval
  <2> QED
    BY <2>1, FS_Subset, FS_CardinalityType
<1>2. ASSUME NEW k \in P
      PROVE  Cardinality(Below(k)) \in Nat /\ Cardinality(Below(k)) < Cardinality(P)
  <2>1. Below(k) \subseteq P /\ k \in P /\ k \notin Below(k)
    OBVIOUS
  <2>2. IsFiniteSet(Below(k)) /\ Cardinality(Below(k)) <= Cardinality(P) /\ Cardinality(Below(k)) # Cardinality(P)
    BY <1>1, <2>1, FS_Subset
  <2> QED
    BY <1>1, <2>2, FS_CardinalityType
<1>3. ASSUME NEW k \in P, NEW m \in P, k < m
      PROVE  Cardinality(Below(k)) # Cardinality(Below(m))
  <2>0. \A j \in P : j < k => j < m
    BY <1>3
  <2>1. Below(k) \subseteq Below(m)
    BY <2>0
  <2>2. k \in Below(m) /\ k \notin Below(k) /\ Below(m) \subseteq P
    BY <1>3
  <2>3. IsFiniteSet(Below(m))
    BY <1>1, <2>2, FS_Subset
  <2> QED
    BY <2>1, <2>2, <2>3, FS_Subset
<1>4. rank \in [P -> 1..Cardinality(P)]
  BY <1>1, <1>2
<1>5. ASSUME NEW k \in P, NEW m \in P, rank[k] = rank[m]
      PROVE  k = m
  <2>1. Cardinality(Below(k)) = Cardinality(Below(m))
    BY <1>2, <1>5
  <2>2. k \in Nat /\ m \in Nat
    OBVIOUS
  <2> HIDE DEF Below
  <2> QED
    BY <1>3, <2>1, <2>2
<1>6. rank \in Injection(P, 1..Cardinality(P))
  <2> HIDE DEF rank
  <2> QED
    BY <1>4, <1>5 DEF Injection, IsInjective
<1>7. rank \in Surjection(P, 1..Cardinality(P))
  <2>1. IsFiniteSet(1..Cardinality(P)) /\ Cardinality(1..Cardinality(P)) = Cardinality(P)
    BY <1>1, FS_Interval
  <2> QED
    BY <1>6, <2>1, FS_Injection
<1>8. ASSUME NEW i \in 1..Cardinality(P)
      PROVE  /\ Nth(P, i) \in P /\ rank[Nth(P, i)] = i
             /\ Cardinality(Below(Nth(P, i))) = i - 1
  <2>1. PICK k \in P : rank[k] = i
    BY <1>7 DEF Surjection
  <2>2. Cardinality(Below(k)) = i - 1
    BY <1>2, <2>1
  <2>3. Nth(P, i) \in P /\ Cardinality(Below(Nth(P, i))) = i - 1
    BY <2>2 DEF Nth
  <2> QED
    BY <2>3
<1>9. ASSUME NEW k \in P
      PROVE  \E i \in 1..Cardinality(P) : Nth(P, i) = k
  <2>1. rank[k] \in 1..Cardinality(P)
    BY <1>4
  <2> HIDE DEF rank
  <2> QED
    BY <1>5, <1>8, <2>1
<1>10. ASSUME NEW i \in 1..Cardinality(P), NEW j \in 1..Cardinality(P), i < j
       PROVE  Nth(P, i) < Nth(P, j)
  <2> DEFINE k == Nth(P, i)
             m == Nth(P, j)
  <2>0. \A x \in P : x \in Nat
    OBVIOUS
  <2>1. /\ k \in P /\ m \in P
        /\ Cardinality(Below(k)) = i - 1 /\ Cardinality(Below(m)) = j - 1
    BY <1>8
  <2>3. k \in Nat /\ m \in Nat
    BY <2>0, <2>1
  <2> HIDE DEF k, m
  <2>2. CASE m <= k
    <3>1. \A x \in P : x < m => x < k
      BY <2>0, <2>2, <2>3
    <3>2. Below(m) \subseteq Below(k)
      BY <3>1
    <3>3. Below(k) \subseteq P
      OBVIOUS
    <3>4. IsFiniteSet(Below(k))
      BY <1>1, <3>3, FS_Subset
    <3> HIDE DEF Below
    <3>5. Cardinality(Below(m)) <= Cardinality(Below(k))
      BY <3>2, <3>4, FS_Subset
    <3> QED BY <1>10, <2>1, <3>5
  <2> QED BY <2>2, <2>3 DEF k, m
<1>11. \A i \in 1..Cardinality(P) : Cardinality({j \in P : j < Nth(P, i)}) = i - 1
  BY <1>8
<1> HIDE DEF rank, Below
<1>12. \A i, j \in 1..Cardinality(P) : Nth(P, i) = Nth(P, j) => i = j
  BY <1>8
<1>13. \A i \in 1..Cardinality(P) : Nth(P, i) \in P
  BY <1>8
<1>14. Cardinality(P) \in 0..n
  BY <1>1
<1> QED
  BY <1>1, <1>9, <1>10, <1>11, <1>12, <1>13, <1>14

\* What is left of a buffer has the elements at the positions that are kept,
\* each once (cleanupExpired, services/directory/index.js:50-58, and its like).
THEOREM ElementsAtKeeps ==
    ASSUME NEW S, NEW s \in Seq(S), NEW P \in SUBSET (1..Len(s))
    PROVE  /\ ElementsAt(s, P) \in Seq(S)
           /\ Len(ElementsAt(s, P)) = Cardinality(P)
           /\ Cardinality(P) \in 0..Len(s)
           /\ \A i \in 1..Cardinality(P) : Nth(P, i) \in P /\ ElementsAt(s, P)[i] = s[Nth(P, i)]
           /\ \A k \in P : \E i \in 1..Cardinality(P) : ElementsAt(s, P)[i] = s[k]
           /\ \A i, j \in 1..Cardinality(P) : Nth(P, i) = Nth(P, j) => i = j
<1> DEFINE n == Cardinality(P)
           t == ElementsAt(s, P)
<1>1. Len(s) \in Nat
  OBVIOUS
<1>2. /\ n \in 0..Len(s)
      /\ \A i \in 1..n : Nth(P, i) \in P
      /\ \A k \in P : \E i \in 1..n : Nth(P, i) = k
      /\ \A i, j \in 1..n : Nth(P, i) = Nth(P, j) => i = j
  BY <1>1, NthNumbers
<1> HIDE DEF n
<1>3. t = [i \in 1..n |-> s[Nth(P, i)]]
  BY DEF ElementsAt, n
<1>4. \A i \in 1..n : s[Nth(P, i)] \in S
  <2>1. \A k \in P : s[k] \in S
    OBVIOUS
  <2> QED
    BY <1>2, <2>1
<1>5. t \in Seq(S) /\ Len(t) = n
  BY <1>2, <1>3, <1>4
<1> QED
  BY <1>2, <1>3, <1>5 DEF n

-----------------------------------------------------------------------------
\* Where the i-th element of what splice leaves was before.
Before(i, k) == IF i < k THEN i ELSE i + 1

\* splice takes one element out and keeps the others in their order.
THEOREM SplicedKeeps ==
    ASSUME NEW S, NEW s \in Seq(S), NEW k \in 1..Len(s)
    PROVE  /\ Spliced(s, k) \in Seq(S)
           /\ Len(Spliced(s, k)) = Len(s) - 1
           /\ \A i \in 1..(Len(s) - 1) :
                  Before(i, k) \in 1..Len(s) /\ Before(i, k) # k /\ Spliced(s, k)[i] = s[Before(i, k)]
           /\ \A i, j \in 1..(Len(s) - 1) : i < j => Before(i, k) < Before(j, k)
           /\ \A j \in 1..Len(s) : j # k =>
                  \E i \in 1..(Len(s) - 1) : j = Before(i, k) /\ Spliced(s, k)[i] = s[j]
<1> DEFINE n == Len(s) - 1
           J(i) == Before(i, k)
           t == Spliced(s, k)
<1>1. n \in Nat /\ Len(s) = n + 1 /\ k \in 1..(n + 1)
  OBVIOUS
<1>2. t = [i \in 1..n |-> s[J(i)]]
  BY DEF Spliced, Before
<1>3. \A i \in 1..n : J(i) \in 1..Len(s) /\ J(i) # k
  BY <1>1 DEF Before
<1>9. \A i, j \in 1..n : i < j => J(i) < J(j)
  BY <1>1 DEF Before
<1>4. \A j \in 1..Len(s) : s[j] \in S
  OBVIOUS
<1> HIDE DEF n, J, t
<1>5. t \in Seq(S) /\ Len(t) = n
  BY <1>1, <1>2, <1>3, <1>4
<1>6. \A i \in 1..n : t[i] = s[J(i)]
  BY <1>2
<1>7. ASSUME NEW j \in 1..Len(s), j # k
      PROVE  \E i \in 1..n : j = J(i)
  <2>1. CASE j < k
    <3>1. j \in 1..n /\ J(j) = j
      BY <1>1, <2>1 DEF J, Before
    <3> QED BY <3>1
  <2>2. CASE j > k
    <3>1. j - 1 \in 1..n /\ ~(j - 1 < k) /\ (j - 1) + 1 = j
      BY <1>1, <2>2
    <3>2. J(j - 1) = j
      BY <3>1 DEF J, Before
    <3> QED BY <3>1, <3>2
  <2> QED BY <1>1, <1>7, <2>1, <2>2
<1>8. \A j \in 1..Len(s) : j # k => \E i \in 1..n : j = J(i) /\ t[i] = s[j]
  BY <1>6, <1>7
<1> USE DEF n, J, t
<1> QED BY <1>3, <1>5, <1>6, <1>8, <1>9

-----------------------------------------------------------------------------
\* The rows of a table, and that no key has two.
Rows(t) == {t[i] : i \in 1..Len(t)}
Distinct(t) == \A i, j \in 1..Len(t) : t[i].key = t[j].key => i = j

\* delete TABLE[key] takes the key's row and no other
\* (services/state/index.js:27-31, lib/peers.js).
THEOREM WithoutKeeps ==
    ASSUME NEW S, NEW t \in Seq(S), NEW key, Distinct(t)
    PROVE  /\ Table!Without(t, key) \in Seq(S) /\ Distinct(Table!Without(t, key))
           /\ Rows(Table!Without(t, key)) = {r \in Rows(t) : r.key # key}
           /\ Len(Table!Without(t, key)) = IF key \in Table!Keys(t) THEN Len(t) - 1 ELSE Len(t)
<1> DEFINE u == Table!Without(t, key)
<1>0. DOMAIN t = 1..Len(t) /\ Len(t) \in Nat
  OBVIOUS
<1>1. CASE key \notin Table!Keys(t)
  <2>1. u = t
    BY <1>1 DEF Table!Without
  <2>2. \A r \in Rows(t) : r.key # key
    BY <1>0, <1>1 DEF Rows, Table!Keys
  <2> QED BY <1>1, <2>1, <2>2
<1>2. CASE key \in Table!Keys(t)
  <2> DEFINE k == Table!PlaceOf(t, key)
             n == Len(t) - 1
  <2>1. k \in 1..Len(t) /\ t[k].key = key
    BY <1>0, <1>2 DEF Table!Keys, Table!PlaceOf
  <2>2. u = Spliced(t, k)
    BY <1>2 DEF Table!Without, Table!Spliced, Spliced
  <2> HIDE DEF u, k
  <2>3. /\ u \in Seq(S) /\ Len(u) = n
        /\ \A i \in 1..n : Before(i, k) \in 1..Len(t) /\ Before(i, k) # k /\ u[i] = t[Before(i, k)]
        /\ \A i, j \in 1..n : i < j => Before(i, k) < Before(j, k)
        /\ \A j \in 1..Len(t) : j # k => \E i \in 1..n : j = Before(i, k) /\ u[i] = t[j]
    <3>1. /\ Spliced(t, k) \in Seq(S)
          /\ Len(Spliced(t, k)) = Len(t) - 1
          /\ \A i \in 1..(Len(t) - 1) :
                 /\ Before(i, k) \in 1..Len(t) /\ Before(i, k) # k
                 /\ Spliced(t, k)[i] = t[Before(i, k)]
          /\ \A i, j \in 1..(Len(t) - 1) : i < j => Before(i, k) < Before(j, k)
          /\ \A j \in 1..Len(t) : j # k =>
                 \E i \in 1..(Len(t) - 1) : j = Before(i, k) /\ Spliced(t, k)[i] = t[j]
      BY <2>1, SplicedKeeps, Zenon
    <3> QED BY <2>2, <3>1
  <2>4. \A i, j \in 1..n : Before(i, k) = Before(j, k) => i = j
    BY <1>0, <2>1, <2>3
  <2> HIDE DEF n
  <2>5. Distinct(u)
    BY <2>3, <2>4 DEF Distinct
  <2>6. ASSUME NEW r \in Rows(u) PROVE r \in Rows(t) /\ r.key # key
    <3>1. PICK i \in 1..n : r = t[Before(i, k)] /\ Before(i, k) \in 1..Len(t) /\ Before(i, k) # k
      BY <2>3 DEF Rows
    <3> QED BY <2>1, <3>1 DEF Rows, Distinct
  <2>7. ASSUME NEW r \in Rows(t), r.key # key PROVE r \in Rows(u)
    <3>1. PICK j \in 1..Len(t) : r = t[j]
      BY DEF Rows
    <3>2. j # k
      BY <2>1, <2>7, <3>1
    <3> QED BY <2>3, <3>1, <3>2 DEF Rows
  <2> QED BY <1>2, <2>3, <2>5, <2>6, <2>7 DEF u, n
<1> QED BY <1>1, <1>2

\* TABLE[key] = entry gives the key this row and leaves the others.
THEOREM StoredKeeps ==
    ASSUME NEW S, NEW t \in Seq(S), NEW e \in S, Distinct(t)
    PROVE  /\ Table!Stored(t, e) \in Seq(S) /\ Distinct(Table!Stored(t, e))
           /\ Rows(Table!Stored(t, e)) = {r \in Rows(t) : r.key # e.key} \cup {e}
           /\ Len(Table!Stored(t, e)) = IF e.key \in Table!Keys(t) THEN Len(t) ELSE Len(t) + 1
<1> DEFINE u == Table!Stored(t, e)
<1>0. DOMAIN t = 1..Len(t) /\ Len(t) \in Nat
  OBVIOUS
<1>1. CASE e.key \in Table!Keys(t)
  <2> DEFINE V(i) == IF t[i].key = e.key THEN e ELSE t[i]
  <2>1. u = [i \in 1..Len(t) |-> V(i)]
    BY <1>0, <1>1 DEF Table!Stored
  <2>2. \A i \in 1..Len(t) : V(i) \in S /\ V(i).key = t[i].key
    OBVIOUS
  <2> HIDE DEF V, u
  <2>3. u \in Seq(S) /\ Len(u) = Len(t) /\ \A i \in 1..Len(t) : u[i] = V(i)
    BY <1>0, <2>1, <2>2
  <2>4. Distinct(u)
    BY <2>2, <2>3 DEF Distinct
  <2>5. ASSUME NEW r \in Rows(u) PROVE r = e \/ (r \in Rows(t) /\ r.key # e.key)
    <3>1. PICK i \in 1..Len(t) : r = V(i)
      BY <2>3 DEF Rows
    <3> QED BY <3>1 DEF V, Rows
  <2>6. ASSUME NEW r \in Rows(t), r.key # e.key PROVE r \in Rows(u)
    <3>1. PICK i \in 1..Len(t) : r = t[i]
      BY DEF Rows
    <3> QED BY <2>3, <2>6, <3>1 DEF V, Rows
  <2>7. e \in Rows(u)
    <3>1. PICK i \in 1..Len(t) : t[i].key = e.key
      BY <1>0, <1>1 DEF Table!Keys
    <3> QED BY <2>3, <3>1 DEF V, Rows
  <2> QED BY <1>1, <2>3, <2>4, <2>5, <2>6, <2>7 DEF u
<1>2. CASE e.key \notin Table!Keys(t)
  <2>1. u = Append(t, e)
    BY <1>2 DEF Table!Stored
  <2> HIDE DEF u
  <2>2. /\ u \in Seq(S) /\ Len(u) = Len(t) + 1 /\ u[Len(t) + 1] = e
        /\ \A i \in 1..Len(t) : u[i] = t[i] /\ i \in 1..Len(u)
        /\ \A i \in 1..Len(u) : i \in 1..Len(t) \/ i = Len(t) + 1
        /\ Len(t) + 1 \in 1..Len(u)
    BY <2>1
  <2>3. \A i \in 1..Len(t) : t[i].key # e.key
    BY <1>0, <1>2 DEF Table!Keys
  <2>4. Distinct(u)
    BY <2>2, <2>3 DEF Distinct
  <2>5. Rows(u) = Rows(t) \cup {e} /\ Rows(t) = {r \in Rows(t) : r.key # e.key}
    <3>1. Rows(u) \subseteq Rows(t) \cup {e}
      BY <2>2 DEF Rows
    <3>2. Rows(t) \subseteq Rows(u) /\ e \in Rows(u)
      BY <2>2 DEF Rows
    <3> QED BY <2>3, <3>1, <3>2 DEF Rows
  <2> QED BY <1>2, <2>2, <2>4, <2>5 DEF u
<1> QED BY <1>1, <1>2

\* The oldest key is that of a row, and no row is older.
THEOREM OldestKeyIsOldest ==
    ASSUME NEW S, NEW t \in Seq(S), t # <<>>, \A r \in Rows(t) : r.ts \in Nat
    PROVE  \E o \in Rows(t) : /\ Table!OldestKey(t) = o.key
                              /\ \A r \in Rows(t) : o.ts <= r.ts
<1> DEFINE D == 1..Len(t)
           Stamps == {t[i].ts : i \in D}
<1>0. DOMAIN t = D /\ Len(t) \in Nat /\ 1 \in D
  OBVIOUS
<1>1. \A i \in D : t[i].ts \in Nat /\ t[i] \in Rows(t)
  BY DEF Rows
<1>2. PICK least \in Stamps : \A x \in Stamps : ~(x < least)
  <2>1. Stamps # {} /\ Stamps \subseteq Nat
    BY <1>0, <1>1
  <2>2. PICK least \in Stamps : \A x \in Stamps : ~(<<x, least>> \in OpToRel(<, Nat))
    BY <2>1, NatLessThanWellFounded, WFMin
  <2> QED BY <2>1, <2>2 DEF OpToRel
<1> DEFINE First == {i \in D : t[i].ts = least}
<1>3. PICK i \in First : \A j \in First : ~(j < i)
  <2>1. First # {} /\ First \subseteq Nat
    BY <1>0
  <2>2. PICK i \in First : \A j \in First : ~(<<j, i>> \in OpToRel(<, Nat))
    BY <2>1, NatLessThanWellFounded, WFMin
  <2> QED BY <2>1, <2>2 DEF OpToRel
<1> DEFINE Oldest(m) == \A j \in D : t[m].ts < t[j].ts \/ (t[m].ts = t[j].ts /\ m <= j)
<1>4. Oldest(i)
  <2> SUFFICES ASSUME NEW j \in D PROVE t[i].ts < t[j].ts \/ (t[i].ts = t[j].ts /\ i <= j)
    OBVIOUS
  <2>1. t[i].ts = least /\ t[j].ts \in Nat /\ least \in Nat /\ ~(t[j].ts < least)
    BY <1>1, <1>2
  <2>2. CASE t[j].ts = least
    <3>1. ~(j < i) /\ i \in Nat /\ j \in Nat
      BY <1>3, <2>2
    <3> QED BY <2>1, <2>2, <3>1
  <2> QED BY <2>1, <2>2
<1> DEFINE o == CHOOSE m \in D : Oldest(m)
<1>5. o \in D /\ Oldest(o)
  BY <1>3, <1>4
<1>6. Table!OldestKey(t) = t[o].key
  BY <1>0 DEF Table!OldestKey
<1> HIDE DEF o
<1>7. \A r \in Rows(t) : t[o].ts <= r.ts
  <2>1. \A j \in D : t[o].ts <= t[j].ts
    BY <1>1, <1>5
  <2> QED BY <2>1 DEF Rows
<1> QED BY <1>1, <1>5, <1>6, <1>7

\* A table has as many keys as rows.
THEOREM KeysCounted ==
    ASSUME NEW S, NEW t \in Seq(S), Distinct(t)
    PROVE  IsFiniteSet(Table!Keys(t)) /\ Cardinality(Table!Keys(t)) = Len(t)
<1> DEFINE f == [i \in 1..Len(t) |-> t[i].key]
<1>1. DOMAIN t = 1..Len(t) /\ Len(t) \in Nat
  OBVIOUS
<1>2. f \in [1..Len(t) -> Table!Keys(t)] /\ \A k \in Table!Keys(t) : \E i \in 1..Len(t) : f[i] = k
  BY <1>1 DEF Table!Keys
<1>3. \A i, j \in 1..Len(t) : f[i] = f[j] => i = j
  BY DEF Distinct
<1> HIDE DEF f
<1>4. f \in Surjection(1..Len(t), Table!Keys(t)) /\ f \in Injection(1..Len(t), Table!Keys(t))
  BY <1>2, <1>3 DEF Surjection, Injection, IsInjective
<1>5. IsFiniteSet(1..Len(t)) /\ Cardinality(1..Len(t)) = Len(t)
  BY <1>1, FS_Interval
<1> QED BY <1>4, <1>5, FS_Surjection

\* The keys are those of the rows.
LEMMA KeysOfRows == ASSUME NEW S, NEW t \in Seq(S) PROVE Table!Keys(t) = {r.key : r \in Rows(t)}
<1>1. DOMAIN t = 1..Len(t)
  OBVIOUS
<1> QED BY <1>1 DEF Table!Keys, Rows

=============================================================================

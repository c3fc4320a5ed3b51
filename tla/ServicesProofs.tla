----------------------------- MODULE ServicesProofs -----------------------------
(***************************************************************************)
(* For any names, payloads, subscribers, keys, proposals and bounds.       *)
(*                                                                         *)
(* The queue service keeps its types and its memory bound, every queue is  *)
(* the unbroken end of what it accepted, consumers are given what was      *)
(* accepted, once and in order, and the service implements BoundedFifo.    *)
(*                                                                         *)
(* The bus calls every subscriber for what its subscription covers, and    *)
(* answers with the newest events; analytics' metrics are of one reading   *)
(* of bus and log; the state store keeps a key until newer ones have       *)
(* filled it; a proposal has the status its last report gave it.           *)
(***************************************************************************)
EXTENDS MCServices, BoundedBufferTheorems, SequenceTheorems, TLAPS

-----------------------------------------------------------------------------
(* The queue service *)

\* The inductive invariant is the conjunction of what the runs check: a step's
\* effect on a queue depends on its bound (whether push shifts) and on
\* HoldsTheEnd (which position the front has).
QInv == TypeOK /\ BoundedMemory /\ HoldsTheEnd /\ GivenWasAccepted

\* The items of any name are a sequence of payloads.
LEMMA ItemsType ==
    ASSUME TypeOK, NEW q \in QueueName
    PROVE  Items(q) \in Seq(Payload)
BY DEF TypeOK, QueuesTypeOK, Items

\* Setting one queue's items leaves the others' alone.
LEMMA WithItemsProperties ==
    ASSUME TypeOK, NEW q \in QueueName, NEW s \in Seq(Payload), QUEUES' = WithItems(q, s)
    PROVE  /\ QueuesTypeOK'
           /\ Items(q)' = s
           /\ \A n \in QueueName \ {q} : Items(n)' = Items(n)
BY DEF TypeOK, QueuesTypeOK, Items, WithItems

\* The arithmetic of positions, for the provers
LEMMA PlusOne == \A a, b \in Nat : a + (b + 1) = (a + b) + 1 /\ (a + 1) + b = (a + b) + 1
OBVIOUS

LEMMA InitQInv == HInit => QInv
BY QueueAssumption
   DEF HInit, Init, QInv, TypeOK, QueuesTypeOK, BoundedMemory, HoldsTheEnd, GivenWasAccepted, Items

\* POST /enqueue
LEMMA EnqueueQInv ==
    ASSUME QInv, NEW q \in QueueName, NEW x \in Payload, HEnqueue(q, x)
    PROVE  QInv'
<1> USE QueueAssumption
<1> DEFINE s == PushBounded(Items(q), x, MAX_QUEUE_SIZE)
<1>1. /\ Items(q) \in Seq(Payload)
      /\ Len(Items(q)) <= MAX_QUEUE_SIZE
      /\ gone[q] + Len(Items(q)) = Len(accepted[q])
      /\ accepted[q] \in Seq(Payload) /\ gone[q] \in Nat
  BY ItemsType DEF QInv, BoundedMemory, HoldsTheEnd, TypeOK
<1>2. /\ s \in Seq(Payload)
      /\ Len(s) = IF Len(Items(q)) = MAX_QUEUE_SIZE THEN MAX_QUEUE_SIZE ELSE Len(Items(q)) + 1
      /\ Len(s) <= MAX_QUEUE_SIZE
  BY <1>1, PushBoundedType
<1>3. \A i \in 1..Len(s) :
          LET j == IF Len(Items(q)) = MAX_QUEUE_SIZE THEN i + 1 ELSE i
          IN s[i] = IF j = Len(Items(q)) + 1 THEN x ELSE Items(q)[j]
  BY <1>1, PushBoundedElements
<1>4. /\ QueuesTypeOK' /\ Items(q)' = s
      /\ \A n \in QueueName \ {q} : Items(n)' = Items(n)
  <2>1. QUEUES' = WithItems(q, s)
    BY DEF HEnqueue, Enqueue
  <2> QED BY <1>2, <2>1, WithItemsProperties DEF QInv
<1>5. /\ accepted' = [accepted EXCEPT ![q] = Append(@, x)]
      /\ gone' = [gone EXCEPT ![q] = IF Full(q) THEN @ + 1 ELSE @]
      /\ given' = given /\ tasks' = tasks
  BY DEF HEnqueue, Enqueue
<1>6. TypeOK'
  BY <1>1, <1>4, <1>5 DEF QInv, TypeOK
<1>7. /\ \A n \in QueueName \ {q} : accepted'[n] = accepted[n] /\ gone'[n] = gone[n]
      /\ accepted'[q] = Append(accepted[q], x)
      /\ gone'[q] = IF Len(Items(q)) = MAX_QUEUE_SIZE THEN gone[q] + 1 ELSE gone[q]
  BY <1>5 DEF QInv, TypeOK, Full
<1>8. BoundedMemory'
  BY <1>2, <1>4 DEF QInv, BoundedMemory
<1>9. /\ \A k \in 1..Len(accepted[q]) : accepted'[q][k] = accepted[q][k]
      /\ accepted'[q][Len(accepted[q]) + 1] = x
      /\ Len(accepted'[q]) = Len(accepted[q]) + 1
  BY <1>1, <1>7
<1> HIDE DEF s
<1>10. /\ gone[q] \in Nat /\ Len(accepted[q]) \in Nat
       /\ Len(Items(q)) \in Nat /\ Len(s) \in Nat
       /\ gone[q] + Len(Items(q)) = Len(accepted[q])
       /\ Len(s) = IF Len(Items(q)) = MAX_QUEUE_SIZE THEN Len(Items(q)) ELSE Len(Items(q)) + 1
       /\ gone'[q] = IF Len(Items(q)) = MAX_QUEUE_SIZE THEN gone[q] + 1 ELSE gone[q]
       /\ Len(accepted'[q]) = Len(accepted[q]) + 1
  BY <1>1, <1>2, <1>7, <1>9
<1>11. HoldsTheEnd'
  <2>1. ASSUME NEW n \in QueueName \ {q}
        PROVE  /\ gone'[n] + Len(Items(n)') = Len(accepted'[n])
               /\ \A i \in 1..Len(Items(n)') : Items(n)'[i] = accepted'[n][gone'[n] + i]
    BY <1>4, <1>7 DEF QInv, HoldsTheEnd
  <2>2. gone'[q] + Len(s) = Len(accepted'[q])
    <3>1. CASE Len(Items(q)) = MAX_QUEUE_SIZE
      <4>1. gone'[q] = gone[q] + 1 /\ Len(s) = Len(Items(q))
        BY <1>10, <3>1
      <4> QED BY <1>10, <4>1, PlusOne
    <3>2. CASE Len(Items(q)) # MAX_QUEUE_SIZE
      <4>1. gone'[q] = gone[q] /\ Len(s) = Len(Items(q)) + 1
        BY <1>10, <3>2
      <4> QED BY <1>10, <4>1, PlusOne
    <3> QED BY <3>1, <3>2
  <2>3. ASSUME NEW i \in 1..Len(s)
        PROVE  s[i] = accepted'[q][gone'[q] + i]
    <3>1. \A k \in 1..Len(Items(q)) : Items(q)[k] = accepted[q][gone[q] + k]
      BY DEF QInv, HoldsTheEnd
    <3>2. CASE Len(Items(q)) = MAX_QUEUE_SIZE
      <4>1. s[i] = IF i + 1 = Len(Items(q)) + 1 THEN x ELSE Items(q)[i + 1]
        BY <1>3, <3>2
      <4>2. gone'[q] + i = gone[q] + (i + 1)
        <5>1. gone[q] \in Nat /\ gone'[q] = gone[q] + 1
          BY <1>10, <3>2
        <5>2. i \in Nat
          OBVIOUS
        <5> QED BY <5>1, <5>2, PlusOne
      <4>3. CASE i = Len(Items(q))
        <5>1. gone[q] + (i + 1) = Len(accepted[q]) + 1
          <6>1. gone[q] + (Len(Items(q)) + 1) = (gone[q] + Len(Items(q))) + 1
            <7>1. gone[q] \in Nat /\ Len(Items(q)) \in Nat
              BY <1>10
            <7> QED BY <7>1, PlusOne
          <6>2. gone[q] + Len(Items(q)) = Len(accepted[q])
            BY <1>1
          <6> QED BY <4>3, <6>1, <6>2
        <5> QED BY <1>9, <4>1, <4>2, <4>3, <5>1
      <4>4. CASE i # Len(Items(q))
        <5>1. i + 1 \in 1..Len(Items(q)) /\ i + 1 # Len(Items(q)) + 1
          BY <1>10, <3>2, <4>4
        <5>2. gone[q] + (i + 1) \in 1..Len(accepted[q])
          BY <1>10, <5>1
        <5>3. s[i] = accepted[q][gone[q] + (i + 1)]
          BY <3>1, <4>1, <5>1
        <5> QED BY <1>9, <4>2, <5>2, <5>3
      <4> QED BY <4>3, <4>4
    <3>3. CASE Len(Items(q)) # MAX_QUEUE_SIZE
      <4>1. s[i] = IF i = Len(Items(q)) + 1 THEN x ELSE Items(q)[i]
        BY <1>3, <3>3
      <4>2. gone'[q] = gone[q]
        BY <1>10, <3>3
      <4>3. CASE i = Len(Items(q)) + 1
        <5>1. gone[q] + i = Len(accepted[q]) + 1
          <6>1. gone[q] + (Len(Items(q)) + 1) = (gone[q] + Len(Items(q))) + 1
            <7>1. gone[q] \in Nat /\ Len(Items(q)) \in Nat
              BY <1>10
            <7> QED BY <7>1, PlusOne
          <6>2. gone[q] + Len(Items(q)) = Len(accepted[q])
            BY <1>1
          <6> QED BY <4>3, <6>1, <6>2
        <5> QED BY <1>9, <4>1, <4>2, <4>3, <5>1
      <4>4. CASE i # Len(Items(q)) + 1
        <5>1. i \in 1..Len(Items(q))
          BY <1>10, <3>3, <4>4
        <5>2. gone[q] + i \in 1..Len(accepted[q])
          BY <1>10, <5>1
        <5> QED BY <1>9, <3>1, <4>1, <4>2, <4>4, <5>1, <5>2
      <4> QED BY <4>3, <4>4
    <3> QED BY <3>2, <3>3
  <2> QED BY <1>4, <2>1, <2>2, <2>3 DEF HoldsTheEnd
<1>12. GivenWasAccepted'
  <2> SUFFICES ASSUME NEW n \in QueueName, NEW g \in given'[n]
               PROVE  /\ g[1] <= gone'[n]
                      /\ g[1] \in 1..Len(accepted'[n])
                      /\ g[2] = accepted'[n][g[1]]
    BY DEF GivenWasAccepted
  <2>1. /\ g[1] <= gone[n] /\ g[1] \in 1..Len(accepted[n]) /\ g[2] = accepted[n][g[1]]
    BY <1>5 DEF QInv, GivenWasAccepted
  <2>2. CASE n = q
    <3>1. g[1] <= gone'[q] /\ g[1] \in 1..Len(accepted'[q])
      BY <1>10, <2>1, <2>2
    <3> QED BY <1>9, <2>1, <2>2, <3>1
  <2>3. CASE n # q
    BY <1>7, <2>1, <2>3
  <2> QED BY <2>2, <2>3
<1> QED BY <1>6, <1>8, <1>11, <1>12 DEF QInv

\* POST /dequeue
LEMMA DequeueQInv ==
    ASSUME QInv, NEW q \in QueueName, HDequeue(q)
    PROVE  QInv'
<1> USE QueueAssumption
<1> DEFINE s == IF Items(q) = <<>> THEN <<>> ELSE Tail(Items(q))
<1>1. /\ Items(q) \in Seq(Payload)
      /\ Len(Items(q)) <= MAX_QUEUE_SIZE
      /\ accepted[q] \in Seq(Payload)
      /\ \A k \in 1..Len(Items(q)) : Items(q)[k] = accepted[q][gone[q] + k]
  BY ItemsType DEF QInv, BoundedMemory, HoldsTheEnd, TypeOK
<1>2. /\ s \in Seq(Payload)
      /\ Items(q) # <<>> => /\ Len(s) + 1 = Len(Items(q))
                            /\ \A k \in 1..Len(s) : s[k] = Items(q)[k + 1]
  BY <1>1
<1>3. /\ QueuesTypeOK' /\ Items(q)' = s
      /\ \A n \in QueueName \ {q} : Items(n)' = Items(n)
  <2>1. QUEUES' = WithItems(q, s)
    BY DEF HDequeue, Dequeue
  <2> QED BY <1>2, <2>1, WithItemsProperties DEF QInv
<1>4. accepted' = accepted /\ tasks' = tasks
  BY DEF HDequeue, Dequeue
<1>5. CASE Items(q) = <<>>
  <2>1. gone' = gone /\ given' = given
    BY <1>5 DEF HDequeue, DequeueResult
  <2>2. \A n \in QueueName : Items(n)' = Items(n)
    BY <1>3, <1>5
  <2>3. TypeOK'
    BY <1>3, <1>4, <2>1 DEF QInv, TypeOK
  <2>4. BoundedMemory'
    BY <2>2 DEF QInv, BoundedMemory
  <2>5. HoldsTheEnd'
    BY <1>4, <2>1, <2>2 DEF QInv, HoldsTheEnd
  <2>6. GivenWasAccepted'
    BY <1>4, <2>1 DEF QInv, GivenWasAccepted
  <2> QED BY <2>3, <2>4, <2>5, <2>6 DEF QInv
<1>6. CASE Items(q) # <<>>
  <2>1. /\ DequeueResult(q) = Items(q)[1] /\ DequeueResult(q) \in Payload
        /\ 1 \in 1..Len(Items(q))
    BY <1>1, <1>6 DEF DequeueResult
  <2>2. /\ gone' = [gone EXCEPT ![q] = @ + 1]
        /\ given' = [given EXCEPT ![q] = @ \cup {<<gone[q] + 1, DequeueResult(q)>>}]
    BY <2>1 DEF HDequeue
  <2>3. /\ gone[q] \in Nat /\ gone'[q] = gone[q] + 1
        /\ Len(Items(q)) \in Nat /\ Len(s) \in Nat /\ Len(accepted[q]) \in Nat
        /\ Len(s) + 1 = Len(Items(q))
        /\ gone[q] + Len(Items(q)) = Len(accepted[q])
    BY <1>1, <1>2, <1>6, <2>2 DEF QInv, TypeOK, HoldsTheEnd
  <2>4. \A n \in QueueName \ {q} : gone'[n] = gone[n] /\ given'[n] = given[n]
    BY <2>2 DEF QInv, TypeOK
  <2>5. TypeOK'
    BY <1>3, <1>4, <2>1, <2>2 DEF QInv, TypeOK
  <2> HIDE DEF s
  <2>6. BoundedMemory'
    <3>1. Len(s) <= MAX_QUEUE_SIZE
      BY <1>1, <2>3
    <3> QED BY <1>3, <3>1 DEF QInv, BoundedMemory
  <2>7. HoldsTheEnd'
    <3>1. ASSUME NEW n \in QueueName \ {q}
          PROVE  /\ gone'[n] + Len(Items(n)') = Len(accepted'[n])
                 /\ \A i \in 1..Len(Items(n)') : Items(n)'[i] = accepted'[n][gone'[n] + i]
      BY <1>3, <1>4, <2>4 DEF QInv, HoldsTheEnd
    <3>2. gone'[q] + Len(s) = Len(accepted[q])
      <4>1. gone[q] + (Len(s) + 1) = Len(accepted[q])
        BY <2>3
      <4>2. (gone[q] + 1) + Len(s) = gone[q] + (Len(s) + 1)
        BY <2>3
      <4> QED BY <2>3, <4>1, <4>2
    <3>3. ASSUME NEW i \in 1..Len(s)
          PROVE  s[i] = accepted[q][gone'[q] + i]
      <4>1. i + 1 \in 1..Len(Items(q)) /\ gone'[q] + i = gone[q] + (i + 1)
        <5>1. i \in Nat /\ gone[q] \in Nat /\ gone'[q] = gone[q] + 1
          BY <2>3
        <5>2. gone'[q] + i = gone[q] + (i + 1)
          BY <5>1, PlusOne
        <5>3. i + 1 \in 1..Len(Items(q))
          BY <2>3
        <5> QED BY <5>2, <5>3
      <4> QED BY <1>1, <1>2, <1>6, <4>1
    <3> QED BY <1>3, <1>4, <3>1, <3>2, <3>3 DEF HoldsTheEnd
  <2>8. GivenWasAccepted'
    <3> SUFFICES ASSUME NEW n \in QueueName, NEW g \in given'[n]
                 PROVE  /\ g[1] <= gone'[n]
                        /\ g[1] \in 1..Len(accepted[n])
                        /\ g[2] = accepted[n][g[1]]
      BY <1>4 DEF GivenWasAccepted
    <3>1. CASE g \in given[n]
      <4>1. g[1] <= gone[n] /\ g[1] \in 1..Len(accepted[n]) /\ g[2] = accepted[n][g[1]]
        BY <3>1 DEF QInv, GivenWasAccepted
      <4>2. gone[n] \in Nat /\ gone'[n] \in Nat /\ gone[n] <= gone'[n]
        BY <2>3, <2>4 DEF QInv, TypeOK
      <4>3. g[1] \in Nat
        BY <4>1
      <4> QED BY <4>1, <4>2, <4>3
    <3>2. CASE g \notin given[n]
      <4>1. n = q /\ g = <<gone[q] + 1, Items(q)[1]>>
        BY <2>1, <2>2, <2>4, <3>2 DEF QInv, TypeOK
      <4>2. gone[q] + 1 \in 1..Len(accepted[q])
        BY <2>3
      <4> QED BY <1>1, <2>1, <2>3, <4>1, <4>2
    <3> QED BY <3>1, <3>2
  <2> QED BY <2>5, <2>6, <2>7, <2>8 DEF QInv
<1> QED BY <1>5, <1>6

\* GET /peek: creating an empty queue changes nobody's items.
LEMMA PeekQInv ==
    ASSUME QInv, NEW q \in QueueName, HPeek(q)
    PROVE  QInv'
<1>1. QUEUES' = WithItems(q, Items(q)) /\ Items(q) \in Seq(Payload)
  BY ItemsType DEF HPeek, Peek, QInv
<1>2. QueuesTypeOK' /\ \A n \in QueueName : Items(n)' = Items(n)
  BY <1>1, WithItemsProperties DEF QInv
<1>3. tasks' = tasks /\ accepted' = accepted /\ gone' = gone /\ given' = given
  BY DEF HPeek, Peek
<1> QED BY <1>2, <1>3 DEF QInv, TypeOK, BoundedMemory, HoldsTheEnd, GivenWasAccepted

\* POST /push
LEMMA PushQInv ==
    ASSUME QInv, NEW x \in Payload, HPush(x)
    PROVE  QInv'
BY DEF HPush, Push, QInv, TypeOK, QueuesTypeOK, BoundedMemory, HoldsTheEnd,
       GivenWasAccepted, Items

\* A restart leaves the empty end of every history.
LEMMA RestartQInv == ASSUME QInv, HRestart PROVE QInv'
<1>1. /\ \A q \in QueueName : Items(q)' = <<>>
      /\ QueuesTypeOK' /\ tasks' = <<>>
  BY DEF HRestart, Restart, Items, QueuesTypeOK
<1>2. /\ accepted' = accepted /\ given' = given
      /\ gone' = [q \in QueueName |-> Len(accepted[q])]
  BY DEF HRestart
<1>3. \A q \in QueueName : accepted[q] \in Seq(Payload) /\ Len(accepted[q]) \in Nat
  BY DEF QInv, TypeOK
<1>4. TypeOK'
  BY <1>1, <1>2, <1>3 DEF QInv, TypeOK
<1>5. BoundedMemory'
  BY <1>1, QueueAssumption DEF BoundedMemory
<1>6. HoldsTheEnd'
  <2> SUFFICES ASSUME NEW q \in QueueName
               PROVE  /\ gone'[q] + Len(Items(q)') = Len(accepted'[q])
                      /\ \A i \in 1..Len(Items(q)') :
                             Items(q)'[i] = accepted'[q][gone'[q] + i]
    BY DEF HoldsTheEnd
  <2>1. Items(q)' = <<>> /\ Len(<<>>) = 0
    BY <1>1
  <2>2. gone'[q] = Len(accepted[q]) /\ accepted'[q] = accepted[q]
    BY <1>2
  <2> QED BY <1>3, <2>1, <2>2
<1>7. GivenWasAccepted'
  <2> SUFFICES ASSUME NEW q \in QueueName, NEW g \in given[q]
               PROVE  g[1] <= Len(accepted[q]) /\ g[1] \in 1..Len(accepted[q])
                      /\ g[2] = accepted[q][g[1]]
    BY <1>2 DEF GivenWasAccepted
  <2> QED BY <1>3 DEF QInv, GivenWasAccepted
<1> QED BY <1>4, <1>5, <1>6, <1>7 DEF QInv

\* Every step keeps the invariant.
LEMMA NextQInv == QInv /\ [HNext]_vars => QInv'
<1> SUFFICES ASSUME QInv, [HNext]_vars PROVE QInv'
  OBVIOUS
<1>1. CASE UNCHANGED vars
  BY <1>1 DEF vars, queueVars, QInv, TypeOK, QueuesTypeOK, BoundedMemory, HoldsTheEnd,
              GivenWasAccepted, Items
<1>2. CASE HNext
  BY <1>2, EnqueueQInv, DequeueQInv, PeekQInv, PushQInv, RestartQInv DEF HNext
<1> QED BY <1>1, <1>2

-----------------------------------------------------------------------------
LEMMA QInvAlways == HSpec => []QInv
<1>1. HInit => QInv
  BY InitQInv
<1>2. QInv /\ [HNext]_vars => QInv'
  BY NextQInv
<1> QED BY <1>1, <1>2, PTL DEF HSpec

\* The variables keep their types.
THEOREM TypeCorrect == HSpec => []TypeOK
<1>1. QInv => TypeOK
  BY DEF QInv
<1> QED BY <1>1, QInvAlways, PTL

\* No mix of calls makes a queue longer than MAX_QUEUE_SIZE.
THEOREM MemoryIsBounded == HSpec => []BoundedMemory
<1>1. QInv => BoundedMemory
  BY DEF QInv
<1> QED BY <1>1, QInvAlways, PTL

\* A queue always is the unbroken end of what it accepted.
THEOREM QueueHoldsTheEnd == HSpec => []HoldsTheEnd
<1>1. QInv => HoldsTheEnd
  BY DEF QInv
<1> QED BY <1>1, QInvAlways, PTL

\* Consumers are given what was accepted, and each item at most once.
THEOREM ConsumersGetWhatWasAccepted == HSpec => []GivenWasAccepted
<1>1. QInv => GivenWasAccepted
  BY DEF QInv
<1> QED BY <1>1, QInvAlways, PTL

-----------------------------------------------------------------------------
\* Each step of the service is a step of BoundedFifo: the shift of a full
\* queue is the abstract queue giving up its oldest item, peek and push are
\* stuttering, and an empty dequeue takes nothing.
LEMMA StepSimulation == QInv /\ [HNext]_vars => [Fifo!Next]_<<accepted, gone, given>>
<1> SUFFICES ASSUME QInv, [HNext]_vars PROVE [Fifo!Next]_<<accepted, gone, given>>
  OBVIOUS
<1>1. CASE UNCHANGED vars
  BY <1>1 DEF vars
<1>2. ASSUME NEW q \in QueueName, NEW x \in Payload, HEnqueue(q, x)
      PROVE  Fifo!Accept(q, x)
  <2>1. Full(q) <=> Fifo!Held(q) = MAX_QUEUE_SIZE
    <3>1. /\ gone[q] + Len(Items(q)) = Len(accepted[q]) /\ gone[q] \in Nat
          /\ Len(accepted[q]) \in Nat /\ Len(Items(q)) \in Nat
      BY ItemsType DEF QInv, TypeOK, HoldsTheEnd
    <3>2. Len(Items(q)) = Len(accepted[q]) - gone[q]
      BY <3>1
    <3> QED BY <3>2 DEF Full, Fifo!Held
  <2> QED BY <1>2, <2>1 DEF HEnqueue, Fifo!Accept
<1>3. ASSUME NEW q \in QueueName, HDequeue(q)
      PROVE  Fifo!Take(q) \/ UNCHANGED <<accepted, gone, given>>
  <2>1. CASE DequeueResult(q) = Nothing
    BY <1>3, <2>1 DEF HDequeue
  <2>2. CASE DequeueResult(q) # Nothing
    <3>1. /\ Items(q) \in Seq(Payload) /\ Items(q) # <<>>
          /\ gone[q] + Len(Items(q)) = Len(accepted[q]) /\ gone[q] \in Nat
          /\ \A k \in 1..Len(Items(q)) : Items(q)[k] = accepted[q][gone[q] + k]
      BY <2>2, ItemsType DEF DequeueResult, QInv, TypeOK, HoldsTheEnd
    <3>2. Len(Items(q)) \in Nat \ {0} /\ DequeueResult(q) = Items(q)[1]
      BY <3>1 DEF DequeueResult
    <3>3. Fifo!Held(q) > 0
      <4>1. Len(accepted[q]) - gone[q] = Len(Items(q))
        BY <3>1, <3>2
      <4> QED BY <3>2, <4>1 DEF Fifo!Held
    <3>4. DequeueResult(q) = accepted[q][gone[q] + 1]
      BY <3>1, <3>2
    <3> QED BY <1>3, <2>2, <3>3, <3>4 DEF HDequeue, Fifo!Take
  <2> QED BY <2>1, <2>2
<1>4. ASSUME NEW q \in QueueName, HPeek(q)
      PROVE  UNCHANGED <<accepted, gone, given>>
  BY <1>4 DEF HPeek
<1>5. ASSUME NEW x \in Payload, HPush(x)
      PROVE  UNCHANGED <<accepted, gone, given>>
  BY <1>5 DEF HPush
<1>6. ASSUME HRestart
      PROVE  Fifo!LoseMemory
  BY <1>6 DEF HRestart, Fifo!LoseMemory
<1>7. CASE HNext
  BY <1>2, <1>3, <1>4, <1>5, <1>6, <1>7 DEF HNext, Fifo!Next
<1> QED BY <1>1, <1>7

\* services/queue implements the bounded FIFO queues of the README, for every
\* number of queues and every bound.
THEOREM QueueImplementsFifo == HSpec => ImplementsFifo
<1>1. HInit => Fifo!Init
  BY DEF HInit, Fifo!Init
<1>2. QInv /\ [HNext]_vars => [Fifo!Next]_Fifo!fifoVars
  BY StepSimulation DEF Fifo!fifoVars
<1> QED BY <1>1, <1>2, QInvAlways, PTL DEF HSpec, ImplementsFifo, Fifo!Spec

-----------------------------------------------------------------------------
(* The event bus *)

\* The events kept are the newest ones up to a place in what was published.
Newest(events, upTo, pub) ==
    /\ Len(events) <= upTo /\ upTo <= Len(pub)
    /\ \A i \in 1..Len(events) : /\ events[i].no = (upTo - Len(events)) + i
                                 /\ events[i].type = pub[(upTo - Len(events)) + i]

\* Subscriptions have their terms, which are open; the terms of others have ended.
NoTwoIds(subs) == \A i, j \in 1..Len(subs) : subs[i].id = subs[j].id => i = j
InTerm(subs, terms, pub) ==
    /\ \A s \in Rows(subs) : /\ s.id \in 1..Len(terms) /\ terms[s.id].until = Bus!Open
                             /\ terms[s.id].type = s.type /\ terms[s.id].callback = s.callback
    /\ \A k \in 1..Len(terms) : /\ terms[k].from <= Len(pub)
                                /\ (\A s \in Rows(subs) : s.id # k) => terms[k].until <= Len(pub)

\* The events a term covers are the ones its callback was called for.
CoveredBy(tm, pub) == {n \in 1..Len(pub) : pub[n] = tm.type /\ tm.from < n /\ n <= tm.until}
CalledFor(calls, k, tm, pub) ==
    /\ \A n : n \in CoveredBy(tm, pub) <=> \E c \in calls : c.id = k /\ c.no = n
    /\ \A c \in calls : c.id = k => c.callback = tm.callback

Notified(calls, terms, pub) ==
    /\ \A c \in calls : c.id \in 1..Len(terms)
    /\ \A k \in 1..Len(terms) : CalledFor(calls, k, terms[k], pub)

BusInv ==
    /\ Bus!BusTypeOK
    /\ Len(published) <= MaxPublished /\ Len(term) <= MaxSubscribed
    /\ Newest(EVENTS, Len(published), published)
    /\ NoTwoIds(SUBSCRIPTIONS) /\ InTerm(SUBSCRIPTIONS, term, published)
    /\ Notified(called, term, published)

LEMMA BusBounds ==
    /\ MAX_EVENTS \in Nat \ {0} /\ MaxPublished \in Nat /\ MaxSubscribed \in Nat /\ MaxEnds \in Nat
BY ServicesAssumption DEF Bus!EventBusAssumption

\* An operator an instance brings along is the one the theorems are about.
LEMMA SameBuffer ==
    /\ \A s, x, m : Bus!PushBounded(s, x, m) = PushBounded(s, x, m)
    /\ \A s, k : Bus!Spliced(s, k) = Spliced(s, k)
    /\ \A s, P : Bus!ElementsAt(s, P) = ElementsAt(s, P)
    /\ \A S : Bus!Cardinality(S) = Cardinality(S)
<1>1. \A s, x, m : Bus!PushBounded(s, x, m) = PushBounded(s, x, m)
  BY DEF Bus!PushBounded, PushBounded
<1>2. \A s, k : Bus!Spliced(s, k) = Spliced(s, k)
  BY DEF Bus!Spliced, Spliced
<1>3. \A S : Bus!Cardinality(S) = Cardinality(S)
  BY DEF Bus!Cardinality, Cardinality
<1>4. \A P, i : Bus!Nth(P, i) = Nth(P, i)
  BY <1>3 DEF Bus!Nth, Nth
<1>5. \A s, P : Bus!ElementsAt(s, P) = ElementsAt(s, P)
  BY <1>3, <1>4 DEF Bus!ElementsAt, ElementsAt
<1> QED BY <1>1, <1>2, <1>3, <1>5

\* publishEvent keeps the newest events.
LEMMA NewestPushed ==
    ASSUME NEW events \in Seq(Bus!Event), NEW pub \in Seq(Bus!Types), Newest(events, Len(pub), pub),
           Len(events) <= MAX_EVENTS, Len(pub) < MaxPublished, NEW type \in Bus!Types
    PROVE  LET e == [no |-> Len(pub) + 1, type |-> type]
               more == PushBounded(events, e, MAX_EVENTS)
           IN /\ more \in Seq(Bus!Event) /\ Len(more) <= MAX_EVENTS
              /\ Newest(more, Len(Append(pub, type)), Append(pub, type))
<1> DEFINE e == [no |-> Len(pub) + 1, type |-> type]
           more == PushBounded(events, e, MAX_EVENTS)
           pub2 == Append(pub, type)
           L == Len(events)
           N == Len(pub)
           M == Len(more)
<1>1. L \in Nat /\ N \in Nat /\ L <= N /\ L <= MAX_EVENTS /\ N < MaxPublished
  BY DEF Newest
<1>2. e \in Bus!Event /\ e.no = N + 1 /\ e.type = type
  BY <1>1, BusBounds DEF Bus!Event
<1> HIDE DEF e
<1>3. /\ more \in Seq(Bus!Event)
      /\ M = IF L = MAX_EVENTS THEN MAX_EVENTS ELSE L + 1
      /\ M <= MAX_EVENTS
  BY <1>2, BusBounds, PushBoundedType
<1>4. \A i \in 1..M : LET j == IF L = MAX_EVENTS THEN i + 1 ELSE i
                      IN  more[i] = IF j = L + 1 THEN e ELSE events[j]
  BY <1>2, BusBounds, PushBoundedElements
<1>5. /\ Len(pub2) = N + 1 /\ pub2[N + 1] = type
      /\ \A n \in 1..N : pub2[n] = pub[n]
  OBVIOUS
<1> HIDE DEF more, pub2
<1>6. M \in Nat /\ M <= N + 1
  BY <1>1, <1>3, BusBounds
<1>7. ASSUME NEW i \in 1..M
      PROVE  more[i].no = ((N + 1) - M) + i /\ more[i].type = pub2[((N + 1) - M) + i]
  <2>1. PICK j \in Nat : j = IF L = MAX_EVENTS THEN i + 1 ELSE i
    OBVIOUS
  <2>2. more[i] = IF j = L + 1 THEN e ELSE events[j]
    BY <1>4, <2>1
  <2>3. ((N + 1) - M) + i = (N - L) + j /\ j \in 1..(L + 1)
    BY <1>1, <1>3, <1>6, <2>1, BusBounds
  <2>4. CASE j = L + 1
    <3>1. (N - L) + j = N + 1
      BY <1>1, <2>4
    <3> QED BY <1>2, <1>5, <2>2, <2>3, <2>4, <3>1
  <2>5. CASE j # L + 1
    <3>1. j \in 1..L /\ (N - L) + j \in 1..N
      BY <1>1, <2>3, <2>5
    <3>2. events[j].no = (N - L) + j /\ events[j].type = pub[(N - L) + j]
      BY <3>1 DEF Newest
    <3> QED BY <1>5, <2>2, <2>3, <2>5, <3>1, <3>2
  <2> QED BY <2>4, <2>5
<1>8. Newest(more, Len(pub2), pub2)
  BY <1>5, <1>6, <1>7 DEF Newest
<1> QED BY <1>3, <1>8 DEF more, pub2, e

\* What was published stays where it is.
LEMMA Published ==
    ASSUME NEW S, NEW pub \in Seq(S), NEW type \in S
    PROVE  /\ Append(pub, type) \in Seq(S) /\ Len(Append(pub, type)) = Len(pub) + 1
           /\ Append(pub, type)[Len(pub) + 1] = type /\ Len(pub) \in Nat
           /\ \A n \in 1..Len(pub) : Append(pub, type)[n] = pub[n]
           /\ \A n : n \in 1..Len(Append(pub, type)) <=> n \in 1..Len(pub) \/ n = Len(pub) + 1
OBVIOUS

\* The calls of one event
CallsFor(subs, n, type, by) ==
    {[by |-> by, id |-> subs[i].id, no |-> n, callback |-> subs[i].callback] :
        i \in {j \in 1..Len(subs) : subs[j].type = type}}

LEMMA CallsMade ==
    ASSUME NEW subs, NEW n, NEW type, NEW by
    PROVE  /\ \A c \in CallsFor(subs, n, type, by) :
                  \E s \in Rows(subs) : /\ s.type = type /\ c.id = s.id /\ c.callback = s.callback
                                        /\ c.no = n /\ c.by = by
           /\ \A s \in Rows(subs) : s.type = type =>
                  \E c \in CallsFor(subs, n, type, by) : c.id = s.id /\ c.no = n
<1>1. ASSUME NEW c \in CallsFor(subs, n, type, by)
      PROVE  \E s \in Rows(subs) : /\ s.type = type /\ c.id = s.id /\ c.callback = s.callback
                                   /\ c.no = n /\ c.by = by
  <2>1. PICK i \in {j \in 1..Len(subs) : subs[j].type = type} :
            c = [by |-> by, id |-> subs[i].id, no |-> n, callback |-> subs[i].callback]
    BY DEF CallsFor
  <2> QED BY <2>1 DEF Rows
<1>2. ASSUME NEW s \in Rows(subs), s.type = type
      PROVE  \E c \in CallsFor(subs, n, type, by) : c.id = s.id /\ c.no = n
  <2>1. PICK i \in 1..Len(subs) : s = subs[i]
    BY DEF Rows
  <2>2. [by |-> by, id |-> s.id, no |-> n, callback |-> s.callback] \in CallsFor(subs, n, type, by)
    BY <1>2, <2>1 DEF CallsFor
  <2> QED BY <2>2
<1> QED BY <1>1, <1>2

\* An event is covered by the terms of its type that are open, and those are
\* the ones whose callbacks are called.
LEMMA NotifiedOfOneMore ==
    ASSUME NEW subs \in Seq(Bus!Subscription), NEW terms \in Seq(Bus!Term), NEW pub \in Seq(Bus!Types),
           NEW calls, NEW type \in Bus!Types, NEW by, Len(pub) < MaxPublished,
           InTerm(subs, terms, pub), Notified(calls, terms, pub)
    PROVE  LET pub2 == Append(pub, type) IN
           /\ InTerm(subs, terms, pub2)
           /\ Notified(calls \cup CallsFor(subs, Len(pub) + 1, type, by), terms, pub2)
<1> DEFINE pub2 == Append(pub, type)
           N == Len(pub)
           new == CallsFor(subs, N + 1, type, by)
<1>1. /\ Len(pub2) = N + 1 /\ N \in Nat /\ pub2[N + 1] = type
      /\ \A n \in 1..N : pub2[n] = pub[n]
      /\ \A n : n \in 1..Len(pub2) <=> n \in 1..N \/ n = N + 1
  BY Published
<1>2. /\ \A c \in new : \E s \in Rows(subs) : /\ s.type = type /\ c.id = s.id /\ c.callback = s.callback
                                               /\ c.no = N + 1
      /\ \A s \in Rows(subs) : s.type = type => \E c \in new : c.id = s.id /\ c.no = N + 1
  BY CallsMade
<1>3. \A k \in 1..Len(terms) : /\ terms[k] \in Bus!Term
                               /\ terms[k].from \in Nat /\ terms[k].until \in Nat
  <2>1. \A tm \in Bus!Term : tm.from \in Nat /\ tm.until \in Nat
    BY DEF Bus!Term
  <2> QED BY <2>1
<1> HIDE DEF pub2, new
<1>4. InTerm(subs, terms, pub2)
  <2>1. \A k \in 1..Len(terms) : terms[k].from <= Len(pub2)
    BY <1>1, <1>3 DEF InTerm
  <2>2. \A k \in 1..Len(terms) : (\A s \in Rows(subs) : s.id # k) => terms[k].until <= Len(pub2)
    BY <1>1, <1>3 DEF InTerm
  <2> QED BY <2>1, <2>2 DEF InTerm
<1>5. \A c \in calls \cup new : c.id \in 1..Len(terms)
  BY <1>2 DEF InTerm, Notified
<1>6. ASSUME NEW k \in 1..Len(terms)
      PROVE  CalledFor(calls \cup new, k, terms[k], pub2)
  <2> DEFINE tm == terms[k]
  <2>1. CalledFor(calls, k, tm, pub) /\ tm.from <= N /\ tm.from \in Nat /\ tm.until \in Nat
    BY <1>3 DEF Notified, InTerm
  <2>2. ASSUME NEW s \in Rows(subs), s.id = k
        PROVE  tm.until = Bus!Open /\ tm.type = s.type /\ tm.callback = s.callback
    BY <2>2 DEF InTerm
  <2>3. (\A s \in Rows(subs) : s.id # k) => tm.until <= N
    BY DEF InTerm
  <2>4. N + 1 <= Bus!Open
    BY <1>1, BusBounds DEF Bus!Open
  <2>5. N + 1 \in CoveredBy(tm, pub2) <=> \E s \in Rows(subs) : s.id = k /\ s.type = type
    <3>1. N + 1 \in CoveredBy(tm, pub2) <=> tm.type = type /\ N + 1 <= tm.until
      BY <1>1, <2>1 DEF CoveredBy
    <3>2. CASE \A s \in Rows(subs) : s.id # k
      <4>1. ~(N + 1 <= tm.until)
        BY <1>1, <2>1, <2>3, <3>2
      <4> QED BY <3>1, <3>2, <4>1
    <3>3. ASSUME NEW s \in Rows(subs), s.id = k
          PROVE  N + 1 \in CoveredBy(tm, pub2) <=> \E x \in Rows(subs) : x.id = k /\ x.type = type
      BY <2>2, <2>4, <3>1, <3>3
    <3> QED BY <3>2, <3>3
  <2>6. \A n : n \in CoveredBy(tm, pub2) <=> n \in CoveredBy(tm, pub) \/ (n = N + 1 /\ N + 1 \in CoveredBy(tm, pub2))
    BY <1>1 DEF CoveredBy
  <2>7. \A n : (\E c \in new : c.id = k /\ c.no = n)
                 <=> n = N + 1 /\ \E s \in Rows(subs) : s.id = k /\ s.type = type
    BY <1>2
  <2>8. \A n : n \in CoveredBy(tm, pub2) <=> \E c \in calls \cup new : c.id = k /\ c.no = n
    <3>1. \A n : n \in CoveredBy(tm, pub) <=> \E c \in calls : c.id = k /\ c.no = n
      BY <2>1 DEF CalledFor
    <3> QED BY <2>5, <2>6, <2>7, <3>1
  <2>9. \A c \in calls \cup new : c.id = k => c.callback = tm.callback
    <3>1. \A c \in new : c.id = k => c.callback = tm.callback
      BY <1>2, <2>2
    <3> QED BY <2>1, <3>1 DEF CalledFor
  <2> QED BY <2>8, <2>9 DEF CalledFor
<1>7. Notified(calls \cup new, terms, pub2)
  BY <1>5, <1>6 DEF Notified
<1> QED BY <1>4, <1>7 DEF pub2, new

\* POST /event, POST /publish
LEMMA PublishBusInv ==
    ASSUME BusInv, NEW type \in Bus!Types, Bus!publishEvent(type)
    PROVE  BusInv'
<1> DEFINE e == [no |-> Len(published) + 1, type |-> type]
           new == CallsFor(SUBSCRIPTIONS, Len(published) + 1, type, run)
<1>1. /\ Len(published) < MaxPublished
      /\ EVENTS' = PushBounded(EVENTS, e, MAX_EVENTS)
      /\ published' = Append(published, type)
      /\ SUBSCRIPTIONS' = SUBSCRIPTIONS /\ run' = run /\ term' = term
  BY SameBuffer DEF Bus!publishEvent
<1>2. Bus!Calls(e) = new /\ notices' = notices \cup new /\ called' = called \cup new
  <2>1. DOMAIN SUBSCRIPTIONS = 1..Len(SUBSCRIPTIONS)
    BY DEF BusInv, Bus!BusTypeOK
  <2>2. Bus!Calls(e) = new
    BY <2>1 DEF Bus!Calls, CallsFor
  <2> QED BY <2>2 DEF Bus!publishEvent
<1>3. /\ EVENTS \in Seq(Bus!Event) /\ Len(EVENTS) <= MAX_EVENTS
      /\ SUBSCRIPTIONS \in Seq(Bus!Subscription) /\ term \in Seq(Bus!Term)
      /\ published \in Seq(Bus!Types) /\ run \in 0..MaxEnds
      /\ called \subseteq Bus!Notice /\ notices \subseteq called
      /\ Newest(EVENTS, Len(published), published)
      /\ InTerm(SUBSCRIPTIONS, term, published) /\ Notified(called, term, published)
  BY DEF BusInv, Bus!BusTypeOK
<1>4. /\ published' \in Seq(Bus!Types) /\ Len(published') = Len(published) + 1
      /\ Len(published') <= MaxPublished /\ Len(published) + 1 \in 1..MaxPublished
  BY <1>1, <1>3, BusBounds, Published
<1>5. /\ EVENTS' \in Seq(Bus!Event) /\ Len(EVENTS') <= MAX_EVENTS
      /\ Newest(EVENTS', Len(published'), published')
  BY <1>1, <1>3, NewestPushed
<1>6. /\ InTerm(SUBSCRIPTIONS, term, published')
      /\ Notified(called \cup new, term, published')
  BY <1>1, <1>3, NotifiedOfOneMore
<1>7. new \subseteq Bus!Notice
  <2> SUFFICES ASSUME NEW i \in 1..Len(SUBSCRIPTIONS)
               PROVE  [by |-> run, id |-> SUBSCRIPTIONS[i].id, no |-> Len(published) + 1,
                       callback |-> SUBSCRIPTIONS[i].callback] \in Bus!Notice
    BY DEF CallsFor
  <2>1. SUBSCRIPTIONS[i] \in Bus!Subscription
    BY <1>3
  <2> QED BY <1>3, <1>4, <2>1 DEF Bus!Subscription, Bus!Notice
<1> HIDE DEF new
<1> QED BY <1>1, <1>2, <1>3, <1>4, <1>5, <1>6, <1>7 DEF BusInv, Bus!BusTypeOK

\* POST /subscribe
LEMMA SubscribeBusInv ==
    ASSUME BusInv, NEW type \in Bus!Types, NEW callback \in Bus!Callbacks,
           Bus!addSubscription(type, callback)
    PROVE  BusInv'
<1> DEFINE sub == [id |-> Len(term) + 1, type |-> type, callback |-> callback]
           tm == [type |-> type, callback |-> callback, from |-> Len(published), until |-> Bus!Open]
           subs == SUBSCRIPTIONS
           T == Len(term)
<1>1. /\ T < MaxSubscribed /\ SUBSCRIPTIONS' = Append(subs, sub) /\ term' = Append(term, tm)
      /\ EVENTS' = EVENTS /\ notices' = notices /\ run' = run /\ published' = published /\ called' = called
  BY DEF Bus!addSubscription
<1>2. /\ subs \in Seq(Bus!Subscription) /\ term \in Seq(Bus!Term) /\ T \in Nat
      /\ published \in Seq(Bus!Types) /\ Len(published) \in Nat /\ Len(published) <= MaxPublished
      /\ NoTwoIds(subs) /\ InTerm(subs, term, published) /\ Notified(called, term, published)
  BY DEF BusInv, Bus!BusTypeOK
<1>3. sub \in Bus!Subscription /\ sub.id = T + 1 /\ sub.type = type /\ sub.callback = callback
  BY <1>1, <1>2, BusBounds DEF Bus!Subscription
<1>4. /\ tm \in Bus!Term /\ tm.type = type /\ tm.callback = callback
      /\ tm.from = Len(published) /\ tm.until = Bus!Open
  BY <1>2, BusBounds DEF Bus!Term, Bus!Open
<1> HIDE DEF sub, tm
<1>5. /\ SUBSCRIPTIONS' \in Seq(Bus!Subscription) /\ Len(SUBSCRIPTIONS') = Len(subs) + 1
      /\ \A i \in 1..Len(subs) : SUBSCRIPTIONS'[i] = subs[i] /\ i \in 1..Len(SUBSCRIPTIONS')
      /\ SUBSCRIPTIONS'[Len(subs) + 1] = sub /\ Len(subs) + 1 \in 1..Len(SUBSCRIPTIONS')
      /\ \A i \in 1..Len(SUBSCRIPTIONS') : i \in 1..Len(subs) \/ i = Len(subs) + 1
  BY <1>1, <1>2, <1>3
<1>6. /\ term' \in Seq(Bus!Term) /\ Len(term') = T + 1 /\ term'[T + 1] = tm
      /\ \A k \in 1..T : term'[k] = term[k] /\ k \in 1..Len(term')
      /\ \A k : k \in 1..Len(term') => k \in 1..T \/ k = T + 1
      /\ T + 1 \in 1..Len(term') /\ T + 1 \notin 1..T
  BY <1>1, <1>2, <1>4
<1>7. Rows(SUBSCRIPTIONS') = Rows(subs) \cup {sub}
  <2>1. Rows(SUBSCRIPTIONS') \subseteq Rows(subs) \cup {sub}
    BY <1>5 DEF Rows
  <2>2. Rows(subs) \subseteq Rows(SUBSCRIPTIONS') /\ sub \in Rows(SUBSCRIPTIONS')
    BY <1>5 DEF Rows
  <2> QED BY <2>1, <2>2
<1>8. \A s \in Rows(subs) : s.id \in 1..T /\ s.id # T + 1
  BY <1>2, <1>6 DEF InTerm
<1>9. NoTwoIds(SUBSCRIPTIONS')
  <2>1. \A i \in 1..Len(subs) : subs[i].id # T + 1
    BY <1>8 DEF Rows
  <2> QED BY <1>2, <1>3, <1>5, <2>1 DEF NoTwoIds
<1>10. InTerm(SUBSCRIPTIONS', term', published')
  <2>1. \A s \in Rows(SUBSCRIPTIONS') :
            /\ s.id \in 1..Len(term') /\ term'[s.id].until = Bus!Open
            /\ term'[s.id].type = s.type /\ term'[s.id].callback = s.callback
    <3> SUFFICES ASSUME NEW s \in Rows(SUBSCRIPTIONS')
                 PROVE  /\ s.id \in 1..Len(term') /\ term'[s.id].until = Bus!Open
                        /\ term'[s.id].type = s.type /\ term'[s.id].callback = s.callback
      OBVIOUS
    <3>1. CASE s = sub
      BY <1>3, <1>4, <1>6, <3>1
    <3>2. CASE s \in Rows(subs)
      <4>1. /\ s.id \in 1..T /\ term[s.id].until = Bus!Open
            /\ term[s.id].type = s.type /\ term[s.id].callback = s.callback
        BY <1>2, <3>2 DEF InTerm
      <4>2. s.id \in 1..Len(term') /\ term'[s.id] = term[s.id]
        BY <1>6, <4>1
      <4> QED BY <4>1, <4>2
    <3> QED BY <1>7, <3>1, <3>2
  <2>2. ASSUME NEW k \in 1..Len(term') PROVE term'[k].from <= Len(published)
    <3>1. CASE k \in 1..T
      <4>1. term[k].from <= Len(published)
        BY <1>2, <3>1 DEF InTerm
      <4> QED BY <1>6, <3>1, <4>1
    <3>2. CASE k = T + 1
      BY <1>2, <1>4, <1>6, <3>2
    <3> QED BY <1>6, <3>1, <3>2
  <2>3. \A k \in 1..Len(term') : (\A s \in Rows(SUBSCRIPTIONS') : s.id # k) => term'[k].until <= Len(published)
    BY <1>2, <1>3, <1>6, <1>7 DEF InTerm
  <2> QED BY <1>1, <2>1, <2>2, <2>3 DEF InTerm
<1>11. Notified(called, term', published)
  <2>1. \A c \in called : c.id \in 1..Len(term') /\ c.id # T + 1
    BY <1>2, <1>6 DEF Notified
  <2>2. \A k \in 1..T : CalledFor(called, k, term'[k], published)
    BY <1>2, <1>6 DEF Notified
  <2>3. CoveredBy(tm, published) = {}
    BY <1>2, <1>4 DEF CoveredBy
  <2>4. CalledFor(called, T + 1, tm, published)
    BY <2>1, <2>3 DEF CalledFor
  <2> QED BY <1>6, <2>1, <2>2, <2>4 DEF Notified
<1>12. Len(term') <= MaxSubscribed
  BY <1>1, <1>2, <1>6, BusBounds
<1> QED BY <1>1, <1>5, <1>6, <1>9, <1>10, <1>11, <1>12 DEF BusInv, Bus!BusTypeOK

\* A term that ends covers what it covered: every event so far.
LEMMA ClosedTerms ==
    ASSUME BusInv, NEW ids
    PROVE  LET closed == Bus!Closed(ids) IN
           /\ closed \in Seq(Bus!Term) /\ Len(closed) = Len(term)
           /\ \A k \in 1..Len(term) :
                  /\ closed[k].type = term[k].type /\ closed[k].callback = term[k].callback
                  /\ closed[k].from = term[k].from
                  /\ k \notin ids => closed[k] = term[k]
                  /\ k \in ids => closed[k].until <= Len(published)
                  /\ term[k].until <= Len(published) => closed[k].until <= Len(published)
                  /\ CoveredBy(closed[k], published) = CoveredBy(term[k], published)
           /\ Notified(called, closed, published)
<1> DEFINE closed == Bus!Closed(ids)
           V(k) == IF k \in ids /\ term[k].until = Bus!Open
                   THEN [term[k] EXCEPT !.until = Len(published)] ELSE term[k]
<1>1. /\ term \in Seq(Bus!Term) /\ published \in Seq(Bus!Types) /\ DOMAIN term = 1..Len(term)
      /\ Len(published) \in 0..MaxPublished /\ Len(term) \in Nat
      /\ InTerm(SUBSCRIPTIONS, term, published) /\ Notified(called, term, published)
  BY BusBounds DEF BusInv, Bus!BusTypeOK
<1>2. closed = [k \in 1..Len(term) |-> V(k)]
  BY <1>1 DEF Bus!Closed
<1>3. ASSUME NEW k \in 1..Len(term)
      PROVE  /\ V(k) \in Bus!Term
             /\ V(k).type = term[k].type /\ V(k).callback = term[k].callback /\ V(k).from = term[k].from
             /\ V(k).until = IF k \in ids /\ term[k].until = Bus!Open THEN Len(published) ELSE term[k].until
             /\ term[k].until \in 0..MaxPublished
             /\ k \notin ids => V(k) = term[k]
  <2>1. term[k] \in Bus!Term
    BY <1>1
  <2> QED BY <1>1, <2>1 DEF Bus!Term
<1>4. closed \in Seq(Bus!Term) /\ Len(closed) = Len(term) /\ \A k \in 1..Len(term) : closed[k] = V(k)
  <2>1. \A k \in 1..Len(term) : V(k) \in Bus!Term
    BY <1>3
  <2> HIDE DEF V
  <2> QED BY <1>1, <1>2, <2>1
<1> HIDE DEF V, closed
<1>5. ASSUME NEW k \in 1..Len(term)
      PROVE  /\ closed[k].type = term[k].type /\ closed[k].callback = term[k].callback
             /\ closed[k].from = term[k].from
             /\ k \notin ids => closed[k] = term[k]
             /\ k \in ids => closed[k].until <= Len(published)
             /\ term[k].until <= Len(published) => closed[k].until <= Len(published)
             /\ CoveredBy(closed[k], published) = CoveredBy(term[k], published)
  <2>1. term[k].until # Bus!Open => term[k].until <= Len(published)
    <3>1. CASE \E s \in Rows(SUBSCRIPTIONS) : s.id = k
      BY <1>1, <3>1 DEF InTerm
    <3>2. CASE \A s \in Rows(SUBSCRIPTIONS) : s.id # k
      BY <1>1, <3>2 DEF InTerm
    <3> QED BY <3>1, <3>2
  <2>2. closed[k].until = term[k].until \/ (closed[k].until = Len(published) /\ term[k].until = MaxPublished)
    BY <1>3, <1>4 DEF Bus!Open
  <2>3. \A n \in 1..Len(published) : n <= closed[k].until <=> n <= term[k].until
    BY <1>1, <2>2, BusBounds
  <2>4. CoveredBy(closed[k], published) = CoveredBy(term[k], published)
    <3>1. closed[k].type = term[k].type /\ closed[k].from = term[k].from
      BY <1>3, <1>4
    <3> QED BY <2>3, <3>1 DEF CoveredBy
  <2>5. Len(published) <= Len(published)
    BY <1>1
  <2> QED BY <1>3, <1>4, <2>1, <2>4, <2>5
<1>6. Notified(called, closed, published)
  <2>1. \A k \in 1..Len(closed) : CalledFor(called, k, closed[k], published)
    BY <1>1, <1>4, <1>5 DEF Notified, CalledFor
  <2> QED BY <1>1, <1>4, <2>1 DEF Notified
<1> QED BY <1>4, <1>5, <1>6 DEF closed

\* splice takes the subscription with the id, if there is one.
LEMMA WithoutSubscription ==
    ASSUME NEW subs \in Seq(Bus!Subscription), NoTwoIds(subs), NEW k \in 1..Len(subs)
    PROVE  /\ Spliced(subs, k) \in Seq(Bus!Subscription) /\ NoTwoIds(Spliced(subs, k))
           /\ Rows(Spliced(subs, k)) = {s \in Rows(subs) : s.id # subs[k].id}
<1> DEFINE u == Spliced(subs, k)
           n == Len(subs) - 1
<1>1. /\ u \in Seq(Bus!Subscription) /\ Len(u) = n
      /\ \A i \in 1..n : /\ Before(i, k) \in 1..Len(subs) /\ Before(i, k) # k
                         /\ u[i] = subs[Before(i, k)]
      /\ \A i, j \in 1..n : i < j => Before(i, k) < Before(j, k)
      /\ \A j \in 1..Len(subs) : j # k => \E i \in 1..n : j = Before(i, k) /\ u[i] = subs[j]
  <2>1. /\ Spliced(subs, k) \in Seq(Bus!Subscription)
        /\ Len(Spliced(subs, k)) = Len(subs) - 1
        /\ \A i \in 1..(Len(subs) - 1) :
               /\ Before(i, k) \in 1..Len(subs) /\ Before(i, k) # k
               /\ Spliced(subs, k)[i] = subs[Before(i, k)]
        /\ \A i, j \in 1..(Len(subs) - 1) : i < j => Before(i, k) < Before(j, k)
        /\ \A j \in 1..Len(subs) : j # k =>
               \E i \in 1..(Len(subs) - 1) : j = Before(i, k) /\ Spliced(subs, k)[i] = subs[j]
    BY SplicedKeeps, Zenon
  <2> QED BY <2>1
<1>2. n \in Int /\ \A i \in 1..Len(subs) : i \in Nat
  OBVIOUS
<1> HIDE DEF u, n
<1>3. \A i, j \in 1..n : Before(i, k) = Before(j, k) => i = j
  BY <1>1, <1>2
<1>4. NoTwoIds(u)
  BY <1>1, <1>3 DEF NoTwoIds
<1>5. ASSUME NEW s \in Rows(u) PROVE s \in Rows(subs) /\ s.id # subs[k].id
  <2>1. PICK i \in 1..n : s = u[i]
    BY <1>1 DEF Rows
  <2> QED BY <1>1, <2>1 DEF Rows, NoTwoIds
<1>6. ASSUME NEW s \in Rows(subs), s.id # subs[k].id PROVE s \in Rows(u)
  <2>1. PICK j \in 1..Len(subs) : s = subs[j]
    BY DEF Rows
  <2> QED BY <1>1, <1>6, <2>1 DEF Rows
<1> QED BY <1>1, <1>4, <1>5, <1>6 DEF u

\* DELETE /subscriptions/<id>
LEMMA UnsubscribeBusInv ==
    ASSUME BusInv, NEW id, Bus!removeSubscription(id)
    PROVE  BusInv'
<1> DEFINE subs == SUBSCRIPTIONS
<1>1. /\ SUBSCRIPTIONS' = Bus!Without(id) /\ term' = Bus!Closed({id})
      /\ EVENTS' = EVENTS /\ notices' = notices /\ run' = run /\ published' = published /\ called' = called
  BY DEF Bus!removeSubscription
<1>2. /\ subs \in Seq(Bus!Subscription) /\ DOMAIN subs = 1..Len(subs)
      /\ NoTwoIds(subs) /\ InTerm(subs, term, published)
  BY DEF BusInv, Bus!BusTypeOK
<1>3. /\ SUBSCRIPTIONS' \in Seq(Bus!Subscription) /\ NoTwoIds(SUBSCRIPTIONS')
      /\ Rows(SUBSCRIPTIONS') = {s \in Rows(subs) : s.id # id}
  <2>1. CASE id \notin Bus!Subscribed
    <3>1. SUBSCRIPTIONS' = subs
      BY <1>1, <2>1 DEF Bus!Without
    <3>2. \A s \in Rows(subs) : s.id # id
      BY <1>2, <2>1 DEF Bus!Subscribed, Rows
    <3> QED BY <1>2, <3>1, <3>2
  <2>2. CASE id \in Bus!Subscribed
    <3>1. SUBSCRIPTIONS' = Spliced(subs, Bus!PlaceOf(id))
      BY <1>1, <2>2, SameBuffer DEF Bus!Without
    <3>2. Bus!PlaceOf(id) \in 1..Len(subs) /\ subs[Bus!PlaceOf(id)].id = id
      BY <1>2, <2>2 DEF Bus!Subscribed, Bus!PlaceOf
    <3> QED BY <1>2, <3>1, <3>2, WithoutSubscription
  <2> QED BY <2>1, <2>2
<1> DEFINE closed == Bus!Closed({id})
<1>4. /\ closed \in Seq(Bus!Term) /\ Len(closed) = Len(term)
      /\ \A k \in 1..Len(term) :
             /\ closed[k].type = term[k].type /\ closed[k].callback = term[k].callback
             /\ closed[k].from = term[k].from
             /\ k # id => closed[k] = term[k]
             /\ k = id => closed[k].until <= Len(published)
             /\ term[k].until <= Len(published) => closed[k].until <= Len(published)
      /\ Notified(called, closed, published)
  BY ClosedTerms
<1> HIDE DEF closed
<1>5. InTerm(SUBSCRIPTIONS', closed, published)
  <2>1. \A s \in Rows(SUBSCRIPTIONS') : /\ s.id \in 1..Len(closed) /\ closed[s.id].until = Bus!Open
                                        /\ closed[s.id].type = s.type /\ closed[s.id].callback = s.callback
    BY <1>2, <1>3, <1>4 DEF InTerm
  <2>2. \A k \in 1..Len(closed) : closed[k].from <= Len(published)
    BY <1>2, <1>4 DEF InTerm
  <2>3. ASSUME NEW k \in 1..Len(closed), \A s \in Rows(SUBSCRIPTIONS') : s.id # k
        PROVE  closed[k].until <= Len(published)
    <3>1. CASE k = id
      BY <1>4, <3>1
    <3>2. CASE k # id
      <4>1. \A s \in Rows(subs) : s.id # k
        BY <1>3, <2>3, <3>2
      <4> QED BY <1>2, <1>4, <4>1 DEF InTerm
    <3> QED BY <3>1, <3>2
  <2> QED BY <2>1, <2>2, <2>3 DEF InTerm
<1>6. Len(term') <= MaxSubscribed
  BY <1>1, <1>4 DEF BusInv, closed
<1>7. term' = closed
  BY <1>1 DEF closed
<1> QED BY <1>1, <1>3, <1>4, <1>5, <1>6, <1>7 DEF BusInv, Bus!BusTypeOK

\* The end of the process
LEMMA EndBusInv ==
    ASSUME BusInv, Bus!ProcessEnds, notices' \subseteq notices
    PROVE  BusInv'
<1> DEFINE closed == Bus!Closed(DOMAIN term)
<1>1. /\ run < MaxEnds /\ run' = run + 1 /\ EVENTS' = <<>> /\ SUBSCRIPTIONS' = <<>>
      /\ term' = closed /\ published' = published /\ called' = called
  BY DEF Bus!ProcessEnds
<1>2. /\ run' \in 0..MaxEnds /\ DOMAIN term = 1..Len(term) /\ Len(published) \in Nat
      /\ InTerm(SUBSCRIPTIONS, term, published)
  BY <1>1, BusBounds DEF BusInv, Bus!BusTypeOK
<1>3. /\ closed \in Seq(Bus!Term) /\ Len(closed) = Len(term)
      /\ \A k \in 1..Len(term) : closed[k].from = term[k].from /\ closed[k].until <= Len(published)
      /\ Notified(called, closed, published)
  BY <1>2, ClosedTerms
<1> HIDE DEF closed
<1>4. /\ EVENTS' \in Seq(Bus!Event) /\ Len(EVENTS') = 0
      /\ SUBSCRIPTIONS' \in Seq(Bus!Subscription) /\ Rows(SUBSCRIPTIONS') = {} /\ NoTwoIds(SUBSCRIPTIONS')
  BY <1>1 DEF Rows, NoTwoIds
<1>5. Newest(EVENTS', Len(published'), published')
  BY <1>1, <1>2, <1>4 DEF Newest
<1>6. InTerm(SUBSCRIPTIONS', term', published')
  BY <1>1, <1>2, <1>3, <1>4 DEF InTerm
<1>7. Len(EVENTS') <= MAX_EVENTS
  BY <1>4, BusBounds
<1> QED BY <1>1, <1>2, <1>3, <1>4, <1>5, <1>6, <1>7 DEF BusInv, Bus!BusTypeOK

LEMMA InitBusInv == Bus!Init => BusInv
<1> SUFFICES ASSUME Bus!Init PROVE BusInv
  OBVIOUS
<1>1. /\ EVENTS = <<>> /\ SUBSCRIPTIONS = <<>> /\ notices = {} /\ run = 0
      /\ published = <<>> /\ term = <<>> /\ called = {} /\ Len(<<>>) = 0
  BY DEF Bus!Init
<1>2. Rows(SUBSCRIPTIONS) = {} /\ NoTwoIds(SUBSCRIPTIONS) /\ InTerm(SUBSCRIPTIONS, term, published)
  BY <1>1 DEF Rows, NoTwoIds, InTerm
<1>3. Newest(EVENTS, Len(published), published) /\ Notified(called, term, published)
  BY <1>1 DEF Newest, Notified
<1> QED BY <1>1, <1>2, <1>3, BusBounds DEF BusInv, Bus!BusTypeOK

\* What may happen to the bus, whoever looks at it
LEMMA NextBusInv == BusInv /\ [Bus!Next]_busSide => BusInv'
<1> SUFFICES ASSUME BusInv, [Bus!Next]_busSide PROVE BusInv'
  OBVIOUS
<1>1. CASE UNCHANGED busSide
  BY <1>1 DEF busSide, BusInv, Bus!BusTypeOK
<1>2. ASSUME Bus!Restart PROVE BusInv'
  BY <1>2, EndBusInv DEF Bus!Restart
<1>3. ASSUME NEW b \in Bus!Bodies([type : Type]), Bus!PostEvent(b) PROVE BusInv'
  <2>1. ASSUME NEW p \in Bus!Reads(b, [type |-> Undefined]), Bus!publishEvent(p.type) PROVE BusInv'
    <3>1. p.type \in Bus!Types
      BY <1>3, <2>1 DEF Bus!Reads, Bus!Resolved, Bus!Bodies, Bus!Types
    <3> QED BY <2>1, <3>1, PublishBusInv
  <2> QED BY <1>2, <1>3, <2>1 DEF Bus!PostEvent
<1>4. ASSUME NEW b \in Bus!Bodies([type : Bus!Types, callback : Bus!Callbacks]), Bus!PostSubscribe(b)
      PROVE  BusInv'
  <2>1. ASSUME NEW p \in Bus!Reads(b, [type |-> Undefined, callback |-> Undefined]),
               Bus!addSubscription(p.type, p.callback)
        PROVE  BusInv'
    <3>1. p.type \in Bus!Types /\ p.callback \in Bus!Callbacks
      BY <1>4, <2>1 DEF Bus!Reads, Bus!Resolved, Bus!Bodies, Bus!Types, Bus!Callbacks
    <3> QED BY <2>1, <3>1, SubscribeBusInv
  <2> QED BY <1>2, <1>4, <2>1 DEF Bus!PostSubscribe
<1>5. ASSUME NEW n \in notices, Bus!CallbackAnswers(n) PROVE BusInv'
  BY <1>5 DEF Bus!CallbackAnswers, BusInv, Bus!BusTypeOK
<1>6. ASSUME NEW n \in notices, Bus!CallbackFails(n) PROVE BusInv'
  <2>1. notices' = notices \ {n}
    BY <1>6 DEF Bus!CallbackFails
  <2>2. CASE n.by = run
    BY <1>6, <2>1, <2>2, EndBusInv DEF Bus!CallbackFails
  <2>3. CASE n.by # run
    BY <1>6, <2>1, <2>3 DEF Bus!CallbackFails, BusInv, Bus!BusTypeOK
  <2> QED BY <2>2, <2>3
<1> QED BY <1>1, <1>2, <1>3, <1>4, <1>5, <1>6, UnsubscribeBusInv DEF Bus!Next

LEMMA BusInvNotifies == BusInv => NotifiedAsSubscribed
<1> SUFFICES ASSUME BusInv, NEW i \in DOMAIN term
             PROVE  /\ {c.no : c \in {c \in called : c.id = i}} = Bus!Covered(i)
                    /\ \A c \in called : c.id = i => c.callback = term[i].callback
  BY DEF NotifiedAsSubscribed, Bus!NotifiedAsSubscribed
<1>1. /\ DOMAIN term = 1..Len(term) /\ DOMAIN published = 1..Len(published)
      /\ Notified(called, term, published)
  BY DEF BusInv, Bus!BusTypeOK
<1>2. CalledFor(called, i, term[i], published)
  BY <1>1 DEF Notified
<1>3. Bus!Covered(i) = CoveredBy(term[i], published)
  BY <1>1 DEF Bus!Covered, CoveredBy
<1> QED BY <1>2, <1>3 DEF CalledFor

\* slice(-limit) keeps the last elements, as many as the limit allows; 0 is no limit.
SlicedTo(s, limit, got) ==
    /\ Len(got) = IF limit = 0 \/ limit > Len(s) THEN Len(s) ELSE limit
    /\ \A k \in 1..Len(got) : /\ (Len(s) - Len(got)) + k \in 1..Len(s)
                              /\ got[k] = s[(Len(s) - Len(got)) + k]
LEMMA SlicedKeeps ==
    ASSUME NEW S, NEW s \in Seq(S), NEW limit \in Nat
    PROVE  /\ Bus!Sliced(s, limit) \in Seq(S)
           /\ SlicedTo(s, limit, Bus!Sliced(s, limit))
<1> DEFINE got == Bus!Sliced(s, limit)
           c == Len(s)
<1>1. c \in Nat
  OBVIOUS
<1> DEFINE start == IF limit > c \/ limit = 0 THEN 1
                    ELSE IF limit > 0 THEN c - limit + 1 ELSE 1 - limit
<1>2. PICK first : first = start
  OBVIOUS
<1>6. got = SubSeq(s, first, c)
  BY <1>2, Zenon DEF Bus!Sliced
<1>7. first \in 1..(c + 1)
  BY <1>1, <1>2
<1>8. (limit = 0 \/ limit > c) => first = 1
  BY <1>2
<1>9. ~(limit = 0 \/ limit > c) => first = (c - limit) + 1
  BY <1>1, <1>2
<1> HIDE DEF start, got
<1>3. /\ (c - first) + 1 \in Nat
      /\ (c - first) + 1 = IF limit = 0 \/ limit > c THEN c ELSE limit
  <2>1. CASE limit = 0 \/ limit > c
    BY <1>1, <1>8, <2>1
  <2>2. CASE ~(limit = 0 \/ limit > c)
    BY <1>1, <1>9, <2>2
  <2> QED BY <2>1, <2>2
<1>4. \A k \in 1..((c - first) + 1) : (first + k) - 1 \in 1..c
  BY <1>1, <1>7
<1>5. /\ got \in Seq(S) /\ Len(got) = (c - first) + 1
      /\ \A k \in 1..((c - first) + 1) : got[k] = s[(first + k) - 1]
  <2>1. \A i \in first..c : s[i] \in S
    BY <1>1, <1>7
  <2>2. first \in Int /\ c \in Int
    BY <1>1, <1>7
  <2>3. /\ SubSeq(s, first, c) \in Seq(S)
        /\ Len(SubSeq(s, first, c)) = IF first <= c THEN (c - first) + 1 ELSE 0
        /\ \A i \in 1..((c - first) + 1) : SubSeq(s, first, c)[i] = s[(first + i) - 1]
    BY <2>1, <2>2, SubSeqProperties
  <2>4. (c - first) + 1 = IF first <= c THEN (c - first) + 1 ELSE 0
    BY <1>1, <1>7
  <2> QED BY <1>6, <2>3, <2>4
<1>10. ASSUME NEW k \in 1..Len(got)
       PROVE  (c - Len(got)) + k \in 1..c /\ got[k] = s[(c - Len(got)) + k]
  <2>1. (c - Len(got)) + k = (first + k) - 1
    BY <1>1, <1>5, <1>7
  <2> QED BY <1>4, <1>5, <2>1
<1> QED BY <1>3, <1>5, <1>10 DEF got, SlicedTo

\* Of the j-th of some positions, all but the first j - 1 are as far on.
LEMMA FromNthOn ==
    ASSUME NEW n \in Nat, NEW P \in SUBSET (1..n), NEW j \in 1..Cardinality(P)
    PROVE  /\ IsFiniteSet({i \in P : i >= Nth(P, j)})
           /\ Cardinality({i \in P : i >= Nth(P, j)}) = (Cardinality(P) - j) + 1
<1> DEFINE B == {i \in P : i < Nth(P, j)}
           A == {i \in P : i >= Nth(P, j)}
<1>1. /\ IsFiniteSet(P) /\ Cardinality(P) \in Nat /\ Nth(P, j) \in P /\ Cardinality(B) = j - 1
  BY NthNumbers
<1>2. \A i \in P : i \in Nat
  OBVIOUS
<1>3. A = P \ B /\ P \cap B = B
  <2>2. PICK k \in Nat : k = Nth(P, j)
    BY <1>1, <1>2
  <2>1. \A i \in P : i >= k <=> ~(i < k)
    BY <1>2
  <2> QED BY <2>1, <2>2
<1> HIDE DEF A, B
<1>4. IsFiniteSet(P \ B) /\ Cardinality(P \ B) = Cardinality(P) - Cardinality(P \cap B)
  BY <1>1, FS_Difference
<1>5. IsFiniteSet(A) /\ Cardinality(A) = Cardinality(P) - (j - 1)
  BY <1>1, <1>3, <1>4
<1> QED BY <1>1, <1>5 DEF A

\* Positions shifted by an offset are as many.
LEMMA Shifted ==
    ASSUME NEW A, IsFiniteSet(A), \A a \in A : a \in Nat, NEW d \in Int, NEW B,
           \A b : b \in B <=> \E a \in A : b = d + a
    PROVE  IsFiniteSet(B) /\ Cardinality(B) = Cardinality(A)
<1> DEFINE f == [a \in A |-> d + a]
<1>1. f \in [A -> B] /\ \A b \in B : \E a \in A : f[a] = b
  OBVIOUS
<1>2. \A a, x \in A : f[a] = f[x] => a = x
  OBVIOUS
<1> HIDE DEF f
<1>3. f \in Bijection(A, B)
  BY <1>1, <1>2 DEF Bijection, Injection, IsInjective, Surjection
<1> QED BY <1>3, FS_Bijection DEF ExistsBijection

\* The positions of the events of a type among those kept, and their numbers
Places(type, events) == {i \in 1..Len(events) : type = Undefined \/ events[i].type = type}
Matching(type, kept, pub) ==
    {n \in DOMAIN pub : n > Len(pub) - kept /\ (type = Undefined \/ pub[n] = type)}
AsNew(n, type, kept, pub) == {x \in Matching(type, kept, pub) : x >= n}

LEMMA MatchingPlaces ==
    ASSUME NEW events \in Seq(Bus!Event), NEW pub \in Seq(Bus!Types), Newest(events, Len(pub), pub), NEW type
    PROVE  \A n : n \in Matching(type, Len(events), pub)
                    <=> \E i \in Places(type, events) : n = (Len(pub) - Len(events)) + i
<1> DEFINE L == Len(events)
           N == Len(pub)
<1>1. /\ L \in Nat /\ N \in Nat /\ L <= N /\ DOMAIN pub = 1..N
      /\ \A i \in 1..L : events[i].type = pub[(N - L) + i]
  BY DEF Newest
<1>2. ASSUME NEW n \in Matching(type, L, pub) PROVE \E i \in Places(type, events) : n = (N - L) + i
  <2>1. n \in 1..N /\ n > N - L /\ (type = Undefined \/ pub[n] = type)
    BY <1>1 DEF Matching
  <2>2. PICK i \in 1..L : n = (N - L) + i
    <3>1. n - (N - L) \in 1..L /\ n = (N - L) + (n - (N - L))
      BY <1>1, <2>1
    <3> QED BY <3>1
  <2>3. i \in Places(type, events)
    BY <1>1, <2>1, <2>2 DEF Places
  <2> QED BY <2>2, <2>3
<1>3. ASSUME NEW i \in Places(type, events) PROVE (N - L) + i \in Matching(type, L, pub)
  <2>1. i \in 1..L /\ (type = Undefined \/ events[i].type = type)
    BY DEF Places
  <2>2. (N - L) + i \in 1..N /\ (N - L) + i > N - L
    BY <1>1, <2>1
  <2> QED BY <1>1, <2>1, <2>2 DEF Matching
<1> QED BY <1>2, <1>3

LEMMA BusInvAnswers == BusInv => AnswersAreTheNewest
<1> SUFFICES ASSUME BusInv, NEW type \in Bus!Types, NEW limit \in 0..(MAX_EVENTS + 1)
             PROVE  LET answer == Bus!getEvents(type, limit) IN
                    /\ {answer[i].no : i \in DOMAIN answer} =
                           {n \in Matching(type, Len(EVENTS), published) :
                                \/ limit = 0
                                \/ Bus!Cardinality(AsNew(n, type, Len(EVENTS), published)) <= limit}
                    /\ \A i \in DOMAIN answer : /\ answer[i].type = published[answer[i].no]
                                                /\ i > 1 => answer[i-1].no < answer[i].no
  BY Zenon DEF AnswersAreTheNewest, Bus!AnswersAreTheNewest, Matching, AsNew
<1> DEFINE L == Len(EVENTS)
           N == Len(published)
           P == Places(type, EVENTS)
           c == Cardinality(P)
           all == ElementsAt(EVENTS, P)
           answer == Bus!getEvents(type, limit)
           m == Len(answer)
           M == Matching(type, L, published)
           newer(n) == AsNew(n, type, L, published)
<1>1. /\ EVENTS \in Seq(Bus!Event) /\ published \in Seq(Bus!Types)
      /\ Newest(EVENTS, N, published)
  BY DEF BusInv, Bus!BusTypeOK
<1>2. /\ L \in Nat /\ N \in Nat /\ L <= N /\ DOMAIN EVENTS = 1..L
      /\ \A i \in 1..L : EVENTS[i].no = (N - L) + i /\ EVENTS[i].type = published[(N - L) + i]
  BY <1>1 DEF Newest
<1>3. limit \in Nat
  BY BusBounds
<1>4. answer = Bus!Sliced(all, limit)
  <2>1. Bus!OfType(EVENTS, type) = all
    BY <1>2, SameBuffer DEF Bus!OfType, Places
  <2> QED BY <2>1 DEF Bus!getEvents
<1>5. P \in SUBSET (1..L) /\ \A i \in P : i \in 1..L /\ i \in Nat
  BY DEF Places
<1>6. \A n : n \in M <=> \E i \in P : n = (N - L) + i
  BY <1>1, MatchingPlaces
<1> HIDE DEF P, M, answer, newer
<1>7. /\ all \in Seq(Bus!Event) /\ Len(all) = c /\ c \in 0..L
      /\ \A i \in 1..c : Nth(P, i) \in P /\ all[i] = EVENTS[Nth(P, i)]
  BY <1>1, <1>5, ElementsAtKeeps
<1>8. /\ IsFiniteSet(P) /\ \A k \in P : \E i \in 1..c : Nth(P, i) = k
      /\ \A i, j \in 1..c : i < j => Nth(P, i) < Nth(P, j)
  BY <1>2, <1>5, NthNumbers
<1> HIDE DEF all
<1>9. /\ answer \in Seq(Bus!Event)
      /\ m = IF limit = 0 \/ limit > c THEN c ELSE limit
      /\ \A k \in 1..m : (c - m) + k \in 1..c /\ answer[k] = all[(c - m) + k]
  <2>1. SlicedTo(all, limit, Bus!Sliced(all, limit))
    BY <1>3, <1>7, SlicedKeeps
  <2>2. Bus!Sliced(all, limit) \in Seq(Bus!Event)
    BY <1>3, <1>7, SlicedKeeps
  <2> QED BY <1>4, <1>7, <2>1, <2>2 DEF SlicedTo
<1>10. m \in Nat /\ DOMAIN answer = 1..m /\ m <= c /\ c \in Nat /\ N - L \in Int
  BY <1>2, <1>3, <1>7, <1>9
<1>11. \A k \in 1..m : /\ Nth(P, (c - m) + k) \in P
                       /\ answer[k].no = (N - L) + Nth(P, (c - m) + k)
                       /\ answer[k].type = published[(N - L) + Nth(P, (c - m) + k)]
  BY <1>2, <1>5, <1>7, <1>9
<1>12. \A i \in 1..m : /\ answer[i].type = published[answer[i].no]
                       /\ i > 1 => answer[i-1].no < answer[i].no
  <2> SUFFICES ASSUME NEW i \in 1..m
               PROVE  /\ answer[i].type = published[answer[i].no]
                      /\ i > 1 => answer[i-1].no < answer[i].no
    OBVIOUS
  <2>1. answer[i].type = published[answer[i].no]
    BY <1>11
  <2>2. ASSUME i > 1 PROVE answer[i-1].no < answer[i].no
    <3>1. i - 1 \in 1..m /\ (c - m) + (i - 1) < (c - m) + i
      BY <1>10, <2>2
    <3>2. Nth(P, (c - m) + (i - 1)) < Nth(P, (c - m) + i)
      BY <1>8, <1>9, <3>1
    <3>3. /\ answer[i-1].no = (N - L) + Nth(P, (c - m) + (i - 1))
          /\ answer[i].no = (N - L) + Nth(P, (c - m) + i)
      BY <1>11, <3>1
    <3>4. Nth(P, (c - m) + (i - 1)) \in Nat /\ Nth(P, (c - m) + i) \in Nat
      BY <1>5, <1>11, <3>1
    <3> HIDE DEF m, c, L, N
    <3> QED BY <1>10, <3>2, <3>3, <3>4
  <2> QED BY <2>1, <2>2
<1>13. ASSUME NEW j \in 1..c
       PROVE  Bus!Cardinality(newer((N - L) + Nth(P, j))) = (c - j) + 1
  <2> DEFINE A == {i \in P : i >= Nth(P, j)}
  <2>1. IsFiniteSet(A) /\ Cardinality(A) = (c - j) + 1
    BY <1>2, <1>5, FromNthOn
  <2>2. \A b : b \in newer((N - L) + Nth(P, j)) <=> \E a \in A : b = (N - L) + a
    <3>1. Nth(P, j) \in Nat
      BY <1>5, <1>7
    <3>2. \A i \in P : (N - L) + i >= (N - L) + Nth(P, j) <=> i >= Nth(P, j)
      BY <1>5, <1>10, <3>1
    <3>3. \A b : b \in newer((N - L) + Nth(P, j)) <=> b \in M /\ b >= (N - L) + Nth(P, j)
      BY DEF newer, AsNew, M
    <3> QED BY <1>6, <3>2, <3>3
  <2>3. \A a \in A : a \in Nat
    BY <1>5
  <2> HIDE DEF A
  <2>4. Cardinality(newer((N - L) + Nth(P, j))) = Cardinality(A)
    BY <1>10, <2>1, <2>2, <2>3, Shifted
  <2> QED BY <2>1, <2>4, SameBuffer
<1>14. ASSUME NEW j \in 1..c
       PROVE  (limit = 0 \/ (c - j) + 1 <= limit) <=> j > c - m
  <2> HIDE DEF m, c
  <2> QED BY <1>3, <1>9, <1>10
<1>15. ASSUME NEW k \in 1..m
       PROVE  /\ answer[k].no \in M
              /\ limit = 0 \/ Bus!Cardinality(newer(answer[k].no)) <= limit
  <2>1. PICK j \in 1..c : j = (c - m) + k
    BY <1>9
  <2>2. j > c - m
    <3> HIDE DEF m, c
    <3> QED BY <1>10, <2>1
  <2>3. answer[k].no = (N - L) + Nth(P, j) /\ Nth(P, j) \in P
    BY <1>11, <2>1
  <2> HIDE DEF m, c
  <2> QED BY <1>6, <1>13, <1>14, <2>2, <2>3
<1>16. ASSUME NEW n \in M, limit = 0 \/ Bus!Cardinality(newer(n)) <= limit
       PROVE  \E k \in 1..m : n = answer[k].no
  <2>1. PICK j \in 1..c : n = (N - L) + Nth(P, j)
    BY <1>6, <1>8
  <2>2. j > c - m
    BY <1>13, <1>14, <1>16, <2>1
  <2>3. PICK k \in 1..m : j = (c - m) + k
    <3> HIDE DEF m, c
    <3>1. j - (c - m) \in 1..m /\ (c - m) + (j - (c - m)) = j
      BY <1>10, <2>2
    <3> QED BY <3>1
  <2> QED BY <1>11, <2>1, <2>3
<1>17. {answer[i].no : i \in DOMAIN answer} =
           {n \in M : limit = 0 \/ Bus!Cardinality(newer(n)) <= limit}
  <2> HIDE DEF m
  <2> QED BY <1>10, <1>15, <1>16
<1> QED BY <1>10, <1>12, <1>17 DEF answer, M, newer

-----------------------------------------------------------------------------
(* Analytics *)

\* What a round has read is what the two services had: the newest events up to
\* where the bus had got, which was no sooner than when the round was asked for.
RoundOK(x, pub) ==
    /\ x.at \in {"idle", "logging", "event", "answered"}
    /\ x.at # "idle" => x.asked \in 0..Len(pub)
    /\ x.at \in {"event", "answered"} => x.logged \in 0..LIMIT
    /\ x.at = "answered" =>
           /\ x.events \in Seq(Bus!Event) /\ Len(x.events) <= LIMIT /\ x.answered \in BOOLEAN
           /\ x.upTo \in Nat /\ x.asked <= x.upTo /\ Newest(x.events, x.upTo, pub)

\* The events of a kind among those with numbers above lo, up to hi
OfKind(k, lo, hi, pub) == {n \in (lo + 1)..hi : Metrics!KindOf(pub[n]) = k}
Unknown(k, logged) == IF k = "unknown" THEN logged ELSE 0

\* The metrics count a reading.
Counts(m, rd, pub) ==
    /\ rd.held <= rd.upTo /\ rd.upTo <= Len(pub) /\ rd.asked <= rd.upTo
    /\ rd.held <= LIMIT /\ rd.logged <= LIMIT
    /\ \A k \in Metrics!Kinds :
           m.byType[k] = Cardinality(OfKind(k, rd.upTo - rd.held, rd.upTo, pub)) + Unknown(k, rd.logged)
    /\ m.total = rd.logged + rd.held

MetricsInv ==
    /\ Metrics!AnalyticsTypeOK /\ DOMAIN rounds = Round
    /\ \A r \in Round : RoundOK(rounds[r], published)
    /\ Counts(METRICS, reading, published)

LEMMA MetricsBounds == LIMIT \in Nat \ {0} /\ MAX_LOGS \in Nat \ {0} /\ MaxWritten \in Nat
BY ServicesAssumption DEF Metrics!AnalyticsAssumption

LEMMA SameBus ==
    /\ \A s, limit : Metrics!Sliced(s, limit) = Bus!Sliced(s, limit)
    /\ \A type, limit : Metrics!getEvents(type, limit) = Bus!getEvents(type, limit)
    /\ \A s, x, m : Metrics!PushBounded(s, x, m) = PushBounded(s, x, m)
    /\ \A S : Metrics!Cardinality(S) = Cardinality(S)
<1>1. \A s, limit : Metrics!Sliced(s, limit) = Bus!Sliced(s, limit)
  BY DEF Metrics!Sliced, Bus!Sliced
<1>2. \A S : Metrics!Cardinality(S) = Cardinality(S)
  BY DEF Metrics!Cardinality, Cardinality
<1>3. \A P, i : Metrics!Nth(P, i) = Nth(P, i)
  BY <1>2 DEF Metrics!Nth, Nth
<1>4. \A s, P : Metrics!ElementsAt(s, P) = Bus!ElementsAt(s, P)
  BY <1>2, <1>3, SameBuffer DEF Metrics!ElementsAt, ElementsAt
<1>5. \A events, type : Metrics!OfType(events, type) = Bus!OfType(events, type)
  BY <1>4 DEF Metrics!OfType, Bus!OfType
<1>6. \A type, limit : Metrics!getEvents(type, limit) = Bus!getEvents(type, limit)
  BY <1>1, <1>5 DEF Metrics!getEvents, Bus!getEvents
<1>7. \A s, x, m : Metrics!PushBounded(s, x, m) = PushBounded(s, x, m)
  BY DEF Metrics!PushBounded, PushBounded
<1> QED BY <1>1, <1>2, <1>6, <1>7

\* All positions are all elements.
LEMMA AllElements ==
    ASSUME NEW S, NEW s \in Seq(S)
    PROVE  ElementsAt(s, 1..Len(s)) = s
<1> DEFINE n == Len(s)
           P == 1..n
<1>1. n \in Nat /\ n \in Int /\ 1 \in Int /\ (IF 1 > n THEN 0 ELSE n - 1 + 1) = n
  OBVIOUS
<1>2. P \in SUBSET (1..n) /\ Cardinality(P) = n
  <2>1. Cardinality(1..n) = IF 1 > n THEN 0 ELSE n - 1 + 1
    BY <1>1, FS_Interval
  <2> QED BY <1>1, <2>1
<1>5. ASSUME NEW i \in 1..n PROVE Nth(P, i) = i
  <2>1. Nth(P, i) \in P /\ Cardinality({j \in P : j < Nth(P, i)}) = i - 1
    <3> HIDE DEF P, n
    <3>1. i \in 1..Cardinality(P)
      BY <1>2
    <3> QED BY <1>1, <1>2, <3>1, NthNumbers
  <2>2. PICK k \in 1..n : k = Nth(P, i)
    BY <2>1
  <2>3. {j \in P : j < k} = 1..(k - 1)
    BY <1>1
  <2>4. Cardinality(1..(k - 1)) = k - 1
    <3>1. k - 1 \in Int /\ 1 \in Int /\ (IF 1 > k - 1 THEN 0 ELSE (k - 1) - 1 + 1) = k - 1
      OBVIOUS
    <3> QED BY <3>1, FS_Interval
  <2>5. k - 1 = i - 1
    BY <2>1, <2>2, <2>3, <2>4
  <2> QED BY <2>2, <2>5
<1>3. ElementsAt(s, P) = [i \in 1..n |-> s[i]]
  BY <1>2, <1>5 DEF ElementsAt
<1>4. s = [i \in 1..n |-> s[i]]
  OBVIOUS
<1> QED BY <1>3, <1>4

\* An answer to analytics has the newest events of all.
LEMMA AnswerToAnalytics ==
    ASSUME BusInv
    PROVE  LET answer == Metrics!getEvents(Undefined, LIMIT) IN
           /\ answer \in Seq(Bus!Event) /\ Len(answer) <= LIMIT
           /\ Newest(answer, Len(published), published)
<1> DEFINE answer == Metrics!getEvents(Undefined, LIMIT)
           L == Len(EVENTS)
           N == Len(published)
           m == Len(answer)
<1>1. /\ EVENTS \in Seq(Bus!Event) /\ published \in Seq(Bus!Types) /\ L \in Nat /\ N \in Nat
      /\ Newest(EVENTS, N, published)
  BY DEF BusInv, Bus!BusTypeOK
<1>2. answer = Bus!Sliced(EVENTS, LIMIT)
  <2>1. {i \in DOMAIN EVENTS : Undefined = Undefined \/ EVENTS[i].type = Undefined} = 1..L
    BY <1>1
  <2>2. Bus!OfType(EVENTS, Undefined) = EVENTS
    BY <1>1, <2>1, AllElements, SameBuffer DEF Bus!OfType
  <2> QED BY <2>2, SameBus DEF Bus!getEvents
<1> HIDE DEF answer
<1>3. answer \in Seq(Bus!Event) /\ SlicedTo(EVENTS, LIMIT, answer)
  BY <1>1, <1>2, MetricsBounds, SlicedKeeps
<1>4. m \in Nat /\ m <= L /\ m <= LIMIT /\ L <= N
  BY <1>1, <1>3, MetricsBounds DEF SlicedTo, Newest
<1>5. ASSUME NEW k \in 1..m
      PROVE  answer[k].no = (N - m) + k /\ answer[k].type = published[(N - m) + k]
  <2>1. PICK j \in 1..L : j = (L - m) + k /\ answer[k] = EVENTS[j]
    BY <1>3 DEF SlicedTo
  <2>2. (N - L) + j = (N - m) + k
    BY <1>1, <1>4, <2>1
  <2> QED BY <1>1, <2>1, <2>2 DEF Newest
<1>6. Newest(answer, N, published)
  BY <1>1, <1>4, <1>5 DEF Newest
<1> QED BY <1>3, <1>4, <1>6 DEF answer

\* Events counted where they are kept, or where they were published
LEMMA KindsCounted ==
    ASSUME NEW events \in Seq(Bus!Event), NEW pub, NEW upTo \in Nat, Newest(events, upTo, pub), NEW k
    PROVE  /\ Cardinality({i \in 1..Len(events) : Metrics!KindOf(events[i].type) = k}) =
                  Cardinality(OfKind(k, upTo - Len(events), upTo, pub))
           /\ Cardinality(OfKind(k, upTo - Len(events), upTo, pub)) \in Nat
<1> DEFINE A == {i \in 1..Len(events) : Metrics!KindOf(events[i].type) = k}
           d == upTo - Len(events)
           B == OfKind(k, d, upTo, pub)
<1>1. Len(events) \in Nat /\ d \in Int /\ d + Len(events) = upTo
  OBVIOUS
<1>2. IsFiniteSet(A) /\ Cardinality(A) \in Nat /\ \A a \in A : a \in Nat
  <2>1. IsFiniteSet(1..Len(events)) /\ A \subseteq 1..Len(events)
    BY <1>1, FS_Interval
  <2>2. \A a \in 1..Len(events) : a \in Nat
    OBVIOUS
  <2> HIDE DEF A
  <2> QED BY <2>1, <2>2, FS_Subset, FS_CardinalityType
<1>3. \A i \in 1..Len(events) : events[i].type = pub[d + i] /\ d + i \in (d + 1)..upTo
  BY <1>1 DEF Newest
<1>4. \A n \in (d + 1)..upTo : n - d \in 1..Len(events) /\ d + (n - d) = n
  BY <1>1
<1> HIDE DEF d
<1>5. \A b : b \in B <=> \E a \in A : b = d + a
  <2>1. ASSUME NEW b \in B PROVE \E a \in A : b = d + a
    <3>1. b \in (d + 1)..upTo /\ Metrics!KindOf(pub[b]) = k
      BY DEF OfKind
    <3>2. PICK i \in 1..Len(events) : d + i = b
      BY <1>4, <3>1
    <3>3. i \in A
      BY <1>3, <3>1, <3>2
    <3> QED BY <3>2, <3>3
  <2>2. ASSUME NEW a \in A PROVE d + a \in B
    BY <1>3 DEF OfKind
  <2> QED BY <2>1, <2>2
<1> HIDE DEF A, B
<1>6. Cardinality(B) = Cardinality(A)
  BY <1>1, <1>2, <1>5, Shifted
<1> QED BY <1>2, <1>6 DEF A, B, d

\* Whatever happens to the bus, no more than one event comes after the others.
LEMMA BusMoves ==
    ASSUME BusInv, [Bus!Next]_busSide
    PROVE  published' = published \/ \E type \in Bus!Types : published' = Append(published, type)
<1> DEFINE Goal == published' = published \/ \E type \in Bus!Types : published' = Append(published, type)
<1>1. CASE UNCHANGED busSide
  BY <1>1 DEF busSide
<1>2. ASSUME Bus!ProcessEnds PROVE Goal
  BY <1>2 DEF Bus!ProcessEnds
<1>3. ASSUME NEW b \in Bus!Bodies([type : Type]), Bus!PostEvent(b) PROVE Goal
  <2>1. ASSUME NEW p \in Bus!Reads(b, [type |-> Undefined]), Bus!publishEvent(p.type) PROVE Goal
    <3>1. p.type \in Bus!Types
      BY <1>3, <2>1 DEF Bus!Reads, Bus!Resolved, Bus!Bodies, Bus!Types
    <3> QED BY <2>1, <3>1 DEF Bus!publishEvent
  <2> QED BY <1>2, <1>3, <2>1 DEF Bus!PostEvent, Bus!Restart
<1>4. ASSUME NEW b, Bus!PostSubscribe(b) PROVE Goal
  BY <1>2, <1>4 DEF Bus!PostSubscribe, Bus!addSubscription, Bus!Restart
<1>5. ASSUME NEW id, Bus!removeSubscription(id) PROVE Goal
  BY <1>5 DEF Bus!removeSubscription
<1>6. ASSUME NEW n, Bus!CallbackAnswers(n) \/ Bus!CallbackFails(n) PROVE Goal
  BY <1>2, <1>6 DEF Bus!CallbackAnswers, Bus!CallbackFails
<1>7. ASSUME Bus!Restart PROVE Goal
  BY <1>2, <1>7 DEF Bus!Restart
<1> QED BY <1>1, <1>3, <1>4, <1>5, <1>6, <1>7 DEF Bus!Next

\* What was read stays as it was published.
LEMMA ReadingsStand ==
    ASSUME NEW pub \in Seq(Bus!Types), NEW type \in Bus!Types
    PROVE  /\ \A x : RoundOK(x, pub) => RoundOK(x, Append(pub, type))
           /\ \A m : \A rd \in Metrics!Reading : Counts(m, rd, pub) => Counts(m, rd, Append(pub, type))
<1> DEFINE pub2 == Append(pub, type)
<1>1. /\ Len(pub2) = Len(pub) + 1 /\ Len(pub) \in Nat
      /\ \A n \in 1..Len(pub) : pub2[n] = pub[n]
  BY Published
<1> HIDE DEF pub2
<1>2. ASSUME NEW events \in Seq(Bus!Event), NEW upTo \in Nat, Newest(events, upTo, pub)
      PROVE  Newest(events, upTo, pub2)
  <2>1. upTo <= Len(pub2) /\ Len(events) \in Nat /\ Len(events) <= upTo
    BY <1>1, <1>2 DEF Newest
  <2>2. \A i \in 1..Len(events) : (upTo - Len(events)) + i \in 1..Len(pub)
    BY <1>1, <1>2, <2>1 DEF Newest
  <2> QED BY <1>1, <1>2, <2>1, <2>2 DEF Newest
<1>3. ASSUME NEW x, RoundOK(x, pub) PROVE RoundOK(x, pub2)
  <2>1. x.at # "idle" => x.asked \in 0..Len(pub2)
    BY <1>1, <1>3 DEF RoundOK
  <2> QED BY <1>2, <1>3, <2>1 DEF RoundOK
<1>4. ASSUME NEW m, NEW rd \in Metrics!Reading, Counts(m, rd, pub) PROVE Counts(m, rd, pub2)
  <2>1. rd.upTo \in Nat /\ rd.held \in Nat /\ rd.held <= rd.upTo /\ rd.upTo <= Len(pub)
    BY <1>4 DEF Metrics!Reading, Counts
  <2>2. \A n \in ((rd.upTo - rd.held) + 1)..rd.upTo : n \in 1..Len(pub)
    BY <1>1, <2>1
  <2>3. \A k : OfKind(k, rd.upTo - rd.held, rd.upTo, pub2) = OfKind(k, rd.upTo - rd.held, rd.upTo, pub)
    BY <1>1, <2>2 DEF OfKind
  <2>4. rd.upTo <= Len(pub2)
    BY <1>1, <2>1
  <2> QED BY <1>4, <2>3, <2>4 DEF Counts
<1> QED BY <1>3, <1>4 DEF pub2

\* A round moves, and nothing else does.
LEMMA AwaitMetricsInv ==
    ASSUME MetricsInv, NEW r \in Round, NEW x, RoundOK(x, published), Metrics!Await(r, x)
    PROVE  MetricsInv'
<1>1. /\ rounds' = [rounds EXCEPT ![r] = x] /\ published' = published /\ logs' = logs
      /\ written' = written /\ METRICS' = METRICS /\ reading' = reading
  BY DEF Metrics!Await, Metrics!busVars
<1>2. DOMAIN rounds = Round /\ DOMAIN rounds' = Round
  BY <1>1 DEF MetricsInv
<1>3. ASSUME NEW q \in Round PROVE RoundOK(rounds'[q], published)
  <2>1. rounds'[q] = x \/ rounds'[q] = rounds[q]
    BY <1>1, <1>2
  <2> QED BY <2>1 DEF MetricsInv
<1>4. \A q \in Round : RoundOK(rounds'[q], published')
  BY <1>1, <1>3
<1>5. \A q \in Round : rounds'[q].at \in {"idle", "logging", "event", "answered"}
  BY <1>3 DEF RoundOK
<1>6. Metrics!AnalyticsTypeOK'
  BY <1>1, <1>5 DEF MetricsInv, Metrics!AnalyticsTypeOK
<1>7. Counts(METRICS', reading', published')
  BY <1>1 DEF MetricsInv
<1> QED BY <1>2, <1>4, <1>6, <1>7 DEF MetricsInv

\* A new log entry
LEMMA LogMetricsInv == ASSUME MetricsInv, Metrics!addLog PROVE MetricsInv'
<1>1. /\ rounds' = rounds /\ published' = published /\ written' = written + 1 /\ written < MaxWritten
      /\ METRICS' = METRICS /\ reading' = reading
      /\ logs' = PushBounded(logs, written + 1, MAX_LOGS)
  BY SameBus DEF Metrics!addLog, Metrics!busVars
<1>2. logs \in Seq(1..MaxWritten) /\ Len(logs) <= MAX_LOGS /\ written \in 0..MaxWritten
  BY DEF MetricsInv, Metrics!AnalyticsTypeOK
<1>3. written + 1 \in 1..MaxWritten
  BY <1>1, <1>2, MetricsBounds
<1>4. logs' \in Seq(1..MaxWritten) /\ Len(logs') <= MAX_LOGS
  BY <1>1, <1>2, <1>3, MetricsBounds, PushBoundedType
<1>5. written' \in 0..MaxWritten
  BY <1>1, <1>3
<1>6. Metrics!AnalyticsTypeOK'
  BY <1>1, <1>4, <1>5 DEF MetricsInv, Metrics!AnalyticsTypeOK
<1> QED BY <1>1, <1>6 DEF MetricsInv

\* POST /recompute
LEMMA AskedMetricsInv ==
    ASSUME MetricsInv, BusInv, NEW r \in Round, NEW b, Metrics!PostRecompute(r, b)
    PROVE  MetricsInv'
<1> DEFINE x == [at |-> "logging", asked |-> Len(published)]
<1>1. Len(published) \in Nat
  BY DEF BusInv, Bus!BusTypeOK
<1>2. x.at = "logging" /\ x.asked = Len(published)
  OBVIOUS
<1>3. Metrics!Await(r, x)
  BY DEF Metrics!PostRecompute
<1> HIDE DEF x
<1>4. RoundOK(x, published)
  BY <1>1, <1>2 DEF RoundOK
<1> QED BY <1>3, <1>4, AwaitMetricsInv

\* Logging answers, or fails.
LEMMA LoggedMetricsInv ==
    ASSUME MetricsInv, NEW r \in Round, Metrics!fetchLoggingEvents(r)
    PROVE  MetricsInv'
<1>1. PICK logged \in {Len(Metrics!getLogs(LIMIT)), 0} :
          Metrics!Await(r, [at |-> "event", asked |-> rounds[r].asked, logged |-> logged])
  BY DEF Metrics!fetchLoggingEvents
<1>2. Len(Metrics!getLogs(LIMIT)) \in 0..LIMIT
  <2>1. logs \in Seq(1..MaxWritten)
    BY DEF MetricsInv, Metrics!AnalyticsTypeOK
  <2>2. Metrics!getLogs(LIMIT) = Bus!Sliced(logs, LIMIT)
    BY MetricsBounds, SameBus DEF Metrics!getLogs
  <2>3. PICK got : got = Bus!Sliced(logs, LIMIT)
    OBVIOUS
  <2>4. got \in Seq(1..MaxWritten) /\ SlicedTo(logs, LIMIT, got)
    BY <2>1, <2>3, MetricsBounds, SlicedKeeps
  <2>5. Len(got) \in 0..LIMIT
    BY <2>1, <2>4, MetricsBounds DEF SlicedTo
  <2> QED BY <2>2, <2>3, <2>5
<1>3. logged \in 0..LIMIT
  BY <1>1, <1>2, MetricsBounds
<1> DEFINE x == [at |-> "event", asked |-> rounds[r].asked, logged |-> logged]
<1>4. x.at = "event" /\ x.asked = rounds[r].asked /\ x.logged = logged /\ Metrics!Await(r, x)
  BY <1>1
<1> HIDE DEF x
<1>5. rounds[r].asked \in 0..Len(published)
  BY DEF MetricsInv, RoundOK, Metrics!fetchLoggingEvents
<1>6. RoundOK(x, published)
  BY <1>3, <1>4, <1>5 DEF RoundOK
<1> QED BY <1>4, <1>6, AwaitMetricsInv

\* The bus answers, or fails.
LEMMA AnsweredMetricsInv ==
    ASSUME MetricsInv, BusInv, NEW r \in Round, Metrics!fetchBusEvents(r)
    PROVE  MetricsInv'
<1>1. PICK answered \in BOOLEAN : Metrics!Await(r,
          [at |-> "answered", asked |-> rounds[r].asked, logged |-> rounds[r].logged,
           events |-> IF answered THEN Metrics!getEvents(Undefined, LIMIT) ELSE <<>>,
           upTo |-> Len(published), answered |-> answered])
  BY DEF Metrics!fetchBusEvents
<1>2. Len(published) \in Nat
  BY DEF BusInv, Bus!BusTypeOK
<1>3. PICK got : got = IF answered THEN Metrics!getEvents(Undefined, LIMIT) ELSE <<>>
  OBVIOUS
<1>4. got \in Seq(Bus!Event) /\ Len(got) <= LIMIT /\ Newest(got, Len(published), published)
  <2>1. CASE answered
    BY <1>3, <2>1, AnswerToAnalytics
  <2>2. CASE ~answered
    <3>1. got = <<>> /\ Len(got) = 0 /\ 1..Len(got) = {} /\ got \in Seq(Bus!Event)
      BY <1>3, <2>2
    <3> QED BY <1>2, <3>1, MetricsBounds DEF Newest
  <2> QED BY <2>1, <2>2
<1> DEFINE x == [at |-> "answered", asked |-> rounds[r].asked, logged |-> rounds[r].logged,
                 events |-> got, upTo |-> Len(published), answered |-> answered]
<1>5. /\ x.at = "answered" /\ x.asked = rounds[r].asked /\ x.logged = rounds[r].logged
      /\ x.events = got /\ x.upTo = Len(published) /\ x.answered = answered
  OBVIOUS
<1>6. Metrics!Await(r, x)
  BY <1>1, <1>3
<1> HIDE DEF x
<1>7. rounds[r].asked \in 0..Len(published) /\ rounds[r].logged \in 0..LIMIT
  BY DEF MetricsInv, RoundOK, Metrics!fetchBusEvents
<1>8. x.asked <= x.upTo
  BY <1>2, <1>5, <1>7
<1>9. RoundOK(x, published)
  BY <1>2, <1>4, <1>5, <1>7, <1>8 DEF RoundOK
<1> QED BY <1>6, <1>9, AwaitMetricsInv

\* The metrics of a reading count it.
LEMMA MetricsCount ==
    ASSUME NEW logged \in 0..LIMIT, NEW events \in Seq(Bus!Event), Len(events) <= LIMIT,
           NEW pub, NEW upTo \in Nat, Newest(events, upTo, pub), NEW asked \in Nat, asked <= upTo,
           NEW answered
    PROVE  LET m == Metrics!Metrics(logged, events)
               rd == [logged |-> logged, held |-> Len(events), asked |-> asked,
                      upTo |-> upTo, answered |-> answered]
           IN m \in [byType : [Metrics!Kinds -> Nat], total : Nat] /\ Counts(m, rd, pub)
<1> DEFINE m == Metrics!Metrics(logged, events)
           rd == [logged |-> logged, held |-> Len(events), asked |-> asked,
                  upTo |-> upTo, answered |-> answered]
           counted(k) == Cardinality(OfKind(k, upTo - Len(events), upTo, pub))
<1>1. logged \in Nat /\ logged <= LIMIT /\ Len(events) \in Nat /\ Len(events) <= upTo /\ upTo <= Len(pub)
  BY MetricsBounds DEF Newest
<1>2. ASSUME NEW k
      PROVE  /\ Metrics!Cardinality({i \in DOMAIN events : Metrics!KindOf(events[i].type) = k}) = counted(k)
             /\ counted(k) \in Nat
  <2>1. DOMAIN events = 1..Len(events)
    OBVIOUS
  <2> QED BY <2>1, SameBus, KindsCounted
<1>3. \A k \in Metrics!Kinds : m.byType[k] = counted(k) + Unknown(k, logged)
  BY <1>2 DEF Metrics!Metrics, Unknown
<1>4. m.byType \in [Metrics!Kinds -> Nat]
  <2>1. \A k : Unknown(k, logged) \in Nat
    BY <1>1 DEF Unknown
  <2>2. ASSUME NEW k PROVE counted(k) + Unknown(k, logged) \in Nat
    <3>1. PICK a, b : a = counted(k) /\ b = Unknown(k, logged)
      OBVIOUS
    <3>2. a \in Nat /\ b \in Nat
      BY <1>2, <2>1, <3>1
    <3> QED BY <3>1, <3>2
  <2>3. m.byType = [k \in Metrics!Kinds |-> m.byType[k]]
    BY DEF Metrics!Metrics
  <2> HIDE DEF m, counted
  <2> QED BY <1>3, <2>2, <2>3
<1>5. m = [byType |-> m.byType, total |-> logged + Len(events)] /\ m.total = logged + Len(events)
  BY DEF Metrics!Metrics
<1>6. m \in [byType : [Metrics!Kinds -> Nat], total : Nat]
  <2>1. logged + Len(events) \in Nat
    BY <1>1
  <2> HIDE DEF m
  <2> QED BY <1>4, <1>5, <2>1
<1>7. Counts(m, rd, pub)
  <2>1. /\ rd.held = Len(events) /\ rd.upTo = upTo /\ rd.asked = asked /\ rd.logged = logged
    OBVIOUS
  <2> HIDE DEF m, rd
  <2> QED BY <1>1, <1>3, <1>5, <2>1 DEF Counts
<1> QED BY <1>6, <1>7

\* The metrics are replaced by those of what the round has read.
LEMMA RecomputedMetricsInv ==
    ASSUME MetricsInv, BusInv, NEW r \in Round, Metrics!recomputeMetrics(r)
    PROVE  MetricsInv'
<1> DEFINE got == rounds[r]
           rd == [logged |-> got.logged, held |-> Len(got.events), asked |-> got.asked,
                  upTo |-> got.upTo, answered |-> got.answered]
<1>1. /\ METRICS' = Metrics!Metrics(got.logged, got.events)
      /\ reading' = rd /\ rounds' = [rounds EXCEPT ![r] = Metrics!Idle]
      /\ published' = published /\ logs' = logs /\ written' = written /\ got.at = "answered"
  BY DEF Metrics!recomputeMetrics, Metrics!busVars
<1>2. RoundOK(got, published)
  BY DEF MetricsInv
<1>3. /\ got.logged \in 0..LIMIT /\ got.events \in Seq(Bus!Event) /\ Len(got.events) <= LIMIT
      /\ got.upTo \in Nat /\ Newest(got.events, got.upTo, published)
      /\ got.asked \in 0..Len(published) /\ got.asked <= got.upTo /\ got.answered \in BOOLEAN
  BY <1>1, <1>2 DEF RoundOK
<1>4. Len(published) \in Nat /\ Len(published) <= MaxPublished
  BY DEF BusInv, Bus!BusTypeOK
<1>5. got.asked \in Nat /\ got.upTo <= Len(published) /\ got.logged \in Nat
  BY <1>3, <1>4, MetricsBounds DEF Newest
<1>6. /\ METRICS' \in [byType : [Metrics!Kinds -> Nat], total : Nat]
      /\ Counts(METRICS', reading', published)
  BY <1>1, <1>3, <1>5, MetricsCount
<1>7. reading' \in Metrics!Reading
  <2>1. got.asked \in 0..MaxPublished /\ got.upTo \in 0..MaxPublished
    BY <1>3, <1>4, <1>5, BusBounds
  <2>2. Len(got.events) \in Nat
    BY <1>3
  <2>3. rd \in Metrics!Reading
    BY <1>3, <1>5, <2>1, <2>2 DEF Metrics!Reading
  <2> QED BY <1>1, <2>3
<1>8. DOMAIN rounds = Round /\ DOMAIN rounds' = Round
  BY <1>1 DEF MetricsInv
<1>9. RoundOK(Metrics!Idle, published)
  <2>1. Metrics!Idle.at = "idle"
    BY DEF Metrics!Idle
  <2> HIDE DEF Metrics!Idle
  <2> QED BY <2>1 DEF RoundOK
<1>10. ASSUME NEW q \in Round PROVE RoundOK(rounds'[q], published)
  <2>1. rounds'[q] = Metrics!Idle \/ rounds'[q] = rounds[q]
    BY <1>1, <1>8
  <2> QED BY <1>9, <2>1 DEF MetricsInv
<1>11. \A q \in Round : RoundOK(rounds'[q], published')
  BY <1>1, <1>10
<1>12. \A q \in Round : rounds'[q].at \in {"idle", "logging", "event", "answered"}
  BY <1>10 DEF RoundOK
<1>13. Metrics!AnalyticsTypeOK'
  BY <1>1, <1>6, <1>7, <1>12 DEF MetricsInv, Metrics!AnalyticsTypeOK
<1>14. Counts(METRICS', reading', published')
  BY <1>1, <1>6
<1> QED BY <1>8, <1>11, <1>13, <1>14 DEF MetricsInv

\* Nothing counted is nothing read.
LEMMA NothingCounted ==
    ASSUME NEW pub, Len(pub) \in Nat
    PROVE  /\ Counts(Metrics!NoMetrics, Metrics!NoReading, pub)
           /\ Metrics!NoMetrics \in [byType : [Metrics!Kinds -> Nat], total : Nat]
           /\ Metrics!NoReading \in Metrics!Reading
           /\ RoundOK(Metrics!Idle, pub)
<1>1. /\ Metrics!NoReading.logged = 0 /\ Metrics!NoReading.held = 0 /\ Metrics!NoReading.asked = 0
      /\ Metrics!NoReading.upTo = 0 /\ Metrics!NoReading \in Metrics!Reading
  BY BusBounds DEF Metrics!NoReading, Metrics!Reading
<1>2. /\ \A k \in Metrics!Kinds : Metrics!NoMetrics.byType[k] = 0
      /\ Metrics!NoMetrics.total = 0
      /\ Metrics!NoMetrics \in [byType : [Metrics!Kinds -> Nat], total : Nat]
  BY DEF Metrics!NoMetrics
<1>3. \A k : OfKind(k, 0 - 0, 0, pub) = {} /\ Unknown(k, 0) = 0
  BY DEF OfKind, Unknown
<1>4. Cardinality({}) = 0
  BY FS_EmptySet
<1>5. Metrics!Idle.at = "idle"
  BY DEF Metrics!Idle
<1> HIDE DEF Metrics!NoReading, Metrics!NoMetrics, Metrics!Idle
<1>6. Counts(Metrics!NoMetrics, Metrics!NoReading, pub)
  <2>1. \A k : Cardinality(OfKind(k, 0 - 0, 0, pub)) + Unknown(k, 0) = 0
    BY <1>3, <1>4
  <2>2. ASSUME NEW k \in Metrics!Kinds
        PROVE  Metrics!NoMetrics.byType[k] =
                   Cardinality(OfKind(k, Metrics!NoReading.upTo - Metrics!NoReading.held,
                                      Metrics!NoReading.upTo, pub)) + Unknown(k, Metrics!NoReading.logged)
    BY <1>1, <1>2, <2>1
  <2> QED BY <1>1, <1>2, <2>2, MetricsBounds DEF Counts
<1>7. RoundOK(Metrics!Idle, pub)
  BY <1>5 DEF RoundOK
<1> QED BY <1>1, <1>2, <1>6, <1>7

\* Either service starts again.
LEMMA RestartedMetricsInv ==
    ASSUME MetricsInv, BusInv, Metrics!RestartLogging \/ Metrics!RestartAnalytics
    PROVE  MetricsInv'
<1>1. Len(published) \in Nat
  BY DEF BusInv, Bus!BusTypeOK
<1>2. CASE Metrics!RestartLogging
  <2>1. /\ rounds' = rounds /\ published' = published /\ written' = written /\ logs' = <<>>
        /\ METRICS' = METRICS /\ reading' = reading
    BY <1>2 DEF Metrics!RestartLogging, Metrics!busVars
  <2>2. logs' \in Seq(1..MaxWritten) /\ Len(logs') <= MAX_LOGS
    BY <2>1, MetricsBounds
  <2>3. Metrics!AnalyticsTypeOK'
    BY <2>1, <2>2 DEF MetricsInv, Metrics!AnalyticsTypeOK
  <2> QED BY <2>1, <2>3 DEF MetricsInv
<1>3. CASE Metrics!RestartAnalytics
  <2>1. /\ rounds' = [r \in Round |-> Metrics!Idle] /\ published' = published /\ written' = written
        /\ logs' = logs /\ METRICS' = Metrics!NoMetrics /\ reading' = Metrics!NoReading
    BY <1>3 DEF Metrics!RestartAnalytics, Metrics!busVars
  <2>2. \A r \in Round : RoundOK(rounds'[r], published) /\ rounds'[r].at = "idle"
    BY <1>1, <2>1, NothingCounted DEF Metrics!Idle
  <2>3. Metrics!AnalyticsTypeOK'
    BY <1>1, <2>1, <2>2, NothingCounted DEF MetricsInv, Metrics!AnalyticsTypeOK
  <2>4. DOMAIN rounds' = Round
    BY <2>1
  <2>5. Counts(METRICS', reading', published')
    BY <1>1, <2>1, NothingCounted
  <2>6. \A r \in Round : RoundOK(rounds'[r], published')
    BY <2>1, <2>2
  <2> QED BY <2>3, <2>4, <2>5, <2>6 DEF MetricsInv
<1> QED BY <1>2, <1>3

\* Whatever happens to the bus, what was read of it stands.
LEMMA BusStepMetricsInv ==
    ASSUME BusInv, MetricsInv, [Bus!Next]_busSide, UNCHANGED analyticsSide
    PROVE  MetricsInv'
<1>1. /\ logs' = logs /\ written' = written /\ rounds' = rounds /\ METRICS' = METRICS
      /\ reading' = reading
  BY DEF analyticsSide
<1>2. published \in Seq(Bus!Types) /\ reading \in Metrics!Reading
  BY DEF BusInv, Bus!BusTypeOK, MetricsInv, Metrics!AnalyticsTypeOK
<1>3. Metrics!AnalyticsTypeOK'
  BY <1>1 DEF MetricsInv, Metrics!AnalyticsTypeOK
<1>4. CASE published' = published
  BY <1>1, <1>3, <1>4 DEF MetricsInv
<1>5. ASSUME NEW type \in Bus!Types, published' = Append(published, type) PROVE MetricsInv'
  <2>1. /\ \A x : RoundOK(x, published) => RoundOK(x, published')
        /\ Counts(METRICS, reading, published) => Counts(METRICS, reading, published')
    BY <1>2, <1>5, ReadingsStand
  <2> QED BY <1>1, <1>3, <2>1 DEF MetricsInv
<1> QED BY <1>4, <1>5, BusMoves

\* What analytics sees happen to the bus is what may happen to it.
LEMMA SeenOfTheBus ==
    ASSUME (\E b \in Metrics!Bodies([type : Type]) : Metrics!PostEvent(b)) \/ Metrics!Restart
    PROVE  Bus!Next
<1>1. Metrics!Restart => Bus!Restart
  BY DEF Metrics!Restart, Bus!Restart, Metrics!ProcessEnds, Bus!ProcessEnds, Metrics!Closed, Bus!Closed,
         Metrics!Open, Bus!Open
<1>2. \A S : Metrics!Bodies(S) = Bus!Bodies(S)
  BY DEF Metrics!Bodies, Bus!Bodies
<1>3. ASSUME NEW b, Metrics!PostEvent(b) PROVE Bus!PostEvent(b)
  <2>1. \A x : Metrics!Reads(b, x) = Bus!Reads(b, x)
    BY DEF Metrics!Reads, Bus!Reads, Metrics!Resolved, Bus!Resolved
  <2>2. \A e : Metrics!Calls(e) = Bus!Calls(e)
    BY DEF Metrics!Calls, Bus!Calls
  <2>3. \A type : Metrics!publishEvent(type) => Bus!publishEvent(type)
    BY <2>2, SameBus, SameBuffer DEF Metrics!publishEvent, Bus!publishEvent
  <2>4. Metrics!Breaks(b) => Bus!Breaks(b)
    BY DEF Metrics!Breaks, Bus!Breaks
  <2> QED BY <1>1, <1>3, <2>1, <2>3, <2>4 DEF Metrics!PostEvent, Bus!PostEvent
<1> QED BY <1>1, <1>2, <1>3 DEF Bus!Next

LEMMA NextMetricsInv ==
    ASSUME BusInv, MetricsInv, Metrics!AnalyticsNext
    PROVE  BusInv' /\ MetricsInv'
<1>1. ASSUME UNCHANGED Metrics!busVars PROVE BusInv'
  <2>1. UNCHANGED busSide
    BY <1>1 DEF Metrics!busVars, busSide
  <2> QED BY <2>1, NextBusInv
<1>2. ASSUME NEW b, Metrics!PostLog(b) PROVE BusInv' /\ MetricsInv'
  BY <1>1, <1>2, LogMetricsInv DEF Metrics!PostLog, Metrics!addLog
<1>3. ASSUME NEW r \in Round, NEW b, Metrics!PostRecompute(r, b) PROVE BusInv' /\ MetricsInv'
  BY <1>1, <1>3, AskedMetricsInv DEF Metrics!PostRecompute, Metrics!Await
<1>4. ASSUME NEW r \in Round, Metrics!fetchLoggingEvents(r) PROVE BusInv' /\ MetricsInv'
  BY <1>1, <1>4, LoggedMetricsInv DEF Metrics!fetchLoggingEvents, Metrics!Await
<1>5. ASSUME NEW r \in Round, Metrics!fetchBusEvents(r) PROVE BusInv' /\ MetricsInv'
  BY <1>1, <1>5, AnsweredMetricsInv DEF Metrics!fetchBusEvents, Metrics!Await
<1>6. ASSUME NEW r \in Round, Metrics!recomputeMetrics(r) PROVE BusInv' /\ MetricsInv'
  BY <1>1, <1>6, RecomputedMetricsInv DEF Metrics!recomputeMetrics
<1>7. ASSUME Metrics!RestartLogging \/ Metrics!RestartAnalytics PROVE BusInv' /\ MetricsInv'
  BY <1>1, <1>7, RestartedMetricsInv DEF Metrics!RestartLogging, Metrics!RestartAnalytics
<1>8. ASSUME (\E b \in Metrics!Bodies([type : Type]) : Metrics!PostEvent(b)) \/ Metrics!Restart,
             UNCHANGED <<logs, written, rounds, METRICS, reading>>
      PROVE  BusInv' /\ MetricsInv'
  BY <1>8, SeenOfTheBus, NextBusInv, BusStepMetricsInv DEF analyticsSide
<1> QED BY <1>2, <1>3, <1>4, <1>5, <1>6, <1>7, <1>8 DEF Metrics!AnalyticsNext

LEMMA InitMetricsInv == Metrics!AnalyticsInit => BusInv /\ MetricsInv
<1> SUFFICES ASSUME Metrics!AnalyticsInit PROVE BusInv /\ MetricsInv
  OBVIOUS
<1>1. BusInv
  BY InitBusInv DEF Metrics!AnalyticsInit, Metrics!Init, Bus!Init
<1>2. /\ rounds = [r \in Round |-> Metrics!Idle] /\ logs = <<>> /\ written = 0
      /\ METRICS = Metrics!NoMetrics /\ reading = Metrics!NoReading /\ Len(published) = 0
  BY DEF Metrics!AnalyticsInit, Metrics!Init
<1>3. \A r \in Round : RoundOK(rounds[r], published) /\ rounds[r].at = "idle"
  BY <1>2, NothingCounted DEF Metrics!Idle
<1>4. Metrics!AnalyticsTypeOK
  BY <1>2, <1>3, NothingCounted, MetricsBounds DEF Metrics!AnalyticsTypeOK
<1>5. DOMAIN rounds = Round /\ Counts(METRICS, reading, published)
  BY <1>2, NothingCounted
<1> QED BY <1>1, <1>3, <1>4, <1>5 DEF MetricsInv

LEMMA MetricsInvCounts == MetricsInv => MetricsAreFresh
<1> SUFFICES ASSUME MetricsInv PROVE MetricsAreFresh
  OBVIOUS
<1> DEFINE counted == (reading.upTo - reading.held + 1)..reading.upTo
           ofKind(k) == Metrics!Cardinality({n \in counted : Metrics!KindOf(published[n]) = k})
<1>1. Counts(METRICS, reading, published) /\ reading \in Metrics!Reading
  BY DEF MetricsInv, Metrics!AnalyticsTypeOK
<1>2. /\ reading.logged \in Nat /\ reading.held \in Nat /\ reading.asked \in Nat /\ reading.upTo \in Nat
  BY <1>1, BusBounds DEF Metrics!Reading
<1>3. \A k : ofKind(k) = Cardinality(OfKind(k, reading.upTo - reading.held, reading.upTo, published))
  BY SameBus DEF OfKind
<1>4. \A k \in Metrics!Kinds :
          METRICS.byType[k] = ofKind(k) + IF k = "unknown" THEN reading.logged ELSE 0
  BY <1>1, <1>3 DEF Counts, Unknown
<1>5. METRICS.total = reading.logged + reading.held /\ METRICS.total <= 2 * LIMIT
  BY <1>1, <1>2, MetricsBounds DEF Counts
<1>6. reading.asked <= reading.upTo
  BY <1>1 DEF Counts
<1> QED BY <1>4, <1>5, <1>6 DEF MetricsAreFresh, Metrics!MetricsAreFresh

-----------------------------------------------------------------------------
(* State *)

Setting == [set : {TRUE}, value : State!Values, ts : 0..MaxClock, deleted : BOOLEAN]

\* The other keys that were set no earlier than k
Newer(lst, k) ==
    {j \in State!AllKeys \ {k} : lst[j] # State!Never /\ lst[j].ts >= lst[k].ts}

\* The keys that were ever set
EverSet(lst) == {j \in State!AllKeys : lst[j] # State!Never}

\* The history is of settings up to now, and of finitely many keys.
SetUpTo(lst, now) ==
    /\ lst \in [State!AllKeys -> {State!Never} \cup Setting]
    /\ IsFiniteSet(EverSet(lst))
    /\ \A k \in State!AllKeys : lst[k] # State!Never => lst[k].ts <= now

\* Every key but the one set has that key and whoever was newer before as newer ones.
Outgrown(lst, lst2, key) ==
    \A k \in State!AllKeys : k # key /\ lst[k] # State!Never =>
        /\ Newer(lst, k) \subseteq Newer(lst2, k) /\ key \in Newer(lst2, k)
        /\ IsFiniteSet(Newer(lst2, k)) /\ Cardinality(Newer(lst2, k)) >= Cardinality(Newer(lst, k))
        /\ Cardinality(Newer(lst, k)) \in Nat /\ Cardinality(Newer(lst2, k)) \in Nat

\* What the table holds is what was set last, and a key that should be there
\* and is not was crowded out.
RowsAsSet(t, lst) ==
    \A r \in Rows(t) :
        /\ r.key \in State!AllKeys /\ lst[r.key] # State!Never /\ ~lst[r.key].deleted
        /\ r.value = lst[r.key].value /\ r.ts = lst[r.key].ts

CrowdedOut(t, lst) ==
    \A k \in State!AllKeys :
        lst[k] # State!Never /\ ~lst[k].deleted /\ k \notin Table!Keys(t) =>
            Cardinality(Newer(lst, k)) >= MAX_KEYS

StateInv ==
    /\ State!StateTypeOK
    /\ SetUpTo(last, clock)
    /\ Distinct(STATE_) /\ RowsAsSet(STATE_, last) /\ CrowdedOut(STATE_, last)

\* The table's operators are the ones the theorems of tables are about.
LEMMA SameTable ==
    /\ \A t : State!Keys(t) = Table!Keys(t)
    /\ \A t, k : State!Without(t, k) = Table!Without(t, k)
    /\ \A t, e : State!Stored(t, e) = Table!Stored(t, e)
    /\ \A t : State!OldestKey(t) = Table!OldestKey(t)
    /\ \A S : State!Cardinality(S) = Cardinality(S)
<1>6. \A S : State!Cardinality(S) = Cardinality(S)
  BY DEF State!Cardinality, Cardinality
<1>1. \A t : State!Keys(t) = Table!Keys(t)
  BY DEF State!Keys, Table!Keys
<1>2. \A t, k : State!Spliced(t, k) = Table!Spliced(t, k) /\ State!PlaceOf(t, k) = Table!PlaceOf(t, k)
  BY DEF State!Spliced, Table!Spliced, State!PlaceOf, Table!PlaceOf
<1>3. \A t, k : State!Without(t, k) = Table!Without(t, k)
  BY <1>1, <1>2 DEF State!Without, Table!Without
<1>4. \A t, e : State!Stored(t, e) = Table!Stored(t, e)
  BY <1>1 DEF State!Stored, Table!Stored
<1>5. \A t : State!OldestKey(t) = Table!OldestKey(t)
  BY DEF State!OldestKey, Table!OldestKey
<1> QED BY <1>1, <1>3, <1>4, <1>5, <1>6

LEMMA NeverIsNoSetting == \A s \in Setting : s # State!Never
<1>1. \A s \in Setting : s.set = TRUE
  BY DEF Setting
<1>2. State!Never.set = FALSE
  BY DEF State!Never
<1> QED BY <1>1, <1>2

\* Setting a key crowds nobody in: whoever was newer stays newer.
LEMMA NewerGrows ==
    ASSUME NEW now \in 0..MaxClock, NEW lst, SetUpTo(lst, now), NEW key \in State!AllKeys,
           NEW s \in Setting, s.ts = now, NEW lst2, lst2 = [lst EXCEPT ![key] = s]
    PROVE  SetUpTo(lst2, now) /\ Outgrown(lst, lst2, key)
<1> USE DEF SetUpTo
<1> DEFINE F1 == EverSet(lst)
           F2 == EverSet(lst2)
<1>1. /\ lst2 \in [State!AllKeys -> {State!Never} \cup Setting]
      /\ lst2[key] = s /\ \A k \in State!AllKeys \ {key} : lst2[k] = lst[k]
  OBVIOUS
<1>2. F2 \subseteq F1 \cup {key} /\ IsFiniteSet(F1 \cup {key})
  BY <1>1, FS_AddElement DEF EverSet
<1>3. IsFiniteSet(F2)
  BY <1>2, FS_Subset
<1>4. \A k \in State!AllKeys : lst2[k] # State!Never => lst2[k].ts <= now
  BY <1>1
<1>5. ASSUME NEW k \in State!AllKeys, k # key, lst[k] # State!Never
      PROVE  /\ Newer(lst, k) \subseteq Newer(lst2, k) /\ key \in Newer(lst2, k)
             /\ IsFiniteSet(Newer(lst2, k)) /\ Cardinality(Newer(lst2, k)) >= Cardinality(Newer(lst, k))
             /\ Cardinality(Newer(lst, k)) \in Nat /\ Cardinality(Newer(lst2, k)) \in Nat
  <2>1. lst2[k] = lst[k] /\ lst[k] \in Setting /\ lst[k].ts \in 0..MaxClock /\ lst[k].ts <= now
    BY <1>1, <1>5 DEF Setting
  <2>2. lst2[key] # State!Never /\ lst2[key].ts >= lst2[k].ts
    BY <1>1, <2>1, NeverIsNoSetting
  <2>3. key \in Newer(lst2, k)
    BY <1>5, <2>2 DEF Newer
  <2>4. Newer(lst, k) \subseteq Newer(lst2, k)
    BY <1>1, <2>1, <2>3 DEF Newer
  <2>5. Newer(lst2, k) \subseteq F2
    BY DEF Newer, EverSet
  <2>6. IsFiniteSet(Newer(lst2, k))
    BY <1>3, <2>5, FS_Subset
  <2> QED BY <2>3, <2>4, <2>6, FS_Subset, FS_CardinalityType
<1> QED BY <1>1, <1>3, <1>4, <1>5 DEF Outgrown

\* Of a full table whose oldest row goes, the other rows and the key that is
\* set are newer.
LEMMA OldestIsCrowdedOut ==
    ASSUME NEW t \in Seq(State!Item), Distinct(t), Len(t) = MAX_KEYS,
           NEW lst, RowsAsSet(t, lst), NEW key, key \notin Table!Keys(t),
           NEW o \in Rows(t), \A x \in Rows(t) : o.ts <= x.ts,
           NEW lst2, Newer(lst, o.key) \subseteq Newer(lst2, o.key),
           key \in Newer(lst2, o.key), IsFiniteSet(Newer(lst2, o.key))
    PROVE  Cardinality(Newer(lst2, o.key)) >= MAX_KEYS
<1> DEFINE K == Table!Keys(t)
           L == K \ {o.key}
<1>1. IsFiniteSet(K) /\ Cardinality(K) = MAX_KEYS /\ MAX_KEYS \in Nat
  BY KeysCounted
<1>2. o.key \in K
  BY KeysOfRows
<1>3. IsFiniteSet(L) /\ Cardinality(L) = MAX_KEYS - 1
  BY <1>1, <1>2, FS_RemoveElement
<1>4. IsFiniteSet(L \cup {key}) /\ Cardinality(L \cup {key}) = MAX_KEYS
  <2>1. key \notin L
    OBVIOUS
  <2> HIDE DEF L
  <2>2. Cardinality(L \cup {key}) = Cardinality(L) + 1 /\ IsFiniteSet(L \cup {key})
    BY <1>3, <2>1, FS_AddElement
  <2> QED BY <1>1, <1>3, <2>2
<1>5. L \subseteq Newer(lst, o.key)
  <2> SUFFICES ASSUME NEW k \in L PROVE k \in Newer(lst, o.key)
    OBVIOUS
  <2>1. PICK x \in Rows(t) : x.key = k
    BY KeysOfRows
  <2>2. /\ k \in State!AllKeys /\ k # o.key /\ lst[k] # State!Never /\ lst[k].ts = x.ts
        /\ lst[o.key].ts = o.ts /\ o.ts <= x.ts
    BY <2>1 DEF RowsAsSet
  <2>3. o.ts \in Nat /\ x.ts \in Nat
    <3>1. \A y \in Rows(t) : y \in State!Item
      BY DEF Rows
    <3>2. \A y \in State!Item : y.ts \in 0..MaxClock
      BY DEF State!Item
    <3> QED BY <3>1, <3>2
  <2> QED BY <2>2, <2>3 DEF Newer
<1>6. L \cup {key} \subseteq Newer(lst2, o.key)
  BY <1>5
<1> QED BY <1>1, <1>4, <1>6, FS_Subset, FS_CardinalityType

\* POST /set
LEMMA SetStateInv ==
    ASSUME StateInv, NEW key \in State!AllKeys, NEW value \in State!Values, State!setState(key, value)
    PROVE  StateInv'
<1> DEFINE s == [set |-> TRUE, value |-> value, ts |-> clock, deleted |-> FALSE]
           e == [key |-> key, value |-> value, ts |-> clock]
           t == STATE_
           room == State!RoomFor(key)
<1>1. /\ STATE_' = Table!Stored(room, e) /\ last' = [last EXCEPT ![key] = s] /\ clock' = clock
  BY SameTable DEF State!setState
<1>2. clock \in 0..MaxClock /\ clock \in Nat
  BY DEF StateInv, State!StateTypeOK
<1>3. s \in Setting /\ s.ts = clock /\ s.value = value /\ ~s.deleted
  BY <1>2 DEF Setting
<1>4. e \in State!Item /\ e.key = key /\ e.value = value /\ e.ts = clock
  BY <1>2 DEF State!Item
<1> HIDE DEF s, e
<1>5. /\ t \in Seq(State!Item) /\ Distinct(t) /\ Len(t) <= MAX_KEYS
      /\ SetUpTo(last, clock)
      /\ RowsAsSet(t, last) /\ CrowdedOut(t, last)
  BY DEF StateInv, State!StateTypeOK
<1>6. SetUpTo(last', clock) /\ Outgrown(last, last', key)
  <2>1. PICK lst2 : lst2 = last'
    OBVIOUS
  <2>2. lst2 = [last EXCEPT ![key] = s]
    BY <1>1, <2>1
  <2>3. SetUpTo(lst2, clock) /\ Outgrown(last, lst2, key)
    <3>1. s \in Setting /\ s.ts = clock /\ clock \in 0..MaxClock
      BY <1>2, <1>3
    <3> QED BY <1>5, <2>2, <3>1, NewerGrows
  <2> QED BY <2>1, <2>3
<1>7. last'[key] = s /\ \A k \in State!AllKeys \ {key} : last'[k] = last[k]
  BY <1>1, <1>5 DEF SetUpTo
<1>8. MAX_KEYS \in Nat \ {0}
  BY ServicesAssumption DEF State!StateStoreAssumption
<1>9. /\ room \in Seq(State!Item) /\ Distinct(room) /\ Rows(room) \subseteq Rows(t)
      /\ Len(room) <= MAX_KEYS /\ (key \notin Table!Keys(room) => Len(room) < MAX_KEYS)
      /\ \A k \in State!AllKeys : k \in Table!Keys(t) /\ k \notin Table!Keys(room) =>
             k # key /\ Cardinality(Newer(last', k)) >= MAX_KEYS
  <2>1. Len(t) \in Nat
    BY <1>5
  <2>2. CASE ~(Len(t) >= MAX_KEYS /\ key \notin Table!Keys(t))
    <3>1. room = t
      BY <2>2, SameTable DEF State!RoomFor
    <3> QED BY <1>5, <1>8, <2>1, <2>2, <3>1
  <2>3. CASE Len(t) >= MAX_KEYS /\ key \notin Table!Keys(t)
    <3> DEFINE old == Table!OldestKey(t)
    <3>1. room = Table!Without(t, old) /\ Len(t) = MAX_KEYS /\ t # <<>>
      BY <1>5, <1>8, <2>1, <2>3, SameTable DEF State!RoomFor
    <3>2. \A x \in Rows(t) : x.ts \in Nat
      <4>1. \A y \in Rows(t) : y \in State!Item
        BY <1>5 DEF Rows
      <4>2. \A y \in State!Item : y.ts \in 0..MaxClock
        BY DEF State!Item
      <4> QED BY <4>1, <4>2
    <3>3. PICK o \in Rows(t) : old = o.key /\ \A x \in Rows(t) : o.ts <= x.ts
      BY <1>5, <3>1, <3>2, OldestKeyIsOldest
    <3> HIDE DEF old
    <3>4. /\ room \in Seq(State!Item) /\ Distinct(room)
          /\ Rows(room) = {x \in Rows(t) : x.key # old}
          /\ Len(room) = IF old \in Table!Keys(t) THEN Len(t) - 1 ELSE Len(t)
      BY <1>5, <3>1, WithoutKeeps
    <3>5. Table!Keys(t) = {x.key : x \in Rows(t)} /\ Table!Keys(room) = {x.key : x \in Rows(room)}
      BY <1>5, <3>4, KeysOfRows
    <3>6. old \in Table!Keys(t) /\ Len(room) < MAX_KEYS
      BY <1>8, <3>1, <3>3, <3>4, <3>5
    <3>7. ASSUME NEW k \in State!AllKeys, k \in Table!Keys(t), k \notin Table!Keys(room)
          PROVE  k # key /\ Cardinality(Newer(last', k)) >= MAX_KEYS
      <4>1. k = old /\ k # key
        BY <2>3, <3>4, <3>5, <3>7
      <4>2. last[k] # State!Never
        BY <1>5, <3>3, <4>1 DEF RowsAsSet
      <4>3. /\ Newer(last, o.key) \subseteq Newer(last', o.key) /\ key \in Newer(last', o.key)
            /\ IsFiniteSet(Newer(last', o.key)) /\ k = o.key
        BY <1>6, <3>3, <4>1, <4>2 DEF Outgrown
      <4>4. PICK lst2 : lst2 = last'
        OBVIOUS
      <4>5. Cardinality(Newer(lst2, o.key)) >= MAX_KEYS
        <5>1. /\ t \in Seq(State!Item) /\ Distinct(t) /\ Len(t) = MAX_KEYS
              /\ RowsAsSet(t, last) /\ key \notin Table!Keys(t)
              /\ o \in Rows(t) /\ \A x \in Rows(t) : o.ts <= x.ts
          BY <1>5, <2>3, <3>1, <3>3
        <5>2. /\ Newer(last, o.key) \subseteq Newer(lst2, o.key)
              /\ key \in Newer(lst2, o.key) /\ IsFiniteSet(Newer(lst2, o.key))
          BY <4>3, <4>4
        <5> HIDE DEF t
        <5> QED BY <5>1, <5>2, OldestIsCrowdedOut
      <4> QED BY <4>1, <4>3, <4>4, <4>5
    <3> QED BY <1>8, <3>4, <3>6, <3>7
  <2> QED BY <2>2, <2>3
<1> HIDE DEF room
<1>10. /\ STATE_' \in Seq(State!Item) /\ Distinct(STATE_')
       /\ Rows(STATE_') = {r \in Rows(room) : r.key # key} \cup {e}
       /\ Len(STATE_') = IF key \in Table!Keys(room) THEN Len(room) ELSE Len(room) + 1
  BY <1>1, <1>4, <1>9, StoredKeeps
<1>11. Len(STATE_') <= MAX_KEYS
  <2>1. Len(room) \in Nat
    BY <1>9
  <2> QED BY <1>8, <1>9, <1>10, <2>1
<1>12. State!StateTypeOK'
  <2>1. clock' \in 0..MaxClock
    BY <1>1, <1>2
  <2>2. \A k \in State!AllKeys : last'[k] \in {State!Never} \cup Setting
    BY <1>6 DEF SetUpTo
  <2> QED BY <1>10, <1>11, <2>1, <2>2 DEF State!StateTypeOK, Setting
<1>13. RowsAsSet(STATE_', last')
  <2> SUFFICES ASSUME NEW r \in Rows(STATE_')
               PROVE  /\ r.key \in State!AllKeys /\ last'[r.key] # State!Never /\ ~last'[r.key].deleted
                      /\ r.value = last'[r.key].value /\ r.ts = last'[r.key].ts
    BY DEF RowsAsSet
  <2>1. CASE r = e
    BY <1>3, <1>4, <1>7, <2>1, NeverIsNoSetting
  <2>2. CASE r \in Rows(t) /\ r.key # key
    BY <1>5, <1>7, <2>2 DEF RowsAsSet
  <2> QED BY <1>9, <1>10, <2>1, <2>2
<1>14. CrowdedOut(STATE_', last')
  <2> SUFFICES ASSUME NEW k \in State!AllKeys, last'[k] # State!Never, ~last'[k].deleted,
                      k \notin Table!Keys(STATE_')
               PROVE  Cardinality(Newer(last', k)) >= MAX_KEYS
    BY DEF CrowdedOut
  <2>1. /\ Table!Keys(STATE_') = {x.key : x \in Rows(STATE_')}
        /\ Table!Keys(room) = {x.key : x \in Rows(room)}
    BY <1>9, <1>10, KeysOfRows
  <2>2. k # key /\ k \notin Table!Keys(room)
    BY <1>4, <1>10, <2>1
  <2>3. last[k] # State!Never /\ ~last[k].deleted
    BY <1>7, <2>2
  <2>4. CASE k \in Table!Keys(t)
    BY <1>9, <2>2, <2>4
  <2>5. CASE k \notin Table!Keys(t)
    <3>1. Cardinality(Newer(last, k)) >= MAX_KEYS
      BY <1>5, <2>3, <2>5 DEF CrowdedOut
    <3>2. /\ Cardinality(Newer(last', k)) >= Cardinality(Newer(last, k))
          /\ Cardinality(Newer(last, k)) \in Nat /\ Cardinality(Newer(last', k)) \in Nat
      BY <1>6, <2>2, <2>3 DEF Outgrown
    <3> QED BY <1>8, <3>1, <3>2
  <2> QED BY <2>4, <2>5
<1>15. SetUpTo(last', clock')
  BY <1>1, <1>6
<1> QED BY <1>6, <1>10, <1>12, <1>13, <1>14, <1>15 DEF StateInv

\* DELETE /delete/<key>
LEMMA DeleteStateInv ==
    ASSUME StateInv, NEW key \in State!AllKeys, State!deleteState(key)
    PROVE  StateInv'
<1> DEFINE t == STATE_
           gone_ == [last[key] EXCEPT !.deleted = TRUE]
<1>1. /\ STATE_' = Table!Without(t, key) /\ clock' = clock
      /\ last' = [last EXCEPT ![key] = IF last[key] = State!Never THEN last[key] ELSE gone_]
  BY SameTable DEF State!deleteState
<1>2. /\ t \in Seq(State!Item) /\ Distinct(t) /\ Len(t) <= MAX_KEYS /\ Len(t) \in Nat
      /\ SetUpTo(last, clock)
      /\ last \in [State!AllKeys -> {State!Never} \cup Setting]
      /\ \A k \in State!AllKeys : last[k] # State!Never => last[k].ts <= clock
      /\ RowsAsSet(t, last) /\ CrowdedOut(t, last) /\ clock \in 0..MaxClock
  BY DEF StateInv, State!StateTypeOK, SetUpTo
<1>3. last[key] # State!Never => /\ gone_ \in Setting /\ gone_.deleted
                                 /\ gone_.ts = last[key].ts
  BY <1>2 DEF Setting
<1> HIDE DEF gone_
<1>4. /\ last' \in [State!AllKeys -> {State!Never} \cup Setting]
      /\ \A k \in State!AllKeys : /\ (last'[k] = State!Never <=> last[k] = State!Never)
                                  /\ last[k] # State!Never => last'[k].ts = last[k].ts
      /\ \A k \in State!AllKeys \ {key} : last'[k] = last[k]
      /\ last'[key] # State!Never => last'[key].deleted
  BY <1>1, <1>2, <1>3, NeverIsNoSetting
<1>5. EverSet(last') = EverSet(last)
  BY <1>4 DEF EverSet
<1>6. \A k \in State!AllKeys : last[k] # State!Never => Newer(last', k) = Newer(last, k)
  BY <1>4 DEF Newer
<1>7. /\ STATE_' \in Seq(State!Item) /\ Distinct(STATE_')
      /\ Rows(STATE_') = {r \in Rows(t) : r.key # key}
      /\ Len(STATE_') <= MAX_KEYS
  <2>1. /\ STATE_' \in Seq(State!Item) /\ Distinct(STATE_')
        /\ Rows(STATE_') = {r \in Rows(t) : r.key # key}
        /\ Len(STATE_') = IF key \in Table!Keys(t) THEN Len(t) - 1 ELSE Len(t)
    BY <1>1, <1>2, WithoutKeeps
  <2>2. MAX_KEYS \in Nat
    BY ServicesAssumption DEF State!StateStoreAssumption
  <2> QED BY <1>2, <2>1, <2>2
<1>8. RowsAsSet(STATE_', last')
  BY <1>2, <1>4, <1>7 DEF RowsAsSet
<1>9. CrowdedOut(STATE_', last')
  <2> SUFFICES ASSUME NEW k \in State!AllKeys, last'[k] # State!Never, ~last'[k].deleted,
                      k \notin Table!Keys(STATE_')
               PROVE  Cardinality(Newer(last', k)) >= MAX_KEYS
    BY DEF CrowdedOut
  <2>1. /\ Table!Keys(STATE_') = {x.key : x \in Rows(STATE_')}
        /\ Table!Keys(t) = {x.key : x \in Rows(t)}
    BY <1>2, <1>7, KeysOfRows
  <2>2. k # key /\ last[k] # State!Never /\ ~last[k].deleted
    BY <1>4
  <2>3. k \notin Table!Keys(t)
    BY <1>7, <2>1, <2>2
  <2> QED BY <1>2, <1>6, <2>2, <2>3 DEF CrowdedOut
<1>10. State!StateTypeOK'
  <2>1. clock' \in 0..MaxClock
    BY <1>1, <1>2
  <2>2. \A k \in State!AllKeys : last'[k] \in {State!Never} \cup Setting
    BY <1>4
  <2> QED BY <1>7, <2>1, <2>2 DEF State!StateTypeOK, Setting
<1>11. \A k \in State!AllKeys : last'[k] # State!Never => last'[k].ts <= clock'
  BY <1>1, <1>2, <1>4
<1> QED BY <1>2, <1>4, <1>5, <1>7, <1>8, <1>9, <1>10, <1>11 DEF StateInv, SetUpTo

LEMMA MillisecondStateInv == ASSUME StateInv, State!Millisecond PROVE StateInv'
<1>1. clock < MaxClock /\ clock' = clock + 1 /\ STATE_' = STATE_ /\ last' = last /\ MaxClock \in Nat
  BY ServicesAssumption DEF State!Millisecond, State!StateStoreAssumption
<1>2. clock \in 0..MaxClock
  BY DEF StateInv, State!StateTypeOK
<1>3. clock' \in 0..MaxClock
  BY <1>1, <1>2
<1>4. \A k \in State!AllKeys : last[k] # State!Never => last[k].ts <= clock'
  <2>1. \A k \in State!AllKeys : last[k] # State!Never => last[k].ts \in Nat /\ last[k].ts <= clock
    <3>1. \A k \in State!AllKeys : last[k] # State!Never => last[k] \in Setting /\ last[k].ts <= clock
      BY DEF StateInv, SetUpTo
    <3>2. \A x \in Setting : x.ts \in Nat
      BY DEF Setting
    <3> QED BY <3>1, <3>2
  <2> QED BY <1>1, <1>2, <2>1
<1> QED BY <1>1, <1>3, <1>4 DEF StateInv, State!StateTypeOK, SetUpTo

\* The table of a new process, in which nothing was ever set.
LEMMA EmptyStateInv ==
    ASSUME clock \in 0..MaxClock, STATE_ = <<>>, last = [k \in State!AllKeys |-> State!Never]
    PROVE  StateInv
<1>1. Len(STATE_) = 0 /\ STATE_ \in Seq(State!Item) /\ MAX_KEYS \in Nat
  BY ServicesAssumption DEF State!StateStoreAssumption
<1>2. Rows(STATE_) = {} /\ Distinct(STATE_)
  BY <1>1 DEF Rows, Distinct
<1>3. EverSet(last) = {}
  BY DEF EverSet
<1>4. IsFiniteSet(EverSet(last))
  BY <1>3, FS_EmptySet
<1> QED BY <1>1, <1>2, <1>4 DEF StateInv, State!StateTypeOK, SetUpTo, RowsAsSet, CrowdedOut

LEMMA NextStateInv == StateInv /\ [State!StateNext]_stateSide => StateInv'
<1> SUFFICES ASSUME StateInv, [State!StateNext]_stateSide PROVE StateInv'
  OBVIOUS
<1>1. CASE UNCHANGED stateSide
  BY <1>1 DEF stateSide, StateInv, State!StateTypeOK
<1>2. ASSUME NEW b \in State!Bodies([key : Key, value : Value]), State!PostSet(b)
      PROVE  StateInv'
  <2>1. PICK p \in State!StateReads(b) : State!setState(p.key, p.value)
    BY <1>2 DEF State!PostSet
  <2>2. p.key \in State!AllKeys /\ p.value \in State!Values
    BY <1>2, <2>1 DEF State!StateReads, State!Resolved, State!Bodies, State!AllKeys, State!Values
  <2> QED BY <2>1, <2>2, SetStateInv
<1>3. ASSUME State!RestartState PROVE StateInv'
  <2>1. clock \in 0..MaxClock
    BY DEF StateInv, State!StateTypeOK
  <2>2. clock' \in 0..MaxClock /\ STATE_' = <<>> /\ last' = [k \in State!AllKeys |-> State!Never]
    BY <1>3, <2>1 DEF State!RestartState
  <2>3. Len(<<>>) = 0 /\ STATE_' \in Seq(State!Item) /\ MAX_KEYS \in Nat
    BY <2>2, ServicesAssumption DEF State!StateStoreAssumption
  <2>4. Rows(STATE_') = {} /\ Distinct(STATE_')
    BY <2>2, <2>3 DEF Rows, Distinct
  <2>5. EverSet(last') = {}
    BY <2>2 DEF EverSet
  <2>6. IsFiniteSet(EverSet(last'))
    BY <2>5, FS_EmptySet
  <2> QED BY <2>2, <2>3, <2>4, <2>6 DEF StateInv, State!StateTypeOK, SetUpTo, RowsAsSet, CrowdedOut
<1> QED BY <1>1, <1>2, <1>3, DeleteStateInv, MillisecondStateInv DEF State!StateNext

LEMMA InitStateInv == State!StateInit => StateInv
BY EmptyStateInv, ServicesAssumption DEF State!StateInit, State!StateStoreAssumption

LEMMA StateInvSays == StateInv => KeptUntilCrowdedOut
<1> SUFFICES ASSUME StateInv, NEW k \in State!AllKeys
             PROVE
        IF last[k] = State!Never \/ (last[k] # State!Never /\ last[k].deleted) THEN State!getState(k) = {}
        ELSE \/ State!getState(k) = {last[k].value}
             \/ /\ State!getState(k) = {}
                /\ Cardinality({j \in State!AllKeys \ {k} :
                                    last[j] # State!Never /\ last[j].ts >= last[k].ts}) >= MAX_KEYS
  BY SameTable DEF KeptUntilCrowdedOut, State!KeptUntilCrowdedOut
<1> DEFINE t == STATE_
<1>1. t \in Seq(State!Item) /\ Distinct(t) /\ RowsAsSet(t, last) /\ CrowdedOut(t, last)
  BY DEF StateInv, State!StateTypeOK
<1>2. State!Keys(t) = {r.key : r \in Rows(t)}
  BY <1>1, KeysOfRows, SameTable
<1>3. CASE k \notin State!Keys(t)
  <2>1. State!getState(k) = {}
    BY <1>3 DEF State!getState
  <2>2. last[k] # State!Never /\ ~last[k].deleted => Cardinality(Newer(last, k)) >= MAX_KEYS
    BY <1>1, <1>3, SameTable DEF CrowdedOut
  <2> QED BY <2>1, <2>2 DEF Newer
<1>4. CASE k \in State!Keys(t)
  <2>1. PICK r \in Rows(t) : r.key = k
    BY <1>2, <1>4
  <2>2. last[k] # State!Never /\ ~last[k].deleted /\ r.value = last[k].value
    BY <1>1, <2>1 DEF RowsAsSet
  <2>3. State!PlaceOf(t, k) \in 1..Len(t) /\ t[State!PlaceOf(t, k)].key = k
    <3>1. DOMAIN t = 1..Len(t)
      BY <1>1
    <3> QED BY <1>4, <3>1 DEF State!PlaceOf, State!Keys
  <2>4. State!Entry(t, k) \in Rows(t) /\ State!Entry(t, k).key = k
    BY <2>3 DEF State!Entry, Rows
  <2>5. State!Entry(t, k) .value = last[k].value
    BY <1>1, <2>4 DEF RowsAsSet
  <2> QED BY <1>4, <2>2, <2>5 DEF State!getState
<1> QED BY <1>3, <1>4

-----------------------------------------------------------------------------
(* Consensus *)

\* Report n is the newest about a proposal, and says what its status is.
Said(reps, n, prop, id) ==
    /\ reps[n].id = id
    /\ \A m \in DOMAIN reps : reps[m].id = id => m <= n
    /\ prop.proof.of = prop.payload
    /\ prop.status = IF reps[n].event = "proposal_created" THEN "pending"
                     ELSE IF reps[n].valid THEN "accepted" ELSE "rejected"

SaidOf(props, reps) ==
    \A id \in Id : props[id] # NoProposal => \E n \in DOMAIN reps : Said(reps, n, props[id], id)

BallotInv == Ballot!ConsensusTypeOK /\ SaidOf(proposals, reports)

\* A call of logging about an id is the newest about it, and of no other id.
LEMMA NewestReport ==
    ASSUME NEW reps \in Seq(Ballot!Report), NEW r \in Ballot!Report
    PROVE  LET reps2 == Append(reps, r) IN
           /\ reps2 \in Seq(Ballot!Report) /\ Len(reps2) = Len(reps) + 1
           /\ reps2[Len(reps2)] = r /\ Len(reps2) \in DOMAIN reps2
           /\ \A m \in DOMAIN reps2 : m <= Len(reps2)
           /\ \A n \in DOMAIN reps : \A id, prop :
                  id # r.id /\ Said(reps, n, prop, id) => n \in DOMAIN reps2 /\ Said(reps2, n, prop, id)
<1> DEFINE reps2 == Append(reps, r)
<1>1. /\ reps2 \in Seq(Ballot!Report) /\ Len(reps2) = Len(reps) + 1
      /\ reps2[Len(reps2)] = r /\ Len(reps2) \in DOMAIN reps2
      /\ \A m \in DOMAIN reps2 : m <= Len(reps2)
  OBVIOUS
<1>2. /\ \A m \in DOMAIN reps : m \in DOMAIN reps2 /\ reps2[m] = reps[m]
      /\ \A m \in DOMAIN reps2 : m \in DOMAIN reps \/ reps2[m] = r
  OBVIOUS
<1> HIDE DEF reps2
<1>3. ASSUME NEW n \in DOMAIN reps, NEW id, NEW prop, id # r.id, Said(reps, n, prop, id)
      PROVE  n \in DOMAIN reps2 /\ Said(reps2, n, prop, id)
  <2>1. \A m \in DOMAIN reps2 : reps2[m].id = id => m <= n
    BY <1>2, <1>3 DEF Said
  <2> QED BY <1>2, <1>3, <2>1 DEF Said
<1> QED BY <1>1, <1>3 DEF reps2

\* POST /propose
LEMMA ProposeBallotInv ==
    ASSUME BallotInv, NEW p \in Ballot!Proposals, Ballot!Propose(p)
    PROVE  BallotInv'
<1>1. PICK proof \in Ballot!generateConsensusProof(p.payload) :
          /\ p.id # Undefined /\ p.topic # Undefined
          /\ proposals' = [proposals EXCEPT ![p.id] =
                 [topic |-> p.topic, payload |-> p.payload, proof |-> proof, status |-> "pending"]]
          /\ Len(reports) < MaxReports
          /\ reports' = Append(reports, [event |-> "proposal_created", id |-> p.id])
  BY Zenon DEF Ballot!Propose, Ballot!logEvent
<1> DEFINE prop == [topic |-> p.topic, payload |-> p.payload, proof |-> proof, status |-> "pending"]
           r == [event |-> "proposal_created", id |-> p.id]
<1>2. p.payload # Undefined /\ proof = [of |-> p.payload]
  BY <1>1 DEF Ballot!generateConsensusProof
<1>3. p.id \in Id /\ p.topic \in Topic /\ p.payload \in Payload
  BY <1>1, <1>2 DEF Ballot!Proposals, Ballot!Optional
<1>4. prop \in Ballot!Proposal /\ r \in Ballot!Report
  BY <1>2, <1>3 DEF Ballot!Proposal, Ballot!Proof, Ballot!Report
<1>5. prop.proof.of = prop.payload /\ prop.status = "pending" /\ r.id = p.id /\ r.event = "proposal_created"
  BY <1>2
<1> HIDE DEF prop, r
<1>6. /\ proposals \in [Id -> Ballot!Proposal \cup {NoProposal}]
      /\ reports \in Seq(Ballot!Report) /\ Len(reports) \in Nat
  BY DEF BallotInv, Ballot!ConsensusTypeOK
<1>7. /\ proposals' \in [Id -> Ballot!Proposal \cup {NoProposal}]
      /\ proposals'[p.id] = prop
      /\ \A id \in Id \ {p.id} : proposals'[id] = proposals[id]
  BY <1>1, <1>3, <1>4, <1>6 DEF prop
<1>8. /\ reports' \in Seq(Ballot!Report) /\ Len(reports') = Len(reports) + 1
      /\ reports'[Len(reports')] = r /\ Len(reports') \in DOMAIN reports'
      /\ \A m \in DOMAIN reports' : m <= Len(reports')
      /\ \A n \in DOMAIN reports : \A id, pr :
             id # r.id /\ Said(reports, n, pr, id) => n \in DOMAIN reports' /\ Said(reports', n, pr, id)
  <2>1. reports' = Append(reports, r)
    BY <1>1 DEF r
  <2> QED BY <1>4, <1>6, <2>1, NewestReport
<1>9. Len(reports') <= MaxReports
  BY <1>1, <1>6, <1>8, ServicesAssumption DEF Ballot!ConsensusAssumption
<1>10. Said(reports', Len(reports'), prop, p.id)
  BY <1>5, <1>8 DEF Said
<1>11. SaidOf(proposals', reports')
  <2> SUFFICES ASSUME NEW id \in Id, proposals'[id] # NoProposal
               PROVE  \E n \in DOMAIN reports' : Said(reports', n, proposals'[id], id)
    BY DEF SaidOf
  <2>1. CASE id = p.id
    BY <1>7, <1>8, <1>10, <2>1
  <2>2. CASE id # p.id
    <3>1. PICK n \in DOMAIN reports : Said(reports, n, proposals[id], id)
      BY <1>7, <2>2 DEF BallotInv, SaidOf
    <3> QED BY <1>5, <1>7, <1>8, <2>2, <3>1
  <2> QED BY <2>1, <2>2
<1> QED BY <1>7, <1>8, <1>9, <1>11 DEF BallotInv, Ballot!ConsensusTypeOK

\* POST /verify
LEMMA VerifyBallotInv ==
    ASSUME BallotInv, NEW p \in Ballot!Verifications, Ballot!Verify(p)
    PROVE  BallotInv'
<1>1. PICK proof \in Ballot!generateConsensusProof(p.payload) :
          LET valid == p.proof_id = proof IN
          IF p.id # Undefined /\ proposals[p.id] # NoProposal
          THEN /\ proposals' = [proposals EXCEPT ![p.id].status =
                                   IF valid THEN "accepted" ELSE "rejected"]
               /\ Len(reports) < MaxReports
               /\ reports' = Append(reports, [event |-> "proposal_verified", id |-> p.id, valid |-> valid])
          ELSE UNCHANGED <<proposals, reports>>
  BY Zenon DEF Ballot!Verify, Ballot!logEvent, Ballot!consensusVars
<1>2. CASE ~(p.id # Undefined /\ proposals[p.id] # NoProposal)
  BY <1>1, <1>2 DEF BallotInv, Ballot!ConsensusTypeOK
<1>3. CASE p.id # Undefined /\ proposals[p.id] # NoProposal
  <2> DEFINE valid == p.proof_id = proof
             r == [event |-> "proposal_verified", id |-> p.id, valid |-> valid]
             old == proposals[p.id]
             status == IF valid THEN "accepted" ELSE "rejected"
             prop == [old EXCEPT !.status = status]
  <2>1. p.id \in Id
    BY <1>3 DEF Ballot!Verifications, Ballot!Optional
  <2>2. r \in Ballot!Report /\ r.id = p.id /\ r.event # "proposal_created" /\ (r.valid <=> valid)
    BY <2>1 DEF Ballot!Report
  <2>3. /\ proposals \in [Id -> Ballot!Proposal \cup {NoProposal}]
        /\ reports \in Seq(Ballot!Report) /\ Len(reports) \in Nat
    BY DEF BallotInv, Ballot!ConsensusTypeOK
  <2>4. old \in Ballot!Proposal
    BY <1>3, <2>1, <2>3
  <2>5. old.proof.of = old.payload
    BY <1>3, <2>1 DEF BallotInv, SaidOf, Said
  <2>6. prop \in Ballot!Proposal /\ prop.proof.of = prop.payload /\ prop.status = status
    BY <2>4, <2>5 DEF Ballot!Proposal
  <2>7. proposals' = [proposals EXCEPT ![p.id] = prop] /\ reports' = Append(reports, r) /\ Len(reports) < MaxReports
    BY <1>1, <1>3
  <2> HIDE DEF old, prop, r
  <2>8. /\ proposals' \in [Id -> Ballot!Proposal \cup {NoProposal}]
        /\ proposals'[p.id] = prop
        /\ \A id \in Id \ {p.id} : proposals'[id] = proposals[id]
    BY <2>1, <2>3, <2>6, <2>7
  <2>9. /\ reports' \in Seq(Ballot!Report) /\ Len(reports') = Len(reports) + 1
        /\ reports'[Len(reports')] = r /\ Len(reports') \in DOMAIN reports'
        /\ \A m \in DOMAIN reports' : m <= Len(reports')
        /\ \A n \in DOMAIN reports : \A id, pr :
               id # r.id /\ Said(reports, n, pr, id) => n \in DOMAIN reports' /\ Said(reports', n, pr, id)
    BY <2>2, <2>3, <2>7, NewestReport
  <2>10. Len(reports') <= MaxReports
    BY <2>3, <2>7, <2>9, ServicesAssumption DEF Ballot!ConsensusAssumption
  <2>11. Said(reports', Len(reports'), prop, p.id)
    BY <2>2, <2>6, <2>9 DEF Said
  <2>12. SaidOf(proposals', reports')
    <3> SUFFICES ASSUME NEW id \in Id, proposals'[id] # NoProposal
                 PROVE  \E n \in DOMAIN reports' : Said(reports', n, proposals'[id], id)
      BY DEF SaidOf
    <3>1. CASE id = p.id
      BY <2>8, <2>9, <2>11, <3>1
    <3>2. CASE id # p.id
      <4>1. PICK n \in DOMAIN reports : Said(reports, n, proposals[id], id)
        BY <2>8, <3>2 DEF BallotInv, SaidOf
      <4> QED BY <2>2, <2>8, <2>9, <3>2, <4>1
    <3> QED BY <3>1, <3>2
  <2> QED BY <2>8, <2>9, <2>10, <2>12 DEF BallotInv, Ballot!ConsensusTypeOK
<1> QED BY <1>2, <1>3

LEMMA NextBallotInv == BallotInv /\ [Ballot!ConsensusNext]_consensusSide => BallotInv'
<1> SUFFICES ASSUME BallotInv, [Ballot!ConsensusNext]_consensusSide PROVE BallotInv'
  OBVIOUS
<1>1. CASE UNCHANGED consensusSide
  BY <1>1 DEF consensusSide, BallotInv, Ballot!ConsensusTypeOK
<1>2. ASSUME NEW b \in Ballot!Bodies(Ballot!Proposals), Ballot!PostPropose(b)
      PROVE  BallotInv'
  <2>1. PICK p \in Ballot!ConsensusReads(b, [id |-> Undefined, topic |-> Undefined, payload |-> Undefined]) :
            Ballot!Propose(p)
    BY <1>2 DEF Ballot!PostPropose
  <2>2. p \in Ballot!Proposals
    BY <1>2, <2>1 DEF Ballot!ConsensusReads, Ballot!Resolved, Ballot!Bodies, Ballot!Proposals, Ballot!Optional
  <2> QED BY <2>1, <2>2, ProposeBallotInv
<1>3. ASSUME NEW b \in Ballot!Bodies(Ballot!Verifications), Ballot!PostVerify(b)
      PROVE  BallotInv'
  <2>1. PICK p \in Ballot!ConsensusReads(b, [id |-> Undefined, payload |-> Undefined, proof_id |-> Undefined]) :
            Ballot!Verify(p)
    BY <1>3 DEF Ballot!PostVerify
  <2>2. p \in Ballot!Verifications
    BY <1>3, <2>1 DEF Ballot!ConsensusReads, Ballot!Resolved, Ballot!Bodies, Ballot!Verifications, Ballot!Optional
  <2> QED BY <2>1, <2>2, VerifyBallotInv
<1>4. ASSUME Ballot!RestartConsensus PROVE BallotInv'
  BY <1>4 DEF Ballot!RestartConsensus, BallotInv, Ballot!ConsensusTypeOK, SaidOf
<1> QED BY <1>1, <1>2, <1>3, <1>4 DEF Ballot!ConsensusNext

LEMMA InitBallotInv == Ballot!ConsensusInit => BallotInv
BY ServicesAssumption DEF Ballot!ConsensusInit, BallotInv, Ballot!ConsensusTypeOK, SaidOf, Ballot!ConsensusAssumption

LEMMA BallotInvSays == BallotInv => ProposalsAreAsReported
<1> SUFFICES ASSUME BallotInv, NEW id \in Id, proposals[id] # NoProposal
             PROVE
        LET about == {n \in DOMAIN reports : reports[n].id = id}
            newest == reports[CHOOSE n \in about : \A m \in about : m <= n]
        IN /\ proposals[id].proof.of = proposals[id].payload
           /\ about # {}
           /\ proposals[id].status = IF newest.event = "proposal_created" THEN "pending"
                                     ELSE IF newest.valid THEN "accepted" ELSE "rejected"
  BY DEF ProposalsAreAsReported, Ballot!ProposalsAreAsReported
<1> DEFINE about == {n \in DOMAIN reports : reports[n].id = id}
           last_ == CHOOSE n \in about : \A m \in about : m <= n
<1>1. PICK n \in DOMAIN reports : Said(reports, n, proposals[id], id)
  BY DEF BallotInv, SaidOf
<1>2. n \in about /\ \A m \in about : m <= n
  BY <1>1 DEF Said
<1>3. last_ \in about /\ \A m \in about : m <= last_
  BY <1>2
<1>4. \A m \in about : m \in Nat
  BY DEF BallotInv, Ballot!ConsensusTypeOK
<1>5. last_ = n
  <2>1. last_ <= n /\ n <= last_ /\ last_ \in Nat /\ n \in Nat
    BY <1>2, <1>3, <1>4
  <2> QED BY <2>1
<1>6. about # {} /\ reports[last_] = reports[n]
  BY <1>2, <1>5
<1> QED BY <1>1, <1>6 DEF Said

-----------------------------------------------------------------------------
(* The services together: whichever of them a behaviour is about, each     *)
(* keeps its own part, and a step of one leaves the parts of the others,   *)
(* except that analytics looks at the bus.                                 *)
ServicesInv == QInv /\ BusInv /\ MetricsInv /\ StateInv /\ BallotInv

LEMMA InitServicesInv == ServicesInit => ServicesInv
BY InitQInv, InitMetricsInv, InitStateInv, InitBallotInv DEF ServicesInit, ServicesInv

LEMMA NextServicesInv ==
    ServicesInv
      /\ [ServicesNext]_<<vars, service, busSide, analyticsSide, stateSide, consensusSide>>
          => ServicesInv'
<1> SUFFICES ASSUME ServicesInv,
                    [ServicesNext]_<<vars, service, busSide, analyticsSide, stateSide, consensusSide>>
             PROVE  ServicesInv'
  OBVIOUS
<1>1. QInv /\ BusInv /\ MetricsInv /\ StateInv /\ BallotInv
  BY DEF ServicesInv
<1>2. ASSUME [HNext]_vars PROVE QInv'
  BY <1>1, <1>2, NextQInv
<1>3. ASSUME [Bus!Next]_busSide, UNCHANGED analyticsSide PROVE BusInv' /\ MetricsInv'
  BY <1>1, <1>3, NextBusInv, BusStepMetricsInv
<1>4. ASSUME [State!StateNext]_stateSide PROVE StateInv'
  BY <1>1, <1>4, NextStateInv
<1>5. ASSUME [Ballot!ConsensusNext]_consensusSide PROVE BallotInv'
  BY <1>1, <1>5, NextBallotInv
<1>6. CASE UNCHANGED <<vars, service, busSide, analyticsSide, stateSide, consensusSide>>
  BY <1>2, <1>3, <1>4, <1>5, <1>6 DEF ServicesInv
<1>7. CASE HNext /\ UNCHANGED <<busSide, analyticsSide, stateSide, consensusSide>>
  BY <1>2, <1>3, <1>4, <1>5, <1>7 DEF ServicesInv
<1>8. CASE Bus!Next /\ UNCHANGED <<queueSide, analyticsSide, stateSide, consensusSide>>
  BY <1>2, <1>3, <1>4, <1>5, <1>8 DEF ServicesInv, queueSide
<1>9. CASE Metrics!AnalyticsNext /\ UNCHANGED <<queueSide, stateSide, consensusSide>>
  <2>1. BusInv' /\ MetricsInv'
    BY <1>1, <1>9, NextMetricsInv
  <2> QED BY <1>2, <1>4, <1>5, <1>9, <2>1 DEF ServicesInv, queueSide
<1>10. CASE State!StateNext /\ UNCHANGED <<queueSide, busSide, analyticsSide, consensusSide>>
  BY <1>2, <1>3, <1>4, <1>5, <1>10 DEF ServicesInv, queueSide
<1>11. CASE Ballot!ConsensusNext /\ UNCHANGED <<queueSide, busSide, analyticsSide, stateSide>>
  BY <1>2, <1>3, <1>4, <1>5, <1>11 DEF ServicesInv, queueSide
<1> QED BY <1>6, <1>7, <1>8, <1>9, <1>10, <1>11 DEF ServicesNext

LEMMA ServicesInvAlways == ServicesSpec => []ServicesInv
<1>1. ServicesInit => ServicesInv
  BY InitServicesInv
<1>2. ServicesInv
        /\ [ServicesNext]_<<vars, service, busSide, analyticsSide, stateSide, consensusSide>>
            => ServicesInv'
  BY NextServicesInv
<1> QED BY <1>1, <1>2, PTL DEF ServicesSpec

\* Every service keeps what its handlers expect and no more than its bound,
\* whatever is asked of it (the handlers of services/queue, event, analytics,
\* logging, state and consensus).
THEOREM ServicesTypeCorrect == ServicesSpec => []TypesOK
<1>1. ServicesInv => TypesOK
  BY DEF ServicesInv, QInv, BusInv, MetricsInv, StateInv, BallotInv, TypesOK
<1> QED BY <1>1, ServicesInvAlways, PTL

\* A callback is called for exactly what was published under its type while its
\* subscription stood, whatever is subscribed, removed or restarted around it
\* (publishEvent, addSubscription, removeSubscription of services/event).
THEOREM SubscribersAreNotified == ServicesSpec => []NotifiedAsSubscribed
<1>1. ServicesInv => NotifiedAsSubscribed
  BY BusInvNotifies DEF ServicesInv
<1> QED BY <1>1, ServicesInvAlways, PTL

\* GET /events answers with the newest events of the type asked for, in order
\* and as many as the limit allows (getEvents of services/event).
THEOREM NewestAreAnswered == ServicesSpec => []AnswersAreTheNewest
<1>1. ServicesInv => AnswersAreTheNewest
  BY BusInvAnswers DEF ServicesInv
<1> QED BY <1>1, ServicesInvAlways, PTL

\* However recomputations overlap, the metrics are of one reading of the log and
\* the bus, which reaches what was published before it was asked for
\* (recomputeMetrics of services/analytics).
THEOREM MetricsAreOfOneReading == ServicesSpec => []MetricsAreFresh
<1>1. ServicesInv => MetricsAreFresh
  BY MetricsInvCounts DEF ServicesInv
<1> QED BY <1>1, ServicesInvAlways, PTL

\* A key that was set and not deleted has its last value, or MAX_KEYS other keys
\* were set no earlier (setState of services/state).
THEOREM KeysAreKept == ServicesSpec => []KeptUntilCrowdedOut
<1>1. ServicesInv => KeptUntilCrowdedOut
  BY StateInvSays DEF ServicesInv
<1> QED BY <1>1, ServicesInvAlways, PTL

\* A proposal has the status that the newest report about it gave it
\* (proposeItem, verifyItem and the handlers of services/consensus).
THEOREM ProposalsFollowReports == ServicesSpec => []ProposalsAreAsReported
<1>1. ServicesInv => ProposalsAreAsReported
  BY BallotInvSays DEF ServicesInv
<1> QED BY <1>1, ServicesInvAlways, PTL
=============================================================================

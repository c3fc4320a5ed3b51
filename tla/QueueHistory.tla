---------------------------- MODULE QueueHistory ----------------------------
(***************************************************************************)
(* The queue service with history variables: what every queue accepted, in *)
(* order, how many of them, oldest first, it no longer holds, and what     *)
(* dequeue handed out, each item with its position.  They  *)
(* observe the service and constrain none of its actions but by the model  *)
(* bound on the number of accepted items.                                  *)
(***************************************************************************)
EXTENDS Queue

CONSTANT MaxAccepted   \* model bound: items accepted per queue

ASSUME HistoryAssumption == MaxAccepted \in Nat

VARIABLES accepted, gone, given

vars == <<queueVars, accepted, gone, given>>

Full(q) == Len(Items(q)) = MAX_QUEUE_SIZE

HInit ==
    /\ Init
    /\ accepted = [q \in QueueName |-> <<>>]
    /\ gone = [q \in QueueName |-> 0]
    /\ given = [q \in QueueName |-> {}]

HEnqueue(q, x) ==
    /\ Len(accepted[q]) < MaxAccepted
    /\ Enqueue(q, x)
    /\ accepted' = [accepted EXCEPT ![q] = Append(@, x)]
    /\ gone' = [gone EXCEPT ![q] = IF Full(q) THEN @ + 1 ELSE @]
    /\ UNCHANGED given

HDequeue(q) ==
    /\ Dequeue(q)
    /\ IF DequeueResult(q) = Nothing
       THEN UNCHANGED <<gone, given>>
       ELSE /\ gone' = [gone EXCEPT ![q] = @ + 1]
            /\ given' = [given EXCEPT ![q] = @ \cup {<<gone[q] + 1, DequeueResult(q)>>}]
    /\ UNCHANGED accepted

HPeek(q) == Peek(q) /\ UNCHANGED <<accepted, gone, given>>

HPush(x) == Push(x) /\ UNCHANGED <<accepted, gone, given>>

HRestart ==
    /\ Restart
    /\ gone' = [q \in QueueName |-> Len(accepted[q])]
    /\ UNCHANGED <<accepted, given>>

HNext ==
    \/ \E q \in QueueName : HDequeue(q) \/ HPeek(q)
    \/ \E q \in QueueName, x \in Payload : HEnqueue(q, x)
    \/ \E x \in Payload : HPush(x)
    \/ HRestart

HSpec == HInit /\ [][HNext]_vars

-----------------------------------------------------------------------------
TypeOK ==
    /\ QueuesTypeOK
    /\ tasks \in Seq(Payload)
    /\ accepted \in [QueueName -> Seq(Payload)]
    /\ gone \in [QueueName -> Nat]
    /\ given \in [QueueName -> SUBSET ((Nat \ {0}) \X Payload)]

\* A queue is the unbroken end of what it accepted: over any sequence of
\* enqueues (with the shift of a full queue), dequeues, peeks and restarts,
\* no item is skipped, doubled or moved (services/queue/index.js:22-51).
HoldsTheEnd ==
    \A q \in QueueName :
        /\ gone[q] + Len(Items(q)) = Len(accepted[q])
        /\ \A i \in 1..Len(Items(q)) : Items(q)[i] = accepted[q][gone[q] + i]

\* What a consumer was given at position i is what was accepted i-th, and
\* the positions given are of items the queue no longer holds: no second
\* delivery is possible.
GivenWasAccepted ==
    \A q \in QueueName : \A g \in given[q] :
        /\ g[1] <= gone[q]
        /\ g[1] \in 1..Len(accepted[q])
        /\ g[2] = accepted[q][g[1]]

\* The memory of a queue never passes its bound, whatever the mix of names.
BoundedMemory == \A q \in QueueName : Len(Items(q)) <= MAX_QUEUE_SIZE

\* The abstract queue: the service implements it.
Fifo == INSTANCE BoundedFifo
          WITH Name <- QueueName, Value <- Payload, Capacity <- MAX_QUEUE_SIZE,
               taken <- given

\* services/queue implements the bounded FIFO queues of its README.
ImplementsFifo == Fifo!Spec

=============================================================================

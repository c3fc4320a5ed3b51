-------------------------------- MODULE Queue --------------------------------
(***************************************************************************)
(* services/queue: named in-memory FIFO queues behind HTTP handlers.  Node *)
(* runs one handler's synchronous part at a time, and each handler touches *)
(* QUEUES in one synchronous part after its body has been read, so every   *)
(* endpoint is one action.  Timestamps of the items are left out: nothing  *)
(* in the service reads them.                                              *)
(***************************************************************************)
EXTENDS BoundedBuffer

CONSTANTS QueueName,        \* the names callers use
          Payload,          \* what callers enqueue
          MAX_QUEUE_SIZE,   \* items one queue holds at most (500 in the code)
          MAX_TASKS,        \* model bound on the unbounded tasks array
          Nothing           \* the null of dequeue()

ASSUME QueueAssumption ==
    /\ MAX_QUEUE_SIZE \in Nat \ {0}
    /\ MAX_TASKS \in Nat
    /\ Nothing \notin Payload

VARIABLES QUEUES,   \* name -> items, front first; only created names are in its domain
          tasks     \* what POST /push collected

queueVars == <<QUEUES, tasks>>

QueuesTypeOK ==
    /\ DOMAIN QUEUES \subseteq QueueName
    /\ QUEUES \in [DOMAIN QUEUES -> Seq(Payload)]

Init == QUEUES = [q \in {} |-> <<>>] /\ tasks = <<>>

-----------------------------------------------------------------------------
\* What a queue holds; a name that was never used holds nothing.
Items(q) == IF q \in DOMAIN QUEUES THEN QUEUES[q] ELSE <<>>

\* QUEUES[name] = items, creating the queue when ensureQueue finds none
WithItems(q, items) ==
    [n \in DOMAIN QUEUES \cup {q} |-> IF n = q THEN items ELSE QUEUES[n]]

\* dequeue() returns null when there is nothing to shift
DequeueResult(q) == IF Items(q) = <<>> THEN Nothing ELSE Head(Items(q))

Enqueue(q, x) ==
    /\ QUEUES' = WithItems(q, PushBounded(Items(q), x, MAX_QUEUE_SIZE))
    /\ UNCHANGED tasks

\* Faulty variant: the front is returned, but stays in the queue
DequeueKeeps(q) ==
    /\ QUEUES' = WithItems(q, Items(q))
    /\ UNCHANGED tasks

Dequeue(q) ==
    /\ QUEUES' = WithItems(q, IF Items(q) = <<>> THEN <<>> ELSE Tail(Items(q)))
    /\ UNCHANGED tasks

\* GET /peek takes nothing, but ensureQueue creates the name it asks about
Peek(q) ==
    /\ QUEUES' = WithItems(q, Items(q))
    /\ UNCHANGED tasks

Push(x) ==
    /\ Len(tasks) < MAX_TASKS
    /\ tasks' = Append(tasks, x)
    /\ UNCHANGED QUEUES

\* The process ends and is started again: both variables live in memory only.
Restart == QUEUES' = [q \in {} |-> <<>>] /\ tasks' = <<>>

Next ==
    \/ \E q \in QueueName : Dequeue(q) \/ Peek(q)
    \/ \E q \in QueueName, x \in Payload : Enqueue(q, x)
    \/ \E x \in Payload : Push(x)
    \/ Restart

Spec == Init /\ [][Next]_queueVars

=============================================================================

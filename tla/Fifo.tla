-------------------------------- MODULE Fifo --------------------------------
(* What hw1/queue.h promises: a first-in, first-out queue of threads from  *)
(* which one thread can also be taken out of the middle.                   *)
EXTENDS Sequences, SequencesExt

CONSTANTS Threads, NULL

VARIABLES
  queue,  \* the threads, oldest first
  call    \* the last call, with its argument or, for dequeue, its result

vars == <<queue, call>>

Called(op, t) == call' = [op |-> op, thread |-> t]

Init == queue = <<>> /\ call = [op |-> "make_queue", thread |-> NULL]

Enqueue(t) == queue' = Append(queue, t) /\ Called("enqueue", t)

Dequeue ==
  \/ queue = <<>> /\ Called("dequeue", NULL) /\ UNCHANGED queue
  \/ queue # <<>> /\ Called("dequeue", Head(queue)) /\ queue' = Tail(queue)

Take(t) == queue' = RemoveFirst(queue, t) /\ Called("remove_node", t)

Next == Dequeue \/ \E t \in Threads : Enqueue(t) \/ Take(t)

Spec == Init /\ [][Next]_vars
=============================================================================

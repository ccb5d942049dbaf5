----------------------------- MODULE QueueList ------------------------------
(***************************************************************************)
(* hw1/queue.h on the heap: a singly linked list with a head and a tail    *)
(* pointer.  One queue, its nodes and the allocator.  The callers keep one *)
(* rule: a thread that is on the list is not enqueued again (NoDuplicates  *)
(* of module MyThread).                                                    *)
(***************************************************************************)
EXTENDS Integers, Sequences, SequencesExt

CONSTANTS
  Nodes,    \* addresses malloc can return for a ThreadNode
  Threads,
  NULL

VARIABLES
  head, tail,     \* fields of struct Queue
  thread, next,   \* fields of struct ThreadNode
  allocated,      \* the nodes malloc has handed out and free has not taken back
  call            \* the last call, with its argument or, for dequeue, its result

vars == <<head, tail, thread, next, allocated, call>>

Called(op, t) == call' = [op |-> op, thread |-> t]

make_queue == head = NULL /\ tail = NULL

Init ==
  /\ make_queue
  /\ thread = [n \in Nodes |-> NULL]
  /\ next = [n \in Nodes |-> NULL]
  /\ allocated = {}
  /\ call = [op |-> "make_queue", thread |-> NULL]

(***************************************************************************)
(* The nodes a loop over "node = q->head; node != NULL; node = node->next" *)
(* visits, in order.  A list that runs into a cycle is cut off.            *)
(***************************************************************************)
Chain ==
  LET at[i \in 1 .. Cardinality(Nodes) + 1] ==
        IF i = 1 THEN head
        ELSE IF at[i-1] = NULL THEN NULL ELSE next[at[i-1]]
  IN  SelectSeq(at, LAMBDA n : n # NULL)

is_empty == head = NULL /\ tail = NULL

contains(t) == \E i \in DOMAIN Chain : thread[Chain[i]] = t

size == Len(Chain)

enqueue(t) ==
  /\ ~contains(t)
  /\ \E node \in Nodes \ allocated :
       /\ allocated' = allocated \cup {node}
       /\ thread' = [thread EXCEPT ![node] = t]
       /\ \/ /\ is_empty
             /\ head' = node
             /\ next' = [next EXCEPT ![node] = NULL]
          \/ /\ ~is_empty
             /\ next' = [next EXCEPT ![node] = NULL, ![tail] = node]
             /\ UNCHANGED head
       /\ tail' = node
  /\ Called("enqueue", t)

dequeue ==
  \/ /\ head = NULL
     /\ Called("dequeue", NULL)
     /\ UNCHANGED <<head, tail, thread, next, allocated>>
  \/ /\ head # NULL
     /\ \/ /\ head = tail
           /\ head' = NULL /\ tail' = NULL
        \/ /\ head # tail
           /\ head' = next[head] /\ UNCHANGED tail
     /\ Called("dequeue", thread[head])
     /\ allocated' = allocated \ {head}
     /\ UNCHANGED <<thread, next>>

(***************************************************************************)
(* One pass of remove_node's loop body.  The loop goes on after a hit, and *)
(* the node it unlinks is the node it continues from, so the nodes visited *)
(* are those of the list as it was found.  The unlinked node is not freed. *)
(***************************************************************************)
RemoveStep_TailKept(t, q, node) ==
  IF thread[node] # t THEN [q EXCEPT !.last = node]
  ELSE IF node = q.head THEN [q EXCEPT !.head = q.next[node], !.last = node]
  ELSE [q EXCEPT !.next[q.last] = q.next[node], !.last = node]

RemoveStep(t, q, node) ==
  CASE thread[node] # t ->
         [q EXCEPT !.last = node]
    [] thread[node] = t /\ node = q.head /\ node = q.tail ->
         [q EXCEPT !.head = NULL, !.tail = NULL, !.last = node]
    [] thread[node] = t /\ node # q.head /\ node = q.tail ->
         [q EXCEPT !.tail = q.last, !.next[q.last] = NULL, !.last = node]
    [] thread[node] = t /\ node = q.head /\ node # q.tail ->
         [q EXCEPT !.head = q.next[node], !.last = node]
    [] OTHER ->
         [q EXCEPT !.next[q.last] = q.next[node], !.last = node]

remove_node(t) ==
  LET q == FoldLeft(LAMBDA acc, node : RemoveStep(t, acc, node),
                    [head |-> head, tail |-> tail, next |-> next, last |-> NULL],
                    Chain)
  IN  /\ head' = q.head /\ tail' = q.tail /\ next' = q.next
      /\ Called("remove_node", t)
      /\ UNCHANGED <<thread, allocated>>

Next ==
  \/ \E t \in Threads : enqueue(t)
  \/ dequeue
  \/ \E t \in Threads : remove_node(t)

Spec == Init /\ [][Next]_vars

-----------------------------------------------------------------------------
(* The list is well formed: head and tail are NULL together, the loop over *)
(* the list ends at tail, visits no node twice and no freed node, so the   *)
(* assertions of queue.h:77-78 and 104-105 never fail.                     *)
ListShape ==
  /\ head = NULL <=> tail = NULL
  /\ tail # NULL => Len(Chain) > 0 /\ Last(Chain) = tail /\ next[tail] = NULL
  /\ IsInjective(Chain) /\ Range(Chain) \subseteq allocated

AsFifo == INSTANCE Fifo WITH queue <- [i \in 1 .. size |-> thread[Chain[i]]]
=============================================================================

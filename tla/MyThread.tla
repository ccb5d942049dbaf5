------------------------------ MODULE MyThread ------------------------------
(***************************************************************************)
(* The user-level thread library of hw1 (mythread.c), together with the    *)
(* most general client that keeps the rules of hw1/readme.md: MyThreadInit *)
(* is called once, by the Unix process; a thread ends in MyThreadExit; a   *)
(* semaphore is used between its creation and its destruction.             *)
(*                                                                         *)
(* The library is not pre-emptive, so every call is one atomic action up   *)
(* to the point where it switches context.  Queue (hw1/queue.h) is a       *)
(* sequence here; module QueueList relates the linked list to it, under    *)
(* the condition that no thread is queued twice, which this module proves. *)
(***************************************************************************)
EXTENDS Queues

CONSTANTS
  Threads,    \* addresses malloc can return for a Thread
  Sems,       \* addresses malloc can return for a Semaphore
  MaxCount,   \* bound on a semaphore's count and initial value (the code: INT_MAX)
  NULL        \* the null pointer

ASSUME MyThreadAssumption ==
  /\ NULL \notin Threads
  /\ MaxCount \in Nat

VARIABLES
  phase,          \* who owns the processor: "process", "threads", "done"
  current_thread, \* mythread.c:10
  ready_queue,    \* mythread.c:7
  blocked_queue,  \* mythread.c:8
  made,           \* the threads make_thread has returned
  exited,         \* the threads that called MyThreadExit
  parent, children, waiting_for,  \* fields of struct Thread
  ctx,            \* ctx[t]: the thread whose continuation t->ctx holds,
                  \* NULL once that continuation has been resumed
  running,        \* the thread whose continuation is executing
  sems,           \* the semaphores that exist
  count, wait_queue,              \* fields of struct Semaphore
  ret             \* the value MyThreadJoin returned last

threadVars == <<made, exited, parent, children, waiting_for>>
semVars    == <<sems, count, wait_queue>>
switchVars == <<phase, current_thread, ready_queue, blocked_queue, ctx, running>>
vars       == <<threadVars, semVars, switchVars, ret>>

Alive == made \ exited

Init ==
  /\ phase = "process"
  /\ current_thread = NULL /\ running = NULL
  /\ ready_queue = <<>> /\ blocked_queue = <<>>
  /\ made = {} /\ exited = {}
  /\ parent = [t \in Threads |-> NULL]
  /\ children = [t \in Threads |-> <<>>]
  /\ waiting_for = [t \in Threads |-> NULL]
  /\ ctx = [t \in Threads |-> NULL]
  /\ sems = {}
  /\ count = [s \in Sems |-> 0]
  /\ wait_queue = [s \in Sems |-> <<>>]
  /\ ret = 0

-----------------------------------------------------------------------------
(* queue.h, seen from its callers.                                         *)

dequeued(q) == IF q = <<>> THEN NULL ELSE Head(q)
dequeue(q)  == IF q = <<>> THEN <<>> ELSE Tail(q)
enqueue_AtHead(q, t) == <<t>> \o q
enqueue(q, t) == Append(q, t)
remove_node(q, t) == RemoveFirst(q, t)

(***************************************************************************)
(* get_next_thread and the context switch that follows it, with rq and bq  *)
(* the queues and cs the contexts swapcontext would leave behind.  With    *)
(* nothing ready the queues are freed and control goes back to the process *)
(* inside MyThreadInit: neither current_thread nor a context is assigned.  *)
(***************************************************************************)
SwitchToNext(rq, bq, cs) ==
  LET next == dequeued(rq) IN
  \/ /\ next # NULL
     /\ current_thread' = next
     /\ ready_queue' = dequeue(rq)
     /\ blocked_queue' = bq
     /\ running' = cs[next]
     /\ ctx' = [cs EXCEPT ![next] = NULL]
     /\ phase' = phase
  \/ /\ next = NULL
     /\ ready_queue' = <<>> /\ blocked_queue' = <<>>
     /\ running' = NULL
     /\ phase' = "done"
     /\ UNCHANGED <<current_thread, ctx>>

SavedIn_Next(t) == [ctx EXCEPT ![IF ready_queue = <<>> THEN t ELSE Head(ready_queue)] = running]
SavedIn(t) == [ctx EXCEPT ![t] = running]

(* make_thread, for an address t that malloc has not handed out: the       *)
(* library never frees a thread.                                           *)
make_thread(t, p) ==
  /\ t \in Threads \ made
  /\ made' = made \cup {t}
  /\ parent' = [parent EXCEPT ![t] = p]
  /\ waiting_for' = [waiting_for EXCEPT ![t] = NULL]

-----------------------------------------------------------------------------
MyThreadInit(t) ==
  /\ phase = "process"
  /\ make_thread(t, NULL)
  /\ children' = [children EXCEPT ![t] = <<>>]
  /\ ready_queue' = <<>> /\ blocked_queue' = <<>>
  /\ current_thread' = t
  /\ running' = t /\ ctx' = [ctx EXCEPT ![t] = NULL]
  /\ phase' = "threads"
  /\ UNCHANGED <<exited, semVars, ret>>

MyThreadCreate(t) ==
  /\ phase = "threads"
  /\ make_thread(t, current_thread)
  /\ children' = [children EXCEPT ![current_thread] = enqueue(@, t), ![t] = <<>>]
  /\ ready_queue' = enqueue(ready_queue, t)
  /\ ctx' = [ctx EXCEPT ![t] = t]
  /\ UNCHANGED <<exited, semVars, ret, phase, current_thread, blocked_queue, running>>

MyThreadYield ==
  /\ phase = "threads"
  /\ SwitchToNext(enqueue(ready_queue, current_thread), blocked_queue,
                  SavedIn(current_thread))
  /\ UNCHANGED <<threadVars, semVars, ret>>

(* The assertion of mythread.c:102 is an assignment; swapcontext then      *)
(* saves the caller through the pointer that was assigned.                 *)
MyThreadJoin(t) ==
  /\ phase = "threads"
  /\ \/ /\ ~Contains(children[current_thread], t)
        /\ ret' = -1
        /\ UNCHANGED <<threadVars, semVars, switchVars>>
     \/ /\ Contains(children[current_thread], t)
        /\ ret' = 0
        /\ parent' = [parent EXCEPT ![t] = current_thread]
        /\ waiting_for' = [waiting_for EXCEPT ![current_thread] = t]
        /\ SwitchToNext(ready_queue, enqueue(blocked_queue, current_thread),
                        SavedIn(parent'[t]))
        /\ UNCHANGED <<made, exited, children, semVars>>

MyThreadJoinAll ==
  /\ phase = "threads"
  /\ \/ /\ children[current_thread] = <<>>
        /\ UNCHANGED switchVars
     \/ /\ children[current_thread] # <<>>
        /\ SwitchToNext(ready_queue, enqueue(blocked_queue, current_thread),
                        SavedIn(current_thread))
  /\ UNCHANGED <<threadVars, semVars, ret>>

(* The children of p once thread t has taken itself off the list.          *)
ChildrenWithout(p, t) ==
  IF p = NULL THEN children
  ELSE [children EXCEPT ![p] = remove_node(@, t)]

Unblocks_JoinOnly(p, t) == Contains(blocked_queue, p) /\ waiting_for[p] = t
Unblocks_AnyChild(p, t) == Contains(blocked_queue, p)

(* p is blocked, and the exit of t ends its wait.                          *)
Unblocks(p, t) ==
  /\ Contains(blocked_queue, p)
  /\ ChildrenWithout(p, t)[p] = <<>> \/ waiting_for[p] = t

MyThreadExit ==
  LET self == current_thread
      p    == parent[self]
  IN
  /\ phase = "threads"
  /\ exited' = exited \cup {self}
  /\ children' = ChildrenWithout(p, self)
  /\ \/ /\ Unblocks(p, self)
        /\ waiting_for' = [waiting_for EXCEPT ![p] = NULL]
        /\ SwitchToNext(enqueue(ready_queue, p), remove_node(blocked_queue, p), ctx)
     \/ /\ ~Unblocks(p, self)
        /\ SwitchToNext(ready_queue, blocked_queue, ctx)
        /\ UNCHANGED waiting_for
  /\ UNCHANGED <<made, parent, semVars, ret>>

-----------------------------------------------------------------------------
(* Semaphores.  The process may create and destroy them as well            *)
(* (tests/talkie.c:59-64).                                                 *)

MySemaphoreInit(initialValue) ==
  \/ /\ initialValue < 0
     /\ UNCHANGED vars
  \/ /\ initialValue >= 0
     /\ \E s \in Sems \ sems :
          /\ sems' = sems \cup {s}
          /\ count' = [count EXCEPT ![s] = initialValue]
          /\ wait_queue' = [wait_queue EXCEPT ![s] = <<>>]
     /\ UNCHANGED <<threadVars, switchVars, ret>>

(* Whether a count just incremented leaves a thread to wake, and whether   *)
(* one just decremented puts the caller to sleep.                          *)
Wakes_Late(c)  == c < 0
Wakes(c)  == c <= 0
Sleeps_Early(c) == c <= 0
Sleeps(c) == c < 0

MySemaphoreSignal(s) ==
  /\ phase = "threads" /\ s \in sems
  /\ count[s] < MaxCount
  /\ count' = [count EXCEPT ![s] = @ + 1]
  /\ \/ /\ Wakes(count'[s])
        /\ wait_queue' = [wait_queue EXCEPT ![s] = dequeue(@)]
        /\ ready_queue' = enqueue(ready_queue, dequeued(wait_queue[s]))
     \/ /\ ~Wakes(count'[s])
        /\ UNCHANGED <<wait_queue, ready_queue>>
  /\ UNCHANGED <<threadVars, sems, phase, current_thread, blocked_queue, ctx, running, ret>>

MySemaphoreWait(s) ==
  /\ phase = "threads" /\ s \in sems
  /\ count' = [count EXCEPT ![s] = @ - 1]
  /\ \/ /\ Sleeps(count'[s])
        /\ wait_queue' = [wait_queue EXCEPT ![s] = enqueue(@, current_thread)]
        /\ SwitchToNext(ready_queue, blocked_queue, SavedIn(current_thread))
     \/ /\ ~Sleeps(count'[s])
        /\ UNCHANGED <<wait_queue, switchVars>>
  /\ UNCHANGED <<threadVars, sems, ret>>

MySemaphoreDestroy_InUse(s) ==
  /\ s \in sems
  /\ sems' = sems \ {s}
  /\ UNCHANGED <<threadVars, switchVars, count, wait_queue, ret>>

MySemaphoreDestroy(s) ==
  /\ s \in sems
  /\ \/ /\ wait_queue[s] = <<>>
        /\ sems' = sems \ {s}
     \/ /\ wait_queue[s] # <<>>
        /\ UNCHANGED sems
  /\ UNCHANGED <<threadVars, switchVars, count, wait_queue, ret>>

-----------------------------------------------------------------------------
Next ==
  \/ \E t \in Threads : MyThreadInit(t)
  \/ \E t \in Threads : MyThreadCreate(t)
  \/ MyThreadYield
  \/ \E t \in made : MyThreadJoin(t)
  \/ MyThreadJoinAll
  \/ MyThreadExit
  \/ \E v \in -1 .. MaxCount : MySemaphoreInit(v)
  \/ \E s \in Sems : MySemaphoreSignal(s)
  \/ \E s \in Sems : MySemaphoreWait(s)
  \/ \E s \in Sems : MySemaphoreDestroy(s)

Spec == Init /\ [][Next]_vars

(***************************************************************************)
(* A call with which the running thread gives the processor away.  The     *)
(* library cannot pre-empt, so progress rests on the client: a thread does *)
(* not compute for ever without such a call.                               *)
(***************************************************************************)
Relinquish ==
  \/ MyThreadYield
  \/ MyThreadExit
  \/ MyThreadJoinAll /\ children[current_thread] # <<>>
  \/ \E t \in made : MyThreadJoin(t) /\ Contains(children[current_thread], t)
  \/ \E s \in Sems : MySemaphoreWait(s) /\ Sleeps(count'[s])

FairSpec == Spec /\ WF_vars(Relinquish)

-----------------------------------------------------------------------------
(* The shape of the state.  No queue ever holds NULL, although             *)
(* MySemaphoreSignal enqueues what dequeue returns (mythread.c:205-206).   *)
TypeOK ==
  /\ phase \in {"process", "threads", "done"}
  /\ current_thread \in Threads \cup {NULL}
  /\ running \in Threads \cup {NULL}
  /\ ready_queue \in Seq(Threads)
  /\ blocked_queue \in Seq(Threads)
  /\ made \in SUBSET Threads
  /\ exited \in SUBSET made
  /\ parent \in [Threads -> Threads \cup {NULL}]
  /\ children \in [Threads -> Seq(Threads)]
  /\ waiting_for \in [Threads -> Threads \cup {NULL}]
  /\ ctx \in [Threads -> Threads \cup {NULL}]
  /\ sems \in SUBSET Sems
  /\ count \in [Sems -> Int]
  /\ wait_queue \in [Sems -> Seq(Threads)]
  /\ ret \in {0, -1}

(* No thread is on a queue twice, so that remove_node, which goes on after *)
(* a hit and leaves the list broken on a second one (queue.h:160-179), is  *)
(* never called on a list with a duplicate.                                *)
NoDuplicates ==
  /\ IsInjective(ready_queue) /\ IsInjective(blocked_queue)
  /\ \A t \in Threads : IsInjective(children[t])
  /\ \A s \in sems : IsInjective(wait_queue[s])

(* t waits for a unit of some semaphore.                                   *)
Asleep(t) == \E s \in sems : t \in Range(wait_queue[s])

(* While the threads run, a thread that was made and has not exited is in  *)
(* exactly one place - current_thread, the ready queue, the blocked queue  *)
(* or one semaphore's wait queue - and no other thread is in any of them.  *)
OnePlace ==
  phase = "threads" =>
    /\ current_thread \in Alive
    /\ \A t \in Threads :
         t \in Alive <=> \/ t = current_thread \/ t \in Range(ready_queue)
                        \/ t \in Range(blocked_queue) \/ Asleep(t)
    /\ \A t \in Range(ready_queue) :
         t # current_thread /\ t \notin Range(blocked_queue) /\ ~Asleep(t)
    /\ \A t \in Range(blocked_queue) : t # current_thread /\ ~Asleep(t)
    /\ ~Asleep(current_thread)
    /\ \A r, s \in sems : r # s => Range(wait_queue[r]) \cap Range(wait_queue[s]) = {}

(* A thread's children list holds exactly its children that have not       *)
(* exited, also once it has exited itself: MyThreadJoin's membership test  *)
(* and MyThreadExit's removal speak of the same list.                      *)
ChildrenAreAlive ==
  \A p \in Threads : Range(children[p]) = {c \in Alive : parent[c] = p}

(* No wake-up is lost: a thread on the blocked queue still has a child     *)
(* that has not exited, the one it waits for if it waits for one, and only *)
(* such a thread has waiting_for set.                                      *)
BlockedHasReason ==
  phase = "threads" =>
    /\ \A t \in Range(blocked_queue) :
         /\ children[t] # <<>>
         /\ waiting_for[t] # NULL => waiting_for[t] \in Range(children[t])
    /\ \A t \in Alive \ Range(blocked_queue) : waiting_for[t] = NULL

(* A negative count is the number of threads asleep on the semaphore, and  *)
(* nobody sleeps on one that is not negative; MySemaphoreSignal hence      *)
(* never dequeues from an empty queue.                                     *)
CountIsWaiters ==
  \A s \in sems : Len(wait_queue[s]) = IF count[s] < 0 THEN -count[s] ELSE 0

(* The code that executes belongs to current_thread, and every suspended   *)
(* thread's context holds its own continuation, although MyThreadJoin      *)
(* saves the caller through its child's parent pointer (mythread.c:106).   *)
ContextIsOwn ==
  phase = "threads" =>
    /\ running = current_thread
    /\ \A t \in Alive : t # current_thread => ctx[t] = t

(* What the invariants above need besides each other: no thread exists or  *)
(* waits before MyThreadInit, and a creator was created.                   *)
Creation ==
  /\ phase = "process" => /\ made = {} /\ \A t \in Threads : parent[t] = NULL
                          /\ blocked_queue = <<>>
                          /\ \A s \in sems : wait_queue[s] = <<>>
  /\ \A t \in made : parent[t] \in made \cup {NULL}

(* The inductive invariant.                                                *)
IInv ==
  /\ TypeOK /\ NoDuplicates /\ OnePlace /\ ChildrenAreAlive
  /\ BlockedHasReason /\ CountIsWaiters /\ ContextIsOwn /\ Creation

(* What JoinWaits says of one step.                                        *)
JoinWaitsStep ==
  phase = "threads" /\ phase' = "threads" =>
    \A t \in Range(blocked_queue) \ Range(blocked_queue') :
      IF waiting_for[t] # NULL THEN waiting_for[t] \in exited'
      ELSE {c \in made : parent[c] = t} \subseteq exited'

(* A thread leaves the blocked queue only when what it waits for is over:  *)
(* the joined child has exited or, for MyThreadJoinAll, every child has.   *)
JoinWaits == [][JoinWaitsStep]_vars

(* The threads that are ahead of t on the queue q.                         *)
Ahead(q, t) == {q[i] : i \in {j \in DOMAIN q : \E k \in DOMAIN q : j < k /\ q[k] = t}}

(* From the queue q to the queue r nobody gets ahead of a thread that is   *)
(* on both who was not there before, and whoever is behind it stays so.    *)
KeepsOrder(q, r) ==
  \A t \in Range(q) \cap Range(r) :
    /\ Ahead(r, t) \subseteq Ahead(q, t)
    /\ \A u \in Range(q) : t \in Ahead(q, u) => t \in Ahead(r, u)

(* First in, first out (readme.md:65): while a thread is on the ready      *)
(* queue, nobody gets ahead of it who was not there before, and everybody  *)
(* behind it stays behind it.                                              *)
NoOvertaking == [][phase' = "threads" => KeepsOrder(ready_queue, ready_queue')]_vars

(* What a client sees of the state: who has the processor, whose exit each *)
(* thread waits for, the units a semaphore has left and who waits for one. *)
Runner == IF phase = "threads" THEN current_thread ELSE NULL

Awaiting ==
  [t \in Threads |-> IF t \notin Range(blocked_queue) THEN {}
                     ELSE IF waiting_for[t] # NULL THEN {waiting_for[t]}
                     ELSE Range(children[t])]

Units == [s \in Sems |-> IF count[s] > 0 THEN count[s] ELSE 0]

Sleepers == [s \in Sems |-> Range(wait_queue[s])]

(* The queues keep what the interface promises: see ThreadApi.             *)
Api == INSTANCE ThreadApi WITH
  runner <- Runner, born <- made, alive <- Alive,
  awaiting <- Awaiting, units <- Units, asleep <- Sleepers

(* Every call does what its description promises: who waits for whom, what *)
(* a semaphore holds, that a waiting thread never runs and a runnable one  *)
(* is never forgotten, MyThreadInit returning only when none is left.      *)
ImplementsApi == Api!Spec

(* Every ready thread gets the processor.                                  *)
NoStarvation ==
  \A t \in Threads : t \in Range(ready_queue) ~> current_thread = t
=============================================================================

--------------------------- MODULE MyThreadProofs ---------------------------
(***************************************************************************)
(* Proofs about MyThread, for every set of threads and semaphores and      *)
(* every order of calls.  The routines on threads, then those on           *)
(* semaphores, preserve the inductive invariant IInv; from it follows what *)
(* the library guarantees, that its ready queue is first in, first out,    *)
(* and that it implements its interface (ThreadApi): every routine is a    *)
(* step the interface allows, or changes nothing that a client can see.    *)
(* The proofs use the queues only through their members (QueueLemmas), so  *)
(* most steps are statements about sets of threads.                        *)
(***************************************************************************)
EXTENDS MyThread, QueueLemmas

(* What a context switch does to a ready queue rq without duplicates.      *)
LEMMA SwitchFacts ==
  ASSUME NEW rq \in Seq(Threads), IsInjective(rq), NEW bq, NEW cs,
         SwitchToNext(rq, bq, cs)
  PROVE  \/ /\ phase' = phase
            /\ current_thread' \in Range(rq) /\ current_thread' \in Threads
            /\ ready_queue' \in Seq(Threads) /\ IsInjective(ready_queue')
            /\ Range(ready_queue') = Range(rq) \ {current_thread'}
            /\ blocked_queue' = bq
            /\ running' = cs[current_thread']
            /\ ctx' = [cs EXCEPT ![current_thread'] = NULL]
         \/ /\ phase' = "done" /\ Range(rq) = {}
            /\ ready_queue' = <<>> /\ blocked_queue' = <<>>
            /\ running' = NULL
            /\ current_thread' = current_thread /\ ctx' = ctx
<1>1. CASE rq = <<>>
  <2>1. Range(rq) = {}
    BY Zenon, <1>1, EmptyRange
  <2>. QED BY <1>1, <2>1 DEF SwitchToNext, dequeued
<1>2. CASE rq # <<>>
  <2>1. /\ Head(rq) \in Threads /\ Head(rq) \in Range(rq)
        /\ Tail(rq) \in Seq(Threads) /\ IsInjective(Tail(rq))
        /\ Range(Tail(rq)) = Range(rq) \ {Head(rq)}
    BY <1>2, DequeueFacts
  <2>2. dequeued(rq) = Head(rq) /\ dequeue(rq) = Tail(rq) /\ Head(rq) # NULL
    BY <1>2, <2>1, MyThreadAssumption DEF dequeued, dequeue
  <2>. QED BY Zenon, <2>1, <2>2 DEF SwitchToNext
<1>. QED BY <1>1, <1>2

(* The empty queue is a queue without duplicates and without members.      *)
LEMMA EmptyQueue ==
  /\ <<>> \in Seq(Threads) /\ IsInjective(<<>>) /\ Range(<<>>) = {} /\ Len(<<>>) = 0
<1>1. <<>> \in Seq(Threads) /\ Range(<<>>) = {}
  BY DEF Range
<1>. QED BY <1>1 DEF IsInjective

(* Nothing is queued, made or allocated at the start.                      *)
LEMMA InitIInv == Init => IInv
<1> SUFFICES ASSUME Init PROVE IInv
  OBVIOUS
<1> USE EmptyQueue, MyThreadAssumption DEF Init
<1>1. TypeOK
  BY DEF TypeOK
<1>2. NoDuplicates /\ OnePlace /\ BlockedHasReason /\ CountIsWaiters /\ ContextIsOwn /\ Creation
  BY DEF NoDuplicates, OnePlace, BlockedHasReason, CountIsWaiters, ContextIsOwn, Creation
<1>3. ChildrenAreAlive
  BY DEF ChildrenAreAlive, Alive
<1>. QED BY <1>1, <1>2, <1>3 DEF IInv

(* What IInv says of the thread that has the processor.                    *)
LEMMA CurrentFacts ==
  ASSUME IInv, phase = "threads"
  PROVE  /\ current_thread \in Threads /\ current_thread # NULL
         /\ current_thread \in Alive /\ current_thread \in made
         /\ current_thread \notin exited
         /\ current_thread \notin Range(ready_queue)
         /\ current_thread \notin Range(blocked_queue)
         /\ waiting_for[current_thread] = NULL
         /\ running = current_thread
<1>1. current_thread \in Alive /\ Alive \subseteq Threads /\ Alive \subseteq made
  BY DEF IInv, TypeOK, OnePlace, Alive
<1>2. current_thread \notin Range(ready_queue) /\ current_thread \notin Range(blocked_queue)
  BY DEF IInv, OnePlace
<1>. QED
  BY <1>1, <1>2, MyThreadAssumption DEF IInv, BlockedHasReason, ContextIsOwn, Alive

(* What IInv says of the children of a thread that has some.               *)
LEMMA ChildrenFacts ==
  ASSUME IInv, NEW c \in Threads, children[c] # <<>>
  PROVE  /\ Range(children[c]) # {} /\ Range(children[c]) \subseteq Threads
         /\ Range(children[c]) = {x \in Alive : parent[x] = c}
<1>1. children[c] \in Seq(Threads)
  BY DEF IInv, TypeOK
<1>2. Range(children[c]) # {} /\ Range(children[c]) \subseteq Threads
  BY <1>1, EmptyRange, RangeInSet
<1>. QED BY <1>2, Zenon DEF IInv, ChildrenAreAlive

(* Before a context switch: the threads of rq, those of bq and the         *)
(* sleepers are the living threads, each in one place and with its own     *)
(* continuation in cs.                                                     *)
SwitchPre(rq, bq, cs) ==
  /\ phase = "threads" /\ current_thread \in Threads
  /\ rq \in Seq(Threads) /\ IsInjective(rq)
  /\ bq \in Seq(Threads) /\ IsInjective(bq)
  /\ cs \in [Threads -> Threads \cup {NULL}]
  /\ ctx \in [Threads -> Threads \cup {NULL}]
  /\ Alive' \subseteq Threads
  /\ \A t \in Threads :
       t \in Alive' <=> t \in Range(rq) \/ t \in Range(bq) \/ Asleep(t)'
  /\ \A t \in Range(rq) : t \notin Range(bq) /\ ~Asleep(t)'
  /\ \A t \in Range(bq) : ~Asleep(t)'
  /\ \A r, s \in sems' : r # s => Range(wait_queue'[r]) \cap Range(wait_queue'[s]) = {}
  /\ \A t \in Threads : t \in Alive' => cs[t] = t

(* After it: the invariants that speak of the processor and the queues.    *)
SwitchPost(bq) ==
  /\ phase' \in {"threads", "done"}
  /\ current_thread' \in Threads /\ running' \in Threads \cup {NULL}
  /\ ready_queue' \in Seq(Threads) /\ IsInjective(ready_queue')
  /\ blocked_queue' \in Seq(Threads) /\ IsInjective(blocked_queue')
  /\ ctx' \in [Threads -> Threads \cup {NULL}]
  /\ phase' = "threads" => blocked_queue' = bq
  /\ OnePlace' /\ ContextIsOwn'

(* A context switch leaves every living thread in one place.               *)
LEMMA SwitchIInv ==
  ASSUME NEW rq, NEW bq, NEW cs, SwitchPre(rq, bq, cs), SwitchToNext(rq, bq, cs)
  PROVE  SwitchPost(bq)
<1> USE DEF SwitchPre, SwitchPost
<1>1. CASE phase' = "done"
  <2>1. /\ ready_queue' = <<>> /\ blocked_queue' = <<>> /\ running' = NULL
        /\ current_thread' = current_thread /\ ctx' = ctx
    BY <1>1, SwitchFacts
  <2>. QED BY <1>1, <2>1, EmptyQueue DEF OnePlace, ContextIsOwn
<1>2. CASE phase' # "done"
  <2>1. /\ phase' = "threads"
        /\ current_thread' \in Range(rq) /\ current_thread' \in Threads
        /\ ready_queue' \in Seq(Threads) /\ IsInjective(ready_queue')
        /\ Range(ready_queue') = Range(rq) \ {current_thread'}
        /\ blocked_queue' = bq
        /\ running' = cs[current_thread']
        /\ ctx' = [cs EXCEPT ![current_thread'] = NULL]
    BY <1>2, SwitchFacts
  <2>2. \A t \in Range(rq) : t \in Threads
    BY DEF Range
  <2>3. current_thread' \in Alive' /\ running' = current_thread'
    BY <2>1
  <2>4. OnePlace'
    BY Zenon, <2>1, <2>2, <2>3 DEF OnePlace
  <2>5. ContextIsOwn'
    <3>1. \A t \in Alive' : t # current_thread' => ctx'[t] = t
      BY <2>1
    <3>. QED BY <2>3, <3>1 DEF ContextIsOwn
  <2>. QED BY <2>1, <2>3, <2>4, <2>5
<1>. QED BY <1>1, <1>2

(* A step that changes nothing but the value MyThreadJoin returned.        *)
LEMMA StutterIInv ==
  ASSUME IInv, UNCHANGED <<threadVars, semVars, switchVars>>, ret' \in {0, -1}
  PROVE  IInv'
<1> USE DEF threadVars, semVars, switchVars
<1>1. TypeOK' /\ NoDuplicates' /\ CountIsWaiters' /\ Creation'
  BY DEF IInv, TypeOK, NoDuplicates, CountIsWaiters, Creation
<1>2. Alive' = Alive /\ \A x : Asleep(x)' <=> Asleep(x)
  BY DEF Alive, Asleep
<1>3. OnePlace' /\ ChildrenAreAlive'
  BY <1>2 DEF IInv, OnePlace, ChildrenAreAlive
<1>4. BlockedHasReason' /\ ContextIsOwn'
  BY <1>2 DEF IInv, BlockedHasReason, ContextIsOwn
<1>. QED BY <1>1, <1>3, <1>4 DEF IInv

(* MyThreadInit makes the first thread and runs it.                        *)
LEMMA MyThreadInitIInv ==
  ASSUME IInv, NEW t \in Threads, MyThreadInit(t)
  PROVE  IInv'
<1> USE EmptyQueue, MyThreadAssumption
<1>1. /\ phase = "process" /\ made = {} /\ exited = {}
      /\ \A s \in sems : wait_queue[s] = <<>> /\ Range(wait_queue[s]) = {}
  BY DEF IInv, MyThreadInit, Creation, TypeOK
<1>2. TypeOK'
  BY DEF IInv, TypeOK, MyThreadInit, make_thread, semVars
<1>3. /\ made' = {t} /\ exited' = {} /\ Alive' = {t} /\ phase' = "threads"
      /\ current_thread' = t /\ running' = t
      /\ ready_queue' = <<>> /\ blocked_queue' = <<>>
      /\ sems' = sems /\ wait_queue' = wait_queue /\ count' = count
      /\ parent'[t] = NULL /\ waiting_for'[t] = NULL /\ children'[t] = <<>>
      /\ \A p \in Threads \ {t} : children'[p] = children[p]
  BY <1>1 DEF MyThreadInit, make_thread, semVars, Alive, IInv, TypeOK
<1>4. \A p \in Threads : children'[p] = <<>>
  <2>1. \A p \in Threads : Range(children[p]) = {}
    BY <1>1 DEF IInv, ChildrenAreAlive, Alive
  <2>. QED BY <1>3, <2>1, EmptyRange DEF IInv, TypeOK
<1>5. NoDuplicates'
  BY <1>1, <1>3, <1>4 DEF NoDuplicates
<1>6. OnePlace'
  BY <1>1, <1>3 DEF OnePlace, Asleep
<1>7. ChildrenAreAlive'
  BY <1>3, <1>4 DEF ChildrenAreAlive
<1>8. BlockedHasReason' /\ ContextIsOwn' /\ Creation'
  BY <1>3 DEF BlockedHasReason, ContextIsOwn, Creation
<1>9. CountIsWaiters'
  BY <1>3 DEF CountIsWaiters, IInv
<1>. QED BY <1>2, <1>5, <1>6, <1>7, <1>8, <1>9 DEF IInv

(* MyThreadCreate adds a thread to the ready queue and to the children of  *)
(* its creator.                                                            *)
LEMMA MyThreadCreateIInv ==
  ASSUME IInv, NEW t \in Threads, MyThreadCreate(t)
  PROVE  IInv'
<1> USE MyThreadAssumption
<1> DEFINE c == current_thread
<1>1. /\ phase = "threads" /\ t \notin made /\ t \notin Alive
      /\ c \in Threads /\ c \in made /\ c # t /\ c \in Alive
      /\ TypeOK
  BY CurrentFacts DEF MyThreadCreate, make_thread, Alive, IInv
<1>2. t \notin Range(ready_queue) /\ t \notin Range(blocked_queue) /\ ~Asleep(t)
  BY <1>1 DEF IInv, OnePlace
<1>3. /\ ready_queue' \in Seq(Threads) /\ IsInjective(ready_queue')
      /\ Range(ready_queue') = Range(ready_queue) \cup {t}
  BY <1>1, <1>2, EnqueueFacts DEF MyThreadCreate, enqueue, TypeOK, IInv, NoDuplicates
<1>4. t \notin Range(children[c])
  BY <1>1 DEF IInv, ChildrenAreAlive
<1>5. /\ children' \in [Threads -> Seq(Threads)]
      /\ children'[t] = <<>>
      /\ IsInjective(children'[c]) /\ Range(children'[c]) = Range(children[c]) \cup {t}
      /\ \A p \in Threads \ {c, t} : children'[p] = children[p]
  <2>1. children' = [children EXCEPT ![c] = Append(children[c], t), ![t] = <<>>]
    BY DEF MyThreadCreate, enqueue
  <2>2. /\ Append(children[c], t) \in Seq(Threads)
        /\ IsInjective(Append(children[c], t))
        /\ Range(Append(children[c], t)) = Range(children[c]) \cup {t}
    BY <1>1, <1>4, EnqueueFacts DEF TypeOK, IInv, NoDuplicates
  <2>. QED BY Zenon, <1>1, <2>1, <2>2, EmptyQueue DEF TypeOK
<1>6. /\ Alive' = Alive \cup {t} /\ made' = made \cup {t} /\ exited' = exited
      /\ phase' = phase /\ current_thread' = c /\ running' = running
      /\ blocked_queue' = blocked_queue
      /\ sems' = sems /\ wait_queue' = wait_queue /\ count' = count
      /\ parent' = [parent EXCEPT ![t] = c]
      /\ waiting_for' = [waiting_for EXCEPT ![t] = NULL]
      /\ ctx' = [ctx EXCEPT ![t] = t] /\ ret' = ret
  BY <1>1 DEF MyThreadCreate, make_thread, semVars, Alive, TypeOK
<1>7. TypeOK'
  BY <1>1, <1>3, <1>5, <1>6 DEF TypeOK
<1>8. NoDuplicates'
  BY Zenon, <1>1, <1>3, <1>5, <1>6, EmptyQueue DEF NoDuplicates, IInv
<1>9. OnePlace'
  <2>1. \A x : Asleep(x)' <=> Asleep(x)
    BY <1>6 DEF Asleep
  <2>2. OnePlace /\ phase' = "threads"
    BY <1>1, <1>6 DEF IInv
  <2>. QED BY Zenon, <1>1, <1>2, <1>3, <1>6, <2>1, <2>2 DEF OnePlace
<1>10. ChildrenAreAlive'
  <2> SUFFICES ASSUME NEW p \in Threads
               PROVE  Range(children'[p]) = {x \in Alive' : parent'[x] = p}
    BY DEF ChildrenAreAlive
  <2>1. Range(children[p]) = {x \in Alive : parent[x] = p} /\ Alive \subseteq Threads
    BY <1>1 DEF IInv, ChildrenAreAlive, TypeOK, Alive
  <2>2. CASE p = c
    BY <1>1, <1>5, <1>6, <2>1, <2>2 DEF TypeOK
  <2>3. CASE p = t
    <3>1. \A x \in Alive : parent[x] # t
      BY <1>1 DEF IInv, Creation, Alive
    <3>. QED BY <1>1, <1>5, <1>6, <2>1, <2>3, <3>1, EmptyQueue DEF TypeOK
  <2>4. CASE p # c /\ p # t
    BY <1>1, <1>5, <1>6, <2>1, <2>4 DEF TypeOK
  <2>. QED BY <2>2, <2>3, <2>4
<1>11. BlockedHasReason'
  <2>1. ASSUME NEW x \in Range(blocked_queue)
        PROVE  /\ children'[x] # <<>>
               /\ waiting_for'[x] # NULL => waiting_for'[x] \in Range(children'[x])
    <3>1. x # t /\ x # c /\ x \in Threads
      <4>1. x \in Threads
        BY RangeInSet DEF IInv, TypeOK
      <4>. QED BY <1>1, <1>2, <4>1 DEF IInv, OnePlace
    <3>. QED BY <1>1, <1>5, <1>6, <3>1 DEF IInv, BlockedHasReason, TypeOK
  <2>2. ASSUME NEW x \in Alive', x \notin Range(blocked_queue)
        PROVE  waiting_for'[x] = NULL
    BY <1>1, <1>6, <2>2 DEF IInv, BlockedHasReason, TypeOK, Alive
  <2>. QED BY <1>6, <2>1, <2>2 DEF BlockedHasReason
<1>12. ContextIsOwn'
  BY <1>1, <1>6 DEF IInv, ContextIsOwn, TypeOK, Alive
<1>13. CountIsWaiters'
  BY <1>6 DEF IInv, CountIsWaiters
<1>14. Creation'
  BY <1>1, <1>6 DEF IInv, Creation, TypeOK
<1>. QED BY <1>7, <1>8, <1>9, <1>10, <1>11, <1>12, <1>13, <1>14 DEF IInv

(* Nothing but the switch happens in MyThreadYield.                        *)
LEMMA MyThreadYieldIInv ==
  ASSUME IInv, MyThreadYield
  PROVE  IInv'
<1> USE MyThreadAssumption
<1> DEFINE c  == current_thread
           rq == Append(ready_queue, c)
           cs == [ctx EXCEPT ![c] = running]
<1>1. /\ phase = "threads" /\ c \in Threads /\ c \in Alive /\ running = c
      /\ c \notin Range(ready_queue) /\ c \notin Range(blocked_queue)
      /\ waiting_for[c] = NULL
      /\ TypeOK /\ OnePlace
  BY CurrentFacts DEF MyThreadYield, IInv
<1>2. /\ rq \in Seq(Threads) /\ IsInjective(rq) /\ Range(rq) = Range(ready_queue) \cup {c}
  BY <1>1, EnqueueFacts DEF TypeOK, IInv, NoDuplicates
<1>3. /\ SwitchToNext(rq, blocked_queue, cs)
      /\ made' = made /\ exited' = exited /\ parent' = parent /\ children' = children
      /\ waiting_for' = waiting_for
      /\ sems' = sems /\ wait_queue' = wait_queue /\ count' = count /\ ret' = ret
      /\ Alive' = Alive /\ Alive \subseteq Threads
  BY <1>1 DEF MyThreadYield, SavedIn, enqueue, threadVars, semVars, Alive, TypeOK
<1>4. \A x : Asleep(x)' <=> Asleep(x)
  BY <1>3 DEF Asleep
<1>5. /\ cs \in [Threads -> Threads \cup {NULL}]
      /\ \A x \in Threads : x \in Alive' => cs[x] = x
  BY <1>1, <1>3 DEF IInv, ContextIsOwn, TypeOK
<1>6. /\ blocked_queue \in Seq(Threads) /\ IsInjective(blocked_queue)
      /\ ctx \in [Threads -> Threads \cup {NULL}]
  BY <1>1 DEF TypeOK, IInv, NoDuplicates
<1>7. /\ \A x \in Threads : x \in Alive' <=> \/ x \in Range(rq)
                                           \/ x \in Range(blocked_queue) \/ Asleep(x)'
      /\ \A x \in Range(rq) : x \notin Range(blocked_queue) /\ ~Asleep(x)'
      /\ \A x \in Range(blocked_queue) : ~Asleep(x)'
      /\ \A r, s \in sems' : r # s => Range(wait_queue'[r]) \cap Range(wait_queue'[s]) = {}
  BY <1>1, <1>2, <1>3, <1>4 DEF OnePlace
<1> HIDE DEF c, rq, cs
<1>8. SwitchPost(blocked_queue)
  <2>1. SwitchPre(rq, blocked_queue, cs)
    BY Zenon, <1>1, <1>2, <1>3, <1>5, <1>6, <1>7 DEF SwitchPre, c
  <2>. QED BY <1>3, <2>1, SwitchIInv
<1>9. TypeOK'
  BY <1>1, <1>3, <1>8, Zenon DEF SwitchPost, TypeOK
<1>10. NoDuplicates' /\ CountIsWaiters'
  BY <1>3, <1>8 DEF SwitchPost, NoDuplicates, CountIsWaiters, IInv
<1>11. ChildrenAreAlive'
  BY <1>3 DEF ChildrenAreAlive, IInv
<1>12. BlockedHasReason'
  BY <1>1, <1>3, <1>8 DEF SwitchPost, BlockedHasReason, IInv
<1>13. Creation'
  BY <1>3, <1>8 DEF SwitchPost, Creation, IInv
<1>. QED BY <1>8, <1>9, <1>10, <1>11, <1>12, <1>13 DEF SwitchPost, IInv

(* The running thread goes to the blocked queue with waiting_for set to w, *)
(* one of its living children, or NULL when it waits for all of them.      *)
LEMMA BlockIInv ==
  ASSUME IInv, phase = "threads", NEW w \in Threads \cup {NULL},
         children[current_thread] # <<>>,
         w # NULL => w \in Range(children[current_thread]),
         SwitchToNext(ready_queue, Append(blocked_queue, current_thread),
                      [ctx EXCEPT ![current_thread] = running]),
         waiting_for' = [waiting_for EXCEPT ![current_thread] = w],
         made' = made, exited' = exited, parent' = parent, children' = children,
         sems' = sems, count' = count, wait_queue' = wait_queue, ret' \in {0, -1}
  PROVE  IInv'
<1> USE MyThreadAssumption
<1> DEFINE c  == current_thread
           bq == Append(blocked_queue, c)
           cs == [ctx EXCEPT ![c] = running]
<1>1. /\ c \in Threads /\ current_thread \in Threads /\ c \in Alive /\ running = c
      /\ c \notin Range(ready_queue) /\ c \notin Range(blocked_queue)
      /\ TypeOK /\ OnePlace
      /\ ready_queue \in Seq(Threads) /\ IsInjective(ready_queue)
      /\ ctx \in [Threads -> Threads \cup {NULL}]
  BY CurrentFacts DEF IInv, TypeOK, NoDuplicates
<1>2. /\ bq \in Seq(Threads) /\ IsInjective(bq) /\ Range(bq) = Range(blocked_queue) \cup {c}
  BY <1>1, EnqueueFacts DEF TypeOK, IInv, NoDuplicates
<1>3. Alive' = Alive /\ Alive \subseteq Threads
  BY <1>1 DEF Alive, TypeOK
<1>4. \A x : Asleep(x)' <=> Asleep(x)
  BY DEF Asleep
<1>5. /\ cs \in [Threads -> Threads \cup {NULL}]
      /\ \A x \in Threads : x \in Alive' => cs[x] = x
  BY <1>1, <1>3 DEF IInv, ContextIsOwn, TypeOK
<1>6. /\ \A x \in Threads : x \in Alive' <=> \/ x \in Range(ready_queue)
                                           \/ x \in Range(bq) \/ Asleep(x)'
      /\ \A x \in Range(ready_queue) : x \notin Range(bq) /\ ~Asleep(x)'
      /\ \A x \in Range(bq) : ~Asleep(x)'
      /\ \A r, s \in sems' : r # s => Range(wait_queue'[r]) \cap Range(wait_queue'[s]) = {}
  BY Zenon, <1>1, <1>2, <1>3, <1>4 DEF OnePlace
<1> HIDE DEF c, bq, cs
<1>7. SwitchToNext(ready_queue, bq, cs)
  BY DEF bq, cs, c
<1>8. SwitchPost(bq)
  <2>1. SwitchPre(ready_queue, bq, cs)
    BY Zenon, <1>1, <1>2, <1>3, <1>5, <1>6 DEF SwitchPre
  <2>. QED BY <1>7, <2>1, SwitchIInv
<1>9. TypeOK'
  BY <1>1, <1>8, Zenon DEF SwitchPost, TypeOK, c
<1>10. NoDuplicates' /\ CountIsWaiters'
  BY <1>8 DEF SwitchPost, NoDuplicates, CountIsWaiters, IInv
<1>11. ChildrenAreAlive'
  BY <1>3 DEF ChildrenAreAlive, IInv
<1>12. BlockedHasReason'
  <2> SUFFICES ASSUME phase' = "threads"
               PROVE  /\ \A x \in Range(bq) :
                           /\ children[x] # <<>>
                           /\ waiting_for'[x] # NULL => waiting_for'[x] \in Range(children[x])
                      /\ \A x \in Alive \ Range(bq) : waiting_for'[x] = NULL
    BY <1>3, <1>8 DEF SwitchPost, BlockedHasReason
  <2>1. BlockedHasReason /\ waiting_for \in [Threads -> Threads \cup {NULL}]
    BY <1>1 DEF IInv, TypeOK
  <2>2. \A x \in Range(bq) : x \in Threads
    BY Zenon, <1>2, RangeInSet
  <2>3. /\ waiting_for'[c] = w
        /\ \A x \in Threads : x # c => waiting_for'[x] = waiting_for[x]
    BY <1>1, <2>1 DEF c
  <2>4. /\ \A x \in Range(blocked_queue) :
             /\ children[x] # <<>>
             /\ waiting_for[x] # NULL => waiting_for[x] \in Range(children[x])
        /\ \A x \in Alive \ Range(blocked_queue) : waiting_for[x] = NULL
    BY <2>1 DEF BlockedHasReason
  <2>5. ASSUME NEW x \in Range(bq)
        PROVE  /\ children[x] # <<>>
               /\ waiting_for'[x] # NULL => waiting_for'[x] \in Range(children[x])
    <3>1. CASE x = c
      BY <2>3, <3>1 DEF c
    <3>2. CASE x # c
      BY <1>2, <2>2, <2>3, <2>4, <3>2
    <3>. QED BY <3>1, <3>2
  <2>6. ASSUME NEW x \in Alive \ Range(bq) PROVE waiting_for'[x] = NULL
    BY <1>2, <1>3, <2>3, <2>4
  <2>. QED BY <2>5, <2>6, Zenon
<1>13. Creation'
  BY <1>8 DEF SwitchPost, Creation, IInv
<1>. QED BY <1>8, <1>9, <1>10, <1>11, <1>12, <1>13 DEF SwitchPost, IInv

(* MyThreadJoin fails, or blocks on a living child.  The assignment in its *)
(* assertion changes nothing.                                              *)
LEMMA MyThreadJoinIInv ==
  ASSUME IInv, NEW t \in made, MyThreadJoin(t)
  PROVE  IInv'
<1>1. /\ phase = "threads" /\ t \in Threads /\ current_thread \in Threads
      /\ TypeOK /\ children[current_thread] \in Seq(Threads)
  BY CurrentFacts DEF MyThreadJoin, IInv, TypeOK
<1>2. CASE ~Contains(children[current_thread], t)
  BY Zenon, <1>1, <1>2, StutterIInv DEF MyThreadJoin, threadVars, semVars, switchVars
<1>3. CASE Contains(children[current_thread], t)
  <2>1. t \in Range(children[current_thread]) /\ children[current_thread] # <<>>
    BY <1>1, <1>3, ContainsIsMember, EmptyRange
  <2>2. parent[t] = current_thread
    BY <1>1, <2>1 DEF IInv, ChildrenAreAlive
  <2>3. parent' = parent
    BY Zenon, <1>1, <1>3, <2>2 DEF MyThreadJoin, TypeOK
  <2>4. SwitchToNext(ready_queue, Append(blocked_queue, current_thread),
                     [ctx EXCEPT ![current_thread] = running])
    BY Zenon, <1>3, <2>2, <2>3 DEF MyThreadJoin, SavedIn, enqueue
  <2>. QED BY Zenon, <1>1, <1>3, <2>1, <2>3, <2>4, BlockIInv DEF MyThreadJoin, semVars
<1>. QED BY <1>2, <1>3

(* MyThreadJoinAll returns at once, or blocks on the children.             *)
LEMMA MyThreadJoinAllIInv ==
  ASSUME IInv, MyThreadJoinAll
  PROVE  IInv'
<1>1. /\ phase = "threads" /\ waiting_for[current_thread] = NULL /\ TypeOK
      /\ current_thread \in Threads
  BY CurrentFacts DEF MyThreadJoinAll, IInv
<1>2. CASE children[current_thread] = <<>>
  BY <1>1, <1>2, StutterIInv DEF MyThreadJoinAll, threadVars, semVars, switchVars, TypeOK
<1>3. CASE children[current_thread] # <<>>
  <2>1. waiting_for' = [waiting_for EXCEPT ![current_thread] = NULL]
    BY <1>1 DEF MyThreadJoinAll, threadVars, TypeOK
  <2>. QED
    BY Zenon, <1>1, <1>3, <2>1, BlockIInv
       DEF MyThreadJoinAll, SavedIn, enqueue, threadVars, semVars, TypeOK
<1>. QED BY <1>2, <1>3

(* The children lists after thread c has taken itself off its parent's.    *)
LEMMA ChildrenWithoutFacts ==
  ASSUME IInv, NEW c \in Alive
  PROVE  LET p  == parent[c]
             ch == ChildrenWithout(p, c)
         IN  /\ ch \in [Threads -> Seq(Threads)]
             /\ \A q \in Threads : IsInjective(ch[q]) /\ Range(ch[q]) = Range(children[q]) \ {c}
             /\ \A q \in Threads : q # p => ch[q] = children[q]
<1> USE MyThreadAssumption
<1> DEFINE p == parent[c]
           ch == ChildrenWithout(p, c)
<1>1. /\ c \in Threads /\ p \in Threads \cup {NULL}
      /\ children \in [Threads -> Seq(Threads)]
      /\ \A q \in Threads : IsInjective(children[q])
      /\ \A q \in Threads : Range(children[q]) = {x \in Alive : parent[x] = q}
  BY Zenon DEF IInv, TypeOK, Alive, NoDuplicates, ChildrenAreAlive
<1>2. \A q \in Threads : q # p => c \notin Range(children[q])
  BY <1>1, Zenon
<1>3. CASE p = NULL
  <2>1. ch = children
    BY Zenon, <1>3 DEF ChildrenWithout
  <2>2. \A q \in Threads : Range(children[q]) = Range(children[q]) \ {c}
    BY <1>1, <1>2, <1>3
  <2>. QED BY <1>1, <2>1, <2>2
<1>4. CASE p # NULL
  <2>1. p \in Threads /\ c \in Range(children[p])
    BY <1>1, <1>4
  <2>2. /\ RemoveFirst(children[p], c) \in Seq(Threads)
        /\ Range(RemoveFirst(children[p], c)) = Range(children[p]) \ {c}
        /\ IsInjective(RemoveFirst(children[p], c))
    BY <1>1, <2>1, RemoveFacts
  <2>3. ch = [children EXCEPT ![p] = RemoveFirst(children[p], c)]
    BY <1>4 DEF ChildrenWithout, remove_node
  <2>4. \A q \in Threads : q # p => Range(children[q]) = Range(children[q]) \ {c}
    BY <1>2
  <2> HIDE DEF ch, p
  <2>5. /\ ch[p] = RemoveFirst(children[p], c)
        /\ \A q \in Threads : q # p => ch[q] = children[q]
    BY <1>1, <2>1, <2>3
  <2>6. ch \in [Threads -> Seq(Threads)]
    BY <1>1, <2>1, <2>2, <2>3
  <2>7. ASSUME NEW q \in Threads
        PROVE  IsInjective(ch[q]) /\ Range(ch[q]) = Range(children[q]) \ {c}
    BY <1>1, <2>2, <2>4, <2>5, Zenon
  <2>. QED BY Zenon, <2>5, <2>6, <2>7 DEF ch, p
<1>. QED BY Zenon, <1>3, <1>4

(* MyThreadExit removes a thread from everywhere, and its parent from the  *)
(* blocked queue exactly when it has nothing left to wait for.             *)
LEMMA MyThreadExitIInv ==
  ASSUME IInv, MyThreadExit
  PROVE  IInv'
<1> USE MyThreadAssumption
<1> DEFINE c == current_thread
           p == parent[c]
<1>1. /\ phase = "threads" /\ c \in Threads /\ c \in Alive /\ c \in made /\ running = c
      /\ c \notin Range(ready_queue) /\ c \notin Range(blocked_queue)
      /\ p \in Threads \cup {NULL} /\ waiting_for[c] = NULL
      /\ TypeOK /\ OnePlace /\ NoDuplicates /\ ChildrenAreAlive /\ BlockedHasReason
  BY Zenon, CurrentFacts DEF MyThreadExit, IInv, TypeOK
<1>2. /\ children' \in [Threads -> Seq(Threads)]
      /\ \A q \in Threads : /\ IsInjective(children'[q])
                            /\ Range(children'[q]) = Range(children[q]) \ {c}
      /\ \A q \in Threads : q # p => children'[q] = children[q]
      /\ children' = ChildrenWithout(p, c)
  BY Zenon, <1>1, ChildrenWithoutFacts DEF MyThreadExit
<1>3. /\ exited' = exited \cup {c} /\ made' = made /\ parent' = parent
      /\ sems' = sems /\ wait_queue' = wait_queue /\ count' = count /\ ret' = ret
      /\ Alive' = Alive \ {c} /\ Alive \subseteq Threads
  BY <1>1 DEF MyThreadExit, semVars, Alive, TypeOK
<1>4. \A x : Asleep(x)' <=> Asleep(x)
  BY <1>3 DEF Asleep
<1>5. /\ blocked_queue \in Seq(Threads) /\ IsInjective(blocked_queue)
      /\ ready_queue \in Seq(Threads) /\ IsInjective(ready_queue)
      /\ ctx \in [Threads -> Threads \cup {NULL}]
      /\ waiting_for \in [Threads -> Threads \cup {NULL}]
      /\ \A x \in Range(blocked_queue) : x \in Threads
  <2>1. /\ blocked_queue \in Seq(Threads) /\ ready_queue \in Seq(Threads)
        /\ ctx \in [Threads -> Threads \cup {NULL}]
        /\ waiting_for \in [Threads -> Threads \cup {NULL}]
    BY <1>1 DEF TypeOK
  <2>2. IsInjective(blocked_queue) /\ IsInjective(ready_queue)
    BY <1>1 DEF NoDuplicates
  <2>3. Range(blocked_queue) \subseteq Threads
    BY <2>1, RangeInSet
  <2>. QED BY <2>1, <2>2, <2>3
<1>6. \A x \in Threads : x \in Alive' => ctx[x] = x
  BY Zenon, <1>1, <1>3 DEF IInv, ContextIsOwn
<1>7. Unblocks(p, c) <=> /\ p \in Range(blocked_queue)
                         /\ children'[p] = <<>> \/ waiting_for[p] = c
  BY <1>2, <1>5, ContainsIsMember DEF Unblocks
<1>8. \/ /\ Unblocks(p, c)
         /\ waiting_for' = [waiting_for EXCEPT ![p] = NULL]
         /\ SwitchToNext(Append(ready_queue, p), RemoveFirst(blocked_queue, p), ctx)
      \/ /\ ~Unblocks(p, c)
         /\ waiting_for' = waiting_for
         /\ SwitchToNext(ready_queue, blocked_queue, ctx)
  BY DEF MyThreadExit, enqueue, remove_node
<1>9. \E bq : /\ SwitchPost(bq)
              /\ waiting_for' \in [Threads -> Threads \cup {NULL}]
              /\ \A x \in Range(bq) :
                   /\ children'[x] # <<>>
                   /\ waiting_for'[x] # NULL => waiting_for'[x] \in Range(children'[x])
              /\ \A x \in Alive' \ Range(bq) : waiting_for'[x] = NULL
  <2>1. CASE Unblocks(p, c)
    <3> DEFINE rq == Append(ready_queue, p)
               bq == RemoveFirst(blocked_queue, p)
    <3>1. p \in Range(blocked_queue) /\ p \in Threads /\ p # c
          /\ p \notin Range(ready_queue)
      BY <1>1, <1>5, <1>7, <2>1 DEF OnePlace
    <3>2. /\ rq \in Seq(Threads) /\ IsInjective(rq) /\ Range(rq) = Range(ready_queue) \cup {p}
      BY <1>5, <3>1, EnqueueFacts
    <3>3. /\ bq \in Seq(Threads) /\ IsInjective(bq) /\ Range(bq) = Range(blocked_queue) \ {p}
      BY <1>5, <3>1, RemoveFacts
    <3>4. /\ SwitchToNext(rq, bq, ctx)
          /\ waiting_for' = [waiting_for EXCEPT ![p] = NULL]
      BY <1>8, <2>1
    <3> HIDE DEF rq, bq, c, p
    <3>5. SwitchPre(rq, bq, ctx)
      <4>1. current_thread \in Threads
        BY <1>1 DEF c
      <4>2. \A x \in Threads :
              x \in Alive' <=> x \in Range(rq) \/ x \in Range(bq) \/ Asleep(x)'
        BY Zenon, <1>1, <1>3, <1>4, <3>1, <3>2, <3>3 DEF OnePlace, c
      <4>3. /\ \A x \in Range(rq) : x \notin Range(bq) /\ ~Asleep(x)'
            /\ \A x \in Range(bq) : ~Asleep(x)'
            /\ \A r, s \in sems' :
                 r # s => Range(wait_queue'[r]) \cap Range(wait_queue'[s]) = {}
        BY Zenon, <1>1, <1>3, <1>4, <3>1, <3>2, <3>3 DEF OnePlace
      <4>. QED
        BY Zenon, <1>1, <1>3, <1>5, <1>6, <3>2, <3>3, <4>1, <4>2, <4>3 DEF SwitchPre
    <3>6. SwitchPost(bq)
      BY <3>4, <3>5, SwitchIInv
    <3>7. waiting_for' \in [Threads -> Threads \cup {NULL}]
      BY Zenon, <1>5, <3>1, <3>4
    <3>8. ASSUME NEW x \in Range(bq)
          PROVE  /\ children'[x] # <<>>
                 /\ waiting_for'[x] # NULL => waiting_for'[x] \in Range(children'[x])
      BY Zenon, <1>1, <1>2, <1>5, <3>1, <3>3, <3>4 DEF BlockedHasReason
    <3>9. ASSUME NEW x \in Alive', x \notin Range(bq)
          PROVE  waiting_for'[x] = NULL
      BY <1>1, <1>3, <1>5, <3>1, <3>3, <3>4, <3>9, Zenon DEF BlockedHasReason
    <3>. QED BY Zenon, <3>6, <3>7, <3>8, <3>9
  <2>2. CASE ~Unblocks(p, c)
    <3>1. SwitchToNext(ready_queue, blocked_queue, ctx) /\ waiting_for' = waiting_for
      BY Zenon, <1>8, <2>2
    <3>2. SwitchPre(ready_queue, blocked_queue, ctx)
      <4>1. current_thread \in Threads
        BY <1>1
      <4>2. \A x \in Threads : x \in Alive' <=> \/ x \in Range(ready_queue)
                                             \/ x \in Range(blocked_queue) \/ Asleep(x)'
        BY <1>1, <1>3, <1>4 DEF OnePlace
      <4>. QED
        BY Zenon, <1>1, <1>3, <1>4, <1>5, <1>6, <4>1, <4>2 DEF SwitchPre, OnePlace
    <3>3. SwitchPost(blocked_queue)
      BY <3>1, <3>2, SwitchIInv
    <3> HIDE DEF c, p
    <3>4. ASSUME NEW x \in Range(blocked_queue)
          PROVE  /\ children'[x] # <<>>
                 /\ waiting_for'[x] # NULL => waiting_for'[x] \in Range(children'[x])
      <4>1. CASE x = p
        BY <1>1, <1>2, <1>5, <1>7, <2>2, <3>1, <4>1 DEF BlockedHasReason
      <4>2. CASE x # p
        BY Zenon, <1>1, <1>2, <1>5, <3>1, <4>2 DEF BlockedHasReason
      <4>. QED BY Zenon, <4>1, <4>2
    <3>5. ASSUME NEW x \in Alive', x \notin Range(blocked_queue)
          PROVE  waiting_for'[x] = NULL
      BY <1>1, <1>3, <3>1, <3>5 DEF BlockedHasReason
    <3>. QED BY <1>5, <3>1, <3>3, <3>4, <3>5
  <2>. QED BY <2>1, <2>2
<1>10. PICK bq : /\ SwitchPost(bq)
                 /\ waiting_for' \in [Threads -> Threads \cup {NULL}]
                 /\ \A x \in Range(bq) :
                      /\ children'[x] # <<>>
                      /\ waiting_for'[x] # NULL => waiting_for'[x] \in Range(children'[x])
                 /\ \A x \in Alive' \ Range(bq) : waiting_for'[x] = NULL
  BY Zenon, <1>9
<1> HIDE DEF c, p
<1>11. TypeOK'
  BY Zenon, <1>1, <1>2, <1>3, <1>10 DEF TypeOK, SwitchPost
<1>12. NoDuplicates' /\ CountIsWaiters'
  BY Zenon, <1>1, <1>2, <1>3, <1>10 DEF NoDuplicates, CountIsWaiters, SwitchPost, IInv
<1>13. ChildrenAreAlive'
  BY <1>1, <1>2, <1>3 DEF ChildrenAreAlive
<1>14. BlockedHasReason'
  BY Zenon, <1>10 DEF BlockedHasReason, SwitchPost
<1>15. Creation'
  BY <1>3, <1>10 DEF Creation, SwitchPost, IInv
<1>. QED BY <1>10, <1>11, <1>12, <1>13, <1>14, <1>15 DEF IInv, SwitchPost

-----------------------------------------------------------------------------
(* The routines on semaphores; with those on threads, every step.          *)

(* A new semaphore has no waiters and no negative count.                   *)
LEMMA MySemaphoreInitIInv ==
  ASSUME IInv, NEW v \in -1 .. MaxCount, MySemaphoreInit(v)
  PROVE  IInv'
<1> USE MyThreadAssumption
<1>1. CASE v < 0
  <2>1. UNCHANGED vars
    BY <1>1 DEF MySemaphoreInit
  <2>2. UNCHANGED <<threadVars, semVars, switchVars>> /\ ret' \in {0, -1}
    BY <2>1 DEF vars, IInv, TypeOK
  <2>. QED BY <2>2, StutterIInv
<1>2. CASE v >= 0
  <2>1. PICK s \in Sems \ sems :
          /\ sems' = sems \cup {s}
          /\ count' = [count EXCEPT ![s] = v]
          /\ wait_queue' = [wait_queue EXCEPT ![s] = <<>>]
    BY <1>2 DEF MySemaphoreInit
  <2>2. UNCHANGED <<threadVars, switchVars, ret>>
    BY <1>2 DEF MySemaphoreInit
  <2>3. TypeOK'
    BY <2>1, <2>2, EmptyQueue DEF IInv, TypeOK, threadVars, switchVars
  <2>4. /\ wait_queue'[s] = <<>> /\ count'[s] = v
        /\ \A r \in sems : wait_queue'[r] = wait_queue[r] /\ count'[r] = count[r]
    BY <2>1 DEF IInv, TypeOK
  <2>5. Alive' = Alive /\ \A x : Asleep(x)' <=> Asleep(x)
    <3>1. Alive' = Alive
      BY <2>2 DEF Alive, threadVars
    <3>2. Range(wait_queue'[s]) = {}
      BY <2>4, EmptyQueue
    <3>3. \A x : Asleep(x)' <=> Asleep(x)
      BY <2>1, <2>4, <3>2 DEF Asleep
    <3>. QED BY <3>1, <3>3
  <2>6. NoDuplicates' /\ CountIsWaiters' /\ Creation'
    <3>1. NoDuplicates'
      BY <2>1, <2>2, <2>4, EmptyQueue DEF IInv, NoDuplicates, threadVars, switchVars
    <3>2. Len(wait_queue'[s]) = 0 /\ ~(count'[s] < 0)
      BY <1>2, <2>4, EmptyQueue
    <3>3. CountIsWaiters'
      BY <2>1, <2>4, <3>2 DEF IInv, CountIsWaiters
    <3>4. Creation'
      BY <2>1, <2>2, <2>4, Zenon DEF IInv, Creation, threadVars, switchVars
    <3>. QED BY <3>1, <3>3, <3>4
  <2>7. OnePlace'
    <3>1. Range(wait_queue'[s]) = {}
      BY <2>4, EmptyQueue
    <3>2. phase = "threads" =>
            \A q, r \in sems' : q # r => Range(wait_queue'[q]) \cap Range(wait_queue'[r]) = {}
      BY Zenon, <2>1, <2>4, <3>1 DEF IInv, OnePlace
    <3>. QED BY <2>2, <2>5, <3>2 DEF IInv, OnePlace, switchVars
  <2>8. ChildrenAreAlive' /\ BlockedHasReason' /\ ContextIsOwn'
    BY <2>2, <2>5
    DEF IInv, ChildrenAreAlive, BlockedHasReason, ContextIsOwn, threadVars, switchVars
  <2>. QED BY <2>3, <2>6, <2>7, <2>8 DEF IInv
<1>. QED BY <1>1, <1>2

(* What a signal does to a count i and the number l of sleepers.           *)
LEMMA SignalCount ==
  ASSUME NEW i \in Int, NEW j \in Int, j = i + 1,
         NEW l, l = IF i < 0 THEN -i ELSE 0
  PROVE  /\ j <= 0 => i < 0 /\ l # 0 /\ l - 1 = IF j < 0 THEN -j ELSE 0
         /\ ~(j <= 0) => l = IF j < 0 THEN -j ELSE 0
OBVIOUS

(* What a wait does to them.                                               *)
LEMMA WaitCount ==
  ASSUME NEW i \in Int, NEW j \in Int, j = i - 1,
         NEW l, l = IF i < 0 THEN -i ELSE 0
  PROVE  /\ j < 0 => l + 1 = IF j < 0 THEN -j ELSE 0
         /\ ~(j < 0) => l = IF j < 0 THEN -j ELSE 0
OBVIOUS

(* A step on one semaphore leaves the counts of the others alone.          *)
LEMMA CountStep ==
  ASSUME CountIsWaiters, NEW s \in Sems, sems \in SUBSET Sems, sems' = sems,
         \A r \in sems \ {s} : count'[r] = count[r] /\ wait_queue'[r] = wait_queue[r],
         Len(wait_queue'[s]) = IF count'[s] < 0 THEN -count'[s] ELSE 0
  PROVE  CountIsWaiters'
<1>1. ASSUME NEW r \in sems
      PROVE  Len(wait_queue'[r]) = IF count'[r] < 0 THEN -count'[r] ELSE 0
  BY DEF CountIsWaiters
<1>. QED BY <1>1 DEF CountIsWaiters

(* MySemaphoreSignal moves one sleeper to the ready queue exactly when     *)
(* there is one: CountIsWaiters is what keeps NULL off the ready queue.    *)
LEMMA MySemaphoreSignalIInv ==
  ASSUME IInv, NEW s \in Sems, MySemaphoreSignal(s)
  PROVE  IInv'
<1> USE MyThreadAssumption
<1>1. /\ phase = "threads" /\ s \in sems
      /\ TypeOK /\ OnePlace /\ NoDuplicates /\ CountIsWaiters
      /\ wait_queue[s] \in Seq(Threads) /\ IsInjective(wait_queue[s])
      /\ sems \in SUBSET Sems /\ count[s] \in Int /\ count'[s] = count[s] + 1 /\ count' \in [Sems -> Int]
      /\ \A r \in Sems \ {s} : count'[r] = count[r]
  <2>1. /\ phase = "threads" /\ s \in sems /\ count' = [count EXCEPT ![s] = @ + 1]
    BY DEF MySemaphoreSignal
  <2>2. /\ TypeOK /\ OnePlace /\ NoDuplicates /\ CountIsWaiters /\ ContextIsOwn
        /\ count \in [Sems -> Int] /\ sems \in SUBSET Sems
        /\ wait_queue \in [Sems -> Seq(Threads)]
    BY DEF IInv, TypeOK
  <2>3. IsInjective(wait_queue[s])
    BY <2>1, <2>2 DEF NoDuplicates
  <2>. QED BY <2>1, <2>2, <2>3
<1>2. UNCHANGED <<threadVars, sems, phase, current_thread, blocked_queue, ctx, running, ret>>
  BY DEF MySemaphoreSignal
<1>3. Alive' = Alive
  BY <1>2, Zenon DEF Alive, threadVars
<1>4. ChildrenAreAlive' /\ BlockedHasReason' /\ ContextIsOwn' /\ Creation'
  BY <1>1, <1>2, <1>3, Zenon
  DEF IInv, ChildrenAreAlive, BlockedHasReason, ContextIsOwn, Creation, threadVars
<1>5. /\ count[s] \in Int /\ count'[s] \in Int /\ count'[s] = count[s] + 1
      /\ Len(wait_queue[s]) = IF count[s] < 0 THEN -count[s] ELSE 0
  BY <1>1 DEF CountIsWaiters
<1>6. CASE Wakes(count'[s])
  <2> DEFINE h == Head(wait_queue[s])
             u == Tail(wait_queue[s])
  <2>1. wait_queue[s] # <<>>
    <3>1. Len(wait_queue[s]) # 0
      BY <1>6, <1>5, SignalCount DEF Wakes
    <3>. QED BY <3>1, EmptyQueue
  <2>2. /\ h \in Threads /\ h \in Range(wait_queue[s])
        /\ u \in Seq(Threads) /\ IsInjective(u) /\ Len(u) = Len(wait_queue[s]) - 1
        /\ Range(u) = Range(wait_queue[s]) \ {h}
    BY <1>1, <2>1, DequeueFacts
  <2>3. /\ wait_queue' = [wait_queue EXCEPT ![s] = u]
        /\ ready_queue' = Append(ready_queue, h)
    BY <1>6, <2>1, Zenon DEF MySemaphoreSignal, dequeue, dequeued, enqueue
  <2> HIDE DEF h, u
  <2>4. Asleep(h) /\ h \notin Range(ready_queue) /\ h \notin Range(blocked_queue)
        /\ h # current_thread /\ h \in Alive
    <3>1. Asleep(h)
      BY <1>1, <2>2 DEF Asleep
    <3>. QED BY <1>1, <2>2, <3>1 DEF OnePlace
  <2>5. /\ ready_queue' \in Seq(Threads) /\ IsInjective(ready_queue')
        /\ Range(ready_queue') = Range(ready_queue) \cup {h}
    <3>1. ready_queue \in Seq(Threads)
      BY <1>1 DEF TypeOK
    <3>2. IsInjective(ready_queue) /\ h \notin Range(ready_queue)
      BY <1>1, <2>4 DEF NoDuplicates
    <3>3. /\ Append(ready_queue, h) \in Seq(Threads)
          /\ Range(Append(ready_queue, h)) = Range(ready_queue) \cup {h}
          /\ IsInjective(ready_queue) /\ h \notin Range(ready_queue)
               => IsInjective(Append(ready_queue, h))
      BY <3>1, <2>2, EnqueueFacts
    <3>. QED BY <2>3, <3>2, <3>3
  <2>6. /\ wait_queue'[s] = u
        /\ \A r \in sems \ {s} : wait_queue'[r] = wait_queue[r]
        /\ wait_queue' \in [Sems -> Seq(Threads)]
    BY <1>1, <2>2, <2>3 DEF TypeOK
  <2>7. ASSUME NEW x PROVE Asleep(x)' <=> Asleep(x) /\ x # h
    <3>1. \A r \in sems \ {s} : h \notin Range(wait_queue[r])
      BY Zenon, <1>1, <2>2 DEF OnePlace
    <3>. QED BY Zenon, <1>1, <1>2, <2>2, <2>6, <3>1 DEF Asleep
  <2>8. TypeOK'
    BY <1>1, <1>2, <2>5, <2>6, Zenon DEF TypeOK, threadVars
  <2>9. NoDuplicates' /\ CountIsWaiters'
    <3>1. Len(wait_queue'[s]) = IF count'[s] < 0 THEN -count'[s] ELSE 0
      <4>1. Len(wait_queue'[s]) = Len(wait_queue[s]) - 1
        BY <2>2, <2>6
      <4>. QED BY <1>6, <1>5, <4>1, SignalCount DEF Wakes
    <3>2. CountIsWaiters'
      BY Zenon, <1>1, <1>2, <2>6, <3>1, CountStep
    <3>. QED BY <1>1, <1>2, <2>2, <2>5, <2>6, <3>2, Zenon DEF NoDuplicates, threadVars
  <2>10. OnePlace'
    <3>1. \A q, r \in sems : q # r => Range(wait_queue'[q]) \cap Range(wait_queue'[r]) = {}
      BY Zenon, <1>1, <2>2, <2>6 DEF OnePlace
    <3>2. \A x \in Threads :
            x \in Alive <=> \/ x = current_thread \/ x \in Range(ready_queue')
                           \/ x \in Range(blocked_queue) \/ Asleep(x)'
      BY <1>1, <2>4, <2>5, <2>7, Zenon DEF OnePlace
    <3>3. /\ \A x \in Range(ready_queue') :
               x # current_thread /\ x \notin Range(blocked_queue) /\ ~Asleep(x)'
          /\ \A x \in Range(blocked_queue) : x # current_thread /\ ~Asleep(x)'
          /\ current_thread \in Alive /\ ~Asleep(current_thread)'
      BY <1>1, <1>2, <2>4, <2>5, <2>7 DEF OnePlace
    <3>. QED BY <1>2, <1>3, <3>1, <3>2, <3>3 DEF OnePlace
  <2>. QED BY <1>4, <2>8, <2>9, <2>10 DEF IInv
<1>7. CASE ~Wakes(count'[s])
  <2>1. UNCHANGED <<wait_queue, ready_queue>>
    BY <1>7 DEF MySemaphoreSignal
  <2>2. \A x : Asleep(x)' <=> Asleep(x)
    BY <1>2, <2>1 DEF Asleep
  <2>3. TypeOK' /\ NoDuplicates'
    BY <1>1, <1>2, <2>1, Zenon DEF TypeOK, NoDuplicates, threadVars
  <2>4. CountIsWaiters'
    <3>1. Len(wait_queue'[s]) = IF count'[s] < 0 THEN -count'[s] ELSE 0
      BY <1>7, <1>5, <2>1, SignalCount DEF Wakes
    <3>. QED BY <1>1, <1>2, <2>1, <3>1, CountStep
  <2>5. OnePlace'
    BY Zenon, <1>1, <1>2, <1>3, <2>1, <2>2 DEF OnePlace
  <2>. QED BY <1>4, <2>3, <2>4, <2>5 DEF IInv
<1>. QED BY <1>6, <1>7

(* MySemaphoreWait either takes a unit or puts the caller on the wait      *)
(* queue and switches.                                                     *)
LEMMA MySemaphoreWaitIInv ==
  ASSUME IInv, NEW s \in Sems, MySemaphoreWait(s)
  PROVE  IInv'
<1> USE MyThreadAssumption
<1> DEFINE c == current_thread
<1>1. /\ phase = "threads" /\ s \in sems
      /\ TypeOK /\ OnePlace /\ NoDuplicates /\ CountIsWaiters /\ ContextIsOwn
      /\ wait_queue[s] \in Seq(Threads) /\ IsInjective(wait_queue[s])
      /\ sems \in SUBSET Sems /\ count[s] \in Int /\ count'[s] = count[s] - 1 /\ count' \in [Sems -> Int]
      /\ \A r \in Sems \ {s} : count'[r] = count[r]
  <2>1. /\ phase = "threads" /\ s \in sems /\ count' = [count EXCEPT ![s] = @ - 1]
    BY DEF MySemaphoreWait
  <2>2. /\ TypeOK /\ OnePlace /\ NoDuplicates /\ CountIsWaiters /\ ContextIsOwn
        /\ count \in [Sems -> Int] /\ sems \in SUBSET Sems
        /\ wait_queue \in [Sems -> Seq(Threads)]
    BY DEF IInv, TypeOK
  <2>3. IsInjective(wait_queue[s])
    BY <2>1, <2>2 DEF NoDuplicates
  <2>. QED BY <2>1, <2>2, <2>3
<1>2. UNCHANGED <<threadVars, sems, ret>> /\ Alive' = Alive /\ Alive \subseteq Threads
  BY <1>1 DEF MySemaphoreWait, Alive, threadVars, TypeOK
<1>3. ChildrenAreAlive'
  BY <1>2 DEF IInv, ChildrenAreAlive, threadVars
<1>4. /\ count[s] \in Int /\ count'[s] \in Int /\ count'[s] = count[s] - 1
      /\ Len(wait_queue[s]) = IF count[s] < 0 THEN -count[s] ELSE 0
  BY <1>1 DEF CountIsWaiters
<1>5. CASE Sleeps(count'[s])
  <2>1. /\ c \in Threads /\ c \in Alive /\ running = c
        /\ c \notin Range(ready_queue) /\ c \notin Range(blocked_queue) /\ ~Asleep(c)
        /\ c \notin Range(wait_queue[s]) /\ waiting_for[c] = NULL
    BY <1>1, CurrentFacts DEF OnePlace, Asleep
  <2> DEFINE w  == Append(wait_queue[s], c)
             cs == SavedIn(c)
  <2>2. /\ w \in Seq(Threads) /\ IsInjective(w) /\ Len(w) = Len(wait_queue[s]) + 1
        /\ Range(w) = Range(wait_queue[s]) \cup {c}
    <3> DEFINE q == wait_queue[s]
    <3>1. q \in Seq(Threads) /\ IsInjective(q) /\ c \in Threads /\ c \notin Range(q)
      BY <1>1, <2>1
    <3> HIDE DEF q, c
    <3>2. /\ Append(q, c) \in Seq(Threads) /\ IsInjective(Append(q, c))
          /\ Len(Append(q, c)) = Len(q) + 1
          /\ Range(Append(q, c)) = Range(q) \cup {c}
      BY <3>1, EnqueueFacts
    <3>. QED BY <3>2, Zenon DEF q
  <2>3. /\ wait_queue' = [wait_queue EXCEPT ![s] = w]
        /\ SwitchToNext(ready_queue, blocked_queue, cs)
    BY <1>5 DEF MySemaphoreWait, enqueue
  <2>4. /\ cs \in [Threads -> Threads \cup {NULL}]
        /\ \A x \in Threads : x \in Alive => cs[x] = x
    BY <1>1, <2>1 DEF SavedIn, TypeOK, ContextIsOwn
  <2> HIDE DEF c, w, cs
  <2>5. /\ wait_queue'[s] = w
        /\ \A r \in sems \ {s} : wait_queue'[r] = wait_queue[r]
        /\ wait_queue' \in [Sems -> Seq(Threads)]
    BY <1>1, <2>2, <2>3 DEF TypeOK
  <2>6. ASSUME NEW x PROVE Asleep(x)' <=> Asleep(x) \/ x = c
    BY Zenon, <1>1, <1>2, <2>2, <2>5 DEF Asleep
  <2>7. \A q, r \in sems' : q # r => Range(wait_queue'[q]) \cap Range(wait_queue'[r]) = {}
    <3>1. \A r \in sems : c \notin Range(wait_queue[r])
      BY <2>1 DEF Asleep
    <3>2. \A q, r \in sems : q # r => Range(wait_queue[q]) \cap Range(wait_queue[r]) = {}
      BY <1>1, Zenon DEF OnePlace
    <3>3. ASSUME NEW q \in sems, NEW r \in sems, q # r
          PROVE  Range(wait_queue'[q]) \cap Range(wait_queue'[r]) = {}
      <4>1. CASE q # s /\ r # s
        BY Zenon, <2>5, <3>2, <3>3, <4>1
      <4>2. CASE q = s
        <5>1. /\ Range(wait_queue'[q]) = Range(wait_queue[q]) \cup {c}
              /\ Range(wait_queue'[r]) = Range(wait_queue[r])
          BY <2>2, <2>5, <3>3, <4>2
        <5>2. c \notin Range(wait_queue[r]) /\ Range(wait_queue[q]) \cap Range(wait_queue[r]) = {}
          BY <3>1, <3>2, <3>3
        <5>. QED BY <5>1, <5>2
      <4>3. CASE r = s
        BY Zenon, <2>2, <2>5, <3>1, <3>2, <3>3, <4>3
      <4>. QED BY <4>1, <4>2, <4>3
    <3>. QED BY <1>2, <3>3
  <2>8. SwitchPre(ready_queue, blocked_queue, cs)
    <3>1. current_thread \in Threads /\ ready_queue \in Seq(Threads) /\ IsInjective(ready_queue)
          /\ blocked_queue \in Seq(Threads) /\ IsInjective(blocked_queue)
          /\ ctx \in [Threads -> Threads \cup {NULL}]
      BY Zenon, <1>1, <2>1 DEF TypeOK, NoDuplicates, c
    <3>2. \A x \in Threads : x \in Alive' <=> \/ x \in Range(ready_queue)
                                           \/ x \in Range(blocked_queue) \/ Asleep(x)'
      BY <1>1, <1>2, <2>1, <2>6, Zenon DEF OnePlace, c
    <3>3. /\ \A x \in Range(ready_queue) : x \notin Range(blocked_queue) /\ ~Asleep(x)'
          /\ \A x \in Range(blocked_queue) : ~Asleep(x)'
      BY <1>1, <2>1, <2>6 DEF OnePlace, c
    <3>. QED BY Zenon, <1>1, <1>2, <2>4, <2>7, <3>1, <3>2, <3>3 DEF SwitchPre
  <2>9. SwitchPost(blocked_queue)
    BY <2>3, <2>8, SwitchIInv
  <2>10. TypeOK'
    BY <1>1, <1>2, <2>5, <2>9, Zenon DEF TypeOK, SwitchPost, threadVars
  <2>11. CountIsWaiters'
    <3>1. Len(wait_queue'[s]) = IF count'[s] < 0 THEN -count'[s] ELSE 0
      <4>1. Len(wait_queue'[s]) = Len(wait_queue[s]) + 1
        BY <2>2, <2>5
      <4>. QED BY <1>5, <1>4, <4>1, WaitCount DEF Sleeps
    <3>. QED BY <1>1, <1>2, <2>5, <3>1, CountStep
  <2>12. NoDuplicates'
    BY Zenon, <1>1, <1>2, <2>2, <2>5, <2>9 DEF NoDuplicates, SwitchPost, threadVars
  <2>13. BlockedHasReason'
    BY <1>1, <1>2, <2>9 DEF BlockedHasReason, SwitchPost, threadVars, IInv
  <2>14. Creation'
    BY <1>2, <2>9 DEF Creation, SwitchPost, threadVars, IInv
  <2>. QED BY <1>3, <2>9, <2>10, <2>11, <2>12, <2>13, <2>14, Zenon DEF IInv, SwitchPost
<1>6. CASE ~Sleeps(count'[s])
  <2>1. UNCHANGED <<wait_queue, switchVars>>
    BY <1>6 DEF MySemaphoreWait
  <2>2. \A x : Asleep(x)' <=> Asleep(x)
    BY <1>2, <2>1 DEF Asleep
  <2>3. TypeOK' /\ NoDuplicates'
    BY <1>1, <1>2, <2>1, Zenon DEF TypeOK, NoDuplicates, threadVars, switchVars
  <2>4. CountIsWaiters'
    <3>1. Len(wait_queue'[s]) = IF count'[s] < 0 THEN -count'[s] ELSE 0
      BY <1>6, <1>4, <2>1, WaitCount DEF Sleeps
    <3>. QED BY <1>1, <1>2, <2>1, <3>1, CountStep
  <2>5. OnePlace'
    BY Zenon, <1>1, <1>2, <2>1, <2>2 DEF OnePlace, switchVars
  <2>6. BlockedHasReason' /\ ContextIsOwn' /\ Creation'
    BY <1>1, <1>2, <2>1, Zenon
    DEF IInv, BlockedHasReason, ContextIsOwn, Creation, threadVars, switchVars
  <2>. QED BY <1>3, <2>3, <2>4, <2>5, <2>6 DEF IInv
<1>. QED BY <1>5, <1>6

(* Only a semaphore that nobody sleeps on is destroyed.                    *)
LEMMA MySemaphoreDestroyIInv ==
  ASSUME IInv, NEW s \in Sems, MySemaphoreDestroy(s)
  PROVE  IInv'
<1>1. /\ sems' \subseteq sems
      /\ \A r \in sems \ sems' : wait_queue[r] = <<>>
      /\ UNCHANGED <<threadVars, switchVars, count, wait_queue, ret>>
  BY DEF MySemaphoreDestroy
<1>2. Alive' = Alive /\ \A x : Asleep(x)' <=> Asleep(x)
  BY <1>1, EmptyQueue, Zenon DEF Alive, Asleep, threadVars
<1>3. TypeOK' /\ NoDuplicates' /\ CountIsWaiters' /\ Creation'
  BY <1>1 DEF IInv, TypeOK, NoDuplicates, CountIsWaiters, Creation, threadVars, switchVars
<1>4. OnePlace'
  BY Zenon, <1>1, <1>2 DEF IInv, OnePlace, switchVars
<1>5. ChildrenAreAlive' /\ BlockedHasReason' /\ ContextIsOwn'
  BY <1>1, <1>2, Zenon
  DEF IInv, ChildrenAreAlive, BlockedHasReason, ContextIsOwn, threadVars, switchVars
<1>. QED BY <1>3, <1>4, <1>5 DEF IInv

(* IInv is inductive.                                                      *)
LEMMA NextIInv == IInv /\ [Next]_vars => IInv'
<1> SUFFICES ASSUME IInv, [Next]_vars PROVE IInv'
  OBVIOUS
<1>1. CASE UNCHANGED vars
  BY <1>1, StutterIInv, Zenon DEF vars, IInv, TypeOK
<1>2. ASSUME NEW t \in Threads, MyThreadInit(t) PROVE IInv'
  BY <1>2, MyThreadInitIInv
<1>3. ASSUME NEW t \in Threads, MyThreadCreate(t) PROVE IInv'
  BY <1>3, MyThreadCreateIInv
<1>4. CASE MyThreadYield
  BY <1>4, MyThreadYieldIInv, Zenon
<1>5. ASSUME NEW t \in made, MyThreadJoin(t) PROVE IInv'
  BY <1>5, MyThreadJoinIInv DEF IInv, TypeOK
<1>6. CASE MyThreadJoinAll
  BY <1>6, MyThreadJoinAllIInv
<1>7. CASE MyThreadExit
  BY <1>7, MyThreadExitIInv
<1>8. ASSUME NEW v \in -1 .. MaxCount, MySemaphoreInit(v) PROVE IInv'
  BY <1>8, MySemaphoreInitIInv
<1>9. ASSUME NEW s \in Sems, MySemaphoreSignal(s) PROVE IInv'
  BY <1>9, MySemaphoreSignalIInv
<1>10. ASSUME NEW s \in Sems, MySemaphoreWait(s) PROVE IInv'
  BY <1>10, MySemaphoreWaitIInv
<1>11. ASSUME NEW s \in Sems, MySemaphoreDestroy(s) PROVE IInv'
  BY <1>11, MySemaphoreDestroyIInv
<1>. QED
  BY <1>1, <1>2, <1>3, <1>4, <1>5, <1>6, <1>7, <1>8, <1>9, <1>10, <1>11 DEF Next

(* The inductive invariant holds in every reachable state.                 *)
THEOREM Invariance == Spec => []IInv
BY InitIInv, NextIInv, PTL DEF Spec

-----------------------------------------------------------------------------
(* What the library guarantees.                                            *)

(* Every variable has its type; in particular no queue ever holds NULL,    *)
(* although MySemaphoreSignal enqueues whatever dequeue returns.           *)
THEOREM TypeCorrectness == Spec => []TypeOK
<1>1. IInv => TypeOK
  BY DEF IInv
<1>. QED BY <1>1, Invariance, PTL

(* remove_node is only ever called on a list without duplicates.           *)
THEOREM QueuesHaveNoDuplicates == Spec => []NoDuplicates
<1>1. IInv => NoDuplicates
  BY DEF IInv
<1>. QED BY <1>1, Invariance, PTL

(* No thread is lost and none is scheduled twice: each living thread is    *)
(* current, ready, blocked or asleep on one semaphore, and only one.       *)
THEOREM EveryThreadInOnePlace == Spec => []OnePlace
<1>1. IInv => OnePlace
  BY DEF IInv
<1>. QED BY <1>1, Invariance, PTL

(* The children lists, which MyThreadJoin and MyThreadExit consult, hold   *)
(* exactly the living children.                                            *)
THEOREM ChildrenListsAreExact == Spec => []ChildrenAreAlive
<1>1. IInv => ChildrenAreAlive
  BY DEF IInv
<1>. QED BY <1>1, Invariance, PTL

(* MyThreadExit loses no wake-up: a blocked thread still has a living      *)
(* child to wait for.                                                      *)
THEOREM NoLostWakeup == Spec => []BlockedHasReason
<1>1. IInv => BlockedHasReason
  BY DEF IInv
<1>. QED BY <1>1, Invariance, PTL

(* A negative semaphore count is the number of sleepers.                   *)
THEOREM SemaphoreAccounting == Spec => []CountIsWaiters
<1>1. IInv => CountIsWaiters
  BY DEF IInv
<1>. QED BY <1>1, Invariance, PTL

(* swapcontext never saves one thread over another, nor resumes one twice. *)
THEOREM ContextsAreOwn == Spec => []ContextIsOwn
<1>1. IInv => ContextIsOwn
  BY DEF IInv
<1>. QED BY <1>1, Invariance, PTL

-----------------------------------------------------------------------------
(* A join returns only when what it waits for has exited.                  *)

(* A context switch takes no thread off the blocked queue it is given.     *)
LEMMA SwitchKeepsBlocked ==
  ASSUME NEW rq, NEW bq, NEW cs, SwitchToNext(rq, bq, cs), phase' = "threads"
  PROVE  blocked_queue' = bq
BY Zenon DEF SwitchToNext

(* MyThreadExit takes only the parent off the blocked queue, when the      *)
(* exiting thread is the joined one or the last child.                     *)
LEMMA ExitJoinWaits ==
  ASSUME IInv, MyThreadExit
  PROVE  JoinWaitsStep
<1> SUFFICES ASSUME phase' = "threads",
                    NEW t \in Range(blocked_queue) \ Range(blocked_queue')
             PROVE  IF waiting_for[t] # NULL THEN waiting_for[t] \in exited'
                    ELSE {x \in made : parent[x] = t} \subseteq exited'
  BY Zenon DEF JoinWaitsStep
<1> DEFINE c == current_thread
           p == parent[c]
<1>1. /\ phase = "threads" /\ c \in Alive /\ exited' = exited \cup {c}
      /\ t \in Threads /\ children' = ChildrenWithout(p, c)
  <2>1. phase = "threads" /\ exited' = exited \cup {c} /\ children' = ChildrenWithout(p, c)
    BY Zenon DEF MyThreadExit
  <2>2. c \in Alive
    BY <2>1, CurrentFacts, Zenon
  <2>3. blocked_queue \in Seq(Threads)
    BY DEF IInv, TypeOK
  <2>4. Range(blocked_queue) \subseteq Threads
    BY <2>3, RangeInSet
  <2>. QED BY <2>1, <2>2, <2>4, Zenon
<1>2. /\ Unblocks(p, c)
      /\ blocked_queue' = RemoveFirst(blocked_queue, p)
  <2>1. CASE Unblocks(p, c)
    <3>1. SwitchToNext(enqueue(ready_queue, p), remove_node(blocked_queue, p), ctx)
      BY <2>1 DEF MyThreadExit
    <3>. QED BY <2>1, <3>1, SwitchKeepsBlocked DEF remove_node
  <2>2. CASE ~Unblocks(p, c)
    <3>1. SwitchToNext(ready_queue, blocked_queue, ctx)
      BY <2>2 DEF MyThreadExit
    <3>. QED BY <3>1, SwitchKeepsBlocked
  <2>. QED BY <2>1, <2>2
<1>3. t = p
  <2>1. blocked_queue \in Seq(Threads) /\ IsInjective(blocked_queue)
    BY DEF IInv, TypeOK, NoDuplicates
  <2>2. p \in Range(blocked_queue)
    BY <1>2, <2>1, ContainsIsMember DEF Unblocks
  <2>3. Range(blocked_queue') = Range(blocked_queue) \ {p}
    BY <1>2, <2>1, <2>2, RemoveFacts
  <2>. QED BY <2>3
<1>4. /\ children'[t] = <<>> \/ waiting_for[t] = c
      /\ Range(children'[t]) = Range(children[t]) \ {c}
      /\ Range(children[t]) = {x \in Alive : parent[x] = t}
      /\ waiting_for[t] # NULL => waiting_for[t] \in Range(children[t])
      /\ \A x \in made : x \in Alive \/ x \in exited
      /\ waiting_for[t] = c => waiting_for[t] # NULL
  BY Zenon, <1>1, <1>2, <1>3, ChildrenWithoutFacts, CurrentFacts
  DEF Unblocks, IInv, ChildrenAreAlive, BlockedHasReason, Alive
<1>5. children'[t] = <<>> => Range(children[t]) \subseteq {c}
  BY <1>4, EmptyQueue
<1> HIDE DEF c, p
<1>. QED BY <1>1, <1>4, <1>5

(* MyThreadJoin and MyThreadJoinAll really wait: a thread leaves the       *)
(* blocked queue only when the joined child, or every child, has exited.   *)
THEOREM JoinReallyWaits == Spec => JoinWaits
<1>1. ASSUME IInv, [Next]_vars PROVE JoinWaitsStep
  <2>1. CASE MyThreadExit
    BY <1>1, <2>1, ExitJoinWaits, Zenon
  <2>2. ASSUME phase' = "threads" => Range(blocked_queue) \subseteq Range(blocked_queue')
        PROVE  JoinWaitsStep
    BY <2>2 DEF JoinWaitsStep
  <2>3. CASE UNCHANGED blocked_queue
    BY <2>2, <2>3, Zenon
  <2>4. CASE \E t \in Threads : MyThreadInit(t)
    BY <2>4 DEF JoinWaitsStep, MyThreadInit
  <2>5. CASE MyThreadYield
    BY <2>2, <2>5, SwitchKeepsBlocked DEF MyThreadYield
  <2>6. ASSUME phase = "threads", NEW cs,
               SwitchToNext(ready_queue, enqueue(blocked_queue, current_thread), cs)
        PROVE  JoinWaitsStep
    <3>1. phase' = "threads" => blocked_queue' = Append(blocked_queue, current_thread)
      BY Zenon, <2>6, SwitchKeepsBlocked DEF enqueue
    <3>2. Range(blocked_queue) \subseteq Range(Append(blocked_queue, current_thread))
      BY <1>1, <2>6, CurrentFacts, EnqueueFacts DEF IInv, TypeOK
    <3>. QED BY Zenon, <2>2, <3>1, <3>2
  <2>7. CASE MyThreadJoinAll
    BY <2>3, <2>6, <2>7 DEF MyThreadJoinAll, switchVars
  <2>8. CASE \E t \in made : MyThreadJoin(t)
    BY <2>3, <2>6, <2>8 DEF MyThreadJoin, switchVars
  <2>9. CASE \E s \in Sems : MySemaphoreWait(s)
    BY <2>2, <2>3, <2>9, SwitchKeepsBlocked DEF MySemaphoreWait, switchVars
  <2>. QED
    BY <1>1, <2>1, <2>3, <2>4, <2>5, <2>7, <2>8, <2>9
    DEF Next, MyThreadCreate, MySemaphoreInit, MySemaphoreSignal, MySemaphoreDestroy,
        vars, switchVars
<1>2. IInv /\ [Next]_vars => [JoinWaitsStep]_vars
  BY <1>1
<1>. QED BY <1>2, Invariance, PTL DEF Spec, JoinWaits

-----------------------------------------------------------------------------
(* The order of the ready queue.                                           *)

(* The order of a queue, by its indices.                                   *)
LEMMA AheadByIndex ==
  ASSUME NEW S, NEW q \in Seq(S), NEW t, NEW u
  PROVE  u \in Ahead(q, t) <=> \E j, k \in 1 .. Len(q) : j < k /\ q[j] = u /\ q[k] = t
BY DEF Ahead

(* enqueue puts a thread behind all the others.                            *)
LEMMA EnqueueKeepsOrder ==
  ASSUME NEW S, NEW q \in Seq(S), NEW e \in S, e \notin Range(q)
  PROVE  KeepsOrder(q, Append(q, e))
<1> DEFINE r == Append(q, e)
<1>1. /\ r \in Seq(S) /\ Len(r) = Len(q) + 1 /\ Len(q) \in Nat
      /\ \A i \in 1 .. Len(q) : r[i] = q[i]
      /\ r[Len(q) + 1] = e
  OBVIOUS
<1>2. \A i \in 1 .. Len(q) : q[i] \in Range(q)
  BY DEF Range
<1> HIDE DEF r
<1>3. ASSUME NEW t \in Range(q), NEW u, u \in Ahead(r, t) PROVE u \in Ahead(q, t)
  <2>1. PICK j \in 1 .. Len(r), k \in 1 .. Len(r) : j < k /\ r[j] = u /\ r[k] = t
    BY <1>1, <1>3, AheadByIndex
  <2>2. k \in 1 .. Len(q) /\ j \in 1 .. Len(q)
    BY <1>1, <1>2, <2>1
  <2>3. q[j] = u /\ q[k] = t
    BY <1>1, <2>1, <2>2, Zenon
  <2>. QED BY <2>1, <2>2, <2>3, AheadByIndex, Zenon
<1>4. ASSUME NEW t, NEW u, t \in Ahead(q, u) PROVE t \in Ahead(r, u)
  <2>1. PICK j \in 1 .. Len(q), k \in 1 .. Len(q) : j < k /\ q[j] = t /\ q[k] = u
    BY <1>4, AheadByIndex
  <2>2. j \in 1 .. Len(r) /\ k \in 1 .. Len(r) /\ r[j] = t /\ r[k] = u
    BY <1>1, <2>1
  <2>. QED BY <1>1, <2>1, <2>2, AheadByIndex
<1>. QED BY <1>3, <1>4 DEF KeepsOrder, r

(* dequeue takes the first thread away and leaves the others in order.     *)
LEMMA DequeueKeepsOrder ==
  ASSUME NEW S, NEW q \in Seq(S), q # <<>>, IsInjective(q)
  PROVE  KeepsOrder(q, Tail(q))
<1> DEFINE r == Tail(q)
<1>1. /\ r \in Seq(S) /\ Len(r) = Len(q) - 1 /\ Len(q) \in Nat \ {0}
      /\ \A i \in 1 .. Len(r) : r[i] = q[i + 1]
  BY HeadTailProperties
<1>2. q[1] \notin Range(r)
  BY DequeueFacts
<1> HIDE DEF r
<1>3. ASSUME NEW t, NEW u, u \in Ahead(r, t) PROVE u \in Ahead(q, t)
  <2>1. PICK j \in 1 .. Len(r), k \in 1 .. Len(r) : j < k /\ r[j] = u /\ r[k] = t
    BY <1>1, <1>3, AheadByIndex
  <2>2. /\ j + 1 \in 1 .. Len(q) /\ k + 1 \in 1 .. Len(q) /\ j + 1 < k + 1
        /\ q[j + 1] = u /\ q[k + 1] = t
    BY <1>1, <2>1
  <2>. QED BY <2>2, AheadByIndex
<1>4. ASSUME NEW t \in Range(r), NEW u, t \in Ahead(q, u) PROVE t \in Ahead(r, u)
  <2>1. PICK j \in 1 .. Len(q), k \in 1 .. Len(q) : j < k /\ q[j] = t /\ q[k] = u
    BY <1>4, AheadByIndex
  <2>2. j # 1
    BY <1>2, <2>1
  <2>3. /\ j - 1 \in 1 .. Len(r) /\ k - 1 \in 1 .. Len(r) /\ j - 1 < k - 1
        /\ (j - 1) + 1 = j /\ (k - 1) + 1 = k
    BY <1>1, <2>1, <2>2
  <2>4. r[j - 1] = t /\ r[k - 1] = u
    BY <1>1, <2>1, <2>3
  <2>. QED BY <1>1, <2>3, <2>4, AheadByIndex
<1>. QED BY <1>3, <1>4 DEF KeepsOrder, r

(* One after the other, with nothing taken away by the first.              *)
LEMMA KeepsOrderTransitive ==
  ASSUME NEW q, NEW r, NEW s, KeepsOrder(q, r), KeepsOrder(r, s),
         Range(q) \subseteq Range(r)
  PROVE  KeepsOrder(q, s)
BY Zenon DEF KeepsOrder

(* A context switch takes the first thread of the queue it is given.       *)
LEMMA SwitchKeepsOrder ==
  ASSUME NEW rq \in Seq(Threads), IsInjective(rq), NEW bq, NEW cs,
         SwitchToNext(rq, bq, cs), phase' = "threads", phase = "threads"
  PROVE  KeepsOrder(rq, ready_queue')
<1>1. rq # <<>> /\ ready_queue' = Tail(rq)
  BY DEF SwitchToNext, dequeued, dequeue
<1>. QED BY <1>1, DequeueKeepsOrder

(* The same when a thread was put on the queue before it.                  *)
LEMMA EnqueueAndSwitchKeepsOrder ==
  ASSUME NEW rq \in Seq(Threads), IsInjective(rq), NEW e \in Threads, e \notin Range(rq),
         NEW bq, NEW cs, SwitchToNext(enqueue(rq, e), bq, cs),
         phase' = "threads", phase = "threads"
  PROVE  KeepsOrder(rq, ready_queue')
<1>1. /\ Append(rq, e) \in Seq(Threads) /\ IsInjective(Append(rq, e))
      /\ Range(rq) \subseteq Range(Append(rq, e))
  BY EnqueueFacts
<1>2. KeepsOrder(rq, Append(rq, e))
  BY EnqueueKeepsOrder
<1>3. KeepsOrder(Append(rq, e), ready_queue')
  BY <1>1, SwitchKeepsOrder, Zenon DEF enqueue
<1>. QED BY Zenon, <1>1, <1>2, <1>3, KeepsOrderTransitive

(* A signal that wakes somebody finds a sleeper.                           *)
LEMMA SignalTakesSleeper ==
  ASSUME IInv, NEW s \in Sems, MySemaphoreSignal(s), Wakes(count'[s])
  PROVE  /\ s \in sems /\ phase = "threads" /\ count[s] < 0
         /\ wait_queue[s] \in Seq(Threads) /\ IsInjective(wait_queue[s])
         /\ wait_queue[s] # <<>>
<1>1. /\ s \in sems /\ phase = "threads"
      /\ count' = [count EXCEPT ![s] = @ + 1] /\ count \in [Sems -> Int]
      /\ wait_queue[s] \in Seq(Threads) /\ IsInjective(wait_queue[s])
      /\ Len(wait_queue[s]) = IF count[s] < 0 THEN -count[s] ELSE 0
  BY DEF MySemaphoreSignal, IInv, TypeOK, NoDuplicates, CountIsWaiters
<1>2. count[s] \in Int /\ count'[s] \in Int /\ count'[s] = count[s] + 1
  BY <1>1
<1>3. count[s] < 0 /\ Len(wait_queue[s]) # 0
  BY <1>1, <1>2, SignalCount DEF Wakes
<1>. QED BY <1>1, <1>3, EmptyQueue, Zenon

(* No routine lets a thread overtake another on the ready queue.           *)
LEMMA StepKeepsOrder ==
  ASSUME IInv, [Next]_vars, phase' = "threads"
  PROVE  KeepsOrder(ready_queue, ready_queue')
<1>1. /\ ready_queue \in Seq(Threads) /\ IsInjective(ready_queue)
      /\ phase = "threads" => /\ current_thread \in Threads
                              /\ current_thread \notin Range(ready_queue)
  BY CurrentFacts DEF IInv, TypeOK, NoDuplicates
<1>2. CASE UNCHANGED ready_queue
  BY Zenon, <1>2 DEF KeepsOrder
<1>3. ASSUME NEW e \in Threads, e \notin Range(ready_queue),
             ready_queue' = enqueue(ready_queue, e)
      PROVE  KeepsOrder(ready_queue, ready_queue')
  BY <1>1, <1>3, EnqueueKeepsOrder DEF enqueue
<1>4. ASSUME phase = "threads", NEW bq, NEW cs, SwitchToNext(ready_queue, bq, cs)
      PROVE  KeepsOrder(ready_queue, ready_queue')
  BY <1>1, <1>4, SwitchKeepsOrder
<1>5. ASSUME phase = "threads", NEW e \in Threads, e \notin Range(ready_queue),
             NEW bq, NEW cs, SwitchToNext(enqueue(ready_queue, e), bq, cs)
      PROVE  KeepsOrder(ready_queue, ready_queue')
  BY <1>1, <1>5, EnqueueAndSwitchKeepsOrder
<1>6. CASE \E t \in Threads : MyThreadInit(t)
  <2>1. Range(ready_queue') = {}
    BY <1>6, EmptyQueue DEF MyThreadInit
  <2>. QED BY <2>1 DEF KeepsOrder
<1>7. ASSUME NEW t \in Threads, MyThreadCreate(t)
      PROVE  KeepsOrder(ready_queue, ready_queue')
  <2>1. t \notin Range(ready_queue)
    BY <1>7 DEF MyThreadCreate, make_thread, IInv, OnePlace, Alive
  <2>. QED BY <1>3, <1>7, <2>1, Zenon DEF MyThreadCreate
<1>8. CASE MyThreadYield
  BY <1>1, <1>5, <1>8, SMTT(20) DEF MyThreadYield
<1>9. CASE MyThreadJoinAll \/ \E t \in made : MyThreadJoin(t)
  BY <1>2, <1>4, <1>9, Zenon DEF MyThreadJoinAll, MyThreadJoin, switchVars
<1>10. CASE MyThreadExit
  <2>1. CASE Unblocks(parent[current_thread], current_thread)
    <3> DEFINE p == parent[current_thread]
    <3>1. phase = "threads" /\ SwitchToNext(enqueue(ready_queue, p), remove_node(blocked_queue, p), ctx)
      BY <1>10, <2>1, Zenon DEF MyThreadExit
    <3>2. p \in Range(blocked_queue) /\ blocked_queue \in Seq(Threads)
      BY <2>1, ContainsIsMember, Zenon DEF Unblocks, IInv, TypeOK
    <3>3. p \in Threads /\ p \notin Range(ready_queue)
      BY <3>1, <3>2, RangeInSet, Zenon DEF IInv, OnePlace
    <3> HIDE DEF p
    <3>. QED BY <1>5, <3>1, <3>3
  <2>2. CASE ~Unblocks(parent[current_thread], current_thread)
    BY <1>4, <1>10, <2>2 DEF MyThreadExit
  <2>. QED BY <2>1, <2>2
<1>11. ASSUME NEW s \in Sems, MySemaphoreSignal(s)
       PROVE  KeepsOrder(ready_queue, ready_queue')
  <2>1. CASE Wakes(count'[s])
    <3>1. /\ s \in sems /\ phase = "threads" /\ wait_queue[s] # <<>>
          /\ wait_queue[s] \in Seq(Threads) /\ IsInjective(wait_queue[s])
      BY <1>11, <2>1, SignalTakesSleeper
    <3>2. /\ Head(wait_queue[s]) \in Threads
          /\ Head(wait_queue[s]) \in Range(wait_queue[s])
      BY <3>1, DequeueFacts, Zenon
    <3>3. Head(wait_queue[s]) \notin Range(ready_queue)
      BY <3>1, <3>2, Zenon DEF IInv, OnePlace, Asleep
    <3>4. ready_queue' = enqueue(ready_queue, Head(wait_queue[s]))
      BY <1>11, <2>1, <3>1 DEF MySemaphoreSignal, dequeued
    <3>. QED BY <1>3, <3>2, <3>3, <3>4
  <2>2. CASE ~Wakes(count'[s])
    BY <1>2, <1>11, <2>2 DEF MySemaphoreSignal
  <2>. QED BY <2>1, <2>2
<1>12. ASSUME NEW s \in Sems, MySemaphoreWait(s)
       PROVE  KeepsOrder(ready_queue, ready_queue')
  BY <1>2, <1>4, <1>12, Zenon DEF MySemaphoreWait, switchVars
<1>13. CASE \/ \E v \in -1 .. MaxCount : MySemaphoreInit(v)
            \/ \E s \in Sems : MySemaphoreDestroy(s)
            \/ UNCHANGED vars
  BY <1>2, <1>13 DEF MySemaphoreInit, MySemaphoreDestroy, vars, switchVars
<1>. QED BY <1>6, <1>7, <1>8, <1>9, <1>10, <1>11, <1>12, <1>13, Zenon DEF Next

(* Threads get the processor in the order in which they became ready.      *)
THEOREM ReadyQueueIsFifo == Spec => NoOvertaking
<1>1. IInv /\ [Next]_vars
        => [phase' = "threads" => KeepsOrder(ready_queue, ready_queue')]_vars
  BY StepKeepsOrder
<1>. QED BY <1>1, Invariance, PTL DEF Spec, NoOvertaking

-----------------------------------------------------------------------------
(* The interface.                                                          *)

(* A thread waits for somebody exactly when it is on the blocked queue.    *)
LEMMA AwaitingMeansBlocked ==
  IInv /\ phase = "threads" =>
    \A t \in Threads : Awaiting[t] = {} <=> t \notin Range(blocked_queue)
<1> SUFFICES ASSUME IInv, phase = "threads", NEW t \in Threads
             PROVE  Awaiting[t] = {} <=> t \notin Range(blocked_queue)
  OBVIOUS
<1>1. CASE t \notin Range(blocked_queue)
  BY <1>1 DEF Awaiting
<1>2. CASE t \in Range(blocked_queue)
  <2>1. children[t] \in Seq(Threads) /\ children[t] # <<>>
    BY <1>2, Zenon DEF IInv, TypeOK, BlockedHasReason
  <2>2. Range(children[t]) # {}
    BY <2>1, EmptyRange
  <2>. QED BY <1>2, <2>2, Zenon DEF Awaiting
<1>. QED BY <1>1, <1>2

(* The thread that has the processor after a step is one that could run.   *)
LEMMA RunnerIsRunnable ==
  ASSUME IInv', phase' = "threads", sems' = sems
  PROVE  Runner' \in Api!Runnable(Alive', Awaiting', Sleepers')
<1>1. /\ current_thread' \in Threads /\ current_thread' \in Alive'
      /\ current_thread' \notin Range(blocked_queue') /\ ~Asleep(current_thread)'
  BY Zenon DEF IInv, OnePlace, TypeOK, Alive
<1>2. Awaiting'[current_thread'] = {}
  <2>1. (IInv /\ phase = "threads" =>
           \A t \in Threads : Awaiting[t] = {} <=> t \notin Range(blocked_queue))'
    BY AwaitingMeansBlocked, PTL
  <2>. QED BY <1>1, <2>1
<1>3. \A s \in sems : current_thread' \notin Sleepers'[s]
  BY <1>1 DEF Asleep, Sleepers, IInv, TypeOK
<1>. QED BY <1>1, <1>2, <1>3, Zenon DEF Api!Runnable, Runner

(* A context switch is what the interface calls Schedule, provided nobody  *)
(* can run when the queue rq is empty.                                     *)
LEMMA SwitchSchedules ==
  ASSUME IInv, IInv', phase = "threads", sems' = sems,
         NEW rq \in Seq(Threads), NEW bq, NEW cs, SwitchToNext(rq, bq, cs),
         NEW aw, phase' = "threads" => Awaiting' = aw,
         rq = <<>> => Api!Runnable(Alive', aw, Sleepers') = {}
  PROVE  Api!Schedule(Alive', aw, Sleepers')
<1>1. CASE phase' = "threads"
  BY <1>1, RunnerIsRunnable DEF Api!Schedule
<1>2. CASE phase' # "threads"
  <2>1. rq = <<>> /\ phase' = "done" /\ blocked_queue' = <<>>
    <3>1. dequeued(rq) = NULL
      BY <1>2 DEF SwitchToNext
    <3>2. rq = <<>>
      BY <3>1, MyThreadAssumption DEF dequeued
    <3>. QED BY <3>1, <3>2, <1>2 DEF SwitchToNext
  <2>2. Awaiting' = [t \in Threads |-> {}]
    BY <2>1, EmptyQueue DEF Awaiting
  <2>3. Runner' = NULL
    BY <2>1 DEF Runner
  <2>. QED BY <2>1, <2>2, <2>3, Zenon DEF Api!Schedule
<1>. QED BY <1>1, <1>2

(* Nothing exists at the start.                                            *)
LEMMA InitApi == Init => Api!Init
BY EmptyQueue, Zenon DEF Init, Api!Init, Runner, Awaiting, Units, Sleepers, Alive

(* A step that leaves the library's variables alone, whatever it does to   *)
(* the value of MyThreadJoin, is none for the client.                      *)
LEMMA StutterApi ==
  ASSUME UNCHANGED <<threadVars, semVars, switchVars>>
  PROVE  UNCHANGED Api!vars
BY DEF threadVars, semVars, switchVars, Api!vars, Runner, Awaiting, Units, Sleepers, Alive

(* MyThreadInit starts the main thread.                                    *)
LEMMA MyThreadInitApi ==
  ASSUME IInv, NEW t \in Threads, MyThreadInit(t)
  PROVE  Api!Start(t)
<1>1. /\ phase = "process" /\ made = {} /\ exited = {} /\ blocked_queue = <<>>
      /\ parent \in [Threads -> Threads \cup {NULL}] /\ parent[t] = NULL
  BY DEF MyThreadInit, IInv, TypeOK, Creation
<1>2. /\ phase' = "threads" /\ current_thread' = t /\ made' = {t} /\ exited' = {}
      /\ blocked_queue' = <<>> /\ parent' = [parent EXCEPT ![t] = NULL]
      /\ sems' = sems /\ count' = count /\ wait_queue' = wait_queue
  BY <1>1 DEF MyThreadInit, make_thread, semVars
<1>3. parent' = parent /\ Runner' = t /\ Alive' = {t}
  BY <1>1, <1>2, Zenon DEF Runner, Alive
<1>4. Awaiting' = Awaiting
  BY <1>1, <1>2, EmptyQueue, Zenon DEF Awaiting
<1>5. Units' = Units /\ Sleepers' = Sleepers
  BY <1>2 DEF Units, Sleepers
<1>. QED BY <1>1, <1>2, <1>3, <1>4, <1>5, Zenon DEF Api!Start, Api!semVars

(* MyThreadCreate adds a thread that waits for nobody.                     *)
LEMMA MyThreadCreateApi ==
  ASSUME IInv, NEW t \in Threads, MyThreadCreate(t)
  PROVE  Api!Spawn(t)
<1> DEFINE c == current_thread
<1>1. /\ phase = "threads" /\ t \notin made /\ TypeOK /\ c \in Threads
      /\ c \notin Range(blocked_queue) /\ t \notin Range(blocked_queue)
  <2>1. phase = "threads" /\ t \notin made
    BY Zenon DEF MyThreadCreate, make_thread
  <2>. QED BY <2>1, CurrentFacts, Zenon DEF IInv, OnePlace, Alive
<1>2. /\ phase' = phase /\ current_thread' = c /\ made' = made \cup {t} /\ exited' = exited
      /\ blocked_queue' = blocked_queue /\ parent' = [parent EXCEPT ![t] = c]
      /\ waiting_for' = [waiting_for EXCEPT ![t] = NULL]
      /\ children' = [children EXCEPT ![c] = enqueue(@, t), ![t] = <<>>]
      /\ sems' = sems /\ count' = count /\ wait_queue' = wait_queue
  BY Zenon DEF MyThreadCreate, make_thread, semVars
<1>3. Runner = c /\ Runner' = c /\ Alive' = Alive \cup {t}
  BY <1>1, <1>2, Zenon DEF Runner, Alive, TypeOK
<1>4. Awaiting' = Awaiting
  <2>1. \A x \in Threads : x \in Range(blocked_queue) =>
          waiting_for'[x] = waiting_for[x] /\ children'[x] = children[x]
    BY <1>1, <1>2 DEF TypeOK
  <2>2. ASSUME NEW x \in Threads PROVE Awaiting'[x] = Awaiting[x]
    <3>1. CASE x \notin Range(blocked_queue)
      BY <1>2, <3>1, Zenon DEF Awaiting
    <3>2. CASE x \in Range(blocked_queue)
      <4>1. /\ waiting_for'[x] = waiting_for[x] /\ children'[x] = children[x]
            /\ blocked_queue' = blocked_queue
        BY <1>2, <2>1, <3>2, Zenon
      <4>. QED BY <4>1 DEF Awaiting
    <3>. QED BY <3>1, <3>2
  <2>. QED BY <2>2, Zenon DEF Awaiting
<1>5. Units' = Units /\ Sleepers' = Sleepers
  BY <1>2, Zenon DEF Units, Sleepers
<1>. QED BY <1>1, <1>2, <1>3, <1>4, <1>5, Zenon DEF Api!Spawn, Api!semVars

(* MyThreadYield lets some runnable thread run: its caller is one.         *)
LEMMA MyThreadYieldApi ==
  ASSUME IInv, IInv', MyThreadYield
  PROVE  Api!Yield
<1> DEFINE rq == Append(ready_queue, current_thread)
<1>1. /\ phase = "threads" /\ rq \in Seq(Threads) /\ rq # <<>>
  <2>1. phase = "threads"
    BY DEF MyThreadYield
  <2>2. current_thread \in Threads /\ ready_queue \in Seq(Threads)
    BY <2>1, CurrentFacts DEF IInv, TypeOK
  <2>. QED BY <2>1, <2>2, AppendProperties, Zenon
<1>2. /\ SwitchToNext(rq, blocked_queue, SavedIn(current_thread))
      /\ made' = made /\ exited' = exited /\ parent' = parent /\ children' = children
      /\ waiting_for' = waiting_for
      /\ sems' = sems /\ wait_queue' = wait_queue /\ count' = count
  BY Zenon DEF MyThreadYield, enqueue, threadVars, semVars
<1> HIDE DEF rq
<1>3. Alive' = Alive /\ Units' = Units /\ Sleepers' = Sleepers
  BY <1>2, Zenon DEF Alive, Units, Sleepers
<1>4. phase' = "threads" => Awaiting' = Awaiting
  BY <1>2, SwitchKeepsBlocked, Zenon DEF Awaiting
<1>5. Api!Schedule(Alive', Awaiting, Sleepers')
  BY <1>1, <1>2, <1>4, SwitchSchedules
<1>. QED BY <1>1, <1>2, <1>3, <1>5 DEF Api!Yield, Api!semVars

(* With an empty ready queue nobody can run once the running thread has    *)
(* ended, waits for somebody or sleeps.                                    *)
LEMMA NobodyCanRun ==
  ASSUME IInv, phase = "threads", ready_queue = <<>>,
         NEW al \in SUBSET Alive, NEW aw, NEW as,
         \A x \in Range(blocked_queue) \cap al : aw[x] # {},
         \A s \in sems : Range(wait_queue[s]) \subseteq as[s],
         current_thread \in al =>
           aw[current_thread] # {} \/ \E s \in sems : current_thread \in as[s]
  PROVE  Api!Runnable(al, aw, as) = {}
<1> SUFFICES ASSUME NEW x \in al, aw[x] = {}, \A s \in sems : x \notin as[s]
             PROVE  FALSE
  BY Zenon DEF Api!Runnable
<1>1. x \notin Range(ready_queue)
  BY EmptyQueue
<1>2. ~Asleep(x)
  BY Zenon DEF Asleep
<1>3. x \in Alive /\ x \in Threads
  BY DEF Alive, IInv, TypeOK
<1>4. x = current_thread \/ x \in Range(blocked_queue)
  BY Zenon, <1>1, <1>2, <1>3 DEF IInv, OnePlace
<1>. QED BY <1>4, Zenon

(* The running thread goes to the blocked queue, with waiting_for set to   *)
(* one of its living children or to NULL for all of them.                  *)
LEMMA BlockApi ==
  ASSUME IInv, IInv', phase = "threads", NEW w \in Threads \cup {NULL}, NEW cs,
         children[current_thread] # <<>>,
         w # NULL => w \in Range(children[current_thread]),
         SwitchToNext(ready_queue, Append(blocked_queue, current_thread), cs),
         waiting_for' = [waiting_for EXCEPT ![current_thread] = w],
         made' = made, exited' = exited, parent' = parent, children' = children,
         sems' = sems, count' = count, wait_queue' = wait_queue
  PROVE  \E C \in SUBSET Threads : Api!Join(C)
<1> DEFINE c  == current_thread
           C  == IF w # NULL THEN {w} ELSE Range(children[c])
           aw == [Awaiting EXCEPT ![Runner] = C]
<1>1. /\ c \in Threads /\ Runner = c /\ Alive' = Alive /\ c \notin Range(blocked_queue)
      /\ blocked_queue \in Seq(Threads) /\ ready_queue \in Seq(Threads)
      /\ waiting_for \in [Threads -> Threads \cup {NULL}]
      /\ children[c] \in Seq(Threads) /\ sems \subseteq Sems
  BY CurrentFacts DEF IInv, TypeOK, Runner, Alive
<1>2. /\ Range(children[c]) # {} /\ Range(children[c]) \subseteq Threads
      /\ Range(children[c]) = {x \in Alive : parent[x] = c}
  BY <1>1, ChildrenFacts, Zenon
<1>3. C # {} /\ C \in SUBSET Threads
  BY <1>2, Zenon
<1>4. C = Api!LivingChildren \/ \E x \in Api!LivingChildren : C = {x}
  BY <1>1, <1>2, Zenon DEF Api!LivingChildren
<1>5. aw[c] = C /\ \A x \in Threads \ {c} : aw[x] = Awaiting[x]
  BY <1>1, Zenon DEF Awaiting
<1>6. Range(Append(blocked_queue, c)) = Range(blocked_queue) \cup {c}
  BY <1>1, EnqueueFacts
<1>7. ASSUME phase' = "threads" PROVE Awaiting' = aw
  <2>1. blocked_queue' = Append(blocked_queue, c)
    BY <1>7, SwitchKeepsBlocked, Zenon
  <2>2. ASSUME NEW x \in Threads PROVE Awaiting'[x] = aw[x]
    <3>1. CASE x = c
      <4>1. c \in Range(blocked_queue') /\ waiting_for'[c] = w
        BY <1>1, <1>6, <2>1, Zenon
      <4>. QED BY <1>5, <3>1, <4>1 DEF Awaiting
    <3>2. CASE x # c
      <4>1. /\ x \in Range(blocked_queue') <=> x \in Range(blocked_queue)
            /\ waiting_for'[x] = waiting_for[x]
        BY <1>1, <1>6, <2>1, <3>2, Zenon
      <4>2. Awaiting'[x] = Awaiting[x]
        BY <4>1, Zenon DEF Awaiting
      <4>. QED BY <1>5, <3>2, <4>2, Zenon
    <3>. QED BY <3>1, <3>2, Zenon
  <2>. QED BY <2>2, Zenon DEF Awaiting
<1>8. ASSUME ready_queue = <<>> PROVE Api!Runnable(Alive', aw, Sleepers') = {}
  <2>1. \A x \in Range(blocked_queue) : x \in Threads /\ x # c /\ Awaiting[x] # {}
    BY <1>1, RangeInSet, AwaitingMeansBlocked, Zenon
  <2>2. \A x \in Range(blocked_queue) : aw[x] # {}
    BY <1>5, <2>1
  <2>3. \A s \in sems : Range(wait_queue[s]) \subseteq Sleepers'[s]
    BY <1>1, Zenon DEF Sleepers
  <2> HIDE DEF aw, c, C
  <2>4. aw[current_thread] # {}
    BY <1>3, <1>5, Zenon DEF c
  <2>. QED BY <1>1, <1>8, <2>2, <2>3, <2>4, NobodyCanRun, Zenon
<1> HIDE DEF aw, C, c
<1>9. Api!Schedule(Alive', aw, Sleepers')
  BY <1>1, <1>7, <1>8, SwitchSchedules, Zenon
<1>10. Units' = Units /\ Sleepers' = Sleepers
  BY Zenon DEF Units, Sleepers
<1>11. Api!Join(C)
  BY <1>1, <1>3, <1>4, <1>9, <1>10, Zenon DEF Api!Join, Api!semVars, aw
<1>. QED BY <1>3, <1>11, Zenon

(* MyThreadJoin fails, which nobody sees, or waits for one child.          *)
LEMMA MyThreadJoinApi ==
  ASSUME IInv, IInv', NEW t \in made, MyThreadJoin(t)
  PROVE  (\E C \in SUBSET Threads : Api!Join(C)) \/ UNCHANGED Api!vars
<1>1. /\ phase = "threads" /\ t \in Threads /\ current_thread \in Threads
      /\ TypeOK /\ children[current_thread] \in Seq(Threads)
  BY CurrentFacts, Zenon DEF MyThreadJoin, IInv, TypeOK
<1>2. CASE ~Contains(children[current_thread], t)
  BY Zenon, <1>2, StutterApi DEF MyThreadJoin
<1>3. CASE Contains(children[current_thread], t)
  <2>1. t \in Range(children[current_thread]) /\ children[current_thread] # <<>>
    BY <1>1, <1>3, ContainsIsMember, EmptyRange, Zenon
  <2>2. parent[t] = current_thread
    BY <1>1, <2>1, Zenon DEF IInv, ChildrenAreAlive
  <2>3. parent' = parent
    BY Zenon, <1>1, <1>3, <2>2 DEF MyThreadJoin, TypeOK
  <2>4. SwitchToNext(ready_queue, Append(blocked_queue, current_thread), SavedIn(parent'[t]))
    BY Zenon, <1>3 DEF MyThreadJoin, enqueue
  <2>. QED BY Zenon, <1>1, <1>3, <2>1, <2>3, <2>4, BlockApi DEF MyThreadJoin, semVars
<1>. QED BY <1>2, <1>3

(* MyThreadJoinAll returns at once, or waits for all children.             *)
LEMMA MyThreadJoinAllApi ==
  ASSUME IInv, IInv', MyThreadJoinAll
  PROVE  (\E C \in SUBSET Threads : Api!Join(C)) \/ UNCHANGED Api!vars
<1>1. /\ phase = "threads" /\ waiting_for[current_thread] = NULL /\ TypeOK
      /\ current_thread \in Threads
  BY CurrentFacts, Zenon DEF MyThreadJoinAll, IInv
<1>2. CASE children[current_thread] = <<>>
  BY <1>2, StutterApi DEF MyThreadJoinAll
<1>3. CASE children[current_thread] # <<>>
  <2>1. waiting_for' = [waiting_for EXCEPT ![current_thread] = NULL]
    BY <1>1 DEF MyThreadJoinAll, threadVars, TypeOK
  <2>. QED
    BY Zenon, <1>1, <1>3, <2>1, BlockApi
       DEF MyThreadJoinAll, enqueue, threadVars, semVars
<1>. QED BY <1>2, <1>3

(* MyThreadExit ends the waits for the thread that exits, and no others:   *)
(* its parent alone can have waited for it.                                *)
LEMMA MyThreadExitApi ==
  ASSUME IInv, IInv', MyThreadExit
  PROVE  Api!Exit
<1> DEFINE c  == current_thread
           p  == parent[c]
           aw == [t \in Threads |-> Awaiting[t] \ {Runner}]
<1>1. /\ phase = "threads" /\ c \in Threads /\ c \in Alive /\ c # NULL
      /\ Runner = c /\ c \notin Range(blocked_queue)
      /\ blocked_queue \in Seq(Threads) /\ IsInjective(blocked_queue)
      /\ Range(blocked_queue) \subseteq Threads
      /\ ready_queue \in Seq(Threads) /\ sems \subseteq Sems
      /\ waiting_for \in [Threads -> Threads \cup {NULL}]
      /\ p \in Threads \cup {NULL}
  <2>1. phase = "threads"
    BY DEF MyThreadExit
  <2>2. TypeOK /\ NoDuplicates
    BY DEF IInv
  <2>. QED BY <2>1, <2>2, CurrentFacts, RangeInSet DEF Runner, TypeOK, NoDuplicates
<1>2. /\ exited' = exited \cup {c} /\ made' = made /\ parent' = parent
      /\ sems' = sems /\ wait_queue' = wait_queue /\ count' = count
      /\ Alive' = Alive \ {Runner}
  BY <1>1, Zenon DEF MyThreadExit, semVars, Alive
<1>3. /\ children' \in [Threads -> Seq(Threads)]
      /\ \A q \in Threads : Range(children'[q]) = Range(children[q]) \ {c}
      /\ \A q \in Threads : q # p => children'[q] = children[q]
      /\ children' = ChildrenWithout(p, c)
  BY Zenon, <1>1, ChildrenWithoutFacts DEF MyThreadExit
<1>4. \A x \in Range(blocked_queue) :
        /\ Range(children[x]) = {y \in Alive : parent[y] = x}
        /\ waiting_for[x] # NULL => waiting_for[x] \in Range(children[x])
  BY <1>1, SMTT(20) DEF IInv, BlockedHasReason, ChildrenAreAlive
<1>5. Unblocks(p, c) <=> /\ p \in Range(blocked_queue)
                         /\ children'[p] = <<>> \/ waiting_for[p] = c
  BY <1>1, <1>3, ContainsIsMember, Zenon DEF Unblocks
<1>6. ASSUME NEW x \in Threads
      PROVE  aw[x] = IF x \notin Range(blocked_queue) THEN {}
                     ELSE IF waiting_for[x] # NULL THEN {waiting_for[x]} \ {c}
                     ELSE Range(children'[x])
  BY <1>1, <1>3, Zenon DEF Awaiting
<1>7. ASSUME NEW x \in Range(blocked_queue), ~(x = p /\ Unblocks(p, c))
      PROVE  waiting_for[x] # c
  BY <1>1, <1>4, <1>5, <1>7, Zenon
<1>8. ASSUME Unblocks(p, c) PROVE Api!Schedule(Alive', aw, Sleepers')
  <2>1. /\ waiting_for' = [waiting_for EXCEPT ![p] = NULL]
        /\ SwitchToNext(Append(ready_queue, p), RemoveFirst(blocked_queue, p), ctx)
    BY <1>8 DEF MyThreadExit, enqueue, remove_node
  <2>2. p \in Range(blocked_queue) /\ p \in Threads
    BY <1>1, <1>5, <1>8, Zenon
  <2>3. Range(RemoveFirst(blocked_queue, p)) = Range(blocked_queue) \ {p}
    BY <1>1, <2>2, RemoveFacts, Zenon
  <2>4. Append(ready_queue, p) \in Seq(Threads) /\ Append(ready_queue, p) # <<>>
    BY <1>1, <2>2
  <2>5. aw[p] = {}
    <3>1. waiting_for[p] # NULL => waiting_for[p] = c
      <4>1. CASE children'[p] = <<>>
        <5>1. Range(children[p]) \ {c} = {}
          BY <1>3, <2>2, <4>1, EmptyQueue, Zenon
        <5>. QED BY <1>4, <2>2, <5>1
      <4>2. CASE children'[p] # <<>>
        BY <1>5, <1>8, <4>2
      <4>. QED BY <4>1, <4>2, Zenon
    <3>2. waiting_for[p] = NULL => Range(children'[p]) = {}
      BY <1>1, <1>5, <1>8, EmptyQueue, Zenon
    <3> HIDE DEF aw, c, p
    <3>. QED BY <1>6, <2>2, <3>1, <3>2, Zenon
  <2>6. ASSUME phase' = "threads" PROVE Awaiting' = aw
    <3>1. Range(blocked_queue') = Range(blocked_queue) \ {p}
      BY <2>1, <2>3, <2>6, SwitchKeepsBlocked, Zenon
    <3>2. ASSUME NEW x \in Threads PROVE Awaiting'[x] = aw[x]
      <4>1. CASE x = p
        <5>1. x \notin Range(blocked_queue')
          BY <3>1, <4>1, Zenon
        <5>. QED BY <2>5, <4>1, <5>1, Zenon DEF Awaiting
      <4>2. CASE x # p
        <5>1. waiting_for'[x] = waiting_for[x]
          BY <1>1, <2>1, <2>2, <4>2, Zenon
        <5>2. x \in Range(blocked_queue') <=> x \in Range(blocked_queue)
          BY <3>1, <4>2
        <5>3. x \in Range(blocked_queue) => waiting_for[x] # c
          BY <1>7, <4>2
        <5> HIDE DEF aw, c, p
        <5>. QED BY <1>6, <5>1, <5>2, <5>3, Zenon DEF Awaiting
      <4>. QED BY <4>1, <4>2
    <3>. QED BY <3>2 DEF Awaiting
  <2> HIDE DEF aw, c, p
  <2>7. Api!Schedule(Alive', aw, Sleepers')
    BY <1>1, <1>2, <2>1, <2>4, <2>6, SwitchSchedules, Zenon
  <2>. QED BY <2>7
<1>9. ASSUME ~Unblocks(p, c) PROVE Api!Schedule(Alive', aw, Sleepers')
  <2>1. waiting_for' = waiting_for /\ SwitchToNext(ready_queue, blocked_queue, ctx)
    BY <1>9 DEF MyThreadExit
  <2>2. \A x \in Range(blocked_queue) : waiting_for[x] # c
    BY <1>7, <1>9
  <2>3. ASSUME phase' = "threads" PROVE Awaiting' = aw
    <3>1. blocked_queue' = blocked_queue
      BY <2>1, <2>3, SwitchKeepsBlocked
    <3>2. ASSUME NEW x \in Threads PROVE Awaiting'[x] = aw[x]
      <4> HIDE DEF aw, c, p
      <4>. QED BY <1>6, <2>1, <2>2, <3>1, Zenon DEF Awaiting
    <3>. QED BY <3>2 DEF Awaiting
  <2>4. ASSUME ready_queue = <<>> PROVE Api!Runnable(Alive', aw, Sleepers') = {}
    <3>1. ASSUME NEW x \in Range(blocked_queue) PROVE aw[x] # {}
      <4>1. waiting_for[x] = NULL => Range(children'[x]) # {}
        <5>1. children'[x] # <<>>
          <6>1. CASE x = p
            BY <1>5, <1>9, <6>1
          <6>2. CASE x # p
            BY <1>1, <1>3, <6>2, Zenon DEF IInv, BlockedHasReason
          <6>. QED BY <6>1, <6>2
        <5>. QED BY <1>1, <1>3, <5>1, EmptyRange, Zenon
      <4> HIDE DEF aw, c, p
      <4>. QED BY <1>1, <1>6, <2>2, <4>1, Zenon
    <3>2. \A s \in sems : Range(wait_queue[s]) \subseteq Sleepers'[s]
      BY <1>1, <1>2, Zenon DEF Sleepers
    <3>3. Alive' \in SUBSET Alive /\ current_thread \notin Alive'
      BY <1>1, <1>2
    <3> HIDE DEF aw, c, p
    <3>. QED BY <1>1, <2>4, <3>1, <3>2, <3>3, NobodyCanRun, Zenon
  <2> HIDE DEF aw, c, p
  <2>5. Api!Schedule(Alive', aw, Sleepers')
    BY <1>1, <1>2, <2>1, <2>3, <2>4, SwitchSchedules, Zenon
  <2>. QED BY <2>5
<1>10. Api!Schedule(Alive', aw, Sleepers')
  BY <1>8, <1>9
<1>11. Units' = Units /\ Sleepers' = Sleepers
  BY <1>2 DEF Units, Sleepers
<1>. QED BY <1>1, <1>2, <1>10, <1>11, Zenon DEF Api!Exit, Api!semVars

(* MySemaphoreInit refuses a negative value, which nobody sees, or makes a *)
(* semaphore with as many units as it is told.                             *)
LEMMA MySemaphoreInitApi ==
  ASSUME IInv, NEW v \in -1 .. MaxCount, MySemaphoreInit(v)
  PROVE  (\E s \in Sems, u \in 0 .. MaxCount : Api!NewSem(s, u)) \/ UNCHANGED Api!vars
<1>1. CASE v < 0
  BY <1>1, StutterApi DEF MySemaphoreInit, vars
<1>2. CASE v >= 0
  <2>1. PICK s \in Sems \ sems :
          /\ sems' = sems \cup {s}
          /\ count' = [count EXCEPT ![s] = v]
          /\ wait_queue' = [wait_queue EXCEPT ![s] = <<>>]
    BY <1>2 DEF MySemaphoreInit
  <2>2. UNCHANGED <<threadVars, switchVars>>
    BY <1>2 DEF MySemaphoreInit
  <2>3. v \in 0 .. MaxCount
    BY <1>2, MyThreadAssumption
  <2>4. Units' = [Units EXCEPT ![s] = v]
    <3>1. ASSUME NEW r \in Sems PROVE Units'[r] = IF r = s THEN v ELSE Units[r]
      <4>1. count'[r] = IF r = s THEN v ELSE count[r]
        BY <2>1 DEF IInv, TypeOK
      <4>. QED BY <2>3, <4>1 DEF Units
    <3>. QED BY <3>1, Zenon DEF Units
  <2>5. Sleepers' = [Sleepers EXCEPT ![s] = {}]
    BY <2>1, EmptyQueue, Zenon DEF Sleepers, IInv, TypeOK
  <2>6. /\ phase' = phase /\ Runner' = Runner /\ made' = made /\ Alive' = Alive
        /\ parent' = parent /\ Awaiting' = Awaiting
    BY <2>2, Zenon DEF threadVars, switchVars, Runner, Alive, Awaiting
  <2>. QED BY <2>1, <2>3, <2>4, <2>5, <2>6, Zenon DEF Api!NewSem
<1>. QED BY <1>1, <1>2

(* MySemaphoreSignal hands the unit to a sleeper, or keeps it.             *)
LEMMA MySemaphoreSignalApi ==
  ASSUME IInv, NEW s \in Sems, MySemaphoreSignal(s)
  PROVE  Api!Signal(s)
<1>1. /\ phase = "threads" /\ s \in sems
      /\ count' = [count EXCEPT ![s] = @ + 1]
      /\ count \in [Sems -> Int] /\ wait_queue \in [Sems -> Seq(Threads)]
      /\ Len(wait_queue[s]) = IF count[s] < 0 THEN -count[s] ELSE 0
  BY Zenon DEF MySemaphoreSignal, IInv, TypeOK, CountIsWaiters
<1>2. UNCHANGED <<threadVars, sems, phase, current_thread, blocked_queue>>
  BY DEF MySemaphoreSignal
<1>3. /\ phase' = phase /\ Runner' = Runner /\ made' = made /\ Alive' = Alive
      /\ parent' = parent /\ Awaiting' = Awaiting /\ sems' = sems
  BY <1>2, Zenon DEF threadVars, Runner, Alive, Awaiting
<1>4. count[s] \in Int /\ count'[s] \in Int /\ count'[s] = count[s] + 1
  BY <1>1
<1>5. CASE Wakes(count'[s])
  <2> DEFINE h == Head(wait_queue[s])
  <2>1. /\ wait_queue[s] # <<>> /\ count[s] < 0
        /\ wait_queue[s] \in Seq(Threads) /\ IsInjective(wait_queue[s])
    BY <1>5, SignalTakesSleeper, Zenon
  <2>2. h \in Range(wait_queue[s]) /\ Range(Tail(wait_queue[s])) = Range(wait_queue[s]) \ {h}
    BY <2>1, DequeueFacts, Zenon
  <2>3. wait_queue' = [wait_queue EXCEPT ![s] = Tail(wait_queue[s])]
    BY <1>5, <2>1 DEF MySemaphoreSignal, dequeue
  <2> HIDE DEF h
  <2>4. Sleepers' = [Sleepers EXCEPT ![s] = @ \ {h}] /\ h \in Sleepers[s]
    BY <1>1, <2>2, <2>3, Zenon DEF Sleepers
  <2>5. ASSUME NEW r \in Sems PROVE Units'[r] = Units[r]
    <3>1. CASE r = s
      BY <1>4, <1>5, <2>1, <3>1 DEF Units, Wakes
    <3>2. CASE r # s
      BY <1>1, <3>2 DEF Units
    <3>. QED BY <3>1, <3>2, Zenon
  <2>6. Units' = Units
    BY <2>5 DEF Units
  <2>. QED BY <1>1, <1>3, <2>4, <2>6, Zenon DEF Api!Signal
<1>6. CASE ~Wakes(count'[s])
  <2>1. wait_queue' = wait_queue
    BY <1>6 DEF MySemaphoreSignal
  <2>2. count[s] >= 0 /\ Len(wait_queue[s]) = 0
    BY <1>1, <1>4, <1>6 DEF Wakes
  <2>3. Sleepers' = Sleepers /\ Sleepers[s] = {}
    BY <1>1, <2>1, <2>2, EmptyQueue DEF Sleepers
  <2>4. ASSUME NEW r \in Sems PROVE Units'[r] = IF r = s THEN Units[s] + 1 ELSE Units[r]
    <3>1. CASE r = s
      BY <1>4, <2>2, <3>1 DEF Units
    <3>2. CASE r # s
      BY <1>1, <3>2 DEF Units
    <3>. QED BY <3>1, <3>2, Zenon
  <2>5. Units' = [Units EXCEPT ![s] = @ + 1]
    BY <2>4, Zenon DEF Units
  <2>. QED BY <1>1, <1>3, <2>3, <2>5 DEF Api!Signal
<1>. QED BY <1>5, <1>6

(* MySemaphoreWait takes a unit, or sleeps and lets another thread run.    *)
LEMMA MySemaphoreWaitApi ==
  ASSUME IInv, IInv', NEW s \in Sems, MySemaphoreWait(s)
  PROVE  Api!Wait(s)
<1> DEFINE c == current_thread
<1>1. /\ phase = "threads" /\ s \in sems /\ c \in Threads
      /\ count' = [count EXCEPT ![s] = @ - 1]
      /\ count \in [Sems -> Int] /\ wait_queue \in [Sems -> Seq(Threads)]
      /\ ready_queue \in Seq(Threads) /\ blocked_queue \in Seq(Threads)
      /\ Range(blocked_queue) \subseteq Threads
  <2>1. phase = "threads"
    BY DEF MySemaphoreWait
  <2>2. TypeOK
    BY DEF IInv
  <2>. QED BY <2>1, <2>2, CurrentFacts, RangeInSet, Zenon DEF MySemaphoreWait, TypeOK
<1>2. UNCHANGED <<threadVars, sems>>
  BY DEF MySemaphoreWait
<1>3. /\ made' = made /\ Alive' = Alive /\ parent' = parent /\ sems' = sems
      /\ children' = children /\ waiting_for' = waiting_for
  BY <1>2 DEF threadVars, Alive
<1>4. count[s] \in Int /\ count'[s] \in Int /\ count'[s] = count[s] - 1
  BY <1>1
<1>5. CASE Sleeps(count'[s])
  <2>1. /\ wait_queue' = [wait_queue EXCEPT ![s] = Append(wait_queue[s], c)]
        /\ SwitchToNext(ready_queue, blocked_queue, SavedIn(c))
    BY <1>5 DEF MySemaphoreWait, enqueue
  <2>2. Range(Append(wait_queue[s], c)) = Range(wait_queue[s]) \cup {c}
    BY <1>1, EnqueueFacts
  <2>3. Runner = c
    BY <1>1 DEF Runner
  <2> HIDE DEF c
  <2>4. Sleepers' = [Sleepers EXCEPT ![s] = @ \cup {Runner}]
    BY <1>1, <2>1, <2>2, <2>3, Zenon DEF Sleepers
  <2>5. phase' = "threads" => Awaiting' = Awaiting
    BY <1>3, <2>1, SwitchKeepsBlocked DEF Awaiting
  <2>6. ASSUME ready_queue = <<>> PROVE Api!Runnable(Alive', Awaiting, Sleepers') = {}
    <3>1. \A x \in Range(blocked_queue) : Awaiting[x] # {}
      BY <1>1, AwaitingMeansBlocked
    <3>2. \A r \in sems : Range(wait_queue[r]) \subseteq Sleepers'[r]
      BY <2>4, Zenon DEF Sleepers, IInv, TypeOK
    <3>3. c \in Sleepers'[s]
      BY <2>3, <2>4 DEF Sleepers
    <3>. QED BY <1>1, <1>3, <2>6, <3>1, <3>2, <3>3, NobodyCanRun, Zenon DEF c
  <2>7. Api!Schedule(Alive', Awaiting, Sleepers')
    BY <1>1, <1>3, <2>1, <2>5, <2>6, SwitchSchedules, Zenon
  <2>8. ASSUME NEW r \in Sems PROVE Units'[r] = Units[r]
    <3>1. CASE r = s
      BY <1>4, <1>5, <3>1 DEF Units, Sleeps
    <3>2. CASE r # s
      BY <1>1, <3>2, Zenon DEF Units
    <3>. QED BY <3>1, <3>2, Zenon
  <2>9. Units' = Units
    BY <2>8 DEF Units
  <2>10. Units[s] = 0
    BY <1>4, <1>5 DEF Units, Sleeps
  <2>. QED BY <1>1, <1>3, <2>4, <2>7, <2>9, <2>10, Zenon DEF Api!Wait
<1>6. CASE ~Sleeps(count'[s])
  <2>1. UNCHANGED <<wait_queue, switchVars>>
    BY <1>6 DEF MySemaphoreWait
  <2>2. /\ phase' = phase /\ Runner' = Runner /\ Awaiting' = Awaiting
        /\ Sleepers' = Sleepers
    BY <1>3, <2>1, Zenon DEF switchVars, Runner, Awaiting, Sleepers
  <2>3. Units[s] > 0
    BY <1>4, <1>6 DEF Units, Sleeps
  <2>4. ASSUME NEW r \in Sems PROVE Units'[r] = IF r = s THEN Units[s] - 1 ELSE Units[r]
    <3>1. CASE r = s
      BY <1>4, <1>6, <3>1 DEF Units, Sleeps
    <3>2. CASE r # s
      BY <1>1, <3>2 DEF Units
    <3>. QED BY <3>1, <3>2, Zenon
  <2>5. Units' = [Units EXCEPT ![s] = @ - 1]
    BY <2>4, Zenon DEF Units
  <2>. QED BY <1>1, <1>3, <2>2, <2>3, <2>5, Zenon DEF Api!Wait
<1>. QED BY <1>5, <1>6, Zenon

(* MySemaphoreDestroy is refused while threads sleep on the semaphore.     *)
LEMMA MySemaphoreDestroyApi ==
  ASSUME IInv, NEW s \in Sems, MySemaphoreDestroy(s)
  PROVE  Api!DropSem(s) \/ UNCHANGED Api!vars
<1>1. UNCHANGED <<threadVars, switchVars, count, wait_queue>> /\ s \in sems
  BY Zenon DEF MySemaphoreDestroy
<1>2. /\ phase' = phase /\ Runner' = Runner /\ made' = made /\ Alive' = Alive
      /\ parent' = parent /\ Awaiting' = Awaiting /\ Units' = Units /\ Sleepers' = Sleepers
  BY <1>1, Zenon DEF threadVars, switchVars, Runner, Alive, Awaiting, Units, Sleepers
<1>3. CASE wait_queue[s] = <<>>
  <2>1. Sleepers[s] = {} /\ sems' = sems \ {s}
    BY <1>3, EmptyQueue, Zenon DEF Sleepers, MySemaphoreDestroy
  <2>. QED BY <1>1, <1>2, <2>1, Zenon DEF Api!DropSem
<1>4. CASE wait_queue[s] # <<>>
  BY <1>2, <1>4, Zenon DEF MySemaphoreDestroy, Api!vars
<1>. QED BY <1>3, <1>4

(* Every step of the library is a step of the interface or none.           *)
LEMMA StepApi ==
  ASSUME IInv, IInv', [Next]_vars
  PROVE  Api!Next \/ UNCHANGED Api!vars
<1>1. CASE UNCHANGED vars
  BY <1>1, StutterApi DEF vars
<1>2. ASSUME NEW t \in Threads, MyThreadInit(t) PROVE Api!Next
  BY <1>2, MyThreadInitApi DEF Api!Next
<1>3. ASSUME NEW t \in Threads, MyThreadCreate(t) PROVE Api!Next
  BY <1>3, MyThreadCreateApi DEF Api!Next
<1>4. ASSUME MyThreadYield PROVE Api!Next
  BY <1>4, MyThreadYieldApi DEF Api!Next
<1>5. ASSUME NEW t \in made, MyThreadJoin(t) PROVE Api!Next \/ UNCHANGED Api!vars
  BY <1>5, MyThreadJoinApi DEF Api!Next
<1>6. ASSUME MyThreadJoinAll PROVE Api!Next \/ UNCHANGED Api!vars
  BY <1>6, MyThreadJoinAllApi DEF Api!Next
<1>7. ASSUME MyThreadExit PROVE Api!Next
  BY <1>7, MyThreadExitApi DEF Api!Next
<1>8. ASSUME NEW v \in -1 .. MaxCount, MySemaphoreInit(v)
      PROVE  Api!Next \/ UNCHANGED Api!vars
  BY <1>8, MySemaphoreInitApi DEF Api!Next
<1>9. ASSUME NEW s \in Sems, MySemaphoreSignal(s) PROVE Api!Next
  BY <1>9, MySemaphoreSignalApi DEF Api!Next
<1>10. ASSUME NEW s \in Sems, MySemaphoreWait(s) PROVE Api!Next
  BY <1>10, MySemaphoreWaitApi DEF Api!Next
<1>11. ASSUME NEW s \in Sems, MySemaphoreDestroy(s) PROVE Api!Next \/ UNCHANGED Api!vars
  BY <1>11, MySemaphoreDestroyApi DEF Api!Next
<1>. QED
  BY <1>1, <1>2, <1>3, <1>4, <1>5, <1>6, <1>7, <1>8, <1>9, <1>10, <1>11, Zenon DEF Next

(* The queues, counters and contexts of mythread.c do what readme.md says  *)
(* of the routines: the library refines ThreadApi.                         *)
THEOREM LibraryImplementsApi == Spec => ImplementsApi
<1>1. Init => Api!Init
  BY InitApi
<1>2. IInv /\ IInv' /\ [Next]_vars => [Api!Next]_(Api!vars)
  BY StepApi
<1>. QED BY <1>1, <1>2, Invariance, PTL DEF Spec, ImplementsApi, Api!Spec
=============================================================================

-------------------------- MODULE FuseSessionLemmas --------------------------
(***************************************************************************)
(* The inductive invariant of FuseSession, what its steps do, and that they*)
(* keep the types, the messages, the handlers and mutexes of the requests. *)
(***************************************************************************)
EXTENDS FuseSession, QueueLemmas, FiniteSetTheorems, WellFoundedInduction

-----------------------------------------------------------------------------
(* The inductive invariant.                                                *)

(* Where a thread is, by what it has to do with its message.               *)
Hooked    == {"operation", "asleep", "finish", "unhook"}
Listed    == Hooked \cup {"again", "free"}
Handling  == Listed \cup {"list"}
Holding   == {"hold", "kill", "drop"}
Interrupting == Holding \cup {"find"}
Busied    == Handling \cup Interrupting \cup {"got", "back"}
Places    == Busied \cup {"none", "receive", "post", "over"}

Messages == [kind : {"request", "interrupt"}, req : Requests, other : Requests \cup {None}]

KernelTypes ==
  /\ queue \subseteq {Message(k, r) : k \in {"request", "interrupt"}, r \in Requests}
  /\ status \in [Requests -> {"new", "sent", "read", "answered"}] /\ asked \subseteq Requests

MainTypes ==
  /\ main \in {"start", "check", "enter", "wait", "stop", "join", "done"}
  /\ joining \in Threads \cup {None}
  /\ workers \subseteq Threads /\ IsFiniteSet(workers) /\ numavail \in Int

ThreadTypes == pc \in [Threads -> Places] /\ msg \in [Threads -> Messages \cup {None}]

RequestTypes ==
  /\ list \subseteq Requests /\ interrupts \in Seq(Requests) /\ interrupted \subseteq Requests
  /\ ctr \in [Requests -> Int]
  /\ func \in [Requests -> Threads \cup {None}] /\ holder \in [Requests -> Threads \cup {None}]

TypeOK == KernelTypes /\ MainTypes /\ ThreadTypes /\ RequestTypes

(* A thread that is busy has a message, of the kind its step is about.     *)
MessageFits ==
  \A t \in Threads :
    /\ pc[t] \in Busied => msg[t] \in Messages
    /\ pc[t] \in Handling => msg[t].kind = "request"
    /\ pc[t] \in Interrupting => msg[t].kind = "interrupt"

(* t has read r, and is not through with it.                               *)
Handles(t, r) == pc[t] \in Handling \cup {"got"} /\ msg[t].kind = "request" /\ msg[t].req = r
Lists(t, r)   == pc[t] \in Listed /\ msg[t].req = r
Holds(t, r)   == pc[t] \in Holding /\ msg[t].req = r

(* A request is read once: no two threads handle it.  It is in the list    *)
(* while its thread is between list_add_req and fuse_free_req.             *)
OneHandler ==
  /\ \A m \in queue : m.kind = "request" => status[m.req] = "sent"
  /\ \A t \in Threads, r \in Requests : Handles(t, r) => status[r] \in {"read", "answered"}
  /\ \A t, u \in Threads, r \in Requests : Handles(t, r) /\ Handles(u, r) => t = u
  /\ \A r \in Requests : r \in list <=> \E t \in Threads : Lists(t, r)

(* Nobody holds a request before it is in the list.                        *)
HeldAreListed ==
  \A u \in Threads, r \in Requests : Holds(u, r) =>
    /\ status[r] \in {"read", "answered"}
    /\ \A t \in Threads : Handles(t, r) => Lists(t, r)

(* The mutex of a request, and the thread that find_interrupted is told of.*)
Kills(t, r) == pc[t] = "kill" /\ msg[t].req = r
Hooks(t, r) == pc[t] \in Hooked /\ msg[t].req = r

MutexHeld ==
  /\ \A r \in Requests : holder[r] # None => Kills(holder[r], r)
  /\ \A t \in Threads, r \in Requests : Kills(t, r) => holder[r] = t /\ func[r] # None
  /\ \A r \in Requests : func[r] # None => Hooks(func[r], r)

(* The workers of the list are the threads there are; the main thread gets *)
(* to join them only when the session has exited.                          *)
MainPhase ==
  /\ workers = {t \in Threads : pc[t] # "none"}
  /\ main \in {"start", "done"} => workers = {}
  /\ main \in {"stop", "join"} => exited
  /\ exit \/ cancelled # {} => main \in {"join", "done"}
  /\ main = "join" => exit
  /\ joining # None => main = "join" /\ joining \in workers
  /\ ~exited => \A t \in Threads : pc[t] \notin {"post", "over"}

(* The requests of the kernel's interrupts have been read, and an          *)
(* interrupt is kept once.                                                 *)
InterruptsKnown ==
  /\ \A r \in asked : status[r] \in {"read", "answered"}
  /\ IsInjective(interrupts)

(* The counter of a request: one for the list, one for each that holds it. *)
Counted ==
  \A r \in Requests : ctr[r] = Cardinality(list \cap {r}) + Cardinality({t \in Threads : Holds(t, r)})

(* The threads that listen or handle a FORGET are the available ones.      *)
Available == {t \in workers : pc[t] \in {"receive", "got"} \/ IsForget(msg[t])}

AvailableKnown ==
  ~exited /\ main \in {"check", "enter", "wait"} =>
    numavail = Cardinality(Available) /\ (numavail > 0 \/ failed) /\ numavail <= MaxIdle

IInv == TypeOK /\ MessageFits /\ OneHandler /\ HeldAreListed /\ MutexHeld /\ MainPhase
        /\ InterruptsKnown /\ Counted /\ AvailableKnown /\ InterruptKept

-----------------------------------------------------------------------------
(* Lemmas about the operators.                                             *)

(* A set of numbered threads that is not empty has a first one.            *)
LEMMA MinInSet ==
  ASSUME NEW S \in SUBSET Nat, S # {}
  PROVE  Min(S) \in S
<1> DEFINE R == {ss \in Nat \X Nat : ss[1] < ss[2]}
<1>1. IsWellFoundedOn(R, Nat)
  BY NatLessThanWellFounded DEF OpToRel
<1> HIDE DEF R
<1>2. \E x \in S : \A y \in S : ~(<<y, x>> \in R)
  BY <1>1, WFMin, Zenon
<1>3. PICK x \in S : \A y \in S : ~(<<y, x>> \in R)
  BY <1>2
<1>4. \A y \in S : x =< y
  <2>1. SUFFICES ASSUME NEW y \in S, ~(x =< y) PROVE FALSE
    OBVIOUS
  <2>2. <<y, x>> \in Nat \X Nat /\ y < x
    BY <2>1
  <2>3. <<y, x>> \in R
    BY <2>2 DEF R
  <2>. QED BY <1>3, <2>3
<1>. QED BY <1>4, Zenon DEF Min

(* fuse_loop_start_thread adds a thread there was not, or fails.           *)
LEMMA NewThread ==
  ASSUME TypeOK, MainPhase, NEW n, NEW p, fuse_loop_start_thread(n, p)
  PROVE  \/ \E u \in Threads :
              /\ pc[u] = "none" /\ u \notin workers /\ workers' = workers \cup {u}
              /\ pc' = [p EXCEPT ![u] = Loop] /\ numavail' = n + 1 /\ failed' = failed
         \/ failed' = TRUE /\ numavail' = n /\ pc' = p /\ workers' = workers
<1>1. Unused \in SUBSET Nat
  BY FuseSessionAssumption, Zenon DEF Unused
<1>2. Unused # {} => Min(Unused) \in Unused
  BY <1>1, MinInSet
<1>. QED BY <1>2 DEF fuse_loop_start_thread, Unused, MainPhase

(* What list_add_req and check_interrupt do with the interrupts kept: at   *)
(* most one is taken, for r itself or to be sent again, and r has none.    *)
LEMMA ListTakes ==
  ASSUME TypeOK, InterruptsKnown, NEW t \in Threads, NEW r \in Requests, List(t, r)
  PROVE  \E o \in Requests \cup {None} :
           /\ msg' = [msg EXCEPT ![t].other = o]
           /\ interrupts' \in Seq(Requests) /\ IsInjective(interrupts')
           /\ interrupted' \in {interrupted, interrupted \cup {r}}
           /\ Range(interrupts') \subseteq Range(interrupts) \ {r}
           /\ \A x \in Range(interrupts) : x \in Range(interrupts') \/ x = o \/ (x = r /\ r \in interrupted')
<1> DEFINE c == check_interrupt(r)
<1>1. /\ interrupts \in Seq(Requests) /\ IsInjective(interrupts) /\ Range(interrupts) \subseteq Requests
      /\ None \notin Requests
  BY RangeInSet, FuseSessionAssumption DEF TypeOK, RequestTypes, InterruptsKnown, Requests
<1>2. /\ interrupts' = RemoveFirst(interrupts, c.taken)
      /\ interrupted' = IF c.taken = r THEN interrupted \cup {r} ELSE interrupted
      /\ msg' = [msg EXCEPT ![t].other = c.other]
  BY DEF List
<1>3. CASE r \in Range(interrupts)
  <2>1. c.taken = r /\ c.other = None
    BY <1>3 DEF check_interrupt
  <2>2. /\ interrupts' \in Seq(Requests) /\ IsInjective(interrupts')
        /\ Range(interrupts') = Range(interrupts) \ {r}
    BY <1>1, <1>2, <1>3, <2>1, RemoveFacts
  <2> HIDE DEF c
  <2>. QED BY <1>2, <1>3, <2>1, <2>2, Zenon
<1>4. CASE r \notin Range(interrupts) /\ interrupts # <<>>
  <2>1. c.taken = Head(interrupts) /\ c.other = Head(interrupts)
    BY <1>4 DEF check_interrupt
  <2>2. Head(interrupts) \in Range(interrupts)
    BY <1>1, <1>4, DequeueFacts
  <2>3. /\ interrupts' \in Seq(Requests) /\ IsInjective(interrupts')
        /\ Range(interrupts') = Range(interrupts) \ {Head(interrupts)}
    BY <1>1, <1>2, <2>1, <2>2, RemoveFacts
  <2> HIDE DEF c
  <2>. QED BY <1>1, <1>2, <1>4, <2>1, <2>2, <2>3, Zenon
<1>5. CASE interrupts = <<>>
  <2>1. Range(interrupts) = {}
    BY <1>1, <1>5, EmptyRange, Zenon
  <2>2. c.taken = None /\ c.other = None
    BY <1>5, <2>1 DEF check_interrupt
  <2>3. interrupts' = interrupts
    BY <1>1, <1>2, <2>1, <2>2, RemoveAbsent, Zenon
  <2> HIDE DEF c
  <2>. QED BY <1>1, <1>2, <2>1, <2>2, <2>3, Zenon
<1>. QED BY <1>3, <1>4, <1>5, Zenon

(* What is in the kernel's queue.                                          *)
LEMMA QueueFacts ==
  ASSUME KernelTypes
  PROVE  \A m \in queue : m \in Messages /\ m.req \in Requests /\ m = Message(m.kind, m.req)
BY FuseSessionAssumption DEF KernelTypes, Messages, Message

(* What no step writes to keeps its type.                                  *)
LEMMA TypesKept ==
  /\ KernelTypes /\ UNCHANGED <<queue, status, asked>> => KernelTypes'
  /\ MainTypes /\ UNCHANGED <<main, joining, workers, numavail>> => MainTypes'
  /\ ThreadTypes /\ UNCHANGED <<pc, msg>> => ThreadTypes'
  /\ RequestTypes /\ UNCHANGED <<list, interrupts, interrupted, ctr, func, holder>> => RequestTypes'
BY DEF KernelTypes, MainTypes, ThreadTypes, RequestTypes

(* Types.                                                                  *)
LEMMA TypeStep ==
  ASSUME IInv, Next
  PROVE  TypeOK'
<1>. USE FuseSessionAssumption DEF kernel, mt, reqs, session, Goto, At
<1>p. {"none", "receive", "post", "over", "got", "back", "list", "again", "operation", "asleep", "finish",
       "unhook", "free", "find", "hold", "kill", "drop"} \subseteq Places
  BY DEF Places, Busied, Hooked, Listed, Handling, Holding, Interrupting
<1>0. /\ TypeOK /\ KernelTypes /\ MainTypes /\ ThreadTypes /\ RequestTypes
      /\ MainPhase /\ MessageFits /\ InterruptsKnown
  BY DEF IInv, TypeOK
<1>1. ASSUME NEW r \in Requests, Send(r) PROVE TypeOK'
  BY <1>1, <1>0, <1>p, TypesKept DEF Send, TypeOK, KernelTypes, Message
<1>2. ASSUME NEW r \in Requests, Interrupt(r) PROVE TypeOK'
  BY <1>2, <1>0, <1>p, TypesKept DEF Interrupt, TypeOK, KernelTypes, Message
<1>3. ASSUME NEW how \in {"gone", "broken"}, Lose(how) PROVE TypeOK'
  BY <1>3, <1>0, <1>p, TypesKept DEF Lose, TypeOK, KernelTypes
<1>4. CASE Signal
  BY <1>4, <1>0, TypesKept DEF Signal, TypeOK, MainTypes
<1>5. CASE Start
  <2>1. Loop \in Places
    BY <1>p DEF Loop
  <2>2. \/ \E u \in Threads : workers' = workers \cup {u} /\ pc' = [pc EXCEPT ![u] = Loop]
        \/ pc' = pc /\ workers' = workers
    BY <1>0, <1>5, NewThread, Zenon DEF Start
  <2>3. IsFiniteSet(workers') /\ numavail' \in Int /\ workers' \subseteq Threads
    <3>1. \A u : IsFiniteSet(workers \cup {u})
      BY <1>0, FS_AddElement DEF MainTypes
    <3>2. numavail' \in Int
      BY <1>5 DEF Start, fuse_loop_start_thread
    <3>. QED BY <1>0, <2>2, <3>1, <3>2, Zenon DEF MainTypes
  <2>4. MainTypes'
    BY <1>0, <1>5, <2>3 DEF Start, MainTypes
  <2>5. ThreadTypes'
    BY <1>0, <1>5, <2>1, <2>2 DEF Start, ThreadTypes
  <2>. QED BY <1>0, <1>5, <2>4, <2>5, TypesKept DEF Start, TypeOK
<1>6. CASE MainCheck
  BY <1>6, <1>0, <1>p, TypesKept DEF MainCheck, TypeOK, MainTypes
<1>7. CASE MainWait
  BY <1>7, <1>0, <1>p, TypesKept DEF MainWait, TypeOK, MainTypes
<1>8. CASE MainStop
  BY <1>8, <1>0, <1>p, TypesKept DEF MainStop, TypeOK, MainTypes
<1>9. CASE MainJoin
  <2>1. workers # {} => Min(workers) \in workers
    BY <1>0, MinInSet DEF MainTypes
  <2>2. MainTypes'
    BY <1>9, <1>0, <2>1, Zenon DEF MainJoin, MainTypes
  <2>. QED BY <1>0, <1>9, <2>2, TypesKept DEF MainJoin, TypeOK
<1>10. CASE fuse_join_worker
  <2>1. MainTypes'
    BY <1>10, <1>0, FS_RemoveElement, Zenon DEF fuse_join_worker, MainTypes
  <2>2. ThreadTypes'
    BY <1>10, <1>0, <1>p, Zenon DEF fuse_join_worker, ThreadTypes
  <2>. QED BY <1>0, <1>10, <2>1, <2>2, TypesKept DEF fuse_join_worker, TypeOK
<1>11. ASSUME NEW t \in Threads, Cancelled(t) PROVE TypeOK'
  BY <1>11, <1>0, <1>p, TypesKept DEF Cancelled, TypeOK, ThreadTypes
<1>12. ASSUME NEW t \in Threads, fuse_kern_chan_receive(t) PROVE TypeOK'
  <2>1. PICK m \in queue : /\ queue' = queue \ {m}
                           /\ status' = IF m.kind = "request" THEN [status EXCEPT ![m.req] = "read"] ELSE status
                           /\ msg' = [msg EXCEPT ![t] = m]
    BY <1>12, Zenon DEF fuse_kern_chan_receive
  <2>2. m \in Messages
    BY <1>0 DEF KernelTypes, Message, Messages
  <2>3. KernelTypes'
    BY <1>0, <1>12, <2>1, <2>2 DEF KernelTypes, fuse_kern_chan_receive, Messages
  <2>4. ThreadTypes'
    BY <1>0, <1>p, <1>12, <2>1, <2>2, Zenon DEF ThreadTypes, fuse_kern_chan_receive
  <2>. QED BY <1>0, <1>12, <2>3, <2>4, TypesKept DEF fuse_kern_chan_receive, TypeOK
<1>13. ASSUME NEW t \in Threads, ReceiveFails(t) PROVE TypeOK'
  BY <1>13, <1>0, <1>p, TypesKept DEF ReceiveFails, TypeOK, ThreadTypes
<1>14. ASSUME NEW t \in Threads, Dispatch(t) PROVE TypeOK'
  <2> DEFINE p == [pc EXCEPT ![t] = IF exit THEN "over" ELSE IF msg[t].kind = "request" THEN "list" ELSE "find"]
             n == numavail - Busy(msg[t])
  <2>1. p \in [Threads -> Places] /\ n \in Int
    BY <1>0, <1>p DEF ThreadTypes, MainTypes, Busy
  <2>2. \/ fuse_loop_start_thread(n, p)
        \/ numavail' \in {numavail, n} /\ pc' = p /\ workers' = workers
    BY <1>14, Zenon DEF Dispatch
  <2> HIDE DEF p, n
  <2>3. Loop \in Places
    BY <1>p DEF Loop
  <2>4. \/ \E u \in Threads : workers' = workers \cup {u} /\ pc' = [p EXCEPT ![u] = Loop] /\ numavail' = n + 1
        \/ numavail' \in {numavail, n} /\ pc' = p /\ workers' = workers
    BY <1>0, <2>2, NewThread, Zenon
  <2>5. IsFiniteSet(workers') /\ numavail' \in Int /\ workers' \subseteq Threads
    <3>1. \A u : IsFiniteSet(workers \cup {u})
      BY <1>0, FS_AddElement DEF MainTypes
    <3>2. ASSUME NEW u \in Threads, workers' = workers \cup {u}, numavail' = n + 1
          PROVE  IsFiniteSet(workers') /\ numavail' \in Int /\ workers' \subseteq Threads
      BY <1>0, <2>1, <3>1, <3>2 DEF MainTypes
    <3>. QED BY <1>0, <2>1, <2>4, <3>2, Zenon DEF MainTypes
  <2>6. MainTypes'
    BY <1>0, <1>14, <2>5 DEF Dispatch, MainTypes
  <2>7. ThreadTypes'
    BY <1>0, <1>14, <2>1, <2>3, <2>4 DEF Dispatch, ThreadTypes
  <2>. QED BY <1>0, <1>14, <2>6, <2>7, TypesKept DEF Dispatch, TypeOK
<1>15. ASSUME NEW t \in Threads, Back(t) PROVE TypeOK'
  <2>1. Loop \in Places /\ Busy(msg[t]) \in Int
    BY <1>p DEF Loop, Busy
  <2> DEFINE n == numavail + Busy(msg[t])
  <2>2. \/ numavail' = n /\ Goto(t, Loop) /\ workers' = workers
        \/ numavail' = n /\ Goto(t, "over") /\ workers' = workers
        \/ numavail' = n - 1 /\ Goto(t, "none") /\ workers' = workers \ {t}
    BY <1>15 DEF Back
  <2>3. IsFiniteSet(workers') /\ numavail' \in Int /\ workers' \subseteq Threads
    <3>1. IsFiniteSet(workers \ {t})
      BY <1>0, FS_RemoveElement DEF MainTypes
    <3>2. n \in Int /\ n - 1 \in Int
      BY <1>0, <2>1 DEF MainTypes
    <3> HIDE DEF n
    <3>. QED BY <1>0, <2>2, <3>1, <3>2, Zenon DEF MainTypes
  <2>4. MainTypes'
    BY <1>0, <1>15, <2>3 DEF Back, MainTypes
  <2>5. ThreadTypes'
    BY <1>0, <1>p, <1>15, <2>1, <2>2, Zenon DEF Back, ThreadTypes
  <2>. QED BY <1>0, <1>15, <2>4, <2>5, TypesKept DEF Back, TypeOK
<1>16. ASSUME NEW t \in Threads, Post(t) PROVE TypeOK'
  BY <1>16, <1>0, <1>p, TypesKept DEF Post, TypeOK, ThreadTypes
<1>17. ASSUME NEW t \in Threads, NEW r \in Requests, List(t, r) PROVE TypeOK'
  <2>1. PICK o \in Requests \cup {None} :
          /\ msg' = [msg EXCEPT ![t].other = o]
          /\ interrupts' \in Seq(Requests) /\ interrupted' \in {interrupted, interrupted \cup {r}}
    BY <1>0, <1>17, ListTakes, Zenon
  <2>2. msg[t] \in Messages
    BY <1>0, <1>17 DEF List, MessageFits, Busied, Handling
  <2>3. [msg[t] EXCEPT !.other = o] \in Messages
    BY <2>2 DEF Messages
  <2>4. ThreadTypes'
    BY <1>0, <1>p, <1>17, <2>1, <2>3, Zenon DEF List, ThreadTypes
  <2>5. RequestTypes'
    BY <1>0, <1>17, <2>1 DEF List, RequestTypes
  <2>. QED BY <1>0, <1>17, <2>4, <2>5, TypesKept DEF List, TypeOK
<1>18. ASSUME NEW t \in Threads, NEW r \in Requests, fuse_do_prepare_interrupt(t, r) PROVE TypeOK'
  <2>1. msg[t].other \in Requests \cup {None}
    BY <1>0, <1>18 DEF fuse_do_prepare_interrupt, MessageFits, Busied, Handling, Listed, Messages
  <2>2. queue' \subseteq queue \cup {Message("interrupt", o) : o \in Requests}
    BY <1>18, <2>1 DEF fuse_do_prepare_interrupt, EAGAIN
  <2>3. KernelTypes'
    BY <1>0, <1>18, <2>2 DEF fuse_do_prepare_interrupt, KernelTypes
  <2>4. /\ \E p \in {"free", "finish", "operation"} : pc' = [pc EXCEPT ![t] = p]
        /\ func' \in {func, [func EXCEPT ![r] = t]}
    BY <1>18 DEF fuse_do_prepare_interrupt, fuse_req_interrupt_func
  <2>5. ThreadTypes'
    BY <1>0, <1>p, <1>18, <2>4 DEF fuse_do_prepare_interrupt, ThreadTypes
  <2>6. RequestTypes'
    BY <1>0, <1>18, <2>4 DEF fuse_do_prepare_interrupt, RequestTypes
  <2>. QED BY <1>0, <1>18, <2>3, <2>5, <2>6, TypesKept DEF fuse_do_prepare_interrupt, TypeOK
<1>19. ASSUME NEW t \in Threads, NEW r \in Requests, Operation(t, r) PROVE TypeOK'
  BY <1>19, <1>0, <1>p, TypesKept DEF Operation, TypeOK, ThreadTypes
<1>20. ASSUME NEW t \in Threads, NEW r \in Requests, Finish(t, r) PROVE TypeOK'
  BY <1>20, <1>0, <1>p, TypesKept DEF Finish, TypeOK, ThreadTypes
<1>21. ASSUME NEW t \in Threads, NEW r \in Requests, Unhook(t, r) PROVE TypeOK'
  BY <1>21, <1>0, <1>p, TypesKept DEF Unhook, fuse_req_interrupt_func, TypeOK, ThreadTypes, RequestTypes
<1>22. ASSUME NEW t \in Threads, NEW r \in Requests, fuse_free_req(t, r) PROVE TypeOK'
  <2>1. KernelTypes'
    BY <1>0, <1>22 DEF fuse_free_req, KernelTypes
  <2>2. ThreadTypes'
    BY <1>0, <1>p, <1>22 DEF fuse_free_req, ThreadTypes
  <2>3. RequestTypes'
    BY <1>0, <1>22 DEF fuse_free_req, RequestTypes
  <2>. QED BY <1>0, <1>22, <2>1, <2>2, <2>3, TypesKept DEF fuse_free_req, TypeOK
<1>23. ASSUME NEW t \in Threads, NEW r \in Requests, do_interrupt(t, r) PROVE TypeOK'
  <2>1. /\ \E p \in {"hold", "back"} : pc' = [pc EXCEPT ![t] = p]
        /\ ctr' \in {ctr, [ctr EXCEPT ![r] = @ + 1]}
        /\ interrupts' \in {interrupts, Append(interrupts, r)}
    BY <1>23 DEF do_interrupt
  <2>2. ThreadTypes'
    BY <1>0, <1>p, <1>23, <2>1 DEF do_interrupt, ThreadTypes
  <2>3. ctr' \in [Requests -> Int] /\ interrupts' \in Seq(Requests)
    <3>1. [ctr EXCEPT ![r] = @ + 1] \in [Requests -> Int] /\ Append(interrupts, r) \in Seq(Requests)
      BY <1>0 DEF RequestTypes
    <3>. QED BY <1>0, <2>1, <3>1, Zenon DEF RequestTypes
  <2>4. RequestTypes'
    BY <1>0, <1>23, <2>3, Zenon DEF do_interrupt, RequestTypes
  <2>. QED BY <1>0, <1>23, <2>2, <2>4, TypesKept DEF do_interrupt, TypeOK
<1>24. ASSUME NEW t \in Threads, NEW r \in Requests, find_interrupted(t, r) PROVE TypeOK'
  <2>1. ThreadTypes'
    BY <1>0, <1>p, <1>24 DEF find_interrupted, ThreadTypes
  <2>2. RequestTypes'
    BY <1>0, <1>24 DEF find_interrupted, RequestTypes
  <2>. QED BY <1>0, <1>24, <2>1, <2>2, TypesKept DEF find_interrupted, TypeOK
<1>25. ASSUME NEW t \in Threads, NEW r \in Requests, fuse_interrupt(t, r) PROVE TypeOK'
  <2>1. ThreadTypes'
    BY <1>0, <1>p, <1>25 DEF fuse_interrupt, ThreadTypes
  <2>2. RequestTypes'
    BY <1>0, <1>25, Zenon DEF fuse_interrupt, RequestTypes
  <2>. QED BY <1>0, <1>25, <2>1, <2>2, TypesKept DEF fuse_interrupt, TypeOK
<1>26. ASSUME NEW t \in Threads, NEW r \in Requests, Drop(t, r) PROVE TypeOK'
  BY <1>26, <1>0, <1>p, TypesKept DEF Drop, TypeOK, ThreadTypes, RequestTypes
<1>. QED BY <1>1, <1>2, <1>3, <1>4, <1>5, <1>6, <1>7, <1>8, <1>9, <1>10, <1>11, <1>12, <1>13, <1>14, <1>15, <1>16, <1>17, <1>18, <1>19, <1>20, <1>21, <1>22, <1>23, <1>24, <1>25, <1>26, Zenon
  DEF Next, Kernel, Main, Work

-----------------------------------------------------------------------------
(* What a step does to the threads, by what they have to do with requests. *)

(* u stays, or goes on without a message.                                  *)
Idle == {"none", "receive", "post", "over"}
Rests(u) ==
  \/ pc'[u] = pc[u] /\ msg'[u] = msg[u]
  \/ pc[u] \in Idle \cup {"back"} /\ pc'[u] \in Idle

(* Nothing happens to requests while the kernel, the main thread or a      *)
(* thread without a message is at work.                                    *)
LEMMA QuietStep ==
  ASSUME IInv, Kernel \/ Signal \/ Main \/ \E t \in Threads : Cancelled(t) \/ ReceiveFails(t) \/ Back(t) \/ Post(t)
  PROVE  (\A u \in Threads : Rests(u)) /\ UNCHANGED reqs
<1>. USE DEF Goto, Idle, Rests
<1>0. ThreadTypes /\ TypeOK /\ MainPhase /\ Loop \in Idle
  BY Zenon DEF IInv, TypeOK, Loop
<1>1. CASE Kernel
  BY <1>1 DEF Kernel, Send, Interrupt, Lose
<1>2. CASE Signal
  BY <1>2, Zenon DEF Signal
<1>3. CASE Start
  <2>1. (\E u \in Threads : pc[u] = "none" /\ pc' = [pc EXCEPT ![u] = Loop]) \/ pc' = pc
    BY <1>0, <1>3, NewThread, Zenon DEF Start
  <2>. QED BY <1>0, <1>3, <2>1 DEF Start, ThreadTypes
<1>4. CASE MainCheck \/ MainWait \/ MainStop \/ MainJoin
  BY <1>4 DEF MainCheck, MainWait, MainStop, MainJoin
<1>5. CASE fuse_join_worker
  BY <1>0, <1>5 DEF fuse_join_worker, ThreadTypes
<1>6. ASSUME NEW t \in Threads, Cancelled(t) \/ ReceiveFails(t) \/ Post(t) PROVE (\A u \in Threads : Rests(u)) /\ UNCHANGED reqs
  BY <1>0, <1>6 DEF Cancelled, ReceiveFails, Post, ThreadTypes
<1>7. ASSUME NEW t \in Threads, Back(t) PROVE (\A u \in Threads : Rests(u)) /\ UNCHANGED reqs
  BY <1>0, <1>7 DEF Back, ThreadTypes
<1>. QED BY <1>1, <1>2, <1>3, <1>4, <1>5, <1>6, <1>7, Zenon DEF Main

(* A thread that has a message to handle goes on with it, or the session   *)
(* has ended; another may be made.                                         *)
LEMMA DispatchStep ==
  ASSUME IInv, NEW t \in Threads, Dispatch(t)
  PROVE  /\ \/ pc'[t] = "over"
            \/ pc'[t] = "list" /\ msg[t].kind = "request"
            \/ pc'[t] = "find" /\ msg[t].kind = "interrupt"
         /\ \A u \in Threads \ {t} : Rests(u)
         /\ pc[t] = "got" /\ msg' = msg /\ UNCHANGED <<kernel, reqs>>
<1> DEFINE q == IF exit THEN "over" ELSE IF msg[t].kind = "request" THEN "list" ELSE "find"
           p == [pc EXCEPT ![t] = q]
           n == numavail - Busy(msg[t])
<1>0. ThreadTypes /\ TypeOK /\ MainPhase /\ Loop \in Idle /\ pc[t] = "got"
  BY DEF IInv, TypeOK, Loop, Idle, Dispatch
<1>1. msg[t].kind \in {"request", "interrupt"}
  BY <1>0 DEF IInv, MessageFits, Busied, Messages
<1>2. fuse_loop_start_thread(n, p) \/ pc' = p
  BY Zenon DEF Dispatch
<1> HIDE DEF p, n
<1>3. (\E u \in Threads : pc[u] = "none" /\ pc' = [p EXCEPT ![u] = Loop]) \/ pc' = p
  BY <1>0, <1>2, NewThread, Zenon
<1>4. pc'[t] = q /\ \A u \in Threads \ {t} : pc'[u] = pc[u] \/ (pc[u] = "none" /\ pc'[u] = Loop)
  BY <1>0, <1>3, Zenon DEF p, ThreadTypes
<1>5. msg' = msg /\ UNCHANGED <<kernel, reqs>>
  BY Zenon DEF Dispatch
<1>. QED BY <1>0, <1>1, <1>4, <1>5 DEF Rests, Idle

(* t goes to p with its message; the other threads stay.                   *)
Moves(t, p) ==
  /\ pc'[t] = p /\ msg'[t] \in Messages /\ msg'[t].kind = msg[t].kind /\ msg'[t].req = msg[t].req
  /\ \A u \in Threads \ {t} : pc'[u] = pc[u] /\ msg'[u] = msg[u]

(* The steps of the handlers, from place to place.                         *)
LEMMA HandlerMoves ==
  ASSUME IInv, NEW t \in Threads, NEW r \in Requests
  PROVE  /\ List(t, r) => Moves(t, "again")
         /\ fuse_do_prepare_interrupt(t, r) =>
              \/ Moves(t, "free") /\ r \in Forgets /\ func' = func
              \/ /\ Moves(t, "finish") \/ Moves(t, "operation")
                 /\ holder[r] = None /\ func' = [func EXCEPT ![r] = t]
         /\ Operation(t, r) => Moves(t, "asleep") \/ Moves(t, "finish")
         /\ Finish(t, r) => Moves(t, "unhook")
         /\ Unhook(t, r) => Moves(t, "free")
         /\ fuse_free_req(t, r) => Moves(t, "back")
         /\ do_interrupt(t, r) => \/ Moves(t, "hold") /\ r \in list
                                  \/ Moves(t, "back") /\ r \notin list
         /\ find_interrupted(t, r) => \/ Moves(t, "kill") /\ func[r] # None /\ holder' = [holder EXCEPT ![r] = t]
                                      \/ Moves(t, "drop") /\ func[r] = None /\ holder' = holder
         /\ fuse_interrupt(t, r) => \/ Moves(t, "drop") /\ holder' = [holder EXCEPT ![r] = None]
                                    \/ /\ func[r] \in Threads /\ pc[func[r]] = "asleep" /\ Moves(func[r], "finish")
                                       /\ holder' = holder
         /\ Drop(t, r) => Moves(t, "back")
<1>0. ThreadTypes /\ RequestTypes /\ TypeOK /\ InterruptsKnown
  BY DEF IInv, TypeOK
<1>1. \A u \in Threads : pc[u] \in Handling \cup Interrupting => msg[u] \in Messages
  BY DEF IInv, MessageFits, Busied
<1>2. ASSUME NEW u \in Threads, NEW p, pc[u] \in Handling \cup Interrupting, Goto(u, p), msg' = msg
      PROVE  Moves(u, p)
  BY <1>0, <1>1, <1>2 DEF Goto, Moves, ThreadTypes
<1>. USE DEF Handling, Interrupting, Listed, Hooked, Holding, At
<1>3. List(t, r) => Moves(t, "again")
  <2>1. SUFFICES ASSUME List(t, r) PROVE Moves(t, "again")
    OBVIOUS
  <2>2. PICK o \in Requests \cup {None} : msg' = [msg EXCEPT ![t].other = o]
    BY <1>0, <2>1, ListTakes
  <2>3. pc' = [pc EXCEPT ![t] = "again"] /\ msg[t] \in Messages
    BY <1>1, <2>1 DEF List, Goto
  <2>4. [msg[t] EXCEPT !.other = o] \in Messages /\ msg[t].kind = [msg[t] EXCEPT !.other = o].kind
        /\ msg[t].req = [msg[t] EXCEPT !.other = o].req
    BY <2>3, Zenon DEF Messages
  <2>. QED BY <1>0, <2>2, <2>3, <2>4 DEF Moves, ThreadTypes
<1>4. fuse_do_prepare_interrupt(t, r) =>
        \/ Moves(t, "free") /\ r \in Forgets /\ func' = func
        \/ /\ Moves(t, "finish") \/ Moves(t, "operation")
           /\ holder[r] = None /\ func' = [func EXCEPT ![r] = t]
  BY <1>2, Zenon DEF fuse_do_prepare_interrupt, fuse_req_interrupt_func
<1>5. Operation(t, r) => Moves(t, "asleep") \/ Moves(t, "finish")
  BY <1>2 DEF Operation
<1>6. Finish(t, r) => Moves(t, "unhook")
  BY <1>2 DEF Finish
<1>7. Unhook(t, r) => Moves(t, "free")
  BY <1>2, Zenon DEF Unhook
<1>8. fuse_free_req(t, r) => Moves(t, "back")
  BY <1>2 DEF fuse_free_req
<1>9. do_interrupt(t, r) => \/ Moves(t, "hold") /\ r \in list
                            \/ Moves(t, "back") /\ r \notin list
  BY <1>2 DEF do_interrupt
<1>10. find_interrupted(t, r) => \/ Moves(t, "kill") /\ func[r] # None /\ holder' = [holder EXCEPT ![r] = t]
                                 \/ Moves(t, "drop") /\ func[r] = None /\ holder' = holder
  BY <1>2, Zenon DEF find_interrupted
<1>11. fuse_interrupt(t, r) => \/ Moves(t, "drop") /\ holder' = [holder EXCEPT ![r] = None]
                               \/ /\ func[r] \in Threads /\ pc[func[r]] = "asleep" /\ Moves(func[r], "finish")
                                  /\ holder' = holder
  <2>1. MutexHeld
    BY DEF IInv
  <2>2. pc[t] = "kill" /\ msg[t].req = r => func[r] # None
    BY <2>1 DEF MutexHeld, Kills
  <2>3. func[r] \in Threads \cup {None}
    BY <1>0, Zenon DEF RequestTypes
  <2>. QED BY <1>2, <2>2, <2>3 DEF fuse_interrupt
<1>12. Drop(t, r) => Moves(t, "back")
  BY <1>2 DEF Drop
<1>. QED BY <1>3, <1>4, <1>5, <1>6, <1>7, <1>8, <1>9, <1>10, <1>11, <1>12, Zenon

(* A message is read once.                                                 *)
LEMMA ReceiveStep ==
  ASSUME IInv, NEW t \in Threads, fuse_kern_chan_receive(t)
  PROVE  \E m \in queue :
           /\ m \in Messages /\ m = Message(m.kind, m.req) /\ queue' = queue \ {m}
           /\ status' = IF m.kind = "request" THEN [status EXCEPT ![m.req] = "read"] ELSE status
           /\ msg'[t] = m /\ pc[t] = "receive" /\ pc'[t] = (IF exited THEN "post" ELSE "got")
           /\ \A u \in Threads \ {t} : pc'[u] = pc[u] /\ msg'[u] = msg[u]
           /\ UNCHANGED <<asked, device, session, mt, reqs>>
<1>1. ThreadTypes /\ KernelTypes
  BY DEF IInv, TypeOK
<1>2. \A m \in queue : m \in Messages /\ m = Message(m.kind, m.req)
  BY <1>1 DEF KernelTypes, Message, Messages
<1>. QED BY <1>1, <1>2, Zenon DEF fuse_kern_chan_receive, Goto, ThreadTypes

(* A thread's message fits what it does.                                   *)
LEMMA FitsStep ==
  ASSUME IInv, Next
  PROVE  MessageFits'
<1>. USE DEF Busied, Handling, Interrupting, Listed, Hooked, Holding
<1>0. MessageFits
  BY DEF IInv
<1>1. ASSUME Kernel \/ Signal \/ Main \/ \E t \in Threads : Cancelled(t) \/ ReceiveFails(t) \/ Back(t) \/ Post(t)
      PROVE  MessageFits'
  BY <1>0, <1>1, QuietStep, Zenon DEF MessageFits, Rests, Idle
<1>2. ASSUME NEW t \in Threads, Dispatch(t) PROVE MessageFits'
  BY <1>0, <1>2, DispatchStep, Zenon DEF MessageFits, Rests, Idle
<1>3. ASSUME NEW t \in Threads, fuse_kern_chan_receive(t) PROVE MessageFits'
  BY <1>0, <1>3, ReceiveStep DEF MessageFits
<1>4. ASSUME NEW t \in Threads, NEW p, Moves(t, p), pc[t] \in Handling, p \in Listed \cup {"back"} PROVE MessageFits'
  BY <1>0, <1>4, Zenon DEF MessageFits, Moves
<1>5. ASSUME NEW t \in Threads, NEW p, Moves(t, p), pc[t] \in Interrupting, p \in Holding \cup {"back"} PROVE MessageFits'
  BY <1>0, <1>5 DEF MessageFits, Moves
<1>6. ASSUME NEW t \in Threads, NEW r \in Requests,
             \/ List(t, r) \/ fuse_do_prepare_interrupt(t, r) \/ Operation(t, r)
             \/ Finish(t, r) \/ Unhook(t, r) \/ fuse_free_req(t, r)
      PROVE  MessageFits'
  <2>1. pc[t] \in Handling
    BY <1>6 DEF List, fuse_do_prepare_interrupt, Operation, Finish, Unhook, fuse_free_req, At
  <2>2. \E p \in Listed \cup {"back"} : Moves(t, p)
    BY <1>6, HandlerMoves
  <2>. QED BY <1>4, <2>1, <2>2
<1>7. ASSUME NEW t \in Threads, NEW r \in Requests, do_interrupt(t, r) \/ find_interrupted(t, r) \/ Drop(t, r)
      PROVE  MessageFits'
  <2>1. pc[t] \in Interrupting
    BY <1>7, Zenon DEF do_interrupt, find_interrupted, Drop, At
  <2>2. \E p \in Holding \cup {"back"} : Moves(t, p)
    BY <1>7, HandlerMoves, Zenon
  <2>. QED BY <1>5, <2>1, <2>2, Zenon
<1>8. ASSUME NEW t \in Threads, NEW r \in Requests, fuse_interrupt(t, r) PROVE MessageFits'
  <2>1. pc[t] \in Interrupting
    BY <1>8, Zenon DEF fuse_interrupt, At
  <2>2. Moves(t, "drop") \/ (func[r] \in Threads /\ pc[func[r]] = "asleep" /\ Moves(func[r], "finish"))
    BY <1>8, HandlerMoves, Zenon
  <2>. QED BY <1>4, <1>5, <2>1, <2>2, Zenon
<1>. QED BY <1>1, <1>2, <1>3, <1>6, <1>7, <1>8, Zenon DEF Next, Work

(* Requests are read, listed, held and freed by one thread.                *)
LEMMA HandlerStep ==
  ASSUME IInv, Next
  PROVE  OneHandler' /\ HeldAreListed'
<1>0. OneHandler /\ HeldAreListed /\ MessageFits /\ KernelTypes /\ RequestTypes
  BY DEF IInv, TypeOK
<1>u. \A u \in Threads, q \in Requests : (Lists(u, q) => Handles(u, q)) /\ ~(Holds(u, q) /\ Handles(u, q))
  BY <1>0, Zenon DEF MessageFits, Lists, Handles, Holds, Handling, Holding, Listed, Hooked, Interrupting
<1>q. \A m \in queue : m.req \in Requests /\ (m.kind = "request" => status[m.req] = "sent")
  BY <1>0 DEF KernelTypes, Message, OneHandler
<1>1. ASSUME \A u \in Threads, q \in Requests :
               /\ Handles(u, q)' => Handles(u, q)
               /\ Lists(u, q)' <=> Lists(u, q)
               /\ Holds(u, q)' => Holds(u, q)
               /\ Handles(u, q) /\ Lists(u, q) => Handles(u, q)',
             list' = list,
             \A q \in Requests : status'[q] = status[q] \/ (status[q] = "new" /\ status'[q] = "sent"),
             \A m \in queue' : m.kind = "request" => status'[m.req] = "sent"
      PROVE  OneHandler' /\ HeldAreListed'
  BY <1>0, <1>1, Zenon DEF OneHandler, HeldAreListed
<1>2. ASSUME Kernel \/ Signal \/ Main \/ \E t \in Threads : Cancelled(t) \/ ReceiveFails(t) \/ Back(t) \/ Post(t)
      PROVE  OneHandler' /\ HeldAreListed'
  <2>1. list' = list /\ \A u \in Threads : Rests(u)
    BY <1>2, QuietStep, Zenon DEF reqs
  <2>2. \A u \in Threads, q \in Requests :
          (Handles(u, q)' <=> Handles(u, q)) /\ (Lists(u, q)' <=> Lists(u, q)) /\ (Holds(u, q)' <=> Holds(u, q))
    BY <2>1 DEF Rests, Idle, Handles, Lists, Holds, Handling, Holding, Listed, Hooked
  <2>3. ASSUME NEW r \in Requests, Send(r) PROVE OneHandler' /\ HeldAreListed'
    <3>1. status[r] = "new" /\ \A q \in Requests : status'[q] = IF q = r THEN "sent" ELSE status[q]
      BY <1>0, <2>3 DEF Send, KernelTypes
    <3>2. \A m \in queue' : m \in queue \/ m.req = r
      BY <2>3 DEF Send, Message
    <3>3. \A m \in queue' : m.kind = "request" => status'[m.req] = "sent"
      BY <1>q, <3>1, <3>2
    <3>. QED BY <1>1, <2>1, <2>2, <3>1, <3>3, Zenon
  <2>4. ASSUME NEW r \in Requests, Interrupt(r) PROVE OneHandler' /\ HeldAreListed'
    <3>1. status' = status
      BY <2>4 DEF Interrupt
    <3>2. \A m \in queue' : m \in queue \/ m.kind = "interrupt"
      BY <2>4 DEF Interrupt, Message
    <3>3. \A m \in queue' : m.kind = "request" => status'[m.req] = "sent"
      BY <1>q, <3>1, <3>2
    <3>. QED BY <1>1, <2>1, <2>2, <3>1, <3>3, Zenon
  <2>5. CASE \E how \in {"gone", "broken"} : Lose(how)
    BY <1>1, <2>1, <2>2, <2>5, Zenon DEF Lose
  <2>6. CASE UNCHANGED <<queue, status>>
    BY <1>0, <1>1, <2>1, <2>2, <2>6, Zenon DEF OneHandler
  <2>7. Kernel \/ UNCHANGED <<queue, status>>
    BY <1>2 DEF kernel, Signal, Main, Start, MainCheck, MainWait, MainStop, MainJoin, fuse_join_worker, Cancelled, ReceiveFails,
                Back, Post
  <2>. QED BY <2>3, <2>4, <2>5, <2>6, <2>7, Zenon DEF Kernel
<1>3. ASSUME NEW t \in Threads, Dispatch(t) PROVE OneHandler' /\ HeldAreListed'
  <2>1. UNCHANGED <<queue, status, list>>
    BY <1>3, DispatchStep DEF kernel, reqs
  <2>2. \A u \in Threads, q \in Requests :
          /\ Handles(u, q)' => Handles(u, q)
          /\ Lists(u, q)' <=> Lists(u, q)
          /\ Holds(u, q)' <=> Holds(u, q)
          /\ Handles(u, q) /\ Lists(u, q) => Handles(u, q)'
    BY <1>3, DispatchStep, Zenon DEF Rests, Idle, Handles, Lists, Holds, Handling, Holding, Listed, Hooked
  <2>. QED BY <1>0, <1>1, <2>1, <2>2, Zenon DEF OneHandler
<1>4. ASSUME NEW t \in Threads, fuse_kern_chan_receive(t) PROVE OneHandler' /\ HeldAreListed'
  <2>1. PICK m \in queue :
          /\ m \in Messages /\ m = Message(m.kind, m.req) /\ queue' = queue \ {m}
          /\ status' = IF m.kind = "request" THEN [status EXCEPT ![m.req] = "read"] ELSE status
          /\ msg'[t] = m /\ pc[t] = "receive" /\ pc'[t] = (IF exited THEN "post" ELSE "got")
          /\ \A u \in Threads \ {t} : pc'[u] = pc[u] /\ msg'[u] = msg[u]
          /\ list' = list
    BY <1>4, ReceiveStep, Zenon DEF reqs
  <2>2. m.req \in Requests /\ \A x \in queue' : x \in Messages /\ x = Message(x.kind, x.req) /\ x # m
    BY <1>0, <2>1, QueueFacts, Zenon
  <2>3. \A u \in Threads, q \in Requests :
          /\ Handles(u, q)' => Handles(u, q) \/ (u = t /\ q = m.req /\ m.kind = "request")
          /\ Lists(u, q)' <=> Lists(u, q)
          /\ Holds(u, q)' <=> Holds(u, q)
          /\ Handles(u, q) => Handles(u, q)'
    BY <2>1 DEF Handles, Lists, Holds, Handling, Holding, Listed, Hooked
  <2>4. CASE m.kind = "request"
    <3>1. status[m.req] = "sent" /\ status' = [status EXCEPT ![m.req] = "read"]
      BY <1>0, <2>1, <2>4 DEF OneHandler
    <3>2. \A u \in Threads : ~Handles(u, m.req) /\ ~Holds(u, m.req)
      BY <1>0, <2>2, <3>1 DEF OneHandler, HeldAreListed
    <3>3. \A x \in queue' : x.kind = "request" => x.req # m.req /\ x \in queue
      BY <2>1, <2>2, <2>4, Zenon DEF Message
    <3>4. \A q \in Requests : status'[q] = IF q = m.req THEN "read" ELSE status[q]
      BY <1>0, <2>2, <3>1 DEF KernelTypes
    <3>5. \A x \in queue' : x.kind = "request" => status'[x.req] = "sent"
      BY <1>0, <2>2, <3>3, <3>4, Zenon DEF OneHandler, Messages
    <3>6. OneHandler'
      <4>1. \A u \in Threads, q \in Requests : Handles(u, q)' => status'[q] \in {"read", "answered"}
        BY <1>0, <2>3, <3>4, Zenon DEF OneHandler
      <4>2. \A u, v \in Threads, q \in Requests : Handles(u, q)' /\ Handles(v, q)' => u = v
        BY <1>0, <2>3, <3>2 DEF OneHandler
      <4>3. \A q \in Requests : q \in list' <=> \E u \in Threads : Lists(u, q)'
        BY <1>0, <2>1, <2>3, Zenon DEF OneHandler
      <4>. QED BY <3>5, <4>1, <4>2, <4>3, Zenon DEF OneHandler
    <3>7. HeldAreListed'
      <4>1. SUFFICES ASSUME NEW u \in Threads, NEW q \in Requests, Holds(u, q)'
                     PROVE  status'[q] \in {"read", "answered"} /\ \A v \in Threads : Handles(v, q)' => Lists(v, q)'
        BY Zenon DEF HeldAreListed
      <4>2. Holds(u, q) /\ q # m.req /\ status'[q] = status[q]
        BY <2>3, <3>2, <3>4, <4>1, Zenon
      <4>. QED BY <1>0, <2>3, <4>2, Zenon DEF HeldAreListed
    <3>. QED BY <3>6, <3>7, Zenon
  <2>5. CASE m.kind # "request"
    BY <1>0, <1>1, <2>1, <2>3, <2>5, Zenon DEF OneHandler
  <2>. QED BY <2>4, <2>5
<1>5. ASSUME NEW t \in Threads, NEW p, Moves(t, p), UNCHANGED <<status, list>>,
             \/ pc[t] \in Listed /\ p \in Listed
             \/ pc[t] \in Interrupting /\ p = "back"
             \/ pc[t] \in Holding /\ p \in Holding,
             \A m \in queue' : m \in queue \/ m.kind = "interrupt"
      PROVE  OneHandler' /\ HeldAreListed'
  <2>1. \A u \in Threads, q \in Requests :
          /\ (Handles(u, q)' <=> Handles(u, q)) /\ (Lists(u, q)' <=> Lists(u, q)) /\ (Holds(u, q)' => Holds(u, q))
    BY <1>5 DEF Moves, Handles, Lists, Holds, Handling, Holding, Listed, Hooked, Interrupting
  <2>. QED BY <1>0, <1>1, <1>5, <2>1, Zenon DEF OneHandler
<1>6. ASSUME NEW t \in Threads, NEW r \in Requests,
             fuse_do_prepare_interrupt(t, r) \/ Operation(t, r) \/ Finish(t, r) \/ Unhook(t, r)
      PROVE  OneHandler' /\ HeldAreListed'
  <2>1. pc[t] \in Listed /\ UNCHANGED <<status, list>>
    BY <1>6, Zenon DEF fuse_do_prepare_interrupt, Operation, Finish, Unhook, At, Listed, Hooked, kernel, reqs
  <2>2. \A m \in queue' : m \in queue \/ m.kind = "interrupt"
    <3>1. CASE fuse_do_prepare_interrupt(t, r)
      <4>1. \A m \in queue' : m \in queue \/ m = Message("interrupt", msg[t].other)
        BY <3>1, Zenon DEF fuse_do_prepare_interrupt, EAGAIN
      <4>. QED BY <4>1 DEF Message
    <3>2. CASE Operation(t, r) \/ Finish(t, r) \/ Unhook(t, r)
      BY <3>2, Zenon DEF Operation, Finish, Unhook, kernel
    <3>. QED BY <1>6, <3>1, <3>2, Zenon
  <2>3. \E p \in Listed : Moves(t, p)
    BY <1>6, HandlerMoves DEF Listed, Hooked
  <2>. QED BY <1>5, <2>1, <2>2, <2>3, Zenon
<1>7. ASSUME NEW t \in Threads, NEW r \in Requests, find_interrupted(t, r) \/ fuse_interrupt(t, r) \/ Drop(t, r)
      PROVE  OneHandler' /\ HeldAreListed'
  <2>1. pc[t] \in Holding /\ UNCHANGED <<queue, status, list>>
    BY <1>7, Zenon DEF find_interrupted, fuse_interrupt, Drop, At, Holding, kernel
  <2>2. \/ \E p \in Holding \cup {"back"} : Moves(t, p)
        \/ func[r] \in Threads /\ pc[func[r]] = "asleep" /\ Moves(func[r], "finish")
    BY <1>7, HandlerMoves DEF Holding
  <2>. QED BY <1>5, <2>1, <2>2, Zenon DEF Listed, Hooked, Interrupting
<1>8. ASSUME NEW t \in Threads, NEW r \in Requests, List(t, r) PROVE OneHandler' /\ HeldAreListed'
  <2>1. /\ Moves(t, "again") /\ pc[t] = "list" /\ msg[t].req = r
        /\ UNCHANGED <<queue, status>> /\ list' = list \cup {r}
    BY <1>8, HandlerMoves, Zenon DEF List, At, kernel
  <2>2. \A u \in Threads, q \in Requests :
          /\ (Handles(u, q)' <=> Handles(u, q)) /\ (Holds(u, q)' <=> Holds(u, q))
          /\ Lists(u, q)' <=> Lists(u, q) \/ (u = t /\ q = r)
    BY <2>1 DEF Moves, Handles, Lists, Holds, Handling, Holding, Listed, Hooked
  <2>. QED BY <1>0, <2>1, <2>2, Zenon DEF OneHandler, HeldAreListed
<1>9. ASSUME NEW t \in Threads, NEW r \in Requests, fuse_free_req(t, r) PROVE OneHandler' /\ HeldAreListed'
  <2>1. /\ Moves(t, "back") /\ pc[t] = "free" /\ msg[t].req = r /\ list' = list \ {r} /\ queue' = queue
        /\ status' = IF device = "up" THEN [status EXCEPT ![r] = "answered"] ELSE status
    BY <1>9, HandlerMoves, Zenon DEF fuse_free_req, At
  <2>2. Handles(t, r)
    BY <1>u, <2>1, Zenon DEF Lists, Listed
  <2>3. \A q \in Requests : status'[q] = status[q] \/ (q = r /\ status'[q] = "answered")
    <3>1. status \in [Requests -> {"new", "sent", "read", "answered"}]
      BY <1>0 DEF KernelTypes
    <3>. QED BY <2>1, <3>1, Zenon
  <2>4. \A m \in queue' : m.kind = "request" => status'[m.req] = "sent"
    <3>1. status[r] \in {"read", "answered"}
      BY <1>0, <2>2, Zenon DEF OneHandler
    <3>2. ASSUME NEW m \in queue, m.kind = "request" PROVE status'[m.req] = "sent"
      <4>1. status[m.req] = "sent" /\ m.req \in Requests
        BY <1>0, <3>2, QueueFacts, Zenon DEF OneHandler
      <4>2. m.req # r
        BY <3>1, <4>1
      <4>. QED BY <2>3, <4>1, <4>2, Zenon
    <3>. QED BY <2>1, <3>2, Zenon
  <2>5. \A u \in Threads, q \in Requests :
          /\ Handles(u, q)' <=> Handles(u, q) /\ u # t
          /\ Lists(u, q)' <=> Lists(u, q) /\ u # t
          /\ Holds(u, q)' <=> Holds(u, q)
    BY <2>1, Zenon DEF Moves, Handles, Lists, Holds, Handling, Holding, Listed, Hooked
  <2>6. \A u \in Threads, q \in Requests : Lists(u, q) /\ (u = t \/ q = r) => u = t /\ q = r
    <3>1. \A q \in Requests : Lists(t, q) => q = r
      BY <2>1, Zenon DEF Lists
    <3>2. ASSUME NEW u \in Threads, Lists(u, r) PROVE u = t
      BY <1>0, <1>u, <2>2, <3>2, Zenon DEF OneHandler
    <3>. QED BY <3>1, <3>2, Zenon
  <2>7. OneHandler'
    BY <1>0, <2>1, <2>3, <2>4, <2>5, <2>6, Zenon DEF OneHandler
  <2>8. HeldAreListed'
    BY <1>0, <2>3, <2>5, Zenon DEF HeldAreListed
  <2>. QED BY <2>7, <2>8
<1>10. ASSUME NEW t \in Threads, NEW r \in Requests, do_interrupt(t, r) PROVE OneHandler' /\ HeldAreListed'
  <2>1. pc[t] = "find" /\ msg[t].req = r /\ UNCHANGED <<queue, status, list>>
    BY <1>10, Zenon DEF do_interrupt, At, kernel
  <2>2. CASE Moves(t, "back")
    BY <1>5, <2>1, <2>2, Zenon DEF Interrupting
  <2>3. CASE Moves(t, "hold") /\ r \in list
    <3>1. \A u \in Threads, q \in Requests :
            /\ (Handles(u, q)' <=> Handles(u, q)) /\ (Lists(u, q)' <=> Lists(u, q))
            /\ Holds(u, q)' <=> Holds(u, q) \/ (u = t /\ q = r)
      BY <2>1, <2>3, Zenon DEF Moves, Handles, Lists, Holds, Handling, Holding, Listed, Hooked
    <3>2. PICK u \in Threads : Lists(u, r) /\ Handles(u, r)
      BY <1>0, <1>u, <2>3, Zenon DEF OneHandler
    <3>3. OneHandler'
      BY <1>0, <2>1, <3>1, Zenon DEF OneHandler
    <3>4. HeldAreListed'
      <4>1. \A v \in Threads : Handles(v, r) => v = u
        BY <1>0, <3>2, Zenon DEF OneHandler
      <4>2. status[r] \in {"read", "answered"}
        BY <1>0, <3>2, Zenon DEF OneHandler
      <4>3. ASSUME NEW v \in Threads, NEW q \in Requests, Holds(v, q)'
            PROVE  status[q] \in {"read", "answered"} /\ \A w \in Threads : Handles(w, q) => Lists(w, q)
        BY <1>0, <3>1, <3>2, <4>1, <4>2, <4>3, Zenon DEF HeldAreListed
      <4>. QED BY <2>1, <3>1, <4>3, Zenon DEF HeldAreListed
    <3>. QED BY <3>3, <3>4, Zenon
  <2>. QED BY <1>10, <2>2, <2>3, HandlerMoves
<1>. QED BY <1>2, <1>3, <1>4, <1>6, <1>7, <1>8, <1>9, <1>10, Zenon DEF Next, Work

(* fuse_interrupt runs with the mutex of a request that is hooked up.      *)
LEMMA MutexStep ==
  ASSUME IInv, Next
  PROVE  MutexHeld'
<1>0. MutexHeld /\ RequestTypes /\ OneHandler /\ MessageFits /\ None \notin Threads
  BY FuseSessionAssumption, Zenon DEF IInv, TypeOK
<1> DEFINE Held   == \A q \in Requests : holder[q] # None => Kills(holder[q], q)
           Killed == \A u \in Threads, q \in Requests : Kills(u, q) => holder[q] = u /\ func[q] # None
           Called == \A q \in Requests : func[q] # None => Hooks(func[q], q)
<1>m. Held' /\ Killed' /\ Called' => MutexHeld'
  BY DEF MutexHeld
<1>h. /\ \A q \in Requests : holder[q] # None => holder[q] \in Threads /\ Kills(holder[q], q)
      /\ \A u \in Threads, q \in Requests : Kills(u, q) => holder[q] = u /\ func[q] # None
      /\ \A q \in Requests : func[q] # None => func[q] \in Threads /\ Hooks(func[q], q)
  BY <1>0, Zenon DEF MutexHeld, RequestTypes
<1>1. ASSUME \A u \in Threads, q \in Requests : (Kills(u, q)' <=> Kills(u, q)) /\ (Hooks(u, q) => Hooks(u, q)'),
             UNCHANGED <<func, holder>>
      PROVE  MutexHeld'
  BY <1>m, <1>h, <1>1, Zenon
<1>2. ASSUME Kernel \/ Signal \/ Main \/ \E t \in Threads : Cancelled(t) \/ ReceiveFails(t) \/ Back(t) \/ Post(t)
      PROVE  MutexHeld'
  <2>1. UNCHANGED <<func, holder>> /\ \A u \in Threads : Rests(u)
    BY <1>2, QuietStep, Zenon DEF reqs
  <2>. QED BY <1>1, <2>1, Zenon DEF Rests, Idle, Hooked, Kills, Hooks
<1>3. ASSUME NEW t \in Threads, Dispatch(t) PROVE MutexHeld'
  <2>1. UNCHANGED <<func, holder>>
    BY <1>3, DispatchStep DEF reqs
  <2>. QED BY <1>1, <1>3, <2>1, DispatchStep, Zenon DEF Rests, Idle, Hooked, Kills, Hooks
<1>4. ASSUME NEW t \in Threads, fuse_kern_chan_receive(t) PROVE MutexHeld'
  BY <1>1, <1>4, ReceiveStep, Zenon DEF Hooked, reqs, Kills, Hooks
<1>5. ASSUME NEW t \in Threads, NEW p, Moves(t, p), UNCHANGED <<func, holder>>, pc[t] # "kill", p # "kill",
             pc[t] \in Hooked => p \in Hooked
      PROVE  MutexHeld'
  BY <1>1, <1>5, Zenon DEF Moves, Hooked, Kills, Hooks
<1>6. ASSUME NEW t \in Threads, NEW r \in Requests,
             List(t, r) \/ Operation(t, r) \/ Finish(t, r) \/ do_interrupt(t, r) \/ Drop(t, r)
      PROVE  MutexHeld'
  <2>1. UNCHANGED <<func, holder>> /\ pc[t] \in {"list", "operation", "finish", "find", "drop"}
    BY <1>6, Zenon DEF List, Operation, Finish, do_interrupt, Drop, At, reqs
  <2>2. \E p : Moves(t, p) /\ p # "kill" /\ (pc[t] \in {"operation", "finish"} => p \in Hooked)
    BY <1>6, HandlerMoves, Zenon DEF Hooked, List, Operation, Finish, do_interrupt, Drop, At
  <2>. QED BY <1>5, <2>1, <2>2 DEF Hooked
<1>7. ASSUME NEW t \in Threads, NEW r \in Requests, fuse_do_prepare_interrupt(t, r) PROVE MutexHeld'
  <2>1. pc[t] = "again" /\ msg[t].req = r /\ holder' = holder
    BY <1>7, Zenon DEF fuse_do_prepare_interrupt, At
  <2>2. CASE Moves(t, "free") /\ func' = func
    BY <1>5, <2>1, <2>2, Zenon DEF Hooked
  <2>3. CASE /\ Moves(t, "finish") \/ Moves(t, "operation")
             /\ holder[r] = None /\ func' = [func EXCEPT ![r] = t]
    <3>1. \A u \in Threads, q \in Requests : (Kills(u, q)' <=> Kills(u, q)) /\ (Hooks(u, q) \/ (u = t /\ q = r) => Hooks(u, q)')
      BY <2>1, <2>3, Zenon DEF Moves, Kills, Hooks, Hooked
    <3>2. \A q \in Requests : func'[q] = IF q = r THEN t ELSE func[q]
      BY <1>0, <2>3, Zenon DEF RequestTypes
    <3>3. Held'
      BY <1>h, <2>1, <3>1, Zenon
    <3>4. Killed'
      <4> SUFFICES ASSUME NEW u \in Threads, NEW q \in Requests, Kills(u, q)'
                   PROVE  holder'[q] = u /\ func'[q] # None
        OBVIOUS
      <4>1. holder[q] = u /\ func[q] # None
        BY <1>h, <3>1, Zenon
      <4>. QED BY <1>0, <2>1, <3>2, <4>1, Zenon
    <3>5. Called'
      BY <1>h, <3>1, <3>2, Zenon
    <3>. QED BY <1>m, <3>3, <3>4, <3>5, Zenon
  <2>. QED BY <1>7, <2>2, <2>3, HandlerMoves, Zenon
<1>8. ASSUME NEW t \in Threads, NEW r \in Requests, Unhook(t, r) PROVE MutexHeld'
  <2>1. /\ Moves(t, "free") /\ pc[t] = "unhook" /\ msg[t].req = r /\ holder[r] = None
        /\ holder' = holder /\ func' = [func EXCEPT ![r] = None]
    BY <1>8, HandlerMoves, Zenon DEF Unhook, fuse_req_interrupt_func, At
  <2>2. \A u \in Threads, q \in Requests : (Kills(u, q)' <=> Kills(u, q)) /\ (Hooks(u, q) /\ q # r => Hooks(u, q)')
    BY <2>1, Zenon DEF Moves, Kills, Hooks, Hooked
  <2>3. \A q \in Requests : func'[q] = IF q = r THEN None ELSE func[q]
    BY <1>0, <2>1, Zenon DEF RequestTypes
  <2>4. Held'
    BY <1>h, <2>1, <2>2, Zenon
  <2>5. Killed'
    <3> SUFFICES ASSUME NEW u \in Threads, NEW q \in Requests, Kills(u, q)'
                 PROVE  holder'[q] = u /\ func'[q] # None
      OBVIOUS
    <3>1. holder[q] = u /\ func[q] # None
      BY <1>h, <2>2, Zenon
    <3>2. q # r
      BY <1>0, <2>1, <3>1, Zenon
    <3>. QED BY <2>1, <2>3, <3>1, <3>2, Zenon
  <2>6. Called'
    BY <1>h, <2>2, <2>3, Zenon
  <2>. QED BY <1>m, <2>4, <2>5, <2>6, Zenon
<1>9. ASSUME NEW t \in Threads, NEW r \in Requests, fuse_free_req(t, r) PROVE MutexHeld'
  <2>1. /\ Moves(t, "back") /\ pc[t] = "free" /\ msg[t].req = r
        /\ holder' = holder /\ func' = [func EXCEPT ![r] = None]
    BY <1>9, HandlerMoves, Zenon DEF fuse_free_req, At
  <2>2. \A u \in Threads : pc[u] \in Hooked \cup {"free"} /\ msg[u].req = r => Handles(u, r)
    BY <1>0, Zenon DEF MessageFits, Handles, Handling, Listed
  <2>3. func[r] = None
    <3>1. SUFFICES ASSUME func[r] # None PROVE FALSE
      BY Zenon
    <3>2. func[r] \in Threads /\ pc[func[r]] \in Hooked /\ msg[func[r]].req = r
      BY <1>h, <3>1 DEF Hooks
    <3>3. Handles(func[r], r) /\ Handles(t, r)
      BY <2>1, <2>2, <3>2, Zenon
    <3>4. func[r] = t
      BY <1>0, <3>2, <3>3, Zenon DEF OneHandler
    <3>. QED BY <2>1, <3>2, <3>4 DEF Hooked
  <2>4. \A u \in Threads, q \in Requests : (Kills(u, q)' <=> Kills(u, q)) /\ (Hooks(u, q) => Hooks(u, q)')
    BY <2>1, Zenon DEF Moves, Kills, Hooks, Hooked
  <2>5. func' = func
    BY <1>0, <2>1, <2>3, Zenon DEF RequestTypes
  <2>. QED BY <1>1, <2>1, <2>4, <2>5, Zenon
<1>10. ASSUME NEW t \in Threads, NEW r \in Requests, find_interrupted(t, r) PROVE MutexHeld'
  <2>1. pc[t] = "hold" /\ msg[t].req = r /\ holder[r] = None /\ func' = func
    BY <1>10, Zenon DEF find_interrupted, At
  <2>2. CASE Moves(t, "kill") /\ func[r] # None /\ holder' = [holder EXCEPT ![r] = t]
    <3>1. \A u \in Threads, q \in Requests : (Kills(u, q)' <=> Kills(u, q) \/ (u = t /\ q = r)) /\ (Hooks(u, q) => Hooks(u, q)')
      BY <2>1, <2>2, Zenon DEF Moves, Kills, Hooks, Hooked
    <3>2. \A q \in Requests : holder'[q] = IF q = r THEN t ELSE holder[q]
      BY <1>0, <2>2 DEF RequestTypes
    <3>3. Held'
      BY <1>h, <3>1, <3>2, Zenon
    <3>4. Killed'
      <4> SUFFICES ASSUME NEW u \in Threads, NEW q \in Requests, Kills(u, q)'
                   PROVE  holder'[q] = u /\ func'[q] # None
        OBVIOUS
      <4>1. CASE u = t /\ q = r
        BY <2>1, <2>2, <3>2, <4>1, Zenon
      <4>2. CASE Kills(u, q)
        <5>1. holder[q] = u /\ func[q] # None
          BY <1>h, <4>2, Zenon
        <5>2. q # r
          BY <1>0, <2>1, <5>1, Zenon
        <5>. QED BY <2>1, <3>2, <5>1, <5>2, Zenon
      <4>. QED BY <3>1, <4>1, <4>2, Zenon
    <3>5. Called'
      BY <1>h, <2>1, <3>1
    <3>. QED BY <1>m, <3>3, <3>4, <3>5
  <2>3. CASE Moves(t, "drop") /\ holder' = holder
    BY <1>5, <2>1, <2>3 DEF Hooked
  <2>. QED BY <1>10, <2>2, <2>3, HandlerMoves
<1>11. ASSUME NEW t \in Threads, NEW r \in Requests, fuse_interrupt(t, r) PROVE MutexHeld'
  <2>1. pc[t] = "kill" /\ msg[t].req = r /\ func' = func
    BY <1>11, Zenon DEF fuse_interrupt, At
  <2>2. CASE Moves(t, "drop") /\ holder' = [holder EXCEPT ![r] = None]
    <3>1. \A u \in Threads, q \in Requests : (Kills(u, q)' <=> Kills(u, q) /\ u # t) /\ (Hooks(u, q) => Hooks(u, q)')
      BY <2>1, <2>2, Zenon DEF Moves, Kills, Hooks, Hooked
    <3>2. \A q \in Requests : holder'[q] = IF q = r THEN None ELSE holder[q]
      BY <1>0, <2>2, Zenon DEF RequestTypes
    <3>3. \A q \in Requests : Kills(t, q) <=> q = r
      BY <2>1, Zenon DEF Kills
    <3>4. Held'
      <4>1. \A q \in Requests : holder[q] # None /\ q # r => holder[q] \in Threads /\ Kills(holder[q], q) /\ holder[q] # t
        BY <1>h, <3>3, Zenon
      <4>2. \A q \in Requests : holder'[q] # None => q # r /\ holder'[q] = holder[q]
        BY <3>2, Zenon
      <4>. QED BY <3>1, <4>1, <4>2
    <3>5. Killed'
      <4> SUFFICES ASSUME NEW u \in Threads, NEW q \in Requests, Kills(u, q)'
                   PROVE  holder'[q] = u /\ func'[q] # None
        OBVIOUS
      <4>1. Kills(u, q) /\ u # t
        BY <3>1, Zenon
      <4>2. holder[q] = u /\ func[q] # None /\ (q = r => holder[q] = t)
        BY <1>h, <3>3, <4>1, Zenon
      <4>. QED BY <2>1, <3>2, <4>1, <4>2, Zenon
    <3>6. Called'
      BY <1>h, <2>1, <3>1, Zenon
    <3>. QED BY <1>m, <3>4, <3>5, <3>6
  <2>3. CASE func[r] \in Threads /\ pc[func[r]] = "asleep" /\ Moves(func[r], "finish") /\ holder' = holder
    BY <1>5, <2>1, <2>3 DEF Hooked
  <2>. QED BY <1>11, <2>2, <2>3, HandlerMoves, Zenon
<1>. QED BY <1>2, <1>3, <1>4, <1>6, <1>7, <1>8, <1>9, <1>10, <1>11, Zenon DEF Next, Work

=============================================================================

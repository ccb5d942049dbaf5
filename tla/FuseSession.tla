----------------------------- MODULE FuseSession -----------------------------
(***************************************************************************)
(* libfuse, lib/fuse_loop_mt.c: the threads that read requests from the    *)
(* device, how they grow, shrink and stop; and lib/fuse_lowlevel.c,        *)
(* lib/fuse.c: how an INTERRUPT request finds the thread that handles the  *)
(* request it is about.  All sections under one mutex (mt->lock, f->lock   *)
(* of the session, f->lock of the file system) are single steps; the mutex *)
(* of a request is held from step to step.                                 *)
(*                                                                         *)
(* The kernel and the file system's operations are external.  An operation *)
(* asks fuse_interrupted() once; then it may end by itself, or sleep until *)
(* a signal ends its system call, as one that waits for a lock does.       *)
(***************************************************************************)
EXTENDS Queues, FiniteSets, FiniteSetsExt

CONSTANTS Ordinary, Forgets,          \* the requests of the kernel
          Threads,                    \* the threads there can be, numbered
          MaxIdle,                    \* 10 in fuse_do_work
          None

ASSUME FuseSessionAssumption ==
  MaxIdle \in Nat \ {0} /\ Threads \subseteq Nat /\ None \notin Threads \cup Ordinary \cup Forgets

Requests == Ordinary \cup Forgets

VARIABLES
  queue, status, asked, device,          \* the kernel
  exited, error,                         \* se->exited, mt->error
  main, joining, finish, exit,           \* fuse_session_loop_mt and its struct fuse_mt
  workers, numavail, failed,             \* ... and whether a thread could not be made
  pc, msg, cancelled,                    \* the threads
  list, interrupts,                      \* struct fuse_ll
  ctr, interrupted, func, holder,        \* struct fuse_req, and who holds its lock
  finished                               \* struct fuse_intr_data of the request

kernel == <<queue, status, asked, device>>
mt     == <<main, joining, finish, exit, workers, numavail, failed, cancelled>>
reqs   == <<list, interrupts, ctr, interrupted, func, holder, finished>>
session == <<exited, error>>
vars   == <<kernel, session, mt, pc, msg, reqs>>

(* other is an interrupt to be answered, of another request.               *)
Message(kind, r) == [kind |-> kind, req |-> r, other |-> None]

Init ==
  /\ queue = {} /\ status = [r \in Requests |-> "new"] /\ asked = {} /\ device = "up"
  /\ exited = FALSE /\ error = FALSE
  /\ main = "start" /\ joining = None /\ finish = 0 /\ exit = FALSE
  /\ workers = {} /\ numavail = 0 /\ failed = FALSE /\ cancelled = {}
  /\ pc = [t \in Threads |-> "none"] /\ msg = [t \in Threads |-> None]
  /\ list = {} /\ interrupts = <<>>
  /\ ctr = [r \in Requests |-> 0] /\ interrupted = {} /\ func = [r \in Requests |-> None]
  /\ holder = [r \in Requests |-> None] /\ finished = {}

Goto(t, p) == pc' = [pc EXCEPT ![t] = p]

(* t is at p with a message about r.                                       *)
At(t, p, r) == pc[t] = p /\ msg[t].req = r

-----------------------------------------------------------------------------
(* The kernel: a request is sent, and interrupted once it has been read.   *)
Send(r) ==
  /\ device = "up" /\ status[r] = "new"
  /\ status' = [status EXCEPT ![r] = "sent"]
  /\ queue' = queue \cup {Message("request", r)}
  /\ UNCHANGED <<asked, device, session, mt, pc, msg, reqs>>

Interrupt(r) ==
  /\ device = "up" /\ status[r] = "read" /\ r \notin asked \cup Forgets
  /\ asked' = asked \cup {r}
  /\ queue' = queue \cup {Message("interrupt", r)}
  /\ UNCHANGED <<status, device, session, mt, pc, msg, reqs>>

(* The file system is unmounted, or the device fails.                      *)
Lose(how) ==
  /\ device = "up"
  /\ device' = how
  /\ queue' = {}
  /\ UNCHANGED <<status, asked, session, mt, pc, msg, reqs>>

(* HUP, TERM or INT: only the main thread takes signals (exit_handler).    *)
Signal ==
  /\ main \in {"start", "check", "enter", "wait"}
  /\ exited' = TRUE
  /\ main' = IF main = "wait" THEN "check" ELSE main
  /\ UNCHANGED <<kernel, error, joining, finish, exit, workers, numavail, failed, cancelled, pc, msg, reqs>>

-----------------------------------------------------------------------------
(* The main thread.                                                        *)

(* What a new thread is called here.                                       *)
Unused == {t \in Threads : pc[t] = "none"}

(* The test of fuse_do_work's loop.                                        *)
Loop == IF exited THEN "post" ELSE "receive"

(* A thread is made, unless memory or threads have run out.  n is the      *)
(* number of available threads before, p where the threads are.            *)
fuse_loop_start_thread(n, p) ==
  \/ /\ Unused # {}
     /\ LET t == Min(Unused)
        IN  workers' = workers \cup {t} /\ pc' = [p EXCEPT ![t] = Loop]
     /\ numavail' = n + 1
     /\ UNCHANGED failed
  \/ /\ failed' = TRUE /\ numavail' = n /\ pc' = p
     /\ UNCHANGED workers

Start ==
  /\ main = "start"
  /\ fuse_loop_start_thread(0, pc)
  /\ main' = IF workers' = {} THEN "done" ELSE "check"
  /\ UNCHANGED <<kernel, session, joining, finish, exit, cancelled, msg, reqs>>

MainCheck ==
  /\ main = "check"
  /\ main' = IF exited THEN "stop" ELSE "enter"
  /\ UNCHANGED <<kernel, session, joining, finish, exit, workers, numavail, failed, cancelled, pc, msg, reqs>>

(* sem_wait: a signal that comes before it sleeps does not wake it.        *)
MainWait ==
  /\ \/ main = "enter" /\ finish = 0 /\ main' = "wait" /\ UNCHANGED finish
     \/ main \in {"enter", "wait"} /\ finish > 0 /\ main' = "check" /\ finish' = finish - 1
  /\ UNCHANGED <<kernel, session, joining, exit, workers, numavail, failed, cancelled, pc, msg, reqs>>

MainStop ==
  /\ main = "stop"
  /\ cancelled' = workers
  /\ exit' = TRUE
  /\ main' = "join"
  /\ UNCHANGED <<kernel, session, joining, finish, workers, numavail, failed, pc, msg, reqs>>

(* The first of the list is joined, removed and freed; when there is none  *)
(* the loop is over, and the session can be used again.                    *)
MainJoin ==
  /\ main = "join" /\ joining = None
  /\ IF workers # {} THEN joining' = Min(workers) /\ UNCHANGED <<main, exited>>
     ELSE main' = "done" /\ exited' = FALSE /\ UNCHANGED joining
  /\ UNCHANGED <<kernel, error, finish, exit, workers, numavail, failed, cancelled, pc, msg, reqs>>

fuse_join_worker ==
  /\ main = "join" /\ joining # None /\ pc[joining] = "over"
  /\ workers' = workers \ {joining}
  /\ Goto(joining, "none")
  /\ joining' = None
  /\ UNCHANGED <<kernel, session, main, finish, exit, numavail, failed, cancelled, msg, reqs>>

-----------------------------------------------------------------------------
(* A thread: fuse_do_work.  It goes from "receive" with a message to       *)
(* "got", through the steps of its handler, to "back".                     *)

(* Cancellation is enabled only here.                                      *)
Cancelled(t) ==
  /\ pc[t] = "receive" /\ t \in cancelled
  /\ Goto(t, "over")
  /\ UNCHANGED <<kernel, session, mt, msg, reqs>>

(* A message read when the session has exited is dropped.                  *)
fuse_kern_chan_receive(t) ==
  /\ pc[t] = "receive" /\ t \notin cancelled
  /\ \E m \in queue :
       /\ queue' = queue \ {m}
       /\ status' = IF m.kind = "request" THEN [status EXCEPT ![m.req] = "read"] ELSE status
       /\ msg' = [msg EXCEPT ![t] = m]
  /\ Goto(t, IF exited THEN "post" ELSE "got")
  /\ UNCHANGED <<asked, device, session, mt, reqs>>

ReceiveFails(t) ==
  /\ pc[t] = "receive" /\ t \notin cancelled /\ device # "up"
  /\ exited' = TRUE
  /\ error' = (error \/ (device = "broken" /\ ~exited))
  /\ Goto(t, "post")
  /\ UNCHANGED <<kernel, mt, msg, reqs>>

IsForget(m) == m.kind = "request" /\ m.req \in Forgets
Busy(m)     == IF IsForget(m) THEN 0 ELSE 1

(* Whoever leaves nobody to listen makes a thread.                         *)
Dispatch(t) ==
  /\ pc[t] = "got"
  /\ LET m == msg[t]
         p == [pc EXCEPT ![t] = IF exit THEN "over" ELSE IF m.kind = "request" THEN "list" ELSE "find"]
         n == numavail - Busy(m)
     IN  IF ~exit /\ n = 0 THEN fuse_loop_start_thread(n, p)
         ELSE /\ numavail' = IF exit THEN numavail ELSE n
              /\ pc' = p
              /\ UNCHANGED <<workers, failed>>
  /\ UNCHANGED <<kernel, session, main, joining, finish, exit, cancelled, msg, reqs>>

(* Mutant: a thread that goes is still counted as available.               *)
Back_Counted(t) ==
  /\ pc[t] = "back"
  /\ LET n == numavail + Busy(msg[t])
     IN  /\ numavail' = n
         /\ \/ n <= MaxIdle /\ Goto(t, Loop) /\ UNCHANGED workers
            \/ n > MaxIdle /\ exit /\ Goto(t, "over") /\ UNCHANGED workers
            \/ n > MaxIdle /\ ~exit /\ Goto(t, "none") /\ workers' = workers \ {t}
  /\ msg' = [msg EXCEPT ![t] = None]
  /\ UNCHANGED <<kernel, session, main, joining, finish, exit, failed, cancelled, reqs>>

(* One of too many threads goes, unless the main thread is about to join it.*)
Back(t) ==
  /\ pc[t] = "back"
  /\ LET n == numavail + Busy(msg[t])
     IN  \/ /\ n <= MaxIdle /\ numavail' = n
            /\ Goto(t, Loop) /\ UNCHANGED workers
         \/ /\ n > MaxIdle /\ exit /\ numavail' = n
            /\ Goto(t, "over") /\ UNCHANGED workers
         \/ /\ n > MaxIdle /\ ~exit /\ numavail' = n - 1
            /\ Goto(t, "none") /\ workers' = workers \ {t}
  /\ msg' = [msg EXCEPT ![t] = None]
  /\ UNCHANGED <<kernel, session, main, joining, finish, exit, failed, cancelled, reqs>>

(* Mutant: a thread ends without telling the main thread.                  *)
Post_Silent(t) ==
  /\ pc[t] = "post"
  /\ Goto(t, "over")
  /\ UNCHANGED <<kernel, session, mt, msg, reqs>>

Post(t) ==
  /\ pc[t] = "post"
  /\ finish' = finish + 1
  /\ Goto(t, "over")
  /\ UNCHANGED <<kernel, session, main, joining, exit, workers, numavail, failed, cancelled, msg, reqs>>

-----------------------------------------------------------------------------
(* Mutant: an interrupt of another request is thrown away.                 *)
check_interrupt_Drops(r) ==
  [taken |-> IF r \in Range(interrupts) THEN r ELSE IF interrupts # <<>> THEN Head(interrupts) ELSE None, other |-> None]

(* A request joins the list of the session.  An interrupt that came before *)
(* marks it; else the oldest one that waits is taken, to be sent again.    *)
check_interrupt(r) ==
  IF r \in Range(interrupts) THEN [taken |-> r, other |-> None]
  ELSE IF interrupts # <<>> THEN [taken |-> Head(interrupts), other |-> Head(interrupts)]
  ELSE [taken |-> None, other |-> None]

List(t, r) ==
  /\ At(t, "list", r)
  /\ LET c == check_interrupt(r)
     IN  /\ interrupts' = RemoveFirst(interrupts, c.taken)
         /\ interrupted' = IF c.taken = r THEN interrupted \cup {r} ELSE interrupted
         /\ msg' = [msg EXCEPT ![t].other = c.other]
  /\ list' = list \cup {r}
  /\ ctr' = [ctr EXCEPT ![r] = 1]
  /\ Goto(t, "again")
  /\ UNCHANGED <<kernel, session, mt, func, holder, finished>>

(* An interrupt that was taken is answered: the kernel sends it again as   *)
(* long as its request is there.                                           *)
EAGAIN(o) ==
  queue' = IF o # None /\ device = "up" /\ status[o] = "read" THEN queue \cup {Message("interrupt", o)} ELSE queue

(* Mutant: the mutex of the request is not waited for.                     *)
fuse_req_interrupt_func_Unlocked(r, f) == func' = [func EXCEPT ![r] = f]

(* With a function set, an interrupt that came before calls it at once; it *)
(* returns, since it is called by the thread itself.                       *)
fuse_req_interrupt_func(r, f) ==
  /\ holder[r] = None
  /\ func' = [func EXCEPT ![r] = f]

(* The handler begins: the thread can be interrupted, and the file system  *)
(* is called.  A FORGET has no such window.                                *)
fuse_do_prepare_interrupt(t, r) ==
  /\ At(t, "again", r)
  /\ EAGAIN(msg[t].other)
  /\ \/ r \in Forgets /\ Goto(t, "free") /\ UNCHANGED <<finished, func>>
     \/ /\ r \notin Forgets
        /\ finished' = finished \ {r}
        /\ fuse_req_interrupt_func(r, t)
        /\ Goto(t, IF r \in interrupted THEN "finish" ELSE "operation")
  /\ UNCHANGED <<status, asked, device, session, mt, msg, list, interrupts, ctr, interrupted, holder>>

(* The operation ends or sleeps.                                           *)
Operation(t, r) ==
  /\ At(t, "operation", r)
  /\ Goto(t, "asleep") \/ Goto(t, "finish")
  /\ UNCHANGED <<kernel, session, mt, msg, reqs>>

(* fuse_do_finish_interrupt, in two steps: the interrupting thread is told *)
(* to stop, and waited for, since it uses this thread's variables.         *)
Finish(t, r) ==
  /\ At(t, "finish", r)
  /\ finished' = finished \cup {r}
  /\ Goto(t, "unhook")
  /\ UNCHANGED <<kernel, session, mt, msg, list, interrupts, ctr, interrupted, func, holder>>

Unhook(t, r) ==
  /\ At(t, "unhook", r)
  /\ fuse_req_interrupt_func(r, None)
  /\ Goto(t, "free")
  /\ UNCHANGED <<kernel, session, mt, msg, list, interrupts, ctr, interrupted, holder, finished>>

(* The answer is sent (not for a FORGET) and the request is freed.         *)
fuse_free_req(t, r) ==
  /\ At(t, "free", r)
  /\ status' = IF device = "up" THEN [status EXCEPT ![r] = "answered"] ELSE status
  /\ func' = [func EXCEPT ![r] = None]
  /\ list' = list \ {r}
  /\ ctr' = [ctr EXCEPT ![r] = @ - 1]
  /\ Goto(t, "back")
  /\ UNCHANGED <<queue, asked, device, session, mt, msg, interrupts, interrupted, holder, finished>>

-----------------------------------------------------------------------------
(* An INTERRUPT: its request is in the list, and held by its counter; or   *)
(* the interrupt is known, or it is kept for the request to come.          *)
do_interrupt(t, r) ==
  /\ At(t, "find", r)
  /\ \/ r \in list /\ ctr' = [ctr EXCEPT ![r] = @ + 1] /\ Goto(t, "hold") /\ UNCHANGED interrupts
     \/ /\ r \notin list
        /\ interrupts' = IF r \in Range(interrupts) THEN interrupts ELSE Append(interrupts, r)
        /\ Goto(t, "back") /\ UNCHANGED ctr
  /\ UNCHANGED <<kernel, session, mt, msg, list, interrupted, func, holder, finished>>

(* find_interrupted, with the request's mutex.                             *)
find_interrupted(t, r) ==
  /\ At(t, "hold", r) /\ holder[r] = None
  /\ interrupted' = interrupted \cup {r}
  /\ IF func[r] # None THEN holder' = [holder EXCEPT ![r] = t] /\ Goto(t, "kill")
     ELSE Goto(t, "drop") /\ UNCHANGED holder
  /\ UNCHANGED <<kernel, session, mt, msg, list, interrupts, ctr, func, finished>>


(* fuse_interrupt: the thread is sent a signal every second, since one     *)
(* that comes before it sleeps is lost, until it has finished.             *)
fuse_interrupt(t, r) ==
  /\ At(t, "kill", r)
  /\ IF r \in finished THEN holder' = [holder EXCEPT ![r] = None] /\ Goto(t, "drop")
     ELSE /\ pc[func[r]] = "asleep" /\ Goto(func[r], "finish")
          /\ UNCHANGED holder
  /\ UNCHANGED <<kernel, session, mt, msg, list, interrupts, ctr, interrupted, func, finished>>

Drop(t, r) ==
  /\ At(t, "drop", r)
  /\ ctr' = [ctr EXCEPT ![r] = @ - 1]
  /\ Goto(t, "back")
  /\ UNCHANGED <<kernel, session, mt, msg, list, interrupts, interrupted, func, holder, finished>>

-----------------------------------------------------------------------------
Work(t) ==
  \/ Cancelled(t) \/ fuse_kern_chan_receive(t) \/ ReceiveFails(t)
  \/ Dispatch(t) \/ Back(t) \/ Post(t)
  \/ \E r \in Requests :
       \/ List(t, r) \/ fuse_do_prepare_interrupt(t, r) \/ Operation(t, r)
       \/ Finish(t, r) \/ Unhook(t, r) \/ fuse_free_req(t, r)
       \/ do_interrupt(t, r) \/ find_interrupted(t, r) \/ fuse_interrupt(t, r) \/ Drop(t, r)

Main == Start \/ MainCheck \/ MainWait \/ MainStop \/ MainJoin \/ fuse_join_worker

Kernel ==
  \/ \E r \in Requests : Send(r) \/ Interrupt(r)
  \/ \E how \in {"gone", "broken"} : Lose(how)

Next == Kernel \/ Signal \/ Main \/ \E t \in Threads : Work(t)

Spec == Init /\ [][Next]_vars

(* The scheduler runs every thread that can run; nothing makes the kernel  *)
(* send anything.                                                          *)
FairSpec == Spec /\ WF_vars(Main) /\ \A t \in Threads : WF_vars(Work(t))

-----------------------------------------------------------------------------
(* A request is freed when the last one who uses it lets go, no earlier    *)
(* and no later: its counter is that of its handler and of the interrupts  *)
(* that hold it.  While fuse_interrupt runs, the thread it signals is      *)
(* still inside the operation, and its struct fuse_intr_data on the stack. *)
RequestInUse ==
  /\ \A r \in Requests :
       ctr[r] = Cardinality(list \cap {r}) +
                Cardinality({t \in Threads : \E p \in {"hold", "kill", "drop"} : At(t, p, r)})
  /\ \A t \in Threads : pc[t] = "kill" =>
       \E o \in Threads, p \in {"operation", "asleep", "finish", "unhook"} :
         o # t /\ o = func[msg[t].req] /\ At(o, p, msg[t].req)

(* The main thread knows its workers: every worker it is going to join     *)
(* exists, all have been joined when the loop is left, and numavail is the *)
(* number of those that listen or handle a FORGET.  At least one does (an  *)
(* INTERRUPT must be read while the others wait), unless one could not be  *)
(* made, and never more than fuse_do_work allows.                          *)
WorkersKnown ==
  /\ joining # None => joining \in workers
  /\ \A t \in workers : pc[t] # "none"
  /\ main = "done" => \A t \in Threads : pc[t] = "none"
  /\ ~exited /\ main \in {"check", "enter", "wait"} =>
       /\ numavail = Cardinality({t \in workers : pc[t] \in {"receive", "got"} \/ IsForget(msg[t])})
       /\ numavail > 0 \/ failed
       /\ numavail <= MaxIdle

(* No interrupt is lost between the kernel, the threads and the two lists, *)
(* and none is kept for a request that is in the list already: until its   *)
(* request is answered it is on its way, kept, or noted in the request.    *)
InterruptKept ==
  /\ \A r \in asked : status[r] = "read" /\ device = "up" /\ ~exited /\ main # "done" =>
       \/ r \in interrupted \cup Range(interrupts)
       \/ Message("interrupt", r) \in queue
       \/ \E t \in Threads : \/ \E p \in {"got", "find", "hold"} : At(t, p, r) /\ msg[t].kind = "interrupt"
                             \/ pc[t] = "again" /\ msg[t].other = r
  /\ list \cap Range(interrupts) = {}

Sleeping == \E t \in Threads : pc[t] = "asleep"

(* The main thread sleeps and every other thread waits for a message.      *)
Unheard ==
  main = "wait" /\ finish = 0 /\ device = "up" /\ queue = {} /\ \A t \in workers : pc[t] = "receive"

(* An exited session or a lost device ends the loop, with all its threads: *)
(* but for an operation that sleeps, and for a signal nobody heard, until  *)
(* the next message comes.                                                 *)
LoopEnds == (exited \/ device # "up") ~> (main = "done" \/ Sleeping \/ Unheard)


(* What fuse_common.h:447 says of fuse_set_signal_handlers: "Exit session  *)
(* on HUP, TERM and INT signals".                                          *)
SignalEnds == exited ~> (main = "done" \/ Sleeping)

=============================================================================

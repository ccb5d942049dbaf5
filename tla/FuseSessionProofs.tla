-------------------------- MODULE FuseSessionProofs --------------------------
(***************************************************************************)
(* What FuseSession promises for any number of requests, of threads and of *)
(* idle threads: the reference counters of the requests, the threads       *)
(* fuse_session_loop_mt knows of, and the interrupts.                      *)
(***************************************************************************)
EXTENDS FuseSessionLemmas

(* The counter of a request is kept by those who use it.                   *)
LEMMA CountedStep ==
  ASSUME IInv, Next
  PROVE  Counted'
<1> DEFINE Holders(r) == {u \in Threads : Holds(u, r)}
<1>0. Counted /\ OneHandler /\ HeldAreListed /\ MessageFits /\ RequestTypes /\ MainTypes /\ MainPhase
  BY DEF IInv, TypeOK
<1>f. \A r \in Requests : IsFiniteSet(Holders(r)) /\ Cardinality(Holders(r)) \in Nat
  <2>1. SUFFICES ASSUME NEW r \in Requests PROVE IsFiniteSet(Holders(r)) /\ Cardinality(Holders(r)) \in Nat
    OBVIOUS
  <2>2. Holders(r) \in SUBSET workers
    BY <1>0 DEF MainPhase, Holds, Holding
  <2>. QED BY <1>0, <2>2, FS_Subset, FS_CardinalityType DEF MainTypes
<1>c. \A r \in Requests : ctr[r] = Cardinality(list \cap {r}) + Cardinality(Holders(r))
  BY <1>0 DEF Counted
<1>e. Cardinality({}) = 0 /\ \A r : Cardinality({r}) = 1
  BY FS_EmptySet, FS_Singleton, Zenon
<1>1. ASSUME \A u \in Threads, q \in Requests : Holds(u, q)' <=> Holds(u, q), UNCHANGED <<list, ctr>>
      PROVE  Counted'
  <2>1. \A q \in Requests : Holders(q)' = Holders(q)
    BY <1>1
  <2>. QED BY <1>1, <1>c, <2>1 DEF Counted
<1>2. ASSUME Kernel \/ Signal \/ Main \/ \E t \in Threads : Cancelled(t) \/ ReceiveFails(t) \/ Back(t) \/ Post(t)
      PROVE  Counted'
  <2>1. UNCHANGED <<list, ctr>> /\ \A u \in Threads : Rests(u)
    BY <1>2, QuietStep DEF reqs
  <2>. QED BY <1>1, <2>1 DEF Rests, Idle, Holds, Holding
<1>3. ASSUME NEW t \in Threads, Dispatch(t) PROVE Counted'
  <2>1. UNCHANGED <<list, ctr>>
    BY <1>3, DispatchStep DEF reqs
  <2>. QED BY <1>1, <1>3, <2>1, DispatchStep, Zenon DEF Rests, Idle, Holds, Holding
<1>4. ASSUME NEW t \in Threads, fuse_kern_chan_receive(t) PROVE Counted'
  BY <1>1, <1>4, ReceiveStep DEF Holds, Holding, reqs
<1>5. ASSUME NEW t \in Threads, NEW p, Moves(t, p), UNCHANGED <<list, ctr>>, pc[t] \in Holding <=> p \in Holding
      PROVE  Counted'
  BY <1>1, <1>5 DEF Moves, Holds
<1>6. ASSUME NEW t \in Threads, NEW r \in Requests,
             fuse_do_prepare_interrupt(t, r) \/ Operation(t, r) \/ Finish(t, r) \/ Unhook(t, r)
      PROVE  Counted'
  <2>1. pc[t] \in Listed /\ UNCHANGED <<list, ctr>>
    BY <1>6, Zenon DEF fuse_do_prepare_interrupt, Operation, Finish, Unhook, At, Listed, Hooked, reqs
  <2>2. \E p \in Listed : Moves(t, p)
    BY <1>6, HandlerMoves, Zenon DEF Listed, Hooked
  <2>. QED BY <1>5, <2>1, <2>2, Zenon DEF Listed, Hooked, Holding
<1>7. ASSUME NEW t \in Threads, NEW r \in Requests, find_interrupted(t, r) \/ fuse_interrupt(t, r)
      PROVE  Counted'
  <2>1. pc[t] \in Holding /\ UNCHANGED <<list, ctr>>
    BY <1>7, Zenon DEF find_interrupted, fuse_interrupt, At, Holding
  <2>2. \/ \E p \in Holding : Moves(t, p)
        \/ func[r] \in Threads /\ pc[func[r]] = "asleep" /\ Moves(func[r], "finish")
    BY <1>7, HandlerMoves DEF Holding
  <2>. QED BY <1>5, <2>1, <2>2, Zenon DEF Holding
<1>8. ASSUME NEW t \in Threads, NEW r \in Requests, List(t, r) PROVE Counted'
  <2>1. Moves(t, "again") /\ pc[t] = "list" /\ msg[t].req = r /\ list' = list \cup {r} /\ ctr' = [ctr EXCEPT ![r] = 1]
    BY <1>8, HandlerMoves, Zenon DEF List, At
  <2>2. Handles(t, r) /\ ~Lists(t, r)
    BY <1>0, <2>1 DEF MessageFits, Handles, Lists, Handling, Listed, Hooked
  <2>3. Holders(r) = {}
    BY <1>0, <2>2 DEF HeldAreListed
  <2>4. \A q \in Requests : Holders(q)' = Holders(q)
    BY <2>1 DEF Moves, Holds, Holding
  <2>5. \A q \in Requests : ctr'[q] = IF q = r THEN 1 ELSE ctr[q]
    BY <1>0, <2>1 DEF RequestTypes
  <2> HIDE DEF Holders
  <2>6. ASSUME NEW q \in Requests PROVE ctr'[q] = Cardinality(list' \cap {q}) + Cardinality(Holders(q)')
    <3>1. CASE q = r
      <4>1. list' \cap {r} = {r}
        BY <2>1
      <4>2. Cardinality(list' \cap {r}) = 1 /\ ctr'[r] = 1
        BY <1>e, <2>5, <4>1, Zenon
      <4>3. Cardinality(Holders(r)') = 0
        BY <1>e, <2>3, <2>4, Zenon
      <4>. QED BY <3>1, <4>2, <4>3
    <3>2. CASE q # r
      <4>1. list' \cap {q} = list \cap {q}
        BY <2>1, <3>2, Zenon
      <4>. QED BY <1>c, <2>4, <2>5, <3>2, <4>1, Zenon
    <3>. QED BY <3>1, <3>2
  <2>. QED BY <2>6 DEF Counted, Holders
<1>9. ASSUME NEW t \in Threads, NEW r \in Requests, fuse_free_req(t, r) PROVE Counted'
  <2>1. Moves(t, "back") /\ pc[t] = "free" /\ msg[t].req = r /\ list' = list \ {r} /\ ctr' = [ctr EXCEPT ![r] = @ - 1]
    BY <1>9, HandlerMoves, Zenon DEF fuse_free_req, At
  <2>2. r \in list
    BY <1>0, <2>1, Zenon DEF OneHandler, Lists, Listed
  <2>3. \A q \in Requests : Holders(q)' = Holders(q)
    BY <2>1 DEF Moves, Holds, Holding
  <2>4. \A q \in Requests : ctr'[q] = IF q = r THEN ctr[q] - 1 ELSE ctr[q]
    BY <1>0, <2>1, Zenon DEF RequestTypes
  <2> HIDE DEF Holders
  <2>6. ASSUME NEW q \in Requests PROVE ctr'[q] = Cardinality(list' \cap {q}) + Cardinality(Holders(q)')
    <3>1. CASE q = r
      <4>1. list' \cap {r} = {} /\ list \cap {r} = {r}
        BY <2>1, <2>2
      <4>2. ctr[r] = 1 + Cardinality(Holders(r)) /\ Cardinality(Holders(r)) \in Nat
        BY <1>c, <1>e, <1>f, <4>1, Zenon
      <4>3. ctr'[r] = ctr[r] - 1 /\ Holders(r)' = Holders(r) /\ Cardinality(list' \cap {r}) = 0
        BY <1>e, <2>3, <2>4, <4>1, Zenon
      <4>. QED BY <3>1, <4>2, <4>3
    <3>2. CASE q # r
      <4>1. list' \cap {q} = list \cap {q}
        BY <2>1, <3>2
      <4>. QED BY <1>c, <2>3, <2>4, <3>2, <4>1, Zenon
    <3>. QED BY <3>1, <3>2
  <2>. QED BY <2>6 DEF Counted, Holders
<1>10. ASSUME NEW t \in Threads, NEW r \in Requests, do_interrupt(t, r) PROVE Counted'
  <2>1. pc[t] = "find" /\ msg[t].req = r /\ list' = list
    BY <1>10 DEF do_interrupt, At
  <2>2. CASE r \notin list
    <3>1. Moves(t, "back") /\ ctr' = ctr
      BY <1>10, <2>2, HandlerMoves, Zenon DEF do_interrupt
    <3>. QED BY <1>5, <2>1, <3>1, Zenon DEF Holding
  <2>3. CASE r \in list
    <3>1. Moves(t, "hold") /\ ctr' = [ctr EXCEPT ![r] = @ + 1]
      BY <1>10, <2>3, HandlerMoves, Zenon DEF do_interrupt
    <3>2. \A q \in Requests : Holders(q)' = IF q = r THEN Holders(q) \cup {t} ELSE Holders(q)
      BY <2>1, <3>1, Zenon DEF Moves, Holds, Holding
    <3>3. t \notin Holders(r)
      BY <2>1 DEF Holds, Holding
    <3>4. \A q \in Requests : ctr'[q] = IF q = r THEN ctr[q] + 1 ELSE ctr[q]
      BY <1>0, <3>1, Zenon DEF RequestTypes
    <3>5. Cardinality(Holders(r) \cup {t}) = Cardinality(Holders(r)) + 1
      BY <1>f, <3>3, FS_AddElement, Zenon
    <3>6. \A q \in Requests : Cardinality(list \cap {q}) \in Nat
      BY <1>e
    <3> HIDE DEF Holders
    <3>7. ASSUME NEW q \in Requests PROVE ctr'[q] = Cardinality(list' \cap {q}) + Cardinality(Holders(q)')
      <4>1. CASE q = r
        <5>1. ctr'[r] = ctr[r] + 1 /\ Holders(r)' = Holders(r) \cup {t}
          BY <3>2, <3>4, Zenon
        <5>. QED BY <1>c, <1>f, <2>1, <3>5, <3>6, <4>1, <5>1
      <4>2. CASE q # r
        BY <1>c, <2>1, <3>2, <3>4, <4>2, Zenon
      <4>. QED BY <4>1, <4>2
    <3>. QED BY <3>7 DEF Counted, Holders
  <2>. QED BY <2>2, <2>3
<1>11. ASSUME NEW t \in Threads, NEW r \in Requests, Drop(t, r) PROVE Counted'
  <2>1. Moves(t, "back") /\ pc[t] = "drop" /\ msg[t].req = r /\ list' = list /\ ctr' = [ctr EXCEPT ![r] = @ - 1]
    BY <1>11, HandlerMoves, Zenon DEF Drop, At
  <2>2. \A q \in Requests : Holders(q)' = IF q = r THEN Holders(q) \ {t} ELSE Holders(q)
    BY <2>1, Zenon DEF Moves, Holds, Holding
  <2>3. t \in Holders(r)
    BY <2>1 DEF Holds, Holding
  <2>4. \A q \in Requests : ctr'[q] = IF q = r THEN ctr[q] - 1 ELSE ctr[q]
    BY <1>0, <2>1 DEF RequestTypes
  <2>5. Cardinality(Holders(r) \ {t}) = Cardinality(Holders(r)) - 1
    BY <1>f, <2>3, FS_RemoveElement, Zenon
  <2>6. \A q \in Requests : Cardinality(list \cap {q}) \in Nat
    BY <1>e
  <2> HIDE DEF Holders
  <2>7. ASSUME NEW q \in Requests PROVE ctr'[q] = Cardinality(list' \cap {q}) + Cardinality(Holders(q)')
    <3>1. CASE q = r
      <4>1. ctr'[r] = ctr[r] - 1 /\ Holders(r)' = Holders(r) \ {t}
        BY <2>2, <2>4, Zenon
      <4>. QED BY <1>c, <1>f, <2>1, <2>5, <2>6, <3>1, <4>1
    <3>2. CASE q # r
      BY <1>c, <2>1, <2>2, <2>4, <3>2
    <3>. QED BY <3>1, <3>2
  <2>. QED BY <2>7 DEF Counted, Holders
<1>. QED BY <1>2, <1>3, <1>4, <1>6, <1>7, <1>8, <1>9, <1>10, <1>11, Zenon DEF Next, Work

(* ... and the threads there are then: n are left to listen, and when that *)
(* is none, a thread is made or could not be made.                         *)
LEMMA DispatchThreads ==
  ASSUME IInv, NEW t \in Threads, Dispatch(t)
  PROVE  /\ UNCHANGED <<main, joining, exit, cancelled, exited, msg>>
         /\ pc[t] = "got" /\ pc'[t] # "none" /\ pc'[t] \notin {"receive", "got"}
         /\ ~exit => pc'[t] \notin {"post", "over"}
         /\ failed => failed'
         /\ \/ /\ workers' = workers /\ \A u \in Threads \ {t} : pc'[u] = pc[u]
               /\ exit \/ (numavail' = numavail - Busy(msg[t]) /\ (numavail - Busy(msg[t]) # 0 \/ failed'))
            \/ \E u \in Threads \ {t} :
                 /\ pc[u] = "none" /\ u \notin workers /\ workers' = workers \cup {u} /\ pc'[u] = Loop
                 /\ \A v \in Threads \ {t, u} : pc'[v] = pc[v]
                 /\ ~exit /\ numavail - Busy(msg[t]) = 0 /\ numavail' = 0 + 1
<1> DEFINE q == IF exit THEN "over" ELSE IF msg[t].kind = "request" THEN "list" ELSE "find"
           p == [pc EXCEPT ![t] = q]
           n == numavail - Busy(msg[t])
<1>0. ThreadTypes /\ TypeOK /\ MainPhase /\ pc[t] = "got"
  BY Zenon DEF IInv, TypeOK, Dispatch
<1>1. UNCHANGED <<main, joining, exit, cancelled, exited, msg>>
  BY DEF Dispatch, session
<1>2. q # "none" /\ q \notin {"receive", "got"} /\ (~exit => q \notin {"post", "over"})
  OBVIOUS
<1>3. p[t] = q /\ \A u \in Threads \ {t} : p[u] = pc[u]
  BY <1>0 DEF ThreadTypes
<1>4. p \in [Threads -> Places \cup {q}]
  BY <1>0 DEF ThreadTypes
<1>5. \/ fuse_loop_start_thread(n, p) /\ ~exit /\ n = 0
      \/ /\ workers' = workers /\ failed' = failed /\ pc' = p
         /\ exit \/ (numavail' = n /\ n # 0)
  BY Zenon DEF Dispatch
<1> HIDE DEF p, n, q
<1>6. CASE /\ workers' = workers /\ failed' = failed /\ pc' = p
           /\ exit \/ (numavail' = n /\ n # 0)
  BY <1>0, <1>1, <1>2, <1>3, <1>6, Zenon DEF n
<1>7. CASE fuse_loop_start_thread(n, p) /\ ~exit /\ n = 0
  <2>1. CASE failed' = TRUE /\ numavail' = n /\ pc' = p /\ workers' = workers
    BY <1>0, <1>1, <1>2, <1>3, <2>1, Zenon DEF n
  <2>2. ASSUME NEW u \in Threads,
               /\ pc[u] = "none" /\ u \notin workers /\ workers' = workers \cup {u}
               /\ pc' = [p EXCEPT ![u] = Loop] /\ numavail' = n + 1 /\ failed' = failed
        PROVE  /\ pc'[t] = q /\ u # t /\ pc'[u] = Loop
               /\ \A v \in Threads \ {t, u} : pc'[v] = pc[v]
    BY <1>0, <1>3, <1>4, <2>2, Zenon
  <2>. QED BY <1>0, <1>1, <1>2, <1>7, <2>1, <2>2, NewThread, Zenon DEF n
<1>. QED BY <1>5, <1>6, <1>7, Zenon

(* The main thread's list of threads.                                      *)
LEMMA MainPhaseStep ==
  ASSUME IInv, Next
  PROVE  MainPhase'
<1>0. MainPhase /\ MainTypes /\ ThreadTypes /\ TypeOK /\ None \notin Threads
  BY FuseSessionAssumption DEF IInv, TypeOK
<1>1. ASSUME UNCHANGED <<main, joining, exit, workers, cancelled, exited>>,
             \A u \in Threads : /\ pc'[u] = "none" <=> pc[u] = "none"
                                /\ pc'[u] \in {"post", "over"} => pc[u] \in {"post", "over"} \/ exited
      PROVE  MainPhase'
  <2>1. workers' = {u \in Threads : pc'[u] # "none"}
    BY <1>0, <1>1, Zenon DEF MainPhase
  <2>. QED BY <1>0, <1>1, <2>1, Zenon DEF MainPhase
<1>2. CASE Kernel
  BY <1>1, <1>2, Zenon DEF Kernel, Send, Interrupt, Lose, session, mt
<1>3. CASE Signal
  BY <1>0, <1>3 DEF Signal, MainPhase
<1>4. CASE Start
  <2>1. UNCHANGED <<joining, exit, cancelled, exited>> /\ main = "start" /\ workers = {}
    BY <1>0, <1>4 DEF Start, session, MainPhase
  <2>2. main' = IF workers' = {} THEN "done" ELSE "check"
    BY <1>4 DEF Start
  <2>3. CASE pc' = pc /\ workers' = workers
    BY <1>0, <2>1, <2>2, <2>3, Zenon DEF MainPhase
  <2>4. ASSUME NEW u \in Threads, pc[u] = "none", workers' = workers \cup {u}, pc' = [pc EXCEPT ![u] = Loop]
        PROVE  MainPhase'
    <3>1. \A v \in Threads : pc'[v] = IF v = u THEN Loop ELSE "none"
      BY <1>0, <2>1, <2>4, Zenon DEF ThreadTypes, MainPhase
    <3>2. Loop # "none" /\ (~exited => Loop = "receive")
      BY DEF Loop
    <3>3. workers' = {v \in Threads : pc'[v] # "none"}
      BY <2>1, <2>4, <3>1, <3>2, Zenon
    <3>. QED BY <1>0, <2>1, <2>2, <2>4, <3>1, <3>2, <3>3, Zenon DEF MainPhase
  <2>. QED BY <1>0, <1>4, <2>3, <2>4, NewThread, Zenon DEF Start
<1>5. CASE MainCheck \/ MainWait
  BY <1>0, <1>5 DEF MainCheck, MainWait, MainPhase, session
<1>6. CASE MainStop
  BY <1>0, <1>6 DEF MainStop, MainPhase, session
<1>7. CASE MainJoin
  <2>1. workers # {} => Min(workers) \in workers
    BY <1>0, MinInSet, FuseSessionAssumption, Zenon DEF MainTypes
  <2>2. UNCHANGED <<exit, workers, cancelled, pc>>
    BY <1>7, Zenon DEF MainJoin
  <2>3. CASE workers # {}
    BY <1>0, <1>7, <2>1, <2>2, <2>3 DEF MainJoin, MainPhase
  <2>4. CASE workers = {}
    <3>1. main' = "done" /\ exited' = FALSE /\ joining' = None /\ \A u \in Threads : pc[u] = "none"
      BY <1>0, <1>7, <2>4, Zenon DEF MainJoin, MainPhase
    <3>. QED BY <1>0, <2>2, <2>4, <3>1 DEF MainPhase
  <2>. QED BY <2>3, <2>4
<1>8. CASE fuse_join_worker
  <2>1. joining \in Threads /\ workers' = workers \ {joining} /\ pc' = [pc EXCEPT ![joining] = "none"]
    BY <1>0, <1>8 DEF fuse_join_worker, MainTypes, Goto
  <2>2. joining' = None /\ main = "join" /\ UNCHANGED <<main, exit, cancelled, exited>>
    BY <1>8 DEF fuse_join_worker, session
  <2>3. workers' = {u \in Threads : pc'[u] # "none"}
    BY <1>0, <2>1, Zenon DEF MainPhase, ThreadTypes
  <2>. QED BY <1>0, <2>2, <2>3, Zenon DEF MainPhase
<1>9. ASSUME NEW t \in Threads, Cancelled(t) PROVE MainPhase'
  <2>1. pc[t] = "receive" /\ t \in cancelled /\ pc' = [pc EXCEPT ![t] = "over"]
        /\ UNCHANGED <<main, joining, exit, workers, cancelled, exited>>
    BY <1>9 DEF Cancelled, Goto, session, mt
  <2>2. exited
    BY <1>0, <2>1, Zenon DEF MainPhase
  <2>. QED BY <1>0, <1>1, <2>1, <2>2, Zenon DEF ThreadTypes
<1>10. ASSUME NEW t \in Threads, fuse_kern_chan_receive(t) PROVE MainPhase'
  BY <1>1, <1>10, ReceiveStep, Zenon DEF session, mt
<1>11. ASSUME NEW t \in Threads, ReceiveFails(t) PROVE MainPhase'
  <2>1. pc[t] = "receive" /\ exited' = TRUE /\ pc' = [pc EXCEPT ![t] = "post"]
        /\ UNCHANGED <<main, joining, exit, workers, cancelled>>
    BY <1>11 DEF ReceiveFails, Goto, mt
  <2>2. workers' = {u \in Threads : pc'[u] # "none"}
    BY <1>0, <2>1, Zenon DEF MainPhase, ThreadTypes
  <2>. QED BY <1>0, <2>1, <2>2, Zenon DEF MainPhase
<1>12. ASSUME NEW t \in Threads, Post(t) PROVE MainPhase'
  BY <1>0, <1>1, <1>12, Zenon DEF Post, Goto, session, ThreadTypes, MainPhase
<1>13. ASSUME NEW t \in Threads, Dispatch(t) PROVE MainPhase'
  <2>1. /\ UNCHANGED <<main, joining, exit, cancelled, exited>>
        /\ pc[t] = "got" /\ pc'[t] # "none" /\ (~exit => pc'[t] \notin {"post", "over"})
    BY <1>13, DispatchThreads, Zenon
  <2>2. exit => exited
    BY <1>0, <2>1 DEF MainPhase
  <2>3. CASE workers' = workers /\ \A u \in Threads \ {t} : pc'[u] = pc[u]
    BY <1>1, <2>1, <2>2, <2>3, Zenon
  <2>4. ASSUME NEW u \in Threads \ {t}, pc[u] = "none", workers' = workers \cup {u}, pc'[u] = Loop,
               \A v \in Threads \ {t, u} : pc'[v] = pc[v]
        PROVE  MainPhase'
    <3>1. Loop # "none" /\ (~exited => Loop = "receive")
      BY DEF Loop
    <3>2. workers' = {v \in Threads : pc'[v] # "none"}
      BY <1>0, <2>1, <2>4, <3>1, Zenon DEF MainPhase
    <3>3. main \notin {"start", "done"}
      BY <1>0, <2>1, Zenon DEF MainPhase
    <3>4. ~exited => \A v \in Threads : pc'[v] \notin {"post", "over"}
      BY <1>0, <2>1, <2>2, <2>4, <3>1, Zenon DEF MainPhase
    <3>. QED BY <1>0, <2>1, <2>4, <3>2, <3>3, <3>4, Zenon DEF MainPhase
  <2>. QED BY <1>13, <2>3, <2>4, DispatchThreads, Zenon
<1>14. ASSUME NEW t \in Threads, Back(t) PROVE MainPhase'
  <2>1. UNCHANGED <<main, joining, exit, cancelled, exited>> /\ pc[t] = "back"
    BY <1>14 DEF Back, session
  <2>2. Loop # "none" /\ (~exited => Loop = "receive")
    BY DEF Loop
  <2>3. exit => exited
    BY <1>0, <2>1, Zenon DEF MainPhase
  <2>4. CASE workers' = workers /\ (Goto(t, Loop) \/ (exit /\ Goto(t, "over")))
    BY <1>0, <1>1, <2>1, <2>2, <2>3, <2>4, Zenon DEF Goto, ThreadTypes
  <2>5. CASE ~exit /\ Goto(t, "none") /\ workers' = workers \ {t}
    <3>1. workers' = {u \in Threads : pc'[u] # "none"}
      BY <1>0, <2>5, Zenon DEF MainPhase, Goto, ThreadTypes
    <3>2. main \notin {"start", "done"} /\ joining = None
      BY <1>0, <2>1, <2>5, Zenon DEF MainPhase
    <3>3. ~exited => \A v \in Threads : pc'[v] \notin {"post", "over"}
      BY <1>0, <2>5, Zenon DEF MainPhase, Goto, ThreadTypes
    <3>. QED BY <1>0, <2>1, <2>5, <3>1, <3>2, <3>3, Zenon DEF MainPhase
  <2>. QED BY <1>14, <2>4, <2>5, Zenon DEF Back
<1>15. ASSUME NEW t \in Threads, NEW p, Moves(t, p), pc[t] # "none", p \notin {"none", "post", "over"},
              UNCHANGED <<session, mt>>
       PROVE  MainPhase'
  BY <1>1, <1>15, Zenon DEF Moves, session, mt
<1>16. ASSUME NEW t \in Threads, NEW r \in Requests,
              \/ List(t, r) \/ fuse_do_prepare_interrupt(t, r) \/ Operation(t, r)
              \/ Finish(t, r) \/ Unhook(t, r) \/ fuse_free_req(t, r)
              \/ do_interrupt(t, r) \/ find_interrupted(t, r) \/ fuse_interrupt(t, r) \/ Drop(t, r)
       PROVE  MainPhase'
  <2>1. UNCHANGED <<session, mt>> /\ pc[t] # "none"
    BY <1>16, Zenon DEF List, fuse_do_prepare_interrupt, Operation, Finish, Unhook, fuse_free_req, do_interrupt,
                 find_interrupted, fuse_interrupt, Drop, At
  <2>2. \E u \in Threads : \E p : Moves(u, p) /\ pc[u] # "none" /\ p \notin {"none", "post", "over"}
    BY <1>16, <2>1, HandlerMoves
  <2>. QED BY <1>15, <2>1, <2>2, Zenon
<1>. QED BY <1>2, <1>3, <1>4, <1>5, <1>6, <1>7, <1>8, <1>9, <1>10, <1>11, <1>12, <1>13, <1>14, <1>16, Zenon DEF Next, Main, Work

(* mt->numavail is the number of threads that listen or handle a FORGET.   *)
LEMMA AvailableStep ==
  ASSUME IInv, Next
  PROVE  AvailableKnown'
<1> DEFINE Awake == ~exited /\ main \in {"check", "enter", "wait"}
           Free(u) == pc[u] \in {"receive", "got"} \/ IsForget(msg[u])
<1>0. /\ AvailableKnown /\ MainPhase /\ MainTypes /\ ThreadTypes /\ TypeOK /\ MessageFits
      /\ MaxIdle \in Nat \ {0} /\ workers \subseteq Threads
  BY FuseSessionAssumption DEF IInv, TypeOK, MainTypes
<1>f. IsFiniteSet(Available) /\ Cardinality(Available) \in Nat
  <2>1. Available \in SUBSET workers
    BY DEF Available
  <2>. QED BY <1>0, <2>1, FS_Subset, FS_CardinalityType, Zenon DEF MainTypes
<1>k. Awake => numavail = Cardinality(Available) /\ (numavail > 0 \/ failed) /\ numavail <= MaxIdle
  BY <1>0, Zenon DEF AvailableKnown
<1>1. ASSUME Awake' => Awake, UNCHANGED <<workers, numavail, failed>>,
             Awake => \A u \in workers : Free(u)' <=> Free(u)
      PROVE  AvailableKnown'
  <2>1. Awake => Available' = Available
    BY <1>1 DEF Available
  <2>. QED BY <1>1, <1>k, <2>1, Zenon DEF AvailableKnown
<1>2. ASSUME ~Awake' PROVE AvailableKnown'
  BY <1>2, Zenon DEF AvailableKnown
<1>3. CASE Kernel
  BY <1>1, <1>3, Zenon DEF Kernel, Send, Interrupt, Lose, session, mt
<1>4. CASE Signal
  BY <1>2, <1>4 DEF Signal
<1>5. CASE Start
  <2>1. workers = {} /\ UNCHANGED <<msg, exited>> /\ main' = IF workers' = {} THEN "done" ELSE "check"
    BY <1>0, <1>5, Zenon DEF Start, MainPhase, session
  <2>2. CASE workers' = workers
    BY <1>2, <2>1, <2>2, Zenon
  <2>3. ASSUME NEW u \in Threads, workers' = workers \cup {u}, pc' = [pc EXCEPT ![u] = Loop], numavail' = 0 + 1,
               ~exited'
        PROVE  AvailableKnown'
    <3>1. pc'[u] = "receive" /\ workers' = {u}
      BY <1>0, <2>1, <2>3, Zenon DEF Loop, ThreadTypes
    <3>2. Available' = {u}
      BY <3>1 DEF Available
    <3>3. Cardinality(Available') = 1
      BY <3>2, FS_Singleton
    <3>. QED BY <1>0, <2>3, <3>3 DEF AvailableKnown
  <2>. QED BY <1>0, <1>2, <1>5, <2>2, <2>3, NewThread, Zenon DEF Start
<1>6. CASE MainCheck \/ MainWait
  BY <1>0, <1>1, <1>2, <1>6, Zenon DEF MainCheck, MainWait, session, MainPhase
<1>7. CASE MainStop \/ MainJoin \/ fuse_join_worker
  BY <1>2, <1>7, Zenon DEF MainStop, MainJoin, fuse_join_worker
<1>8. ASSUME NEW t \in Threads, Cancelled(t) PROVE AvailableKnown'
  BY <1>0, <1>2, <1>8, Zenon DEF Cancelled, MainPhase, mt
<1>9. ASSUME NEW t \in Threads, fuse_kern_chan_receive(t) PROVE AvailableKnown'
  <2>1. UNCHANGED <<session, mt>> /\ pc[t] = "receive" /\ (~exited => pc'[t] = "got")
        /\ \A u \in Threads \ {t} : pc'[u] = pc[u] /\ msg'[u] = msg[u]
    BY <1>9, ReceiveStep, Zenon
  <2>2. Awake => \A u \in workers : Free(u)' <=> Free(u)
    BY <1>0, <2>1, Zenon
  <2>. QED BY <1>1, <2>1, <2>2, Zenon DEF session, mt
<1>10. ASSUME NEW t \in Threads, ReceiveFails(t) PROVE AvailableKnown'
  BY <1>2, <1>10, Zenon DEF ReceiveFails
<1>11. ASSUME NEW t \in Threads, Post(t) PROVE AvailableKnown'
  BY <1>0, <1>2, <1>11, Zenon DEF Post, MainPhase, session
<1>12. ASSUME NEW t \in Threads, NEW p, Moves(t, p), pc[t] \notin {"receive", "got"}, p \notin {"receive", "got"},
              UNCHANGED <<session, mt>>
       PROVE  AvailableKnown'
  <2>1. \A u \in workers : Free(u)' <=> Free(u)
    BY <1>0, <1>12, Zenon DEF Moves, IsForget
  <2>. QED BY <1>1, <1>12, <2>1, Zenon DEF session, mt
<1>13. ASSUME NEW t \in Threads, NEW r \in Requests,
              \/ List(t, r) \/ fuse_do_prepare_interrupt(t, r) \/ Operation(t, r)
              \/ Finish(t, r) \/ Unhook(t, r) \/ fuse_free_req(t, r)
              \/ do_interrupt(t, r) \/ find_interrupted(t, r) \/ fuse_interrupt(t, r) \/ Drop(t, r)
       PROVE  AvailableKnown'
  <2>1. UNCHANGED <<session, mt>> /\ pc[t] \notin {"receive", "got"}
    BY <1>13, Zenon DEF List, fuse_do_prepare_interrupt, Operation, Finish, Unhook, fuse_free_req, do_interrupt,
                 find_interrupted, fuse_interrupt, Drop, At
  <2>2. \E u \in Threads : \E p : Moves(u, p) /\ pc[u] \notin {"receive", "got"} /\ p \notin {"receive", "got"}
    BY <1>13, <2>1, HandlerMoves
  <2>. QED BY <1>12, <2>1, <2>2, Zenon
<1>14. ASSUME NEW t \in Threads, Dispatch(t), Awake PROVE AvailableKnown'
  <2> DEFINE n == numavail - Busy(msg[t])
             Left == IF IsForget(msg[t]) THEN Available ELSE Available \ {t}
  <2>1. ~exit /\ UNCHANGED <<msg, main, exited>> /\ pc[t] = "got" /\ pc'[t] \notin {"receive", "got"}
        /\ t \in Available /\ (failed => failed')
    BY <1>0, <1>14, DispatchThreads, Zenon DEF MainPhase, Available
  <2>2. n = Cardinality(Left) /\ IsFiniteSet(Left) /\ n \in Nat /\ n <= MaxIdle
    <3>1. numavail = Cardinality(Available) /\ numavail \in Nat /\ numavail <= MaxIdle
      BY <1>14, <1>f, <1>k, Zenon
    <3>2. CASE IsForget(msg[t])
      BY <1>f, <3>1, <3>2 DEF Busy
    <3>3. CASE ~IsForget(msg[t])
      <4>1. Left = Available \ {t} /\ n = numavail - 1
        BY <3>3 DEF Busy
      <4>2. IsFiniteSet(Left) /\ Cardinality(Left) = Cardinality(Available) - 1 /\ Cardinality(Left) \in Nat
        BY <1>f, <2>1, <4>1, FS_RemoveElement, FS_CardinalityType, Zenon
      <4> HIDE DEF Left, n
      <4>. QED BY <1>0, <3>1, <4>1, <4>2
    <3>. QED BY <3>2, <3>3, Zenon
  <2>3. CASE /\ workers' = workers /\ \A u \in Threads \ {t} : pc'[u] = pc[u]
             /\ exit \/ (numavail' = numavail - Busy(msg[t]) /\ (numavail - Busy(msg[t]) # 0 \/ failed'))
    <3>1. Available' = Left
      BY <1>0, <2>1, <2>3, Zenon DEF Available
    <3> HIDE DEF Left
    <3>. QED BY <2>1, <2>2, <2>3, <3>1 DEF AvailableKnown
  <2>4. ASSUME NEW u \in Threads \ {t},
               /\ pc[u] = "none" /\ u \notin workers /\ workers' = workers \cup {u} /\ pc'[u] = Loop
               /\ \A v \in Threads \ {t, u} : pc'[v] = pc[v]
               /\ ~exit /\ numavail - Busy(msg[t]) = 0 /\ numavail' = 0 + 1
        PROVE  AvailableKnown'
    <3>1. Loop = "receive"
      BY <1>14, Zenon DEF Loop
    <3>2. Available' = Left \cup {u}
      BY <1>0, <2>1, <2>4, <3>1, Zenon DEF Available
    <3>3. u \notin Left
      BY <2>4, Zenon DEF Available
    <3> HIDE DEF Left
    <3>4. Cardinality(Left \cup {u}) = Cardinality(Left) + 1 /\ Cardinality(Left) = 0
      BY <2>2, <2>4, <3>3, FS_AddElement, Zenon
    <3>5. Cardinality(Available') = 1
      BY <3>2, <3>4
    <3>. QED BY <1>0, <2>4, <3>5 DEF AvailableKnown
  <2>. QED BY <1>14, <2>3, <2>4, DispatchThreads, Zenon
<1>15. ASSUME NEW t \in Threads, Back(t), Awake PROVE AvailableKnown'
  <2> DEFINE n == numavail + Busy(msg[t])
  <2>1. ~exit /\ UNCHANGED <<main, exited, failed>> /\ pc[t] = "back" /\ msg' = [msg EXCEPT ![t] = None] /\ Loop = "receive"
    BY <1>0, <1>15, Zenon DEF MainPhase, Back, session, Loop
  <2>2. t \in workers /\ (t \in Available <=> IsForget(msg[t]))
    BY <1>0, <2>1, Zenon DEF MainPhase, Available
  <2>3. CASE n <= MaxIdle /\ numavail' = n /\ Goto(t, Loop) /\ workers' = workers
    <3>1. Available' = Available \cup {t}
      BY <1>0, <2>1, <2>2, <2>3, Zenon DEF Available, Goto, ThreadTypes
    <3>2. Cardinality(Available \cup {t}) = n
      <4>1. Cardinality(Available \cup {t}) = IF t \in Available THEN Cardinality(Available) ELSE Cardinality(Available) + 1
        BY <1>f, FS_AddElement, Zenon
      <4>2. numavail = Cardinality(Available) /\ Busy(msg[t]) = IF t \in Available THEN 0 ELSE 1
        BY <1>15, <1>k, <2>2, Zenon DEF Busy
      <4>. QED BY <1>f, <4>1, <4>2
    <3>3. n > 0
      <4>1. Available \cup {t} # {} /\ IsFiniteSet(Available \cup {t})
        BY <1>f, FS_AddElement, Zenon
      <4>2. Cardinality(Available \cup {t}) \in Nat \ {0}
        BY <4>1, FS_EmptySet, FS_CardinalityType, Zenon
      <4>. QED BY <3>2, <4>2
    <3>. QED BY <2>3, <3>1, <3>2, <3>3, Zenon DEF AvailableKnown
  <2>4. CASE n > MaxIdle /\ numavail' = n - 1 /\ Goto(t, "none") /\ workers' = workers \ {t}
    <3>1. Available' = Available \ {t}
      BY <1>0, <2>1, <2>2, <2>4, Zenon DEF Available, Goto, ThreadTypes
    <3>2. Cardinality(Available \ {t}) = n - 1 /\ n \in Int /\ n <= MaxIdle + 1
      <4>1. Cardinality(Available \ {t}) = IF t \in Available THEN Cardinality(Available) - 1 ELSE Cardinality(Available)
        BY <1>f, FS_RemoveElement, Zenon
      <4>2. /\ numavail = Cardinality(Available) /\ numavail <= MaxIdle
            /\ Busy(msg[t]) = IF t \in Available THEN 0 ELSE 1
        BY <1>15, <1>k, <2>2, Zenon DEF Busy
      <4>. QED BY <1>0, <1>f, <4>1, <4>2
    <3> HIDE DEF n
    <3>. QED BY <1>0, <2>4, <3>1, <3>2 DEF AvailableKnown
  <2>. QED BY <1>15, <2>1, <2>3, <2>4, Zenon DEF Back
<1>16. ASSUME NEW t \in Threads, Dispatch(t) \/ Back(t), ~Awake PROVE AvailableKnown'
  BY <1>2, <1>16 DEF Dispatch, Back, session
<1>. QED BY <1>3, <1>4, <1>5, <1>6, <1>7, <1>8, <1>9, <1>10, <1>11, <1>13, <1>14, <1>15, <1>16, Zenon DEF Next, Main, Work

(* An interrupt is on its way to its request, or has come there.           *)
Tracks(t, r) ==
  \/ pc[t] \in {"got", "find", "hold"} /\ msg[t].req = r /\ msg[t].kind = "interrupt"
  \/ pc[t] = "again" /\ msg[t].other = r

OnItsWay(r) ==
  \/ r \in interrupted \cup Range(interrupts) \/ Message("interrupt", r) \in queue
  \/ \E t \in Threads : Tracks(t, r)

Wanted(r) == r \in asked /\ status[r] = "read" /\ device = "up" /\ ~exited /\ main # "done"

(* What is asked for has been asked before, and nothing that has ended     *)
(* begins again.                                                           *)
LEMMA WantedStep ==
  ASSUME IInv, Next, NEW r \in Requests, Wanted(r)'
  PROVE  Wanted(r) \/ Interrupt(r)
<1>0. MainPhase /\ InterruptsKnown /\ KernelTypes /\ OneHandler
  BY DEF IInv, TypeOK
<1>1. UNCHANGED <<asked, status, device, exited, main>> => Wanted(r)
  BY DEF Wanted
<1>2. ASSUME NEW q \in Requests, Send(q) \/ Interrupt(q) PROVE Wanted(r) \/ Interrupt(r)
  BY <1>0, <1>2 DEF Send, Interrupt, Wanted, KernelTypes, session, mt
<1>3. ASSUME NEW how \in {"gone", "broken"}, Lose(how) PROVE FALSE
  BY <1>3 DEF Lose, Wanted
<1>4. ~Signal
  BY Zenon DEF Signal, Wanted
<1>5. CASE Main
  BY <1>5 DEF Main, Start, MainCheck, MainWait, MainStop, MainJoin, fuse_join_worker, Wanted, kernel, session
<1>6. ASSUME NEW t \in Threads, Cancelled(t) \/ Dispatch(t) \/ Back(t) \/ Post(t) PROVE Wanted(r)
  BY <1>1, <1>6, Zenon DEF Cancelled, Dispatch, Back, Post, kernel, session, mt
<1>7. ASSUME NEW t \in Threads, fuse_kern_chan_receive(t) PROVE Wanted(r)
  <2>1. PICK m \in queue : /\ status' = IF m.kind = "request" THEN [status EXCEPT ![m.req] = "read"] ELSE status
                           /\ UNCHANGED <<asked, device, session, mt>>
    BY <1>7, Zenon DEF fuse_kern_chan_receive
  <2>2. m.kind = "request" => status[m.req] = "sent"
    BY <1>0, Zenon DEF OneHandler
  <2>3. r \in asked /\ status[r] \in {"read", "answered"}
    BY <1>0, <2>1, Zenon DEF Wanted, InterruptsKnown
  <2>4. status'[r] = status[r]
    BY <1>0, <2>1, <2>2, <2>3 DEF KernelTypes
  <2>. QED BY <2>1, <2>3, <2>4 DEF Wanted, session, mt
<1>8. ASSUME NEW t \in Threads, ReceiveFails(t) PROVE FALSE
  BY <1>8, Zenon DEF ReceiveFails, Wanted
<1>9. ASSUME NEW t \in Threads, NEW q \in Requests,
             \/ List(t, q) \/ fuse_do_prepare_interrupt(t, q) \/ Operation(t, q) \/ Finish(t, q) \/ Unhook(t, q)
             \/ do_interrupt(t, q) \/ find_interrupted(t, q) \/ fuse_interrupt(t, q) \/ Drop(t, q)
      PROVE  Wanted(r)
  BY <1>1, <1>9, Zenon DEF List, fuse_do_prepare_interrupt, Operation, Finish, Unhook, do_interrupt, find_interrupted,
                    fuse_interrupt, Drop, kernel, session, mt
<1>10. ASSUME NEW t \in Threads, NEW q \in Requests, fuse_free_req(t, q) PROVE Wanted(r)
  BY <1>0, <1>10 DEF fuse_free_req, Wanted, KernelTypes, session, mt
<1>. QED BY <1>2, <1>3, <1>4, <1>5, <1>6, <1>7, <1>8, <1>9, <1>10, Zenon DEF Next, Kernel, Work

(* No interrupt is lost between the kernel, the threads and the lists.     *)
LEMMA OnItsWayStep ==
  ASSUME IInv, Next, NEW r \in Requests, Wanted(r), OnItsWay(r), Wanted(r)'
  PROVE  OnItsWay(r)'
<1>0. MainPhase /\ InterruptsKnown /\ KernelTypes /\ RequestTypes /\ TypeOK /\ MessageFits /\ None \notin Requests
  BY FuseSessionAssumption, Zenon DEF IInv, TypeOK, Requests
<1>1. ASSUME r \in interrupted => r \in interrupted', Range(interrupts) \subseteq Range(interrupts'),
             Message("interrupt", r) \in queue => Message("interrupt", r) \in queue',
             \A u \in Threads : Tracks(u, r) => Tracks(u, r)'
      PROVE  OnItsWay(r)'
  BY <1>1, Zenon DEF OnItsWay
<1>2. ASSUME Kernel \/ Signal \/ Main \/ \E t \in Threads : Cancelled(t) \/ ReceiveFails(t) \/ Back(t) \/ Post(t)
      PROVE  OnItsWay(r)'
  <2>1. UNCHANGED <<interrupted, interrupts>> /\ \A u \in Threads : Rests(u)
    BY <1>2, QuietStep, Zenon DEF reqs
  <2>2. \A u \in Threads : Tracks(u, r) => Tracks(u, r)'
    BY <2>1, Zenon DEF Rests, Idle, Tracks
  <2>3. queue \subseteq queue'
    <3>1. CASE Kernel
      BY <3>1 DEF Kernel, Send, Interrupt, Lose, Wanted
    <3>2. CASE ~Kernel
      BY <1>2, <3>2, Zenon DEF Signal, Main, Start, MainCheck, MainWait, MainStop, MainJoin, fuse_join_worker, Cancelled,
                        ReceiveFails, Back, Post, kernel
    <3>. QED BY <3>1, <3>2, Zenon
  <2>. QED BY <1>1, <2>1, <2>2, <2>3, Zenon
<1>3. ASSUME NEW t \in Threads, Dispatch(t) PROVE OnItsWay(r)'
  <2>1. UNCHANGED <<queue, interrupted, interrupts>> /\ pc[t] = "got" /\ msg' = msg
    BY <1>3, DispatchStep, Zenon DEF kernel, reqs
  <2>2. ~exit
    BY <1>0, <2>1, Zenon DEF MainPhase, Wanted
  <2>3. pc'[t] # "over"
    BY <1>3, <2>2, DispatchThreads, Zenon
  <2>4. \A u \in Threads : Tracks(u, r) => Tracks(u, r)'
    BY <1>3, <2>1, <2>3, DispatchStep, Zenon DEF Rests, Idle, Tracks
  <2>. QED BY <1>1, <2>1, <2>4, Zenon
<1>4. ASSUME NEW t \in Threads, fuse_kern_chan_receive(t) PROVE OnItsWay(r)'
  <2>1. PICK m \in queue :
          /\ queue' = queue \ {m} /\ msg'[t] = m /\ pc[t] = "receive" /\ pc'[t] = (IF exited THEN "post" ELSE "got")
          /\ \A u \in Threads \ {t} : pc'[u] = pc[u] /\ msg'[u] = msg[u]
          /\ UNCHANGED <<interrupted, interrupts>>
    BY <1>4, ReceiveStep, Zenon DEF reqs
  <2>2. \A u \in Threads : Tracks(u, r) => Tracks(u, r)'
    BY <2>1, Zenon DEF Tracks
  <2>3. CASE m = Message("interrupt", r)
    <3>1. m.kind = "interrupt" /\ m.req = r
      BY <2>3 DEF Message
    <3>2. Tracks(t, r)'
      BY <2>1, <3>1, Zenon DEF Tracks, Wanted
    <3>. QED BY <3>2, Zenon DEF OnItsWay
  <2>4. CASE m # Message("interrupt", r)
    BY <1>1, <2>1, <2>2, <2>4, Zenon
  <2>. QED BY <2>3, <2>4, Zenon
<1>5. ASSUME NEW t \in Threads, NEW p, Moves(t, p), UNCHANGED <<interrupted, interrupts, queue>>,
             pc[t] \notin {"got", "find", "hold", "again"}
      PROVE  OnItsWay(r)'
  <2>1. \A u \in Threads : Tracks(u, r) => Tracks(u, r)'
    BY <1>5, Zenon DEF Moves, Tracks
  <2>. QED BY <1>1, <1>5, <2>1, Zenon
<1>6. ASSUME NEW t \in Threads, NEW q \in Requests,
             \/ Operation(t, q) \/ Finish(t, q) \/ Unhook(t, q) \/ fuse_free_req(t, q)
             \/ fuse_interrupt(t, q) \/ Drop(t, q)
      PROVE  OnItsWay(r)'
  <2>1. UNCHANGED <<interrupted, interrupts, queue>> /\ pc[t] \notin {"got", "find", "hold", "again"}
    BY <1>6, Zenon DEF Operation, Finish, Unhook, fuse_free_req, fuse_interrupt, Drop, At, kernel, reqs
  <2>2. \E u \in Threads : \E p : Moves(u, p) /\ pc[u] \notin {"got", "find", "hold", "again"}
    BY <1>6, <2>1, HandlerMoves, Zenon
  <2>. QED BY <1>5, <2>1, <2>2, Zenon
<1>7. ASSUME NEW t \in Threads, NEW q \in Requests, List(t, q) PROVE OnItsWay(r)'
  <2>1. PICK o \in Requests \cup {None} :
          /\ msg' = [msg EXCEPT ![t].other = o]
          /\ interrupted' \in {interrupted, interrupted \cup {q}}
          /\ \A x \in Range(interrupts) : x \in Range(interrupts') \/ x = o \/ (x = q /\ q \in interrupted')
    BY <1>0, <1>7, ListTakes, Zenon
  <2>2. pc[t] = "list" /\ Moves(t, "again") /\ queue' = queue
    BY <1>7, HandlerMoves, Zenon DEF List, At, kernel
  <2>3. msg'[t].other = o
    <3>1. msg[t] \in Messages /\ msg \in [Threads -> Messages \cup {None}]
      BY <1>0, <2>2, Zenon DEF MessageFits, Busied, Handling, TypeOK, ThreadTypes
    <3>. QED BY <2>1, <3>1, Zenon DEF Messages
  <2>4. \A u \in Threads : Tracks(u, r) => Tracks(u, r)'
    BY <2>2, Zenon DEF Moves, Tracks
  <2>5. r = o => Tracks(t, r)'
    BY <2>2, <2>3, Zenon DEF Moves, Tracks
  <2>. QED BY <2>1, <2>2, <2>4, <2>5, Zenon DEF OnItsWay
<1>8. ASSUME NEW t \in Threads, NEW q \in Requests, fuse_do_prepare_interrupt(t, q) PROVE OnItsWay(r)'
  <2>1. /\ UNCHANGED <<interrupted, interrupts>> /\ pc[t] = "again" /\ \E p : Moves(t, p)
        /\ EAGAIN(msg[t].other)
    BY <1>8, HandlerMoves, Zenon DEF fuse_do_prepare_interrupt, At
  <2>2. queue \subseteq queue' /\ (msg[t].other = r => Message("interrupt", r) \in queue')
    BY <1>0, <2>1, Zenon DEF EAGAIN, Wanted
  <2>3. \A u \in Threads \ {t} : Tracks(u, r) => Tracks(u, r)'
    BY <2>1, Zenon DEF Moves, Tracks
  <2>4. Tracks(t, r) => msg[t].other = r
    BY <2>1, Zenon DEF Tracks
  <2>. QED BY <2>1, <2>2, <2>3, <2>4, Zenon DEF OnItsWay
<1>9. ASSUME NEW t \in Threads, NEW q \in Requests, do_interrupt(t, q) PROVE OnItsWay(r)'
  <2>1. UNCHANGED <<interrupted, queue>> /\ pc[t] = "find" /\ msg[t].req = q
    BY <1>9 DEF do_interrupt, At, kernel
  <2>2. CASE q \in list
    <3>1. Moves(t, "hold") /\ interrupts' = interrupts
      BY <1>9, <2>2, HandlerMoves, Zenon DEF do_interrupt
    <3>2. \A u \in Threads : Tracks(u, r) => Tracks(u, r)'
      BY <2>1, <3>1, Zenon DEF Moves, Tracks
    <3>. QED BY <1>1, <2>1, <3>1, <3>2, Zenon
  <2>3. CASE q \notin list
    <3>1. Moves(t, "back") /\ interrupts' = IF q \in Range(interrupts) THEN interrupts ELSE Append(interrupts, q)
      BY <1>9, <2>3, HandlerMoves, Zenon DEF do_interrupt
    <3>2. Range(interrupts) \subseteq Range(interrupts') /\ q \in Range(interrupts')
      BY <1>0, <3>1, EnqueueFacts DEF RequestTypes
    <3>3. \A u \in Threads \ {t} : Tracks(u, r) => Tracks(u, r)'
      BY <3>1, Zenon DEF Moves, Tracks
    <3>4. Tracks(t, r) => q = r
      BY <2>1, Zenon DEF Tracks
    <3>. QED BY <2>1, <3>2, <3>3, <3>4, Zenon DEF OnItsWay
  <2>. QED BY <2>2, <2>3, Zenon
<1>10. ASSUME NEW t \in Threads, NEW q \in Requests, find_interrupted(t, q) PROVE OnItsWay(r)'
  <2>1. /\ UNCHANGED <<interrupts, queue>> /\ interrupted' = interrupted \cup {q} /\ pc[t] = "hold" /\ msg[t].req = q
        /\ \E p : Moves(t, p)
    BY <1>10, HandlerMoves, Zenon DEF find_interrupted, At, kernel
  <2>2. \A u \in Threads \ {t} : Tracks(u, r) => Tracks(u, r)'
    BY <2>1, Zenon DEF Moves, Tracks
  <2>3. Tracks(t, r) => q = r
    BY <2>1 DEF Tracks
  <2>. QED BY <2>1, <2>2, <2>3, Zenon DEF OnItsWay
<1>. QED BY <1>2, <1>3, <1>4, <1>6, <1>7, <1>8, <1>9, <1>10, Zenon DEF Next, Work

(* What is asked for stays asked for, an interrupt is kept once, and none  *)
(* for a request in the list.                                              *)
LEMMA InterruptsStep ==
  ASSUME IInv, Next
  PROVE  InterruptsKnown' /\ (list \cap Range(interrupts) = {})'
<1>0. /\ TypeOK /\ MainPhase /\ InterruptsKnown /\ KernelTypes /\ RequestTypes /\ OneHandler
      /\ list \cap Range(interrupts) = {} /\ IsInjective(interrupts)
  BY DEF IInv, TypeOK, InterruptsKnown, InterruptKept
<1> DEFINE Asked == \A r \in asked : status[r] \in {"read", "answered"}
           Kept  == IsInjective(interrupts) /\ list \cap Range(interrupts) = {}
<1>1. Asked'
  <2>1. UNCHANGED <<asked, status>> => Asked'
    BY <1>0, Zenon DEF InterruptsKnown
  <2>2. ASSUME NEW q \in Requests, Send(q) PROVE Asked'
    BY <1>0, <2>2 DEF Send, InterruptsKnown, KernelTypes
  <2>3. ASSUME NEW q \in Requests, Interrupt(q) PROVE Asked'
    BY <1>0, <2>3 DEF Interrupt, InterruptsKnown, KernelTypes
  <2>4. ASSUME NEW how \in {"gone", "broken"}, Lose(how) PROVE Asked'
    BY <2>1, <2>4 DEF Lose
  <2>5. CASE Signal \/ Main
    BY <2>1, <2>5, Zenon DEF Signal, Main, Start, MainCheck, MainWait, MainStop, MainJoin, fuse_join_worker, kernel
  <2>6. ASSUME NEW t \in Threads, Cancelled(t) \/ ReceiveFails(t) \/ Dispatch(t) \/ Back(t) \/ Post(t) PROVE Asked'
    BY <2>1, <2>6, Zenon DEF Cancelled, ReceiveFails, Dispatch, Back, Post, kernel
  <2>7. ASSUME NEW t \in Threads, fuse_kern_chan_receive(t) PROVE Asked'
    BY <1>0, <2>7 DEF fuse_kern_chan_receive, InterruptsKnown, KernelTypes
  <2>8. ASSUME NEW t \in Threads, NEW q \in Requests,
               \/ List(t, q) \/ fuse_do_prepare_interrupt(t, q) \/ Operation(t, q) \/ Finish(t, q) \/ Unhook(t, q)
               \/ do_interrupt(t, q) \/ find_interrupted(t, q) \/ fuse_interrupt(t, q) \/ Drop(t, q)
        PROVE  Asked'
    BY <2>1, <2>8, Zenon DEF List, fuse_do_prepare_interrupt, Operation, Finish, Unhook, do_interrupt, find_interrupted,
                      fuse_interrupt, Drop, kernel
  <2>9. ASSUME NEW t \in Threads, NEW q \in Requests, fuse_free_req(t, q) PROVE Asked'
    BY <1>0, <2>9 DEF fuse_free_req, InterruptsKnown, KernelTypes
  <2> HIDE DEF Asked
  <2>. QED BY <2>2, <2>3, <2>4, <2>5, <2>6, <2>7, <2>8, <2>9, Zenon DEF Next, Kernel, Work
<1>2. Kept'
  <2>1. UNCHANGED <<list, interrupts>> => Kept'
    BY <1>0
  <2>2. CASE Kernel \/ Signal \/ Main \/ \E t \in Threads : Cancelled(t) \/ ReceiveFails(t) \/ Back(t) \/ Post(t)
    BY <2>1, <2>2, QuietStep, Zenon DEF reqs
  <2>3. ASSUME NEW t \in Threads, Dispatch(t) \/ fuse_kern_chan_receive(t) PROVE Kept'
    BY <2>1, <2>3 DEF Dispatch, fuse_kern_chan_receive, reqs
  <2>4. ASSUME NEW t \in Threads, NEW q \in Requests,
               \/ fuse_do_prepare_interrupt(t, q) \/ Operation(t, q) \/ Finish(t, q) \/ Unhook(t, q)
               \/ find_interrupted(t, q) \/ fuse_interrupt(t, q) \/ Drop(t, q)
        PROVE  Kept'
    BY <2>1, <2>4, Zenon DEF fuse_do_prepare_interrupt, Operation, Finish, Unhook, find_interrupted, fuse_interrupt, Drop, reqs
  <2>5. ASSUME NEW t \in Threads, NEW q \in Requests, List(t, q) PROVE Kept'
    <3>1. IsInjective(interrupts') /\ Range(interrupts') \subseteq Range(interrupts) \ {q}
      BY <1>0, <2>5, ListTakes, Zenon
    <3>2. list' = list \cup {q}
      BY <2>5, Zenon DEF List
    <3>. QED BY <1>0, <3>1, <3>2, Zenon
  <2>6. ASSUME NEW t \in Threads, NEW q \in Requests, fuse_free_req(t, q) PROVE Kept'
    BY <1>0, <2>6, Zenon DEF fuse_free_req
  <2>7. ASSUME NEW t \in Threads, NEW q \in Requests, do_interrupt(t, q) PROVE Kept'
    <3>1. CASE q \notin list /\ q \notin Range(interrupts)
      <4>1. interrupts' = Append(interrupts, q) /\ list' = list
        BY <2>7, <3>1, Zenon DEF do_interrupt
      <4>2. IsInjective(interrupts') /\ Range(interrupts') = Range(interrupts) \cup {q}
        BY <1>0, <3>1, <4>1, EnqueueFacts, Zenon DEF RequestTypes
      <4>. QED BY <1>0, <3>1, <4>1, <4>2, Zenon
    <3>2. CASE q \in list \/ q \in Range(interrupts)
      BY <2>1, <2>7, <3>2, Zenon DEF do_interrupt
    <3>. QED BY <3>1, <3>2, Zenon
  <2> HIDE DEF Kept
  <2>. QED BY <2>2, <2>3, <2>4, <2>5, <2>6, <2>7, Zenon DEF Next, Work
<1>. QED BY <1>1, <1>2, Zenon DEF InterruptsKnown

(* InterruptKept in the words of the lemmas.                               *)
LEMMA KeptOnItsWay ==
  InterruptKept <=> (\A r \in asked : Wanted(r) => OnItsWay(r)) /\ list \cap Range(interrupts) = {}
BY DEF InterruptKept, Wanted, OnItsWay, Tracks, At

(* No step loses an interrupt the kernel sent for a request that is still  *)
(* served.                                                                 *)
LEMMA KeptStep ==
  ASSUME IInv, Next
  PROVE  InterruptKept'
<1>1. ASSUME NEW r \in asked', Wanted(r)' PROVE OnItsWay(r)'
  <2>1. r \in Requests
    <3>1. asked' \subseteq Requests
      BY TypeStep DEF TypeOK, KernelTypes
    <3>. QED BY <1>1, <3>1, Zenon
  <2>2. CASE Wanted(r)
    <3>1. OnItsWay(r)
      BY <2>2, KeptOnItsWay, Zenon DEF IInv, Wanted
    <3>. QED BY <1>1, <2>1, <2>2, <3>1, OnItsWayStep, Zenon
  <2>3. CASE Interrupt(r)
    BY <2>3 DEF Interrupt, OnItsWay
  <2>. QED BY <1>1, <2>1, <2>2, <2>3, WantedStep, Zenon
<1>2. (list \cap Range(interrupts) = {})'
  BY InterruptsStep
<1>3. InterruptKept' <=> (\A r \in asked' : Wanted(r)' => OnItsWay(r)') /\ (list \cap Range(interrupts) = {})'
  BY Zenon DEF InterruptKept, Wanted, OnItsWay, Tracks, At
<1>. QED BY <1>1, <1>2, <1>3, Zenon

-----------------------------------------------------------------------------
(* The invariant holds when the session loop starts.                       *)
LEMMA InitIInv ==
  ASSUME Init
  PROVE  IInv
<1>. USE FuseSessionAssumption DEF Init
<1>1. TypeOK
  <2>1. IsFiniteSet({})
    BY FS_EmptySet, Zenon
  <2>2. KernelTypes /\ MainTypes
    BY <2>1 DEF KernelTypes, MainTypes
  <2>3. ThreadTypes
    BY DEF ThreadTypes, Places
  <2>4. RequestTypes
    BY DEF RequestTypes
  <2>. QED BY <2>2, <2>3, <2>4, Zenon DEF TypeOK
<1>2. /\ \A t \in Threads : pc[t] = "none"
      /\ \A r \in Requests : func[r] = None /\ holder[r] = None /\ ctr[r] = 0
      /\ Range(interrupts) = {}
  <2>1. <<>> \in Seq(Requests)
    OBVIOUS
  <2>2. Range(<<>>) = {}
    BY <2>1, EmptyRange, Zenon
  <2>. QED BY <2>2, Zenon
<1>3. MessageFits /\ OneHandler /\ HeldAreListed /\ MutexHeld
  BY <1>2, Zenon DEF MessageFits, OneHandler, HeldAreListed, MutexHeld, Handles, Lists, Holds, Kills, Hooks, Busied,
              Handling, Listed, Hooked, Interrupting, Holding
<1>4. MainPhase
  BY <1>2, Zenon DEF MainPhase
<1>5. InterruptsKnown /\ InterruptKept
  BY <1>2 DEF InterruptsKnown, InterruptKept, IsInjective
<1>6. Counted
  <2>1. \A r \in Requests : list \cap {r} = {} /\ {t \in Threads : Holds(t, r)} = {}
    BY <1>2, Zenon DEF Holds, Holding
  <2>2. Cardinality({}) = 0
    BY FS_EmptySet, Zenon
  <2>3. ASSUME NEW r \in Requests
        PROVE  ctr[r] = Cardinality(list \cap {r}) + Cardinality({t \in Threads : Holds(t, r)})
    <3>1. Cardinality(list \cap {r}) = 0 /\ Cardinality({t \in Threads : Holds(t, r)}) = 0 /\ ctr[r] = 0
      BY <1>2, <2>1, <2>2, Zenon
    <3>. QED BY <3>1
  <2>. QED BY <2>3, Zenon DEF Counted
<1>7. AvailableKnown
  BY DEF AvailableKnown
<1>. QED BY <1>1, <1>3, <1>4, <1>5, <1>6, <1>7 DEF IInv

(* Every step of kernel, workers and signals keeps the invariant.          *)
LEMMA StepIInv ==
  ASSUME IInv, [Next]_vars
  PROVE  IInv'
<1>1. CASE Next
  BY <1>1, TypeStep, FitsStep, HandlerStep, MutexStep, CountedStep, MainPhaseStep, AvailableStep, InterruptsStep,
     KeptStep, Zenon DEF IInv
<1>2. CASE UNCHANGED vars
  <2>. USE <1>2 DEF vars, kernel, session, mt, reqs
  <2>0. /\ KernelTypes /\ MainTypes /\ ThreadTypes /\ RequestTypes /\ MessageFits /\ OneHandler /\ HeldAreListed
        /\ MutexHeld /\ MainPhase /\ InterruptsKnown /\ Counted /\ AvailableKnown /\ InterruptKept
    BY Zenon DEF IInv, TypeOK
  <2>1. KernelTypes' /\ MainTypes' /\ ThreadTypes' /\ RequestTypes'
    BY <2>0 DEF KernelTypes, MainTypes, ThreadTypes, RequestTypes
  <2>2. MessageFits' /\ OneHandler' /\ HeldAreListed'
    <3>1. \A t, r : (Handles(t, r)' <=> Handles(t, r)) /\ (Lists(t, r)' <=> Lists(t, r)) /\ (Holds(t, r)' <=> Holds(t, r))
      BY Zenon DEF Handles, Lists, Holds
    <3>2. MessageFits'
      BY <2>0, Zenon DEF MessageFits
    <3>3. OneHandler'
      BY <2>0, <3>1, Zenon DEF OneHandler
    <3>4. HeldAreListed'
      BY <2>0, <3>1, Zenon DEF HeldAreListed
    <3>. QED BY <3>2, <3>3, <3>4, Zenon
  <2>3. MutexHeld' /\ MainPhase' /\ InterruptsKnown'
    BY <2>0, Zenon DEF MutexHeld, Kills, Hooks, MainPhase, InterruptsKnown
  <2>4. Counted' /\ AvailableKnown'
    BY <2>0, Zenon DEF Counted, Holds, AvailableKnown, Available
  <2>5. InterruptKept'
    <3>1. \A r : (Wanted(r)' <=> Wanted(r)) /\ (OnItsWay(r)' <=> OnItsWay(r))
      BY Zenon DEF Wanted, OnItsWay, Tracks
    <3>2. InterruptKept' <=> (\A r \in asked' : Wanted(r)' => OnItsWay(r)') /\ (list \cap Range(interrupts) = {})'
      BY DEF InterruptKept, Wanted, OnItsWay, Tracks, At
    <3>. QED BY <2>0, <3>1, <3>2, KeptOnItsWay, Zenon
  <2>. QED BY <2>1, <2>2, <2>3, <2>4, <2>5, Zenon DEF IInv, TypeOK
<1>. QED BY <1>1, <1>2

(* Every state of the session satisfies the inductive invariant.           *)
THEOREM Invariance == Spec => []IInv
<1>1. Init => IInv
  BY InitIInv
<1>2. IInv /\ [Next]_vars => IInv'
  BY StepIInv
<1>. QED BY <1>1, <1>2, PTL DEF Spec

(* A request's counter (fuse_free_req, do_interrupt) is that of its users, *)
(* and fuse_interrupt only signals a thread that is inside the operation   *)
(* of the request.                                                         *)
THEOREM RequestsInUse == Spec => []RequestInUse
<1>1. ASSUME IInv PROVE RequestInUse
  <2>0. Counted /\ MutexHeld /\ TypeOK /\ RequestTypes /\ ThreadTypes /\ MessageFits
    BY <1>1 DEF IInv, TypeOK
  <2>1. ASSUME NEW r \in Requests
        PROVE  {t \in Threads : \E p \in {"hold", "kill", "drop"} : At(t, p, r)} = {t \in Threads : Holds(t, r)}
    BY Zenon DEF At, Holds, Holding
  <2>2. ASSUME NEW t \in Threads, pc[t] = "kill"
        PROVE  \E o \in Threads, p \in {"operation", "asleep", "finish", "unhook"} :
                 o # t /\ o = func[msg[t].req] /\ At(o, p, msg[t].req)
    <3> DEFINE r == msg[t].req
    <3>1. r \in Requests
      BY <2>0, <2>2 DEF MessageFits, Busied, Interrupting, Holding, Messages
    <3>2. Kills(t, r)
      BY <2>2, Zenon DEF Kills
    <3>3. func[r] # None /\ func[r] \in Threads /\ Hooks(func[r], r)
      BY <2>0, <3>1, <3>2, Zenon DEF MutexHeld, RequestTypes
    <3>. QED BY <2>2, <3>3, Zenon DEF Hooks, Hooked, At
  <2>. QED BY <2>0, <2>1, <2>2, Zenon DEF RequestInUse, Counted
<1>. QED BY <1>1, Invariance, PTL

(* fuse_session_loop_mt knows its threads: those it joins exist, all are   *)
(* joined when it returns, and numavail counts those that listen.          *)
THEOREM WorkersAreKnown == Spec => []WorkersKnown
<1>1. ASSUME IInv PROVE WorkersKnown
  BY <1>1 DEF IInv, MainPhase, AvailableKnown, Available, WorkersKnown
<1>. QED BY <1>1, Invariance, PTL

(* An INTERRUPT is never lost between the kernel, the threads that read    *)
(* and the lists of struct fuse_ll, and is kept for no request that is     *)
(* already in the list.                                                    *)
THEOREM InterruptsAreKept == Spec => []InterruptKept
<1>1. IInv => InterruptKept
  BY DEF IInv
<1>. QED BY <1>1, Invariance, PTL

=============================================================================

---------------------------- MODULE PotatoProofs ----------------------------
(***************************************************************************)
(* Proofs about Potato, for any number of players, of hops and of          *)
(* interrupts: what a master that exits with 0 has done, that without an   *)
(* interrupt no process fails, and that the game is the one of PotatoGame. *)
(***************************************************************************)
EXTENDS PotatoLemmas

-----------------------------------------------------------------------------
(* The game, as long as nobody is interrupted.                             *)

(* The master sends the potato to its first player, or has none to send.   *)
LEMMA GameLaunch ==
  ASSUME TypeInv, RegisterInv, GameInv, Launch
  PROVE  GameInv'
<1>1. InfoInv /\ RunInv /\ PotatoInv /\ (WholeTraces => RouteInv)
  BY DEF GameInv
<1>2. /\ mpc = "launch" /\ i' = 0 /\ output' = output
      /\ UNCHANGED <<hops, state, player_number, left, right, players>>
  BY DEF Launch, given, player
<1>3. NoPotato /\ output = NULL
  BY <1>1, <1>2 DEF PotatoInv
<1>4. CASE hops > 0 /\ MasterSends(players[first_player + 1], Route(hops, <<>>), "wait")
  <2>1. PICK n \in DOMAIN players : n = first_player + 1
    BY <1>2, FirstPlayer, PlayersAt, NumPlayers DEF RegisterInv
  <2>2. hops \in Nat /\ <<>> \in Seq(Nat)
    BY PotatoAssumption DEF TypeInv
  <2>3. PICK m \in Messages : /\ m = Route(hops, <<>>) /\ m.type = "ROUTE"
                              /\ m.hops = hops /\ m.trace = <<>>
    BY <2>2, RouteFacts, Zenon
  <2>4. MasterSends(players[n], m, "wait") /\ ~Dismissed(n)
    BY <1>2, <1>4, <2>1, <2>3 DEF Dismissed
  <2>5. PICK p \in Players :
          /\ mpc' = "wait"
          /\ accept_queue'[p] = Append(accept_queue[p], m)
          /\ \A q \in Processes : q # p => accept_queue'[q] = accept_queue[q]
          /\ \A k \in DOMAIN players : Knows(k) => Knows(k)'
    BY <1>2, <2>3, <2>4, GameSend
  <2>6. p # Master /\ accept_queue[p] \in Seq(Messages)
    BY PotatoAssumption DEF TypeInv, Processes
  <2>7. /\ DOMAIN accept_queue'[p] = 1 .. Len(accept_queue[p]) + 1
        /\ accept_queue'[p][Len(accept_queue[p]) + 1] = m
        /\ DOMAIN accept_queue[p] = 1 .. Len(accept_queue[p]) /\ Len(accept_queue[p]) \in Nat
        /\ \A k \in 1 .. Len(accept_queue[p]) : accept_queue'[p][k] = accept_queue[p][k]
    BY <2>5, <2>6, AppendFacts
  <2>8. \A q \in Processes : \A x \in DOMAIN accept_queue'[q] :
          HasPotato(q, x)' => q = p /\ x = Len(accept_queue[p]) + 1
    <3> SUFFICES ASSUME NEW q \in Processes, NEW x \in DOMAIN accept_queue'[q],
                        accept_queue'[q][x].type = "ROUTE"
                 PROVE  q = p /\ x = Len(accept_queue[p]) + 1
      BY DEF HasPotato
    <3> QED BY <1>3, <2>5, <2>7 DEF NoPotato, HasPotato
  <2>9. OnePotato'
    BY <2>8 DEF OnePotato
  <2>10. RouteInv'
    <3>1. Len(<<>>) < hops
      BY <1>4
    <3> QED BY <1>2, <2>3, <2>6, <2>7, <2>8, <3>1 DEF RouteInv
  <2>11. \A r \in Players : \A x \in DOMAIN accept_queue'[r] :
           accept_queue'[r][x].type = "CLOSE" =>
             \E y \in DOMAIN accept_queue[r] : accept_queue[r][y].type = "CLOSE"
    BY <2>3, <2>5, <2>7 DEF Processes
  <2>12. InfoInv' /\ RunInv'
    BY <1>2, <2>5, <2>11, GameKept
  <2>13. PotatoInv'
    BY <1>2, <1>3, <2>5, <2>9 DEF PotatoInv
  <2> QED BY <2>10, <2>12, <2>13 DEF GameInv
<1>5. CASE mpc' = "closing" /\ UNCHANGED accept_queue
  <2>1. \A k \in DOMAIN players : Knows(k) => Knows(k)'
    BY <1>2, <1>5 DEF Knows, InfoFor
  <2>2. InfoInv' /\ RunInv'
    BY <1>2, <1>5, <2>1, GameKept
  <2>3. OnePotato' /\ NoPotato' /\ (WholeTraces => RouteInv')
    BY <1>1, <1>2, <1>3, <1>5, PotatoFrame DEF PotatoInv
  <2> QED BY <1>5, <2>2, <2>3 DEF GameInv, PotatoInv
<1> QED BY <1>4, <1>5 DEF Launch

(* close_master tells the next player to close, or is done.                *)
LEMMA GameClose ==
  ASSUME TypeInv, RegisterInv, GameInv, close_master
  PROVE  GameInv'
<1>1. InfoInv /\ RunInv /\ PotatoInv /\ (WholeTraces => RouteInv)
  BY DEF GameInv
<1>2. /\ mpc = "closing" /\ i' = i + 1 /\ output' = output /\ i \in Nat
      /\ UNCHANGED <<hops, state, player_number, left, right, players>>
  BY DEF close_master, given, player, TypeInv
<1>3. NoPotato
  BY <1>1, <1>2 DEF PotatoInv
<1>4. \A k \in DOMAIN players : Told(k) /\ Knows(k)
  BY <1>1, <1>2 DEF InfoInv, Told
<1>5. CASE MoreToClose(i) /\ MasterSends(players[i+1], Close, "closing")
  <2>1. PICK n \in DOMAIN players : n = i + 1
    BY <1>2, <1>5, PlayersAt DEF MoreToClose
  <2>2. Close \in Messages /\ Close.type # "YOUARE" /\ Close.type # "ROUTE" /\ ~Dismissed(n)
    BY <1>2, <2>1, CloseFacts DEF Dismissed
  <2>3. PICK p \in Players :
          /\ p = players[n] /\ mpc' = "closing"
          /\ \A q \in Processes : q # p => accept_queue'[q] = accept_queue[q]
          /\ \A k \in DOMAIN players : k # n => players[k] # p /\ players[k] \in Processes
          /\ \A k \in DOMAIN players : Knows(k) => Knows(k)'
          /\ OnePotato' /\ (NoPotato => NoPotato') /\ (WholeTraces => RouteInv')
    BY <1>2, <1>5, <2>1, <2>2, GameSend
  <2>4. InfoInv'
    BY <1>1, <1>2, <1>4, <2>3 DEF InfoInv, Told
  <2>5. \A k \in DOMAIN players : ~Dismissed(k)' => k # n /\ ~Dismissed(k)
    <3>1. DOMAIN players \subseteq Nat
      BY PlayersAt
    <3> QED BY <1>2, <2>1, <2>3, <3>1 DEF Dismissed
  <2>6. \A k \in DOMAIN players : k # n => accept_queue'[players[k]] = accept_queue[players[k]]
    BY <2>3
  <2>7. RunInv'
    BY <1>1, <1>2, <2>3, <2>5, <2>6 DEF RunInv
  <2> QED BY <1>3, <2>3, <2>4, <2>7, Zenon DEF GameInv, PotatoInv
<1>6. CASE mpc' = "ok" /\ UNCHANGED accept_queue
  <2>1. \A k \in DOMAIN players : Knows(k) => Knows(k)'
    BY <1>2, <1>6 DEF Knows, InfoFor
  <2>2. InfoInv'
    BY <1>1, <1>2, <1>4, <1>6, <2>1 DEF InfoInv, Told
  <2>3. RunInv'
    BY <1>1, <1>2, <1>6 DEF RunInv, Dismissed
  <2>4. OnePotato' /\ NoPotato' /\ (WholeTraces => RouteInv')
    BY <1>1, <1>2, <1>3, <1>6, PotatoFrame DEF PotatoInv
  <2> QED BY <1>6, <2>2, <2>3, <2>4 DEF GameInv, PotatoInv
<1> QED BY <1>5, <1>6 DEF close_master

(* A player that has not registered yet finds the master listening.        *)
LEMMA GameRegister ==
  ASSUME TypeInv, RegisterInv, GameInv, NEW p \in Players, send_player_info(p)
  PROVE  GameInv'
<1>1. InfoInv /\ RunInv /\ PotatoInv /\ (WholeTraces => RouteInv)
  BY DEF GameInv
<1>2. /\ state[p] = "start" /\ p # Master /\ Master \in Processes
      /\ UNCHANGED <<hops, players, output, mpc, i, player_number, left, right>>
  BY PotatoAssumption DEF send_player_info, given, master, Processes
<1>3. mpc = "register"
  BY <1>1, <1>2, Positions DEF InfoInv
<1>4. /\ accept_queue' = [accept_queue EXCEPT ![Master] = Append(@, Connect(p))]
      /\ state' = [state EXCEPT ![p] = "running"]
  <2>1. Listening(Master) /\ Master # NULL
    BY <1>3, PotatoAssumption DEF Listening
  <2> QED BY <2>1 DEF send_player_info, PlayerSends, Becomes
<1>5. \A q \in Processes :
        accept_queue'[q] = IF q = Master THEN Append(accept_queue[Master], Connect(p))
                           ELSE accept_queue[q]
  BY <1>2, <1>4, ConnectFacts, Sent DEF TypeInv
<1>6. \A q \in Players : state'[q] = IF q = p THEN "running" ELSE state[q]
  BY <1>4 DEF TypeInv
<1>7. \A q \in Players : accept_queue'[q] = <<>> /\ state'[q] # "ok"
  BY <1>1, <1>3, <1>5, <1>6, PotatoAssumption DEF InfoInv, Processes
<1>8. \A k \in DOMAIN players : players[k] \in Players
  BY PlayersAt
<1>9. InfoInv'
  BY <1>1, <1>2, <1>3, <1>7, <1>8 DEF InfoInv, Told
<1>10. RunInv'
  BY <1>1, <1>2, <1>3, <1>6, <1>7, <1>8 DEF RunInv, Dismissed
<1>11. OnePotato' /\ (NoPotato => NoPotato') /\ (WholeTraces => RouteInv')
  <2>1. Connect(p) \in Messages /\ Connect(p).type # "ROUTE"
    BY ConnectFacts
  <2>2. \A q \in Processes :
          \/ accept_queue'[q] = accept_queue[q]
          \/ \E w \in Messages : w.type # "ROUTE" /\ accept_queue'[q] = Append(accept_queue[q], w)
    BY <1>5, <2>1, Zenon
  <2> QED BY <1>1, <1>2, <2>2, PotatoFrame DEF PotatoInv
<1> QED BY <1>1, <1>2, <1>9, <1>10, <1>11 DEF GameInv, PotatoInv

(* A player that has something to accept has its place in the ring, and    *)
(* has been told it.                                                       *)
LEMMA Seated ==
  ASSUME TypeInv, RegisterInv, GameInv, NEW p \in Players, accept_queue[p] # <<>>
  PROVE  /\ mpc # "register" /\ Len(players) = num_players
         /\ \E k \in DOMAIN players : p = players[k] /\ Told(k) /\ Knows(k)
<1>1. mpc # "register" /\ Len(players) = num_players
  BY DEF GameInv, InfoInv
<1>2. PICK k \in DOMAIN players : players[k] = p
  BY <1>1, Positions
<1> QED BY <1>1, <1>2 DEF GameInv, InfoInv

(* A player that is told to close exits.                                   *)
LEMMA GameRecvClose ==
  ASSUME TypeInv, RegisterInv, GameInv, NEW p \in Players, accept_queue[p] # <<>>,
         accept_queue[p][1].type = "CLOSE", RecvClose(p),
         UNCHANGED <<hops, players, output, mpc, i>>
  PROVE  GameInv'
<1>1. InfoInv /\ RunInv /\ PotatoInv /\ (WholeTraces => RouteInv)
  BY DEF GameInv
<1>2. PICK k \in DOMAIN players : p = players[k]
  BY Seated
<1>3. mpc # "register" /\ Len(players) = num_players
  BY Seated
<1>4. UNCHANGED <<accept_queue, player_number, left, right>>
  BY DEF RecvClose
<1>5. \A q \in Players : state'[q] = IF q = p THEN "ok" ELSE state[q]
  BY DEF RecvClose, Becomes, TypeInv
<1>6. Dismissed(k)
  <2>1. 1 \in DOMAIN accept_queue[p]
    BY HeadFacts DEF Processes
  <2> QED BY <1>1, <1>2, <2>1 DEF RunInv
<1>7. \A j \in DOMAIN players : j # k => players[j] # p /\ players[j] \in Players
  BY <1>2, PlayersAt DEF RegisterInv
<1>8. \A j \in DOMAIN players : (Knows(j)' <=> Knows(j)) /\ (Told(j)' <=> Told(j))
                                /\ (Dismissed(j)' <=> Dismissed(j))
  BY <1>4 DEF Knows, InfoFor, Told, Dismissed
<1>9. InfoInv'
  BY <1>1, <1>3, <1>4, <1>8, Zenon DEF InfoInv
<1>10. RunInv'
  <2>1. mpc' # "failed" /\ \A q \in Players : state'[q] # "failed"
    BY <1>1, <1>5, Zenon DEF RunInv
  <2>2. ASSUME NEW j \in DOMAIN players', ~Dismissed(j)'
        PROVE  /\ state'[players'[j]] = "running"
               /\ \A n \in DOMAIN accept_queue'[players'[j]] :
                    accept_queue'[players'[j]][n].type # "CLOSE"
    <3>1. j \in DOMAIN players /\ ~Dismissed(j) /\ j # k /\ players'[j] = players[j]
      BY <1>6, <1>8, <2>2
    <3> QED BY <1>1, <1>4, <1>5, <1>7, <3>1, Zenon DEF RunInv
  <2> QED BY <2>1, <2>2, Zenon DEF RunInv
<1>11. OnePotato' /\ (NoPotato => NoPotato') /\ (WholeTraces => RouteInv')
  BY <1>1, <1>4, PotatoFrame DEF PotatoInv
<1> QED BY <1>1, <1>9, <1>10, <1>11 DEF GameInv, PotatoInv

(* A player that is told its place takes it.                               *)
LEMMA GameRecvInfo ==
  ASSUME TypeInv, RegisterInv, GameInv, NEW p \in Players, accept_queue[p] # <<>>,
         accept_queue[p][1].type = "YOUARE", RecvInfo(p, accept_queue[p][1]),
         UNCHANGED <<hops, players, output, mpc, i>>
  PROVE  GameInv'
<1>1. InfoInv /\ RunInv /\ PotatoInv /\ (WholeTraces => RouteInv)
  BY DEF GameInv
<1>2. PICK k \in DOMAIN players : p = players[k] /\ Told(k) /\ Knows(k)
  BY Seated
<1>3. mpc # "register" /\ Len(players) = num_players /\ state' = state
  BY Seated DEF RecvInfo
<1>4. PICK m \in Messages : m = accept_queue[p][1] /\ 1 \in DOMAIN accept_queue[p]
  BY HeadFacts DEF Processes
<1>5. /\ \A q \in Processes : accept_queue'[q] = IF q = p THEN Tail(accept_queue[p]) ELSE accept_queue[q]
      /\ accept_queue' \in [Processes -> Seq(Messages)]
  BY Taken, Zenon DEF RecvInfo, Accepted, TypeInv, Processes
<1>6. /\ player_number'[p] = m.number /\ left'[p] = m.left /\ right'[p] = m.right
      /\ \A q \in Players : q # p => /\ player_number'[q] = player_number[q]
                                     /\ left'[q] = left[q] /\ right'[q] = right[q]
  BY <1>4 DEF RecvInfo, TypeInv
<1>7. \A j \in DOMAIN players : players[j] \in Players /\ players[j] \in Processes
                                /\ (j # k => players[j] # p)
  BY <1>2, PlayersAt, Zenon DEF RegisterInv
<1>8. /\ m = InfoFor(k - 1)
      /\ \A n \in DOMAIN accept_queue[p] : n > 1 => accept_queue[p][n].type # "YOUARE"
  BY <1>2, <1>4, Zenon DEF Knows
<1>9. /\ DOMAIN accept_queue'[p] = 1 .. Len(accept_queue[p]) - 1
      /\ \A n \in DOMAIN accept_queue'[p] :
           /\ n + 1 \in DOMAIN accept_queue[p] /\ n + 1 > 1
           /\ accept_queue'[p][n] = accept_queue[p][n + 1]
  <2>1. accept_queue[p] \in Seq(Messages) /\ accept_queue'[p] = Tail(accept_queue[p])
    BY <1>5, Zenon DEF TypeInv, Processes
  <2> QED BY <2>1, TailFacts
<1>10. Knows(k)'
  <2>1. InfoFor(k - 1)' = m
    BY <1>8, Zenon DEF InfoFor
  <2>2. m = YouAre(m.number, m.left, m.right)
    BY <1>8 DEF InfoFor, YouAre
  <2>3. m = YouAre(player_number'[p], left'[p], right'[p])
    BY <1>6, <2>2, Zenon
  <2>4. \A n \in DOMAIN accept_queue'[p] : accept_queue'[p][n].type # "YOUARE"
    BY <1>8, <1>9
  <2> QED BY <1>2, <2>1, <2>3, <2>4 DEF Knows
<1>11. \A j \in DOMAIN players : Knows(j) => Knows(j)'
  <2> SUFFICES ASSUME NEW j \in DOMAIN players, Knows(j), j # k PROVE Knows(j)'
    BY <1>10
  <2>1. PICK r \in Players : r = players[j] /\ r # p /\ r \in Processes
    BY <1>7
  <2> QED BY <1>5, <1>6, <2>1, KnowsKept
<1>12. \A j \in DOMAIN players : (Told(j)' <=> Told(j)) /\ (Dismissed(j)' <=> Dismissed(j))
  BY DEF Told, Dismissed
<1>13. InfoInv'
  BY <1>1, <1>2, <1>3, <1>5, <1>7, <1>11, <1>12, Zenon DEF InfoInv
<1>14. RunInv'
  <2>1. mpc' # "failed" /\ \A q \in Players : state'[q] # "failed"
    BY <1>1, <1>3, Zenon DEF RunInv
  <2>2. ASSUME NEW j \in DOMAIN players', ~Dismissed(j)'
        PROVE  /\ state'[players'[j]] = "running"
               /\ \A n \in DOMAIN accept_queue'[players'[j]] :
                    accept_queue'[players'[j]][n].type # "CLOSE"
    <3>1. /\ j \in DOMAIN players /\ ~Dismissed(j) /\ players'[j] = players[j]
          /\ state[players[j]] = "running"
          /\ \A n \in DOMAIN accept_queue[players[j]] :
               accept_queue[players[j]][n].type # "CLOSE"
      BY <1>1, <1>12, <2>2 DEF RunInv
    <3>2. CASE j = k
      BY <1>2, <1>3, <1>9, <3>1, <3>2
    <3>3. CASE j # k
      BY <1>3, <1>5, <1>7, <3>1, <3>3, Zenon
    <3> QED BY <3>2, <3>3
  <2> QED BY <2>1, <2>2, Zenon DEF RunInv
<1>15. OnePotato' /\ (NoPotato => NoPotato') /\ (WholeTraces => RouteInv')
  BY <1>1, <1>5, PotatoFrame DEF PotatoInv
<1> QED BY <1>1, <1>13, <1>14, <1>15 DEF GameInv, PotatoInv

(* What is in the queues once the potato has been passed on from p to q:   *)
(* the potato at the end of q's, and what was there before but for the     *)
(* first message of p.                                                     *)
LEMMA PassedFacts ==
  ASSUME TypeInv, NEW p \in Processes, NEW q \in Processes, NEW m \in Messages,
         accept_queue[p] # <<>>, Passed(p, q, m, accept_queue')
  PROVE  /\ \A r \in Processes : \A x \in DOMAIN accept_queue'[r] :
              \/ r = q /\ x = Len(accept_queue'[q]) /\ accept_queue'[r][x] = m
              \/ \E y \in DOMAIN accept_queue[r] :
                   accept_queue'[r][x] = accept_queue[r][y] /\ (r = p => y # 1)
         /\ Len(accept_queue'[q]) \in DOMAIN accept_queue'[q]
         /\ accept_queue'[q][Len(accept_queue'[q])] = m
<1>1. \A r \in Processes : accept_queue[r] \in Seq(Messages)
  BY DEF TypeInv
<1> DEFINE t(r) == IF r = p THEN Tail(accept_queue[p]) ELSE accept_queue[r]
<1>2. ASSUME NEW r \in Processes
      PROVE  /\ t(r) \in Seq(Messages)
             /\ \A x \in DOMAIN t(r) : \E y \in DOMAIN accept_queue[r] :
                  t(r)[x] = accept_queue[r][y] /\ (r = p => y # 1)
  <2>1. CASE r # p
    BY <1>1, <2>1
  <2>2. CASE r = p
    <3>1. /\ Tail(accept_queue[p]) \in Seq(Messages)
          /\ \A x \in DOMAIN Tail(accept_queue[p]) :
               /\ x + 1 \in DOMAIN accept_queue[p] /\ x + 1 # 1
               /\ Tail(accept_queue[p])[x] = accept_queue[p][x + 1]
      BY <1>1, TailFacts
    <3> QED BY <2>2, <3>1
  <2> QED BY <2>1, <2>2
<1>3. \A r \in Processes : accept_queue'[r] = IF r = q THEN Append(t(r), m) ELSE t(r)
  BY DEF Passed
<1> HIDE DEF t
<1>4. /\ accept_queue'[q] = Append(t(q), m) /\ Len(accept_queue'[q]) = Len(t(q)) + 1
      /\ DOMAIN accept_queue'[q] = 1 .. Len(t(q)) + 1 /\ DOMAIN t(q) = 1 .. Len(t(q))
      /\ \A x \in 1 .. Len(t(q)) : accept_queue'[q][x] = t(q)[x]
      /\ accept_queue'[q][Len(t(q)) + 1] = m /\ Len(t(q)) \in Nat
  <2> DEFINE u == t(q)
  <2>1. accept_queue'[q] = Append(u, m) /\ u \in Seq(Messages)
    BY <1>2, <1>3, Zenon
  <2> HIDE DEF u
  <2>2. /\ Len(Append(u, m)) = Len(u) + 1 /\ DOMAIN Append(u, m) = 1 .. Len(u) + 1
        /\ DOMAIN u = 1 .. Len(u) /\ Len(u) \in Nat
        /\ \A x \in 1 .. Len(u) : Append(u, m)[x] = u[x]
        /\ Append(u, m)[Len(u) + 1] = m
    BY <2>1, AppendFacts
  <2> QED BY <2>1, <2>2 DEF u
<1>5. ASSUME NEW r \in Processes, NEW x \in DOMAIN accept_queue'[r]
      PROVE  \/ r = q /\ x = Len(accept_queue'[q]) /\ accept_queue'[r][x] = m
             \/ \E y \in DOMAIN accept_queue[r] :
                  accept_queue'[r][x] = accept_queue[r][y] /\ (r = p => y # 1)
  <2>1. CASE r # q
    BY <1>2, <1>3, <1>5, <2>1
  <2>2. CASE r = q /\ x \in DOMAIN t(q)
    BY <1>2, <1>4, <2>2
  <2>3. CASE r = q /\ x \notin DOMAIN t(q)
    BY <1>4, <1>5, <2>3
  <2> QED BY <2>1, <2>2, <2>3
<1>6. Len(accept_queue'[q]) \in DOMAIN accept_queue'[q]
  BY <1>4
<1> QED BY <1>4, <1>5, <1>6

(* A player that holds the potato knows its place, and passes it on to one *)
(* of its neighbours or, at the last hop, to the master, which listens.    *)
LEMMA RoutePassed ==
  ASSUME TypeInv, RegisterInv, GameInv, NEW p \in Players,
         state[p] = "running", accept_queue[p] # <<>>,
         accept_queue[p][1].type = "ROUTE", RecvRoute(p, accept_queue[p][1])
  PROVE  /\ mpc = "wait" /\ Len(players) = num_players
         /\ state' = state /\ UNCHANGED <<player_number, left, right>>
         /\ \E k \in DOMAIN players :
              /\ p = players[k] /\ Knows(k) /\ left[p] \in Players /\ right[p] \in Players
              /\ InfoFor(k - 1) = YouAre(player_number[p], left[p], right[p])
              /\ \A n \in DOMAIN accept_queue[p] : accept_queue[p][n].type # "YOUARE"
         /\ \E trace \in FirstSegments(accept_queue[p][1].trace) :
              LET h == accept_queue[p][1].hops
                  q == NextHop(p, Len(trace), h)
                  m == Route(h, Append(trace, player_number[p]))
              IN  /\ h \in Nat /\ trace \in Seq(Nat) /\ q \in Processes /\ m \in Messages
                  /\ q = Master <=> Len(trace) = h - 1
                  /\ Passed(p, q, m, accept_queue')
<1>1. InfoInv /\ RunInv /\ PotatoInv /\ (WholeTraces => RouteInv)
  BY DEF GameInv
<1>2. p \in Processes /\ p # Master /\ 1 \in DOMAIN accept_queue[p]
  BY HeadFacts, PotatoAssumption, Zenon DEF Processes
<1>3. mpc = "wait"
  BY <1>1, <1>2, Zenon DEF PotatoInv, NoPotato, HasPotato
<1>4. Len(players) = num_players
  BY Seated, Zenon
<1>5. PICK k \in DOMAIN players : p = players[k] /\ Knows(k)
  BY Seated, Zenon
<1>6. k - 1 \in 0 .. num_players - 1
  BY <1>4, PlayersAt
<1>7. /\ InfoFor(k - 1).type = "YOUARE"
      /\ InfoFor(k - 1).left \in Players /\ InfoFor(k - 1).right \in Players
  BY <1>4, <1>6, InfoFacts
<1>8. /\ InfoFor(k - 1) = YouAre(player_number[p], left[p], right[p])
      /\ \A n \in DOMAIN accept_queue[p] : accept_queue[p][n].type # "YOUARE"
  BY <1>5, <1>7 DEF Knows
<1>9. left[p] \in Players /\ right[p] \in Players
  <2>1. /\ YouAre(player_number[p], left[p], right[p]).left = left[p]
        /\ YouAre(player_number[p], left[p], right[p]).right = right[p]
    BY DEF YouAre
  <2> QED BY <1>7, <1>8, <2>1
<1>10. \A q \in Players \cup {Master} : Listening(q)
  <2>1. Listening(Master)
    BY <1>3 DEF Listening
  <2>2. ASSUME NEW q \in Players PROVE Listening(q)
    <3>1. PICK j \in DOMAIN players : players[j] = q
      BY <1>4, Positions
    <3>2. state[q] = "running"
      BY <1>1, <1>3, <3>1 DEF RunInv, Dismissed
    <3> QED BY <3>2, PotatoAssumption DEF Listening
  <2> QED BY <2>1, <2>2
<1>11. PICK trace \in FirstSegments(accept_queue[p][1].trace) :
         LET h == accept_queue[p][1].hops
             q == NextHop(p, Len(trace), h)
         IN  /\ h \in Nat /\ trace \in Seq(Nat)
             /\ \/ /\ q \in Processes /\ Listening(q) /\ state' = state
                   /\ Passed(p, q, Route(h, Append(trace, player_number[p])), accept_queue')
                \/ q = NULL \/ ~Listening(q)
  BY RouteEffect, Zenon
<1> DEFINE h == accept_queue[p][1].hops
           q == NextHop(p, Len(trace), h)
           m == Route(h, Append(trace, player_number[p]))
<1>12. q \in Players \cup {Master} /\ (q = Master <=> Len(trace) = h - 1)
  BY <1>9, PotatoAssumption DEF NextHop, IsLast
<1>13. m \in Messages
  <2>1. Append(trace, player_number[p]) \in Seq(Nat)
    BY <1>11 DEF TypeInv
  <2> QED BY <1>11, <2>1, RouteFacts, Zenon
<1>14. q # NULL /\ Listening(q)
  <2> HIDE DEF q
  <2> QED BY <1>10, <1>12, PotatoAssumption
<1>15. /\ h \in Nat /\ trace \in Seq(Nat) /\ q \in Processes /\ state' = state
       /\ Passed(p, q, m, accept_queue')
  BY <1>11, <1>14, Zenon
<1>16. UNCHANGED <<player_number, left, right>>
  BY Zenon DEF RecvRoute
<1> HIDE DEF h, q, m
<1> QED BY <1>3, <1>4, <1>5, <1>8, <1>9, <1>12, <1>13, <1>15, <1>16, Zenon DEF h, q, m

(* A player that accepts the potato passes it on: it is the only one, and  *)
(* has made one more hop.                                                  *)
LEMMA GameRecvRoute ==
  ASSUME TypeInv, RegisterInv, GameInv, NEW p \in Players,
         state[p] = "running", accept_queue[p] # <<>>,
         accept_queue[p][1].type = "ROUTE", RecvRoute(p, accept_queue[p][1]),
         UNCHANGED <<hops, players, output, mpc, i>>
  PROVE  GameInv'
<1>1. InfoInv /\ RunInv /\ PotatoInv /\ (WholeTraces => RouteInv)
  BY DEF GameInv
<1>2. /\ mpc = "wait" /\ Len(players) = num_players /\ p \in Processes /\ p # Master
      /\ state' = state /\ UNCHANGED <<player_number, left, right>>
  BY RoutePassed, PotatoAssumption, Zenon DEF Processes
<1>3. PICK k \in DOMAIN players :
        /\ p = players[k]
        /\ InfoFor(k - 1) = YouAre(player_number[p], left[p], right[p])
        /\ \A n \in DOMAIN accept_queue[p] : accept_queue[p][n].type # "YOUARE"
  BY RoutePassed, Zenon
<1>4. 1 \in DOMAIN accept_queue[p] /\ accept_queue[p][1] \in Messages
  BY <1>2, HeadFacts
<1>5. PICK h \in Nat : h = accept_queue[p][1].hops
  BY <1>4, MessageFacts
<1>6. PICK trace \in FirstSegments(accept_queue[p][1].trace) :
        LET q == NextHop(p, Len(trace), h)
            m == Route(h, Append(trace, player_number[p]))
        IN  /\ trace \in Seq(Nat) /\ q \in Processes /\ m \in Messages
            /\ q = Master <=> Len(trace) = h - 1
            /\ Passed(p, q, m, accept_queue')
  BY <1>5, RoutePassed, Zenon
<1>7. PICK q \in Processes : q = NextHop(p, Len(trace), h)
  BY <1>6, Zenon
<1>8. PICK m \in Messages : m = Route(h, Append(trace, player_number[p]))
  BY <1>6
<1>9. Passed(p, q, m, accept_queue') /\ (q = Master <=> Len(trace) = h - 1)
  BY <1>6, <1>7, <1>8, Zenon
<1>10. /\ m.type = "ROUTE" /\ m.hops = h /\ m.trace = Append(trace, player_number[p])
       /\ Len(m.trace) = Len(trace) + 1 /\ Len(trace) \in Nat
  <2>1. player_number[p] \in Nat /\ trace \in Seq(Nat)
    BY <1>6, Zenon DEF TypeInv
  <2> QED BY <1>8, <2>1 DEF Route
<1> DEFINE last == Len(accept_queue'[q])
<1>11. \A r \in Processes : \A x \in DOMAIN accept_queue'[r] :
         \/ r = q /\ x = last /\ accept_queue'[r][x] = m
         \/ \E y \in DOMAIN accept_queue[r] :
              accept_queue'[r][x] = accept_queue[r][y] /\ (r = p => y # 1)
  <2> SUFFICES ASSUME NEW r \in Processes, NEW x \in DOMAIN accept_queue'[r]
               PROVE  \/ r = q /\ x = last /\ accept_queue'[r][x] = m
                      \/ \E y \in DOMAIN accept_queue[r] :
                           accept_queue'[r][x] = accept_queue[r][y] /\ (r = p => y # 1)
    BY Zenon
  <2> QED BY <1>2, <1>9, PassedFacts
<1> HIDE DEF last
<1>12. \A r \in Processes : \A x \in DOMAIN accept_queue'[r] :
         accept_queue'[r][x].type = "ROUTE" => r = q /\ x = last /\ accept_queue'[r][x] = m
  <2>1. \A r \in Processes : \A y \in DOMAIN accept_queue[r] :
          accept_queue[r][y].type = "ROUTE" => r = p /\ y = 1
    BY <1>1, <1>2, <1>4 DEF PotatoInv, OnePotato, HasPotato
  <2> QED BY <1>11, <2>1
<1>13. OnePotato'
  <2> SUFFICES ASSUME NEW a \in Processes, NEW b \in Processes,
                      NEW j \in DOMAIN accept_queue'[a], NEW n \in DOMAIN accept_queue'[b],
                      accept_queue'[a][j].type = "ROUTE", accept_queue'[b][n].type = "ROUTE"
               PROVE  a = b /\ j = n
    BY DEF OnePotato, HasPotato
  <2> QED BY <1>12
<1>14. ASSUME WholeTraces PROVE RouteInv'
  <2>1. h = hops /\ Len(accept_queue[p][1].trace) < hops
    BY <1>1, <1>2, <1>4, <1>5, <1>14, Zenon DEF RouteInv, HasPotato
  <2>2. accept_queue[p][1].trace \in Seq(Nat)
    BY <1>4, MessageFacts
  <2>3. hops \in Nat /\ hops <= Segment /\ Len(accept_queue[p][1].trace) \in Nat
    <3>1. hops \in Nat /\ hops <= Segment
      BY <1>14, HopsFit, Zenon
    <3>2. Len(accept_queue[p][1].trace) \in Nat
      BY <2>2
    <3> QED BY <3>1, <3>2, Zenon
  <2>4. trace = accept_queue[p][1].trace
    BY <1>6, <2>1, <2>2, <2>3, SegmentFacts, PotatoAssumption
  <2>5. m.hops = hops /\ IF q = Master THEN Len(m.trace) = hops ELSE Len(m.trace) < hops
    BY <1>9, <1>10, <2>1, <2>3, <2>4
  <2> QED BY <1>12, <2>5 DEF RouteInv, HasPotato
<1>15. \A r \in Players : \A x \in DOMAIN accept_queue'[r] :
         accept_queue'[r][x].type = "CLOSE" =>
           \E y \in DOMAIN accept_queue[r] : accept_queue[r][y].type = "CLOSE"
  BY <1>10, <1>11, Zenon DEF Processes
<1>16. \A j \in DOMAIN players : Knows(j) => Knows(j)'
  <2> SUFFICES ASSUME NEW j \in DOMAIN players, Knows(j) PROVE Knows(j)'
    OBVIOUS
  <2>1. PICK r \in Players : r = players[j] /\ r \in Processes
    BY PlayersAt
  <2>2. CASE r # p
    <3>1. \/ accept_queue'[r] = accept_queue[r]
          \/ m.type # "YOUARE" /\ accept_queue'[r] = Append(accept_queue[r], m)
      BY <1>9, <1>10, <2>1, <2>2, Zenon DEF Passed
    <3> QED BY <1>2, <2>1, <3>1, KnowsKept, Zenon
  <2>3. CASE r = p
    <3>1. j = k
      BY <1>3, <2>1, <2>3, Zenon DEF RegisterInv
    <3>2. \A x \in DOMAIN accept_queue'[p] : accept_queue'[p][x].type # "YOUARE"
      BY <1>2, <1>3, <1>10, <1>11, Zenon
    <3>3. InfoFor(j - 1)' = InfoFor(j - 1)
      BY Zenon DEF InfoFor
    <3> QED BY <1>2, <1>3, <2>1, <3>1, <3>2, <3>3, Zenon DEF Knows
  <2> QED BY <2>2, <2>3
<1>17. InfoInv' /\ RunInv'
  BY <1>2, <1>15, <1>16, GameKept, Zenon
<1>18. PotatoInv'
  BY <1>1, <1>2, <1>13, Zenon DEF PotatoInv
<1> QED BY <1>14, <1>17, <1>18 DEF GameInv

(* A step in which nobody is interrupted keeps the game going.             *)
LEMMA GameStep ==
  ASSUME TypeInv, RegisterInv, TypeInv', RegisterInv',
         interrupted = {} => GameInv, [Next]_vars, interrupted' = {}
  PROVE  GameInv'
<1> USE DEF given, master, player
<1>1. ~MasterInterrupt /\ \A p \in Players : ~PlayerInterrupt(p)
  BY DEF MasterInterrupt, PlayerInterrupt
<1>2. interrupted = {}
  BY <1>1, Zenon DEF Next, MasterStep, PlayerStep, RecvMessages, send_info_to_player, Launch,
              close_master, send_player_info, recv_messages, vars
<1>3. CASE MasterStep
  BY <1>2, <1>3, GameRecv, GameInform, GameLaunch, GameClose, Zenon DEF MasterStep
<1>4. ASSUME NEW p \in Players, recv_messages(p) PROVE GameInv'
  <2>1. /\ state[p] = "running" /\ accept_queue[p] # <<>> /\ p \in Processes
        /\ UNCHANGED <<hops, players, output, mpc, i>>
    BY <1>4, Zenon DEF recv_messages, Processes
  <2>2. Head(accept_queue[p]) = accept_queue[p][1]
    BY <2>1, HeadFacts
  <2>3. \/ accept_queue[p][1].type = "CLOSE" /\ RecvClose(p)
        \/ accept_queue[p][1].type = "YOUARE" /\ RecvInfo(p, accept_queue[p][1])
        \/ accept_queue[p][1].type = "ROUTE" /\ RecvRoute(p, accept_queue[p][1])
    BY <1>4, <2>2 DEF recv_messages
  <2> QED BY <1>2, <2>1, <2>3, GameRecvClose, GameRecvInfo, GameRecvRoute
<1>5. ASSUME NEW p \in Players, send_player_info(p) PROVE GameInv'
  BY <1>2, <1>5, GameRegister
<1>6. CASE UNCHANGED vars
  <2>1. UNCHANGED <<hops, accept_queue, mpc, players, i, output, state, player_number, left, right>>
    BY <1>6 DEF vars
  <2>2. InfoInv' /\ RunInv'
    BY <1>2, <2>1, Zenon DEF GameInv, InfoInv, RunInv, Told, Knows, InfoFor, Dismissed
  <2>3. PotatoInv' /\ (WholeTraces => RouteInv')
    BY <1>2, <2>1, Zenon DEF GameInv, PotatoInv, NoPotato, OnePotato, RouteInv, HasPotato
  <2> QED BY <2>2, <2>3 DEF GameInv
<1> QED BY <1>1, <1>3, <1>4, <1>5, <1>6 DEF Next, PlayerStep

-----------------------------------------------------------------------------
(* Theorems.                                                               *)

(* The processes as they are started satisfy the invariant.                *)
LEMMA InitIInv == Init => IInv
<1> SUFFICES ASSUME Init PROVE IInv
  OBVIOUS
<1> USE DEF Init
<1>1. TypeInv
  BY PotatoAssumption DEF TypeInv
<1>2. \A q \in Processes : accept_queue[q] = <<>> /\ DOMAIN accept_queue[q] = {}
  OBVIOUS
<1>3. DOMAIN players = {} /\ Range(players) = {} /\ Len(players) = 0
  BY DEF Range
<1>4. RegisterInv
  BY <1>2, <1>3, NumPlayers DEF RegisterInv, Registering, Processes
<1>5. CloseInv
  BY DEF CloseInv
<1>6. GameInv
  <2>1. InfoInv
    BY <1>2, <1>3, Zenon DEF InfoInv, Processes
  <2>2. RunInv
    BY <1>3 DEF RunInv
  <2>3. PotatoInv /\ RouteInv
    BY <1>2 DEF PotatoInv, NoPotato, OnePotato, RouteInv
  <2> QED BY <2>1, <2>2, <2>3 DEF GameInv
<1> QED BY <1>1, <1>4, <1>5, <1>6 DEF IInv

(* Every step of a process, and every signal, keeps the invariant.         *)
LEMMA StepIInv == IInv /\ [Next]_vars => IInv'
BY TypeStep, RegisterStep, CloseStep, GameStep DEF IInv

(* The invariant holds for any number of players, hops and interrupts, and *)
(* wherever a trace is cut.                                                *)
THEOREM Invariance == Spec => []IInv
BY InitIInv, StepIInv, PTL DEF Spec

(* send_to of master.c and player.c never finds nobody listening, nor a    *)
(* null address, unless a process is interrupted: for any number of        *)
(* players and hops, and also where a trace is cut (read_message).         *)
THEOREM NoneFails == Spec => []NobodyFails
<1>1. IInv => NobodyFails
  BY DEF IInv, GameInv, RunInv, NobodyFails
<1> QED BY <1>1, Invariance, PTL

(* A master that exits with 0 has sent a Close to every player in its      *)
(* table, or the player has exited: also when close_master was started     *)
(* over by a SIGINT in the middle of itself.                               *)
THEOREM AllClosed == Spec => []ClosedAll
<1>1. IInv => ClosedAll
  BY DEF IInv, CloseInv, Closed, ClosedAll, Range
<1> QED BY <1>1, Invariance, PTL

-----------------------------------------------------------------------------
(* The processes play the game of PotatoGame, when a trace is never cut.   *)

(* The queues aq carry one potato, the n-th message of q.                  *)
Carried(aq, q, n) ==
  /\ q \in Processes /\ n \in DOMAIN aq[q] /\ aq[q][n].type = "ROUTE"
  /\ \A r \in Processes : \A j \in DOMAIN aq[r] : aq[r][j].type = "ROUTE" => r = q /\ j = n

PotatoesIn(aq) ==
  UNION {{<<q, k>> : k \in {n \in DOMAIN aq[q] : aq[q][n].type = "ROUTE"}} : q \in Processes}

(* The set of the places where a potato is.                                *)
LEMMA PlacesOf ==
  ASSUME NEW aq
  PROVE  /\ (\A q \in Processes : \A n \in DOMAIN aq[q] : aq[q][n].type # "ROUTE")
              => PotatoesIn(aq) = {}
         /\ \A q, n : Carried(aq, q, n) => PotatoesIn(aq) = {<<q, n>>}
<1>1. \A at : at \in PotatoesIn(aq) <=>
        \E q \in Processes : \E n \in DOMAIN aq[q] : at = <<q, n>> /\ aq[q][n].type = "ROUTE"
  BY DEF PotatoesIn
<1>2. ASSUME \A q \in Processes : \A n \in DOMAIN aq[q] : aq[q][n].type # "ROUTE"
      PROVE  PotatoesIn(aq) = {}
  BY <1>1, <1>2
<1>3. ASSUME NEW q, NEW n, Carried(aq, q, n) PROVE PotatoesIn(aq) = {<<q, n>>}
  <2>1. \A at : at \in PotatoesIn(aq) <=> at = <<q, n>>
    BY <1>1, <1>3 DEF Carried
  <2> QED BY <2>1
<1> QED BY <1>2, <1>3

(* The walk and the holder where nobody has the potato.                    *)
LEMMA NobodyHolds ==
  /\ NoPotato => /\ Holder = -1 /\ (output = NULL => Walk = <<>>)
                 /\ (output # NULL => Walk = output)
  /\ NoPotato' => /\ Holder' = -1 /\ (output' = NULL => Walk' = <<>>)
                  /\ (output' # NULL => Walk' = output')
<1>1. Potatoes = PotatoesIn(accept_queue) /\ Potatoes' = PotatoesIn(accept_queue')
  BY DEF Potatoes, PotatoesIn
<1>2. NoPotato => Potatoes = {}
  BY <1>1, PlacesOf DEF NoPotato, HasPotato
<1>3. NoPotato' => Potatoes' = {}
  BY <1>1, PlacesOf DEF NoPotato, HasPotato
<1>4. Potatoes = {} => /\ Holder = -1 /\ (output = NULL => Walk = <<>>)
                       /\ (output # NULL => Walk = output)
  BY DEF Holder, Walk
<1>5. Potatoes' = {} => /\ Holder' = -1 /\ (output' = NULL => Walk' = <<>>)
                        /\ (output' # NULL => Walk' = output')
  BY DEF Holder, Walk
<1> QED BY <1>2, <1>3, <1>4, <1>5

(* The seat of a player, when no two players are the same.                 *)
LEMMA SeatOf ==
  ASSUME NEW ps, NEW k \in DOMAIN ps,
         \A j, n \in DOMAIN ps : ps[j] = ps[n] => j = n
  PROVE  (CHOOSE n \in DOMAIN ps : ps[n] = ps[k]) = k
OBVIOUS

(* The walk and the holder where somebody has it.                          *)
LEMMA SomebodyHolds ==
  ASSUME NEW q, NEW n, Carried(accept_queue, q, n), RegisterInv
  PROVE  /\ Walk = accept_queue[q][n].trace
         /\ q = Master => Holder = -1
         /\ \A k \in DOMAIN players : q # Master /\ players[k] = q => Holder = k - 1
<1>1. Potatoes = PotatoesIn(accept_queue)
  BY DEF Potatoes, PotatoesIn
<1>2. Potatoes = {<<q, n>>}
  BY <1>1, PlacesOf
<1>3. /\ Potatoes # {} /\ (CHOOSE at \in Potatoes : TRUE) = <<q, n>>
      /\ (\E at \in Potatoes : at[1] # Master) <=> q # Master
      /\ <<q, n>>[1] = q /\ <<q, n>>[2] = n
  BY <1>2
<1>4. q # Master => Holder = (CHOOSE k \in DOMAIN players : players[k] = q) - 1
  BY <1>3, Zenon DEF Holder
<1>5. \A k \in DOMAIN players : players[k] = q =>
        (CHOOSE j \in DOMAIN players : players[j] = q) = k
  BY SeatOf DEF RegisterInv
<1>6. Walk = accept_queue[q][n].trace /\ (q = Master => Holder = -1)
  BY <1>3, Zenon DEF Walk, Holder
<1> QED BY <1>4, <1>5, <1>6, Zenon

(* The same of the state after a step.                                     *)
LEMMA SomebodyHoldsNext ==
  ASSUME NEW q, NEW n, Carried(accept_queue', q, n), RegisterInv'
  PROVE  /\ Walk' = accept_queue'[q][n].trace
         /\ q = Master => Holder' = -1
         /\ \A k \in DOMAIN players' : q # Master /\ players'[k] = q => Holder' = k - 1
<1>1. Potatoes' = PotatoesIn(accept_queue')
  BY DEF Potatoes, PotatoesIn
<1>2. Potatoes' = {<<q, n>>}
  BY <1>1, PlacesOf
<1>3. /\ Potatoes' # {} /\ (CHOOSE at \in Potatoes' : TRUE) = <<q, n>>
      /\ (\E at \in Potatoes' : at[1] # Master) <=> q # Master
      /\ <<q, n>>[1] = q /\ <<q, n>>[2] = n
  BY <1>2
<1>4. q # Master => Holder' = (CHOOSE k \in DOMAIN players' : players'[k] = q) - 1
  BY <1>3, Zenon DEF Holder
<1>5. \A k \in DOMAIN players' : players'[k] = q =>
        (CHOOSE j \in DOMAIN players' : players'[j] = q) = k
  BY SeatOf DEF RegisterInv
<1>6. Walk' = accept_queue'[q][n].trace /\ (q = Master => Holder' = -1)
  BY <1>3, Zenon DEF Walk, Holder
<1> QED BY <1>4, <1>5, <1>6, Zenon

(* The only potato is the one that was found.                              *)
LEMMA CarriedHere ==
  ASSUME NEW q \in Processes, NEW n
  PROVE  /\ OnePotato /\ n \in DOMAIN accept_queue[q] /\ accept_queue[q][n].type = "ROUTE"
              => Carried(accept_queue, q, n)
         /\ OnePotato' /\ n \in DOMAIN accept_queue'[q] /\ accept_queue'[q][n].type = "ROUTE"
              => Carried(accept_queue', q, n)
BY DEF OnePotato, HasPotato, Carried

(* Launch starts the game at some player.                                  *)
LEMMA LaunchStarts ==
  ASSUME TypeInv, RegisterInv, GameInv, RegisterInv', GameInv', Launch, hops > 0
  PROVE  Game!Start
<1>1. /\ mpc = "launch" /\ UNCHANGED <<hops, state, player_number, left, right, players, output>>
      /\ MasterSends(players[first_player + 1], Route(hops, <<>>), "wait")
  BY DEF Launch, given, player, TypeInv
<1>2. NoPotato /\ output = NULL /\ Len(players) = num_players
  BY <1>1 DEF GameInv, PotatoInv, InfoInv
<1>3. PICK n \in DOMAIN players : n = first_player + 1
  BY <1>2, FirstPlayer, PlayersAt, NumPlayers
<1>4. hops \in Nat /\ <<>> \in Seq(Nat)
  BY PotatoAssumption DEF TypeInv
<1>5. PICK m \in Messages : m = Route(hops, <<>>) /\ m.type = "ROUTE" /\ m.trace = <<>>
  BY <1>4, RouteFacts, Zenon
<1>6. MasterSends(players[n], m, "wait") /\ ~Dismissed(n)
  BY <1>1, <1>3, <1>5, Zenon DEF Dismissed
<1>7. PICK p \in Players : p = players[n] /\ mpc' = "wait"
                           /\ accept_queue'[p] = Append(accept_queue[p], m)
  BY <1>1, <1>6, GameSend
<1>8. p # Master /\ p \in Processes /\ accept_queue[p] \in Seq(Messages)
  BY PotatoAssumption DEF TypeInv, Processes
<1>9. PICK x \in DOMAIN accept_queue'[p] : accept_queue'[p][x] = m
  BY <1>7, <1>8, AppendFacts
<1>10. Carried(accept_queue', p, x)
  BY <1>5, <1>8, <1>9, CarriedHere, Zenon DEF GameInv, PotatoInv
<1>11. n \in DOMAIN players' /\ players'[n] = p
  BY <1>1, <1>7, Zenon
<1>12. Walk' = <<>> /\ Holder' = n - 1
  BY <1>5, <1>8, <1>9, <1>10, <1>11, SomebodyHoldsNext, Zenon
<1>13. Walk = <<>>
  BY <1>2, NobodyHolds
<1>14. n - 1 \in 0 .. num_players - 1
  BY <1>2, PlayersAt
<1>15. Stage = "forming" /\ Stage' = "playing"
  BY <1>1, <1>7 DEF Stage
<1> QED BY <1>1, <1>12, <1>13, <1>14, <1>15, Zenon DEF Game!Start

(* A player passes the potato on to a neighbour, or back at the last hop.  *)
LEMMA RoutePasses ==
  ASSUME WholeTraces, TypeInv, RegisterInv, GameInv, RegisterInv', GameInv', NEW p \in Players,
         state[p] = "running", accept_queue[p] # <<>>,
         accept_queue[p][1].type = "ROUTE", RecvRoute(p, accept_queue[p][1]),
         UNCHANGED <<hops, players, output, mpc, i>>
  PROVE  Game!Pass
<1>1. OnePotato /\ OnePotato' /\ RouteInv /\ RouteInv'
  BY DEF GameInv, PotatoInv
<1>2. mpc = "wait" /\ Len(players) = num_players /\ p \in Processes /\ p # Master
  BY RoutePassed, PotatoAssumption, Zenon DEF Processes
<1>3. PICK k \in DOMAIN players :
        p = players[k] /\ InfoFor(k - 1) = YouAre(player_number[p], left[p], right[p])
  BY RoutePassed, Zenon
<1>4. 1 \in DOMAIN accept_queue[p] /\ accept_queue[p][1] \in Messages
  BY <1>2, HeadFacts, Zenon
<1>5. /\ accept_queue[p][1].hops = hops /\ Len(accept_queue[p][1].trace) < hops
      /\ accept_queue[p][1].trace \in Seq(Nat) /\ hops \in Nat /\ hops <= Segment
  <2>1. accept_queue[p][1].hops = hops /\ Len(accept_queue[p][1].trace) < hops
    BY <1>1, <1>2, <1>4, Zenon DEF RouteInv, HasPotato
  <2>2. accept_queue[p][1].trace \in Seq(Nat)
    BY <1>4, MessageFacts
  <2> QED BY <2>1, <2>2, HopsFit, Zenon
<1>6. PICK trace \in FirstSegments(accept_queue[p][1].trace) :
        LET q == NextHop(p, Len(trace), hops)
            m == Route(hops, Append(trace, player_number[p]))
        IN  /\ q \in Processes /\ m \in Messages /\ Passed(p, q, m, accept_queue')
            /\ q = Master <=> Len(trace) = hops - 1
  BY <1>5, RoutePassed, Zenon
<1>7. trace = accept_queue[p][1].trace /\ trace \in Seq(Nat) /\ Len(trace) \in Nat
  <2>1. Len(accept_queue[p][1].trace) <= Segment
    BY <1>5, PotatoAssumption
  <2> QED BY <1>5, <1>6, <2>1, SegmentFacts
<1>8. PICK q \in Processes : q = NextHop(p, Len(trace), hops)
  BY <1>6, Zenon
<1>9. PICK m \in Messages : m = Route(hops, Append(trace, player_number[p]))
  BY <1>6, Zenon
<1>10. Passed(p, q, m, accept_queue') /\ (q = Master <=> Len(trace) = hops - 1)
  BY <1>6, <1>8, <1>9, Zenon
<1>11. m.type = "ROUTE" /\ m.trace = Append(trace, player_number[p])
  BY <1>9, Zenon DEF Route
<1>12. PICK x \in DOMAIN accept_queue'[q] : accept_queue'[q][x] = m
  BY <1>2, <1>10, PassedFacts, Zenon
<1>13. Carried(accept_queue, p, 1) /\ Carried(accept_queue', q, x)
  BY <1>1, <1>2, <1>4, <1>11, <1>12, CarriedHere, Zenon
<1>14. k - 1 \in 0 .. num_players - 1 /\ num_players \in Nat \ {0}
  <2>1. k \in 1 .. num_players
    BY <1>2, PlayersAt, Zenon
  <2> QED BY <2>1, NumPlayers
<1>15. /\ player_number[p] = k - 1
       /\ left[p] = players[(((k - 1) + num_players - 1) % num_players) + 1]
       /\ right[p] = players[(((k - 1) + 1) % num_players) + 1]
  <2> DEFINE info == InfoFor(k - 1)
  <2>1. /\ info.number = k - 1
        /\ info.left = players[(((k - 1) + num_players - 1) % num_players) + 1]
        /\ info.right = players[(((k - 1) + 1) % num_players) + 1]
    BY <1>2, <1>14, InfoFacts, Zenon
  <2>2. info.number = player_number[p] /\ info.left = left[p] /\ info.right = right[p]
    BY <1>3 DEF YouAre
  <2> HIDE DEF info
  <2> QED BY <2>1, <2>2
<1>17. Walk = trace /\ Holder = k - 1
  BY <1>2, <1>3, <1>7, <1>13, SomebodyHolds, Zenon
<1>18. Walk' = Append(trace, k - 1) /\ Len(Walk') = Len(trace) + 1
  <2>1. Walk' = Append(trace, k - 1)
    <3>1. Walk' = accept_queue'[q][x].trace
      BY <1>13, SomebodyHoldsNext, Zenon
    <3> QED BY <1>11, <1>12, <1>15, <3>1, Zenon
  <2>2. k - 1 \in Nat
    BY <1>14
  <2> QED BY <1>7, <2>1, <2>2
<1>19. ASSUME q = Master PROVE Holder' = -1 /\ ~(Len(Walk') < hops)
  <2>1. Holder' = -1
    BY <1>13, <1>19, SomebodyHoldsNext, Zenon
  <2>2. hops \in Nat /\ Len(trace) = hops - 1
    BY <1>5, <1>10, <1>19, Zenon
  <2> QED BY <1>18, <2>1, <2>2
<1>20. ASSUME q # Master PROVE Len(Walk') < hops /\ Holder' \in Game!Neighbours(k - 1)
  <2>1. Len(Walk') < hops
    <3>1. hops \in Nat /\ Len(trace) \in Nat /\ Len(trace) < hops
      BY <1>5, <1>7, Zenon
    <3>2. Len(trace) # hops - 1
      BY <1>10, <1>20, Zenon
    <3> QED BY <1>18, <3>1, <3>2
  <2>2. PICK y \in Game!Neighbours(k - 1) : q = players[y + 1] /\ y + 1 \in DOMAIN players /\ y \in Nat
    <3>1. q = left[p] \/ q = right[p]
      BY <1>8, <1>20, Zenon DEF NextHop
    <3>2. \A y \in Game!Neighbours(k - 1) : y \in 0 .. num_players - 1
      <4>1. \A a \in Int, b \in Nat \ {0} : a % b \in 0 .. b - 1
        OBVIOUS
      <4>2. (k - 1) + 1 \in Int /\ (k - 1) + num_players - 1 \in Int
        BY <1>14
      <4> QED BY <1>14, <4>1, <4>2, Zenon DEF Game!Neighbours
    <3>3. \A y \in Game!Neighbours(k - 1) : y + 1 \in DOMAIN players /\ y \in Nat
      BY <1>2, <1>14, <3>2, PlayersAt
    <3>4. \E y \in Game!Neighbours(k - 1) : q = players[y + 1]
      BY <1>15, <3>1, Zenon DEF Game!Neighbours
    <3> QED BY <3>3, <3>4, Zenon
  <2>3. y + 1 \in DOMAIN players' /\ players'[y + 1] = q /\ (y + 1) - 1 = y
    BY <2>2
  <2>4. Holder' = y
    BY <1>13, <1>20, <2>3, SomebodyHoldsNext, Zenon
  <2> QED BY <2>1, <2>2, <2>4, Zenon
<1>21. Stage = "playing" /\ Stage' = Stage /\ k - 1 # -1
  BY <1>2, <1>14 DEF Stage
<1> QED BY <1>17, <1>18, <1>19, <1>20, <1>21, Zenon DEF Game!Pass

(* The master that waits gets the potato back, with the way it took.       *)
LEMMA RecvEnds ==
  ASSUME WholeTraces, TypeInv, RegisterInv, GameInv, GameInv', mpc = "wait", RecvMessages
  PROVE  Game!End
<1> DEFINE m == accept_queue[Master][1]
<1>1. OnePotato /\ RouteInv /\ Len(players) = num_players
  BY DEF GameInv, PotatoInv, InfoInv
<1>2. Master \in Processes /\ accept_queue[Master] # <<>>
  BY DEF RecvMessages, Processes
<1>3. Head(accept_queue[Master]) = m /\ m \in Messages /\ 1 \in DOMAIN accept_queue[Master]
  BY <1>2, HeadFacts
<1>4. /\ mpc' = "closing" /\ hops' = hops
      /\ \/ m.type = "ROUTE" /\ output' \in FirstSegments(m.trace)
         \/ m.type = "CONNECT"
  BY <1>3 DEF RecvMessages, given
<1>5. m.type = "ROUTE" /\ output' \in FirstSegments(m.trace)
  <2>1. ASSUME m.type = "CONNECT" PROVE FALSE
    <3>1. m.from \in Players /\ m = Connect(m.from)
      BY <1>3, <2>1, MessageFacts
    <3>2. Registering(m.from)
      BY <1>3, <3>1 DEF Registering
    <3> QED BY <1>1, <3>1, <3>2, Positions, Zenon
  <2> QED BY <1>4, <2>1
<1>6. Len(m.trace) = hops /\ m.trace \in Seq(Nat) /\ hops <= Segment
  <2>1. Len(m.trace) = hops
    BY <1>1, <1>2, <1>3, <1>5, Zenon DEF RouteInv, HasPotato
  <2>2. m.trace \in Seq(Nat)
    BY <1>3, <1>5, MessageFacts
  <2> QED BY <2>1, <2>2, PotatoAssumption DEF TypeInv, WholeTraces
<1>7. output' = m.trace /\ output' # NULL
  BY <1>5, <1>6, SegmentFacts, PotatoAssumption, Zenon
<1>8. Carried(accept_queue, Master, 1)
  BY <1>1, <1>2, <1>3, <1>5, CarriedHere, Zenon
<1>9. Walk = m.trace /\ Holder = -1
  BY <1>8, SomebodyHolds
<1>10. NoPotato'
  BY <1>4 DEF GameInv, PotatoInv
<1>11. Walk' = output' /\ Holder' = -1
  BY <1>7, <1>10, NobodyHolds
<1>12. Stage = "playing" /\ Stage' = "over"
  BY <1>4 DEF Stage
<1> QED BY <1>4, <1>6, <1>7, <1>9, <1>11, <1>12, Zenon DEF Game!End

(* A player that takes its place while the potato is under way leaves it   *)
(* where it is.                                                            *)
LEMMA InfoStutters ==
  ASSUME TypeInv, RegisterInv, GameInv, RegisterInv', GameInv', NEW p \in Players,
         accept_queue[p] # <<>>,
         accept_queue[p][1].type = "YOUARE", RecvInfo(p, accept_queue[p][1]),
         UNCHANGED <<hops, players, output, mpc, i>>
  PROVE  Walk' = Walk /\ Holder' = Holder
<1>1. OnePotato /\ OnePotato'
  BY Zenon DEF GameInv, PotatoInv
<1>2. \A q \in Processes :
        accept_queue'[q] = IF q = p THEN Tail(accept_queue[p]) ELSE accept_queue[q]
  BY Taken DEF RecvInfo, Accepted, TypeInv, Processes
<1>3. \A q \in Processes : \/ accept_queue'[q] = accept_queue[q]
                           \/ accept_queue[q] # <<>> /\ accept_queue'[q] = Tail(accept_queue[q])
  BY <1>2, Zenon
<1>4. NoPotato => NoPotato'
  BY <1>1, <1>3, PotatoFrame, Zenon DEF GameInv
<1>5. CASE NoPotato
  BY <1>4, <1>5, NobodyHolds, Zenon
<1>6. CASE ~NoPotato
  <2>0. PICK q \in Processes : \E n \in DOMAIN accept_queue[q] : accept_queue[q][n].type = "ROUTE"
    BY <1>6 DEF NoPotato, HasPotato
  <2>1. PICK n \in DOMAIN accept_queue[q] : accept_queue[q][n].type = "ROUTE"
    BY <2>0
  <2>2. PICK x \in DOMAIN accept_queue'[q] : accept_queue'[q][x] = accept_queue[q][n]
    <3>1. CASE q # p
      BY <1>2, <2>1, <3>1, Zenon
    <3>2. CASE q = p
      <4>1. accept_queue[p] \in Seq(Messages) /\ accept_queue'[p] = Tail(accept_queue[p])
        BY <1>2, Zenon DEF TypeInv, Processes
      <4>2. n # 1
        BY <2>1, <3>2, Zenon
      <4>3. /\ DOMAIN accept_queue'[p] = 1 .. Len(accept_queue[p]) - 1
            /\ DOMAIN accept_queue[p] = 1 .. Len(accept_queue[p]) /\ Len(accept_queue[p]) \in Nat
            /\ \A y \in 1 .. Len(accept_queue[p]) - 1 : accept_queue'[p][y] = accept_queue[p][y + 1]
        BY <4>1, TailFacts
      <4>4. n \in 1 .. Len(accept_queue[p])
        BY <3>2, <4>3
      <4>5. n - 1 \in DOMAIN accept_queue'[p] /\ (n - 1) + 1 = n
        BY <4>2, <4>3, <4>4
      <4>6. accept_queue'[p][n - 1] = accept_queue[p][n]
        BY <4>3, <4>5
      <4> QED BY <3>2, <4>5, <4>6
    <3> QED BY <3>1, <3>2, Zenon
  <2>3. Carried(accept_queue, q, n) /\ Carried(accept_queue', q, x)
    BY <1>1, <2>1, <2>2, CarriedHere, Zenon
  <2>4. /\ Walk = accept_queue[q][n].trace /\ (q = Master => Holder = -1)
        /\ \A k \in DOMAIN players : q # Master /\ players[k] = q => Holder = k - 1
    BY <2>3, SomebodyHolds
  <2>5. /\ Walk' = accept_queue'[q][x].trace /\ (q = Master => Holder' = -1)
        /\ \A k \in DOMAIN players : q # Master /\ players[k] = q => Holder' = k - 1
    BY <2>3, SomebodyHoldsNext, Zenon
  <2>6. q # Master => \E k \in DOMAIN players : players[k] = q
    <3>1. q \in Players \/ q = Master
      BY Zenon DEF Processes
    <3>2. Len(players) = num_players
      BY Seated
    <3> QED BY <3>1, <3>2, Positions, Zenon
  <2> QED BY <2>2, <2>4, <2>5, <2>6, Zenon
<1> QED BY <1>5, <1>6

(* Before the potato is sent, and after it has come back, the game stands  *)
(* still, but for a master that has no potato to send.                     *)
LEMMA IdleStutters ==
  ASSUME TypeInv, GameInv, GameInv', mpc # "wait", mpc' # "wait", hops' = hops,
         output' = output, mpc = "launch" /\ mpc' # "launch" => mpc' = "closing" /\ hops = 0,
         mpc = "register" => mpc' \in {"register", "inform"},
         mpc = "inform" => mpc' \in {"inform", "launch"},
         mpc \in {"closing", "ok"} => mpc' \in {"closing", "ok"}
  PROVE  Game!Next \/ UNCHANGED Game!vars
<1>1. NoPotato /\ NoPotato' /\ mpc # "failed"
  BY DEF GameInv, PotatoInv, RunInv
<1>2. Walk' = Walk /\ Holder' = Holder
  BY <1>1, NobodyHolds
<1>3. mpc \in {"register", "inform", "launch", "closing", "ok"}
  BY <1>1 DEF TypeInv
<1>4. CASE mpc = "launch" /\ mpc' # "launch"
  <2>1. Stage = "forming" /\ Stage' = "over"
    BY <1>4 DEF Stage
  <2> QED BY <1>2, <1>4, <2>1 DEF Game!Next, Game!NoGame
<1>5. CASE ~(mpc = "launch" /\ mpc' # "launch")
  <2>1. Stage' = Stage
    BY <1>3, <1>5 DEF Stage
  <2> QED BY <1>2, <2>1 DEF Game!vars
<1> QED BY <1>4, <1>5, Zenon

(* Every step of a process that nobody interrupts is a step of the game,   *)
(* or leaves it as it is.                                                  *)
LEMMA StepPlays ==
  ASSUME WholeTraces, IInv, IInv', [Next]_vars, interrupted' = {}
  PROVE  Game!Next \/ UNCHANGED Game!vars
<1> USE DEF given, master, player
<1>1. ~MasterInterrupt /\ \A p \in Players : ~PlayerInterrupt(p)
  BY DEF MasterInterrupt, PlayerInterrupt
<1>2. interrupted = {}
  BY <1>1, Zenon DEF Next, MasterStep, PlayerStep, RecvMessages, send_info_to_player, Launch,
              close_master, send_player_info, recv_messages, vars
<1>3. TypeInv /\ RegisterInv /\ GameInv /\ RegisterInv' /\ GameInv'
  BY <1>2 DEF IInv
<1>4. mpc' # "failed"
  BY <1>3, Zenon DEF GameInv, RunInv
<1>5. CASE RecvMessages
  <2>1. CASE mpc = "wait"
    BY <1>3, <1>5, <2>1, RecvEnds DEF Game!Next
  <2>2. CASE mpc = "register"
    <3>1. mpc' \in {"register", "inform"} /\ hops' = hops
      BY <1>5, <2>2, Zenon DEF RecvMessages
    <3>2. output = NULL /\ output' = NULL
      BY <1>3, <2>2, <3>1 DEF GameInv, PotatoInv
    <3> QED BY <1>3, <2>2, <3>1, <3>2, IdleStutters
  <2> QED BY <1>5, <2>1, <2>2, Zenon DEF RecvMessages
<1>6. CASE send_info_to_player
  <2>1. mpc = "inform" /\ mpc' \in {"inform", "launch"} /\ hops' = hops /\ output' = output
    BY <1>4, <1>6 DEF send_info_to_player, MasterSends
  <2> QED BY <1>3, <2>1, IdleStutters
<1>7. CASE Launch
  <2>1. CASE hops > 0
    BY <1>3, <1>7, <2>1, LaunchStarts DEF Game!Next
  <2>2. CASE hops = 0
    <3>1. mpc = "launch" /\ mpc' = "closing" /\ hops' = hops /\ output' = output
      BY <1>7, <2>2 DEF Launch
    <3> QED BY <1>3, <2>2, <3>1, IdleStutters
  <2> QED BY <1>7, <2>1, <2>2 DEF Launch
<1>8. CASE close_master
  <2>1. mpc = "closing" /\ mpc' \in {"closing", "ok"} /\ hops' = hops /\ output' = output
    BY <1>4, <1>8 DEF close_master, MasterSends
  <2> QED BY <1>3, <2>1, IdleStutters
<1>9. CASE mpc # "wait" /\ UNCHANGED <<hops, mpc, output>>
  BY <1>3, <1>4, <1>9, IdleStutters
<1>10. ASSUME NEW p \in Players, send_player_info(p) PROVE Game!Next \/ UNCHANGED Game!vars
  <2>1. state[p] = "start" /\ UNCHANGED <<hops, mpc, output>>
    BY <1>10 DEF send_player_info
  <2>2. mpc # "wait"
    BY <1>3, <2>1, Positions, Zenon DEF RegisterInv
  <2> QED BY <1>9, <2>1, <2>2
<1>11. ASSUME NEW p \in Players, recv_messages(p), mpc = "wait"
       PROVE  Game!Next \/ UNCHANGED Game!vars
  <2>1. /\ state[p] = "running" /\ accept_queue[p] # <<>> /\ p \in Processes
        /\ UNCHANGED <<hops, players, output, mpc, i>>
    BY <1>11, Zenon DEF recv_messages, Processes
  <2>2. Head(accept_queue[p]) = accept_queue[p][1]
    BY <1>3, <2>1, HeadFacts, Zenon
  <2>3. \/ accept_queue[p][1].type = "CLOSE" /\ RecvClose(p)
        \/ accept_queue[p][1].type = "YOUARE" /\ RecvInfo(p, accept_queue[p][1])
        \/ accept_queue[p][1].type = "ROUTE" /\ RecvRoute(p, accept_queue[p][1])
    BY <1>11, <2>2 DEF recv_messages
  <2>4. Stage' = Stage
    BY <2>1, Zenon DEF Stage
  <2>5. CASE RecvClose(p)
    <3>1. accept_queue' = accept_queue
      BY <2>5 DEF RecvClose
    <3>2. Walk' = Walk /\ Holder' = Holder
      <4>1. Potatoes' = Potatoes
        BY <3>1 DEF Potatoes
      <4>2. Walk' = Walk
        BY <2>1, <3>1, <4>1 DEF Walk
      <4> QED BY <2>1, <3>1, <4>1, <4>2 DEF Holder
    <3> QED BY <2>1, <2>4, <3>2 DEF Game!vars
  <2>6. CASE accept_queue[p][1].type = "YOUARE" /\ RecvInfo(p, accept_queue[p][1])
    <3>1. Walk' = Walk /\ Holder' = Holder
      BY <1>3, <2>1, <2>6, InfoStutters, Zenon
    <3> QED BY <2>1, <2>4, <3>1 DEF Game!vars
  <2>7. CASE accept_queue[p][1].type = "ROUTE" /\ RecvRoute(p, accept_queue[p][1])
    BY <1>3, <2>1, <2>7, RoutePasses, Zenon DEF Game!Next
  <2> QED BY <2>3, <2>5, <2>6, <2>7, Zenon
<1>12. ASSUME NEW p \in Players, recv_messages(p), mpc # "wait"
       PROVE  Game!Next \/ UNCHANGED Game!vars
  BY <1>9, <1>12, Zenon DEF recv_messages
<1>13. CASE UNCHANGED vars
  <2>1. UNCHANGED <<hops, Stage, Walk, Holder>>
    BY <1>13 DEF vars, Stage, Walk, Holder, Potatoes
  <2> QED BY <2>1 DEF Game!vars
<1> QED BY <1>1, <1>5, <1>6, <1>7, <1>8, <1>10, <1>11, <1>12, <1>13, Zenon
        DEF Next, MasterStep, PlayerStep

(* Where no trace is cut on its way (MaxHops <= Segment) and as long as    *)
(* nobody is interrupted, the processes play the game of PotatoGame: the   *)
(* potato makes exactly the hops the master was given, each from a player  *)
(* to one of its two neighbours on the ring, and the master prints the way *)
(* it took.                                                                *)
THEOREM PlaysTheGame == WholeTraces => (Spec => ImplementsGame)
<1> SUFFICES ASSUME WholeTraces PROVE Spec => ImplementsGame
  OBVIOUS
<1>1. Init => Game!Init
  <2> SUFFICES ASSUME Init PROVE Game!Init
    OBVIOUS
  <2>1. NoPotato /\ output = NULL
    BY DEF Init, NoPotato
  <2>2. Walk = <<>> /\ Holder = -1
    BY <2>1, NobodyHolds
  <2>3. Stage = "forming" /\ hops \in Nat
    BY PotatoAssumption DEF Init, Stage
  <2> QED BY <2>2, <2>3 DEF Game!Init
<1>2. IInv /\ IInv' /\ [Next]_vars => [interrupted' # {} \/ Game!Next]_(Game!vars)
  BY StepPlays
<1> QED BY <1>1, <1>2, Invariance, PTL DEF Spec, ImplementsGame
=============================================================================

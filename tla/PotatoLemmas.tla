---------------------------- MODULE PotatoLemmas ----------------------------
(***************************************************************************)
(* The inductive invariant of Potato, the lemmas about its messages and    *)
(* queues, the parts of the invariant that interrupts do not disturb (the  *)
(* types, the registration of the players and the closing of the game),    *)
(* and, of the game itself, what a message sent or accepted leaves alone.  *)
(***************************************************************************)
EXTENDS Potato, FiniteSetTheorems, TLAPS

(* A trace reaches its reader whole.                                       *)
WholeTraces == MaxHops <= Segment

-----------------------------------------------------------------------------
(* The inductive invariant.                                                *)

Messages ==
  {Connect(p) : p \in Players}
    \cup {YouAre(n, l, r) : n \in Nat, l \in Players, r \in Players}
    \cup {Route(h, trace) : h \in Nat, trace \in Seq(Nat)}
    \cup {Close}

TypeInv ==
  /\ hops \in 0 .. MaxHops /\ rand \in [Processes -> 0 .. RAND_MAX]
  /\ accept_queue \in [Processes -> Seq(Messages)]
  /\ mpc \in {"register", "inform", "launch", "wait", "closing", "ok", "failed"}
  /\ players \in Seq(Players) /\ i \in Nat /\ output \in Seq(Nat) \cup {NULL}
  /\ state \in [Players -> {"start", "running", "ok", "failed"}]
  /\ player_number \in [Players -> Nat]
  /\ left \in [Players -> Players \cup {NULL}] /\ right \in [Players -> Players \cup {NULL}]
  /\ interrupted \subseteq Processes

(* Whatever is interrupted: a player registers once.                       *)
Registering(p) ==
  \E k \in DOMAIN accept_queue[Master] : accept_queue[Master][k] = Connect(p)

RegisterInv ==
  /\ \A j, k \in DOMAIN players : players[j] = players[k] => j = k
  /\ \A j, k \in DOMAIN accept_queue[Master] :
       /\ accept_queue[Master][j].type = "CONNECT"
       /\ accept_queue[Master][j] = accept_queue[Master][k]
       => j = k
  /\ \A p \in Players :
       /\ Registering(p) => p \notin Range(players)
       /\ Registering(p) \/ p \in Range(players) => state[p] # "start"
  /\ mpc = "register" => Len(players) < num_players
  /\ mpc \in {"inform", "launch", "wait"} => Len(players) = num_players
  /\ mpc = "inform" => i < num_players

(* Whatever is interrupted: close_master has told the players up to i.     *)
Closed(p) == Exited(p) \/ Contains(accept_queue[p], Close)

CloseInv ==
  /\ mpc = "closing" => \A k \in DOMAIN players : k <= i => Closed(players[k])
  /\ mpc = "ok" => \A k \in DOMAIN players : Closed(players[k])

(* As long as nobody is interrupted.  Player k - 1 has been sent what it   *)
(* needs to know, and has it, or is about to accept it.                    *)
Told(k) == mpc # "register" /\ (mpc = "inform" => k <= i)

Knows(k) ==
  LET p == players[k]
      q == accept_queue[players[k]]
  IN  \/ /\ InfoFor(k - 1) = YouAre(player_number[p], left[p], right[p])
         /\ \A n \in DOMAIN q : q[n].type # "YOUARE"
      \/ /\ q # <<>> /\ q[1] = InfoFor(k - 1)
         /\ \A n \in DOMAIN q : n > 1 => q[n].type # "YOUARE"

InfoInv ==
  /\ mpc = "register" => \A p \in Players : accept_queue[p] = <<>> /\ state[p] # "ok"
  /\ mpc # "register" => Len(players) = num_players
  /\ \A k \in DOMAIN players :
       /\ Told(k) => Knows(k)
       /\ ~Told(k) => accept_queue[players[k]] = <<>>

(* Until it has been sent a Close, a player is running.                    *)
Dismissed(k) == mpc = "ok" \/ (mpc = "closing" /\ k <= i)

RunInv ==
  /\ mpc # "failed" /\ \A p \in Players : state[p] # "failed"
  /\ \A k \in DOMAIN players :
       ~Dismissed(k) => /\ state[players[k]] = "running"
                        /\ \A n \in DOMAIN accept_queue[players[k]] :
                             accept_queue[players[k]][n].type # "CLOSE"

(* There is at most one potato, and only while the master waits for it.    *)
HasPotato(q, n) == accept_queue[q][n].type = "ROUTE"

NoPotato == \A q \in Processes : \A n \in DOMAIN accept_queue[q] : ~HasPotato(q, n)

OnePotato ==
  \A q, r \in Processes : \A j \in DOMAIN accept_queue[q], n \in DOMAIN accept_queue[r] :
    HasPotato(q, j) /\ HasPotato(r, n) => q = r /\ j = n

PotatoInv ==
  /\ mpc # "wait" => NoPotato
  /\ OnePotato
  /\ mpc \notin {"closing", "ok"} => output = NULL

(* When traces are whole, the potato has made the hops of its trace.       *)
RouteInv ==
  \A q \in Processes : \A n \in DOMAIN accept_queue[q] :
    HasPotato(q, n) =>
      /\ accept_queue[q][n].hops = hops
      /\ IF q = Master THEN Len(accept_queue[q][n].trace) = hops
         ELSE Len(accept_queue[q][n].trace) < hops

GameInv == InfoInv /\ RunInv /\ PotatoInv /\ (WholeTraces => RouteInv)

IInv == TypeInv /\ RegisterInv /\ CloseInv /\ (interrupted = {} => GameInv)

-----------------------------------------------------------------------------
(* Lemmas.                                                                 *)

(* What is in a message, by its type.                                      *)
LEMMA MessageFacts ==
  \A m \in Messages :
    /\ m.type \in {"CONNECT", "YOUARE", "ROUTE", "CLOSE"}
    /\ m.type = "CONNECT" => m.from \in Players /\ m = Connect(m.from)
    /\ m.type = "YOUARE" => m.number \in Nat /\ m.left \in Players /\ m.right \in Players
    /\ m.type = "ROUTE" => m.hops \in Nat /\ m.trace \in Seq(Nat)
    /\ m.type = "CLOSE" <=> m = Close
BY DEF Messages, Connect, YouAre, Route, Close

(* A CONNECT names the player it comes from.                               *)
LEMMA ConnectFacts ==
  /\ \A p \in Players : Connect(p) \in Messages /\ Connect(p).type = "CONNECT"
  /\ \A p, q \in Players : Connect(p) = Connect(q) => p = q
BY DEF Messages, Connect

(* What send_info_to_player puts into a YOUARE is read back from it.       *)
LEMMA YouAreFacts ==
  ASSUME NEW n \in Nat, NEW l \in Players, NEW r \in Players
  PROVE  /\ YouAre(n, l, r) \in Messages /\ YouAre(n, l, r).type = "YOUARE"
         /\ YouAre(n, l, r).number = n
         /\ YouAre(n, l, r).left = l /\ YouAre(n, l, r).right = r
BY DEF Messages, YouAre

(* The potato carries its number of hops and its trace.                    *)
LEMMA RouteFacts ==
  ASSUME NEW h \in Nat, NEW trace \in Seq(Nat)
  PROVE  /\ Route(h, trace) \in Messages /\ Route(h, trace).type = "ROUTE"
         /\ Route(h, trace).hops = h /\ Route(h, trace).trace = trace
BY DEF Messages, Route

(* A CLOSE is a message.                                                   *)
LEMMA CloseFacts == Close \in Messages /\ Close.type = "CLOSE"
BY DEF Messages, Close

(* The positions of a sequence.                                            *)
LEMMA IndexFacts ==
  ASSUME NEW S, NEW s \in Seq(S)
  PROVE  \A k \in DOMAIN s : k \in Nat /\ ~(k <= 0) /\ k + 0 = k
OBVIOUS

(* The first message of an empty queue.                                    *)
LEMMA AppendFirst ==
  ASSUME NEW x
  PROVE  Append(<<>>, x) = <<x>>
OBVIOUS

(* The ends of a queue.                                                    *)
LEMMA AppendFacts ==
  ASSUME NEW S, NEW q \in Seq(S), NEW e \in S
  PROVE  /\ Append(q, e) \in Seq(S) /\ Len(Append(q, e)) = Len(q) + 1
         /\ DOMAIN Append(q, e) = 1 .. Len(q) + 1 /\ DOMAIN q = 1 .. Len(q) /\ Len(q) \in Nat
         /\ \A k \in 1 .. Len(q) : Append(q, e)[k] = q[k]
         /\ Append(q, e)[Len(q) + 1] = e
OBVIOUS

(* What is left of a queue when its first message is taken.                *)
LEMMA TailFacts ==
  ASSUME NEW S, NEW q \in Seq(S), q # <<>>
  PROVE  /\ Tail(q) \in Seq(S) /\ Len(Tail(q)) = Len(q) - 1 /\ Len(q) \in Nat \ {0}
         /\ DOMAIN Tail(q) = 1 .. Len(q) - 1 /\ DOMAIN q = 1 .. Len(q)
         /\ \A k \in 1 .. Len(q) - 1 : Tail(q)[k] = q[k + 1]
         /\ Head(q) = q[1] /\ q[1] \in S
OBVIOUS

(* The number of players.                                                  *)
LEMMA NumPlayers == num_players \in Nat \ {0}
<1>1. num_players \in Nat
  BY PotatoAssumption, FS_CardinalityType DEF num_players
<1>2. num_players # 0
  BY PotatoAssumption, FS_EmptySet DEF num_players
<1> QED BY <1>1, <1>2

(* mod gives the neighbours on the ring.                                   *)
LEMMA ModFacts ==
  ASSUME NEW b \in Nat \ {0}, NEW n \in 0 .. b - 1
  PROVE  /\ mod(n - 1, b) \in 0 .. b - 1 /\ mod(n - 1, b) = (n + b - 1) % b
         /\ mod(n + 1, b) \in 0 .. b - 1 /\ mod(n + 1, b) = (n + 1) % b
<1>1. \A a \in Int : a % b \in 0 .. b - 1
  OBVIOUS
<1>2. \A a \in Nat : a < b => a % b = a
  OBVIOUS
<1>3. b % b = 0 /\ 1 % b = (IF b = 1 THEN 0 ELSE 1)
  OBVIOUS
<1>4. mod(n + 1, b) = (n + 1) % b
  BY <1>1 DEF mod
<1>5. CASE n = 0
  BY <1>1, <1>2, <1>3, <1>4, <1>5 DEF mod
<1>6. CASE n > 0
  <2>1. (n - 1) % b = n - 1
    BY <1>2, <1>6
  <2>2. (n + b - 1) % b = n - 1
    <3>1. n + b - 1 = (n - 1) + b
      BY <1>6
    <3>2. \A a \in 0 .. b - 1 : (a + b) % b = a
      OBVIOUS
    <3>3. n - 1 \in 0 .. b - 1
      BY <1>6
    <3>4. ((n - 1) + b) % b = n - 1
      BY <3>2, <3>3
    <3> QED BY <3>1, <3>4, Zenon
  <2>3. mod(n - 1, b) = n - 1
    BY <1>6, <2>1 DEF mod
  <2>4. n - 1 \in 0 .. b - 1 /\ (n + 1) % b \in 0 .. b - 1
    BY <1>1, <1>6
  <2> QED BY <1>4, <2>2, <2>3, <2>4
<1> QED BY <1>5, <1>6

(* randr stays within its bounds.                                          *)
LEMMA RandrBounds ==
  ASSUME NEW n \in Nat \ {0}, NEW r \in Nat, NEW x \in 0 .. r
  PROVE  x \div (r \div n + 1) \in 0 .. n - 1
<1> DEFINE d == r \div n + 1
           y == x \div d
<1>1. d \in Nat \ {0} /\ r < n * d
  <2>1. r \div n \in Nat
    OBVIOUS
  <2>2. r < n * (r \div n) + n
    BY <2>1
  <2>3. n * d = n * (r \div n) + n
    BY <2>1
  <2> QED BY <2>1, <2>2, <2>3
<1> HIDE DEF d
<1>2. y \in Nat /\ d * y <= x
  BY <1>1
<1> HIDE DEF y
<1>3. d * y < n * d
  BY <1>1, <1>2
<1>4. y < n
  <2> SUFFICES ASSUME y >= n PROVE FALSE
    BY <1>2
  <2>1. d * y >= d * n
    BY <1>1, <1>2
  <2>2. d * n = n * d
    BY <1>1
  <2> QED BY <1>1, <1>2, <1>3, <2>1, <2>2
<1>5. y \in 0 .. n - 1
  BY <1>2, <1>4
<1> QED BY <1>5 DEF y, d

(* The player the master launches the potato to is one of the players.     *)
LEMMA FirstPlayer ==
  ASSUME TypeInv
  PROVE  first_player \in 0 .. num_players - 1
<1>1. rand[Master] \in 0 .. RAND_MAX
  BY DEF TypeInv, Processes
<1>2. rand[Master] \div (RAND_MAX \div num_players + 1) \in 0 .. num_players - 1
  BY <1>1, PotatoAssumption, NumPlayers, RandrBounds
<1>3. (num_players - 1) - 0 + 1 = num_players
  BY NumPlayers
<1> QED BY <1>2, <1>3, NumPlayers DEF first_player, randr

(* When the master has as many players as it expects, it has them all, and *)
(* never more.                                                             *)
LEMMA AllRegistered ==
  ASSUME TypeInv, RegisterInv
  PROVE  /\ IsFiniteSet(Range(players)) /\ Cardinality(Range(players)) = Len(players)
         /\ Range(players) \subseteq Players
         /\ Len(players) = num_players => Range(players) = Players
<1>1. players \in Seq(Players) /\ DOMAIN players = 1 .. Len(players) /\ Len(players) \in Nat
  BY DEF TypeInv
<1>2. Range(players) \subseteq Players /\ Range(players) = {players[k] : k \in 1 .. Len(players)}
  BY <1>1 DEF Range
<1>3. IsFiniteSet(Range(players))
  BY <1>2, PotatoAssumption, FS_Subset
<1>4. IsFiniteSet(1 .. Len(players)) /\ Cardinality(1 .. Len(players)) = Len(players)
  BY <1>1, FS_Interval
<1>5. \E f : f \in Bijection(1 .. Len(players), Range(players))
  <2>1. players \in [1 .. Len(players) -> Range(players)]
    BY <1>1, <1>2
  <2>2. \A j, k \in 1 .. Len(players) : players[j] = players[k] => j = k
    BY <1>1 DEF RegisterInv
  <2>3. \A p \in Range(players) : \E k \in 1 .. Len(players) : players[k] = p
    BY <1>2
  <2>4. players \in Bijection(1 .. Len(players), Range(players))
    BY <2>1, <2>2, <2>3 DEF Bijection, Injection, Surjection, IsInjective
  <2> QED BY <2>4
<1>6. Cardinality(Range(players)) = Len(players)
  BY <1>3, <1>4, <1>5, FS_Bijection DEF ExistsBijection
<1>7. Len(players) = num_players => Range(players) = Players
  BY <1>2, <1>6, PotatoAssumption, FS_Subset DEF num_players
<1> QED BY <1>2, <1>3, <1>6, <1>7, Zenon

(* The queues when a message has been sent, or accepted.                   *)
LEMMA Sent ==
  ASSUME NEW aq \in [Processes -> Seq(Messages)], NEW q \in Processes, NEW m \in Messages,
         NEW bq, bq = [aq EXCEPT ![q] = Append(@, m)]
  PROVE  /\ bq \in [Processes -> Seq(Messages)]
         /\ \A r \in Processes : bq[r] = IF r = q THEN Append(aq[q], m) ELSE aq[r]
<1>1. Append(aq[q], m) \in Seq(Messages)
  BY AppendFacts
<1> QED BY <1>1

(* A process accepts the first connection: only its own queue changes.     *)
LEMMA Taken ==
  ASSUME NEW aq \in [Processes -> Seq(Messages)], NEW q \in Processes, aq[q] # <<>>,
         NEW bq, bq = [aq EXCEPT ![q] = Tail(@)]
  PROVE  /\ bq \in [Processes -> Seq(Messages)]
         /\ \A r \in Processes : bq[r] = IF r = q THEN Tail(aq[q]) ELSE aq[r]
<1>1. Tail(aq[q]) \in Seq(Messages)
  BY TailFacts
<1> QED BY <1>1

(* With a hop count that a segment can hold the trace of, no trace is cut. *)
LEMMA HopsFit ==
  ASSUME TypeInv, WholeTraces
  PROVE  hops \in Nat /\ hops <= Segment
<1>1. hops \in 0 .. MaxHops
  BY DEF TypeInv
<1> QED BY <1>1, PotatoAssumption DEF WholeTraces

(* The first connection of a process that has one brings a message.        *)
LEMMA HeadFacts ==
  ASSUME TypeInv, NEW q \in Processes, accept_queue[q] # <<>>
  PROVE  /\ Head(accept_queue[q]) = accept_queue[q][1] /\ accept_queue[q][1] \in Messages
         /\ 1 \in DOMAIN accept_queue[q]
<1>1. accept_queue[q] \in Seq(Messages)
  BY DEF TypeInv
<1> QED BY <1>1, TailFacts

(* What send_info_to_player sends.                                         *)
LEMMA InfoFacts ==
  ASSUME TypeInv, Len(players) = num_players, NEW n \in 0 .. num_players - 1
  PROVE  /\ InfoFor(n) \in Messages /\ InfoFor(n).type = "YOUARE" /\ InfoFor(n).number = n
         /\ InfoFor(n).left = players[((n + num_players - 1) % num_players) + 1]
         /\ InfoFor(n).right = players[((n + 1) % num_players) + 1]
         /\ InfoFor(n).left \in Players /\ InfoFor(n).right \in Players
<1> DEFINE l == mod(n - 1, num_players)
           r == mod(n + 1, num_players)
<1>1. /\ l \in 0 .. num_players - 1 /\ l = (n + num_players - 1) % num_players
      /\ r \in 0 .. num_players - 1 /\ r = (n + 1) % num_players
  BY NumPlayers, ModFacts
<1> HIDE DEF l, r
<1>2. players \in Seq(Players)
  BY DEF TypeInv
<1>3. players[l + 1] \in Players /\ players[r + 1] \in Players
  BY <1>1, <1>2, NumPlayers
<1>4. InfoFor(n) = YouAre(n, players[l + 1], players[r + 1])
  BY DEF InfoFor, l, r
<1>5. n \in Nat
  BY NumPlayers
<1>6. /\ InfoFor(n) \in Messages /\ InfoFor(n).type = "YOUARE" /\ InfoFor(n).number = n
      /\ InfoFor(n).left = players[l + 1] /\ InfoFor(n).right = players[r + 1]
  BY <1>3, <1>4, <1>5, YouAreFacts
<1> QED BY <1>1, <1>3, <1>6, Zenon

(* What a reader takes for the trace.                                      *)
LEMMA SegmentFacts ==
  ASSUME NEW t \in Seq(Nat), NEW u \in FirstSegments(t)
  PROVE  u \in Seq(Nat) /\ (Len(t) <= Segment => u = t)
<1>1. PICK k \in 0 .. Len(t) : u = SubSeq(t, 1, k) /\ (k >= Segment \/ k = Len(t))
  BY DEF FirstSegments
<1>2. SubSeq(t, 1, k) \in Seq(Nat)
  BY <1>1
<1>3. ASSUME Len(t) <= Segment PROVE u = t
  <2>1. k = Len(t)
    BY <1>1, <1>3, PotatoAssumption
  <2> QED BY <1>1, <2>1
<1> QED BY <1>1, <1>2, <1>3

(* Where a player sends the potato.                                        *)
LEMMA HopFacts ==
  ASSUME TypeInv, NEW p \in Players, NEW n, NEW h
  PROVE  NextHop(p, n, h) \in {Master, left[p], right[p]} /\ left[p] \in Players \cup {NULL}
         /\ right[p] \in Players \cup {NULL}
BY DEF TypeInv, NextHop

(* The master's table holds players only, never the master itself.         *)
LEMMA PlayersAt ==
  ASSUME TypeInv
  PROVE  /\ DOMAIN players = 1 .. Len(players) /\ Len(players) \in Nat
         /\ \A k \in DOMAIN players : players[k] \in Players /\ players[k] \in Processes
                                      /\ players[k] # Master
BY PotatoAssumption DEF TypeInv, Processes

-----------------------------------------------------------------------------
(* What the steps that send do to the queues.                              *)

(* The queues when p has accepted its first message and sent m to q.       *)
Passed(p, q, m, bq) ==
  /\ bq \in [Processes -> Seq(Messages)]
  /\ \A r \in Processes :
       bq[r] = IF r = q THEN Append(IF r = p THEN Tail(accept_queue[p]) ELSE accept_queue[r], m)
               ELSE IF r = p THEN Tail(accept_queue[p]) ELSE accept_queue[r]

(* A player that accepts the potato passes it on, or fails.                *)
LEMMA RouteEffect ==
  ASSUME TypeInv, NEW p \in Players, state[p] = "running", accept_queue[p] # <<>>,
         accept_queue[p][1].type = "ROUTE", RecvRoute(p, accept_queue[p][1])
  PROVE  \E trace \in FirstSegments(accept_queue[p][1].trace) :
           LET h == accept_queue[p][1].hops
               q == NextHop(p, Len(trace), h)
           IN  /\ h \in Nat /\ trace \in Seq(Nat)
               /\ \/ /\ q \in Processes /\ Listening(q) /\ state' = state
                     /\ Passed(p, q, Route(h, Append(trace, player_number[p])), accept_queue')
                  \/ /\ q = NULL \/ ~Listening(q)
                     /\ state' = [state EXCEPT ![p] = "failed"] /\ accept_queue' = accept_queue
<1> DEFINE m == accept_queue[p][1]
<1>1. m.hops \in Nat /\ m.trace \in Seq(Nat)
  BY HeadFacts, MessageFacts DEF Processes
<1>2. PICK trace \in FirstSegments(m.trace) :
        PlayerSends(p, NextHop(p, Len(trace), m.hops),
                    Route(m.hops, Append(trace, player_number[p])), Accepted(p))
  BY DEF RecvRoute
<1> DEFINE q == NextHop(p, Len(trace), m.hops)
           n == Route(m.hops, Append(trace, player_number[p]))
<1>3. trace \in Seq(Nat) /\ Append(trace, player_number[p]) \in Seq(Nat)
  BY <1>1, SegmentFacts DEF TypeInv
<1>4. n \in Messages
  BY <1>1, <1>3, RouteFacts, Zenon
<1>5. q \in Processes \cup {NULL}
  BY HopFacts, Zenon DEF Processes
<1> HIDE DEF q, n, m
<1>6. CASE /\ q # NULL /\ Listening(q) /\ Becomes(p, "running")
           /\ accept_queue' = [Accepted(p) EXCEPT ![q] = Append(@, n)]
  <2>1. q \in Processes /\ p \in Processes
    BY <1>5, <1>6 DEF Processes
  <2>2. state' = state
    BY <1>6 DEF Becomes, TypeInv
  <2>3. /\ Accepted(p) \in [Processes -> Seq(Messages)]
        /\ \A r \in Processes :
             Accepted(p)[r] = IF r = p THEN Tail(accept_queue[p]) ELSE accept_queue[r]
    BY <2>1, Taken DEF Accepted, TypeInv
  <2>4. /\ accept_queue' \in [Processes -> Seq(Messages)]
        /\ \A r \in Processes :
             accept_queue'[r] = IF r = q THEN Append(Accepted(p)[q], n) ELSE Accepted(p)[r]
    <3> HIDE DEF Accepted
    <3> QED BY <1>4, <1>6, <2>1, <2>3, Sent, Zenon
  <2>5. Passed(p, q, n, accept_queue')
    BY <2>1, <2>3, <2>4, Zenon DEF Passed
  <2> QED BY <1>1, <1>3, <1>6, <2>1, <2>2, <2>5, Zenon DEF q, n, m
<1>7. CASE (q = NULL \/ ~Listening(q)) /\ Becomes(p, "failed") /\ UNCHANGED accept_queue
  BY <1>1, <1>3, <1>7 DEF q, m, Becomes
<1> QED BY <1>2, <1>6, <1>7, Zenon DEF PlayerSends, q, n, m

(* The master sends m to a player, or fails.                               *)
LEMMA MasterEffect ==
  ASSUME TypeInv, NEW q \in Processes, NEW m \in Messages, NEW pc, MasterSends(q, m, pc)
  PROVE  \/ /\ Listening(q) /\ mpc' = pc /\ accept_queue' \in [Processes -> Seq(Messages)]
            /\ \A r \in Processes :
                 accept_queue'[r] = IF r = q THEN Append(accept_queue[q], m) ELSE accept_queue[r]
         \/ ~Listening(q) /\ mpc' = "failed" /\ accept_queue' = accept_queue
<1>1. CASE Listening(q) /\ accept_queue' = Delivered(q, m) /\ mpc' = pc
  BY <1>1, Sent DEF Delivered, TypeInv
<1>2. CASE ~Listening(q) /\ mpc' = "failed" /\ UNCHANGED accept_queue
  BY <1>2
<1> QED BY <1>1, <1>2 DEF MasterSends

-----------------------------------------------------------------------------
(* Types.                                                                  *)

(* No step of master or player leaves the types.                           *)
LEMMA TypeStep ==
  ASSUME TypeInv, RegisterInv, [Next]_vars
  PROVE  TypeInv'
<1> USE DEF given, master, player
<1>1. CASE RecvMessages
  <2>1. Master \in Processes /\ accept_queue[Master] # <<>>
    BY <1>1 DEF RecvMessages, Processes
  <2>2. accept_queue' \in [Processes -> Seq(Messages)]
    BY <1>1, <2>1, Taken DEF RecvMessages, Accepted, TypeInv
  <2> DEFINE m == accept_queue[Master][1]
  <2>3. /\ m.type = "CONNECT" => m.from \in Players
        /\ m.type = "ROUTE" => m.trace \in Seq(Nat)
    BY <2>1, HeadFacts, MessageFacts
  <2>4. Head(accept_queue[Master]) = m
    BY <2>1, HeadFacts
  <2>5. \/ m.type = "ROUTE" /\ output' \in FirstSegments(m.trace) /\ UNCHANGED players
        \/ m.type = "CONNECT" /\ players' = Append(players, m.from) /\ UNCHANGED output
    BY <1>1, <2>4 DEF RecvMessages
  <2> HIDE DEF m
  <2>6. output' \in Seq(Nat) \cup {NULL} /\ players' \in Seq(Players)
    <3>1. output \in Seq(Nat) \cup {NULL} /\ players \in Seq(Players)
      BY DEF TypeInv
    <3>2. CASE m.type = "ROUTE" /\ output' \in FirstSegments(m.trace) /\ UNCHANGED players
      BY <2>3, <3>1, <3>2, SegmentFacts
    <3>3. CASE m.type = "CONNECT" /\ players' = Append(players, m.from) /\ UNCHANGED output
      BY <2>3, <3>1, <3>3
    <3> QED BY <2>5, <3>2, <3>3
  <2> QED BY <1>1, <2>2, <2>6 DEF RecvMessages, TypeInv
<1>2. CASE send_info_to_player
  <2>1. /\ Len(players) = num_players /\ i \in 0 .. num_players - 1
        /\ i + 1 \in DOMAIN players
    BY <1>2, NumPlayers, PlayersAt DEF send_info_to_player, RegisterInv, TypeInv
  <2>2. InfoFor(i) \in Messages /\ players[i+1] \in Processes
    BY <2>1, InfoFacts, PlayersAt
  <2>3. accept_queue' \in [Processes -> Seq(Messages)] /\ mpc' \in {"inform", "launch", "failed"}
    <3> DEFINE pc == IF i + 1 < num_players THEN "inform" ELSE "launch"
               q  == players[i+1]
               m  == InfoFor(i)
    <3>1. MasterSends(q, m, pc) /\ q \in Processes /\ m \in Messages
      BY <1>2, <2>2 DEF send_info_to_player
    <3>2. pc \in {"inform", "launch"}
      OBVIOUS
    <3> HIDE DEF pc, q, m
    <3> QED BY <3>1, <3>2, MasterEffect DEF TypeInv
  <2> QED BY <1>2, <2>3 DEF send_info_to_player, TypeInv
<1>3. CASE Launch
  <2>1. CASE hops > 0 /\ MasterSends(players[first_player + 1], Route(hops, <<>>), "wait")
    <3>1. first_player + 1 \in DOMAIN players
      BY <1>3, FirstPlayer, PlayersAt, NumPlayers DEF Launch, RegisterInv
    <3>2. Route(hops, <<>>) \in Messages /\ players[first_player + 1] \in Processes
      <4>1. hops \in Nat /\ <<>> \in Seq(Nat)
        BY PotatoAssumption DEF TypeInv
      <4> QED BY <3>1, <4>1, RouteFacts, PlayersAt, Zenon
    <3>3. accept_queue' \in [Processes -> Seq(Messages)] /\ mpc' \in {"wait", "failed"}
      BY <2>1, <3>2, MasterEffect, Zenon DEF TypeInv
    <3> QED BY <1>3, <3>3, Zenon DEF Launch, TypeInv
  <2>2. CASE mpc' = "closing" /\ UNCHANGED accept_queue
    BY <1>3, <2>2 DEF Launch, TypeInv
  <2> QED BY <1>3, <2>1, <2>2 DEF Launch
<1>4. CASE close_master
  <2>1. CASE MoreToClose(i) /\ MasterSends(players[i+1], Close, "closing")
    <3>1. i + 1 \in DOMAIN players
      BY <2>1, PlayersAt DEF MoreToClose, TypeInv
    <3>2. Close \in Messages /\ players[i+1] \in Processes
      BY <3>1, CloseFacts, PlayersAt
    <3>3. accept_queue' \in [Processes -> Seq(Messages)] /\ mpc' \in {"closing", "failed"}
      BY <2>1, <3>2, MasterEffect DEF TypeInv
    <3>4. i' \in Nat
      <4>1. i \in Nat /\ i' = i + 1
        BY <1>4, Zenon DEF close_master, TypeInv
      <4> QED BY <4>1
    <3> QED BY <1>4, <3>3, <3>4, Zenon DEF close_master, TypeInv
  <2>2. CASE mpc' = "ok" /\ UNCHANGED accept_queue
    BY <1>4, <2>2 DEF close_master, TypeInv
  <2> QED BY <1>4, <2>1, <2>2 DEF close_master
<1>5. CASE MasterInterrupt
  BY <1>5 DEF MasterInterrupt, TypeInv, Processes
<1>6. ASSUME NEW p \in Players, send_player_info(p) PROVE TypeInv'
  <2>1. CASE accept_queue' = [accept_queue EXCEPT ![Master] = Append(@, Connect(p))] /\ Becomes(p, "running")
    <3>1. Master \in Processes /\ Connect(p) \in Messages
      BY ConnectFacts DEF Processes
    <3>2. accept_queue' \in [Processes -> Seq(Messages)]
      BY <2>1, <3>1, Sent DEF TypeInv
    <3> QED BY <1>6, <2>1, <3>2 DEF send_player_info, TypeInv, Becomes
  <2>2. CASE Becomes(p, "failed") /\ UNCHANGED accept_queue
    BY <1>6, <2>2, Zenon DEF send_player_info, TypeInv, Becomes
  <2> QED BY <1>6, <2>1, <2>2 DEF send_player_info, PlayerSends
<1>7. ASSUME NEW p \in Players, recv_messages(p) PROVE TypeInv'
  <2> DEFINE m == accept_queue[p][1]
  <2>1. /\ state[p] = "running" /\ accept_queue[p] # <<>> /\ p \in Processes
        /\ UNCHANGED <<given, master, interrupted>>
    BY <1>7 DEF recv_messages, Processes
  <2>2. m \in Messages /\ Head(accept_queue[p]) = m
    BY <2>1, HeadFacts, Zenon
  <2>3. CASE RecvClose(p)
    BY <2>1, <2>3 DEF RecvClose, Becomes, TypeInv
  <2>4. CASE m.type = "YOUARE" /\ RecvInfo(p, m)
    <3>1. accept_queue' \in [Processes -> Seq(Messages)]
      BY <2>1, <2>4, Taken DEF RecvInfo, Accepted, TypeInv
    <3>2. m.number \in Nat /\ m.left \in Players /\ m.right \in Players
      BY <2>2, <2>4, MessageFacts
    <3> HIDE DEF m
    <3> QED BY <2>1, <2>4, <3>1, <3>2, Zenon DEF RecvInfo, TypeInv
  <2>5. CASE m.type = "ROUTE" /\ RecvRoute(p, m)
    <3>1. \/ state' = state /\ accept_queue' \in [Processes -> Seq(Messages)]
          \/ state' = [state EXCEPT ![p] = "failed"] /\ accept_queue' = accept_queue
      BY <2>1, <2>5, RouteEffect, Zenon DEF Passed
    <3>2. UNCHANGED <<player_number, left, right>>
      BY <2>5, Zenon DEF RecvRoute
    <3> QED BY <2>1, <3>1, <3>2, Zenon DEF TypeInv
  <2> QED BY <1>7, <2>2, <2>3, <2>4, <2>5, Zenon DEF recv_messages
<1>8. ASSUME NEW p \in Players, PlayerInterrupt(p) PROVE TypeInv'
  BY <1>8 DEF PlayerInterrupt, Becomes, TypeInv, Processes
<1>9. CASE UNCHANGED vars
  BY <1>9, Zenon DEF vars, TypeInv
<1> QED BY <1>1, <1>2, <1>3, <1>4, <1>5, <1>6, <1>7, <1>8, <1>9, Zenon
        DEF Next, MasterStep, PlayerStep

-----------------------------------------------------------------------------
(* Registration.                                                           *)

(* The steps in which nobody registers.                                    *)
LEMMA RegisterFrame ==
  ASSUME TypeInv, RegisterInv, players' = players,
         \A p \in Players : state[p] # "start" => state'[p] # "start",
         \/ accept_queue'[Master] = accept_queue[Master]
         \/ \E m \in Messages : /\ m.type # "CONNECT"
                                /\ accept_queue'[Master] = Append(accept_queue[Master], m),
         mpc' = "register" => mpc = "register",
         mpc' \in {"inform", "launch", "wait"} => mpc \in {"inform", "launch", "wait"},
         mpc' = "inform" => i' < num_players
  PROVE  RegisterInv'
<1> DEFINE q == accept_queue[Master]
<1>1. q \in Seq(Messages) /\ DOMAIN q = 1 .. Len(q) /\ Len(q) \in Nat
  BY DEF TypeInv, Processes
<1>2. /\ \A k \in DOMAIN q' : q'[k].type = "CONNECT" => k \in DOMAIN q /\ q'[k] = q[k]
      /\ \A k \in DOMAIN q : k \in DOMAIN q' /\ q'[k] = q[k]
  <2>1. CASE q' = q
    BY <2>1
  <2>2. ASSUME NEW m \in Messages, m.type # "CONNECT", q' = Append(q, m)
        PROVE  /\ \A k \in DOMAIN q' : q'[k].type = "CONNECT" => k \in DOMAIN q /\ q'[k] = q[k]
               /\ \A k \in DOMAIN q : k \in DOMAIN q' /\ q'[k] = q[k]
    <3> HIDE DEF q
    <3>1. /\ DOMAIN q' = 1 .. Len(q) + 1 /\ q'[Len(q) + 1] = m
          /\ \A k \in 1 .. Len(q) : q'[k] = q[k]
      BY <1>1, <2>2, AppendFacts
    <3> QED BY <1>1, <2>2, <3>1
  <2> QED BY <2>1, <2>2, Zenon
<1> HIDE DEF q
<1>3. \A p \in Players : Registering(p)' => Registering(p)
  <2> SUFFICES ASSUME NEW p \in Players, NEW k \in DOMAIN q', q'[k] = Connect(p)
               PROVE  \E j \in DOMAIN q : q[j] = Connect(p)
    BY DEF Registering, q
  <2> QED BY <1>2, ConnectFacts, Zenon
<1>4. \A j, k \in DOMAIN q' : q'[j].type = "CONNECT" /\ q'[j] = q'[k] => j = k
  BY <1>2 DEF RegisterInv, q
<1> QED BY <1>3, <1>4, Zenon DEF RegisterInv, q

(* The master accepts a registration: the player is new in its table, and  *)
(* is no longer on its way.                                                *)
LEMMA RegisterRecv ==
  ASSUME TypeInv, RegisterInv, RecvMessages
  PROVE  RegisterInv'
<1> DEFINE q == accept_queue[Master]
           m == q[1]
<1>1. q \in Seq(Messages) /\ q # <<>> /\ Head(q) = m /\ m \in Messages /\ 1 \in DOMAIN q
  BY HeadFacts DEF RecvMessages, TypeInv, Processes
<1>2. q' = Tail(q)
  BY DEF RecvMessages, Accepted, TypeInv, Processes
<1>3. \/ m.type = "ROUTE" /\ players' = players
      \/ m.type = "CONNECT" /\ players' = Append(players, m.from)
  BY <1>1 DEF RecvMessages
<1>4. /\ mpc \in {"register", "wait"} /\ i' = 0 /\ state' = state
      /\ mpc' = IF mpc = "wait" THEN "closing"
                ELSE IF Len(players') < num_players THEN "register" ELSE "inform"
  BY DEF RecvMessages, player
<1>5. /\ \A j, k \in DOMAIN players : players[j] = players[k] => j = k
      /\ \A j, k \in DOMAIN q : q[j].type = "CONNECT" /\ q[j] = q[k] => j = k
      /\ \A p \in Players : Registering(p) <=> \E k \in DOMAIN q : q[k] = Connect(p)
      /\ \A p \in Players : Registering(p)' <=> \E k \in DOMAIN q' : q'[k] = Connect(p)
      /\ \A p \in Players : Registering(p) => p \notin Range(players)
      /\ \A p \in Players : Registering(p) \/ p \in Range(players) => state[p] # "start"
      /\ mpc = "register" => Len(players) < num_players
  BY DEF RegisterInv, Registering
<1> HIDE DEF q, m
<1>6. /\ DOMAIN q' = 1 .. Len(q) - 1 /\ DOMAIN q = 1 .. Len(q) /\ Len(q) \in Nat \ {0}
      /\ \A k \in DOMAIN q' : k + 1 \in DOMAIN q /\ k + 1 # 1 /\ q'[k] = q[k + 1]
  BY <1>1, <1>2, TailFacts
<1>7. \A j, k \in DOMAIN q' : q'[j].type = "CONNECT" /\ q'[j] = q'[k] => j = k
  <2> SUFFICES ASSUME NEW j \in DOMAIN q', NEW k \in DOMAIN q',
                      q'[j].type = "CONNECT", q'[j] = q'[k]
               PROVE  j = k
    OBVIOUS
  <2>1. j + 1 = k + 1
    BY <1>5, <1>6
  <2> QED BY <1>6, <2>1
<1>8. \A p \in Players : Registering(p)' => Registering(p) /\ m # Connect(p)
  <2> SUFFICES ASSUME NEW p \in Players, NEW k \in DOMAIN q', q'[k] = Connect(p)
               PROVE  Registering(p) /\ m # Connect(p)
    BY <1>5
  <2>1. k + 1 \in DOMAIN q /\ k + 1 # 1 /\ q[k + 1] = Connect(p) /\ q[k + 1].type = "CONNECT"
    BY <1>6, ConnectFacts
  <2>2. q[k + 1] # q[1]
    BY <1>1, <1>5, <2>1
  <2> QED BY <1>5, <2>1, <2>2, Zenon DEF m
<1>9. CASE m.type = "ROUTE" /\ players' = players
  <2>1. mpc' \in {"closing", "register"} /\ (mpc' = "register" => mpc = "register")
    BY <1>4, <1>5, <1>9, Zenon
  <2> QED BY <1>4, <1>5, <1>7, <1>8, <1>9, <2>1, Zenon DEF RegisterInv, q
<1>10. CASE m.type = "CONNECT" /\ players' = Append(players, m.from)
  <2>1. m.from \in Players /\ m = Connect(m.from)
    BY <1>1, <1>10, MessageFacts, Zenon
  <2>2. Registering(m.from)
    BY <1>1, <1>5, <2>1, Zenon DEF m
  <2>3. m.from \notin Range(players) /\ state[m.from] # "start"
    BY <1>5, <2>1, <2>2, Zenon
  <2>4. /\ players \in Seq(Players) /\ DOMAIN players = 1 .. Len(players) /\ Len(players) \in Nat
        /\ DOMAIN players' = 1 .. Len(players) + 1 /\ Len(players') = Len(players) + 1
        /\ \A k \in 1 .. Len(players) : players'[k] = players[k]
        /\ players'[Len(players) + 1] = m.from
    BY <1>10, <2>1, AppendFacts DEF TypeInv
  <2>5. Range(players') = Range(players) \cup {m.from}
    BY <2>4 DEF Range
  <2>6. \A k \in DOMAIN players : players[k] # m.from
    BY <2>3, Zenon DEF Range
  <2>7. \A j, k \in DOMAIN players' : players'[j] = players'[k] => j = k
    BY <1>5, <2>4, <2>6
  <2>8. \A p \in Players :
          /\ Registering(p)' => p \notin Range(players')
          /\ Registering(p)' \/ p \in Range(players') => state'[p] # "start"
    BY <1>4, <1>5, <1>8, <2>1, <2>3, <2>5, Zenon
  <2>9. /\ mpc' = "register" => Len(players') < num_players
        /\ mpc' \in {"inform", "launch", "wait"} => Len(players') = num_players
        /\ mpc' = "inform" => i' < num_players
    BY <1>4, <1>5, <2>4, NumPlayers
  <2> QED BY <1>7, <2>7, <2>8, <2>9, Zenon DEF RegisterInv, q
<1> QED BY <1>3, <1>9, <1>10, Zenon

(* No step of master or player registers a player twice, or loses one.     *)
LEMMA RegisterStep ==
  ASSUME TypeInv, RegisterInv, [Next]_vars
  PROVE  RegisterInv'
<1> USE DEF given, master, player
<1>1. CASE send_info_to_player
  <2> DEFINE pc == IF i + 1 < num_players THEN "inform" ELSE "launch"
             q  == players[i+1]
             m  == InfoFor(i)
  <2>1. /\ Len(players) = num_players /\ i \in 0 .. num_players - 1
        /\ i + 1 \in DOMAIN players
    BY <1>1, NumPlayers, PlayersAt DEF send_info_to_player, RegisterInv, TypeInv
  <2>2. /\ MasterSends(q, m, pc) /\ q \in Processes /\ m \in Messages
        /\ q # Master /\ Master \in Processes
    BY <1>1, <2>1, InfoFacts, PlayersAt, Zenon DEF send_info_to_player, Processes
  <2>3. /\ pc \in {"inform", "launch"} /\ mpc = "inform"
        /\ pc = "inform" => i + 1 < num_players
        /\ i' = i + 1 /\ players' = players /\ state' = state
    BY <1>1 DEF send_info_to_player
  <2> HIDE DEF pc, q, m
  <2>4. accept_queue'[Master] = accept_queue[Master] /\ mpc' \in {pc, "failed"}
    BY <2>2, MasterEffect
  <2> QED BY <2>3, <2>4, RegisterFrame
<1>2. CASE Launch
  <2>1. CASE hops > 0 /\ MasterSends(players[first_player + 1], Route(hops, <<>>), "wait")
    <3> DEFINE q == players[first_player + 1]
               m == Route(hops, <<>>)
    <3>1. q \in Processes /\ q # Master /\ Master \in Processes
      <4>1. first_player + 1 \in DOMAIN players
        BY <1>2, FirstPlayer, PlayersAt, NumPlayers DEF Launch, RegisterInv
      <4> QED BY <4>1, PlayersAt DEF Processes
    <3>2. m \in Messages
      <4>1. hops \in Nat /\ <<>> \in Seq(Nat)
        BY PotatoAssumption DEF TypeInv
      <4> QED BY <4>1, RouteFacts, Zenon
    <3>3. MasterSends(q, m, "wait")
      BY <2>1
    <3> HIDE DEF q, m
    <3>4. accept_queue'[Master] = accept_queue[Master] /\ mpc' \in {"wait", "failed"}
      BY <3>1, <3>2, <3>3, MasterEffect
    <3>5. mpc = "launch" /\ players' = players /\ state' = state
      BY <1>2 DEF Launch
    <3> QED BY <3>4, <3>5, RegisterFrame
  <2>2. CASE mpc' = "closing" /\ UNCHANGED accept_queue
    BY <1>2, <2>2, RegisterFrame DEF Launch
  <2> QED BY <1>2, <2>1, <2>2 DEF Launch
<1>3. CASE close_master
  <2>1. CASE MoreToClose(i) /\ MasterSends(players[i+1], Close, "closing")
    <3> DEFINE q == players[i+1]
    <3>1. q \in Processes /\ q # Master /\ Master \in Processes
      <4>1. i + 1 \in DOMAIN players
        BY <2>1, PlayersAt DEF MoreToClose, TypeInv
      <4> QED BY <4>1, PlayersAt, Zenon DEF Processes
    <3> HIDE DEF q
    <3>2. accept_queue'[Master] = accept_queue[Master] /\ mpc' \in {"closing", "failed"}
      BY <2>1, <3>1, CloseFacts, MasterEffect, Zenon DEF q
    <3>3. players' = players /\ state' = state
      BY <1>3 DEF close_master
    <3> QED BY <3>2, <3>3, RegisterFrame
  <2>2. CASE mpc' = "ok" /\ UNCHANGED accept_queue
    BY <1>3, <2>2, RegisterFrame, Zenon DEF close_master
  <2> QED BY <1>3, <2>1, <2>2 DEF close_master
<1>4. CASE MasterInterrupt
  BY <1>4, RegisterFrame DEF MasterInterrupt
<1>5. ASSUME NEW p \in Players, send_player_info(p) PROVE RegisterInv'
  <2> DEFINE q == accept_queue[Master]
  <2>1. state[p] = "start" /\ players' = players /\ mpc' = mpc /\ i' = i
    BY <1>5, Zenon DEF send_player_info
  <2>2. CASE accept_queue' = [accept_queue EXCEPT ![Master] = Append(@, Connect(p))] /\ Becomes(p, "running")
    <3>1. q' = Append(q, Connect(p)) /\ q \in Seq(Messages)
      BY <2>2 DEF TypeInv, Processes
    <3>2. Connect(p) \in Messages /\ Connect(p).type = "CONNECT"
      BY ConnectFacts
    <3>3. ~Registering(p) /\ p \notin Range(players)
      BY <2>1, Zenon DEF RegisterInv
    <3>4. \A r \in Players : (Registering(r) <=> \E k \in DOMAIN q : q[k] = Connect(r))
                             /\ (Registering(r)' <=> \E k \in DOMAIN q' : q'[k] = Connect(r))
      BY Zenon DEF Registering
    <3>5. \A j, k \in DOMAIN q : q[j].type = "CONNECT" /\ q[j] = q[k] => j = k
      BY Zenon DEF RegisterInv
    <3> HIDE DEF q
    <3>6. /\ DOMAIN q' = 1 .. Len(q) + 1 /\ DOMAIN q = 1 .. Len(q) /\ Len(q) \in Nat
          /\ \A k \in 1 .. Len(q) : q'[k] = q[k]
          /\ q'[Len(q) + 1] = Connect(p)
      BY <3>1, <3>2, AppendFacts
    <3>7. \A k \in 1 .. Len(q) : q[k] # Connect(p)
      BY <3>3, <3>4, <3>6, Zenon
    <3>8. \A j, k \in DOMAIN q' : q'[j].type = "CONNECT" /\ q'[j] = q'[k] => j = k
      BY <3>5, <3>6, <3>7
    <3>9. \A r \in Players : Registering(r)' => Registering(r) \/ r = p
      <4> SUFFICES ASSUME NEW r \in Players, NEW k \in DOMAIN q', q'[k] = Connect(r), r # p
                   PROVE  \E j \in DOMAIN q : q[j] = Connect(r)
        BY <3>4
      <4>1. k # Len(q) + 1
        BY <3>6, ConnectFacts, Zenon
      <4> QED BY <3>6, <4>1
    <3>10. \A r \in Players : state'[r] = IF r = p THEN "running" ELSE state[r]
      BY <2>2 DEF Becomes, TypeInv
    <3>11. \A r \in Players :
             /\ Registering(r)' => r \notin Range(players')
             /\ Registering(r)' \/ r \in Range(players') => state'[r] # "start"
      BY <2>1, <3>3, <3>9, <3>10, Zenon DEF RegisterInv
    <3> QED BY <2>1, <3>8, <3>11, Zenon DEF RegisterInv, q
  <2>3. CASE Becomes(p, "failed") /\ UNCHANGED accept_queue
    <3>1. \A r \in Players : state[r] # "start" => state'[r] # "start"
      BY <2>3, Zenon DEF Becomes, TypeInv
    <3> QED BY <2>1, <2>3, <3>1, RegisterFrame, Zenon DEF RegisterInv
  <2> QED BY <1>5, <2>2, <2>3 DEF send_player_info, PlayerSends
<1>6. ASSUME NEW p \in Players, recv_messages(p) PROVE RegisterInv'
  <2> DEFINE m == accept_queue[p][1]
  <2>1. /\ state[p] = "running" /\ accept_queue[p] # <<>> /\ p \in Processes
        /\ players' = players /\ mpc' = mpc /\ i' = i /\ p # Master /\ Master \in Processes
    BY <1>6, PotatoAssumption DEF recv_messages, Processes
  <2>2. m \in Messages /\ Head(accept_queue[p]) = m
    BY <2>1, HeadFacts, Zenon
  <2>3. SUFFICES /\ \A r \in Players : state[r] # "start" => state'[r] # "start"
                 /\ \/ accept_queue'[Master] = accept_queue[Master]
                    \/ \E n \in Messages :
                         /\ n.type # "CONNECT"
                         /\ accept_queue'[Master] = Append(accept_queue[Master], n)
    BY <2>1, RegisterFrame, Zenon DEF RegisterInv
  <2>4. CASE RecvClose(p)
    BY <2>4 DEF RecvClose, Becomes, TypeInv
  <2>5. CASE RecvInfo(p, m)
    BY <2>1, <2>5, Zenon DEF RecvInfo, Accepted, TypeInv
  <2>6. CASE m.type = "ROUTE" /\ RecvRoute(p, m)
    <3>1. PICK trace \in FirstSegments(m.trace) :
            /\ m.hops \in Nat /\ trace \in Seq(Nat)
            /\ \/ /\ NextHop(p, Len(trace), m.hops) \in Processes /\ state' = state
                  /\ Passed(p, NextHop(p, Len(trace), m.hops),
                            Route(m.hops, Append(trace, player_number[p])), accept_queue')
               \/ state' = [state EXCEPT ![p] = "failed"] /\ accept_queue' = accept_queue
      BY <2>1, <2>6, RouteEffect, Zenon
    <3>2. CASE state' = [state EXCEPT ![p] = "failed"] /\ accept_queue' = accept_queue
      BY <3>2, Zenon DEF TypeInv
    <3>3. CASE /\ NextHop(p, Len(trace), m.hops) \in Processes /\ state' = state
               /\ Passed(p, NextHop(p, Len(trace), m.hops),
                         Route(m.hops, Append(trace, player_number[p])), accept_queue')
      <4> DEFINE n == Route(m.hops, Append(trace, player_number[p]))
      <4>1. n \in Messages /\ n.type = "ROUTE"
        <5>1. Append(trace, player_number[p]) \in Seq(Nat)
          BY <3>1 DEF TypeInv
        <5> QED BY <3>1, <5>1, RouteFacts, Zenon
      <4> HIDE DEF n
      <4>2. accept_queue'[Master] \in {accept_queue[Master], Append(accept_queue[Master], n)}
        BY <2>1, <3>3, Zenon DEF Passed, n
      <4> QED BY <3>3, <4>1, <4>2
    <3> QED BY <3>1, <3>2, <3>3, Zenon
  <2> QED BY <1>6, <2>2, <2>4, <2>5, <2>6, Zenon DEF recv_messages
<1>7. ASSUME NEW p \in Players, PlayerInterrupt(p) PROVE RegisterInv'
  <2>1. \A r \in Players : state[r] # "start" => state'[r] # "start"
    BY <1>7, Zenon DEF PlayerInterrupt, Becomes, TypeInv
  <2> QED BY <1>7, <2>1, RegisterFrame DEF PlayerInterrupt, RegisterInv
<1>8. CASE UNCHANGED vars
  BY <1>8, RegisterFrame, Zenon DEF vars, RegisterInv
<1> QED BY <1>1, <1>2, <1>3, <1>4, <1>5, <1>6, <1>7, <1>8, RegisterRecv, Zenon
        DEF Next, MasterStep, PlayerStep

-----------------------------------------------------------------------------
(* Closing.                                                                *)

(* A Close stays in a queue until a player accepts it.                     *)
LEMMA CloseStays ==
  ASSUME NEW q \in Seq(Messages), Contains(q, Close), NEW m \in Messages
  PROVE  /\ Contains(Append(q, m), Close)
         /\ q[1].type # "CLOSE" =>
              Contains(Tail(q), Close) /\ Contains(Append(Tail(q), m), Close)
<1>1. PICK k \in DOMAIN q : q[k] = Close
  BY DEF Contains
<1>2. \A u \in Seq(Messages) : Contains(u, Close) => Contains(Append(u, m), Close)
  <2> SUFFICES ASSUME NEW u \in Seq(Messages), NEW j \in DOMAIN u, u[j] = Close
               PROVE  \E n \in DOMAIN Append(u, m) : Append(u, m)[n] = Close
    BY DEF Contains
  <2> QED BY AppendFacts
<1>3. ASSUME q[1].type # "CLOSE" PROVE Contains(Tail(q), Close)
  <2>1. q # <<>> /\ k # 1
    BY <1>1, <1>3, CloseFacts
  <2>2. k - 1 \in DOMAIN Tail(q) /\ Tail(q)[k - 1] = Close
    BY <1>1, <2>1, TailFacts
  <2> QED BY <2>2 DEF Contains
<1>4. q[1].type # "CLOSE" => Tail(q) \in Seq(Messages)
  <2>1. q # <<>>
    BY <1>1
  <2> QED BY <2>1, TailFacts
<1> QED BY <1>2, <1>3, <1>4, Zenon

(* A player that has exited or has a Close to accept stays so.             *)
LEMMA ClosedStays ==
  ASSUME TypeInv, RegisterInv, [Next]_vars, NEW p \in Players, Closed(p)
  PROVE  Closed(p)'
<1> USE DEF given, master, player
<1> DEFINE q == accept_queue[p]
<1>1. q \in Seq(Messages) /\ p \in Processes /\ p # Master /\ Master \in Processes
  BY PotatoAssumption, Zenon DEF TypeInv, Processes
<1>2. CASE Exited(p)
  <2>1. ASSUME NEW r \in Players, send_player_info(r) PROVE state'[p] = state[p]
    BY <1>2, <2>1 DEF send_player_info, PlayerSends, Becomes, Exited, TypeInv
  <2>2. ASSUME NEW r \in Players, recv_messages(r) PROVE state'[p] = state[p]
    BY <1>2, <2>2, Zenon DEF recv_messages, RecvClose, RecvInfo, RecvRoute, PlayerSends, Becomes,
                      Exited, TypeInv
  <2>3. ASSUME NEW r \in Players, PlayerInterrupt(r) PROVE state'[p] = state[p]
    BY <1>2, <2>3, Zenon DEF PlayerInterrupt, Becomes, Exited, TypeInv
  <2>4. ASSUME MasterStep \/ MasterInterrupt \/ UNCHANGED vars PROVE state' = state
    BY <2>4 DEF MasterStep, RecvMessages, send_info_to_player, Launch, close_master, MasterInterrupt, vars
  <2>5. state'[p] = state[p]
    BY <2>1, <2>2, <2>3, <2>4, Zenon DEF Next, PlayerStep
  <2> QED BY <1>2, <2>5, Zenon DEF Closed, Exited
<1>3. CASE Contains(q, Close)
  <2> DEFINE Kept ==
        \/ q' = q \/ (\E m \in Messages : q' = Append(q, m))
        \/ q[1].type # "CLOSE" /\ (q' = Tail(q) \/ \E m \in Messages : q' = Append(Tail(q), m))
  <2>1. SUFFICES Kept
    BY <1>1, <1>3, CloseStays, CloseFacts, Zenon DEF Closed
  <2>2. CASE RecvMessages
    BY <1>1, <2>2 DEF RecvMessages, Accepted, TypeInv
  <2>3. ASSUME NEW r \in Processes, NEW m \in Messages, NEW pc, MasterSends(r, m, pc)
        PROVE  q' = q \/ \E n \in Messages : q' = Append(q, n)
    BY <1>1, <2>3, MasterEffect, Zenon
  <2>4. CASE send_info_to_player
    <3>1. /\ Len(players) = num_players /\ i \in 0 .. num_players - 1
          /\ i + 1 \in DOMAIN players
      BY <2>4, NumPlayers, PlayersAt DEF send_info_to_player, RegisterInv, TypeInv
    <3>2. InfoFor(i) \in Messages /\ players[i+1] \in Processes
      BY <3>1, InfoFacts, PlayersAt, Zenon
    <3> QED BY <2>3, <2>4, <3>2, Zenon DEF send_info_to_player
  <2>5. CASE Launch
    <3>1. CASE hops > 0 /\ MasterSends(players[first_player + 1], Route(hops, <<>>), "wait")
      <4>1. first_player + 1 \in DOMAIN players
        BY <2>5, FirstPlayer, PlayersAt, NumPlayers DEF Launch, RegisterInv
      <4>2. hops \in Nat /\ <<>> \in Seq(Nat)
        BY PotatoAssumption DEF TypeInv
      <4>3. Route(hops, <<>>) \in Messages /\ players[first_player + 1] \in Processes
        BY <4>1, <4>2, RouteFacts, PlayersAt, Zenon
      <4> QED BY <2>3, <3>1, <4>3, Zenon
    <3> QED BY <2>5, <3>1 DEF Launch
  <2>6. CASE close_master
    <3>1. CASE MoreToClose(i) /\ MasterSends(players[i+1], Close, "closing")
      <4>1. i + 1 \in DOMAIN players
        BY <3>1, PlayersAt DEF MoreToClose, TypeInv
      <4>2. Close \in Messages /\ players[i+1] \in Processes
        BY <4>1, CloseFacts, PlayersAt
      <4> QED BY <2>3, <3>1, <4>2, Zenon
    <3> QED BY <2>6, <3>1, Zenon DEF close_master
  <2>7. ASSUME NEW r \in Players, send_player_info(r) PROVE q' = q
    BY <1>1, <2>7, Zenon DEF send_player_info, PlayerSends, TypeInv
  <2>8. ASSUME NEW r \in Players, recv_messages(r) PROVE Kept
    <3> DEFINE m == accept_queue[r][1]
    <3>1. /\ state[r] = "running" /\ accept_queue[r] # <<>> /\ r \in Processes
      BY <2>8, Zenon DEF recv_messages, Processes
    <3>2. m \in Messages /\ Head(accept_queue[r]) = m
      BY <3>1, HeadFacts, Zenon
    <3>3. CASE RecvClose(r)
      BY <3>3, Zenon DEF RecvClose
    <3>4. CASE m.type = "YOUARE" /\ RecvInfo(r, m)
      <4>1. q' = IF r = p THEN Tail(q) ELSE q
        BY <1>1, <3>1, <3>4, Zenon DEF RecvInfo, Accepted, TypeInv
      <4> QED BY <3>4, <4>1
    <3>5. CASE m.type = "ROUTE" /\ RecvRoute(r, m)
      <4>1. PICK trace \in FirstSegments(m.trace) :
              /\ m.hops \in Nat /\ trace \in Seq(Nat)
              /\ \/ Passed(r, NextHop(r, Len(trace), m.hops),
                           Route(m.hops, Append(trace, player_number[r])), accept_queue')
                 \/ accept_queue' = accept_queue
        BY <3>1, <3>5, RouteEffect, Zenon
      <4> DEFINE n == Route(m.hops, Append(trace, player_number[r]))
                 x == NextHop(r, Len(trace), m.hops)
      <4>2. n \in Messages
        <5>1. Append(trace, player_number[r]) \in Seq(Nat)
          BY <4>1 DEF TypeInv
        <5> QED BY <4>1, <5>1, RouteFacts, Zenon
      <4> HIDE DEF n, x
      <4>3. CASE Passed(r, x, n, accept_queue')
        <5>1. q' = IF p = x THEN Append(IF p = r THEN Tail(q) ELSE q, n)
                   ELSE IF p = r THEN Tail(q) ELSE q
          BY <1>1, <4>3, Zenon DEF Passed
        <5>2. p = r => q[1].type = "ROUTE"
          BY <3>5, Zenon
        <5> HIDE DEF q
        <5> QED BY <4>2, <5>1, <5>2, Zenon
      <4>4. CASE accept_queue' = accept_queue
        BY <4>4, Zenon
      <4> QED BY <4>1, <4>3, <4>4 DEF n, x
    <3> QED BY <2>8, <3>2, <3>3, <3>4, <3>5, Zenon DEF recv_messages
  <2>9. CASE MasterInterrupt \/ UNCHANGED vars
    BY <2>9, Zenon DEF MasterInterrupt, vars
  <2>10. ASSUME NEW r \in Players, PlayerInterrupt(r) PROVE Kept
    BY <2>10 DEF PlayerInterrupt
  <2> QED BY <2>2, <2>4, <2>5, <2>6, <2>7, <2>8, <2>9, <2>10, Zenon DEF Next, MasterStep, PlayerStep
<1> QED BY <1>2, <1>3 DEF Closed

(* close_master goes through the whole table: no step leaves out a player  *)
(* it has passed.                                                          *)
LEMMA CloseStep ==
  ASSUME TypeInv, RegisterInv, CloseInv, [Next]_vars
  PROVE  CloseInv'
<1> USE DEF given, master, player
<1>1. /\ DOMAIN players = 1 .. Len(players) /\ Len(players) \in Nat
      /\ \A k \in DOMAIN players : players[k] \in Players /\ players[k] \in Processes
                                   /\ players[k] # Master
  BY PlayersAt
<1>2. \A p \in Players : Closed(p) => Closed(p)'
  BY ClosedStays
<1>3. CASE players' = players /\ mpc' = mpc /\ i' = i
  BY <1>1, <1>2, <1>3, Zenon DEF CloseInv
<1>4. CASE players' = players /\ mpc' \notin {"closing", "ok"}
  BY <1>4 DEF CloseInv
<1>5. CASE mpc' = "closing" /\ i' = 0 /\ DOMAIN players' \subseteq Nat \ {0}
  BY <1>5 DEF CloseInv
<1>6. CASE close_master
  <2>1. CASE MoreToClose(i) /\ MasterSends(players[i+1], Close, "closing")
    <3>1. i + 1 \in DOMAIN players /\ i \in Nat
      BY <1>1, <2>1 DEF MoreToClose, TypeInv
    <3>2. PICK p \in Players : p = players[i+1] /\ p \in Processes
      BY <1>1, <3>1
    <3>3. \/ mpc' = "closing" /\ accept_queue'[p] = Append(accept_queue[p], Close)
          \/ mpc' = "failed"
      BY <2>1, <3>2, CloseFacts, MasterEffect, Zenon
    <3>4. mpc = "closing" /\ i' = i + 1 /\ players' = players
      BY <1>6 DEF close_master
    <3>5. CASE mpc' = "closing" /\ accept_queue'[p] = Append(accept_queue[p], Close)
      <4>1. accept_queue[p] \in Seq(Messages)
        BY <3>2 DEF TypeInv
      <4>2. Closed(p)'
        <5>1. Contains(Append(accept_queue[p], Close), Close)
          BY <4>1, CloseFacts, AppendFacts DEF Contains
        <5> QED BY <3>5, <5>1 DEF Closed
      <4>3. \A k \in DOMAIN players : k <= i + 1 => Closed(players[k])'
        <5> SUFFICES ASSUME NEW k \in DOMAIN players, k <= i + 1
                     PROVE  Closed(players[k])'
          OBVIOUS
        <5>1. CASE k = i + 1
          <6>1. players'[k] = p
            BY <3>2, <3>4, <5>1, Zenon
          <6> QED BY <4>2, <6>1 DEF Closed, Exited
        <5>2. CASE k # i + 1
          <6>1. PICK r \in Players : r = players[k]
            BY <1>1
          <6>2. Closed(r)
            BY <1>1, <3>1, <3>4, <5>2, <6>1 DEF CloseInv
          <6>3. Closed(r)' /\ players'[k] = r
            BY <1>2, <3>4, <6>1, <6>2, Zenon
          <6> QED BY <6>3 DEF Closed, Exited
        <5> QED BY <5>1, <5>2
      <4> QED BY <3>4, <3>5, <4>3, Zenon DEF CloseInv
    <3> QED BY <1>4, <3>3, <3>4, <3>5, Zenon
  <2>2. CASE ~MoreToClose(i) /\ mpc' = "ok"
    <3>1. mpc = "closing" /\ players' = players /\ i \in Nat
      BY <1>6 DEF close_master, TypeInv
    <3>2. \A k \in DOMAIN players : Closed(players[k])
      BY <1>1, <2>2, <3>1 DEF CloseInv, MoreToClose
    <3> QED BY <1>1, <1>2, <2>2, <3>1, <3>2, Zenon DEF CloseInv
  <2> QED BY <1>6, <2>1, <2>2 DEF close_master
<1>7. CASE RecvMessages
  <2>1. CASE mpc' = "closing"
    <3>1. players' \in Seq(Players)
      BY TypeStep, Zenon DEF TypeInv
    <3>2. DOMAIN players' \subseteq Nat \ {0} /\ i' = 0
      BY <1>7, <3>1 DEF RecvMessages
    <3> QED BY <1>5, <2>1, <3>2, Zenon
  <2>2. CASE mpc' # "closing"
    BY <1>7, <2>2, Zenon DEF RecvMessages, CloseInv
  <2> QED BY <2>1, <2>2, Zenon
<1>8. CASE send_info_to_player
  BY <1>4, <1>8 DEF send_info_to_player, MasterSends
<1>9. CASE Launch
  <2>1. players' = players /\ i' = 0 /\ mpc' \in {"wait", "failed", "closing"}
    BY <1>9 DEF Launch, MasterSends
  <2> QED BY <1>1, <1>4, <1>5, <2>1
<1>10. CASE MasterInterrupt
  <2>1. /\ players' = players
        /\ mpc' = "failed" \/ (mpc' = "closing" /\ i' = 0)
    BY <1>10, Zenon DEF MasterInterrupt
  <2> QED BY <1>1, <1>4, <1>5, <2>1
<1>11. ASSUME NEW p \in Players, PlayerStep(p) \/ PlayerInterrupt(p) PROVE CloseInv'
  BY <1>3, <1>11, Zenon DEF PlayerStep, PlayerInterrupt, send_player_info, recv_messages
<1>12. CASE UNCHANGED vars
  BY <1>3, <1>12, Zenon DEF vars
<1> QED BY <1>6, <1>7, <1>8, <1>9, <1>10, <1>11, <1>12, Zenon DEF Next, MasterStep

-----------------------------------------------------------------------------
(* The game, as long as nobody is interrupted.                             *)

(* Everybody is known to the master that is no longer registering.         *)
LEMMA Positions ==
  ASSUME TypeInv, RegisterInv, Len(players) = num_players
  PROVE  /\ \A p \in Players : \E k \in DOMAIN players : players[k] = p
         /\ \A p \in Players : state[p] # "start" /\ ~Registering(p)
<1>1. Range(players) = Players
  BY AllRegistered, Zenon
<1> QED BY <1>1 DEF Range, RegisterInv

(* What a player knows it keeps when others are sent something, or it gets *)
(* something that is not about its place.                                  *)
LEMMA KnowsKept ==
  ASSUME TypeInv, NEW k \in DOMAIN players, Knows(k), players' = players,
         NEW p \in Players, p = players[k],
         player_number'[p] = player_number[p], left'[p] = left[p], right'[p] = right[p],
         \/ accept_queue'[p] = accept_queue[p]
         \/ \E m \in Messages : /\ m.type # "YOUARE"
                                /\ accept_queue'[p] = Append(accept_queue[p], m)
  PROVE  Knows(k)'
<1> DEFINE q == accept_queue[p]
           info == InfoFor(k - 1)
<1>1. q \in Seq(Messages) /\ DOMAIN q = 1 .. Len(q) /\ Len(q) \in Nat
  BY DEF TypeInv, Processes
<1>2. info' = info
  BY DEF InfoFor
<1>3. Knows(k) <=> \/ /\ info = YouAre(player_number[p], left[p], right[p])
                      /\ \A n \in DOMAIN q : q[n].type # "YOUARE"
                   \/ /\ q # <<>> /\ q[1] = info
                      /\ \A n \in DOMAIN q : n > 1 => q[n].type # "YOUARE"
  BY Zenon DEF Knows
<1>4. Knows(k)' <=> \/ /\ info = YouAre(player_number[p], left[p], right[p])
                       /\ \A n \in DOMAIN q' : q'[n].type # "YOUARE"
                    \/ /\ q' # <<>> /\ q'[1] = info
                       /\ \A n \in DOMAIN q' : n > 1 => q'[n].type # "YOUARE"
  BY <1>2, Zenon DEF Knows
<1> HIDE DEF info
<1>5. CASE q' = q
  BY <1>3, <1>4, <1>5, Zenon
<1>6. ASSUME NEW m \in Messages, m.type # "YOUARE", q' = Append(q, m) PROVE Knows(k)'
  <2> HIDE DEF q
  <2>1. /\ DOMAIN q' = 1 .. Len(q) + 1 /\ q'[Len(q) + 1] = m /\ Len(q') = Len(q) + 1
        /\ \A n \in 1 .. Len(q) : q'[n] = q[n]
    BY <1>1, <1>6, AppendFacts
  <2>2. q' # <<>> /\ (q # <<>> => q'[1] = q[1])
    BY <1>1, <2>1
  <2>3. CASE /\ info = YouAre(player_number[p], left[p], right[p])
             /\ \A n \in DOMAIN q : q[n].type # "YOUARE"
    <3>1. \A n \in DOMAIN q' : q'[n].type # "YOUARE"
      BY <1>1, <1>6, <2>1, <2>3
    <3> QED BY <1>4, <2>3, <3>1, Zenon
  <2>4. CASE /\ q # <<>> /\ q[1] = info
             /\ \A n \in DOMAIN q : n > 1 => q[n].type # "YOUARE"
    <3>1. \A n \in DOMAIN q' : n > 1 => q'[n].type # "YOUARE"
      BY <1>1, <1>6, <2>1, <2>4
    <3> QED BY <1>4, <2>2, <2>4, <3>1, Zenon
  <2> QED BY <1>3, <2>3, <2>4, Zenon
<1> QED BY <1>5, <1>6, Zenon

(* The steps that put no potato into a queue, and take none out of one but *)
(* from its front.                                                         *)
LEMMA PotatoFrame ==
  ASSUME TypeInv, OnePotato, WholeTraces => RouteInv, hops' = hops,
         \A q \in Processes :
           \/ accept_queue'[q] = accept_queue[q]
           \/ \E m \in Messages : /\ m.type # "ROUTE"
                                  /\ accept_queue'[q] = Append(accept_queue[q], m)
           \/ accept_queue[q] # <<>> /\ accept_queue'[q] = Tail(accept_queue[q])
  PROVE  OnePotato' /\ (NoPotato => NoPotato') /\ (WholeTraces => RouteInv')
<1>1. \A q \in Processes : \E d \in {0, 1} :
        \A n \in DOMAIN accept_queue'[q] :
          accept_queue'[q][n].type = "ROUTE" =>
            n \in Nat /\ n + d \in DOMAIN accept_queue[q]
            /\ accept_queue'[q][n] = accept_queue[q][n + d]
  <2> SUFFICES ASSUME NEW q \in Processes
               PROVE  \E d \in {0, 1} :
                        \A n \in DOMAIN accept_queue'[q] :
                          accept_queue'[q][n].type = "ROUTE" =>
                            n \in Nat /\ n + d \in DOMAIN accept_queue[q]
                            /\ accept_queue'[q][n] = accept_queue[q][n + d]
    BY Zenon
  <2> DEFINE a == accept_queue[q]
             b == accept_queue'[q]
  <2>1. a \in Seq(Messages)
    BY Zenon DEF TypeInv
  <2>2. CASE b = a
    <3>1. \A n \in DOMAIN a : n \in Nat /\ n + 0 = n
      BY <2>1, IndexFacts, Zenon
    <3> QED BY <2>2, <3>1, Zenon
  <2>3. ASSUME NEW m \in Messages, m.type # "ROUTE", b = Append(a, m)
        PROVE  \A n \in DOMAIN b : b[n].type = "ROUTE" => n \in Nat /\ n + 0 \in DOMAIN a /\ b[n] = a[n + 0]
    <3> HIDE DEF a, b
    <3> QED BY <2>1, <2>3, AppendFacts
  <2>4. CASE a # <<>> /\ b = Tail(a)
    <3> HIDE DEF a, b
    <3>1. \A n \in DOMAIN b : n \in Nat /\ n + 1 \in DOMAIN a /\ b[n] = a[n + 1]
      BY <2>1, <2>4, TailFacts
    <3> QED BY <3>1, Zenon DEF a, b
  <2> QED BY <2>2, <2>3, <2>4, Zenon
<1>2. \A q \in Processes : \A n \in DOMAIN accept_queue'[q] :
        HasPotato(q, n)' <=> accept_queue'[q][n].type = "ROUTE"
  BY Zenon DEF HasPotato
<1>3. OnePotato'
  <2> SUFFICES ASSUME NEW q \in Processes, NEW r \in Processes,
                      NEW j \in DOMAIN accept_queue'[q], NEW n \in DOMAIN accept_queue'[r],
                      accept_queue'[q][j].type = "ROUTE", accept_queue'[r][n].type = "ROUTE"
               PROVE  q = r /\ j = n
    BY DEF OnePotato, HasPotato
  <2>1. PICK d \in {0, 1} :
          \A k \in DOMAIN accept_queue'[q] :
            accept_queue'[q][k].type = "ROUTE" =>
              k \in Nat /\ k + d \in DOMAIN accept_queue[q]
              /\ accept_queue'[q][k] = accept_queue[q][k + d]
    BY <1>1, Zenon
  <2>2. PICK e \in {0, 1} :
          \A k \in DOMAIN accept_queue'[r] :
            accept_queue'[r][k].type = "ROUTE" =>
              k \in Nat /\ k + e \in DOMAIN accept_queue[r]
              /\ accept_queue'[r][k] = accept_queue[r][k + e]
    BY <1>1, Zenon
  <2>3. q = r
    BY <2>1, <2>2 DEF OnePotato, HasPotato
  <2>4. j \in Nat /\ n \in Nat /\ j + d = n + d
    BY <2>1, <2>3 DEF OnePotato, HasPotato
  <2> QED BY <2>3, <2>4
<1>4. NoPotato => NoPotato'
  BY <1>1, Zenon DEF NoPotato, HasPotato
<1>5. WholeTraces => RouteInv'
  BY <1>1 DEF RouteInv, HasPotato
<1> QED BY <1>3, <1>4, <1>5, Zenon

(* The master accepts a registration, or the potato back.                  *)
LEMMA GameRecv ==
  ASSUME TypeInv, RegisterInv, GameInv, TypeInv', RegisterInv', RecvMessages
  PROVE  GameInv'
<1> DEFINE q == accept_queue[Master]
           m == q[1]
<1>1. InfoInv /\ RunInv /\ PotatoInv /\ (WholeTraces => RouteInv)
  BY Zenon DEF GameInv
<1>2. /\ q \in Seq(Messages) /\ q # <<>> /\ Head(q) = m /\ m \in Messages /\ 1 \in DOMAIN q
      /\ Master \in Processes
  BY HeadFacts DEF RecvMessages, TypeInv, Processes
<1>3. /\ q' = Tail(q) /\ \A r \in Processes : r # Master => accept_queue'[r] = accept_queue[r]
      /\ UNCHANGED <<hops, state, player_number, left, right>>
  BY Zenon DEF RecvMessages, Accepted, TypeInv, Processes, given, player
<1>4. \/ m.type = "ROUTE" /\ players' = players
      \/ m.type = "CONNECT" /\ players' = Append(players, m.from) /\ output' = output
  BY <1>2, Zenon DEF RecvMessages
<1>5. /\ mpc \in {"register", "wait"} /\ i' = 0
      /\ mpc' = IF mpc = "wait" THEN "closing"
                ELSE IF Len(players') < num_players THEN "register" ELSE "inform"
  BY DEF RecvMessages
<1>6. OnePotato' /\ (NoPotato => NoPotato') /\ (WholeTraces => RouteInv')
  BY <1>1, <1>2, <1>3, PotatoFrame, Zenon DEF PotatoInv
<1>7. /\ DOMAIN players' = 1 .. Len(players') /\ Len(players') \in Nat
      /\ players' \in Seq(Players)
      /\ \A k \in DOMAIN players' : players'[k] \in Players /\ players'[k] \in Processes
                                    /\ players'[k] # Master
  <2>1. players' \in Seq(Players)
    BY DEF TypeInv
  <2> QED BY <2>1, PotatoAssumption DEF Processes
<1>8. CASE mpc = "register"
  <2>1. m.type # "ROUTE"
    BY <1>1, <1>2, <1>8, Zenon DEF PotatoInv, NoPotato, HasPotato
  <2>2. output' = output /\ NoPotato'
    BY <1>1, <1>4, <1>6, <1>8, <2>1, Zenon DEF PotatoInv
  <2>3. mpc' \in {"register", "inform"} /\ (mpc' # "register" => Len(players') = num_players)
    BY <1>5, <1>8, Zenon DEF RegisterInv
  <2>4. \A p \in Players : accept_queue'[p] = <<>> /\ state'[p] # "ok" /\ p # Master
    BY <1>1, <1>3, <1>8, PotatoAssumption, Zenon DEF InfoInv, Processes
  <2>5. \A k \in DOMAIN players' : ~Told(k)'
    <3>1. \A k \in DOMAIN players' : ~(k <= i')
      BY <1>5, <1>7, IndexFacts, Zenon
    <3> QED BY <2>3, <3>1, Zenon DEF Told
  <2>6. InfoInv'
    BY <1>7, <2>3, <2>4, <2>5, Zenon DEF InfoInv
  <2>7. \A k \in DOMAIN players' : state'[players'[k]] = "running"
    <3> SUFFICES ASSUME NEW k \in DOMAIN players' PROVE state'[players'[k]] = "running"
      OBVIOUS
    <3>1. players'[k] \in Players /\ players'[k] \in Range(players')
      BY <1>7 DEF Range
    <3>2. state'[players'[k]] \in {"start", "running", "ok", "failed"}
      BY <3>1, Zenon DEF TypeInv
    <3>3. state'[players'[k]] # "start" /\ state'[players'[k]] # "ok" /\ state'[players'[k]] # "failed"
      BY <1>1, <1>3, <2>4, <3>1, Zenon DEF RegisterInv, RunInv
    <3> QED BY <3>2, <3>3
  <2>8. RunInv'
    BY <1>1, <1>3, <1>7, <2>3, <2>4, <2>7 DEF RunInv
  <2>9. PotatoInv'
    BY <1>1, <1>6, <1>8, <2>2, <2>3, Zenon DEF PotatoInv
  <2> QED BY <1>6, <2>6, <2>8, <2>9, Zenon DEF GameInv
<1>9. CASE mpc = "wait"
  <2>1. Len(players) = num_players /\ mpc' = "closing" /\ i' = 0
    BY <1>5, <1>9, Zenon DEF RegisterInv
  <2>2. m.type = "ROUTE" /\ players' = players
    <3>1. ASSUME m.type = "CONNECT" PROVE FALSE
      <4>1. m.from \in Players /\ m = Connect(m.from)
        BY <1>2, <3>1, MessageFacts, Zenon
      <4>2. Registering(m.from)
        BY <1>2, <4>1, Zenon DEF Registering
      <4> QED BY <2>1, <4>1, <4>2, Positions, Zenon
    <3> QED BY <1>4, <3>1
  <2>3. NoPotato'
    <3> SUFFICES ASSUME NEW r \in Processes, NEW n \in DOMAIN accept_queue'[r],
                        accept_queue'[r][n].type = "ROUTE"
                 PROVE  FALSE
      BY Zenon DEF NoPotato, HasPotato
    <3>1. \A j \in DOMAIN accept_queue[r] : accept_queue[r][j].type = "ROUTE" => r = Master /\ j = 1
      BY <1>1, <1>2, <2>2, Zenon DEF PotatoInv, OnePotato, HasPotato
    <3>2. CASE r # Master
      BY <1>3, <3>1, <3>2, Zenon
    <3>3. CASE r = Master
      <4> HIDE DEF q
      <4>1. n \in DOMAIN q' /\ q'[n].type = "ROUTE"
        BY <3>3, Zenon DEF q
      <4>2. n + 1 \in DOMAIN q /\ q'[n] = q[n + 1] /\ n + 1 # 1
        BY <1>2, <1>3, <4>1, TailFacts
      <4> QED BY <3>1, <3>3, <4>1, <4>2, Zenon DEF q
    <3> QED BY <3>2, <3>3, Zenon
  <2>4. \A k \in DOMAIN players : Told(k) /\ Told(k)' /\ ~Dismissed(k) /\ ~Dismissed(k)'
    <3>1. \A k \in DOMAIN players : ~(k <= i')
      BY <1>7, <2>1, <2>2, IndexFacts, Zenon
    <3> QED BY <1>9, <2>1, <3>1, Zenon DEF Told, Dismissed
  <2>5. \A k \in DOMAIN players : Knows(k)'
    <3> SUFFICES ASSUME NEW k \in DOMAIN players PROVE Knows(k)'
      OBVIOUS
    <3>1. PICK p \in Players : p = players[k] /\ p # Master /\ p \in Processes
      BY <1>7, <2>2, Zenon
    <3>2. Knows(k)
      BY <1>1, <2>4 DEF InfoInv
    <3>3. accept_queue'[p] = accept_queue[p]
      BY <1>3, <3>1
    <3> QED BY <1>3, <2>2, <3>1, <3>2, <3>3, KnowsKept, Zenon
  <2>6. InfoInv'
    BY <2>1, <2>2, <2>4, <2>5, Zenon DEF InfoInv
  <2>7. RunInv'
    <3>1. mpc' # "failed" /\ \A p \in Players : state'[p] # "failed"
      BY <1>1, <1>3, <2>1 DEF RunInv
    <3>2. ASSUME NEW k \in DOMAIN players
          PROVE  /\ state'[players[k]] = "running"
                 /\ \A n \in DOMAIN accept_queue'[players[k]] : accept_queue'[players[k]][n].type # "CLOSE"
      <4>1. PICK p \in Players : p = players[k] /\ p # Master /\ p \in Processes
        BY <1>7, <2>2
      <4>2. state[p] = "running" /\ \A n \in DOMAIN accept_queue[p] : accept_queue[p][n].type # "CLOSE"
        BY <1>1, <2>4, <4>1, Zenon DEF RunInv
      <4>3. accept_queue'[p] = accept_queue[p] /\ state' = state
        BY <1>3, <4>1
      <4> QED BY <4>1, <4>2, <4>3, Zenon
    <3> QED BY <2>2, <3>1, <3>2, Zenon DEF RunInv
  <2>8. PotatoInv'
    BY <1>6, <2>1, <2>3, Zenon DEF PotatoInv
  <2> QED BY <1>6, <2>6, <2>7, <2>8 DEF GameInv
<1> QED BY <1>5, <1>8, <1>9

(* A player that the master sends to is listening, and what is sent to it  *)
(* by the master or by another player leaves the others as they are.       *)
LEMMA GameSend ==
  ASSUME TypeInv, RegisterInv, GameInv, mpc \in {"inform", "launch", "closing"},
         NEW n \in DOMAIN players, ~Dismissed(n),
         NEW m \in Messages, NEW pc, MasterSends(players[n], m, pc),
         UNCHANGED <<hops, state, player_number, left, right, players>>
  PROVE  \E p \in Players :
           /\ p = players[n] /\ mpc' = pc /\ state[p] = "running"
           /\ accept_queue'[p] = Append(accept_queue[p], m)
           /\ accept_queue'[p] \in Seq(Messages)
           /\ \A q \in Processes : q # p => accept_queue'[q] = accept_queue[q]
           /\ \A k \in DOMAIN players : k # n => players[k] # p /\ players[k] \in Processes
           /\ m.type # "YOUARE" => \A k \in DOMAIN players : Knows(k) => Knows(k)'
           /\ \A k \in DOMAIN players : k # n /\ Knows(k) => Knows(k)'
           /\ m.type # "ROUTE" => OnePotato' /\ (NoPotato => NoPotato') /\ (WholeTraces => RouteInv')
<1>1. PICK p \in Players : p = players[n] /\ p \in Processes /\ p # Master
  BY PlayersAt
<1>2. state[p] = "running"
  BY <1>1, Zenon DEF GameInv, RunInv
<1>3. Listening(p)
  BY <1>1, <1>2, Zenon DEF Listening
<1>4. /\ mpc' = pc /\ accept_queue' \in [Processes -> Seq(Messages)]
      /\ \A r \in Processes :
           accept_queue'[r] = IF r = p THEN Append(accept_queue[p], m) ELSE accept_queue[r]
  BY <1>1, <1>3, MasterEffect
<1>5. \A k \in DOMAIN players : k # n => players[k] # p /\ players[k] \in Processes
  BY <1>1, PlayersAt, Zenon DEF RegisterInv
<1>6. ASSUME NEW k \in DOMAIN players, Knows(k), k # n \/ m.type # "YOUARE" PROVE Knows(k)'
  <2>1. PICK r \in Players : r = players[k] /\ r \in Processes
    BY PlayersAt
  <2>2. \/ accept_queue'[r] = accept_queue[r]
        \/ m.type # "YOUARE" /\ accept_queue'[r] = Append(accept_queue[r], m)
    BY <1>4, <1>5, <1>6, <2>1, Zenon
  <2> QED BY <1>6, <2>1, <2>2, KnowsKept, Zenon
<1>7. ASSUME m.type # "ROUTE"
      PROVE  OnePotato' /\ (NoPotato => NoPotato') /\ (WholeTraces => RouteInv')
  <2>1. \A q \in Processes :
          \/ accept_queue'[q] = accept_queue[q]
          \/ \E w \in Messages : w.type # "ROUTE" /\ accept_queue'[q] = Append(accept_queue[q], w)
    BY <1>4, <1>7
  <2> QED BY <2>1, PotatoFrame, Zenon DEF GameInv, PotatoInv
<1> QED BY <1>1, <1>2, <1>4, <1>5, <1>6, <1>7, Zenon

(* send_info_to_player tells player n - 1 its place.                       *)
LEMMA GameInform ==
  ASSUME TypeInv, RegisterInv, GameInv, send_info_to_player
  PROVE  GameInv'
<1>1. InfoInv /\ RunInv /\ PotatoInv /\ (WholeTraces => RouteInv)
  BY DEF GameInv
<1>2. /\ Len(players) = num_players /\ i \in 0 .. num_players - 1 /\ num_players \in Nat
      /\ i + 1 \in DOMAIN players /\ DOMAIN players = 1 .. num_players
  <2>1. Len(players) = num_players /\ i \in 0 .. num_players - 1
    BY DEF send_info_to_player, RegisterInv, TypeInv
  <2>2. DOMAIN players = 1 .. num_players
    BY <2>1, PlayersAt, Zenon
  <2>3. num_players \in Nat /\ i + 1 \in 1 .. num_players
    BY <2>1, NumPlayers
  <2> QED BY <2>1, <2>2, <2>3, Zenon
<1>3. PICK n \in DOMAIN players : n = i + 1 /\ n - 1 = i
  BY <1>2
<1>4. PICK info \in Messages : info = InfoFor(i) /\ info.type = "YOUARE"
  BY <1>2, InfoFacts
<1>5. PICK pc \in {"inform", "launch"} : pc = IF i + 1 < num_players THEN "inform" ELSE "launch"
  BY Zenon
<1>6. /\ mpc = "inform" /\ MasterSends(players[n], info, pc) /\ i' = i + 1 /\ output' = output
      /\ UNCHANGED <<hops, state, player_number, left, right, players>>
  BY <1>3, <1>4, <1>5, Zenon DEF send_info_to_player, given, player
<1>7. ~Dismissed(n) /\ ~Told(n)
  BY <1>2, <1>3, <1>6 DEF Dismissed, Told
<1>8. PICK p \in Players :
           /\ p = players[n] /\ mpc' = pc /\ state[p] = "running"
           /\ accept_queue'[p] = Append(accept_queue[p], info)
           /\ accept_queue'[p] \in Seq(Messages)
           /\ \A q \in Processes : q # p => accept_queue'[q] = accept_queue[q]
           /\ \A k \in DOMAIN players : k # n => players[k] # p /\ players[k] \in Processes
           /\ info.type # "YOUARE" => \A k \in DOMAIN players : Knows(k) => Knows(k)'
           /\ \A k \in DOMAIN players : k # n /\ Knows(k) => Knows(k)'
           /\ info.type # "ROUTE" => OnePotato' /\ (NoPotato => NoPotato') /\ (WholeTraces => RouteInv')
  <2>1. mpc \in {"inform", "launch", "closing"}
    BY <1>6, Zenon
  <2> QED BY <1>6, <1>7, <2>1, GameSend, Zenon
<1>9. accept_queue[p] = <<>> /\ accept_queue'[p] = <<info>>
  <2>1. accept_queue[p] = <<>>
    BY <1>1, <1>7, <1>8, Zenon DEF InfoInv
  <2>2. Append(<<>>, info) = <<info>>
    BY AppendFirst, Zenon
  <2> QED BY <1>8, <2>1, <2>2, Zenon
<1>10. Knows(n)'
  <2>1. InfoFor(n - 1)' = info
    BY <1>3, <1>4, <1>6, Zenon DEF InfoFor
  <2>2. accept_queue'[players'[n]] = <<info>>
    BY <1>6, <1>8, <1>9, Zenon
  <2>3. /\ <<info>> # <<>> /\ <<info>>[1] = info
        /\ \A x \in DOMAIN <<info>> : x = 1
    OBVIOUS
  <2> QED BY <2>1, <2>2, <2>3 DEF Knows
<1>11. \A k \in DOMAIN players :
         /\ Told(k)' <=> k <= n
         /\ Told(k) <=> k <= i
  <2> SUFFICES ASSUME NEW k \in DOMAIN players
               PROVE  (Told(k)' <=> k <= n) /\ (Told(k) <=> k <= i)
    OBVIOUS
  <2>1. k \in Int /\ k <= num_players /\ n \in Int /\ num_players \in Int
    BY <1>2, <1>3
  <2>2. Told(k) <=> k <= i
    BY <1>6, Zenon DEF Told
  <2>3. i' = n /\ (mpc' = "inform" \/ (mpc' = "launch" /\ n = num_players))
    BY <1>2, <1>3, <1>5, <1>6, <1>8
  <2> QED BY <2>1, <2>2, <2>3, Zenon DEF Told
<1>12. InfoInv'
  <2>1. ASSUME NEW k \in DOMAIN players, Told(k)' PROVE Knows(k)'
    <3>1. k = n \/ (k # n /\ Told(k))
      BY <1>2, <1>3, <1>11, <2>1
    <3> QED BY <1>1, <1>8, <1>10, <3>1, Zenon DEF InfoInv
  <2>2. ASSUME NEW k \in DOMAIN players, ~Told(k)' PROVE accept_queue'[players'[k]] = <<>>
    <3>1. k # n /\ ~Told(k)
      BY <1>2, <1>3, <1>11, <2>2
    <3>2. accept_queue[players[k]] = <<>>
      BY <1>1, <3>1, Zenon DEF InfoInv
    <3>3. players'[k] = players[k] /\ accept_queue'[players[k]] = accept_queue[players[k]]
      BY <1>6, <1>8, <3>1, Zenon
    <3> QED BY <3>2, <3>3
  <2> QED BY <1>2, <1>6, <1>8, <2>1, <2>2, Zenon DEF InfoInv
<1>13. RunInv'
  <2>1. mpc' # "failed" /\ \A q \in Players : state'[q] # "failed"
    BY <1>1, <1>6, <1>8, Zenon DEF RunInv
  <2>2. ASSUME NEW k \in DOMAIN players'
        PROVE  /\ state'[players'[k]] = "running"
               /\ \A x \in DOMAIN accept_queue'[players'[k]] :
                    accept_queue'[players'[k]][x].type # "CLOSE"
    <3>1. CASE k = n
      <4>1. \A x \in DOMAIN <<info>> : <<info>>[x].type # "CLOSE"
        BY <1>4
      <4> QED BY <1>6, <1>8, <1>9, <3>1, <4>1, Zenon
    <3>2. CASE k # n
      <4>1. k \in DOMAIN players /\ players'[k] = players[k] /\ ~Dismissed(k)
        BY <1>6 DEF Dismissed
      <4>2. accept_queue'[players[k]] = accept_queue[players[k]]
        BY <1>8, <3>2, <4>1, Zenon
      <4> QED BY <1>1, <1>6, <4>1, <4>2, Zenon DEF RunInv
    <3> QED BY <3>1, <3>2, Zenon
  <2> QED BY <2>1, <2>2 DEF RunInv
<1>14. OnePotato' /\ (NoPotato => NoPotato') /\ (WholeTraces => RouteInv')
  BY <1>4, <1>8, Zenon
<1>15. PotatoInv'
  BY <1>1, <1>6, <1>8, <1>14, Zenon DEF PotatoInv
<1> QED BY <1>12, <1>13, <1>14, <1>15, Zenon DEF GameInv

(* Once everybody knows its place, a step in which all keep what they know *)
(* and nobody is sent a Close leaves the players running.                  *)
LEMMA GameKept ==
  ASSUME TypeInv, RegisterInv, GameInv, mpc \in {"launch", "wait"}, mpc' \in {"wait", "closing"},
         i' = i \/ i' = 0, mpc' = "closing" => i' = 0,
         UNCHANGED <<state, players>>,
         \A k \in DOMAIN players : Knows(k) => Knows(k)',
         \A p \in Players : \A x \in DOMAIN accept_queue'[p] :
           accept_queue'[p][x].type = "CLOSE" =>
             \E y \in DOMAIN accept_queue[p] : accept_queue[p][y].type = "CLOSE"
  PROVE  InfoInv' /\ RunInv'
<1>1. InfoInv /\ RunInv
  BY Zenon DEF GameInv
<1>2. /\ DOMAIN players = 1 .. Len(players) /\ Len(players) \in Nat
      /\ \A k \in DOMAIN players : players[k] \in Players
  BY PlayersAt
<1>3. \A k \in DOMAIN players : Told(k) /\ Told(k)' /\ ~Dismissed(k) /\ ~Dismissed(k)'
  <2>1. \A k \in DOMAIN players : ~(k <= 0)
    BY IndexFacts, Zenon DEF TypeInv
  <2> QED BY <2>1, Zenon DEF Told, Dismissed
<1>4. InfoInv'
  BY <1>1, <1>3, Zenon DEF InfoInv
<1>5. RunInv'
  <2>1. mpc' # "failed" /\ \A p \in Players : state'[p] # "failed"
    BY <1>1, Zenon DEF RunInv
  <2>2. ASSUME NEW k \in DOMAIN players
        PROVE  /\ state[players[k]] = "running"
               /\ \A x \in DOMAIN accept_queue'[players[k]] : accept_queue'[players[k]][x].type # "CLOSE"
    <3>1. /\ state[players[k]] = "running"
          /\ \A y \in DOMAIN accept_queue[players[k]] : accept_queue[players[k]][y].type # "CLOSE"
      BY <1>1, <1>3, Zenon DEF RunInv
    <3> QED BY <1>2, <3>1
  <2> QED BY <2>1, <2>2, Zenon DEF RunInv
<1> QED BY <1>4, <1>5
=============================================================================

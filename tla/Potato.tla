------------------------------- MODULE Potato -------------------------------
(***************************************************************************)
(* The game of hot potato of hw3: one master process (master.c) and the    *)
(* player processes (player.c), which talk over TCP.  Every message is a   *)
(* connection of its own (send_to, utils.c:262), so what a process still   *)
(* has to read is the queue of connections that wait for its accept, in    *)
(* the order in which they were made.  As many players join as the master  *)
(* expects.                                                                *)
(***************************************************************************)
EXTENDS Queues, FiniteSets

CONSTANTS
  Players,     \* the player processes
  Master,      \* the master process
  MaxHops,     \* bound on the number of hops (the code: MAX_HOPS)
  RAND_MAX,
  Segment,     \* trace entries that reach a player in one recv for certain
  Interrupts,  \* bound on the processes that receive SIGINTs
  NULL

ASSUME PotatoAssumption ==
  /\ IsFiniteSet(Players) /\ Players # {} /\ Master \notin Players
  /\ MaxHops \in Nat /\ RAND_MAX \in Nat /\ Segment \in Nat /\ Interrupts \in Nat
  /\ NULL \notin Players \cup {Master} /\ NULL \notin Seq(Nat)

num_players == Cardinality(Players)
Processes   == Players \cup {Master}

VARIABLES
  hops,           \* the master's third argument
  rand,           \* rand[q]: the first value of rand() after srand(42) on q's host
  accept_queue,   \* accept_queue[q]: the messages q has yet to accept
  mpc,            \* where the master is: see master
  players,        \* master.c:19, its length is players_connected
  i,              \* the loop counter of the master
  output,         \* the trace the master printed, NULL before
  state,          \* state[p]: "start", "running", "ok" (exit 0), "failed"
  player_number, left, right,  \* player.c:15-16, NULL for a null address
  interrupted     \* the processes that have handled a SIGINT

master == <<mpc, players, i, output>>
player == <<state, player_number, left, right>>
given  == <<hops, rand>>
vars   == <<given, accept_queue, master, player, interrupted>>

Init ==
  /\ hops \in 0 .. MaxHops
  /\ rand \in [Processes -> 0 .. RAND_MAX]
  /\ accept_queue = [q \in Processes |-> <<>>]
  /\ mpc = "register" /\ players = <<>> /\ i = 0 /\ output = NULL
  /\ state = [p \in Players |-> "start"]
  /\ player_number = [p \in Players |-> 0]
  /\ left = [p \in Players |-> NULL] /\ right = [p \in Players |-> NULL]
  /\ interrupted = {}

-----------------------------------------------------------------------------
(* Messages, by the prefix of their first line (utils.h:15-20).            *)

Connect(p)      == [type |-> "CONNECT", from |-> p]
YouAre(n, l, r) == [type |-> "YOUARE", number |-> n, left |-> l, right |-> r]
Route(h, trace) == [type |-> "ROUTE", hops |-> h, trace |-> trace]
Close           == [type |-> "CLOSE"]

Listening(q) ==
  IF q = Master THEN mpc \notin {"ok", "failed"} ELSE state[q] = "running"

Delivered(q, m) == [accept_queue EXCEPT ![q] = Append(@, m)]
Accepted(q)     == [accept_queue EXCEPT ![q] = Tail(@)]

(* The parts of a trace that its reader may take for all of it:            *)
(* read_message ends the line where a segment ends (module ReadMessage).   *)
FirstSegments(trace) ==
  {SubSeq(trace, 1, k) : k \in {n \in 0 .. Len(trace) : n >= Segment \/ n = Len(trace)}}

(* C's % rounds towards zero; mod takes the result back into 0 .. b-1.     *)
mod(a, b) == LET m == IF a < 0 THEN -((-a) % b) ELSE a % b
             IN  IF m < 0 THEN m + b ELSE m

(* The generator is seeded anew on every call, so its value is always the  *)
(* same one.                                                               *)
randr(q, min, max) == min + rand[q] \div (RAND_MAX \div (max - min + 1) + 1)

-----------------------------------------------------------------------------
(* The master.                                                             *)

(* recv_messages, and what main does when it returns.                      *)
RecvMessages ==
  /\ mpc \in {"register", "wait"} /\ accept_queue[Master] # <<>>
  /\ LET m == Head(accept_queue[Master]) IN
       \/ /\ m.type = "ROUTE"
          /\ output' \in FirstSegments(m.trace)
          /\ UNCHANGED players
       \/ /\ m.type = "CONNECT"
          /\ players' = Append(players, m.from)
          /\ UNCHANGED output
  /\ accept_queue' = Accepted(Master)
  /\ mpc' = IF mpc = "wait" THEN "closing"
            ELSE IF Len(players') < num_players THEN "register" ELSE "inform"
  /\ i' = 0
  /\ UNCHANGED <<given, player, interrupted>>

(* send_to of the master: with nobody listening at q it exits.             *)
MasterSends(q, m, pc) ==
  \/ /\ Listening(q)
     /\ accept_queue' = Delivered(q, m)
     /\ mpc' = pc
  \/ /\ ~Listening(q)
     /\ mpc' = "failed"
     /\ UNCHANGED accept_queue

(* What player n is told: its number and its neighbours on the ring.       *)
InfoFor(n) ==
  YouAre(n, players[mod(n - 1, num_players) + 1], players[mod(n + 1, num_players) + 1])

send_info_to_player ==
  /\ mpc = "inform"
  /\ MasterSends(players[i+1], InfoFor(i),
                 IF i + 1 < num_players THEN "inform" ELSE "launch")
  /\ i' = i + 1
  /\ UNCHANGED <<given, players, output, player, interrupted>>

first_player == randr(Master, 0, num_players - 1)

(* Mutant: the master does not wait for the potato.                        *)
Launch_NoWait ==
  /\ mpc = "launch"
  /\ \/ /\ hops > 0
        /\ MasterSends(players[first_player + 1], Route(hops, <<>>), "closing")
     \/ /\ hops = 0
        /\ mpc' = "closing"
        /\ UNCHANGED accept_queue
  /\ i' = 0
  /\ UNCHANGED <<given, players, output, player, interrupted>>

Launch ==
  /\ mpc = "launch"
  /\ \/ /\ hops > 0
        /\ MasterSends(players[first_player + 1], Route(hops, <<>>), "wait")
     \/ /\ hops = 0
        /\ mpc' = "closing"
        /\ UNCHANGED accept_queue
  /\ i' = 0
  /\ UNCHANGED <<given, players, output, player, interrupted>>

MoreToClose_ButLast(n) == n < Len(players) - 1
MoreToClose(n) == n < Len(players)

close_master ==
  /\ mpc = "closing"
  /\ \/ /\ MoreToClose(i)
        /\ MasterSends(players[i+1], Close, "closing")
     \/ /\ ~MoreToClose(i)
        /\ mpc' = "ok"
        /\ UNCHANGED accept_queue
  /\ i' = i + 1
  /\ UNCHANGED <<given, players, output, player, interrupted>>

(* The first SIGINT runs close_master from its beginning, also in the      *)
(* middle of it.  In this build (-std=c99 with _XOPEN_SOURCE) signal takes *)
(* the handler away when it runs, so the second one kills the master.      *)
MasterInterrupt ==
  /\ Listening(Master)
  /\ \/ /\ Master \notin interrupted /\ Cardinality(interrupted) < Interrupts
        /\ mpc' = "closing" /\ i' = 0
     \/ /\ Master \in interrupted
        /\ mpc' = "failed"
        /\ UNCHANGED i
  /\ interrupted' = interrupted \cup {Master}
  /\ UNCHANGED <<given, accept_queue, players, output, player>>

-----------------------------------------------------------------------------
(* A player.                                                               *)

Exited(p) == state[p] \in {"ok", "failed"}

Becomes(p, st) == state' = [state EXCEPT ![p] = st]

(* send_to of a player, with aq the queues before it; NULL is an address   *)
(* the player has not been told.                                           *)
PlayerSends(p, q, m, aq) ==
  \/ /\ q # NULL /\ Listening(q)
     /\ accept_queue' = [aq EXCEPT ![q] = Append(@, m)]
     /\ Becomes(p, "running")
  \/ /\ q = NULL \/ ~Listening(q)
     /\ Becomes(p, "failed")
     /\ UNCHANGED accept_queue

send_player_info(p) ==
  /\ state[p] = "start"
  /\ PlayerSends(p, Master, Connect(p), accept_queue)
  /\ UNCHANGED <<given, master, player_number, left, right, interrupted>>

RecvClose(p) ==
  /\ Becomes(p, "ok")
  /\ UNCHANGED <<accept_queue, player_number, left, right>>

RecvInfo(p, m) ==
  /\ accept_queue' = Accepted(p)
  /\ player_number' = [player_number EXCEPT ![p] = m.number]
  /\ left' = [left EXCEPT ![p] = m.left]
  /\ right' = [right EXCEPT ![p] = m.right]
  /\ UNCHANGED state

(* Whether the potato, having been to n players, returns to the master.    *)
IsLast_Late(n, h) == n = h
IsLast(n, h) == n = h - 1

NextHop(p, n, h) ==
  IF IsLast(n, h) THEN Master
  ELSE IF randr(p, 0, 1) # 0 THEN left[p] ELSE right[p]

RecvRoute(p, m) ==
  /\ \E trace \in FirstSegments(m.trace) :
       PlayerSends(p, NextHop(p, Len(trace), m.hops),
                   Route(m.hops, Append(trace, player_number[p])), Accepted(p))
  /\ UNCHANGED <<player_number, left, right>>

recv_messages(p) ==
  /\ state[p] = "running" /\ accept_queue[p] # <<>>
  /\ LET m == Head(accept_queue[p]) IN
       \/ m.type = "CLOSE" /\ RecvClose(p)
       \/ m.type = "YOUARE" /\ RecvInfo(p, m)
       \/ m.type = "ROUTE" /\ RecvRoute(p, m)
  /\ UNCHANGED <<given, master, interrupted>>

PlayerInterrupt(p) ==
  /\ Cardinality(interrupted) < Interrupts /\ ~Exited(p)
  /\ interrupted' = interrupted \cup {p}
  /\ Becomes(p, "ok")
  /\ UNCHANGED <<given, accept_queue, master, player_number, left, right>>

-----------------------------------------------------------------------------
MasterStep == RecvMessages \/ send_info_to_player \/ Launch \/ close_master
PlayerStep(p) == send_player_info(p) \/ recv_messages(p)

Finished == ~Listening(Master) /\ \A p \in Players : Exited(p)

Next ==
  \/ MasterStep
  \/ MasterInterrupt
  \/ \E p \in Players : PlayerStep(p) \/ PlayerInterrupt(p)
  \/ Finished /\ UNCHANGED vars

Spec == Init /\ [][Next]_vars

(* The operating system runs every process that can run.                   *)
FairSpec == Spec /\ WF_vars(MasterStep) /\ \A p \in Players : WF_vars(PlayerStep(p))

-----------------------------------------------------------------------------
(* Where the potato is: the messages that carry it.                        *)
Potatoes ==
  UNION {{<<q, k>> : k \in {n \in DOMAIN accept_queue[q] : accept_queue[q][n].type = "ROUTE"}} :
           q \in Processes}

(* No process ever connects to one that is not listening, nor to a null    *)
(* address (utils.c:263-281): a player is told its neighbours before the   *)
(* potato reaches it, and nobody is closed while the potato is under way.  *)
NobodyFails ==
  interrupted = {} => mpc # "failed" /\ \A p \in Players : state[p] # "failed"

(* Whatever is interrupted: a master that exits with 0 has told every      *)
(* player that registered to close.                                        *)
ClosedAll ==
  mpc = "ok" =>
    \A p \in Range(players) : Exited(p) \/ Contains(accept_queue[p], Close)

(* The game as the processes play it: how far it is, the trace of the      *)
(* potato, and the seat of the player that has it.                         *)
Stage ==
  CASE mpc \in {"register", "inform", "launch"} -> "forming"
    [] mpc = "wait" -> "playing"
    [] OTHER -> "over"

Walk ==
  IF Potatoes # {}
  THEN LET at == CHOOSE at \in Potatoes : TRUE IN accept_queue[at[1]][at[2]].trace
  ELSE IF output # NULL THEN output ELSE <<>>

Holder ==
  IF \E at \in Potatoes : at[1] # Master
  THEN LET at == CHOOSE at \in Potatoes : TRUE
       IN  (CHOOSE n \in DOMAIN players : players[n] = at[1]) - 1
  ELSE -1

(* As long as nobody is interrupted, the potato makes exactly the given    *)
(* number of hops, each to a neighbour on the ring, and the trace that is  *)
(* printed is the way it took.                                             *)
Game == INSTANCE PotatoGame WITH stage <- Stage, walk <- Walk, holder <- Holder

ImplementsGame == Game!Init /\ [][interrupted' # {} \/ Game!Next]_(Game!vars)

(* Unless somebody is interrupted the game ends, and every process exits   *)
(* with 0.                                                                 *)
GameEnds ==
  <>(interrupted # {} \/ (mpc = "ok" /\ \A p \in Players : state[p] = "ok"))

(* Every player that registered stops once the master has exited with 0.   *)
PlayersStop == mpc = "ok" ~> \A p \in Range(players) : Exited(p)
=============================================================================

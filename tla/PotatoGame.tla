----------------------------- MODULE PotatoGame -----------------------------
(* Hot potato as its rules tell it: num_players sit in a ring, the potato  *)
(* starts anywhere, each holder writes itself down and passes it to a      *)
(* neighbour, and after the given number of hops it goes back.             *)
EXTENDS Integers, Sequences

CONSTANT num_players

VARIABLES
  hops,    \* the number of hops the potato makes
  stage,   \* "forming", "playing", "over"
  walk,    \* the players the potato has been to
  holder   \* the player that has it, -1 when nobody has

vars == <<hops, stage, walk, holder>>

Init == hops \in Nat /\ stage = "forming" /\ walk = <<>> /\ holder = -1

Neighbours(n) == {(n + 1) % num_players, (n + num_players - 1) % num_players}

Start ==
  /\ stage = "forming" /\ hops > 0
  /\ stage' = "playing"
  /\ holder' \in 0 .. num_players - 1
  /\ UNCHANGED <<hops, walk>>

NoGame ==
  /\ stage = "forming" /\ hops = 0
  /\ stage' = "over"
  /\ UNCHANGED <<hops, walk, holder>>

Pass ==
  /\ stage = "playing" /\ holder # -1
  /\ walk' = Append(walk, holder)
  /\ holder' \in IF Len(walk') < hops THEN Neighbours(holder) ELSE {-1}
  /\ UNCHANGED <<hops, stage>>

End ==
  /\ stage = "playing" /\ Len(walk) = hops
  /\ stage' = "over"
  /\ UNCHANGED <<hops, walk, holder>>

Next == Start \/ NoGame \/ Pass \/ End

Spec == Init /\ [][Next]_vars
=============================================================================

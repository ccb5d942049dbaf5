----------------------------- MODULE ThreadApi ------------------------------
(***************************************************************************)
(* What the routines of hw1/readme.md promise, with no queue in sight:     *)
(* which threads live, what each one waits for, how many units a semaphore *)
(* holds.  Any thread that waits for nothing may run next; the threads     *)
(* stop when there is none.                                                *)
(***************************************************************************)
EXTENDS Integers

CONSTANTS Threads, Sems, MaxCount, NULL

VARIABLES
  phase,     \* "process", "threads" or "done"
  runner,    \* the thread that has the processor, NULL outside "threads"
  born,      \* the threads created so far
  alive,     \* those that have not exited
  parent,    \* the creator of a thread, NULL for the main thread
  awaiting,  \* awaiting[t]: the threads whose exit t waits for
  sems,      \* the semaphores that exist
  units,     \* units[s]: the units of s that can be taken without sleeping
  asleep     \* asleep[s]: the threads that wait for a unit of s

vars == <<phase, runner, born, alive, parent, awaiting, sems, units, asleep>>
semVars == <<sems, units, asleep>>

Init ==
  /\ phase = "process" /\ runner = NULL
  /\ born = {} /\ alive = {}
  /\ parent = [t \in Threads |-> NULL]
  /\ awaiting = [t \in Threads |-> {}]
  /\ sems = {}
  /\ units = [s \in Sems |-> 0]
  /\ asleep = [s \in Sems |-> {}]

(* The threads that could run if al were alive, awaiting were aw and       *)
(* asleep were as.                                                         *)
Runnable(al, aw, as) ==
  {t \in al : aw[t] = {} /\ \A s \in sems : t \notin as[s]}

(* Some runnable thread gets the processor; with none the engine returns   *)
(* to the process and forgets who waited for whom.                         *)
Schedule(al, aw, as) ==
  \/ /\ runner' \in Runnable(al, aw, as)
     /\ awaiting' = aw
     /\ phase' = phase
  \/ /\ Runnable(al, aw, as) = {}
     /\ runner' = NULL
     /\ awaiting' = [t \in Threads |-> {}]
     /\ phase' = "done"

Start(t) ==
  /\ phase = "process"
  /\ phase' = "threads" /\ runner' = t
  /\ born' = {t} /\ alive' = {t}
  /\ UNCHANGED <<parent, awaiting, semVars>>

Spawn(t) ==
  /\ phase = "threads" /\ t \notin born
  /\ born' = born \cup {t} /\ alive' = alive \cup {t}
  /\ parent' = [parent EXCEPT ![t] = runner]
  /\ UNCHANGED <<phase, runner, awaiting, semVars>>

Yield ==
  /\ phase = "threads"
  /\ Schedule(alive, awaiting, asleep)
  /\ UNCHANGED <<born, alive, parent, semVars>>

LivingChildren == {c \in alive : parent[c] = runner}

(* Wait for one living child, or for all of them.                          *)
Join(C) ==
  /\ phase = "threads" /\ C # {}
  /\ C = LivingChildren \/ \E c \in LivingChildren : C = {c}
  /\ Schedule(alive, [awaiting EXCEPT ![runner] = C], asleep)
  /\ UNCHANGED <<born, alive, parent, semVars>>

Exit ==
  /\ phase = "threads"
  /\ alive' = alive \ {runner}
  /\ Schedule(alive', [t \in Threads |-> awaiting[t] \ {runner}], asleep)
  /\ UNCHANGED <<born, parent, semVars>>

NewSem(s, v) ==
  /\ s \notin sems
  /\ sems' = sems \cup {s}
  /\ units' = [units EXCEPT ![s] = v]
  /\ asleep' = [asleep EXCEPT ![s] = {}]
  /\ UNCHANGED <<phase, runner, born, alive, parent, awaiting>>

(* A unit goes to one of the sleepers if there are any.                    *)
Signal(s) ==
  /\ phase = "threads" /\ s \in sems
  /\ \/ /\ asleep[s] = {}
        /\ units' = [units EXCEPT ![s] = @ + 1]
        /\ UNCHANGED asleep
     \/ /\ \E t \in asleep[s] : asleep' = [asleep EXCEPT ![s] = @ \ {t}]
        /\ UNCHANGED units
  /\ UNCHANGED <<phase, runner, born, alive, parent, awaiting, sems>>

Wait(s) ==
  /\ phase = "threads" /\ s \in sems
  /\ \/ /\ units[s] > 0
        /\ units' = [units EXCEPT ![s] = @ - 1]
        /\ UNCHANGED <<phase, runner, awaiting, asleep>>
     \/ /\ units[s] = 0
        /\ asleep' = [asleep EXCEPT ![s] = @ \cup {runner}]
        /\ Schedule(alive, awaiting, asleep')
        /\ UNCHANGED units
  /\ UNCHANGED <<born, alive, parent, sems>>

DropSem(s) ==
  /\ s \in sems /\ asleep[s] = {}
  /\ sems' = sems \ {s}
  /\ UNCHANGED <<phase, runner, born, alive, parent, awaiting, units, asleep>>

Next ==
  \/ \E t \in Threads : Start(t) \/ Spawn(t)
  \/ Yield \/ Exit
  \/ \E C \in SUBSET Threads : Join(C)
  \/ \E s \in Sems, v \in 0 .. MaxCount : NewSem(s, v)
  \/ \E s \in Sems : Signal(s) \/ Wait(s) \/ DropSem(s)

Spec == Init /\ [][Next]_vars
=============================================================================

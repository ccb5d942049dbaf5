----------------------------- MODULE MCPipeline -----------------------------
(* Instances of Pipeline: the commands a pipeline may be made of.          *)
EXTENDS Pipeline

Cmd(place, reads, output) == [runs |-> place, reads |-> reads, output |-> output]

UpTo(n, commands) == UNION {[1 .. k -> commands] : k \in 1 .. n}

cd     == Cmd("shell", FALSE, 0)
logout == Cmd("exit", FALSE, 0)

(* Programs that read nothing or all of their input and write what fits in *)
(* a pipe, logout, and cd on a line of its own.                            *)
Programs ==
  UpTo(MaxCommands,
       {Cmd("child", r, n) : r \in BOOLEAN, n \in 0 .. Capacity} \cup {logout})
    \cup {<<cd>>}

(* A program that writes more than a pipe holds.                           *)
LongOutput == UpTo(MaxCommands, {Cmd("child", TRUE, Capacity + 1)})
=============================================================================

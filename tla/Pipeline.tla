------------------------------ MODULE Pipeline ------------------------------
(***************************************************************************)
(* How the shell of hw2 runs the pipelines of a line (main.c,              *)
(* evaluate_pipe and evaluate_command): it makes the pipe between two      *)
(* commands, forks a child for each and waits for it before it goes on to  *)
(* the next, keeping the descriptors of at most two pipes in pipefd.       *)
(* Descriptors, pipes and programs are as in POSIX.                        *)
(***************************************************************************)
EXTENDS Integers, Sequences, FiniteSetsExt

CONSTANTS
  Pipelines,     \* sequences of commands: records [runs, reads, output]
  MaxCommands,   \* bound on the commands of a pipeline
  MaxPipelines,  \* bound on the pipelines
  Capacity,      \* bytes that fit in a pipe
  NULL

(* Where a command runs: a program, or a builtin that prints, in a child;  *)
(* cd, unsetenv, setenv with arguments and nice without a command in the   *)
(* shell (is_subshell_builtin); logout and the end of input exit from it.  *)
Places == {"child", "shell", "exit"}

(* An open file: the terminal, or an end of a pipe.                        *)
Tty       == [pipe |-> 0, end |-> "both"]
End(k, e) == [pipe |-> k, end |-> e]

(* A table of descriptors has NULL for those that are closed.              *)
Descriptors == 0 .. 2 * MaxCommands + 6
Files       == {Tty} \cup {End(k, e) : k \in 1 .. MaxCommands, e \in {"r", "w"}}
Tables      == [Descriptors -> Files \cup {NULL}]
Children    == [fd : Tables, got : Nat, left : Nat, pc : {"reading", "writing", "exit"}]

ASSUME PipelineAssumption ==
  /\ \A p \in Pipelines :
       /\ p \in Seq([runs : Places, reads : BOOLEAN, output : Nat])
       /\ Len(p) \in 1 .. MaxCommands
  /\ {MaxCommands, MaxPipelines, Capacity} \subseteq Nat \ {0}
  /\ NULL \notin Files \cup Nat /\ NULL \notin Children

STDIN_FILENO == 0
STDOUT_FILENO == 1

VARIABLES
  running,      \* the shell has not exited
  cmds,         \* the pipeline being evaluated
  pipelines,    \* how many have begun
  c,            \* the command evaluate_pipe is at
  pipe_index, pipefd,
  fd,           \* the descriptors of the shell
  child,        \* the process it waits for, or NULL
  content,      \* content[k]: the bytes in the k-th pipe of this pipeline
  received      \* received[k]: what command k has read, when it was at the end

shell == <<running, cmds, pipelines, c, pipe_index, pipefd, fd>>
vars  == <<shell, child, content, received>>

(* The three standard streams.                                             *)
Standard == [f \in Descriptors |-> IF f \in 0 .. 2 THEN Tty ELSE NULL]

Init ==
  /\ running = TRUE /\ cmds \in Pipelines /\ pipelines = 1
  /\ c = 1 /\ pipe_index = 0
  /\ pipefd = [index \in 0 .. 1 |-> [e \in 0 .. 1 |-> 0]]
  /\ fd = Standard
  /\ child = NULL /\ content = <<>>
  /\ received = [k \in 1 .. MaxCommands |-> NULL]

-----------------------------------------------------------------------------
(* System calls on a table of descriptors.                                 *)

(* The lowest descriptor that is closed.                                   *)
Lowest(table) == Min({f \in Descriptors : table[f] = NULL})

close(table, f) == [table EXCEPT ![f] = NULL]

dup2(table, old, new) ==
  IF table[old] # NULL THEN [table EXCEPT ![new] = table[old]] ELSE table

-----------------------------------------------------------------------------
(* The shell.                                                              *)

PipeIn(k)  == k > 1
PipeOut(k) == k < Len(cmds)

(* make_pipe: the table with a new pipe, and pipefd with its descriptors.  *)
make_pipe(index) ==
  LET k == Len(content) + 1
      r == Lowest(fd)
      w == Lowest([fd EXCEPT ![r] = End(k, "r")])
  IN  /\ content' = Append(content, 0)
      /\ fd' = [fd EXCEPT ![r] = End(k, "r"), ![w] = End(k, "w")]
      /\ pipefd' = [pipefd EXCEPT ![index] = [e \in 0 .. 1 |-> IF e = 0 THEN r ELSE w]]

input_index_Same(k, index) == index

(* Which of the two pipes command k reads: not the one it writes, which    *)
(* toggled pipe_index.                                                     *)
input_index(k, index) == IF PipeOut(k) THEN 1 - index ELSE index

(* The descriptors of the child, which keeps those it inherits.            *)
setup_pipe_input(k, index, fds, table) ==
  IF PipeIn(k) THEN dup2(table, fds[input_index(k, index)][0], STDIN_FILENO) ELSE table

setup_pipe_output(k, index, fds, table) ==
  IF PipeOut(k) THEN dup2(table, fds[index][1], STDOUT_FILENO) ELSE table

Fork ==
  child' = [fd   |-> setup_pipe_output(c, pipe_index', pipefd',
                       setup_pipe_input(c, pipe_index', pipefd', fd')),
            got  |-> 0,
            left |-> cmds[c].output,
            pc   |-> IF cmds[c].reads THEN "reading" ELSE "writing"]

(* evaluate_command up to waitpid.  A builtin that runs in the shell makes *)
(* neither a pipe nor a child, and closes nothing.                         *)
evaluate_command ==
  /\ running /\ c <= Len(cmds) /\ child = NULL
  /\ \/ /\ cmds[c].runs = "exit"
        /\ running' = FALSE
        /\ UNCHANGED <<c, pipe_index, pipefd, fd, child, content>>
     \/ /\ cmds[c].runs = "shell"
        /\ c' = c + 1
        /\ UNCHANGED <<running, pipe_index, pipefd, fd, child, content>>
     \/ /\ cmds[c].runs = "child" /\ PipeOut(c)
        /\ pipe_index' = 1 - pipe_index
        /\ make_pipe(pipe_index')
        /\ Fork
        /\ UNCHANGED <<running, c>>
     \/ /\ cmds[c].runs = "child" /\ ~PipeOut(c)
        /\ UNCHANGED <<running, c, pipe_index, pipefd, fd, content>>
        /\ Fork
  /\ UNCHANGED <<cmds, pipelines, received>>

close_pipes_Input(k, index) ==
  IF PipeIn(k) THEN close(fd, pipefd[input_index(k, index)][0]) ELSE fd

close_pipes_Output(k, index) ==
  IF PipeOut(k) THEN close(fd, pipefd[index][1]) ELSE fd

(* What the shell closes when command k has ended.                         *)
close_pipes(k, index) ==
  LET out == IF PipeOut(k) THEN close(fd, pipefd[index][1]) ELSE fd
  IN  IF PipeIn(k) THEN close(out, pipefd[input_index(k, index)][0]) ELSE out

waitpid ==
  /\ child # NULL /\ child.pc = "exit"
  /\ fd' = close_pipes(c, pipe_index)
  /\ child' = NULL
  /\ c' = c + 1
  /\ UNCHANGED <<running, cmds, pipelines, pipe_index, pipefd, content, received>>

(* The next pipeline: evaluate_pipe resets pipe_index and leaves pipefd.   *)
evaluate_pipe ==
  /\ running /\ c > Len(cmds) /\ pipelines < MaxPipelines
  /\ cmds' \in Pipelines
  /\ pipelines' = pipelines + 1
  /\ c' = 1 /\ pipe_index' = 0 /\ content' = <<>>
  /\ received' = [k \in 1 .. MaxCommands |-> NULL]
  /\ UNCHANGED <<running, pipefd, fd, child>>

-----------------------------------------------------------------------------
(* The child: it reads its input to the end, if it reads at all, writes    *)
(* its output byte by byte and exits.  The shell holds the reading end of  *)
(* a pipe while it waits, so a write to it can block but not fail.         *)

File(f) == IF child.fd[f] # NULL THEN child.fd[f] ELSE Tty

Open(k, e) == \E f \in Descriptors : fd[f] = End(k, e)
OpenInChild(k, e) == \E f \in Descriptors : child.fd[f] = End(k, e)

Read ==
  /\ child # NULL /\ child.pc = "reading"
  /\ LET from == File(STDIN_FILENO) IN
       \/ /\ from.pipe # 0 /\ content[from.pipe] > 0
          /\ content' = [content EXCEPT ![from.pipe] = @ - 1]
          /\ child' = [child EXCEPT !.got = @ + 1]
          /\ UNCHANGED received
       \/ /\ from.pipe # 0 => /\ content[from.pipe] = 0
                             /\ ~Open(from.pipe, "w")
                             /\ ~OpenInChild(from.pipe, "w")
          /\ child' = [child EXCEPT !.pc = "writing"]
          /\ received' = [received EXCEPT ![c] = child.got]
          /\ UNCHANGED content
  /\ UNCHANGED shell

Write ==
  /\ child # NULL /\ child.pc = "writing"
  /\ LET to == File(STDOUT_FILENO) IN
       \/ /\ child.left > 0 /\ to.pipe # 0 /\ content[to.pipe] < Capacity
          /\ content' = [content EXCEPT ![to.pipe] = @ + 1]
          /\ child' = [child EXCEPT !.left = @ - 1]
       \/ /\ child.left > 0 => to.pipe = 0
          /\ child' = [child EXCEPT !.pc = "exit"]
          /\ UNCHANGED content
  /\ UNCHANGED <<shell, received>>

-----------------------------------------------------------------------------
Done == ~running \/ (c > Len(cmds) /\ pipelines = MaxPipelines)

Step == evaluate_command \/ waitpid \/ Read \/ Write
Next == Step \/ evaluate_pipe \/ (Done /\ UNCHANGED vars)

Spec == Init /\ [][Next]_vars

(* The operating system runs the shell and its child whenever they can.    *)
FairSpec == Spec /\ WF_vars(Step)

-----------------------------------------------------------------------------
(* Every command that reads its input gets exactly what the command before *)
(* it has written, and the first one reads from the terminal, however the  *)
(* two entries of pipefd take turns.                                       *)
EachReadsThePrevious ==
  \A k \in 1 .. Len(cmds) :
    received[k] # NULL => received[k] = IF k = 1 THEN 0 ELSE cmds[k-1].output

(* Between two pipelines the shell has its three standard streams and      *)
(* nothing else open: no descriptor is leaked or closed by mistake.        *)
OnlyStandardStreams ==
  running /\ c > Len(cmds) => fd = Standard

(* A line comes to its end: the shell gets to each of its commands.        *)
PipelineEnds == []<>(~running \/ c > Len(cmds))
=============================================================================

--------------------------- MODULE PipelineProofs ---------------------------
(***************************************************************************)
(* Proofs about Pipeline, for any set of pipelines, any outputs and any    *)
(* capacity of a pipe: the descriptors the shell has open at each point of *)
(* a pipeline, and that what a command reads is what the one before it has *)
(* written.                                                                *)
(***************************************************************************)
EXTENDS Pipeline, TLAPS

(* A builtin that runs in the shell is alone in its pipeline.  In a longer *)
(* one it makes no pipe and closes none, and the properties fail.          *)
BuiltinsAlone ==
  \A p \in Pipelines : \A k \in 1 .. Len(p) : p[k].runs = "shell" => Len(p) = 1

-----------------------------------------------------------------------------
(* The inductive invariant.                                                *)

TypeInv ==
  /\ cmds \in Pipelines
  /\ c \in 1 .. Len(cmds) + 1
  /\ pipe_index \in 0 .. 1
  /\ pipefd \in [0 .. 1 -> [0 .. 1 -> Descriptors]]
  /\ fd \in Tables
  /\ child \in Children \cup {NULL}
  /\ content \in Seq(Nat)
  /\ received \in [1 .. MaxCommands -> Nat \cup {NULL}]

(* The command at hand has a pipe to read, and its descriptor.             *)
HasIn == 1 < c /\ c <= Len(cmds)
InEnd == pipefd[IF child = NULL THEN pipe_index ELSE input_index(c, pipe_index)][0]

(* It has a pipe to write, and the descriptors of its two ends.            *)
HasOut == child # NULL /\ PipeOut(c)
OutR   == pipefd[pipe_index][0]
OutW   == pipefd[pipe_index][1]

(* What the shell has open: the standard streams, the end the command      *)
(* reads and both ends of the pipe it writes, and nothing else.            *)
FileAt(f) ==
  IF f \in 0 .. 2 THEN Tty
  ELSE IF HasIn /\ f = InEnd THEN End(c - 1, "r")
  ELSE IF HasOut /\ f = OutR THEN End(c, "r")
  ELSE IF HasOut /\ f = OutW THEN End(c, "w")
  ELSE NULL

TableInv ==
  /\ HasIn => InEnd \in {3, 4}
  /\ HasOut => OutR \in {3, 4} /\ OutW \in {4, 5} /\ OutR # OutW
  /\ HasIn /\ HasOut => InEnd # OutR /\ InEnd # OutW
  /\ \A f \in Descriptors : fd[f] = FileAt(f)

(* What is in the pipes and what the child has read or has yet to write    *)
(* make up the outputs of the two commands.                                *)
ContentInv ==
  /\ c <= Len(cmds) => Len(content) = IF HasOut THEN c ELSE c - 1
  /\ child = NULL /\ HasIn => content[c - 1] = cmds[c - 1].output
  /\ child # NULL /\ HasIn => content[c - 1] + child.got = cmds[c - 1].output
  /\ HasOut => content[c] + child.left = cmds[c].output

ChildInv ==
  child # NULL =>
    /\ c <= Len(cmds)
    /\ child.fd[0] = IF c > 1 THEN End(c - 1, "r") ELSE Tty
    /\ child.fd[1] = IF PipeOut(c) THEN End(c, "w") ELSE Tty
    /\ c = 1 => child.got = 0
    /\ child.pc = "exit" /\ PipeOut(c) => child.left = 0

IInv == TypeInv /\ TableInv /\ ContentInv /\ ChildInv /\ EachReadsThePrevious

-----------------------------------------------------------------------------
(* Lemmas.                                                                 *)

(* pipe takes the lowest descriptor that is closed.                        *)
LEMMA LowestIs ==
  ASSUME NEW table, NEW m \in Descriptors, table[m] = NULL,
         \A f \in Descriptors : f < m => table[f] # NULL
  PROVE  Lowest(table) = m
<1> DEFINE S == {f \in Descriptors : table[f] = NULL}
<1>1. m \in S /\ S \subseteq Int /\ \A f \in S : m <= f
  BY PipelineAssumption DEF Descriptors
<1>2. \A x \in S : (\A y \in S : x <= y) => x = m
  BY <1>1
<1>3. Min(S) \in S /\ \A y \in S : Min(S) <= y
  BY <1>1 DEF Min
<1> QED BY <1>2, <1>3 DEF Lowest

(* The commands of a pipeline, and the first descriptors of a process.     *)
LEMMA Commands ==
  ASSUME NEW p \in Pipelines
  PROVE  /\ Len(p) \in 1 .. MaxCommands
         /\ \A k \in 1 .. Len(p) : p[k].output \in Nat /\ p[k].runs \in Places
<1> DEFINE R == [runs : Places, reads : BOOLEAN, output : Nat]
<1>1. p \in Seq(R) /\ Len(p) \in 1 .. MaxCommands
  BY PipelineAssumption, Zenon
<1>2. \A r \in R : r.output \in Nat /\ r.runs \in Places
  OBVIOUS
<1> HIDE DEF R
<1>3. \A k \in 1 .. Len(p) : p[k] \in R
  BY <1>1
<1> QED BY <1>1, <1>2, <1>3

(* There are always descriptors for the standard streams and two pipes'    *)
(* ends.                                                                   *)
LEMMA FirstDescriptors ==
  /\ Descriptors \subseteq Nat
  /\ 0 \in Descriptors /\ 1 \in Descriptors /\ 2 \in Descriptors /\ 3 \in Descriptors
  /\ 4 \in Descriptors /\ 5 \in Descriptors
BY PipelineAssumption DEF Descriptors

(* The ends of a pipeline's pipes are files, and none of them, nor the     *)
(* terminal, is the mark of a closed descriptor.                           *)
LEMMA FilesOpen ==
  /\ Tty \in Files /\ Tty # NULL
  /\ \A k \in 1 .. MaxCommands, e \in {"r", "w"} : End(k, e) \in Files /\ End(k, e) # NULL
BY PipelineAssumption DEF Files

-----------------------------------------------------------------------------
(* evaluate_command forks a child.                                         *)

(* dup2 of an open descriptor.                                             *)
LEMMA Dup2 ==
  ASSUME NEW table \in Tables, NEW old \in Descriptors, NEW new \in Descriptors,
         table[old] # NULL
  PROVE  /\ dup2(table, old, new) \in Tables
         /\ \A f \in Descriptors :
              dup2(table, old, new)[f] = IF f = new THEN table[old] ELSE table[f]
BY DEF dup2, Tables

(* With at most one of the descriptors 3 and 4 taken, pipe returns two of  *)
(* 3, 4 and 5.                                                             *)
LEMMA TwoLowest ==
  ASSUME NEW table, NEW taken \in {{}, {3}, {4}},
         \A f \in Descriptors : (table[f] = NULL) <=> f \notin (0 .. 2) \cup taken,
         NEW next,
         \A f \in Descriptors : (next[f] = NULL) <=> (table[f] = NULL /\ f # Lowest(table))
  PROVE  /\ Lowest(table) \in {3, 4} \ taken
         /\ Lowest(next) \in {4, 5} \ taken
         /\ Lowest(table) # Lowest(next)
<1> USE FirstDescriptors
<1>1. CASE taken = {}
  <2>1. Lowest(table) = 3
    BY <1>1, LowestIs
  <2>2. next[4] = NULL /\ \A f \in Descriptors : f < 4 => next[f] # NULL
    BY <1>1, <2>1
  <2>3. Lowest(next) = 4
    BY <2>2, LowestIs
  <2> QED BY <1>1, <2>1, <2>3
<1>2. CASE taken = {3}
  <2>1. Lowest(table) = 4
    BY <1>2, LowestIs
  <2>2. next[5] = NULL /\ \A f \in Descriptors : f < 5 => next[f] # NULL
    BY <1>2, <2>1
  <2>3. Lowest(next) = 5
    BY <2>2, LowestIs
  <2> QED BY <1>2, <2>1, <2>3
<1>3. CASE taken = {4}
  <2>1. Lowest(table) = 3
    BY <1>3, LowestIs
  <2>2. next[5] = NULL /\ \A f \in Descriptors : f < 5 => next[f] # NULL
    BY <1>3, <2>1
  <2>3. Lowest(next) = 5
    BY <2>2, LowestIs
  <2> QED BY <1>3, <2>1, <2>3
<1> QED BY <1>1, <1>2, <1>3

(* A command that writes to the next one: the new pipe takes descriptors   *)
(* other than the one the command reads, in the other entry of pipefd.     *)
LEMMA ForkWithPipe ==
  ASSUME IInv, child = NULL, c <= Len(cmds), PipeOut(c),
         pipe_index' = 1 - pipe_index, make_pipe(pipe_index'), Fork,
         UNCHANGED <<c, cmds, received>>
  PROVE  IInv'
<1> DEFINE i == pipefd[pipe_index][0]
           r == Lowest(fd)
           w == Lowest([fd EXCEPT ![r] = End(c, "r")])
<1> USE FirstDescriptors
<1>1. /\ cmds \in Pipelines /\ c \in 1 .. Len(cmds) + 1 /\ pipe_index \in 0 .. 1
      /\ pipefd \in [0 .. 1 -> [0 .. 1 -> Descriptors]] /\ fd \in Tables /\ content \in Seq(Nat)
      /\ received \in [1 .. MaxCommands -> Nat \cup {NULL}]
  BY DEF IInv, TypeInv
<1>2. /\ Len(cmds) \in 1 .. MaxCommands /\ c \in 1 .. Len(cmds) /\ c < Len(cmds)
      /\ \A k \in 1 .. Len(cmds) : cmds[k].output \in Nat
  BY <1>1, Commands DEF PipeOut
<1>3. Len(content) = c - 1 /\ (HasIn => content[c - 1] = cmds[c - 1].output)
  BY <1>2 DEF IInv, ContentInv, HasOut
<1>4. /\ HasIn => i \in {3, 4}
      /\ \A f \in Descriptors :
           fd[f] = IF f \in 0 .. 2 THEN Tty ELSE IF HasIn /\ f = i THEN End(c - 1, "r") ELSE NULL
  BY DEF IInv, TableInv, FileAt, InEnd, HasOut
<1>5. HasIn \in BOOLEAN /\ (HasIn <=> c > 1)
  BY <1>2 DEF HasIn
<1>6. /\ \A e \in {"r", "w"} : End(c, e) \in Files /\ End(c, e) # NULL
      /\ HasIn => End(c - 1, "r") \in Files /\ End(c - 1, "r") # NULL
      /\ Tty # NULL
  <2>1. c \in 1 .. MaxCommands /\ (HasIn => c - 1 \in 1 .. MaxCommands)
    BY <1>2, <1>5, PipelineAssumption
  <2> QED BY <2>1, FilesOpen
<1>7. r \in {3, 4} /\ w \in {4, 5} /\ r # w /\ (HasIn => i # r /\ i # w)
  <2> DEFINE taken == IF HasIn THEN {i} ELSE {}
  <2>1. \A f \in Descriptors : (fd[f] = NULL) <=> f \notin (0 .. 2) \cup taken
    BY <1>4, <1>6
  <2>2. taken \in {{}, {3}, {4}}
    BY <1>4
  <2>3. End(c, "r") # NULL
    BY <1>6
  <2>4. r \in {3, 4} \ taken /\ w \in {4, 5} \ taken /\ r # w
    <3> DEFINE next == [fd EXCEPT ![r] = End(c, "r")]
    <3>1. \A f \in Descriptors : next[f] = IF f = r THEN End(c, "r") ELSE fd[f]
      BY <1>1 DEF Tables
    <3> HIDE DEF taken, next, r
    <3>2. \A f \in Descriptors : (next[f] = NULL) <=> (fd[f] = NULL /\ f # Lowest(fd))
      BY <2>3, <3>1 DEF r
    <3>3. /\ Lowest(fd) \in {3, 4} \ taken
          /\ Lowest(next) \in {4, 5} \ taken
          /\ Lowest(fd) # Lowest(next)
      BY <2>1, <2>2, <3>2, TwoLowest
    <3> QED BY <3>3 DEF next, r
  <2> QED BY <2>4
<1>8. /\ content' = Append(content, 0)
      /\ fd' = [fd EXCEPT ![r] = End(c, "r"), ![w] = End(c, "w")]
      /\ pipefd' = [pipefd EXCEPT ![pipe_index'] = [e \in 0 .. 1 |-> IF e = 0 THEN r ELSE w]]
  BY <1>2, <1>3 DEF make_pipe
<1> HIDE DEF i, r, w
<1>9. /\ content' \in Seq(Nat) /\ Len(content') = c /\ content'[c] = 0
      /\ HasIn => content'[c - 1] = cmds[c - 1].output
  BY <1>1, <1>2, <1>3, <1>5, <1>8
<1>10. /\ fd' \in Tables
       /\ \A f \in Descriptors :
            fd'[f] = IF f = r THEN End(c, "r") ELSE IF f = w THEN End(c, "w") ELSE fd[f]
  BY <1>1, <1>6, <1>7, <1>8, Zenon DEF Tables
<1>11. /\ pipefd' \in [0 .. 1 -> [0 .. 1 -> Descriptors]] /\ pipe_index' \in 0 .. 1
       /\ pipefd'[pipe_index'][0] = r /\ pipefd'[pipe_index'][1] = w
       /\ pipefd'[1 - pipe_index'][0] = i
  BY <1>1, <1>7, <1>8 DEF i
<1>12. /\ child'.fd \in Tables /\ child' \in Children /\ child' # NULL
       /\ child'.fd[0] = IF HasIn THEN End(c - 1, "r") ELSE Tty
       /\ child'.fd[1] = End(c, "w")
       /\ child'.got = 0 /\ child'.left = cmds[c].output /\ child'.pc # "exit"
  <2> DEFINE t1 == setup_pipe_input(c, pipe_index', pipefd', fd')
             t2 == setup_pipe_output(c, pipe_index', pipefd', t1)
  <2>1. child' = [fd |-> t2, got |-> 0, left |-> cmds[c].output,
                  pc |-> IF cmds[c].reads THEN "reading" ELSE "writing"]
    BY DEF Fork
  <2>2. t1 = IF HasIn THEN dup2(fd', i, STDIN_FILENO) ELSE fd'
    BY <1>1, <1>2, <1>5, <1>11 DEF setup_pipe_input, input_index, PipeIn
  <2>3. t2 = dup2(t1, w, STDOUT_FILENO)
    BY <1>11 DEF setup_pipe_output
  <2> HIDE DEF t1, t2
  <2>4. /\ fd'[0] = Tty /\ fd'[1] = Tty /\ fd'[w] = End(c, "w")
        /\ HasIn => fd'[i] = End(c - 1, "r")
    BY <1>4, <1>7, <1>10
  <2>5. /\ t2 \in Tables
        /\ t2[0] = IF HasIn THEN fd'[i] ELSE Tty
        /\ t2[1] = fd'[w]
    <3>1. HasIn => i \in Descriptors /\ i > 2 /\ fd'[i] # NULL
      BY <1>4, <1>6, <2>4
    <3>2. w \in Descriptors /\ w > 2 /\ fd'[w] # NULL
      BY <1>6, <1>7, <2>4
    <3>3. /\ t1 \in Tables
          /\ t1[0] = IF HasIn THEN fd'[i] ELSE Tty
          /\ \A f \in Descriptors : f # 0 => t1[f] = fd'[f]
      <4>1. CASE HasIn
        <5>1. t1 = dup2(fd', i, 0) /\ fd' \in Tables /\ i \in Descriptors /\ fd'[i] # NULL
          BY <1>10, <2>2, <3>1, <4>1 DEF STDIN_FILENO
        <5>2. /\ t1 \in Tables
              /\ \A f \in Descriptors : t1[f] = IF f = 0 THEN fd'[i] ELSE fd'[f]
          BY <5>1, Dup2
        <5> QED BY <4>1, <5>2
      <4>2. CASE ~HasIn
        BY <1>10, <2>2, <2>4, <4>2
      <4> QED BY <4>1, <4>2
    <3>4. t1[w] = fd'[w] /\ t1[w] # NULL
      <4>1. w # 0
        BY <1>7
      <4>2. \A f \in Descriptors : f # 0 => t1[f] = fd'[f]
        BY <3>3
      <4> QED BY <3>2, <4>1, <4>2
    <3>5. /\ t2 \in Tables
          /\ \A f \in Descriptors : t2[f] = IF f = 1 THEN t1[w] ELSE t1[f]
      <4>1. t2 = dup2(t1, w, 1)
        BY <2>3 DEF STDOUT_FILENO
      <4>2. t1 \in Tables /\ w \in Descriptors /\ t1[w] # NULL
        BY <3>2, <3>3, <3>4
      <4> QED BY <4>1, <4>2, Dup2
    <3> QED BY <3>3, <3>4, <3>5
  <2>6. child' \in Children
    BY <1>2, <2>1, <2>5 DEF Children
  <2> QED BY <2>1, <2>4, <2>5, <2>6, PipelineAssumption
<1>13. /\ HasIn' <=> HasIn
       /\ HasOut'
       /\ InEnd' = i /\ OutR' = r /\ OutW' = w
  BY <1>1, <1>2, <1>11, <1>12 DEF HasIn, HasOut, InEnd, OutR, OutW, PipeOut, input_index
<1>14. TypeInv'
  BY <1>1, <1>9, <1>10, <1>11, <1>12 DEF TypeInv
<1>15. TableInv'
  <2>1. \A f \in Descriptors : fd'[f] = FileAt(f)'
    BY <1>4, <1>7, <1>10, <1>13 DEF FileAt
  <2> QED BY <1>4, <1>7, <1>13, <2>1 DEF TableInv
<1>16. ContentInv'
  <2>1. content'[c] + child'.left = cmds[c].output
    BY <1>2, <1>9, <1>12
  <2>2. HasIn => content'[c - 1] + child'.got = cmds[c - 1].output
    BY <1>2, <1>5, <1>9, <1>12
  <2> QED BY <1>9, <1>12, <1>13, <2>1, <2>2 DEF ContentInv
<1>17. ChildInv'
  BY <1>2, <1>5, <1>12 DEF ChildInv, PipeOut
<1>18. EachReadsThePrevious'
  BY DEF IInv, EachReadsThePrevious
<1> QED BY <1>14, <1>15, <1>16, <1>17, <1>18 DEF IInv

(* The last command of a pipeline writes to the terminal.                  *)
LEMMA ForkAlone ==
  ASSUME IInv, child = NULL, c <= Len(cmds), ~PipeOut(c), Fork,
         UNCHANGED <<c, cmds, pipe_index, pipefd, fd, content, received>>
  PROVE  IInv'
<1> DEFINE i == pipefd[pipe_index][0]
<1> USE FirstDescriptors
<1>1. TypeInv /\ TableInv /\ ContentInv
  BY DEF IInv
<1>2. /\ Len(cmds) \in 1 .. MaxCommands /\ c \in 1 .. Len(cmds) /\ c = Len(cmds)
      /\ \A k \in 1 .. Len(cmds) : cmds[k].output \in Nat
  BY <1>1, Commands DEF PipeOut, TypeInv
<1>3. /\ HasIn => i \in {3, 4}
      /\ \A f \in Descriptors :
           fd[f] = IF f \in 0 .. 2 THEN Tty ELSE IF HasIn /\ f = i THEN End(c - 1, "r") ELSE NULL
  BY <1>1 DEF TableInv, FileAt, InEnd, HasOut
<1>4. HasIn <=> c > 1
  BY <1>2 DEF HasIn
<1>5. /\ child' \in Children /\ child' # NULL
      /\ child'.fd[0] = IF HasIn THEN End(c - 1, "r") ELSE Tty
      /\ child'.fd[1] = Tty
      /\ child'.got = 0 /\ child'.pc # "exit"
  <2> DEFINE t == setup_pipe_input(c, pipe_index', pipefd', fd')
  <2>1. child' = [fd |-> t, got |-> 0, left |-> cmds[c].output,
                  pc |-> IF cmds[c].reads THEN "reading" ELSE "writing"]
    BY DEF Fork, setup_pipe_output
  <2>2. t = IF HasIn THEN dup2(fd, i, 0) ELSE fd
    BY <1>2, <1>4 DEF setup_pipe_input, input_index, PipeIn, STDIN_FILENO
  <2> HIDE DEF t, i
  <2>3. fd \in Tables
    BY <1>1 DEF TypeInv
  <2>4. /\ t \in Tables
        /\ t[0] = IF HasIn THEN End(c - 1, "r") ELSE Tty
        /\ t[1] = Tty
    <3>1. CASE HasIn
      <4>1. c - 1 \in 1 .. MaxCommands
        BY <1>2, <1>4, <3>1, PipelineAssumption
      <4>2. i \in Descriptors /\ fd[i] = End(c - 1, "r") /\ fd[i] # NULL
        BY <1>3, <3>1, <4>1, FilesOpen
      <4>3. t \in Tables /\ \A f \in Descriptors : t[f] = IF f = 0 THEN fd[i] ELSE fd[f]
        BY <2>2, <2>3, <3>1, <4>2, Dup2
      <4>4. fd[1] = Tty
        BY <1>3
      <4> QED BY <3>1, <4>2, <4>3, <4>4
    <3>2. CASE ~HasIn
      BY <1>3, <2>2, <2>3, <3>2
    <3> QED BY <3>1, <3>2
  <2>5. child' \in Children
    BY <1>2, <2>1, <2>4 DEF Children
  <2> QED BY <2>1, <2>4, <2>5, PipelineAssumption
<1>6. (HasIn' <=> HasIn) /\ ~HasOut /\ ~HasOut' /\ InEnd = i /\ InEnd' = i
  BY <1>5 DEF HasIn, HasOut, InEnd, PipeOut, input_index
<1> HIDE DEF i
<1>7. TypeInv'
  BY <1>1, <1>5 DEF TypeInv
<1>8. TableInv'
  BY <1>3, <1>6 DEF TableInv, FileAt
<1>9. ContentInv'
  <2>1. Len(content) = c - 1 /\ (HasIn => content[c - 1] = cmds[c - 1].output)
    BY <1>1, <1>2, <1>6 DEF ContentInv
  <2>2. HasIn => content[c - 1] + child'.got = cmds[c - 1].output
    BY <1>2, <1>4, <1>5, <2>1
  <2> QED BY <1>5, <1>6, <2>1, <2>2 DEF ContentInv
<1>10. ChildInv'
  BY <1>2, <1>4, <1>5 DEF ChildInv, PipeOut
<1>11. EachReadsThePrevious'
  BY DEF IInv, EachReadsThePrevious
<1> QED BY <1>7, <1>8, <1>9, <1>10, <1>11 DEF IInv

(* evaluate_command.  A builtin that runs in the shell ends its pipeline   *)
(* at once, for it is alone in it.                                         *)
LEMMA EvaluateCommand ==
  ASSUME BuiltinsAlone, IInv, evaluate_command
  PROVE  IInv'
<1>1. CASE cmds[c].runs = "exit" /\ UNCHANGED <<c, cmds, pipe_index, pipefd, fd, child, content, received>>
  BY <1>1 DEF IInv, TypeInv, TableInv, ContentInv, ChildInv, EachReadsThePrevious,
              HasIn, HasOut, InEnd, OutR, OutW, FileAt, PipeOut, input_index
<1>2. CASE /\ cmds[c].runs = "shell" /\ c' = c + 1
           /\ UNCHANGED <<cmds, pipe_index, pipefd, fd, child, content, received>>
  <2>1. TypeInv /\ TableInv /\ child = NULL /\ c <= Len(cmds)
    BY DEF IInv, evaluate_command
  <2>2. Len(cmds) = 1 /\ c = 1
    BY <1>2, <2>1 DEF BuiltinsAlone, TypeInv
  <2>3. ~HasIn /\ ~HasIn' /\ ~HasOut /\ ~HasOut'
    BY <1>2, <2>1, <2>2 DEF HasIn, HasOut
  <2>4. TypeInv'
    BY <1>2, <2>1, <2>2 DEF TypeInv
  <2>5. TableInv'
    BY <1>2, <2>1, <2>3 DEF TableInv, FileAt
  <2>6. ContentInv' /\ ChildInv'
    BY <1>2, <2>1, <2>2, <2>3 DEF ContentInv, ChildInv
  <2>7. EachReadsThePrevious'
    BY <1>2 DEF IInv, EachReadsThePrevious
  <2> QED BY <2>4, <2>5, <2>6, <2>7 DEF IInv
<1>3. CASE /\ PipeOut(c) /\ pipe_index' = 1 - pipe_index /\ make_pipe(pipe_index') /\ Fork
           /\ UNCHANGED <<c, cmds, received>>
  BY <1>3, ForkWithPipe DEF evaluate_command
<1>4. CASE /\ ~PipeOut(c) /\ Fork
           /\ UNCHANGED <<c, cmds, pipe_index, pipefd, fd, content, received>>
  BY <1>4, ForkAlone DEF evaluate_command
<1> QED BY <1>1, <1>2, <1>3, <1>4, Zenon DEF evaluate_command

-----------------------------------------------------------------------------
(* The other steps.                                                        *)

(* waitpid: of the three descriptors of pipes, the reading end of the pipe *)
(* the child has written stays open, and is what the next command reads.   *)
LEMMA WaitPid ==
  ASSUME IInv, waitpid
  PROVE  IInv'
<1> DEFINE i == pipefd[input_index(c, pipe_index)][0]
           r == pipefd[pipe_index][0]
           w == pipefd[pipe_index][1]
<1> USE FirstDescriptors
<1>1. TypeInv /\ TableInv /\ ContentInv /\ ChildInv /\ child # NULL /\ child.pc = "exit"
  BY DEF IInv, waitpid
<1>2. /\ fd' = close_pipes(c, pipe_index) /\ child' = NULL /\ c' = c + 1
      /\ UNCHANGED <<cmds, pipe_index, pipefd, content, received>>
  BY DEF waitpid
<1>3. /\ Len(cmds) \in Nat /\ c \in 1 .. Len(cmds) /\ fd \in Tables
      /\ \A k \in 1 .. Len(cmds) : cmds[k].output \in Nat
  BY <1>1, Commands DEF TypeInv, ChildInv
<1>4. (HasIn <=> PipeIn(c)) /\ (HasOut <=> PipeOut(c)) /\ InEnd = i /\ OutR = r /\ OutW = w
  BY <1>1, <1>3 DEF HasIn, HasOut, InEnd, OutR, OutW, PipeIn
<1>5. (HasIn' <=> PipeOut(c)) /\ ~HasOut' /\ InEnd' = r
  BY <1>2, <1>3 DEF HasIn, HasOut, InEnd, PipeOut
<1> HIDE DEF i, r, w
<1>6. /\ PipeIn(c) => i \in {3, 4}
      /\ PipeOut(c) => r \in {3, 4} /\ w \in {4, 5} /\ r # w
      /\ PipeIn(c) /\ PipeOut(c) => i # r /\ i # w
      /\ \A f \in Descriptors :
           fd[f] = IF f \in 0 .. 2 THEN Tty
                   ELSE IF PipeIn(c) /\ f = i THEN End(c - 1, "r")
                   ELSE IF PipeOut(c) /\ f = r THEN End(c, "r")
                   ELSE IF PipeOut(c) /\ f = w THEN End(c, "w")
                   ELSE NULL
  BY <1>1, <1>4 DEF TableInv, FileAt
<1>7. /\ fd' \in Tables
      /\ \A f \in Descriptors :
           fd'[f] = IF PipeIn(c) /\ f = i THEN NULL
                    ELSE IF PipeOut(c) /\ f = w THEN NULL
                    ELSE fd[f]
  <2> DEFINE out == IF PipeOut(c) THEN close(fd, w) ELSE fd
  <2>1. fd' = IF PipeIn(c) THEN close(out, i) ELSE out
    BY <1>2 DEF close_pipes, i, w
  <2>2. out \in Tables /\ \A f \in Descriptors : out[f] = IF PipeOut(c) /\ f = w THEN NULL ELSE fd[f]
    BY <1>3, <1>6 DEF close, Tables
  <2> HIDE DEF out
  <2> QED BY <1>6, <2>1, <2>2 DEF close, Tables
<1>8. \A f \in Descriptors :
        fd'[f] = IF f \in 0 .. 2 THEN Tty
                 ELSE IF PipeOut(c) /\ f = r THEN End(c, "r")
                 ELSE NULL
  <2> SUFFICES ASSUME NEW f \in Descriptors
               PROVE  fd'[f] = IF f \in 0 .. 2 THEN Tty
                               ELSE IF PipeOut(c) /\ f = r THEN End(c, "r")
                               ELSE NULL
    OBVIOUS
  <2>1. CASE f \in 0 .. 2
    BY <1>6, <1>7, <2>1
  <2>2. CASE f \notin 0 .. 2
    BY <1>6, <1>7, <2>2
  <2> QED BY <2>1, <2>2
<1>9. TypeInv'
  BY <1>1, <1>2, <1>3, <1>7 DEF TypeInv
<1>10. TableInv'
  BY <1>2, <1>3, <1>5, <1>6, <1>8 DEF TableInv, FileAt
<1>11. ContentInv'
  <2>1. /\ Len(content) = IF PipeOut(c) THEN c ELSE c - 1
        /\ PipeOut(c) => content[c] + child.left = cmds[c].output /\ child.left = 0
    BY <1>1, <1>3, <1>4 DEF ContentInv, ChildInv
  <2>2. PipeOut(c) => content[c] = cmds[c].output
    <3>1. content \in Seq(Nat)
      BY <1>1 DEF TypeInv
    <3>2. PipeOut(c) => content[c] \in Nat
      BY <1>3, <2>1, <3>1
    <3> QED BY <2>1, <3>2
  <2>3. c' <= Len(cmds') => PipeOut(c)
    BY <1>2, <1>3 DEF PipeOut
  <2> QED BY <1>2, <1>3, <1>5, <2>1, <2>2, <2>3 DEF ContentInv
<1>12. ChildInv'
  BY <1>2 DEF ChildInv
<1>13. EachReadsThePrevious'
  BY <1>2 DEF IInv, EachReadsThePrevious
<1> QED BY <1>9, <1>10, <1>11, <1>12, <1>13 DEF IInv

(* evaluate_pipe begins with the three standard streams, whatever the last *)
(* pipeline has left in pipefd.                                            *)
LEMMA EvaluatePipe ==
  ASSUME IInv, evaluate_pipe
  PROVE  IInv'
<1>1. TypeInv /\ TableInv /\ ChildInv /\ c > Len(cmds)
  BY DEF IInv, evaluate_pipe
<1>2. /\ cmds' \in Pipelines /\ c' = 1 /\ pipe_index' = 0 /\ content' = <<>>
      /\ received' = [k \in 1 .. MaxCommands |-> NULL]
      /\ UNCHANGED <<pipefd, fd, child>>
  BY DEF evaluate_pipe
<1>3. Len(cmds) \in Nat /\ Len(cmds') \in 1 .. MaxCommands
  BY <1>1, <1>2, Commands DEF TypeInv
<1>4. child = NULL
  BY <1>1, <1>3 DEF ChildInv, TypeInv
<1>5. ~HasIn /\ ~HasIn' /\ ~HasOut /\ ~HasOut'
  BY <1>1, <1>2, <1>3, <1>4 DEF HasIn, HasOut, TypeInv
<1>6. TypeInv'
  BY <1>1, <1>2, <1>3 DEF TypeInv
<1>7. TableInv'
  BY <1>1, <1>2, <1>5 DEF TableInv, FileAt
<1>8. ContentInv' /\ ChildInv'
  BY <1>2, <1>4, <1>5 DEF ContentInv, ChildInv
<1>9. EachReadsThePrevious'
  BY <1>2, <1>3, PipelineAssumption DEF EachReadsThePrevious
<1> QED BY <1>6, <1>7, <1>8, <1>9 DEF IInv

(* What the child does leaves the shell and its descriptors as they are.   *)
LEMMA ChildMoves ==
  ASSUME IInv, child # NULL, child' \in Children, child'.fd = child.fd, UNCHANGED shell
  PROVE  /\ TableInv'
         /\ (HasIn' <=> HasIn) /\ (HasOut' <=> HasOut)
         /\ child \in Children /\ child' # NULL /\ c \in 1 .. Len(cmds)
         /\ (HasIn <=> c > 1) /\ (HasOut <=> PipeOut(c))
         /\ File(STDIN_FILENO) = IF HasIn THEN End(c - 1, "r") ELSE Tty
         /\ File(STDOUT_FILENO) = IF HasOut THEN End(c, "w") ELSE Tty
<1>1. TypeInv /\ TableInv /\ ChildInv /\ child \in Children /\ child' # NULL
  BY PipelineAssumption DEF IInv, TypeInv
<1>2. (HasIn' <=> HasIn) /\ (HasOut' <=> HasOut) /\ InEnd' = InEnd /\ OutR' = OutR /\ OutW' = OutW
  BY <1>1 DEF shell, HasIn, HasOut, InEnd, OutR, OutW, PipeOut, input_index
<1>3. TableInv'
  BY <1>1, <1>2 DEF shell, TableInv, FileAt
<1>4. /\ c \in 1 .. Len(cmds) /\ (HasIn <=> c > 1) /\ (HasOut <=> PipeOut(c))
      /\ Len(cmds) \in 1 .. MaxCommands
  BY <1>1, Commands DEF TypeInv, ChildInv, HasIn, HasOut
<1>5. c \in 1 .. MaxCommands /\ (HasIn => c - 1 \in 1 .. MaxCommands)
  BY <1>4, PipelineAssumption
<1>6. /\ child.fd[0] = IF HasIn THEN End(c - 1, "r") ELSE Tty
      /\ child.fd[1] = IF HasOut THEN End(c, "w") ELSE Tty
  BY <1>1, <1>4 DEF ChildInv
<1>7. child.fd[0] # NULL /\ child.fd[1] # NULL
  BY <1>5, <1>6, FilesOpen
<1> QED BY <1>1, <1>2, <1>3, <1>4, <1>6, <1>7 DEF File, STDIN_FILENO, STDOUT_FILENO

(* A read takes a byte out of the pipe, or finds its end.                  *)
LEMMA ReadStep ==
  ASSUME IInv, Read
  PROVE  IInv'
<1>1. TypeInv /\ ContentInv /\ ChildInv /\ child # NULL /\ UNCHANGED shell
  BY DEF IInv, Read
<1>2. child \in Children /\ content \in Seq(Nat)
  BY <1>1 DEF TypeInv
<1>3. /\ cmds \in Pipelines /\ Len(cmds) \in 1 .. MaxCommands
      /\ \A k \in 1 .. Len(cmds) : cmds[k].output \in Nat
  BY <1>1, Commands DEF TypeInv
<1> DEFINE from == File(STDIN_FILENO)
<1>4. CASE /\ from.pipe # 0 /\ content[from.pipe] > 0
           /\ content' = [content EXCEPT ![from.pipe] = @ - 1]
           /\ child' = [child EXCEPT !.got = @ + 1]
           /\ UNCHANGED received
  <2>1. /\ child' \in Children /\ child'.fd = child.fd /\ child'.got = child.got + 1
        /\ child'.left = child.left /\ child'.pc = child.pc
        /\ child.got \in Nat /\ child.left \in Nat
    BY <1>2, <1>4 DEF Children
  <2>2. /\ TableInv'
        /\ (HasIn' <=> HasIn) /\ (HasOut' <=> HasOut) /\ child' # NULL /\ c \in 1 .. Len(cmds)
        /\ (HasIn <=> c > 1) /\ (HasOut <=> PipeOut(c))
        /\ from = IF HasIn THEN End(c - 1, "r") ELSE Tty
    BY <1>1, <2>1, ChildMoves
  <2>3. HasIn /\ from.pipe = c - 1
    BY <1>4, <2>2 DEF End, Tty
  <2> HIDE DEF from
  <2>4. Len(content) = (IF HasOut THEN c ELSE c - 1) /\ c - 1 \in 1 .. Len(content)
    BY <1>1, <2>2, <2>3 DEF ContentInv
  <2>5. /\ content' \in Seq(Nat) /\ Len(content') = Len(content)
        /\ content'[c - 1] = content[c - 1] - 1 /\ content[c - 1] \in Nat
        /\ HasOut => content'[c] = content[c]
    BY <1>2, <1>4, <2>2, <2>3, <2>4
  <2>6. TypeInv'
    BY <1>1, <1>4, <2>1, <2>5 DEF TypeInv, shell
  <2>7. ContentInv'
    <3>1. content[c - 1] + child.got = cmds[c - 1].output
      BY <1>1, <2>3 DEF ContentInv
    <3>2. content'[c - 1] + child'.got = cmds[c - 1].output
      BY <2>1, <2>5, <3>1
    <3>3. HasOut => content'[c] + child'.left = cmds[c].output
      BY <1>1, <2>1, <2>5 DEF ContentInv
    <3> QED BY <1>1, <2>2, <2>4, <2>5, <3>2, <3>3 DEF ContentInv, shell
  <2>8. ChildInv'
    BY <1>1, <2>1, <2>2, <2>3 DEF ChildInv, shell, PipeOut
  <2>9. EachReadsThePrevious'
    BY <1>1, <1>4 DEF IInv, EachReadsThePrevious, shell
  <2> QED BY <2>2, <2>6, <2>7, <2>8, <2>9 DEF IInv
<1>5. CASE /\ from.pipe # 0 => content[from.pipe] = 0
           /\ child' = [child EXCEPT !.pc = "writing"]
           /\ received' = [received EXCEPT ![c] = child.got]
           /\ UNCHANGED content
  <2>1. /\ child' \in Children /\ child'.fd = child.fd /\ child'.got = child.got
        /\ child'.left = child.left /\ child'.pc = "writing"
        /\ child.got \in Nat /\ child.left \in Nat
    BY <1>2, <1>5 DEF Children
  <2>2. /\ TableInv'
        /\ (HasIn' <=> HasIn) /\ (HasOut' <=> HasOut) /\ child' # NULL /\ c \in 1 .. Len(cmds)
        /\ (HasIn <=> c > 1) /\ (HasOut <=> PipeOut(c))
        /\ from = IF HasIn THEN End(c - 1, "r") ELSE Tty
    BY <1>1, <2>1, ChildMoves
  <2>3. HasIn => content[c - 1] = 0
    BY <1>5, <2>2 DEF End, Tty
  <2> HIDE DEF from
  <2>4. child.got = IF c = 1 THEN 0 ELSE cmds[c - 1].output
    <3>1. CASE c = 1
      BY <1>1, <3>1 DEF ChildInv
    <3>2. CASE c # 1
      <4>1. HasIn
        BY <2>2, <3>2
      <4>2. content[c - 1] + child.got = cmds[c - 1].output
        BY <1>1, <4>1 DEF ContentInv
      <4>3. 0 + child.got = child.got
        BY <2>1
      <4> QED BY <2>3, <3>2, <4>1, <4>2, <4>3
    <3> QED BY <3>1, <3>2
  <2>5. TypeInv'
    BY <1>1, <1>5, <2>1, Zenon DEF TypeInv, shell
  <2>6. ContentInv'
    BY <1>1, <1>5, <2>1, <2>2 DEF ContentInv, shell
  <2>7. ChildInv'
    BY <1>1, <2>1, <2>2 DEF ChildInv, shell, PipeOut
  <2>8. EachReadsThePrevious'
    <3>1. received \in [1 .. MaxCommands -> Nat \cup {NULL}]
      BY <1>1 DEF TypeInv
    <3>2. \A k \in 1 .. Len(cmds) : received'[k] = IF k = c THEN child.got ELSE received[k]
      <4>1. \A k \in 1 .. Len(cmds) : k \in 1 .. MaxCommands
        BY <1>3, PipelineAssumption
      <4> QED BY <1>5, <3>1, <4>1
    <3> QED BY <1>1, <2>4, <3>2 DEF IInv, EachReadsThePrevious, shell
  <2> QED BY <2>2, <2>5, <2>6, <2>7, <2>8 DEF IInv
<1> QED BY <1>4, <1>5 DEF Read

(* A write puts a byte into the pipe, or the child has written everything. *)
LEMMA WriteStep ==
  ASSUME IInv, Write
  PROVE  IInv'
<1>1. TypeInv /\ ContentInv /\ ChildInv /\ child # NULL /\ UNCHANGED <<shell, received>>
  BY DEF IInv, Write
<1>2. child \in Children /\ content \in Seq(Nat)
  BY <1>1 DEF TypeInv
<1> DEFINE to == File(STDOUT_FILENO)
<1>3. CASE /\ child.left > 0 /\ to.pipe # 0
           /\ content' = [content EXCEPT ![to.pipe] = @ + 1]
           /\ child' = [child EXCEPT !.left = @ - 1]
  <2>1. /\ child' \in Children /\ child'.fd = child.fd /\ child'.got = child.got
        /\ child'.left = child.left - 1 /\ child'.pc = child.pc
        /\ child.got \in Nat /\ child.left \in Nat
    BY <1>2, <1>3 DEF Children
  <2>2. /\ TableInv'
        /\ (HasIn' <=> HasIn) /\ (HasOut' <=> HasOut) /\ child' # NULL /\ c \in 1 .. Len(cmds)
        /\ (HasIn <=> c > 1) /\ (HasOut <=> PipeOut(c))
        /\ to = IF HasOut THEN End(c, "w") ELSE Tty
    BY <1>1, <2>1, ChildMoves
  <2>3. HasOut /\ to.pipe = c
    BY <1>3, <2>2 DEF End, Tty
  <2> HIDE DEF to
  <2>4. Len(content) = c
    BY <1>1, <2>2, <2>3 DEF ContentInv
  <2>5. /\ content' \in Seq(Nat) /\ Len(content') = Len(content)
        /\ content'[c] = content[c] + 1 /\ content[c] \in Nat
        /\ HasIn => content'[c - 1] = content[c - 1]
    BY <1>2, <1>3, <2>2, <2>3, <2>4
  <2>6. TypeInv'
    BY <1>1, <2>1, <2>5 DEF TypeInv, shell
  <2>7. ContentInv'
    <3>1. content[c] + child.left = cmds[c].output
      BY <1>1, <2>3 DEF ContentInv
    <3>2. content'[c] + child'.left = cmds[c].output
      <4>1. \A x, y \in Nat : (x + 1) + (y - 1) = x + y
        OBVIOUS
      <4> QED BY <2>1, <2>5, <3>1, <4>1, Zenon
    <3>3. HasIn => content'[c - 1] + child'.got = cmds[c - 1].output
      BY <1>1, <2>1, <2>5 DEF ContentInv
    <3> QED BY <1>1, <2>2, <2>3, <2>4, <2>5, <3>2, <3>3 DEF ContentInv, shell
  <2>8. ChildInv'
    <3>1. child.pc # "exit"
      BY DEF Write
    <3> QED BY <1>1, <2>1, <2>2, <3>1 DEF ChildInv, shell, PipeOut
  <2>9. EachReadsThePrevious'
    BY <1>1 DEF IInv, EachReadsThePrevious, shell
  <2> QED BY <2>2, <2>6, <2>7, <2>8, <2>9 DEF IInv
<1>4. CASE /\ child.left > 0 => to.pipe = 0
           /\ child' = [child EXCEPT !.pc = "exit"]
           /\ UNCHANGED content
  <2>1. /\ child' \in Children /\ child'.fd = child.fd /\ child'.got = child.got
        /\ child'.left = child.left /\ child'.pc = "exit"
        /\ child.got \in Nat /\ child.left \in Nat
    BY <1>2, <1>4 DEF Children
  <2>2. /\ TableInv'
        /\ (HasIn' <=> HasIn) /\ (HasOut' <=> HasOut) /\ child' # NULL /\ c \in 1 .. Len(cmds)
        /\ (HasIn <=> c > 1) /\ (HasOut <=> PipeOut(c))
        /\ to = IF HasOut THEN End(c, "w") ELSE Tty
    BY <1>1, <2>1, ChildMoves
  <2>3. HasOut => child.left = 0
    BY <1>4, <2>1, <2>2 DEF End, Tty
  <2> HIDE DEF to
  <2>4. TypeInv'
    BY <1>1, <1>4, <2>1 DEF TypeInv, shell
  <2>5. ContentInv'
    BY <1>1, <1>4, <2>1, <2>2 DEF ContentInv, shell
  <2>6. ChildInv'
    BY <1>1, <2>1, <2>2, <2>3 DEF ChildInv, shell, PipeOut
  <2>7. EachReadsThePrevious'
    BY <1>1 DEF IInv, EachReadsThePrevious, shell
  <2> QED BY <2>2, <2>4, <2>5, <2>6, <2>7 DEF IInv
<1> QED BY <1>3, <1>4 DEF Write

-----------------------------------------------------------------------------
(* The theorems.                                                           *)

(* The invariant holds when the shell begins.                              *)
LEMMA InitIInv ==
  ASSUME Init
  PROVE  IInv
<1>1. /\ cmds \in Pipelines /\ c = 1 /\ pipe_index = 0 /\ fd = Standard
      /\ pipefd = [index \in 0 .. 1 |-> [e \in 0 .. 1 |-> 0]]
      /\ child = NULL /\ content = <<>> /\ received = [k \in 1 .. MaxCommands |-> NULL]
  BY DEF Init
<1>2. Len(cmds) \in 1 .. MaxCommands
  BY <1>1, Commands
<1>3. ~HasIn /\ ~HasOut
  BY <1>1 DEF HasIn, HasOut
<1>4. fd \in Tables /\ \A f \in Descriptors : fd[f] = IF f \in 0 .. 2 THEN Tty ELSE NULL
  BY <1>1, FilesOpen DEF Standard, Tables
<1>5. TypeInv
  BY <1>1, <1>2, <1>4, FirstDescriptors DEF TypeInv
<1>6. TableInv /\ ContentInv /\ ChildInv
  BY <1>1, <1>3, <1>4 DEF TableInv, FileAt, ContentInv, ChildInv
<1>7. EachReadsThePrevious
  BY <1>1, <1>2, PipelineAssumption DEF EachReadsThePrevious
<1> QED BY <1>5, <1>6, <1>7 DEF IInv

(* Every step of the shell and of its child keeps it.                      *)
LEMMA StepIInv ==
  ASSUME BuiltinsAlone, IInv, [Next]_vars
  PROVE  IInv'
<1>1. CASE UNCHANGED vars
  BY <1>1 DEF vars, shell, IInv, TypeInv, TableInv, ContentInv, ChildInv, EachReadsThePrevious,
              HasIn, HasOut, InEnd, OutR, OutW, FileAt, PipeOut, input_index
<1> QED BY <1>1, EvaluateCommand, WaitPid, EvaluatePipe, ReadStep, WriteStep DEF Next, Step

(* For any pipelines in which a builtin that runs in the shell is alone,   *)
(* and any capacity of a pipe: at each point of evaluate_pipe the shell    *)
(* has open what FileAt says, and the pipes hold the bytes that are        *)
(* written and not read.                                                   *)
THEOREM Invariance == BuiltinsAlone => (Spec => []IInv)
<1> SUFFICES ASSUME BuiltinsAlone PROVE Spec => []IInv
  OBVIOUS
<1>1. Init => IInv
  BY InitIInv
<1>2. IInv /\ [Next]_vars => IInv'
  BY StepIInv
<1> QED BY <1>1, <1>2, PTL DEF Spec

(* Every command that reads gets exactly the bytes that the command before *)
(* it has written, although pipefd has entries for two pipes only.         *)
THEOREM ReadsThePrevious == BuiltinsAlone => (Spec => []EachReadsThePrevious)
<1> SUFFICES ASSUME BuiltinsAlone PROVE Spec => []EachReadsThePrevious
  OBVIOUS
<1>1. IInv => EachReadsThePrevious
  BY DEF IInv
<1> QED BY <1>1, Invariance, PTL

(* evaluate_command has closed every descriptor it opened when a pipeline  *)
(* has been evaluated, and none of the standard streams.                   *)
THEOREM NothingLeaks == BuiltinsAlone => (Spec => []OnlyStandardStreams)
<1> SUFFICES ASSUME BuiltinsAlone PROVE Spec => []OnlyStandardStreams
  OBVIOUS
<1>1. IInv => OnlyStandardStreams
  <2> SUFFICES ASSUME IInv, c > Len(cmds) PROVE fd = Standard
    BY DEF OnlyStandardStreams
  <2>1. TypeInv /\ TableInv /\ ChildInv /\ Len(cmds) \in Nat
    BY Commands DEF IInv, TypeInv
  <2>2. ~HasIn /\ ~HasOut
    BY <2>1 DEF HasIn, HasOut, ChildInv, TypeInv
  <2>3. \A f \in Descriptors : fd[f] = IF f \in 0 .. 2 THEN Tty ELSE NULL
    BY <2>1, <2>2 DEF TableInv, FileAt
  <2> QED BY <2>1, <2>3 DEF TypeInv, Tables, Standard
<1> QED BY <1>1, Invariance, PTL
=============================================================================

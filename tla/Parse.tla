------------------------------- MODULE Parse --------------------------------
(***************************************************************************)
(* The parser of the hw2 shell (parse.c: mkCmd, mkPipe, parse) on streams  *)
(* of tokens, and the two loops that call it (main.c: process_rc, main).   *)
(* A word stands for its position in the stream.  Tout stands for all four *)
(* output redirections, which the parser does not tell apart.              *)
(***************************************************************************)
EXTENDS Integers, FiniteSets, FiniteSetsExt, SequencesExt

CONSTANTS
  MaxTokens,   \* bound on the tokens of the input
  InputTokens  \* the tokens of which the input is made

Tokens == {"Tword", "Tin", "Tout", "Tpipe", "TpipeErr", "Tsemi", "Tamp", "Tnl", "Terror"}

VARIABLES
  input,    \* the tokens nextToken is going to return, then Tend for ever
  pos,      \* how many of them it has returned; the last is LookAhead
  source,   \* "rc" in process_rc, "stdin" in main, "done"
  parsed    \* what each call of parse returned: a sequence of pipelines

vars == <<input, pos, source, parsed>>

Init ==
  /\ input \in UNION {[1 .. n -> InputTokens] : n \in 0 .. MaxTokens}
  /\ pos = 0 /\ parsed = <<>>
  /\ source \in {"rc", "stdin"}

-----------------------------------------------------------------------------
(* LookAhead when p tokens have been read, and the classes of tokens.      *)
LA(p) == IF p <= Len(input) THEN input[p] ELSE "Tend"

InCmd(t)      == t \in {"Tword", "Tin", "Tout"}
PipeToken(t)  == t \in {"Tpipe", "TpipeErr"}
CmdToken      == {"Tsemi", "Tamp"}
EndOfInput    == {"Tend", "Tnl", "Terror"}

(* Where a loop of Next(), started at p, meets one of the tokens in stop.  *)
NextUntil(p, stop) == Min({q \in p .. Max({p, Len(input) + 1}) : LA(q) \in stop})

NoCmd == [args |-> <<>>]
Empty == [args |-> <<"empty">>]
End   == [args |-> <<"end">>]

newCmd_AfterNext(p, inpipe) ==
  [args |-> <<p + 1>>, maxargs |-> 4, in |-> inpipe, out |-> "Tnil",
   infile |-> 0, outfile |-> 0, exec |-> "Tsemi"]

newCmd(p, inpipe) ==
  [args |-> <<p>>, maxargs |-> 4, in |-> inpipe, out |-> "Tnil",
   infile |-> 0, outfile |-> 0, exec |-> "Tsemi"]

(* The size of args with room for one more and the NULL behind it.         *)
grown(c) == IF Len(c.args) + 2 > c.maxargs THEN 2 * c.maxargs ELSE c.maxargs

Made(c, p) == [cmd |-> c, pos |-> p]

Failed_Stays(p) == Made(NoCmd, p)

(* The two errors of a redirection: a second one, and a missing file name. *)
(* Both skip with "do Next() while", hence by one token at least.          *)
Failed(p) == Made(NoCmd, NextUntil(p + 1, EndOfInput))

Redirects(p) == LA(p) \in {"Tin", "Tout"}

redirect(c, p) ==
  IF LA(p) = "Tin" THEN [c EXCEPT !.in = "Tin", !.infile = p + 1]
                   ELSE [c EXCEPT !.out = "Tout", !.outfile = p + 1]

Ambiguous(c, p) == (IF LA(p) = "Tin" THEN c.in ELSE c.out) # "Tnil"

ending_Kept(c, p) == Made(c, p)

(* mkCmd behind its loop: the token that ends the command is skipped.      *)
ending(c, p) ==
  CASE LA(p) = "Terror" -> Made(NoCmd, p)
    [] LA(p) = "Tsemi"  -> Made(c, p + 1)
    [] LA(p) = "Tamp"   -> Made([c EXCEPT !.exec = "Tamp"], p + 1)
    [] OTHER            -> Made(c, p)

(* The loop of mkCmd over the words and redirections of command c.         *)
RECURSIVE InCommand(_, _)
InCommand(c, p) ==
  CASE ~InCmd(LA(p)) -> ending(c, p)
    [] LA(p) = "Tword" ->
         InCommand([c EXCEPT !.maxargs = grown(c), !.args = Append(@, p)], p + 1)
    [] Redirects(p) /\ Ambiguous(c, p) -> Failed(p)
    [] Redirects(p) /\ ~Ambiguous(c, p) /\ LA(p + 1) # "Tword" -> Failed(p + 1)
    [] OTHER -> InCommand(redirect(c, p), p + 2)

mkCmd(inpipe, from) ==
  LET p == NextUntil(from, (Tokens \cup {"Tend"}) \ CmdToken)
  IN  CASE LA(p) = "Tword"              -> InCommand(newCmd(p, inpipe), p + 1)
        [] LA(p) = "Tend"               -> Made(End, p)
        [] LA(p) \in {"Tnl", "Terror"}  -> Made(Empty, p)
        [] OTHER                        -> Made(NoCmd, p)

(* A pipe list and the position behind it; <<>> is the NULL Pipe.          *)
Pipe(pipes, p) == [pipes |-> pipes, pos |-> p]

RECURSIVE mkPipe(_), Connect(_, _), Rest(_, _)

(* The loop of mkPipe over the commands behind a | or |&; p is the         *)
(* position at the end of the last of cmds.                                *)
Connect(cmds, p) ==
  CASE ~PipeToken(LA(p)) ->
         LET rest == Rest(<<>>, p) IN Pipe(<<cmds>> \o rest.pipes, rest.pos)
    [] PipeToken(LA(p)) /\ Last(cmds).out # "Tnil" ->
         Pipe(<<>>, NextUntil(p + 1, EndOfInput))
    [] OTHER ->
         LET next == mkCmd(LA(p), p + 1)
             left == [Last(cmds) EXCEPT !.out = LA(p)]
         IN  IF next.cmd \in {NoCmd, Empty}
             THEN Pipe(<<>>, NextUntil(next.pos, EndOfInput))
             ELSE Connect(Append(Front(cmds), left) \o <<next.cmd>>, next.pos)

(* The loop of mkPipe over the next pipes of the line: each turn assigns   *)
(* p->next anew.                                                           *)
Rest(next, p) ==
  IF LA(p) \in EndOfInput THEN Pipe(next, p)
  ELSE LET r == mkPipe(p)
       IN  IF r.pipes = <<>> THEN r ELSE Rest(r.pipes, r.pos)

mkPipe(p) ==
  LET first == mkCmd("Tnil", p)
  IN  IF first.cmd \in {NoCmd, Empty} THEN Pipe(<<>>, first.pos)
      ELSE Connect(<<first.cmd>>, first.pos)

parse == mkPipe(pos + 1)

-----------------------------------------------------------------------------
(* Evaluating the End command, wherever it stands, exits from the shell.   *)
Ends(pipes) == \E k \in DOMAIN pipes : Last(pipes[k]) = End

Call ==
  \E r \in {parse} :
    /\ parsed' = Append(parsed, r.pipes)
    /\ pos' = r.pos

(* One turn of the loop of main.                                           *)
main ==
  /\ source = "stdin"
  /\ Call
  /\ source' = IF Ends(Last(parsed')) THEN "done" ELSE "stdin"
  /\ UNCHANGED input

(* One turn of the loop of process_rc, which leaves it at a NULL Pipe.     *)
process_rc ==
  /\ source = "rc"
  /\ Call
  /\ source' = IF Last(parsed') = <<>> \/ Ends(Last(parsed')) THEN "done" ELSE "rc"
  /\ UNCHANGED input

Next == main \/ process_rc \/ (source = "done" /\ UNCHANGED vars)

Spec == Init /\ [][Next]_vars

-----------------------------------------------------------------------------
(* The grammar of the manual page, stated without reference to how the     *)
(* parser works: a line is cut at ; and &, each part at | and |&, and a    *)
(* simple command is what lies between two cuts, an interval <<a, b>> of   *)
(* positions.                                                              *)

Between(a, b, seps) ==
  LET cuts == SetToSortSeq({a - 1, b + 1} \cup {i \in a .. b : input[i] \in seps}, <)
  IN  [k \in 1 .. Len(cuts) - 1 |-> <<cuts[k] + 1, cuts[k+1] - 1>>]

(* The lines: a Terror stands for the rest of its line.                    *)
Lines == Between(1, Len(input), {"Tnl", "Terror"})

IsPart(i)     == i[1] <= i[2]
Parts(line)   == SelectSeq(Between(line[1], line[2], {"Tsemi", "Tamp"}), IsPart)
Simple(part)  == Between(part[1], part[2], {"Tpipe", "TpipeErr"})

In(cmd, t)    == {i \in cmd[1] .. cmd[2] : input[i] = t}
FileName(cmd, t) == {i + 1 : i \in In(cmd, t)}

WellFormed(cmd, first, last) ==
  /\ cmd[1] \in In(cmd, "Tword")
  /\ FileName(cmd, "Tin") \cup FileName(cmd, "Tout") \subseteq In(cmd, "Tword")
  /\ Cardinality(In(cmd, "Tin")) <= IF first THEN 1 ELSE 0
  /\ Cardinality(In(cmd, "Tout")) <= IF last THEN 1 ELSE 0

Valid(line) ==
  /\ LA(line[2] + 1) # "Terror"
  /\ \A i \in Range(Parts(line)) :
       LET cmds == Simple(i)
       IN  \A k \in DOMAIN cmds : WellFormed(cmds[k], k = 1, k = Len(cmds))

(* What the grammar says of a simple command.                              *)
Meaning(cmd, part) ==
  [args    |-> LET files == FileName(cmd, "Tin") \cup FileName(cmd, "Tout")
               IN  SetToSortSeq(In(cmd, "Tword") \ files, <),
   in      |-> IF cmd[1] # part[1] THEN input[cmd[1] - 1]
               ELSE IF In(cmd, "Tin") # {} THEN "Tin" ELSE "Tnil",
   out     |-> IF cmd[2] # part[2] THEN input[cmd[2] + 1]
               ELSE IF In(cmd, "Tout") # {} THEN "Tout" ELSE "Tnil",
   infile  |-> Max({0} \cup FileName(cmd, "Tin")),
   outfile |-> Max({0} \cup FileName(cmd, "Tout")),
   exec    |-> IF cmd[2] = part[2] /\ LA(cmd[2] + 1) = "Tamp" THEN "Tamp" ELSE "Tsemi"]

Stripped(cmd) == [f \in DOMAIN cmd \ {"maxargs"} |-> cmd[f]]

Same(pipes, line) ==
  /\ Len(pipes) = Len(Parts(line))
  /\ \A k \in DOMAIN pipes :
       LET part == Parts(line)[k] IN
         [j \in DOMAIN pipes[k] |-> Stripped(pipes[k][j])]
           = [j \in DOMAIN Simple(part) |-> Meaning(Simple(part)[j], part)]

-----------------------------------------------------------------------------
(* The k-th call returns the meaning of the k-th line when this line and   *)
(* those before it are well formed and all are complete.                   *)
ValidLinesParsed ==
  LET lines == Lines
  IN  \A k \in 1 .. Min({Len(parsed), Len(lines) - 1}) :
        (\A j \in 1 .. k : Valid(lines[j])) => Same(parsed[k], lines[k])

(* Whatever the input, errors included, no word becomes an argument twice, *)
(* the commands are run in the order of the input, and every argument list *)
(* fits the array it is in, with the NULL behind it (parse.c:162-167).     *)
WordsOnceInOrder ==
  LET pipes == FlattenSeq(parsed)
      cmds  == SelectSeq(FlattenSeq(pipes), LAMBDA cmd : cmd # End)
      args  == FlattenSeq([i \in DOMAIN cmds |-> cmds[i].args])
  IN  /\ \A i \in 1 .. Len(args) - 1 : args[i] < args[i+1]
      /\ \A i \in DOMAIN cmds : Len(cmds[i].args) + 1 <= cmds[i].maxargs

(* Lines without the two errors that the parser does not recover from: a   *)
(* part that does not begin with a word, behind which parse returns in the *)
(* middle of the line (parse.c:88-93), and a redirection at the end of the *)
(* line, with which the next line is skipped too (parse.c:118-120).        *)
Recoverable(line) ==
  /\ \A i \in Range(Parts(line)) : input[i[1]] = "Tword"
  /\ line[2] >= line[1] => input[line[2]] \notin {"Tin", "Tout"}

(* Up to the first such line each call of parse reads exactly one line,    *)
(* whatever other errors there are in it.                                  *)
LinesKeptApart ==
  LET lines == Lines
      k     == Len(parsed)
  IN  k \in 1 .. Len(lines) - 1 /\ (\A j \in 1 .. k : Recoverable(lines[j]))
        => pos = lines[k][2] + 1
=============================================================================

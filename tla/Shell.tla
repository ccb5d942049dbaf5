-------------------------------- MODULE Shell --------------------------------
(***************************************************************************)
(* The two halves of the hw2 shell side by side for TLC: a behaviour is    *)
(* one of the parser (Parse) or of the evaluation of pipelines (Pipeline). *)
(***************************************************************************)
EXTENDS MCPipeline

CONSTANTS MaxTokens, InputTokens

VARIABLES part, input, pos, source, parsed

Parser == INSTANCE Parse

ASSUME ShellAssumption == MaxTokens \in Nat /\ InputTokens \subseteq Parser!Tokens

parserVars == <<input, pos, source, parsed>>
all == <<part, vars, parserVars>>

NoPipeline ==
  /\ running = FALSE /\ cmds = <<>> /\ pipelines = 0 /\ c = 1 /\ pipe_index = 0
  /\ pipefd = NULL /\ fd = NULL /\ child = NULL /\ content = <<>> /\ received = <<>>

NoParser == input = <<>> /\ pos = 0 /\ source = "done" /\ parsed = <<>>

ShellInit ==
  \/ part = "pipeline" /\ Init /\ NoParser
  \/ part = "parser" /\ Parser!Init /\ NoPipeline

ShellNext ==
  /\ UNCHANGED part
  /\ \/ part = "pipeline" /\ Next /\ UNCHANGED parserVars
     \/ part = "parser" /\ Parser!Next /\ UNCHANGED vars

(* The operating system runs the shell and its child whenever they can.    *)
ShellSpec == ShellInit /\ [][ShellNext]_all /\ WF_all(part = "pipeline" /\ Step /\ UNCHANGED <<part, parserVars>>)

-----------------------------------------------------------------------------
(* parse: the k-th call returns the meaning of the k-th line when the      *)
(* lines so far are well formed.                                           *)
ValidLinesParsed == Parser!ValidLinesParsed

(* parse: whatever the input, errors included, no word becomes an argument *)
(* twice, the commands stay in order and no argument list outgrows its     *)
(* array.                                                                  *)
WordsOnceInOrder == Parser!WordsOnceInOrder

(* parse: up to a line with an error that it does not recover from, each   *)
(* call reads exactly one line.                                            *)
LinesKeptApart == Parser!LinesKeptApart
=============================================================================

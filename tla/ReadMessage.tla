----------------------------- MODULE ReadMessage ----------------------------
(***************************************************************************)
(* read_message of hw3/utils.c: it collects what a sender wrote to a TCP   *)
(* connection, line by line, until the sender closes it.  recv returns the *)
(* bytes in pieces whose boundaries the sender does not choose.            *)
(***************************************************************************)
EXTENDS Integers, Sequences, SequencesExt

CONSTANTS
  Chars,      \* what a line is made of
  NL,         \* the newline
  Close,      \* a character that stands for the line "close" when alone on one
  MaxSent,    \* bound on the length of what is sent
  MaxRecv     \* the most one recv returns (the code: MAX_RECV_SIZE - 1)

VARIABLES
  sent,      \* what the sender writes before it closes the connection
  received,  \* how much of it recv has returned
  message,   \* the lines in the buffer of the caller
  done       \* read_message has returned

vars == <<sent, received, message, done>>

Init ==
  /\ sent \in UNION {[1 .. n -> Chars \cup {NL}] : n \in 0 .. MaxSent}
  /\ received = 0 /\ message = <<>> /\ done = FALSE

(* The lines strtok finds in s: it takes no notice of empty ones.          *)
Tokens(s) ==
  LET pushed(acc)  == IF acc.line = <<>> THEN acc.lines ELSE Append(acc.lines, acc.line)
      step(acc, c) == IF c = NL THEN [lines |-> pushed(acc), line |-> <<>>]
                      ELSE [acc EXCEPT !.line = Append(@, c)]
  IN  pushed(FoldLeft(step, [lines |-> <<>>, line |-> <<>>], s))

IsClose(line) == line = <<Close>>

(* The n bytes that the next recv returns.                                 *)
Piece(n) == SubSeq(sent, received + 1, received + n)

Added_Joined(old, new) ==
  IF old = <<>> \/ new = <<>> THEN old \o new
  ELSE Front(old) \o <<Last(old) \o Head(new)>> \o Tail(new)

(* The buffer, old, with the lines new printed behind it.                  *)
Added(old, new) == old \o new

(* One pass of the loop: the lines of a piece are appended, up to a line   *)
(* "close".                                                                *)
Recv(n) ==
  LET lines == Tokens(Piece(n))
      k     == SelectInSeq(lines, IsClose)
  IN
  /\ ~done /\ received + n <= Len(sent)
  /\ received' = received + n
  /\ \/ k = 0 /\ message' = Added(message, lines) /\ UNCHANGED done
     \/ k # 0 /\ message' = Added(message, SubSeq(lines, 1, k - 1)) /\ done' = TRUE
  /\ UNCHANGED sent

(* recv returns 0: the sender has closed the connection.                   *)
Closed ==
  /\ ~done /\ received = Len(sent)
  /\ done' = TRUE
  /\ UNCHANGED <<sent, received, message>>

Next ==
  \/ \E n \in 1 .. MaxRecv : Recv(n)
  \/ Closed
  \/ done /\ UNCHANGED vars

Spec == Init /\ [][Next]_vars

-----------------------------------------------------------------------------
Text(s) == SelectSeq(s, LAMBDA c : c # NL)

(* No byte is lost, repeated or moved, whatever the pieces: the buffer     *)
(* holds what has been received, or a beginning of it after a "close".     *)
(* And two commands are never run together: no line of the buffer has in   *)
(* it the end of a line that was sent.                                     *)
LinesKept ==
  LET ends  == {Len(Text(SubSeq(sent, 1, k))) : k \in {j \in DOMAIN sent : sent[j] = NL}}
      upto(k) == Len(FlattenSeq(SubSeq(message, 1, k)))
  IN  /\ IsPrefix(FlattenSeq(message), Text(SubSeq(sent, 1, received)))
      /\ ~done => FlattenSeq(message) = Text(SubSeq(sent, 1, received))
      /\ \A k \in DOMAIN message : \A e \in ends : ~(upto(k - 1) < e /\ e < upto(k))
=============================================================================

------------------------------- MODULE Queues -------------------------------
(***************************************************************************)
(* A queue is a sequence.  These two operators are those of SequencesExt;  *)
(* they stand by themselves because a proof carries every definition its   *)
(* module extends into each of its obligations, and that module brings     *)
(* Bags and TLC with it.                                                   *)
(***************************************************************************)
EXTENDS Integers, Sequences, Functions

Contains(q, e) == \E i \in DOMAIN q : q[i] = e

(* q without the first e there is in it, if any.                           *)
RemoveFirst(q, e) ==
  LET k == CHOOSE i \in DOMAIN q : q[i] = e /\ \A j \in 1 .. i - 1 : q[j] # e
  IN  IF Contains(q, e) THEN SubSeq(q, 1, k - 1) \o SubSeq(q, k + 1, Len(q)) ELSE q

=============================================================================

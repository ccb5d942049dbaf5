----------------------------- MODULE FileSystem -----------------------------
(***************************************************************************)
(* What a file system of bounded capacity promises to its clients: a tree  *)
(* of directories and files, of which a write changes the bytes it names   *)
(* and nothing else, and an operation that is refused changes nothing.     *)
(***************************************************************************)
EXTENDS Integers, Sequences, SequencesExt, FiniteSetsExt, TLC

CONSTANTS
  Paths,            \* the paths clients use, sequences of names
  Buffers,          \* what they write
  Offsets,          \* and where
  Capacity,         \* bytes
  DirectoryBytes    \* what a directory takes

VARIABLES
  tree,     \* the files there are, by their paths
  result    \* the last operation, its path and what it returned; for a write
            \* that succeeds, also what was written and where

vars == <<tree, result>>

Directory  == [type |-> "DIRECTORY", data |-> <<>>]
Regular(d) == [type |-> "REGULAR", data |-> d]

(* The operators below are about a tree t, the one an operation finds.     *)
Is(t, p, type) == p \in DOMAIN t /\ t[p].type = type
HasFiles(t, p) == \E q \in DOMAIN t \ {<<>>} : Front(q) = p

BytesOf(f) == IF f = Directory THEN DirectoryBytes ELSE Len(f.data)
Fits(t, n) == MapThenSumSet(LAMBDA p : BytesOf(t[p]), DOMAIN t \ {<<>>}) + n <= Capacity

Result(op, p, code, o, b) ==
  [op |-> op, path |-> p, code |-> code, offset |-> o, buffer |-> b]
Returns(op, p, code) == result' = Result(op, p, code, 0, <<>>)

Init == tree = (<<>> :> Directory) /\ result = Result("mount", <<>>, "OK", 0, <<>>)

Add(t, op, p, f) ==
  /\ Returns(op, p, "OK")
  /\ p \notin DOMAIN t /\ Is(t, Front(p), "DIRECTORY") /\ Fits(t, BytesOf(f))
  /\ tree' = t @@ (p :> f)

Delete(t, op, p, type) ==
  /\ Returns(op, p, "OK")
  /\ Is(t, p, type) /\ ~HasFiles(t, p)
  /\ tree' = [q \in DOMAIN t \ {p} |-> t[q]]

(* d with the bytes b from offset o on.                                    *)
Overwritten(d, o, b) ==
  [k \in 1 .. Max({Len(d), o + Len(b)}) |->
     IF k \in o + 1 .. o + Len(b) THEN b[k - o] ELSE d[k]]

Write(t, p, o, b) ==
  /\ result' = Result("write", p, "OK", o, b)
  /\ Is(t, p, "REGULAR")
  /\ LET d == t[p].data IN
       /\ o <= Len(d) /\ (o + Len(b) > Len(d) => Fits(t, o + Len(b) - Len(d)))
       /\ tree' = [t EXCEPT ![p] = Regular(Overwritten(d, o, b))]

(* ENOSPC is an answer only where the bytes asked for do not fit.          *)
NoSpace(t, p) ==
  /\ \/ Returns("mkdir", p, "ENOSPC") /\ ~Fits(t, DirectoryBytes)
     \/ /\ Returns("write", p, "ENOSPC") /\ Is(t, p, "REGULAR")
        /\ \E b \in Buffers : ~Fits(t, Len(b))
  /\ tree' = t

Refuse(t, p) ==
  /\ \/ Returns("mkdir", p, "EEXIST") /\ p \in DOMAIN t
     \/ /\ Returns("write", p, "EFBIG") /\ Is(t, p, "REGULAR")
        /\ \E o \in Offsets : o > Len(t[p].data)
     \/ Returns("unlink", p, "EPERM") /\ p \notin DOMAIN t
     \/ Returns("rmdir", p, "ENOENT") /\ p \notin DOMAIN t
     \/ Returns("rmdir", p, "ENOTDIR") /\ Is(t, p, "REGULAR")
     \/ Returns("rmdir", p, "ENOTEMPTY") /\ HasFiles(t, p)
  /\ tree' = t

Next == \E t \in {tree}, p \in Paths :
  \/ Add(t, "create", p, Regular(<<>>)) \/ Add(t, "mkdir", p, Directory)
  \/ Delete(t, "unlink", p, "REGULAR") \/ Delete(t, "rmdir", p, "DIRECTORY")
  \/ \E o \in Offsets, b \in Buffers : Write(t, p, o, b)
  \/ NoSpace(t, p) \/ Refuse(t, p)

Spec == Init /\ [][Next]_vars
=============================================================================

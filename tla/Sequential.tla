----------------------------- MODULE Sequential ------------------------------
(***************************************************************************)
(* The parts of the system that run by themselves, side by side for TLC: a *)
(* behaviour is one of the queue of hw1, of read_message of hw3, or of the *)
(* lock lists, the buffer copies and the runs (FuseRuns) of libfuse.  The  *)
(* variables v1 to v9 are those of the part that SeqInit chose.            *)
(***************************************************************************)
EXTENDS FuseRuns, FusePrograms

CONSTANTS
  Nodes, Threads, NULL,
  Chars, NL, Close, MaxSent, MaxRecv,
  Owners, OFFSET_MAX,
  SrcSizes, DstSizes, MaxCount, TmpSize

ASSUME SequentialAssumption ==
  /\ NULL \notin Nodes \cup Threads /\ IsFiniteSet(Nodes)
  /\ NL \notin Chars /\ Close \in Chars /\ MaxSent \in Nat /\ MaxRecv \in Nat \ {0}
  /\ OFFSET_MAX \in Nat
  /\ SrcSizes \cup DstSizes \subseteq Nat /\ {MaxCount, TmpSize} \subseteq Nat \ {0}

VARIABLES part, v1, v2, v3, v4, v5, v6, v7, v8, v9

from3 == <<v3, v4, v5, v6, v7, v8, v9>>
from5 == <<v5, v6, v7, v8, v9>>
from7 == <<v7, v8, v9>>
all   == <<part, vars, v1, v2, from3>>

Queue == INSTANCE QueueList WITH
  head <- v1, tail <- v2, thread <- v3, next <- v4, allocated <- v5, call <- v6

Reader == INSTANCE ReadMessage WITH sent <- v1, received <- v2, message <- v3, done <- v4

Locks == INSTANCE FuseLocks WITH locks <- v1, held <- v2

Buf == INSTANCE FuseBuf WITH
  src <- v1, dst <- v2, splice <- v3, pc <- v4, one <- v5, tmp <- v6, copied <- v7, taken <- v8, dest <- v9

No1 == v1 = NULL /\ v2 = NULL
No3 == v3 = NULL /\ v4 = NULL
No5 == v5 = NULL /\ v6 = NULL
No7 == v7 = NULL /\ v8 = NULL /\ v9 = NULL
NoRun == kind = "none" /\ op = "none" /\ todo = <<>> /\ done = EmptyBag

SeqInit ==
  \/ part = "runs"   /\ Init /\ No1 /\ No3 /\ No5 /\ No7
  \/ part = "queue"  /\ Queue!Init /\ No7 /\ NoRun
  \/ part = "reader" /\ Reader!Init /\ No5 /\ No7 /\ NoRun
  \/ part = "locks"  /\ Locks!Init /\ No3 /\ No5 /\ No7 /\ NoRun
  \/ part = "buf"    /\ Buf!Init /\ NoRun

SeqNext ==
  /\ UNCHANGED part
  /\ \/ part = "runs"   /\ Next /\ UNCHANGED <<v1, v2, from3>>
     \/ part = "queue"  /\ Queue!Next /\ UNCHANGED <<vars, from7>>
     \/ part = "reader" /\ Reader!Next /\ UNCHANGED <<vars, from5>>
     \/ part = "locks"  /\ Locks!Next /\ UNCHANGED <<vars, from3>>
     \/ part = "buf"    /\ Buf!Next /\ UNCHANGED vars

SeqSpec == SeqInit /\ [][SeqNext]_all

-----------------------------------------------------------------------------
(* queue.h: read from head to tail, the linked list is a first-in,         *)
(* first-out queue (Fifo); every call has its effect, and none is lost     *)
(* behind a stale tail pointer.  The list stays well formed.               *)
ImplementsFifo ==
  /\ part = "queue" => Queue!AsFifo!Init
  /\ [][part = "queue" => Queue!ListShape' /\ (Queue!AsFifo!Next \/ UNCHANGED Queue!AsFifo!vars)]_all

(* read_message: no byte is lost, repeated or moved, and no two lines run  *)
(* together, whatever the pieces in which recv returns them.               *)
LinesKept == part = "reader" => Reader!LinesKept

(* locks_insert: whatever locks were set, widened, cut and split, the list *)
(* agrees with a lock per byte, and so do the conflicts found in it.       *)
LocksPerByte == part = "locks" => Locks!LocksPerByte

(* fuse_buf_copy: the bytes it reports are the bytes it copied, and a      *)
(* source that is used up leaves nothing in its pipe.                      *)
CopiedInOrder == part = "buf" => Buf!CopiedInOrder
=============================================================================

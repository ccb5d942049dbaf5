--------------------------- MODULE RamdiskThreads ---------------------------
(***************************************************************************)
(* The accounting of ramdisk.c when FUSE calls handlers from several       *)
(* threads, as fuse_main does without -s.  The kernel lets one thread at a *)
(* time write to a file, so each thread has a file of its own; nothing     *)
(* guards current_bytes.                                                   *)
(***************************************************************************)
EXTENDS Integers, FiniteSetsExt

CONSTANTS
  Threads,
  MaxWrite,     \* bound on the bytes by which one write extends a file
  max_bytes

VARIABLES
  current_bytes,
  size,      \* size[t]: of the file that t works on
  pc,        \* where t is in its handler, "idle" between handlers
  bytes,     \* what t is about to add to current_bytes
  loaded     \* what t has read of it: += is a load and a store

vars == <<current_bytes, size, pc, bytes, loaded>>

Init ==
  /\ current_bytes = 0
  /\ size = [t \in Threads |-> 0] /\ pc = [t \in Threads |-> "idle"]
  /\ bytes = [t \in Threads |-> 0] /\ loaded = [t \in Threads |-> 0]

At(t, from, to) == pc[t] = from /\ pc' = [pc EXCEPT ![t] = to]

memory_available(n) == current_bytes + n <= max_bytes

(* rd_write up to the check; without the memory it returns -ENOSPC.        *)
rd_write(t, n) ==
  /\ memory_available(n)
  /\ At(t, "idle", "load")
  /\ bytes' = [bytes EXCEPT ![t] = n]
  /\ UNCHANGED <<current_bytes, size, loaded>>

rd_unlink(t) ==
  /\ size[t] > 0
  /\ At(t, "idle", "load")
  /\ bytes' = [bytes EXCEPT ![t] = -size[t]]
  /\ UNCHANGED <<current_bytes, size, loaded>>

Load(t) ==
  /\ At(t, "load", "store")
  /\ loaded' = [loaded EXCEPT ![t] = current_bytes]
  /\ UNCHANGED <<current_bytes, size, bytes>>

Store(t) ==
  /\ At(t, "store", "resize")
  /\ current_bytes' = loaded[t] + bytes[t]
  /\ UNCHANGED <<size, bytes, loaded>>

(* The file gets its new size, or goes.                                    *)
Resize(t) ==
  /\ At(t, "resize", "idle")
  /\ size' = [size EXCEPT ![t] = @ + bytes[t]]
  /\ UNCHANGED <<current_bytes, bytes, loaded>>

Next == \E t \in Threads :
  \/ \E n \in 1 .. MaxWrite : rd_write(t, n)
  \/ rd_unlink(t) \/ Load(t) \/ Store(t) \/ Resize(t)

Spec == Init /\ [][Next]_vars

-----------------------------------------------------------------------------
(* README:16 of hw4, "ramdisk <mount_point> <size>": the size is what the  *)
(* files may take together.                                                *)
WithinCapacity == MapThenSumSet(LAMBDA t : size[t], Threads) <= max_bytes
=============================================================================

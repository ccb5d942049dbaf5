------------------------------ MODULE FuseLocks ------------------------------
(***************************************************************************)
(* The byte-range locks that libfuse remembers for one node (fuse.c,       *)
(* node->locks): a list that fuse_lib_setlk and flush change after the     *)
(* file system has granted a lock, and that fuse_lib_getlk looks through   *)
(* before it asks the file system.                                         *)
(***************************************************************************)
EXTENDS Integers, Sequences, SequencesExt

CONSTANTS
  Owners,
  OFFSET_MAX     \* the last byte a lock can cover

VARIABLES
  locks,         \* node->locks
  held           \* held[o][b]: the lock of owner o on byte b that was recorded last

vars == <<locks, held>>

Bytes == 0 .. OFFSET_MAX
Types == {"F_RDLCK", "F_WRLCK", "F_UNLCK"}

Init == locks = <<>> /\ held = [o \in Owners |-> [b \in Bytes |-> "F_UNLCK"]]

(* A length of 0 stands for everything up to the end.                      *)
flock_to_lock(o, type, start, len) ==
  [owner |-> o, type |-> type, start |-> start,
   end |-> IF len # 0 THEN start + len - 1 ELSE OFFSET_MAX]

locks_conflict(lock) ==
  {l \in Range(locks) : /\ l.owner # lock.owner
                        /\ lock.start <= l.end /\ l.start <= lock.end
                        /\ "F_WRLCK" \in {l.type, lock.type}}

Widened(lock, l) == [lock EXCEPT !.start = Min({@, l.start}), !.end = Max({@, l.end})]

Before_Includes(l, lock) == [l EXCEPT !.end = lock.start]

Before(l, lock) == [l EXCEPT !.end = lock.start - 1]
Behind(l, lock) == [l EXCEPT !.start = lock.end + 1]

(***************************************************************************)
(* locks_insert from the element l on, which is followed by rest: locks of *)
(* the owner are widened into the new one, cut, split or removed, and the  *)
(* new one goes before the first that lies behind it.                      *)
(***************************************************************************)
RECURSIVE locks_insert(_, _)
locks_insert(ls, lock) ==
  LET new  == IF lock.type = "F_UNLCK" THEN <<>> ELSE <<lock>>
      l    == Head(ls)
      rest == Tail(ls)
  IN
  CASE ls = <<>> -> new
    [] ls # <<>> /\ l.owner # lock.owner -> <<l>> \o locks_insert(rest, lock)
    [] ls # <<>> /\ l.owner = lock.owner /\ l.type = lock.type ->
         (CASE l.end < lock.start - 1 -> <<l>> \o locks_insert(rest, lock)
            [] lock.end < l.start - 1 -> new \o ls
            [] l.start <= lock.start /\ lock.end <= l.end -> ls
            [] OTHER -> locks_insert(rest, Widened(lock, l)))
    [] OTHER ->
         (CASE l.end < lock.start -> <<l>> \o locks_insert(rest, lock)
            [] lock.end < l.start -> new \o ls
            [] lock.start <= l.start /\ l.end <= lock.end -> locks_insert(rest, lock)
            [] lock.start > l.start /\ l.end <= lock.end ->
                 <<Before(l, lock)>> \o locks_insert(rest, lock)
            [] lock.start <= l.start /\ l.end > lock.end ->
                 new \o <<Behind(l, lock)>> \o rest
            [] OTHER -> <<Before(l, lock)>> \o locks_insert(<<Behind(l, lock)>> \o rest, lock))

(* What the file system grants: no byte that another owner has, unless     *)
(* both only read.  (A file system outside the model.)                     *)
Grants(lock) ==
  \A o \in Owners \ {lock.owner}, b \in lock.start .. lock.end :
    lock.type = "F_UNLCK" \/ held[o][b] = "F_UNLCK" \/ {lock.type, held[o][b]} = {"F_RDLCK"}

Record(lock) ==
  /\ locks' = locks_insert(locks, lock)
  /\ held' = [held EXCEPT ![lock.owner] =
                [b \in Bytes |-> IF b \in lock.start .. lock.end THEN lock.type ELSE @[b]]]

(* locks_insert has no memory for the elements it may need: the answer to  *)
(* the request is not changed by that.                                     *)
ENOLCK == UNCHANGED vars

fuse_lib_setlk(o) ==
  \E type \in Types, start \in Bytes : \E len \in 0 .. OFFSET_MAX - start + 1 :
    LET lock == flock_to_lock(o, type, start, len)
    IN  Grants(lock) /\ (Record(lock) \/ ENOLCK)

(* The close of a descriptor drops all locks of the owner.                 *)
fuse_flush_common(o) == Record(flock_to_lock(o, "F_UNLCK", 0, 0))

Next == \E o \in Owners : fuse_lib_setlk(o) \/ fuse_flush_common(o)

Spec == Init /\ [][Next]_vars

-----------------------------------------------------------------------------
(* Whatever locks were set, widened, cut and split: on every byte an owner *)
(* has at most one lock, the last one set there, and fuse_lib_getlk finds  *)
(* a conflict in the list exactly when a byte of the range is locked by    *)
(* another owner against it.                                               *)
LocksPerByte ==
  /\ \A o \in Owners, b \in Bytes :
       LET covering == {k \in DOMAIN locks : locks[k].owner = o /\ b \in locks[k].start .. locks[k].end}
       IN  IF held[o][b] = "F_UNLCK" THEN covering = {}
           ELSE \E k \in DOMAIN locks : covering = {k} /\ locks[k].type = held[o][b]
  /\ \A o \in Owners, type \in {"F_RDLCK", "F_WRLCK"}, start \in Bytes : \A end \in start .. OFFSET_MAX :
       locks_conflict([owner |-> o, type |-> type, start |-> start, end |-> end]) # {}
         <=> \E p \in Owners \ {o}, b \in start .. end :
               "F_UNLCK" # held[p][b] /\ "F_WRLCK" \in {type, held[p][b]}
=============================================================================

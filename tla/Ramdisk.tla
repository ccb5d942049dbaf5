------------------------------- MODULE Ramdisk ------------------------------
(***************************************************************************)
(* The in-memory file system of hw4: the handlers of ramdisk.c that FUSE   *)
(* calls, one at a time (module RamdiskThreads has them interleaved), on   *)
(* the tree of rd_file structures.  What the kernel looks up, by           *)
(* rd_getattr, before it calls a handler is part of the guard.             *)
(***************************************************************************)
EXTENDS Queues, FiniteSetsExt

CONSTANTS
  Names,            \* names of files
  Bytes,            \* the bytes clients write
  NUL,              \* the byte 0
  MaxDepth,         \* bound on the length of a path
  MaxFiles,         \* bound on the number of files
  MaxWrite,         \* bound on the bytes one write brings
  INT_MAX,          \* the largest int; a size_t is twice as wide
  max_bytes,
  DIRECTORY_BYTES, BYTES_PER_BLOCK,
  NULL

ASSUME RamdiskAssumption ==
  /\ {MaxDepth, MaxFiles, MaxWrite, INT_MAX, DIRECTORY_BYTES, BYTES_PER_BLOCK} \subseteq Nat \ {0}
  /\ max_bytes \in 0 .. INT_MAX   \* main computes it as an int
  /\ MaxWrite <= INT_MAX /\ DIRECTORY_BYTES <= INT_MAX
  /\ BYTES_PER_BLOCK > 1
  /\ NULL \notin Names \cup Nat

root == 0
Addresses == 1 .. MaxFiles

VARIABLES
  rd,             \* the rd_file structures, by their addresses
  current_bytes,
  result,         \* the last handler, its path and what it returned; for a
                  \* write that succeeds, also its buffer and offset
  undefined       \* the program has freed a pointer that it did not allocate

vars == <<rd, current_bytes, result, undefined>>

(* create_rd_file leaves data as malloc returned it: either NULL or wild.  *)
create_rd_file(name, parent, type, wild) ==
  [type |-> type, name |-> name, parent |-> parent, files |-> <<>>,
   data |-> <<>>, wild |-> wild]

Result(op, path, code, offset, buffer) ==
  [op |-> op, path |-> path, code |-> code, offset |-> offset, buffer |-> buffer]

Init ==
  /\ rd = [f \in {root} |-> create_rd_file(NULL, NULL, "DIRECTORY", FALSE)]
  /\ current_bytes = 0
  /\ result = Result("mount", <<>>, "OK", 0, <<>>)
  /\ undefined = FALSE

Paths   == UNION {[1 .. n -> Names] : n \in 1 .. MaxDepth}
Front(path) == SubSeq(path, 1, Len(path) - 1)
Last(path)  == path[Len(path)]

Buffers == UNION {[1 .. n -> Bytes] : n \in 1 .. MaxWrite}
Offsets == 0 .. max_bytes

-----------------------------------------------------------------------------
(* Looking things up.                                                      *)

size(f) == IF rd[f].type = "DIRECTORY" THEN DIRECTORY_BYTES ELSE Len(rd[f].data)

(* C's conversions to int and to size_t.                                   *)
Ints      == 2 * (INT_MAX + 1)   \* how many there are
ToInt(n)  == LET m == n % Ints IN IF m > INT_MAX THEN m - Ints ELSE m
ToSize(n) == n % (Ints * Ints)

memory_available_OneMore(bytes) == current_bytes + bytes <= max_bytes + 1
memory_available(bytes) == current_bytes + bytes <= max_bytes

(* The first file of the list that has the name, or NULL.  (That is        *)
(* First(list), written so that TLC computes the list only once.)          *)
get_file(name, list) ==
  LET Has(l, k) == rd[l[k]].name = name
      First(l)  == IF \E k \in DOMAIN l : Has(l, k)
                   THEN l[CHOOSE k \in DOMAIN l : Has(l, k) /\ \A j \in 1 .. k - 1 : ~Has(l, j)]
                   ELSE NULL
  IN  CHOOSE f \in {First(l) : l \in {list}} : TRUE

files(f) == IF f = NULL THEN <<>> ELSE rd[f].files

(* The directories on the way down a path: NULL from where one is missing  *)
(* or is a regular file.                                                   *)
directory(f) == IF f # NULL /\ rd[f].type = "DIRECTORY" THEN f ELSE NULL

descent(path) ==
  LET down[i \in 0 .. Len(path) - 1] ==
        IF i = 0 THEN root ELSE directory(get_file(path[i], files(down[i-1])))
  IN  down

(* The directory that path is in.  The kernel resolves it first, so that   *)
(* get_rd_file, which does not test for NULL, never gets that.             *)
get_parent_directory(path) == descent(path)[Len(path) - 1]

get_rd_file(path) ==
  IF path = <<>> THEN root ELSE get_file(Last(path), files(get_parent_directory(path)))

div_round_up(dividend, divisor) == (dividend + divisor \div 2) \div divisor

fill_stats(f) ==
  [type   |-> rd[f].type,
   nlink  |-> IF rd[f].type = "DIRECTORY" THEN 2 + Len(rd[f].files) ELSE 1,
   size   |-> size(f),
   blocks |-> IF rd[f].type = "DIRECTORY" THEN DIRECTORY_BYTES \div BYTES_PER_BLOCK
              ELSE div_round_up(size(f), BYTES_PER_BLOCK)]

rd_getattr(path) ==
  LET f == get_rd_file(path) IN IF f = NULL THEN NULL ELSE fill_stats(f)

(* The bytes that a read of n bytes at offset returns.  (rd_read stores a  *)
(* NUL behind them, in a full buffer behind its end.)                      *)
rd_read(path, n, offset) ==
  LET f    == get_rd_file(path)
      last == IF offset + n > size(f) THEN size(f) ELSE offset + n
  IN  IF offset < size(f) THEN SubSeq(rd[f].data, offset + 1, last) ELSE <<>>

-----------------------------------------------------------------------------
(* Changing them.                                                          *)

Returns(op, path, code) == result' = Result(op, path, code, 0, <<>>)

Refused(op, path, code) == Returns(op, path, code) /\ UNCHANGED <<rd, current_bytes, undefined>>

(* What the kernel has found out by rd_getattr before it calls a handler.  *)
Exists(path) == get_rd_file(path) # NULL
IsA(path, type) == LET f == get_rd_file(path) IN f # NULL /\ rd[f].type = type
Resolved(path) == IsA(Front(path), "DIRECTORY")

(* The first free address gets the new structure, parent's list its end.   *)
push(path, type) ==
  /\ Addresses \ DOMAIN rd # {}
  /\ \E wild \in BOOLEAN :
       LET parent == get_parent_directory(path)
           file   == Min(Addresses \ DOMAIN rd)
       IN  rd' = [f \in DOMAIN rd \cup {file} |->
                    IF f = file THEN create_rd_file(Last(path), parent, type, wild)
                    ELSE IF f = parent THEN [rd[f] EXCEPT !.files = Append(@, file)]
                    ELSE rd[f]]

rd_create(path) ==
  /\ Resolved(path) /\ ~Exists(path)
  /\ push(path, "REGULAR")
  /\ Returns("create", path, "OK")
  /\ UNCHANGED <<current_bytes, undefined>>

rd_mkdir(path) ==
  /\ Resolved(path)
  /\ \/ ~memory_available(DIRECTORY_BYTES) /\ Refused("mkdir", path, "ENOSPC")
     \/ memory_available(DIRECTORY_BYTES) /\ Exists(path) /\ Refused("mkdir", path, "EEXIST")
     \/ /\ memory_available(DIRECTORY_BYTES) /\ ~Exists(path)
        /\ push(path, "DIRECTORY")
        /\ current_bytes' = current_bytes + DIRECTORY_BYTES
        /\ Returns("mkdir", path, "OK")
        /\ UNCHANGED undefined

(* strncpy: what comes after a NUL is not copied and remains 0.            *)
strncpy(data) ==
  [k \in DOMAIN data |-> IF \E j \in 1 .. k : data[j] = NUL THEN NUL ELSE data[k]]

reallocated_NotCopied(data, n) == [k \in 1 .. Len(data) + n |-> NUL]

(* data enlarged by n bytes into a fresh block.                            *)
reallocated(data, n) == strncpy(data) \o [k \in 1 .. n |-> NUL]

rd_write(path, buffer, offset) ==
  LET file              == get_rd_file(path)
      size_after_write  == ToInt(offset + Len(buffer))
      grows             == ToSize(size_after_write) > size(file)
      bytes_to_allocate == ToInt(ToSize(size_after_write) - size(file))
      data              == IF grows THEN reallocated(rd[file].data, bytes_to_allocate)
                           ELSE rd[file].data
      copied(k)         == k \in offset + 1 .. offset + Len(buffer)
  IN
  /\ Resolved(path) /\ IsA(path, "REGULAR")
  /\ \/ offset > size(file) /\ Refused("write", path, "EFBIG")
     \/ /\ offset <= size(file) /\ grows /\ ~memory_available(bytes_to_allocate)
        /\ Refused("write", path, "ENOSPC")
     \/ /\ offset <= size(file) /\ (grows => memory_available(bytes_to_allocate))
        /\ rd' = [rd EXCEPT
             ![file].data = [k \in DOMAIN data |-> IF copied(k) THEN buffer[k - offset] ELSE data[k]],
             ![file].wild = @ /\ ~grows]
        /\ current_bytes' = IF grows THEN current_bytes + bytes_to_allocate ELSE current_bytes
        /\ result' = Result("write", path, "OK", offset, buffer)
        /\ UNCHANGED undefined

(* Unlinks file from its parent's list and frees it, with its data: what   *)
(* happens when data is wild is not defined.                               *)
delete_item(file) ==
  \/ /\ ~rd[file].wild
     /\ rd' = [f \in DOMAIN rd \ {file} |->
                 IF f = rd[file].parent THEN [rd[f] EXCEPT !.files = RemoveFirst(@, file)] ELSE rd[f]]
     /\ UNCHANGED undefined
  \/ /\ rd[file].wild
     /\ undefined' = TRUE
     /\ UNCHANGED rd

Freed(op, path, file, bytes) ==
  /\ delete_item(file)
  /\ IF undefined' THEN UNCHANGED <<current_bytes, result>>
     ELSE current_bytes' = current_bytes - bytes /\ Returns(op, path, "OK")

rd_unlink(path) ==
  /\ Resolved(path) /\ ~IsA(path, "DIRECTORY")
  /\ \/ ~Exists(path) /\ Refused("unlink", path, "EPERM")
     \/ Exists(path) /\ LET f == get_rd_file(path) IN Freed("unlink", path, f, size(f))

rd_rmdir(path) ==
  /\ Resolved(path)
  /\ \/ ~Exists(path) /\ Refused("rmdir", path, "ENOENT")
     \/ IsA(path, "REGULAR") /\ Refused("rmdir", path, "ENOTDIR")
     \/ /\ IsA(path, "DIRECTORY")
        /\ LET f == get_rd_file(path) IN
             \/ rd[f].files # <<>> /\ Refused("rmdir", path, "ENOTEMPTY")
             \/ rd[f].files = <<>> /\ Freed("rmdir", path, f, DIRECTORY_BYTES)

Next ==
  \/ /\ ~undefined
     /\ \E path \in Paths :
          \/ rd_create(path) \/ rd_mkdir(path) \/ rd_unlink(path) \/ rd_rmdir(path)
          \/ \E buffer \in Buffers, offset \in Offsets : rd_write(path, buffer, offset)
  \/ undefined /\ UNCHANGED vars

Spec == Init /\ [][Next]_vars

-----------------------------------------------------------------------------
(* Every file is once in the list of the directory that is its parent, and *)
(* in no other, and the names in a list differ.                            *)
Listed ==
  \A f \in DOMAIN rd :
    /\ rd[f].type = "REGULAR" => rd[f].files = <<>>
    /\ Range(rd[f].files) = {g \in DOMAIN rd \ {root} : rd[g].parent = f}
    /\ \A j, k \in DOMAIN rd[f].files :
         j # k => rd[rd[f].files[j]].name # rd[rd[f].files[k]].name

(* The structures form a tree: every file there is has, besides, a path    *)
(* that leads to it.                                                       *)
IsTree ==
  /\ Listed
  /\ \A f \in DOMAIN rd : \E path \in {<<>>} \cup Paths : get_rd_file(path) = f

(* The sum of what every address holds.                                    *)
Sum(bytes) ==
  LET upto[n \in 0 .. MaxFiles] == IF n = 0 THEN 0 ELSE upto[n-1] + bytes[n]
  IN  upto[MaxFiles]

(* memory_available compares with the memory that is really in use: the    *)
(* counter that the handlers add to and subtract from is the sum of the    *)
(* sizes of what is in the tree, and never exceeds the capacity.           *)
Accounting ==
  /\ IsTree
  /\ current_bytes = Sum([a \in Addresses |-> IF a \in DOMAIN rd THEN size(a) ELSE 0])
  /\ current_bytes <= max_bytes
=============================================================================

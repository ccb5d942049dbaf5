------------------------------ MODULE MCRamdisk -----------------------------
(***************************************************************************)
(* The file system that Ramdisk implements, and Ramdisk's instances for    *)
(* TLC.                                                                    *)
(***************************************************************************)
EXTENDS Ramdisk, TLC

Symmetry == Permutations(Names) \cup Permutations(Bytes \ {NUL})

(* What clients see through rd_getattr and rd_read is a file system that   *)
(* keeps what is written to it.                                            *)
Seen(path, st) ==
  [type |-> st.type,
   data |-> IF st.type = "REGULAR" THEN rd_read(path, st.size, 0) ELSE <<>>]

SeenAt(path) == CHOOSE seen \in {Seen(path, st) : st \in {rd_getattr(path)}} : TRUE

FS == INSTANCE FileSystem WITH
  Capacity <- max_bytes,
  DirectoryBytes <- DIRECTORY_BYTES,
  tree <- (<<>> :> SeenAt(<<>>)) @@ [path \in {q \in Paths : Exists(q)} |-> SeenAt(path)]

ImplementsFileSystem == FS!Spec
=============================================================================

------------------------------- MODULE FuseRuns ------------------------------
(***************************************************************************)
(* The runs of functions of libfuse (module FusePrograms), one effect a    *)
(* step.                                                                   *)
(***************************************************************************)
EXTENDS Sequences, Bags, FiniteSets, Integers

CONSTANT Programs   \* triples: "main", "request" or "call"; what is called; the set of its runs

VARIABLES kind, op, todo, done

vars == <<kind, op, todo, done>>

Init ==
  \E p \in Programs :
    /\ kind = p[1]
    /\ op = p[2]
    /\ done = EmptyBag
    /\ \E r \in p[3] : todo = r.ev

Next ==
  /\ todo # <<>>
  /\ todo' = Tail(todo)
  /\ done' = done (+) SetToBag({Head(todo)})
  /\ UNCHANGED <<kind, op>>

Spec == Init /\ [][Next]_vars

N(e)          == CopiesIn(e, done)
Net(get, put) == N(get) - N(put)
Happened(e)   == BagIn(e, done)
Over          == todo = <<>>
NextIs(E)     == todo # <<>> /\ Head(todo) \in E

Answers == {"error", "entry", "negative", "create", "attr", "readlink", "open", "write", "contents", "statfs",
            "xattr", "lock", "bmap", "poll", "ioctl", "data", "iov", "init", "destroy"}
NoAnswer == {"FORGET", "BATCH_FORGET", "INTERRUPT", "NOTIFY_REPLY"}

(* What the code drops: a request that cannot be read from the pipe, one   *)
(* whose answer is in a pipe that fails, and the answer to a notification  *)
(* that was never sent.                                                    *)
Dropped == \E e \in {"unread", "pipe_failed", "unasked"} : Happened(e)

(* Every request that wants an answer is given one attempt at an answer    *)
(* and no more, whatever fails on the way (send_reply_iov, reply_err); its *)
(* object is freed exactly once, or kept with an interrupt that waits for  *)
(* its request; and nothing touches it once the answer has freed it: an    *)
(* interrupt is finished before the answer, not after it.                  *)
AnsweredOnce ==
  LET sent == {e \in Answers \cup {"gone", "failed"} : Happened(e)}
  IN  kind = "request" =>
        /\ Cardinality(sent) <= 1 /\ \A e \in sent : N(e) = 1
        /\ Over /\ op \notin NoAnswer /\ ~Dropped => sent # {}
        /\ NextIs({"prepare", "finish", "free_req"}) => Net("alloc_req", "free_req") > 0
        /\ Over /\ ~Dropped => N("alloc_req") = N("free_req") + N("park")

Given == {<<"malloc", "free">>, <<"path", "free_path">>, <<"prepare", "finish">>, <<"dh_lock", "dh_unlock">>,
          <<"ref", "unref">>, <<"ic_lock", "ic_unlock">>, <<"copy", "free_copy">>, <<"opts", "free_opts">>,
          <<"dir", "close_dir">>, <<"fopen", "fclose">>, <<"block", "unblock">>,
          <<"mp_fd", "close_mp">>, <<"mtab_lock", "mtab_unlock">>}
Made == {<<"args", "free_args">>, <<"mp", "free_mp">>, <<"fd", "close">>, <<"chan", "free_chan">>,
         <<"session", "free_session">>, <<"ll", "free_ll">>, <<"key", "free_key">>, <<"fuse", "free_fuse">>,
         <<"table", "free_table">>, <<"root", "free_root">>, <<"intr", "restore_intr">>, <<"cuse", "free_cuse">>,
         <<"attach", "detach">>, <<"instance", "no_instance">>}
Stack == {<<"fs", "free_fs">>, <<"module", "put">>, <<"malloc", "free">>}
Unnoticed == Happened("no_mount") \/ Happened("late")

(* A request, an operation of a module, a mount or a notification leaves   *)
(* nothing behind, on any path: every path lock, interrupt window, node    *)
(* reference, mutex, child and allocation is given back; and the thread's  *)
(* pipe holds no data, which the thread's next request would take for its  *)
(* own (do_write_buf: "Need to reset the pipe if ->write_buf() didn't      *)
(* consume all data").                                                     *)
CallCleanedUp ==
  Over /\ kind # "main" /\ ~Happened("pipe_failed") =>
    /\ \A p \in Given : Net(p[1], p[2]) = 0
    /\ kind = "request" \/ op = "read" => (Happened("buf") => Happened("free_buf"))
    /\ ~Happened("unasked") => N("fill") = N("drain") + N("clear_pipe")
    /\ Net("fork", "wait") = N("kept") /\ Net("sock", "close_sock") = N("kept")
    /\ kind = "call" /\ op = "mount" /\ ~Happened("no_mount") => Net("fd", "close") = Net("mount", "undo_mount")

(* A program that got past its command line gives back all it took, at     *)
(* whichever step of fuse_setup_common, fuse_new_common or                 *)
(* cuse_lowlevel_setup it fails, and when it ends: every mount is followed *)
(* by one attempt to undo it, the device is closed, and every object is    *)
(* freed once.  The file systems of the stack are freed by the destroy     *)
(* operation, so only once INIT has come.  Left out are the mounts that    *)
(* failed unnoticed and a fuse_new that fails late, which frees the        *)
(* channel its caller frees again.                                         *)
ProgramCleanedUp ==
  Over /\ kind = "main" /\ Happened("parsed") /\ ~Unnoticed =>
    /\ \A p \in Made : Net(p[1], p[2]) = 0
    /\ Net("mount", "undo_mount") = N("unmount") + N("unmounted") + N("no_unmount")
    /\ ~Happened("hash_root") \/ Happened("got_init") => \A p \in Stack : Net(p[1], p[2]) = 0


(* The library counts what the kernel knows: a lookup for each entry the   *)
(* kernel took, an open file or directory for each it was told of, and     *)
(* nothing for an answer it did not take because the system call had been  *)
(* interrupted meanwhile.  (After any other error the connection is over.) *)
KernelKnows ==
  LET entry  == Happened("entry") \/ Happened("create")
      opened == (Happened("open") \/ Happened("create")) /\ ~Happened("no_op")
      One(b) == IF b THEN 1 ELSE 0
  IN  Over /\ kind = "request" /\ ~Happened("failed") =>
        /\ op \notin {"FORGET", "BATCH_FORGET"} => Net("lookup", "forget") = One(entry)
        /\ op = "OPENDIR" => Net("dh", "free_dh") = One(opened) /\ Net("opendir", "closedir") = One(opened)
        /\ op \in {"OPEN", "CREATE", "MKNOD"} =>
             Net("opened", "closed") = One(opened) /\ Net("count", "discount") = One(opened)


(* fusermount, run by a user, looks at the configuration and the mount     *)
(* point with the user's rights and mounts, unmounts and edits /etc/mtab   *)
(* with its own, on every path.  It gives away a descriptor only of a file *)
(* system it mounted, keeps none when it unmounts, and removes an entry    *)
(* from /etc/mtab only after the unmount.                                  *)
RightsInOrder ==
  op \in {"fusermount", "fusermount by root"} =>
    /\ NextIs({"mount", "umount2", "mtab", "umtab"}) => N("drop") = N("restore")
    /\ NextIs({"conf", "examine"}) /\ op = "fusermount" => N("drop") = N("restore") + 1
    /\ NextIs({"send"}) => N("mount") = 1 /\ Net("fd", "close") = 1
    /\ NextIs({"umount2"}) => Net("fd", "close") = 0 /\ (Happened("mount") => Happened("waited"))
    /\ NextIs({"umtab"}) => Happened("umount2")

=============================================================================

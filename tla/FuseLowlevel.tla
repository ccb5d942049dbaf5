---------------------------- MODULE FuseLowlevel -----------------------------
(***************************************************************************)
(* libfuse, lib/fuse_lowlevel.c: a request is received, checked, handed to *)
(* the handler of its opcode and answered.  The operations of the session  *)
(* are those of the high-level library (FuseLib), or missing ones.  More   *)
(* effects:                                                                *)
(*   "park", "free_parked"  an interrupt is kept for a request that has    *)
(*                          not come yet, and given up; "again" answers it *)
(*   "ph"                   a poll handle, handed to the operation         *)
(*   "no_op"                opened without an operation                    *)
(*   "unread"               the header of a request cannot be read         *)
(*   "unasked"              the answer to a notification never sent        *)
(***************************************************************************)
EXTENDS FuseLib

(* A session without the operation refuses; open and release then succeed. *)
OrENOSYS(handler) == handler \cup fuse_reply_err
OrOpened(handler) == handler \cup Then(Do("no_op"), fuse_reply_open)

do_lookup   == OrENOSYS(fuse_lib_lookup)
do_forget   == fuse_lib_forget \cup fuse_reply_none

(* Without forget_multi each node has a request of its own; the rest are   *)
(* given up when there is no memory for one.                               *)
do_batch_forget ==
  LET dummy == Then(Do("alloc_req"), fuse_lib_forget)
      each  == Return("ok") \cup dummy \cup Then(dummy, dummy)
  IN  fuse_lib_forget_multi \cup Then(each, fuse_reply_none) \cup fuse_reply_none

do_getattr  == OrENOSYS(fuse_lib_getattr)
do_setattr  == OrENOSYS(fuse_lib_setattr)
do_access   == OrENOSYS(fuse_lib_access)
do_readlink == OrENOSYS(fuse_lib_readlink)
do_mknod    == OrENOSYS(fuse_lib_mknod)
do_mkdir    == OrENOSYS(fuse_lib_mkdir)
do_unlink   == OrENOSYS(fuse_lib_unlink)
do_rmdir    == OrENOSYS(fuse_lib_rmdir)
do_symlink  == OrENOSYS(fuse_lib_symlink)
do_rename   == OrENOSYS(fuse_lib_rename)
do_link     == OrENOSYS(fuse_lib_link)
do_create   == OrENOSYS(fuse_lib_create)
do_open     == OrOpened(fuse_lib_open)
do_read     == OrENOSYS(fuse_lib_read \cup fuse_reply_iov)
do_write    == OrENOSYS(fuse_lib_write_buf)


(* Data still in the pipe when the operation has run is thrown away.       *)
Consumed == Do("drain") \cup fuse_ll_clear_pipe
do_write_buf(fd) ==
  LET written == IF fd THEN Then(fuse_lib_write_buf, Consumed) ELSE fuse_lib_write_buf
      small   == IF fd THEN Then(fuse_reply_err, fuse_ll_clear_pipe) ELSE fuse_reply_err
  IN  written \cup small

do_flush       == OrENOSYS(fuse_lib_flush)
do_release     == OrENOSYS(fuse_lib_release)
do_fsync       == OrENOSYS(fuse_lib_fsync)
do_opendir     == OrOpened(fuse_lib_opendir)
do_readdir     == OrENOSYS(fuse_lib_readdir)
do_releasedir  == OrENOSYS(fuse_lib_releasedir)
do_fsyncdir    == OrENOSYS(fuse_lib_fsyncdir)
do_statfs      == fuse_lib_statfs \cup fuse_reply_statfs
do_setxattr    == OrENOSYS(fuse_lib_setxattr)
do_getxattr    == OrENOSYS(fuse_lib_getxattr)
do_listxattr   == OrENOSYS(fuse_lib_listxattr)
do_removexattr == OrENOSYS(fuse_lib_removexattr)
do_getlk       == OrENOSYS(fuse_lib_getlk)
do_setlk_common == OrENOSYS(fuse_lib_flock) \cup OrENOSYS(fuse_lib_setlk)
do_setlk       == do_setlk_common
do_setlkw      == do_setlk_common
do_bmap        == OrENOSYS(fuse_lib_bmap)
(* A file system of the low-level interface may ask for the data again, or *)
(* answer with several pieces.                                             *)
do_ioctl       ==
  fuse_reply_err \cup OrENOSYS(fuse_lib_ioctl \cup fuse_reply_ioctl_retry \cup fuse_reply_ioctl_iov)
do_poll        == OrENOSYS(fuse_lib_poll) \cup Then(Do("ph"), fuse_lib_poll)
do_fallocate   == OrENOSYS(fuse_lib_fallocate)

(* A kernel with a newer protocol is told ours, and sends INIT once more.  *)
do_init        == fuse_reply_err \cup send_reply_ok("init") \cup Then(fuse_lib_init, send_reply_ok("init"))

(* INIT of a character device: the answer is sent before init_done, and    *)
(* the request is freed after it.                                          *)
cuse_reply_init    == fuse_send_reply_iov_nofree("init")
cuse_lowlevel_init ==
  fuse_reply_err \cup Then(fuse_fs_init, Then(cuse_reply_init, Then(OrNothing, fuse_free_req)))

do_destroy     == Then(fuse_lib_destroy \cup Return("ok"), send_reply_ok("destroy"))

(* What became of the request to interrupt is in FuseSession.              *)
do_interrupt    == fuse_free_req \cup Do("park")
check_interrupt == Return("none") \cup Then(Do("free_parked"), Return("none")) \cup Return("intr")

fuse_ll_retrieve_reply(fd) ==
  LET handled == Then(fuse_reply_none, Do("free_nreq"))
  IN  IF fd THEN Then(handled, Consumed) ELSE handled

do_notify_reply(fd) == fuse_ll_retrieve_reply(fd) \cup Do("unasked")

fuse_ll_ops ==
  [LOOKUP |-> do_lookup, FORGET |-> do_forget, GETATTR |-> do_getattr, SETATTR |-> do_setattr,
   READLINK |-> do_readlink, SYMLINK |-> do_symlink, MKNOD |-> do_mknod, MKDIR |-> do_mkdir,
   UNLINK |-> do_unlink, RMDIR |-> do_rmdir, RENAME |-> do_rename, LINK |-> do_link, OPEN |-> do_open,
   READ |-> do_read, WRITE |-> do_write, STATFS |-> do_statfs, RELEASE |-> do_release, FSYNC |-> do_fsync,
   SETXATTR |-> do_setxattr, GETXATTR |-> do_getxattr, LISTXATTR |-> do_listxattr,
   REMOVEXATTR |-> do_removexattr, FLUSH |-> do_flush, INIT |-> do_init, OPENDIR |-> do_opendir,
   READDIR |-> do_readdir, RELEASEDIR |-> do_releasedir, FSYNCDIR |-> do_fsyncdir, GETLK |-> do_getlk,
   SETLK |-> do_setlk, SETLKW |-> do_setlkw, ACCESS |-> do_access, CREATE |-> do_create,
   INTERRUPT |-> do_interrupt, BMAP |-> do_bmap, IOCTL |-> do_ioctl, POLL |-> do_poll,
   FALLOCATE |-> do_fallocate, DESTROY |-> do_destroy, NOTIFY_REPLY |-> {}, BATCH_FORGET |-> do_batch_forget,
   CUSE_INIT |-> cuse_lowlevel_init]

(* An interrupt kept for another request is answered when a request comes, *)
(* so that the kernel sends it again.                                      *)
Listed(op) ==
  IF op = "INTERRUPT" THEN Return("ok")
  ELSE Bind(check_interrupt, LAMBDA r :
         IF r = "intr" THEN Then(Do("again"), Do("free_parked")) ELSE Return("ok"))

Handle(op, fd) ==
  CASE op = "WRITE"        -> do_write_buf(fd) \cup (IF fd THEN {} ELSE do_write)
    [] op = "NOTIFY_REPLY" -> do_notify_reply(fd)
    [] OTHER               -> fuse_ll_ops[op]

(* Without memory for the request the error is sent all the same.          *)
WithRequest(m, clear) ==
  Bind(fuse_ll_alloc_req, LAMBDA r : IF r = "ok" THEN m ELSE Then(fuse_send_msg("error"), clear))

(* A request in memory: refused before INIT and again after it, to other   *)
(* users under allow_root, and when the opcode is not known.               *)
InMemory(op) == WithRequest(fuse_reply_err \cup Then(Listed(op), Handle(op, FALSE)), Return("ok"))

(* A request in the pipe: its header is copied out of it, and the rest too *)
(* unless the handler takes it from there.  What is refused clears it.     *)
InPipe(op) ==
  LET direct == op \in {"WRITE", "NOTIFY_REPLY"}
      handle == IF direct THEN Handle(op, TRUE)
                ELSE Then(fuse_reply_err, fuse_ll_clear_pipe) \cup Then(Do("drain"), Handle(op, FALSE))
      checked == Then(fuse_reply_err, fuse_ll_clear_pipe) \cup Then(Listed(op), handle)
      unread  == Then(Do("unread"), fuse_ll_clear_pipe)
      read    == WithRequest(checked, fuse_ll_clear_pipe) \cup unread
  IN  Then(Do("fill"), unread \cup Within("malloc", read, "free"))

fuse_ll_process_buf(op, fd) == IF fd THEN InPipe(op) ELSE InMemory(op)

=============================================================================

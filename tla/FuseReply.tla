------------------------------ MODULE FuseReply ------------------------------
(***************************************************************************)
(* libfuse, lib/fuse_lowlevel.c: how a request is answered.  Effects:      *)
(*   "alloc_req", "free_req"  the request object                           *)
(*   "error", "entry", ...    a message the device takes: the answer       *)
(*   "gone", "failed"         a message it refuses: the request is no      *)
(*                            longer there (ENOENT), or another error      *)
(*   "malloc", "free"         memory of the function                       *)
(*   "fill", "drain"          data in the thread's pipe, and all of it out *)
(*   "clear_pipe"             the thread's pipe is thrown away             *)
(*   "pipe_failed"            the pipe did not take or give what it should *)
(*   "nreq", "free_nreq"      a notification that waits for its answer     *)
(***************************************************************************)
EXTENDS Effects

(* A message to the kernel, with the device's answer as the result.        *)
fuse_send_msg(x) == {Run(<<x>>, "ok"), Run(<<"gone">>, "gone"), Run(<<"failed">>, "failed")}

fuse_ll_alloc_req == Try("alloc_req")
fuse_free_req     == Do("free_req")

fuse_send_reply_iov_nofree(x) == fuse_send_msg(x)
send_reply_iov(x) == After(fuse_send_reply_iov_nofree(x), fuse_free_req)
send_reply(x)     == send_reply_iov(x)
send_reply_ok(x)  == send_reply(x)
fuse_reply_err    == send_reply("error")
fuse_reply_none   == fuse_free_req

fuse_reply_iov    == fuse_reply_err \cup Within("malloc", send_reply_iov("iov"), "free")

(* Before ABI 7.4 only ENOENT meant that there is no such entry.           *)
fuse_reply_entry    == send_reply_ok("entry")
fuse_reply_negative == send_reply_ok("negative") \cup fuse_reply_err
fuse_reply_create   == send_reply_ok("create")
fuse_reply_attr     == send_reply_ok("attr")
fuse_reply_readlink == send_reply_ok("readlink")
fuse_reply_open     == send_reply_ok("open")
fuse_reply_write    == send_reply_ok("write")
fuse_reply_buf      == send_reply_ok("contents")
fuse_reply_statfs   == send_reply_ok("statfs")
fuse_reply_xattr    == send_reply_ok("xattr")
fuse_reply_lock     == send_reply_ok("lock")
fuse_reply_bmap     == send_reply_ok("bmap")
fuse_reply_poll     == send_reply_ok("poll")
fuse_reply_ioctl    == send_reply_iov("ioctl")
fuse_reply_ioctl_iov == fuse_reply_err \cup Within("malloc", send_reply_iov("ioctl"), "free")

fuse_ioctl_iovec_copy == Try("malloc")
(* The copies of both vectors are freed at the end, as far as they exist.  *)
fuse_reply_ioctl_retry ==
  LET copied(m) == Bind(fuse_ioctl_iovec_copy, LAMBDA r :
                     IF r = "err" THEN fuse_reply_err ELSE After(m, Do("free"))) \cup m
  IN  fuse_reply_err \cup copied(copied(send_reply_iov("ioctl")))

(* Data is sent from memory; a copy is made when it is not in one piece.   *)
(* "errno" is a positive error, still to be reported to the kernel.        *)
fuse_send_data_iov_fallback(x) ==
  LET copied == Return("ok") \cup Return("errno")
  IN  fuse_send_msg(x) \cup Return("errno") \cup Within("malloc", IfOk(copied, fuse_send_msg(x)), "free")

fuse_ll_pipe_free  == Do("free_pipe")
fuse_ll_get_pipe   == Return("ok") \cup Return("err") \cup Do("pipe") \cup Then(Do("pipe"), Then(fuse_ll_pipe_free, Return("err")))
fuse_ll_clear_pipe == Do("clear_pipe")
read_back          == Return("ok") \cup {Run(<<"pipe_failed">>, "lost")}

(* Through the pipe: the header and then the data go in, and the pipe is   *)
(* spliced to the device.  When the data came short and there is more of   *)
(* it, what is in the pipe is read back and sent from memory.              *)
fuse_send_data_iov(x) ==
  LET fallback == fuse_send_data_iov_fallback(x)
      Clear(m) == Then(fuse_ll_clear_pipe, m)
      spliced  == Bind(fuse_send_msg(x), LAMBDA r : IF r = "ok" THEN Do("drain") ELSE Clear(Return(r)))
      unread   == Return("errno") \cup Then(Do("malloc"), IfOk(read_back, IfOk(Do("free"), read_back)))
      resent   == Then(Do("drain"), After(fuse_send_msg(x), Do("free")))
      more     == Then(Do("malloc"), Bind(unread, LAMBDA r :
                    IF r = "ok" THEN resent ELSE Then(Do("free"), Clear(Return(r)))))
      eof      == Then(Within("malloc", Return("ok"), "free"), spliced)
      short    == Clear(Return("errno")) \cup more \cup eof
      filled   == Then(Do("fill"), spliced \cup short \cup Clear(fallback) \cup Clear(Return("errno")))
      vmsplice == fallback \cup filled \cup Then(Do("fill"), Then(Do("pipe_failed"), Clear(Return("lost"))))
  IN  fallback \cup Bind(fuse_ll_get_pipe, LAMBDA r : IF r = "ok" THEN vmsplice ELSE fallback)

(* Mutant: a positive error is taken for an answer that was sent.          *)
fuse_reply_data_Silent == After(fuse_send_data_iov("data"), fuse_free_req)

fuse_reply_data ==
  Bind(fuse_send_data_iov("data"), LAMBDA r :
    IF r = "errno" THEN fuse_reply_err ELSE Then(fuse_free_req, Return(r)))

(* Messages nobody asked for; only once the connection is initialised.     *)
send_notify_iov                  == Return("err") \cup fuse_send_msg("notify")
fuse_lowlevel_notify_poll        == Return("ok") \cup send_notify_iov
fuse_lowlevel_notify_inval_inode == Return("err") \cup send_notify_iov
fuse_lowlevel_notify_inval_entry == Return("err") \cup send_notify_iov
fuse_lowlevel_notify_delete      == Return("err") \cup send_notify_iov
fuse_lowlevel_notify_store       == Return("err") \cup fuse_send_data_iov("notify")
fuse_lowlevel_notify_retrieve    ==
  Return("err") \cup Then(Do("nreq"), OnError(send_notify_iov, Do("free_nreq")))

Notifications ==
  {fuse_lowlevel_notify_poll, fuse_lowlevel_notify_inval_inode, fuse_lowlevel_notify_inval_entry,
   fuse_lowlevel_notify_delete, fuse_lowlevel_notify_store, fuse_lowlevel_notify_retrieve}

=============================================================================

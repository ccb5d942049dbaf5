------------------------------- MODULE FuseLib -------------------------------
(***************************************************************************)
(* libfuse, lib/fuse.c: the fuse_lib_ handlers, one for every request of   *)
(* the kernel, each as the set of its runs.  What the path locks and node  *)
(* counts do when handlers run together is in FusePaths; here are all the  *)
(* ways through one handler.  More effects:                                *)
(*   "path", "free_path"       a path is locked and unlocked               *)
(*   "prepare", "finish"       the thread can be interrupted meanwhile     *)
(*   "lookup", "forget"        a lookup is counted for the kernel          *)
(*   "count", "discount"       open_count of the node                      *)
(*   "dh", "free_dh"           the directory handle, "dh_lock", "dh_unlock"*)
(*   "ref", "unref"            a reference to a node                       *)
(***************************************************************************)
EXTENDS FuseFs, FuseReply

reply_err        == fuse_reply_err

(* m, then the answer for success, or its error.                           *)
Answer(m, reply) == Bind(m, LAMBDA r : IF r = "ok" THEN reply ELSE reply_err)

(* Mutant: nobody asks whether the answer was taken.                       *)
Unless_Unasked(reply, undo) == Then(reply, Return("ok"))

(* An answer that is not taken means that the system call was interrupted. *)
Unless(reply, undo) == Bind(reply, LAMBDA a : IF a = "gone" THEN undo ELSE Return("ok"))

(* An entry the kernel does not take is forgotten at once.                 *)
reply_entry(m) ==
  Bind(m, LAMBDA r :
    CASE r = "ok"       -> Unless(fuse_reply_entry, Do("forget"))
      [] r = "negative" -> fuse_reply_negative
      [] OTHER          -> reply_err)

(* get_path fails, or the path is held until free_path; get_path_nullok    *)
(* may also succeed without one (nopath, nullpath_ok).                     *)
WithPath(m)      == Return("err") \cup Within("path", m, "free_path")
WithNullPath(m)  == WithPath(m) \cup m
WithInterrupt(m) == m \cup Within("prepare", m, "finish")

(* The shape of most handlers.                                             *)
OnPath(m)     == WithPath(WithInterrupt(m))
OnNullPath(m) == WithNullPath(WithInterrupt(m))

find_node        == Do("lookup") \cup Return("err")
lookup_path      == IfOk(fuse_fs_getattr, find_node)
lookup_path_fi   == IfOk(fuse_fs_fgetattr, find_node)

fuse_lib_init    == fuse_fs_init
fuse_lib_destroy == fuse_fs_destroy(Destroy, FALSE)

(* "." holds a reference to the directory meanwhile.                       *)
fuse_lib_lookup ==
  LET found == OnPath(Bind(lookup_path, LAMBDA r :
                 IF r = "noent" THEN Return("negative") \cup Return("err") ELSE Return(r)))
  IN  reply_entry(found) \cup reply_err \cup reply_entry(Within("ref", found, "unref"))

fuse_lib_forget       == Then(Do("forget"), fuse_reply_none)
fuse_lib_forget_multi == Then(Return("ok") \cup Do("forget") \cup {Run(<<"forget", "forget">>, "ok")}, fuse_reply_none)

fuse_lib_getattr ==
  Answer(OnNullPath(fuse_fs_fgetattr) \cup OnPath(fuse_fs_getattr), fuse_reply_attr)

(* The changes asked for, in order, until one fails.                       *)
fuse_lib_setattr ==
  LET asked(m) == m \cup Return("ok")
      mode     == IfOk(asked(fuse_fs_chmod), asked(fuse_fs_chown))
      size     == IfOk(mode, asked(fuse_fs_truncate \cup fuse_fs_ftruncate))
      times    == IfOk(size, asked(fuse_fs_utimens))
  IN  Answer(OnPath(IfOk(times, fuse_fs_getattr \cup fuse_fs_fgetattr))
             \cup OnNullPath(IfOk(fuse_fs_ftruncate, fuse_fs_fgetattr)), fuse_reply_attr)

fuse_lib_access   == Answer(OnPath(fuse_fs_access), reply_err)
fuse_lib_readlink == Answer(OnPath(fuse_fs_readlink), fuse_reply_readlink)

(* A regular file is created and closed; mknod is for the rest, and for a  *)
(* file system without create.                                             *)
fuse_lib_mknod ==
  LET regular == IfOk(fuse_fs_create, After(lookup_path_fi, fuse_fs_release))
      other   == IfOk(fuse_fs_mknod, lookup_path)
  IN  reply_entry(OnPath(Bind(regular \cup Return("nosys"), LAMBDA r : IF r = "nosys" THEN other ELSE Return(r))))

fuse_lib_mkdir   == reply_entry(OnPath(IfOk(fuse_fs_mkdir, lookup_path)))
fuse_lib_symlink == reply_entry(OnPath(IfOk(fuse_fs_symlink, lookup_path)))
fuse_lib_link    == reply_entry(OnPath(IfOk(fuse_fs_link, lookup_path)))

(* An open file is renamed out of the way; its new name must be free.      *)
hidden_name      == fuse_fs_getattr
hide_node        == Bind(hidden_name, LAMBDA r :
                      IF r = "noent" THEN Within("malloc", fuse_fs_rename, "free") ELSE Return("err"))
fuse_lib_unlink  == Answer(OnPath(hide_node \cup fuse_fs_unlink), reply_err)
fuse_lib_rmdir   == Answer(OnPath(fuse_fs_rmdir), reply_err)
fuse_lib_rename  == Answer(OnPath(IfOk(hide_node \cup Return("ok"), fuse_fs_rename)), reply_err)

(* The last close of a hidden file removes it, by the path it has; under   *)
(* nopath the path is asked for.                                           *)
fuse_do_release ==
  Then(fuse_fs_release, Then(Do("discount"),
       Return("ok") \cup fuse_fs_unlink \cup Then(WithPath(fuse_fs_unlink), Return("ok"))))

(* create and open answer while they hold the path, and close again when   *)
(* the answer is not taken.                                                *)
HoldingPath(m, reply, undo) ==
  LET answer(r) == IF r = "ok" THEN Then(Do("count"), Unless(reply, undo)) ELSE reply_err
  IN  reply_err \cup Within("path", Bind(m, LAMBDA r : answer(r)), "free_path")

fuse_lib_create ==
  LET opened == Bind(lookup_path_fi, LAMBDA r :
                  IF r # "ok" THEN Then(fuse_fs_release, Return("err"))
                  ELSE Return("ok") \cup Then(fuse_fs_release, Then(Do("forget"), Return("err"))))
  IN  HoldingPath(WithInterrupt(IfOk(fuse_fs_create, opened)), fuse_reply_create,
                  Then(fuse_do_release, Do("forget")))

(* auto_cache asks for the attributes again when they are old.             *)
open_auto_cache == Return("ok") \cup Then(fuse_fs_fgetattr, Return("ok"))
fuse_lib_open   == HoldingPath(WithInterrupt(IfOk(fuse_fs_open, open_auto_cache)), fuse_reply_open, fuse_do_release)

fuse_lib_read      == After(Answer(OnNullPath(fuse_fs_read_buf), fuse_reply_data), fuse_free_buf)
fuse_lib_write_buf == Answer(OnNullPath(fuse_fs_write_buf), fuse_reply_write)
fuse_lib_fsync     == Answer(OnNullPath(fuse_fs_fsync), reply_err)

(* The handle of a directory lives from opendir to releasedir.             *)
fuse_lib_opendir ==
  LET undo   == Then(fuse_fs_releasedir, Do("free_dh"))
      taken  == Unless(fuse_reply_open, undo)
      failed == Then(reply_err, Do("free_dh"))
      held   == Within("path", Bind(WithInterrupt(fuse_fs_opendir), LAMBDA r : IF r = "ok" THEN taken ELSE failed),
                       "free_path")
  IN  reply_err \cup Then(Do("dh"), held \cup failed)

readdir_fill        == OnNullPath(fuse_fs_readdir \cup Then(fuse_fs_readdir, Return("err")))
fuse_lib_readdir    == Within("dh_lock", Answer(Return("ok") \cup readdir_fill, fuse_reply_buf), "dh_unlock")

(* Without a path the file system is given "-".                            *)
WithAnyPath(m)      == m \cup Within("path", m, "free_path")
fuse_lib_releasedir ==
  Then(WithAnyPath(WithInterrupt(fuse_fs_releasedir)),
       Then(Do("dh_lock"), Then(Do("dh_unlock"), Then(Do("free_dh"), reply_err))))

fuse_lib_fsyncdir   == Answer(OnNullPath(fuse_fs_fsyncdir), reply_err)
fuse_lib_statfs     == Answer(OnPath(fuse_fs_statfs) \cup WithInterrupt(fuse_fs_statfs), fuse_reply_statfs)
fuse_lib_setxattr   == Answer(OnPath(fuse_fs_setxattr), reply_err)
common_getxattr     == OnPath(fuse_fs_getxattr)
common_listxattr    == OnPath(fuse_fs_listxattr)

(* A value is asked for with memory for it, its size without.              *)
Sized(m)            == reply_err \cup Within("malloc", Answer(m, fuse_reply_buf), "free") \cup Answer(m, fuse_reply_xattr)
fuse_lib_getxattr   == Sized(common_getxattr)
fuse_lib_listxattr  == Sized(common_listxattr)
fuse_lib_removexattr == Answer(OnPath(fuse_fs_removexattr), reply_err)

(* flush also drops the owner's locks.                                     *)
fuse_flush_common   == WithInterrupt(Bind(fuse_fs_flush, LAMBDA r :
                         Bind(fuse_fs_lock, LAMBDA l : IF l # "nosys" /\ r = "nosys" THEN Return("ok") ELSE Return(r))))
fuse_lib_flush      == Answer(WithAnyPath(fuse_flush_common), reply_err)
fuse_lib_release    ==
  Then(WithAnyPath(Then(fuse_flush_common \cup Return("ok"), WithInterrupt(fuse_do_release))), reply_err)

fuse_lock_common    == OnNullPath(fuse_fs_lock)
fuse_lib_getlk      == Answer(Return("ok") \cup fuse_lock_common, fuse_reply_lock)
fuse_lib_setlk      == Answer(fuse_lock_common, reply_err)
fuse_lib_flock      == Answer(OnNullPath(fuse_fs_flock), reply_err)
fuse_lib_bmap       == Answer(OnPath(fuse_fs_bmap), fuse_reply_bmap)

(* The answer carries the result of the operation, an error too.           *)
fuse_lib_ioctl ==
  LET call     == Return("refused") \cup WithAnyPath(Then(WithInterrupt(fuse_fs_ioctl), Return("ok")))
      answer   == Bind(call, LAMBDA r : IF r = "ok" THEN fuse_reply_ioctl ELSE reply_err)
  IN  reply_err \cup Within("malloc", answer, "free") \cup answer

fuse_lib_poll       == Answer(OnNullPath(fuse_fs_poll), fuse_reply_poll)
fuse_lib_fallocate  == Answer(OnNullPath(fuse_fs_fallocate), reply_err)

=============================================================================

------------------------------- MODULE FuseFs --------------------------------
(***************************************************************************)
(* libfuse, lib/fuse.c: the fuse_fs_ functions, which call an operation of *)
(* the file system when it has one.  Effects: "op" an operation is called; *)
(* "opened", "closed", "opendir", "closedir" of a file and a directory;    *)
(* "malloc", "free" of memory the function owns; "buf" a buffer given to   *)
(* the caller, "free_buf" frees it when there is one; "op_init",           *)
(* "op_destroy" two operations of their own; "module", "put" a module in   *)
(* use; "fs", "free_fs" the file system object.                            *)
(***************************************************************************)
EXTENDS Effects

(* An operation the file system has, and what stands in for a missing one. *)
Op        == {Run(<<"op">>, "ok"), Run(<<"op">>, "err")}
OrNosys   == Op \cup Return("nosys")
OrNothing == Op \cup Return("ok")

(* The older signatures of four operations (fs->compat); each is one call. *)
fuse_compat_open    == Op
fuse_compat_release == Op
fuse_compat_opendir == Op
fuse_compat_statfs  == Op

fuse_fs_getattr     == OrNosys \cup {Run(<<"op">>, "noent")}
fuse_fs_fgetattr    == Op \cup fuse_fs_getattr
fuse_fs_rename      == OrNosys
fuse_fs_unlink      == OrNosys
fuse_fs_rmdir       == OrNosys
fuse_fs_symlink     == OrNosys
fuse_fs_link        == OrNosys
fuse_fs_release     == After(fuse_compat_release \cup Return("ok"), Do("closed"))
fuse_fs_opendir     == IfOk(fuse_compat_opendir \cup Return("ok"), Do("opendir"))
fuse_fs_open        == IfOk(fuse_compat_open \cup Return("ok"), Do("opened"))

(* read_buf gives the caller a buffer; read is given one made here, which  *)
(* the caller has also when read fails.                                    *)
fuse_fs_read_buf ==
  LET read_buf == IfOk(Op, Do("buf"))
      read     == Return("err") \cup Then(Do("malloc"), Then(Do("free"), Return("err"))) \cup Then(Do("buf"), Op)
  IN  read_buf \cup read \cup Return("nosys")

fuse_free_buf       == Do("free_buf")
fuse_buf_copy       == Return("ok") \cup Return("err")
fuse_fs_read        == After(IfOk(fuse_fs_read_buf, fuse_buf_copy), fuse_free_buf)

(* write is given flat memory: the buffer's own, or a copy made here.      *)
fuse_fs_write_buf ==
  LET flat == Op
      copy == Return("err") \cup Within("malloc", IfOk(fuse_buf_copy, Op), "free")
  IN  Op \cup flat \cup copy \cup Return("nosys")

fuse_fs_write       == fuse_fs_write_buf
fuse_fs_fsync       == OrNosys
fuse_fs_fsyncdir    == OrNosys
fuse_fs_flush       == OrNosys
fuse_fs_statfs      == fuse_compat_statfs \cup Return("ok")
fuse_fs_releasedir  == After(OrNothing, Do("closedir"))
fuse_fs_readdir     == LET getdir == Op IN Op \cup getdir \cup Return("nosys")
fuse_fs_create      == IfOk(OrNosys, Do("opened"))
fuse_fs_lock        == OrNosys
fuse_fs_flock       == OrNosys
fuse_fs_chown       == OrNosys
fuse_fs_truncate    == OrNosys
fuse_fs_ftruncate   == Op \cup fuse_fs_truncate
fuse_fs_utimens     == LET utime == Op IN Op \cup utime \cup Return("nosys")
fuse_fs_access      == OrNosys
fuse_fs_readlink    == OrNosys
fuse_fs_mknod       == OrNosys
fuse_fs_mkdir       == OrNosys
fuse_fs_setxattr    == OrNosys
fuse_fs_getxattr    == OrNosys
fuse_fs_listxattr   == OrNosys
fuse_fs_bmap        == OrNosys
fuse_fs_removexattr == OrNosys
fuse_fs_ioctl       == OrNosys
fuse_fs_poll        == OrNosys
fuse_fs_fallocate   == OrNosys
fuse_fs_chmod       == OrNosys
fuse_fs_init        == Do("op_init") \cup Return("ok")

(* A file system with the operation op; one that came from a module gives  *)
(* the module back.                                                        *)
Destroy         == Do("op_destroy") \cup Return("ok")
fuse_put_module == {Run(<<"context_lock", "put", "context_unlock">>, "ok")}
fuse_fs_destroy(op, pushed) ==
  Then(op, Then(IF pushed THEN fuse_put_module ELSE Return("ok"), Do("free_fs")))

=============================================================================

----------------------------- MODULE FuseModules -----------------------------
(***************************************************************************)
(* libfuse, lib/modules/subdir.c and iconv.c: file systems stacked on      *)
(* another one.  Each operation translates its path, calls the operation   *)
(* of the next file system (the fuse_fs_ functions of FuseFs) and frees    *)
(* the translated path.  More effects: "ic_lock", "ic_unlock" the mutex of *)
(* the iconv descriptors, "iconv", "iconv_close" the descriptors, "old",   *)
(* "free_old" the name of the locale.                                      *)
(***************************************************************************)
EXTENDS FuseFs

(* The call between a translation that may fail and the free of its        *)
(* result; a missing path is passed on as it is.                           *)
Translated(path, call) == call \cup Bind(path, LAMBDA r : IF r = "ok" THEN After(call, Do("free")) ELSE Return(r))

subdir_addpath   == Try("malloc")
Subdir(call)     == Translated(subdir_addpath, call)

subdir_getattr     == Subdir(fuse_fs_getattr)
subdir_fgetattr    == Subdir(fuse_fs_fgetattr)
subdir_access      == Subdir(fuse_fs_access)
subdir_opendir     == Subdir(fuse_fs_opendir)
subdir_readdir     == Subdir(fuse_fs_readdir)
subdir_releasedir  == Subdir(fuse_fs_releasedir)
subdir_mknod       == Subdir(fuse_fs_mknod)
subdir_mkdir       == Subdir(fuse_fs_mkdir)
subdir_unlink      == Subdir(fuse_fs_unlink)
subdir_rmdir       == Subdir(fuse_fs_rmdir)
subdir_chmod       == Subdir(fuse_fs_chmod)
subdir_chown       == Subdir(fuse_fs_chown)
subdir_truncate    == Subdir(fuse_fs_truncate)
subdir_ftruncate   == Subdir(fuse_fs_ftruncate)
subdir_utimens     == Subdir(fuse_fs_utimens)
subdir_create      == Subdir(fuse_fs_create)
subdir_open        == Subdir(fuse_fs_open)
subdir_read_buf    == Subdir(fuse_fs_read_buf)
subdir_write_buf   == Subdir(fuse_fs_write_buf)
subdir_statfs      == Subdir(fuse_fs_statfs)
subdir_flush       == Subdir(fuse_fs_flush)
subdir_release     == Subdir(fuse_fs_release)
subdir_fsync       == Subdir(fuse_fs_fsync)
subdir_fsyncdir    == Subdir(fuse_fs_fsyncdir)
subdir_setxattr    == Subdir(fuse_fs_setxattr)
subdir_getxattr    == Subdir(fuse_fs_getxattr)
subdir_listxattr   == Subdir(fuse_fs_listxattr)
subdir_removexattr == Subdir(fuse_fs_removexattr)
subdir_lock        == Subdir(fuse_fs_lock)
subdir_flock       == Subdir(fuse_fs_flock)
subdir_bmap        == Subdir(fuse_fs_bmap)
subdir_readlink    == Subdir(fuse_fs_readlink)
subdir_symlink     == Subdir(fuse_fs_symlink)
subdir_rename      == Subdir(Subdir(fuse_fs_rename))
subdir_link        == Subdir(Subdir(fuse_fs_link))
subdir_init        == fuse_fs_init
subdir_destroy(op) == Then(fuse_fs_destroy(op, FALSE), Do("free"))

(* A conversion that does not fit is tried again with more memory.         *)
iconv_convpath ==
  LET failed == {Run(<<"malloc", "ic_lock", "ic_unlock", "free">>, "err")}
  IN  Return("err") \cup failed \cup {Run(<<"malloc", "ic_lock", "ic_unlock">>, "ok")}
Iconv(call)        == Translated(iconv_convpath, call)

iconv_getattr      == Iconv(fuse_fs_getattr)
iconv_fgetattr     == Iconv(fuse_fs_fgetattr)
iconv_access       == Iconv(fuse_fs_access)
iconv_opendir      == Iconv(fuse_fs_opendir)
(* A name that cannot be converted is left out of the directory.           *)
iconv_dir_fill     == Bind(iconv_convpath, LAMBDA r : IF r = "ok" THEN Do("free") ELSE Return("ok"))
iconv_readdir      == Iconv(Bind(fuse_fs_readdir, LAMBDA r :
                        IF r = "nosys" THEN Return(r) ELSE After(Return(r), Return("ok") \cup iconv_dir_fill)))
iconv_releasedir   == Iconv(fuse_fs_releasedir)
iconv_mknod        == Iconv(fuse_fs_mknod)
iconv_mkdir        == Iconv(fuse_fs_mkdir)
iconv_unlink       == Iconv(fuse_fs_unlink)
iconv_rmdir        == Iconv(fuse_fs_rmdir)
iconv_chmod        == Iconv(fuse_fs_chmod)
iconv_chown        == Iconv(fuse_fs_chown)
iconv_truncate     == Iconv(fuse_fs_truncate)
iconv_ftruncate    == Iconv(fuse_fs_ftruncate)
iconv_utimens      == Iconv(fuse_fs_utimens)
iconv_create       == Iconv(fuse_fs_create)
iconv_open_file    == Iconv(fuse_fs_open)
iconv_read_buf     == Iconv(fuse_fs_read_buf)
iconv_write_buf    == Iconv(fuse_fs_write_buf)
iconv_statfs       == Iconv(fuse_fs_statfs)
iconv_flush        == Iconv(fuse_fs_flush)
iconv_release      == Iconv(fuse_fs_release)
iconv_fsync        == Iconv(fuse_fs_fsync)
iconv_fsyncdir     == Iconv(fuse_fs_fsyncdir)
iconv_setxattr     == Iconv(fuse_fs_setxattr)
iconv_getxattr     == Iconv(fuse_fs_getxattr)
iconv_listxattr    == Iconv(fuse_fs_listxattr)
iconv_removexattr  == Iconv(fuse_fs_removexattr)
iconv_lock         == Iconv(fuse_fs_lock)
iconv_flock        == Iconv(fuse_fs_flock)
iconv_bmap         == Iconv(fuse_fs_bmap)
iconv_readlink     == Iconv(IfOk(fuse_fs_readlink, Bind(iconv_convpath, LAMBDA r : IF r = "ok" THEN Do("free") ELSE Return(r))))
iconv_symlink      == Iconv(Iconv(fuse_fs_symlink))
iconv_rename       == Iconv(Iconv(fuse_fs_rename))
iconv_link         == Iconv(Iconv(fuse_fs_link))
iconv_init         == fuse_fs_init
iconv_destroy(op)  ==
  Then(fuse_fs_destroy(op, FALSE), {Run(<<"iconv_close", "iconv_close", "free">>, "ok")})

(* What the factory of a module makes, or the memory it takes back.        *)
fuse_fs_new        == Try("fs")
subdir_new         == Acquire(Try("malloc"), Do("free"), Return("err") \cup fuse_fs_new)

(* The second iconv_open is followed by a check of the first one's result; *)
(* the name of the locale is freed once more when the last step fails.     *)
iconv_new ==
  LET All(ev)          == {Run(ev, "ok")}
      failed(free)     == {Run(<<"free">> \o free, "err")}
      opened           == Then(Do("iconv"), Do("iconv") \cup Do("iconv_failed"))
      made(free)       == Bind(fuse_fs_new, LAMBDA r :
                            IF r = "ok" THEN Return(r)
                            ELSE Then(All(<<"iconv_close", "iconv_close">>), failed(free)))
      opening(old, free) == Then(All(old), failed(free) \cup Then(opened, Then(All(free), made(free))))
  IN  IfOk(Try("malloc"), failed(<<>>) \cup opening(<<>>, <<>>) \cup opening(<<"old">>, <<"free_old">>))

(* The operations a module offers.                                         *)
SubdirOps ==
  [getattr |-> subdir_getattr, fgetattr |-> subdir_fgetattr, access |-> subdir_access,
   opendir |-> subdir_opendir, readdir |-> subdir_readdir, releasedir |-> subdir_releasedir,
   mknod |-> subdir_mknod, mkdir |-> subdir_mkdir, unlink |-> subdir_unlink, rmdir |-> subdir_rmdir,
   chmod |-> subdir_chmod, chown |-> subdir_chown, truncate |-> subdir_truncate,
   ftruncate |-> subdir_ftruncate, utimens |-> subdir_utimens, create |-> subdir_create, open |-> subdir_open,
   read_buf |-> subdir_read_buf, write_buf |-> subdir_write_buf, statfs |-> subdir_statfs,
   flush |-> subdir_flush, release |-> subdir_release, fsync |-> subdir_fsync, fsyncdir |-> subdir_fsyncdir,
   setxattr |-> subdir_setxattr, getxattr |-> subdir_getxattr, listxattr |-> subdir_listxattr,
   removexattr |-> subdir_removexattr, lock |-> subdir_lock, flock |-> subdir_flock, bmap |-> subdir_bmap,
   readlink |-> subdir_readlink, symlink |-> subdir_symlink, rename |-> subdir_rename, link |-> subdir_link,
   init |-> subdir_init]
IconvOps ==
  [getattr |-> iconv_getattr, fgetattr |-> iconv_fgetattr, access |-> iconv_access, opendir |-> iconv_opendir,
   readdir |-> iconv_readdir, releasedir |-> iconv_releasedir, mknod |-> iconv_mknod, mkdir |-> iconv_mkdir,
   unlink |-> iconv_unlink, rmdir |-> iconv_rmdir, chmod |-> iconv_chmod, chown |-> iconv_chown,
   truncate |-> iconv_truncate, ftruncate |-> iconv_ftruncate, utimens |-> iconv_utimens,
   create |-> iconv_create, open_file |-> iconv_open_file, read_buf |-> iconv_read_buf,
   write_buf |-> iconv_write_buf, statfs |-> iconv_statfs, flush |-> iconv_flush, release |-> iconv_release,
   fsync |-> iconv_fsync, fsyncdir |-> iconv_fsyncdir, setxattr |-> iconv_setxattr,
   getxattr |-> iconv_getxattr, listxattr |-> iconv_listxattr, removexattr |-> iconv_removexattr,
   lock |-> iconv_lock, flock |-> iconv_flock, bmap |-> iconv_bmap, readlink |-> iconv_readlink,
   symlink |-> iconv_symlink, rename |-> iconv_rename, link |-> iconv_link, init |-> iconv_init]

=============================================================================

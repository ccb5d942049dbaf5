----------------------------- MODULE FusePrograms ----------------------------
(***************************************************************************)
(* What is called in libfuse, with the set of its runs:                    *)
(*   requests  from the device to the answer, through the low-level and    *)
(*             high-level library and the file system's operation          *)
(*             (FuseLowlevel, FuseLib, FuseFs, FuseReply)                  *)
(*   mains     a program from its command line to its end (FuseSetup)      *)
(*   calls     operations of the modules (FuseModules), mounts (FuseMount) *)
(*             and notifications                                           *)
(*   fusermount  the program that mounts for a user (Fusermount)           *)
(***************************************************************************)
EXTENDS FuseSetup, Fusermount

CONSTANT Large      \* the opcodes whose requests may come through the pipe

Confs == [mp : BOOLEAN, auto : BOOLEAN, module : {"none", "subdir", "iconv", "unknown"}, intr : BOOLEAN]

Mains ==
  {<<"main", c.module, fuse_main_common(c)>> : c \in Confs} \cup {<<"main", "cuse", cuse_lowlevel_main>>}

Requests ==
  {<<"request", o, fuse_ll_process_buf(o, fd)>> : <<o, fd>> \in
     {<<o, FALSE>> : o \in DOMAIN fuse_ll_ops} \cup {<<o, TRUE>> : o \in Large}}

Calls ==
  {<<"call", f, SubdirOps[f]>> : f \in DOMAIN SubdirOps} \cup
  {<<"call", f, IconvOps[f]>> : f \in DOMAIN IconvOps} \cup
  {<<"call", "read", fuse_fs_read>>, <<"call", "write", fuse_fs_write>>} \cup
  {<<"call", "mount", m>> : m \in {fuse_kern_mount(FALSE), fuse_kern_mount(TRUE), fuse_mount_compat22}} \cup
  {<<"call", "unmount", m>> : m \in {fuse_kern_unmount(TRUE, TRUE), fuse_unmount_compat22}} \cup
  {<<"call", "mtab", fuse_mnt_remove_mount>>, <<"call", "subtype", add_default_subtype>>} \cup
  {<<"call", "notify", n>> : n \in Notifications} \cup
  {<<"call", IF root THEN "fusermount by root" ELSE "fusermount", fusermount_main(root, auto, unmount)>> :
     <<root, auto, unmount>> \in BOOLEAN \X BOOLEAN \X BOOLEAN}

AllPrograms == Mains \cup Requests \cup Calls
=============================================================================

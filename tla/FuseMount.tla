------------------------------ MODULE FuseMount ------------------------------
(***************************************************************************)
(* libfuse, lib/mount.c and lib/mount_util.c: the file system is mounted   *)
(* by the program itself, or by the program fusermount, which sends the    *)
(* descriptor of the device back (module Fusermount).                      *)
(* Effects:                                                                *)
(*   "mount", "unmount"    the file system; "unmounted" it was already     *)
(*                         gone; "no_unmount" it cannot be; "undo_mount"   *)
(*                         by the function that mounted it                 *)
(*   "fd", "close"         the descriptor of the device                    *)
(*   "no_mount"            no mount, and no error the caller tests for:    *)
(*                         help was asked for, or memory ran out in        *)
(*                         fuse_mount_sys (0) or before fusermount (-2)    *)
(*   "sock", "close_sock"  the ends of a socket to fusermount; "kept" one  *)
(*                         that fusermount waits on (auto_unmount)         *)
(*   "block", "unblock"    SIGCHLD, "fork" and "wait" for a child          *)
(*   "mtab", "umtab"       an entry of /etc/mtab is made, removed          *)
(***************************************************************************)
EXTENDS Effects

(* The commands run by a child while SIGCHLD is blocked.  A child's status *)
(* decides; the mask is restored on every path but the first.              *)
Command(e) ==
  Return("err") \cup Within("block", Return("err") \cup Within("fork", Do(e) \cup Return("err"), "wait"), "unblock")
add_mount    == Command("mtab")
exec_umount  == Command("unmount")
remove_mount == Command("umtab")

(* /etc/mtab is left alone when it is a link, missing or read-only.        *)
mtab_needs_update     == Return("yes") \cup Return("no")
IfMtab(m, n)          == Bind(mtab_needs_update, LAMBDA r : IF r = "yes" THEN m ELSE n)
fuse_mnt_add_mount    == IfMtab(add_mount, Return("ok"))
fuse_mnt_umount       == IfMtab(exec_umount, Try("unmount"))
fuse_mnt_remove_mount == IfMtab(remove_mount, Return("ok"))
fuse_mnt_resolve_path == Return("err") \cup Within("copy", Try("malloc"), "free_copy")
fuse_mnt_check_empty  == Return("ok") \cup Return("err") \cup Within("dir", Return("ok") \cup Return("err"), "close_dir")
fuse_mnt_check_fuseblk == Return("ok") \cup Return("err") \cup Within("fopen", Return("ok") \cup Return("err"), "fclose")

(* The device's descriptor is closed first: an unmount that waits would    *)
(* wait for this process.                                                  *)
exec_fusermount == Try("unmount")
fuse_kern_unmount(mp, fd) ==
  LET child == Within("fork", exec_fusermount, "wait")
      tried == Bind(fuse_mnt_umount \cup Try("unmount") \cup child, LAMBDA r :
                 IF r = "ok" THEN Return(r) ELSE Do("no_unmount"))
  IN  CASE ~mp   -> Return("ok")
        [] fd    -> Then(Do("close"), Do("unmounted") \cup tried)
        [] OTHER -> tried

fuse_unmount_compat22 == fuse_kern_unmount(TRUE, FALSE)

receive_fd == Return("err") \cup {Run(<<"mount", "fd">>, "ok")}

(* With auto_unmount the socket stays open, for fusermount to see it close *)
(* when this process ends.                                                 *)
fuse_mount_fusermount(auto) ==
  LET forked == Then(Do("close_sock"),
                     IF auto THEN After(receive_fd, Do("kept"))
                     ELSE After(receive_fd, {Run(<<"close_sock", "wait">>, "ok")}))
      failed == {Run(<<"close_sock", "close_sock">>, "err")}
  IN  IfOk({Run(<<"sock", "sock">>, "ok")} \cup Return("err"), failed \cup Then(Do("fork"), forked))
fuse_mount_compat22 == fuse_mount_fusermount(FALSE)

(* Only fusermount can unmount by itself, or mount for a plain user.       *)
fuse_mount_sys(auto) ==
  LET entered == Return("ok") \cup IfOk(fuse_mnt_resolve_path, After(fuse_mnt_add_mount, Do("free")))
      refused == Return("err") \cup Return("fallback") \cup Then(fuse_mnt_check_fuseblk, Return("err"))
      mounted == Acquire(Do("mount"), Do("undo_mount"), entered)
      made    == OnError(Within("malloc", refused \cup mounted, "free"), Do("close"))
      nomem   == Return("err") \cup Then(Do("no_mount"), Return("ok"))
      opened  == made \cup After(nomem, Do("close"))
      checked == IfOk(fuse_mnt_check_empty \cup Return("ok"),
                      IF auto THEN Return("fallback") ELSE IfOk(Try("fd"), opened))
  IN  Return("err") \cup checked

(* The option strings made on the way are freed at the end.                *)
get_mnt_flag_opts == Return("ok") \cup Return("err")
fuse_kern_mount(auto) ==
  LET again   == fuse_mount_fusermount(auto)
      subtype == Bind(again, LAMBDA r : IF r = "ok" THEN Return(r) ELSE again)
      fall    == Then(Do("no_mount"), Return("ok")) \cup Return("err") \cup again \cup Within("malloc", subtype, "free")
      mounted == Bind(fuse_mount_sys(auto), LAMBDA r : IF r = "fallback" THEN fall ELSE Return(r))
      help    == Then(Do("no_mount"), Return("ok"))
  IN  Return("err") \cup help \cup Within("opts", IfOk(get_mnt_flag_opts, mounted), "free_opts")

=============================================================================

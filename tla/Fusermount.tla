----------------------------- MODULE Fusermount ------------------------------
(***************************************************************************)
(* util/fusermount.c: the program that mounts and unmounts for a user.  It *)
(* is started by root or, with the rights of root, by a user; what it does *)
(* as that user is between "drop" and "restore".  More effects:            *)
(*   "conf", "examine"         fuse.conf, the mount point are looked at    *)
(*   "mp_fd", "close_mp"       a mount point that is a file is opened      *)
(*   "mtab_lock", "mtab_unlock"  /etc/mtab is locked                       *)
(*   "umount2"                 the file system is unmounted                *)
(*   "send"                    the device's descriptor goes to the library *)
(*   "waited"                  the library's process has ended             *)
(***************************************************************************)
EXTENDS FuseMount

(* The commands and checks of FuseMount, by what matters here.             *)
Seen(m)             == Showing(m, {"mtab", "umtab"})
OkOrErr             == Return("ok") \cup Return("err")
drop_privs(root)    == IF root THEN Return("ok") ELSE Do("drop")
restore_privs(root) == IF root THEN Return("ok") ELSE Do("restore")

(* --- unmounting *)
(* Without the lock it goes on all the same.                               *)
lock_umount         == Try("mtab_lock")
unlock_umount(lock) == IF lock = "ok" THEN Do("mtab_unlock") ELSE Return("ok")
may_unmount         == Return("err") \cup Within("fopen", OkOrErr, "fclose")

(* A process of its own finds out whether the mount point is one.          *)
check_is_mount_child ==
  LET bound   == Return("err") \cup Then(Do("fclose"), OkOrErr)
      counted == Then(Within("fopen", Return("ok"), "fclose"), Return("err") \cup Then(Do("fopen"), bound))
  IN  Return("err") \cup counted
clone_newns         == Showing(check_is_mount_child, {})
check_is_mount      == Return("err") \cup Within("fork", clone_newns, "wait")
chdir_to_parent     == OkOrErr
umount_nofollow_support == Return("yes") \cup Return("no")

unmount_fuse_locked(root) ==
  LET place   == Bind(umount_nofollow_support, LAMBDA r : IF r = "yes" THEN Return("ok") ELSE check_is_mount)
      removed == IfOk(OkOrErr, Seen(fuse_mnt_remove_mount))
      undone  == IfOk(chdir_to_parent, IfOk(place, IfOk(Try("umount2"), removed)))
  IN  IfOk(IF root THEN Return("ok") ELSE may_unmount, IfOk(OkOrErr, undone))

unmount_fuse(root) == Bind(lock_umount, LAMBDA lock : After(unmount_fuse_locked(root), unlock_umount(lock)))

(* --- mounting *)
count_fuse_fs == Return("few") \cup Within("fopen", Return("few") \cup Return("many"), "fclose")
read_conf     == Return("ok") \cup Within("fopen", Do("conf"), "fclose")
get_mnt_opts  == {Run(<<"malloc">>, "ok"), Run(<<"malloc", "free">>, "err"), Run(<<>>, "err")}

(* The options are parsed into strings, freed when the mount fails; the    *)
(* source, the type and the options of a mount are the caller's.           *)
do_mount ==
  LET mounted == Try("mount") \cup Then(Seen(fuse_mnt_check_fuseblk), Return("err"))
      made    == Return("err") \cup Acquire(Do("malloc"), Do("free"), mounted)
      checked == IfOk(Seen(fuse_mnt_check_empty) \cup Return("ok"), made)
      opts    == Acquire(get_mnt_opts, Do("free"), checked)
      named   == opts \cup Within("malloc", opts \cup Return("err"), "free")
      typed   == named \cup Acquire(Do("subtype"), Do("free_subtype"), named)
  IN  Return("err") \cup Within("malloc", typed \cup Return("err"), "free")

check_version == OkOrErr \cup Within("fopen", OkOrErr, "fclose")

(* Root may mount anywhere; a user on a directory they can write, or on a  *)
(* file they can open.                                                     *)
check_perm(root) ==
  IF root THEN OkOrErr
  ELSE Return("err") \cup Then(Do("examine"), OkOrErr \cup Then(Do("mp_fd"), Return("ok_file") \cup Return("err_file")))

try_open == {Run(<<"fd", "malloc">>, "ok"), Run(<<"fd", "close">>, "err")} \cup Return("err") \cup Return("missing")
(* The device is opened as the user; by its old name with all rights.      *)
try_open_fuse_device(root) ==
  Bind(Then(drop_privs(root), After(try_open, restore_privs(root))), LAMBDA r :
    IF r = "ok" THEN Return(r) ELSE Bind(try_open, LAMBDA s : Return(IF s = "ok" THEN s ELSE r)))
open_fuse_device(root) == Taking(try_open_fuse_device(root), "missing", "err")

(* Mutant: the rights come back only after the mount.                      *)
mount_fuse_Late(root) ==
  LET mounted(r) == After(IF r \in {"ok", "ok_file"} THEN do_mount ELSE Return("err"), restore_privs(root))
      allowed == Bind(check_perm(root), LAMBDA r :
                   IF r \in {"ok_file", "err_file"} THEN After(mounted(r), Do("close_mp")) ELSE mounted(r))
  IN  IfOk(open_fuse_device(root), Then(drop_privs(root), allowed))

(* A user's number of mounts is limited.  What fails after the mount       *)
(* leaves it ("Can't clean up mount in a non-racy way").                   *)
mount_fuse(root) ==
  LET few     == IF root THEN Return("few") ELSE count_fuse_fs \cup Return("few")
      mounted(r) == Then(restore_privs(root), IF r \in {"ok", "ok_file"} THEN do_mount ELSE Return("err"))
      allowed == Bind(check_perm(root), LAMBDA r :
                   IF r \in {"ok_file", "err_file"} THEN After(mounted(r), Do("close_mp")) ELSE mounted(r))
      version == Bind(check_version, LAMBDA r :
                   IF r = "ok" THEN allowed ELSE Then(restore_privs(root), Return("err")))
      entered == After(IfOk(OkOrErr, Return("ok") \cup Seen(fuse_mnt_add_mount)), {Run(<<"free", "free">>, "ok")})
      user    == Then(drop_privs(root), Then(read_conf, Bind(few, LAMBDA r :
                   IF r = "many" THEN Return("err") ELSE IfOk(version, entered))))
  IN  IfOk(open_fuse_device(root), After(OnError(user, Do("close")), Do("free")))

(* The library asks for a mount, or anyone for an unmount.  With           *)
(* auto_unmount the program stays until its end of the socket closes.      *)
send_fd == Try("send")
fusermount_main(root, auto, unmount) ==
  LET path     == Then(drop_privs(root), IfOk(Seen(fuse_mnt_resolve_path), OkOrErr))
      undo     == unmount_fuse(root) \cup Try("umount2")
      waiting  == IF auto THEN IfOk(OkOrErr, Then(Do("waited"), undo)) ELSE Return("ok")
      mounting == Return("err") \cup IfOk(mount_fuse(root), IfOk(send_fd, Then(Do("close"), waiting)))
      started  == IfOk(path, Then(restore_privs(root), IF unmount THEN undo ELSE mounting))
  IN  Return("err") \cup started

=============================================================================

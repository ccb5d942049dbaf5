------------------------------ MODULE FuseSetup ------------------------------
(***************************************************************************)
(* libfuse: how a file system (lib/helper.c, lib/fuse.c) or a character    *)
(* device (lib/cuse_lowlevel.c) is set up and torn down, with the session, *)
(* the channel (lib/fuse_session.c, lib/fuse_kern_chan.c) and the signal   *)
(* handlers (lib/fuse_signals.c).  conf is what the command line asks for: *)
(*   mp      a mount point is given                                        *)
(*   auto    auto_unmount                                                  *)
(*   module  the module to push, or "none"                                 *)
(*   intr    interrupts by a signal that has its default action            *)
(* More effects are pairs like "chan", "free_chan", and "attach", "detach" *)
(* of the channel; "parsed" the command line is accepted; "late" fuse_new  *)
(* fails with the channel attached.                                        *)
(***************************************************************************)
EXTENDS FuseLowlevel, FuseModules, FuseMount

(* --- sessions and channels *)
fuse_session_new           == Try("session")
fuse_session_add_chan      == Do("attach")
fuse_session_remove_chan(attached) == IF attached THEN Do("detach") ELSE Return("ok")
fuse_chan_new_common       == Try("chan")
fuse_chan_new              == fuse_chan_new_common
fuse_kern_chan_new         == fuse_chan_new
fuse_kern_chan_destroy(fd) == IF fd THEN Do("close") ELSE Return("ok")
fuse_chan_destroy(attached, fd) ==
  Then(fuse_session_remove_chan(attached), Then(fuse_kern_chan_destroy(fd), Do("free_chan")))

(* The operation is called when INIT came and DESTROY did not.             *)
fuse_ll_destroy(destroy, cuse) ==
  Then(destroy, Then(fuse_ll_pipe_free \cup Return("ok"),
       Then(IF cuse THEN Do("free_cuse") ELSE Return("ok"), Do("free_ll"))))
fuse_session_destroy(destroy, attached, cuse) ==
  Then(fuse_ll_destroy(destroy, cuse),
       Then(IF attached THEN fuse_chan_destroy(TRUE, TRUE) ELSE Return("ok"), Do("free_session")))

fuse_lowlevel_new_common   == Acquire(Try("ll"), Do("free_ll"), Return("err") \cup fuse_session_new)

(* --- signals; exit_handler exits the session fuse_instance names *)
set_one_signal_handler      == Try("handler")
fuse_set_signal_handlers    ==
  LET two == IfOk(set_one_signal_handler, set_one_signal_handler)
  IN  IfOk(IfOk(two, two), Do("instance"))
(* A handler is only changed from the default, so these stay.              *)
fuse_remove_signal_handlers == Do("no_instance")

(* --- modules *)
fuse_load_so_name ==
  LET opened == OnError(Return("ok") \cup Return("err"), Do("dlclose"))
  IN  Acquire(Try("so"), Do("free_so"), IfOk(Try("dlopen"), opened))
fuse_load_so_module == IfOk(Return("ok") \cup Return("err"), Within("malloc", fuse_load_so_name, "free"))
fuse_find_module(m) == IF m \in {"subdir", "iconv"} THEN Do("module") ELSE Return("err")
fuse_get_module(m)  ==
  Within("context_lock",
         Bind(fuse_find_module(m), LAMBDA r : IF r = "ok" THEN Return(r) ELSE IfOk(fuse_load_so_module, fuse_find_module(m))),
         "context_unlock")
fuse_push_module(m) ==
  Showing(Acquire(fuse_get_module(m), fuse_put_module, IF m = "iconv" THEN iconv_new ELSE subdir_new),
          {"module", "put", "fs", "malloc", "free", "so", "dlopen", "dlclose", "free_so"})

(* The file system on top, whose own destroy operation goes down to op.    *)
Stacked(m, op) ==
  CASE m = "subdir" -> fuse_fs_destroy(subdir_destroy(op), TRUE)
    [] m = "iconv"  -> fuse_fs_destroy(iconv_destroy(op), TRUE)
    [] OTHER        -> fuse_fs_destroy(op, FALSE)

(* --- the fuse object *)
fuse_create_context_key     == Try("key")
fuse_delete_context_key     == Do("free_key")
node_table_init             == Try("table")
fuse_init_intr_signal(intr) == IF intr THEN Try("intr") ELSE Return("ok")

(* Failures after the session exists destroy it, and the channel with it;  *)
(* a failure never calls the destroy operation ("Horrible compatibility    *)
(* hack to stop the destructor from being called").                        *)
fuse_new_common(conf) ==
  LET freed(m) == Stacked(m, Return("ok"))
      root     == Acquire(Try("root"), Do("free_root"), IfOk(fuse_init_intr_signal(conf.intr), Do("hash_root")))
      tables   == Acquire(node_table_init, Do("free_table"), Acquire(node_table_init, Do("free_table"), root))
      attached == Acquire(fuse_session_add_chan, Then(Do("late"), fuse_session_destroy(Return("ok"), TRUE, FALSE)), tables)
      session  == Return("err") \cup IfOk(fuse_lowlevel_new_common, attached)
      pushed   == IF conf.module = "none" THEN OnError(session, freed("none"))
                  ELSE Bind(fuse_push_module(conf.module), LAMBDA r :
                         IF r = "ok" THEN OnError(session, freed(conf.module))
                         ELSE Then(freed("none"), Return("err")))
      made     == IfOk(fuse_fs_new, pushed \cup Then(freed("none"), Return("err")))
  IN  Acquire(fuse_create_context_key, fuse_delete_context_key, Acquire(Try("fuse"), Do("free_fuse"), made))

(* Files that are still hidden are removed, unless the file system is gone.*)
fuse_restore_intr_signal(intr) == IF intr THEN Do("restore_intr") ELSE Return("ok")
fuse_destroy(conf, got, attached) ==
  LET unlinked == IF got = "destroyed" THEN Return("ok")
                  ELSE Return("ok") \cup Within("malloc", fuse_fs_unlink, "free")
      freed    == {Run(<<"free_root", "free_table", "free_table">>, "ok")}
      destroy  == IF got = "init" THEN Stacked(conf.module, Destroy) ELSE Return("ok")
      rest     == Then(fuse_session_destroy(destroy, attached, FALSE), {Run(<<"free_fuse", "free_key">>, "ok")})
  IN  Then(fuse_restore_intr_signal(conf.intr), Then(unlinked, Then(freed, rest)))

(* --- the program's main *)
add_default_subtype == IfOk(Return("ok") \cup Return("err"), Within("malloc", Return("ok") \cup Return("err"), "free"))
fuse_parse_cmdline(mp) ==
  LET point    == IF mp THEN <<"mp">> ELSE <<>>
      unparsed == {Run(<<>>, "unparsed"), Run(point, "unparsed")}
      failed   == IF mp THEN Do("free_mp") ELSE Return("ok")
      subtype  == Return("ok") \cup Showing(add_default_subtype, {})
  IN  unparsed \cup Acquire({Run(<<"args">> \o point, "ok")}, failed, IfOk(subtype, Do("parsed")))

fuse_daemonize == Return("ok") \cup Return("err") \cup Then(Do("daemon"), Return("ok") \cup Return("err"))

(* What matters of a mount here, and of an unmount.                        *)
Mounting        == {"mount", "fd", "no_mount", "close", "undo_mount", "unmount", "unmounted", "no_unmount"}
Mount(conf)     == Showing(IF conf.mp THEN fuse_kern_mount(conf.auto) ELSE Return("err") \cup Do("no_mount"), Mounting)
Unmount(mp, fd) == Showing(fuse_kern_unmount(mp, fd), Mounting)
fuse_mount_common(conf) == Acquire(Mount(conf), Unmount(conf.mp, TRUE), fuse_kern_chan_new)

(* Without a mount point nothing is undone.                                *)
fuse_unmount_common(mp, attached) ==
  IF mp THEN Then(Unmount(TRUE, TRUE), fuse_chan_destroy(attached, FALSE)) ELSE Return("ok")

fuse_opt_free_args == Do("free_args")
FreePoint(conf) == IF conf.mp THEN Do("free_mp") ELSE Return("ok")

fuse_setup_common(conf) ==
  LET started == IfOk(fuse_daemonize, fuse_set_signal_handlers)
      unmount(attached) == fuse_unmount_common(conf.mp, attached)
      made    == Bind(fuse_new_common(conf), LAMBDA r :
                   Then(fuse_opt_free_args,
                        IF r = "ok" THEN OnError(started, Then(unmount(TRUE), fuse_destroy(conf, "new", ~conf.mp)))
                        ELSE Then(unmount(FALSE), Return("err"))))
      mounted == Bind(fuse_mount_common(conf), LAMBDA r :
                   IF r = "ok" THEN made ELSE Then(fuse_opt_free_args, Return("err")))
  IN  IfOk(fuse_parse_cmdline(conf.mp), OnError(mounted, FreePoint(conf)))

(* What the loop has handled: nothing, INIT, or INIT and DESTROY.          *)
Served(conf) ==
  LET init    == Then(Do("got_init"), fuse_lib_init)
      destroy == Then(Do("got_destroy"), Stacked(conf.module, Destroy))
  IN  Return("new") \cup Then(init, Return("init")) \cup Then(init, Then(destroy, Return("destroyed")))
fuse_session_loop(conf) == Return("new") \cup Within("malloc", Served(conf), "free")


fuse_teardown_common(conf, got) ==
  Then(fuse_remove_signal_handlers,
       Then(fuse_unmount_common(conf.mp, TRUE), Then(fuse_destroy(conf, got, ~conf.mp), FreePoint(conf))))

fuse_main_common(conf) ==
  IfOk(fuse_setup_common(conf), Bind(fuse_session_loop(conf), LAMBDA got : fuse_teardown_common(conf, got)))

(* --- character devices *)
cuse_prep_data    == Try("cuse")
cuse_lowlevel_new == Acquire(cuse_prep_data, Do("free_cuse"), fuse_lowlevel_new_common)

cuse_lowlevel_setup ==
  LET destroy(attached) == fuse_session_destroy(Return("ok"), attached, TRUE)
      started == Acquire(fuse_set_signal_handlers, fuse_remove_signal_handlers, fuse_daemonize)
      opened  == Bind(fuse_kern_chan_new, LAMBDA r :
                   IF r = "ok" THEN OnError(Then(fuse_session_add_chan, started), destroy(TRUE))
                   ELSE Then(Do("close"), Then(destroy(FALSE), Return("err"))))
      device  == Bind(Try("fd"), LAMBDA r : IF r = "ok" THEN opened ELSE Then(destroy(FALSE), Return("err")))
      session == Bind(cuse_lowlevel_new, LAMBDA r :
                   Then(fuse_opt_free_args, IF r = "ok" THEN device ELSE Return("err")))
      refused == Then(fuse_opt_free_args, Return("err"))
  IN  Bind(fuse_parse_cmdline(FALSE), LAMBDA r :
        CASE r = "ok"       -> session \cup refused
          [] r = "unparsed" -> Return("err")
          [] OTHER          -> refused)

cuse_lowlevel_teardown(got) ==
  Then(fuse_remove_signal_handlers, fuse_session_destroy(IF got = "init" THEN Destroy ELSE Return("ok"), TRUE, TRUE))

cuse_lowlevel_main ==
  LET served == Return("new") \cup Then(Then(Do("got_init"), fuse_fs_init), Return("init"))
  IN  IfOk(cuse_lowlevel_setup, Bind(served, LAMBDA got : cuse_lowlevel_teardown(got)))

=============================================================================

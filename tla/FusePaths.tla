------------------------------ MODULE FusePaths ------------------------------
(***************************************************************************)
(* libfuse, lib/fuse.c: the table of nodes the kernel knows by number, the *)
(* locks that keep a path valid while an operation of the file system uses *)
(* it, and the handlers that take these locks.  The threads of the loop    *)
(* run the handlers; f->lock makes one step of every critical section.     *)
(* The kernel and the file system behind the mount are external.           *)
(***************************************************************************)
EXTENDS Integers, Sequences, SequencesExt, FiniteSets, FiniteSetsExt

CONSTANTS
  Threads,      \* numbers
  Names,        \* names in a directory
  HiddenNames,  \* the .fuse_hidden... names
  MaxNode,      \* bound on node numbers
  MaxObj,       \* bound on objects of the file system
  MaxRequests,  \* bound on the requests the kernel sends
  Operations,   \* the operations the kernel asks for
  RenamesDirs,  \* ... renames of directories among them
  NULL

Root       == 1
Nodes      == Root .. MaxNode
Objects    == 1 .. MaxObj
DirObjects == {1, 2}
AllNames   == Names \cup HiddenNames

ASSUME FusePathsAssumption ==
  /\ MaxNode \in Nat /\ MaxObj \in Nat /\ MaxRequests \in Nat
  /\ RenamesDirs \in BOOLEAN /\ NULL \notin AllNames

VARIABLES
  node,     \* node[n]: struct node number n, Free when there is none
  lockq,    \* f->lockq: the threads that wait, oldest first
  th,       \* th[t]: the locals of the handler thread t runs
  fs,       \* fs[d][x]: the object named x in directory d, 0 for none
  denotes,  \* denotes[n]: the object node n was looked up for (a ghost)
  known,    \* known[n]: lookups of n the kernel has been told and not forgotten
  opens,    \* opens[n]: open files of n, as the kernel counts them
  sent      \* the number of requests sent

vars == <<node, lockq, th, fs, denotes, known, opens, sent>>

Free == [parent |-> 0, name |-> NULL, nlookup |-> 0, refctr |-> 0,
         open_count |-> 0, is_hidden |-> FALSE, treelock |-> 0]

Idle == [pc |-> "idle", r |-> [op |-> "none"], path |-> <<>>, wnode |-> <<0, 0>>,
         locked |-> <<FALSE, FALSE>>, done |-> FALSE, err |-> "ok",
         ino |-> 0, obj |-> 0, hidden |-> NULL, killed |-> FALSE, busy |-> {}, pins |-> {}]

-----------------------------------------------------------------------------
(* The node table.  N stands for the table in every operator.              *)

TREELOCK_WRITE       == -1
TREELOCK_WAIT_OFFSET == -100   \* INT_MIN

(* n and the nodes above it, the root included, as far as parents go.      *)
Upwards(N, n) ==
  LET up[i \in 0 .. 2] ==   \* as many steps as there are directories
        IF i = 0 THEN <<n>>
        ELSE LET s == up[i-1] IN IF N[Last(s)].parent = 0 THEN s ELSE Append(s, N[Last(s)].parent)
  IN  up[2]

lookup_node(N, dir, name) ==
  LET S == {n \in Nodes : N[n].refctr > 0 /\ N[n].parent = dir /\ N[n].name = name}
  IN  IF S = {} THEN 0 ELSE CHOOSE n \in S : TRUE

(* Deletes the node that has no reference left, and its parents with it.   *)
unref_node(N, n) ==
  LET up == Upwards(N, n)
      k  == SelectInSeq(up, LAMBDA m : N[m].refctr > 1)
  IN  [m \in Nodes |->
         IF k # 0 /\ m = up[k] THEN [N[m] EXCEPT !.refctr = @ - 1]
         ELSE IF \E i \in DOMAIN up : up[i] = m /\ (k = 0 \/ i < k) THEN Free
         ELSE N[m]]

unhash_name(N, n) ==
  IF N[n].name = NULL THEN N
  ELSE unref_node([N EXCEPT ![n].name = NULL, ![n].parent = 0], N[n].parent)

hash_name(N, n, dir, name) ==
  [N EXCEPT ![dir].refctr = @ + 1, ![n].parent = dir, ![n].name = name]

inc_nlookup_Always(N, n) == [N EXCEPT ![n].refctr = @ + 1, ![n].nlookup = @ + 1]

inc_nlookup(N, n) ==
  [N EXCEPT ![n].refctr = IF N[n].nlookup = 0 THEN @ + 1 ELSE @, ![n].nlookup = @ + 1]

next_id(N) == Min({n \in Nodes : N[n].refctr = 0})

(* The node of a name, made when there is none, with one more lookup.      *)
find_node(N, dir, name) ==
  LET n == lookup_node(N, dir, name)
      m == next_id(N)
  IN  IF n # 0 THEN [ino |-> n, N |-> inc_nlookup(N, n)]
      ELSE [ino |-> m, N |-> inc_nlookup(hash_name(N, m, dir, name), m)]

remove_node(N, dir, name) ==
  LET n == lookup_node(N, dir, name)
  IN  IF n = 0 THEN N ELSE unhash_name(N, n)

rename_node_NotHidden(N, olddir, oldname, newdir, newname, hide) ==
  LET n == lookup_node(N, olddir, oldname)
  IN  IF n = 0 THEN N
      ELSE hash_name(unhash_name(remove_node(N, newdir, newname), n), n, newdir, newname)

rename_node(N, olddir, oldname, newdir, newname, hide) ==
  LET n  == lookup_node(N, olddir, oldname)
      N1 == remove_node(N, newdir, newname)
      N2 == hash_name(unhash_name(N1, n), n, newdir, newname)
  IN  IF n = 0 THEN N
      ELSE IF hide THEN [N2 EXCEPT ![n].is_hidden = TRUE] ELSE N2

-----------------------------------------------------------------------------
(* The locks of a path.                                                    *)

(* The nodes a path through n locks: n and those above it, without root.   *)
Locked(N, n) == {m \in Range(Upwards(N, n)) : m # Root}

unlock_path_KeepsMark(N, n, wnode) ==
  [m \in Nodes |-> IF m = wnode THEN [N[m] EXCEPT !.treelock = 0]
                   ELSE IF m \in Locked(N, n) THEN [N[m] EXCEPT !.treelock = @ - 1]
                   ELSE N[m]]

unlock_path(N, n, wnode) ==
  LET read == Locked(N, n)
  IN  [m \in Nodes |->
         IF m = wnode THEN [N[m] EXCEPT !.treelock = 0]
         ELSE IF m \in read
           THEN [N[m] EXCEPT !.treelock = IF @ - 1 = TREELOCK_WAIT_OFFSET THEN 0 ELSE @ - 1]
         ELSE N[m]]

(* What try_get_path gives: a path, or "again" when a lock is taken, or    *)
(* "noent" when a node on the way has lost its name.  A writer that finds  *)
(* readers leaves a mark that keeps new ones away.                         *)
Try(err, N, path, wnode) == [err |-> err, N |-> N, path |-> path, wnode |-> wnode]

try_get_path(N, dir, name, wr) ==
  LET up    == SelectSeq(Upwards(N, dir), LAMBDA m : m # Root)
      wnode == IF wr THEN lookup_node(N, dir, name) ELSE 0
      bad   == SelectInSeq(up, LAMBDA m : N[m].name = NULL \/ N[m].treelock < 0)
      path  == Reverse([i \in DOMAIN up |-> N[up[i]].name]) \o (IF name = NULL THEN <<>> ELSE <<name>>)
  IN  IF wnode # 0 /\ N[wnode].treelock > 0
        THEN Try("again", [N EXCEPT ![wnode].treelock = @ + TREELOCK_WAIT_OFFSET], <<>>, 0)
      ELSE IF wnode # 0 /\ N[wnode].treelock < 0 THEN Try("again", N, <<>>, 0)
      ELSE IF bad # 0 THEN Try(IF N[up[bad]].name = NULL THEN "noent" ELSE "again", N, <<>>, 0)
      ELSE Try("ok",
               [m \in Nodes |-> IF m = wnode THEN [N[m] EXCEPT !.treelock = TREELOCK_WRITE]
                                ELSE IF m \in Range(up) THEN [N[m] EXCEPT !.treelock = @ + 1]
                                ELSE N[m]],
               path, wnode)

(* The paths a request locks, in order: a node, a name in it or NULL, and  *)
(* whether the node of that name is locked for writing.                    *)
P(n, name, wr) == [n |-> n, name |-> name, wr |-> wr]

Paths(r) ==
  CASE r.op \in {"lookup", "mknod", "create"} -> <<P(r.n, r.name, FALSE)>>
    [] r.op \in {"getattr", "open", "release"} -> <<P(r.n, NULL, FALSE)>>
    [] r.op \in {"unlink", "rmdir"} -> <<P(r.n, r.name, TRUE)>>
    [] r.op = "rename" -> <<P(r.n, r.name, TRUE), P(r.n2, r.name2, TRUE)>>
    [] r.op = "link" -> <<P(r.n, NULL, FALSE), P(r.n2, r.name2, FALSE)>>
    [] OTHER -> <<>>

TryPath_NoWrite(N, r, i) == try_get_path(N, Paths(r)[i].n, Paths(r)[i].name, FALSE)

TryPath(N, r, i) == try_get_path(N, Paths(r)[i].n, Paths(r)[i].name, Paths(r)[i].wr)

(* queue_element_unlock, and the unlocking at the end of a handler.        *)
Unlock(N, q) ==
  LET ps == Paths(q.r)
      N1 == IF q.locked[1] THEN unlock_path(N, ps[1].n, q.wnode[1]) ELSE N
  IN  IF q.locked[2] THEN unlock_path(N1, ps[2].n, q.wnode[2]) ELSE N1

ForgetArg(q) == IF q.r.op = "forget" THEN [n |-> q.r.n, k |-> q.r.k] ELSE [n |-> q.ino, k |-> 1]

(* One waiting handler tries again; s holds the table N and the threads T. *)
queue_element_wakeup(s, t, first) ==
  LET q    == s.T[t]
      two  == Len(Paths(q.r)) = 2
      a    == IF q.locked[1] THEN Try("ok", s.N, q.path[1], q.wnode[1]) ELSE TryPath(s.N, q.r, 1)
      b    == IF q.locked[2] THEN Try("ok", a.N, q.path[2], q.wnode[2])
              ELSE IF two /\ a.err # "noent" THEN TryPath(a.N, q.r, 2)
              ELSE Try(a.err, a.N, <<>>, 0)
      got  == [q EXCEPT !.locked = <<a.err = "ok", two /\ b.err = "ok">>,
                        !.path = <<a.path, b.path>>, !.wnode = <<a.wnode, b.wnode>>]
      lost == [got EXCEPT !.locked = <<FALSE, FALSE>>]
  IN  IF q.pc = "forget_wait"
        THEN [s EXCEPT !.T[t].done = @ \/ s.N[ForgetArg(q).n].treelock = 0]
      ELSE IF "noent" \in {a.err, b.err}
        THEN [N |-> Unlock(b.N, got),
              T |-> [s.T EXCEPT ![t] = [lost EXCEPT !.done = TRUE, !.err = "noent"]]]
      ELSE IF a.err = "ok" /\ b.err = "ok"
        THEN [N |-> b.N, T |-> [s.T EXCEPT ![t] = [got EXCEPT !.done = TRUE, !.err = "ok"]]]
      ELSE IF first THEN [N |-> b.N, T |-> [s.T EXCEPT ![t] = got]]
      ELSE [N |-> Unlock(b.N, got), T |-> [s.T EXCEPT ![t] = lost]]

wake_up_queued_NoForget(N, T) ==
  FoldLeft(LAMBDA s, t : queue_element_wakeup(s, t, t = Head(lockq)), [N |-> N, T |-> T],
           SelectSeq(lockq, LAMBDA t : th[t].pc = "wait"))

wake_up_queued(N, T) ==
  FoldLeft(LAMBDA s, t : queue_element_wakeup(s, t, t = Head(lockq)), [N |-> N, T |-> T], lockq)

dequeue_path(t) == SelectSeq(lockq, LAMBDA u : u # t)

-----------------------------------------------------------------------------
(* The file system behind the mount: the object a path leads to.           *)

Resolve(path) ==
  FoldLeft(LAMBDA o, x : IF o \in DirObjects THEN fs[o][x] ELSE 0, 1, path)

Dir(path)        == Resolve(Front(path))
Put(path, o)     == [fs EXCEPT ![Dir(path)][Last(path)] = o]
Move(from, to)   == [fs EXCEPT ![Dir(from)][Last(from)] = 0, ![Dir(to)][Last(to)] = Resolve(from)]
Empty(o)         == o \in DirObjects => \A x \in AllNames : fs[o][x] = 0
Used             == UNION {Range(fs[d]) : d \in DirObjects} \cup Range(denotes)
NewObject        == Min(Objects \ Used)

-----------------------------------------------------------------------------
(* The kernel.  It sends requests for nodes it knows, one change or lookup *)
(* of a directory at a time, checks names in its cache first, and forgets  *)
(* a node when nothing of its own uses it.                                 *)

Requests == {t \in Threads : th[t].pc # "idle"}
Known    == {n \in Nodes : n = Root \/ known[n] > 0}
IsDir(n) == denotes[n] \in DirObjects
Dirs     == {n \in Known : IsDir(n) /\ (n = Root \/ node[n].name # NULL)}
Files    == {n \in Known : ~IsDir(n)}
Absent(d, x)  == fs[denotes[d]][x] = 0
Child(d, x)   == lookup_node(node, d, x)
Present(d, x) == Child(d, x) # 0 /\ known[Child(d, x)] > 0

(* The directories whose i_mutex the kernel holds for a request.           *)
Busy(r) ==
  CASE r.op \in {"lookup", "mknod", "create", "unlink"} -> {r.n}
    [] r.op = "rmdir"  -> {r.n, Child(r.n, r.name)}
    [] r.op = "rename" -> {r.n, r.n2} \cup ({Child(r.n2, r.name2)} \ Files)
    [] r.op = "link"   -> {r.n2}
    [] OTHER           -> {}

Below(d, n) == n \in Range(Upwards(node, d))

Sendable ==
  {r \in [op : {"lookup"}, n : Dirs, name : Names] : ~Present(r.n, r.name)}
  \cup {r \in [op : {"mknod", "create"}, n : Dirs, name : Names] : Absent(r.n, r.name)}
  \cup [op : {"getattr"}, n : Known \ {Root}]
  \cup [op : {"open"}, n : Files]
  \cup {r \in [op : {"release"}, n : Files] : opens[r.n] > 0}
  \cup {r \in [op : {"unlink", "rmdir"}, n : Dirs, name : Names] :
          Present(r.n, r.name) /\ (r.op = "rmdir" <=> IsDir(Child(r.n, r.name)))}
  \cup {r \in [op : {"rename"}, n : Dirs, name : Names, n2 : Dirs, name2 : Names] :
          /\ Present(r.n, r.name)
          /\ Child(r.n, r.name) # Child(r.n2, r.name2)
          /\ Absent(r.n2, r.name2)
             \/ (Present(r.n2, r.name2) /\ IsDir(Child(r.n, r.name)) = IsDir(Child(r.n2, r.name2)))
          /\ IsDir(Child(r.n, r.name)) => RenamesDirs /\ ~Below(r.n2, Child(r.n, r.name))
          /\ ~Below(r.n, Child(r.n2, r.name2))}
  \cup {r \in [op : {"link"}, n : Files, n2 : Dirs, name2 : Names] :
          Absent(r.n2, r.name2) /\ node[r.n].name \in Names}
  \cup {r \in [op : {"forget"}, n : Known \ {Root}, k : 1 .. MaxRequests + 1] :
          /\ known[r.n] = r.k
          /\ opens[r.n] = 0
          /\ \A m \in Known : node[m].parent # r.n
          /\ \A t \in Requests : r.n \notin th[t].pins}

(* What a request keeps in the kernel: the nodes it names.                 *)
Pins(r) ==
  {r.n} \cup (IF "name" \in DOMAIN r THEN {Child(r.n, r.name)} ELSE {})
        \cup (IF "n2" \in DOMAIN r THEN {r.n2, Child(r.n2, r.name2)} ELSE {})

(* A signal may end the system call: the request then keeps nothing and    *)
(* its answer will find nobody (killed).                                   *)
Send(t) ==
  /\ th[t].pc = "idle"
  /\ \A u \in Threads : u < t => th[u].pc # "idle"   \* idle threads are alike
  /\ sent < MaxRequests
  /\ \E r \in Sendable :
       /\ r.op \in Operations
       /\ \A u \in Requests : th[u].busy \cap Busy(r) = {}
       /\ \E killed \in {FALSE, r.op \in {"lookup", "create", "open"}} :
            th' = [th EXCEPT ![t] = [Idle EXCEPT
                     !.pc = IF r.op = "forget" THEN "forget" ELSE "get", !.r = r, !.busy = Busy(r),
                     !.killed = killed, !.pins = IF killed THEN {} ELSE Pins(r)]]
       /\ known' = IF r.op = "forget" THEN [known EXCEPT ![r.n] = 0] ELSE known
       /\ opens' = IF r.op = "release" THEN [opens EXCEPT ![r.n] = @ - 1] ELSE opens
  /\ sent' = sent + 1
  /\ UNCHANGED <<node, lockq, fs, denotes>>

-----------------------------------------------------------------------------
(* The handlers.  A step ends where f->lock is taken or the file system is *)
(* called.                                                                 *)

At(t, pc, ops) == th[t].pc = pc /\ th[t].r.op \in ops
Goto(t, pc)    == th' = [th EXCEPT ![t].pc = pc]
Kernel         == <<known, opens, sent>>

(* A handler that has no path answers with the error; release goes on.     *)
NoPath(T, t) ==
  [T EXCEPT ![t] = IF @.r.op = "release" THEN [@ EXCEPT !.pc = "release", !.path = <<>>] ELSE Idle]

(* What a handler does once it has its path: the ones that only look call  *)
(* the file system and free the path.                                      *)
Start(r) ==
  CASE r.op = "release" -> "release"
    [] r.op = "getattr" -> "free"
    [] r.op = "rmdir"   -> "change"
    [] OTHER            -> "op"

(* get_path and its kind, get_path2: the first try.                        *)
GetPath(t) ==
  LET q   == th[t]
      two == Len(Paths(q.r)) = 2
      a   == TryPath(node, q.r, 1)
      b   == IF two /\ a.err = "ok" THEN TryPath(a.N, q.r, 2) ELSE Try(a.err, a.N, <<>>, 0)
  IN  /\ q.pc = "get"
      /\ node' = IF two /\ a.err = "ok" /\ b.err # "ok"
                  THEN unlock_path(b.N, q.r.n, a.wnode) ELSE b.N
      /\ \/ /\ b.err = "ok"
            /\ th' = [th EXCEPT ![t] = [q EXCEPT !.pc = Start(q.r), !.locked = <<TRUE, two>>,
                          !.path = <<a.path, b.path>>, !.wnode = <<a.wnode, b.wnode>>]]
            /\ UNCHANGED lockq
         \/ /\ b.err = "again"
            /\ Goto(t, "wait")
            /\ lockq' = Append(lockq, t)
         \/ /\ b.err = "noent"
            /\ th' = NoPath(th, t)
            /\ UNCHANGED lockq
      /\ UNCHANGED <<fs, denotes, Kernel>>

(* wait_path returns.                                                      *)
WaitPath(t) ==
  /\ th[t].pc = "wait" /\ th[t].done
  /\ lockq' = dequeue_path(t)
  /\ th' = IF th[t].err = "ok" THEN [th EXCEPT ![t].pc = Start(th[t].r), ![t].done = FALSE] ELSE NoPath(th, t)
  /\ UNCHANGED <<node, fs, denotes, Kernel>>

Lookup(t) ==
  /\ At(t, "op", {"lookup"})
  /\ LET o == Resolve(th[t].path[1])
     IN  th' = [th EXCEPT ![t].pc = IF o = 0 THEN "free" ELSE "find", ![t].obj = o,
                          ![t].err = IF o = 0 THEN "noent" ELSE "ok"]
  /\ UNCHANGED <<node, lockq, fs, denotes, Kernel>>

(* mknod, mkdir, symlink, create and link: a new name in the file system,  *)
(* which may refuse.                                                       *)
Make(t) ==
  /\ At(t, "op", {"mknod", "create", "link"})
  /\ LET link == th[t].r.op = "link"
         o    == IF link THEN Resolve(th[t].path[1]) ELSE NewObject
         path == IF link THEN th[t].path[2] ELSE th[t].path[1]
     IN  \/ /\ o # 0
            /\ th' = [th EXCEPT ![t].pc = "find", ![t].obj = o]
            /\ fs' = Put(path, o)
         \/ Goto(t, "free") /\ UNCHANGED fs
  /\ UNCHANGED <<node, lockq, denotes, Kernel>>

(* lookup_path: the node of the entry found.  create opens it too, and     *)
(* like open answers before it frees the path; when nobody takes the       *)
(* answer the file is closed again.                                        *)
Opened(t) == IF th[t].killed THEN "release" ELSE "free"

LookupPath(t) ==
  LET r      == th[t].r
      f      == IF r.op = "link" THEN find_node(node, r.n2, r.name2) ELSE find_node(node, r.n, r.name)
      create == r.op = "create"
      told   == create /\ ~th[t].killed
  IN  /\ th[t].pc = "find"
      /\ node' = IF create THEN [f.N EXCEPT ![f.ino].open_count = @ + 1] ELSE f.N
      /\ denotes' = IF node[f.ino].refctr = 0 THEN [denotes EXCEPT ![f.ino] = th[t].obj] ELSE denotes
      /\ th' = [th EXCEPT ![t].ino = f.ino, ![t].pc = IF create THEN Opened(t) ELSE "free"]
      /\ known' = IF told THEN [known EXCEPT ![f.ino] = @ + 1] ELSE known
      /\ opens' = IF told THEN [opens EXCEPT ![f.ino] = @ + 1] ELSE opens
      /\ UNCHANGED <<lockq, fs, sent>>

(* The file system opens the file, or refuses.                             *)
Open(t) ==
  LET n == th[t].r.n
  IN  /\ At(t, "op", {"open"})
      /\ \/ /\ Resolve(th[t].path[1]) # 0
            /\ node' = [node EXCEPT ![n].open_count = @ + 1]
            /\ opens' = IF th[t].killed THEN opens ELSE [opens EXCEPT ![n] = @ + 1]
            /\ Goto(t, Opened(t))
         \/ Goto(t, "free") /\ UNCHANGED <<node, opens>>
      /\ UNCHANGED <<lockq, fs, denotes, known, sent>>

(* fuse_do_release: the last close of a hidden file removes it.            *)
DoRelease(t) ==
  LET n    == IF th[t].r.op = "create" THEN th[t].ino ELSE th[t].r.n
      last == node[n].is_hidden /\ node[n].open_count = 1
      next == IF th[t].r.op = "create" THEN "forget" ELSE "free"
  IN  /\ th[t].pc = "release"
      /\ node' = [node EXCEPT ![n].open_count = @ - 1, ![n].is_hidden = @ /\ ~last]
      /\ Goto(t, IF last /\ th[t].path # <<>> THEN "unlink_hidden" ELSE next)
      /\ UNCHANGED <<lockq, fs, denotes, Kernel>>

UnlinkHidden(t) ==
  /\ th[t].pc = "unlink_hidden"
  /\ fs' = Put(th[t].path[1], 0)
  /\ Goto(t, IF th[t].r.op = "create" THEN "forget" ELSE "free")
  /\ UNCHANGED <<node, lockq, denotes, Kernel>>

(* unlink and rename ask whether the name they take away is open.          *)
IsOpen(t) ==
  LET p == Last(Paths(th[t].r))
      n == Child(p.n, p.name)
  IN  /\ At(t, "op", {"unlink", "rename"})
      /\ Goto(t, IF n # 0 /\ node[n].open_count > 0 THEN "hide" ELSE "change")
      /\ UNCHANGED <<node, lockq, fs, denotes, Kernel>>

(* hide_node: a name nobody has, the rename in the file system, which may  *)
(* refuse ...                                                              *)
HideNode(t) ==
  LET p    == Last(Paths(th[t].r))
      from == th[t].path[Len(Paths(th[t].r))]
      h    == CHOOSE x \in HiddenNames : Child(p.n, x) = 0 /\ fs[Dir(from)][x] = 0
  IN  /\ th[t].pc = "hide"
      /\ \/ /\ fs' = Move(from, Append(Front(from), h))
            /\ th' = [th EXCEPT ![t].pc = "hidden", ![t].hidden = h]
         \/ Goto(t, "free") /\ UNCHANGED fs
      /\ UNCHANGED <<node, lockq, denotes, Kernel>>

(* ... and the rename in the table.                                        *)
RenameHidden(t) ==
  LET p == Last(Paths(th[t].r))
  IN  /\ th[t].pc = "hidden"
      /\ node' = rename_node(node, p.n, p.name, p.n, th[t].hidden, TRUE)
      /\ Goto(t, IF th[t].r.op = "rename" THEN "change" ELSE "free")
      /\ UNCHANGED <<lockq, fs, denotes, Kernel>>

(* The unlink, rmdir or rename of the file system; it may refuse.          *)
Change(t) ==
  LET path == th[t].path
      two  == th[t].r.op = "rename"
  IN  /\ th[t].pc = "change"
      /\ \/ /\ Resolve(path[1]) # 0
            /\ Empty(Resolve(IF two THEN path[2] ELSE path[1]))
            /\ fs' = IF two THEN Move(path[1], path[2]) ELSE Put(path[1], 0)
            /\ Goto(t, "table")
         \/ Goto(t, "free") /\ UNCHANGED fs
      /\ UNCHANGED <<node, lockq, denotes, Kernel>>

(* remove_node or rename_node.                                             *)
Table(t) ==
  LET r == th[t].r
  IN  /\ th[t].pc = "table"
      /\ node' = IF r.op = "rename" THEN rename_node(node, r.n, r.name, r.n2, r.name2, FALSE)
                 ELSE remove_node(node, r.n, r.name)
      /\ Goto(t, "free")
      /\ UNCHANGED <<lockq, fs, denotes, Kernel>>

(* free_path: unlock, wake the others; most handlers then answer, and an   *)
(* entry nobody waits for any more is forgotten again.                     *)
FreePath(t) ==
  LET q     == th[t]
      entry == q.r.op \in {"lookup", "mknod", "link"} /\ q.ino # 0
      N     == Unlock(node, q)
      w     == IF q.locked[1] THEN wake_up_queued(N, th) ELSE [N |-> N, T |-> th]
  IN  /\ q.pc = "free"
      /\ node' = w.N
      /\ th' = [w.T EXCEPT ![t] = IF entry /\ q.killed
                                  THEN [q EXCEPT !.pc = "forget", !.locked = <<FALSE, FALSE>>, !.path = <<>>, !.busy = {}]
                                  ELSE Idle]
      /\ known' = IF entry /\ ~q.killed THEN [known EXCEPT ![q.ino] = @ + 1] ELSE known
      /\ UNCHANGED <<lockq, fs, denotes, opens, sent>>

(* forget_node: the last lookups wait until nobody locks the node.         *)
MustWait(q) == LET f == ForgetArg(q) IN node[f.n].nlookup = f.k /\ node[f.n].treelock # 0

Forget(t) ==
  LET q == th[t]
      f == ForgetArg(q)
      N == [node EXCEPT ![f.n].nlookup = @ - f.k]
  IN  \/ /\ q.pc = "forget" /\ MustWait(q)
         /\ lockq' = Append(lockq, t)
         /\ th' = [th EXCEPT ![t].pc = "forget_wait", ![t].done = FALSE]
         /\ UNCHANGED <<node, fs, denotes, Kernel>>
      \/ /\ q.pc = "forget_wait" /\ q.done /\ MustWait(q)
         /\ th' = [th EXCEPT ![t].done = FALSE]
         /\ UNCHANGED <<node, lockq, fs, denotes, Kernel>>
      \/ /\ q.pc = "forget" \/ (q.pc = "forget_wait" /\ q.done)
         /\ ~MustWait(q)
         /\ lockq' = dequeue_path(t)
         /\ node' = IF N[f.n].nlookup = 0 THEN unref_node(N, f.n) ELSE N
         /\ th' = [th EXCEPT ![t] = IF q.r.op = "create" THEN [q EXCEPT !.pc = "free"] ELSE Idle]
         /\ UNCHANGED <<fs, denotes, Kernel>>

Step(t) ==
  \/ GetPath(t) \/ WaitPath(t) \/ Lookup(t) \/ Make(t) \/ LookupPath(t)
  \/ Open(t) \/ DoRelease(t) \/ UnlinkHidden(t) \/ IsOpen(t)
  \/ HideNode(t) \/ RenameHidden(t) \/ Change(t) \/ Table(t) \/ FreePath(t) \/ Forget(t)

(* All the requests have been answered.                                    *)
Rest == sent = MaxRequests /\ Requests = {} /\ UNCHANGED vars

Next == (\E t \in Threads : Send(t) \/ Step(t)) \/ Rest

(* A directory with two files the kernel has looked up, the second open.   *)
Init ==
  LET a == CHOOSE x \in Names : TRUE
      b == CHOOSE x \in Names : x # a
      Named(dir, name, refs, opened) ==
        [Free EXCEPT !.parent = dir, !.name = name, !.nlookup = 1, !.refctr = refs, !.open_count = opened]
  IN  /\ node = [n \in Nodes |-> CASE n = 1 -> [Free EXCEPT !.nlookup = 1, !.refctr = 2]
                                   [] n = 2 -> Named(1, a, 3, 0)
                                   [] n = 3 -> Named(2, a, 1, 0)
                                   [] n = 4 -> Named(2, b, 1, 1)
                                   [] OTHER -> Free]
      /\ fs = [d \in DirObjects |-> [x \in AllNames |->
                 CASE d = 1 /\ x = a -> 2 [] d = 2 /\ x = a -> 3 [] d = 2 /\ x = b -> 4 [] OTHER -> 0]]
      /\ opens = [n \in Nodes |-> IF n = 4 THEN 1 ELSE 0]
      /\ denotes = [n \in Nodes |-> IF n <= 4 THEN n ELSE 0]
      /\ known = [n \in Nodes |-> IF n \in 2 .. 4 THEN 1 ELSE 0]
      /\ lockq = <<>>
      /\ th = [t \in Threads |-> Idle]
      /\ sent = 0

Spec == Init /\ [][Next]_vars

-----------------------------------------------------------------------------
(* A path a handler holds leads to the object its node was looked up for,  *)
(* whatever other requests rename or remove meanwhile (try_get_path); only *)
(* the removal of a hidden file (fuse_do_release) leaves it leading nowhere.*)
Holds(t, i) == th[t].locked[i] /\ th[t].pc # "wait"

PathsHold ==
  \A t \in Requests : \A i \in {1, 2} : Holds(t, i) =>
    LET p    == Paths(th[t].r)[i]
        path == IF p.name = NULL THEN th[t].path[i] ELSE Front(th[t].path[i])
    IN  \/ Resolve(path) = denotes[p.n]
        \/ Resolve(path) = 0 /\ node[p.n].name \in HiddenNames /\ ~node[p.n].is_hidden

(* Every lock in the table is one that a handler holds: a node is locked   *)
(* as often as paths through it are in use, a node that is gone not at all *)
(* (the assertions of unlock_path and delete_node).                        *)
Readers(n) ==
  {h \in Requests \X {1, 2} : th[h[1]].locked[h[2]] /\ n \in Locked(node, Paths(th[h[1]].r)[h[2]].n)}
Writers(n) ==
  {h \in Requests \X {1, 2} : th[h[1]].locked[h[2]] /\ n = th[h[1]].wnode[h[2]]}

LocksMatch ==
  \A n \in Nodes \ {Root} :
    CASE node[n].treelock = 0 -> Readers(n) = {} /\ Writers(n) = {}
      [] node[n].treelock = TREELOCK_WRITE -> Readers(n) = {} /\ Cardinality(Writers(n)) = 1
      [] OTHER -> /\ Readers(n) # {} /\ Writers(n) = {}
                  /\ Cardinality(Readers(n)) \in {node[n].treelock, node[n].treelock - TREELOCK_WAIT_OFFSET}

(* The counts of a node agree with those who use it: the kernel's lookups  *)
(* and those on their way (inc_nlookup, forget_node), the names below it   *)
(* (hash_name, unhash_name) and the open files (fuse_do_release).          *)
LookupsOnTheWay(n) ==
  LET of(t) == CASE th[t].r.op = "forget" /\ th[t].r.n = n -> th[t].r.k
                 [] th[t].r.op \in {"lookup", "mknod", "link"} /\ th[t].ino = n -> 1
                 [] th[t].r.op = "create" /\ th[t].ino = n /\ th[t].killed /\ th[t].pc # "free" -> 1
                 [] OTHER -> 0
  IN  MapThenSumSet(of, Requests)

OpensOnTheWay(n) ==
  Cardinality({t \in Threads :
    \/ th[t].pc = "release" /\ n = (IF th[t].r.op = "create" THEN th[t].ino ELSE th[t].r.n)
    \/ th[t].pc \in {"get", "wait"} /\ th[t].r = [op |-> "release", n |-> n]})

NodesCounted ==
  \A n \in Nodes \ {Root} :
    /\ node[n].nlookup = known[n] + LookupsOnTheWay(n)
    /\ node[n].open_count = opens[n] + OpensOnTheWay(n)
    /\ node[n].refctr = (IF node[n].nlookup > 0 THEN 1 ELSE 0)
                        + Cardinality({m \in Nodes : node[m].parent = n})

(* A file hidden because it was removed while open is in the file system   *)
(* only as long as it is open (hide_node, fuse_do_release).                *)
HiddenGone ==
  \A d \in DirObjects : \A x \in HiddenNames : fs[d][x] # 0 =>
    \/ \E n \in Nodes : /\ denotes[n] = fs[d][x] /\ node[n].name = x
                        /\ node[n].is_hidden /\ node[n].open_count > 0
    \/ \E t \in Threads : /\ th[t].pc \in {"hidden", "unlink_hidden"}
                          /\ th[t].hidden = x \/ Last(th[t].path[1]) = x

(* The handlers that wait for a path never wait for each other only (the   *)
(* reason queue_element_wakeup gives for what it lets be partially locked).*)
(* A request takes finitely many steps, so every one is answered.          *)
NotStuck ==
  lockq # <<>> => \E t \in Requests : th[t].pc \notin {"wait", "forget_wait"} \/ th[t].done

=============================================================================

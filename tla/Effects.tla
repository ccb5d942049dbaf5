------------------------------- MODULE Effects -------------------------------
(***************************************************************************)
(* A notation for C functions that acquire, call and clean up.  A function *)
(* is the set of its runs.  A run records the effects it has, in order,    *)
(* and its result: a branch of the code is a union, an early return a run  *)
(* that ends early.                                                        *)
(***************************************************************************)
EXTENDS Sequences

Run(ev, res) == [ev |-> ev, res |-> res]

Return(res)  == {Run(<<>>, res)}

(* An effect, and a call that may fail without one.                        *)
Do(e)        == {Run(<<e>>, "ok")}
Try(e)       == Do(e) \cup Return("err")

(* m, then what its result calls for.                                      *)
Bind(m, k(_)) ==
  UNION {{Run(x.ev \o y.ev, y.res) : y \in k(x.res)} : x \in m}

Then(m, n)    == {Run(x.ev \o y.ev, y.res) : x \in m, y \in n}

(* m, then n whatever the result; the result is that of m.                 *)
After(m, n)   == {Run(x.ev \o y.ev, x.res) : x \in m, y \in n}

Succeeds(m)   == {x \in m : x.res = "ok"}
Fails(m)      == m \ Succeeds(m)

IfOk(m, n)    == Then(Succeeds(m), n) \cup Fails(m)
OnError(m, n) == Succeeds(m) \cup After(Fails(m), n)

(* m acquires something, n goes on with it, and undo gives it back when n   *)
(* fails: one label of a chain of gotos.                                   *)
Acquire(m, undo, n) == IfOk(m, OnError(n, undo))

(* m between an effect and the one that ends it.                           *)
Within(a, m, b) == Then(Do(a), After(m, Do(b)))

(* m, with a result treated as another.                                    *)
Taking(m, r, s) == {IF x.res = r THEN Run(x.ev, s) ELSE x : x \in m}

(* m, with only some of its effects told apart.                            *)
Showing(m, E) == {Run(SelectSeq(x.ev, LAMBDA e : e \in E), x.res) : x \in m}

=============================================================================

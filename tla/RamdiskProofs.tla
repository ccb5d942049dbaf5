---------------------------- MODULE RamdiskProofs ---------------------------
(***************************************************************************)
(* That the counter of hw4's file system is the memory in use, for any     *)
(* number of files and any capacity: theorem AccountsAlways.               *)
(*                                                                         *)
(* The lookups of the code walk down the tree.  The proof speaks of them   *)
(* through two relations instead: Child(p, x, g), g is the file called x   *)
(* in p, and Way(path, w), the files w[0], w[1] ... are those that path    *)
(* leads through.  A step that adds or frees a file keeps every way on     *)
(* which the freed file does not lie, and it lies on none but its own.     *)
(***************************************************************************)
EXTENDS Ramdisk, QueueLemmas, WellFoundedInduction, TLAPS

(* A set of numbers that is not empty has a least member.                  *)
LEMMA Least ==
  ASSUME NEW S \in SUBSET Nat, S # {}
  PROVE  \E x \in S : \A y \in S : x <= y
<1> DEFINE R == {ss \in Nat \X Nat : ss[1] < ss[2]}
<1>1. IsWellFoundedOn(R, Nat)
  BY NatLessThanWellFounded DEF OpToRel
<1> HIDE DEF R
<1>2. \E x \in S : \A y \in S : ~(<<y, x>> \in R)
  BY <1>1, WFMin, Zenon
<1>3. PICK x \in S : \A y \in S : ~(<<y, x>> \in R)
  BY <1>2
<1>4. ASSUME NEW y \in S, ~(x <= y) PROVE FALSE
  <2>1. <<y, x>> \in Nat \X Nat /\ y < x
    BY <1>4
  <2>2. <<y, x>> \in R
    BY <2>1 DEF R
  <2>. QED BY <1>3, <2>2
<1>. QED BY <1>4

(* The first free address, as push takes it.                               *)
LEMMA FirstFree ==
  ASSUME NEW S \in SUBSET Nat, S # {}
  PROVE  Min(S) \in S
BY Least, Zenon DEF Min

(* A set of the numbers to N that has 0, and with each but the last its    *)
(* successor, has all: the induction that the lemmas on loops use.         *)
LEMMA Induction ==
  ASSUME NEW N \in Nat, NEW S, 0 \in S,
         \A i \in 1 .. N : i - 1 \in S => i \in S
  PROVE  \A i \in 0 .. N : i \in S
<1> DEFINE Bad == {i \in 0 .. N : i \notin S}
<1>1. SUFFICES ASSUME Bad # {} PROVE FALSE
  OBVIOUS
<1>2. PICK m \in Bad : \A y \in Bad : m <= y
  <2>1. Bad \in SUBSET Nat
    OBVIOUS
  <2> HIDE DEF Bad
  <2>. QED BY <1>1, <2>1, Least
<1>3. m \in 1 .. N /\ m - 1 \in 0 .. N
  BY <1>2
<1>4. m - 1 \in S
  BY <1>2, <1>3
<1>. QED BY <1>2, <1>3, <1>4

(* What a loop of N rounds computes that starts with a and whose round i   *)
(* takes x to G[i][x].                                                     *)
Computes(N, a, G, g) == g[0] = a /\ \A i \in 1 .. N : g[i] = G[i][g[i-1]]

(* Every loop computes something: so what the recursive functions of       *)
(* Ramdisk define exists.                                                  *)
LEMMA Loop ==
  ASSUME NEW N \in Nat, NEW S, NEW a \in S, NEW G \in [1 .. N -> [S -> S]]
  PROVE  \E g \in [0 .. N -> S] : Computes(N, a, G, g)
<1> DEFINE Runs(n, g) == g \in [0 .. n -> S] /\ g[0] = a /\ \A i \in 1 .. n : g[i] = G[i][g[i-1]]
           Done == {n \in 0 .. N : \E g \in [0 .. n -> S] : Runs(n, g)}
<1>1. 0 \in Done
  <2> DEFINE g == [i \in 0 .. 0 |-> a]
  <2>1. g \in [0 .. 0 -> S] /\ g[0] = a
    OBVIOUS
  <2>2. \A i \in 1 .. 0 : FALSE
    OBVIOUS
  <2> HIDE DEF g
  <2>. QED BY <2>1, <2>2
<1>2. ASSUME NEW i \in 1 .. N, i - 1 \in Done PROVE i \in Done
  <2>1. PICK g \in [0 .. i - 1 -> S] : Runs(i - 1, g)
    BY <1>2
  <2> DEFINE h == [j \in 0 .. i |-> IF j = i THEN G[i][g[i-1]] ELSE g[j]]
  <2>2. G[i][g[i-1]] \in S
    BY <2>1
  <2>3. h \in [0 .. i -> S]
    BY <2>2
  <2>4. h[0] = a
    BY <2>1
  <2>5. ASSUME NEW j \in 1 .. i PROVE h[j] = G[j][h[j-1]]
    <3>1. j - 1 \in 0 .. i /\ j - 1 # i /\ j \in 0 .. i
      OBVIOUS
    <3>2. h[j-1] = g[j-1]
      BY <3>1
    <3>3. CASE j = i
      BY <3>1, <3>2, <3>3, Zenon
    <3>4. CASE j # i
      <4>1. j \in 1 .. i - 1 /\ h[j] = g[j]
        BY <3>1, <3>4
      <4>. QED BY <2>1, <3>2, <4>1
    <3>. QED BY <3>3, <3>4
  <2> HIDE DEF h
  <2>6. Runs(i, h)
    BY <2>3, <2>4, <2>5
  <2>7. i \in 0 .. N
    OBVIOUS
  <2>. QED BY <2>3, <2>6, <2>7, Zenon
<1>3. \A i \in 1 .. N : i - 1 \in Done => i \in Done
  BY <1>2, Zenon
<1> HIDE DEF Done
<1>4. \A i \in 0 .. N : i \in Done
  BY <1>1, <1>3, Induction, Zenon
<1>5. N \in Done
  BY <1>4
<1>. QED BY <1>5 DEF Done, Computes

-----------------------------------------------------------------------------
(* The sum of the bytes in use.                                            *)

Amounts == [Addresses -> Nat]

(* Sum is what a loop over the addresses adds up.                          *)
LEMMA SumLoop ==
  ASSUME NEW b \in Amounts
  PROVE  \E u \in [0 .. MaxFiles -> Nat] :
           u[0] = 0 /\ (\A i \in 1 .. MaxFiles : u[i] = u[i-1] + b[i]) /\ Sum(b) = u[MaxFiles]
<1> DEFINE N    == MaxFiles
           G    == [i \in 1 .. N |-> [x \in Nat |-> x + b[i]]]
           E(u) == [n \in 0 .. N |-> IF n = 0 THEN 0 ELSE u[n-1] + b[n]]
           c    == CHOOSE u : u = E(u)
<1>1. N \in Nat /\ \A i \in 1 .. N : b[i] \in Nat
  BY RamdiskAssumption DEF Amounts, Addresses
<1>2. PICK g \in [0 .. N -> Nat] : g[0] = 0 /\ \A i \in 1 .. N : g[i] = G[i][g[i-1]]
  <2>1. G \in [1 .. N -> [Nat -> Nat]]
    BY <1>1
  <2> DEFINE S == Nat
             z == 0
  <2>2. z \in S /\ N \in Nat /\ G \in [1 .. N -> [S -> S]]
    BY <1>1, <2>1
  <2> HIDE DEF G, N, S, z
  <2>3. \E g \in [0 .. N -> S] : Computes(N, z, G, g)
    BY <2>2, Loop
  <2>. QED BY <2>3, Zenon DEF S, z, Computes
<1>3. g = E(g)
  <2>1. ASSUME NEW n \in 0 .. N PROVE g[n] = E(g)[n]
    <3>1. CASE n = 0
      BY <1>2, <3>1
    <3>2. CASE n # 0
      <4>1. n \in 1 .. N /\ g[n-1] \in Nat
        BY <1>1, <1>2, <3>2
      <4>. QED BY <1>2, <3>2, <4>1, Zenon
    <3>. QED BY <3>1, <3>2
  <2>. QED BY <1>2, <2>1
<1>4. c = E(c)
  BY <1>3, Zenon
<1> HIDE DEF c
<1>5. c[0] = 0 /\ \A i \in 1 .. N : c[i] = c[i-1] + b[i]
  BY <1>1, <1>4
<1>6. \A i \in 0 .. N : c[i] \in Nat
  <2> DEFINE S == {i \in 0 .. N : c[i] \in Nat}
  <2>1. 0 \in S
    BY <1>1, <1>5
  <2>2. ASSUME NEW i \in 1 .. N, i - 1 \in S PROVE i \in S
    <3>1. i \in 0 .. N /\ c[i-1] \in Nat /\ b[i] \in Nat /\ c[i] = c[i-1] + b[i]
      BY <1>1, <1>5, <2>2
    <3>. QED BY <3>1
  <2>3. \A i \in 0 .. N : i \in S
    <3> HIDE DEF S
    <3>. QED BY <1>1, <2>1, <2>2, Induction, Zenon
  <2>. QED BY <2>3
<1>7. Sum(b) = c[N]
  BY DEF Sum, c
<1>. QED BY <1>4, <1>5, <1>6, <1>7, Zenon

(* A change of what one address holds changes the sum by the difference.   *)
LEMMA SumChange ==
  ASSUME NEW b \in Amounts, NEW c \in Amounts, NEW k \in Addresses,
         \A a \in Addresses \ {k} : c[a] = b[a]
  PROVE  Sum(c) = Sum(b) + c[k] - b[k]
<1> DEFINE N == MaxFiles
<1>1. /\ N \in Nat /\ k \in 1 .. N
      /\ \A i \in 1 .. N : b[i] \in Nat /\ c[i] \in Nat /\ (i # k => c[i] = b[i])
  BY RamdiskAssumption, Zenon DEF Amounts, Addresses
<1>2. PICK u \in [0 .. N -> Nat] :
        u[0] = 0 /\ (\A i \in 1 .. N : u[i] = u[i-1] + b[i]) /\ Sum(b) = u[N]
  BY SumLoop, Zenon
<1>3. PICK v \in [0 .. N -> Nat] :
        v[0] = 0 /\ (\A i \in 1 .. N : v[i] = v[i-1] + c[i]) /\ Sum(c) = v[N]
  BY SumLoop, Zenon
<1> DEFINE S == {i \in 0 .. N : v[i] = u[i] + IF k <= i THEN c[k] - b[k] ELSE 0}
<1>4. 0 \in S
  BY <1>1, <1>2, <1>3
<1>5. ASSUME NEW i \in 1 .. N, i - 1 \in S PROVE i \in S
  <2>1. v[i] = v[i-1] + c[i] /\ u[i] = u[i-1] + b[i] /\ v[i-1] \in Nat /\ u[i-1] \in Nat
    BY <1>1, <1>2, <1>3
  <2>0. i \in 0 .. N /\ v[i-1] = u[i-1] + IF k <= i - 1 THEN c[k] - b[k] ELSE 0
    BY <1>5
  <2>2. CASE i = k
    <3>1. c[k] \in Nat /\ b[k] \in Nat /\ ~(k <= i - 1) /\ k <= i
      BY <1>1, <2>2
    <3>2. v[i] = u[i] + IF k <= i THEN c[k] - b[k] ELSE 0
      BY <2>0, <2>1, <2>2, <3>1
    <3>. QED BY <2>0, <3>2
  <2>3. CASE i # k
    <3>1. c[i] = b[i] /\ b[i] \in Nat /\ b[k] \in Nat /\ c[k] \in Nat /\ k \in Nat /\ i \in Nat
      BY <1>1, <2>3
    <3>2. v[i] = u[i] + IF k <= i THEN c[k] - b[k] ELSE 0
      BY <2>0, <2>1, <2>3, <3>1
    <3>. QED BY <2>0, <3>2
  <2>. QED BY <2>2, <2>3
<1>6. \A i \in 1 .. N : i - 1 \in S => i \in S
  BY <1>5
<1>7. \A i \in 0 .. N : i \in S
  <2> HIDE DEF S
  <2>. QED BY <1>1, <1>4, <1>6, Induction, Zenon
<1>8. v[N] = u[N] + c[k] - b[k]
  BY <1>1, <1>2, <1>3, <1>7
<1>. QED BY <1>2, <1>3, <1>8

(* The sum is a number no smaller than what any address holds, and it is   *)
(* 0 when none holds anything.                                             *)
LEMMA SumFacts ==
  ASSUME NEW b \in Amounts
  PROVE  /\ Sum(b) \in Nat
         /\ \A k \in Addresses : b[k] <= Sum(b)
         /\ (\A a \in Addresses : b[a] = 0) => Sum(b) = 0
<1> DEFINE N == MaxFiles
<1>1. N \in Nat /\ Addresses = 1 .. N /\ \A i \in 1 .. N : b[i] \in Nat
  BY RamdiskAssumption DEF Amounts, Addresses
<1>2. PICK u \in [0 .. N -> Nat] :
        u[0] = 0 /\ (\A i \in 1 .. N : u[i] = u[i-1] + b[i]) /\ Sum(b) = u[N]
  BY SumLoop, Zenon
<1>3. ASSUME NEW c \in Amounts PROVE Sum(c) \in Nat
  <2>1. PICK v \in [0 .. N -> Nat] : Sum(c) = v[N]
    BY SumLoop, Zenon
  <2>. QED BY <1>1, <2>1
<1>4. ASSUME NEW k \in Addresses PROVE b[k] <= Sum(b)
  <2> DEFINE c == [b EXCEPT ![k] = 0]
  <2>1. c \in Amounts /\ c[k] = 0 /\ \A a \in Addresses \ {k} : c[a] = b[a]
    BY DEF Amounts
  <2> HIDE DEF c
  <2>2. Sum(c) = Sum(b) + c[k] - b[k]
    BY <2>1, SumChange, Zenon
  <2>. QED BY <1>1, <1>3, <2>1, <2>2
<1>5. ASSUME \A a \in Addresses : b[a] = 0 PROVE Sum(b) = 0
  <2> DEFINE S == {i \in 0 .. N : u[i] = 0}
  <2>1. 0 \in S
    BY <1>1, <1>2
  <2>2. ASSUME NEW i \in 1 .. N, i - 1 \in S PROVE i \in S
    <3>1. i \in 0 .. N /\ u[i-1] = 0 /\ b[i] = 0 /\ u[i] = u[i-1] + b[i]
      BY <1>1, <1>2, <1>5, <2>2
    <3>. QED BY <3>1
  <2>3. \A i \in 0 .. N : i \in S
    <3> HIDE DEF S
    <3>. QED BY <1>1, <2>1, <2>2, Induction, Zenon
  <2>. QED BY <1>1, <1>2, <2>3
<1>. QED BY <1>3, <1>4, <1>5

-----------------------------------------------------------------------------
(* The inductive invariant.                                                *)

Nodes ==
  [type : {"DIRECTORY", "REGULAR"}, name : Names \cup {NULL}, parent : {NULL, root} \cup Addresses,
   files : Seq(Addresses), data : Seq(Bytes \cup {NUL}), wild : BOOLEAN]

TreeTypes ==
  /\ DOMAIN rd \subseteq {root} \cup Addresses /\ root \in DOMAIN rd
  /\ rd \in [DOMAIN rd -> Nodes]
  /\ rd[root].type = "DIRECTORY"
  /\ \A g \in DOMAIN rd \ {root} : rd[g].name \in Names /\ rd[g].parent \in DOMAIN rd

TypeOK == TreeTypes /\ current_bytes \in Nat /\ undefined \in BOOLEAN

(* g is the file called x in the directory p.                              *)
Child(p, x, g) == g \in DOMAIN rd \ {root} /\ rd[g].parent = p /\ rd[g].name = x

(* The files that path leads through, from the root on.                    *)
Way(path, w) ==
  /\ w \in [0 .. Len(path) -> DOMAIN rd]
  /\ w[0] = root
  /\ \A i \in 1 .. Len(path) : Child(w[i-1], path[i], w[i])

Led ==
  \A f \in DOMAIN rd : \E path \in {<<>>} \cup Paths :
    \E w \in [0 .. Len(path) -> DOMAIN rd] : Way(path, w) /\ w[Len(path)] = f

Held == [a \in Addresses |-> IF a \in DOMAIN rd THEN size(a) ELSE 0]

Balanced == current_bytes = Sum(Held) /\ current_bytes <= max_bytes

IInv == TypeOK /\ Listed /\ Led /\ Balanced

-----------------------------------------------------------------------------
(* What the lookups find.                                                  *)

(* get_file finds the child of the name, if there is one, and only that.   *)
LEMMA Find ==
  ASSUME TreeTypes, Listed, NEW p \in DOMAIN rd, NEW x
  PROVE  /\ get_file(x, rd[p].files) # NULL => Child(p, x, get_file(x, rd[p].files))
         /\ \A g : Child(p, x, g) => get_file(x, rd[p].files) = g /\ g # NULL
<1> DEFINE L      == rd[p].files
           Has(k) == rd[L[k]].name = x
           at     == {k \in DOMAIN L : Has(k)}
           First  == CHOOSE k \in DOMAIN L : Has(k) /\ \A j \in 1 .. k - 1 : ~Has(j)
<1>1. get_file(x, L) = IF \E k \in DOMAIN L : Has(k) THEN L[First] ELSE NULL
  BY DEF get_file
<1>2. /\ L \in Seq(Addresses) /\ DOMAIN L = 1 .. Len(L) /\ Len(L) \in Nat
      /\ Range(L) = {g \in DOMAIN rd \ {root} : rd[g].parent = p}
      /\ \A j, k \in DOMAIN L : j # k => rd[L[j]].name # rd[L[k]].name
  BY DEF TreeTypes, Nodes, Listed
<1>3. ASSUME NEW k \in DOMAIN L, Has(k) PROVE get_file(x, L) = L[k] /\ Child(p, x, L[k])
  <2>1. at \in SUBSET Nat /\ at # {}
    BY <1>2, <1>3
  <2>2. PICK m \in at : \A y \in at : m <= y
    <3> HIDE DEF at
    <3>. QED BY <2>1, Least, Zenon
  <2>3. m \in DOMAIN L /\ Has(m) /\ \A j \in 1 .. m - 1 : ~Has(j)
    BY <1>2, <2>2
  <2>4. First \in DOMAIN L /\ Has(First)
    <3> HIDE DEF Has, L
    <3>. QED BY <2>3, Zenon
  <2>5. First = k
    <3> HIDE DEF First
    <3>. QED BY <1>2, <1>3, <2>4
  <2>6. L[k] \in Range(L)
    BY DEF Range
  <2>. QED BY <1>1, <1>2, <1>3, <2>5, <2>6, Zenon DEF Child
<1>4. ASSUME NEW g, Child(p, x, g) PROVE get_file(x, L) = g /\ g # NULL
  <2>1. g \in Range(L)
    BY <1>2, <1>4 DEF Child
  <2>2. PICK k \in DOMAIN L : L[k] = g
    BY <2>1 DEF Range
  <2>3. g # NULL
    BY <1>4, RamdiskAssumption DEF Child, TreeTypes, root, Addresses
  <2>. QED BY <1>3, <1>4, <2>2, <2>3 DEF Child
<1>5. ASSUME get_file(x, L) # NULL PROVE Child(p, x, get_file(x, L))
  <2>1. PICK k \in DOMAIN L : Has(k)
    BY <1>1, <1>5, Zenon
  <2>. QED BY <1>3, <2>1, Zenon
<1>. QED BY <1>4, <1>5, Zenon

(* Nothing is found in a list that is empty.                               *)
LEMMA FindNothing ==
  ASSUME NEW x
  PROVE  get_file(x, <<>>) = NULL
BY DEF get_file

(* A path is a sequence of names, with the path of its directory before    *)
(* its last name.                                                          *)
LEMMA PathFacts ==
  ASSUME NEW path \in Paths
  PROVE  /\ path \in Seq(Names) /\ Len(path) \in 1 .. MaxDepth /\ path # <<>>
         /\ \A i \in 1 .. Len(path) : path[i] \in Names
         /\ Front(path) \in {<<>>} \cup Paths
         /\ Len(Front(path)) = Len(path) - 1
         /\ \A i \in 1 .. Len(path) - 1 : Front(path)[i] = path[i]
<1>1. PICK n \in 1 .. MaxDepth : path \in [1 .. n -> Names]
  BY DEF Paths
<1>2. n \in Nat /\ n >= 1 /\ MaxDepth \in Nat
  BY RamdiskAssumption
<1>3. path \in Seq(Names) /\ Len(path) = n /\ path # <<>>
  BY <1>1, <1>2
<1>4. /\ Front(path) \in Seq(Names) /\ Len(Front(path)) = n - 1
      /\ \A i \in 1 .. n - 1 : Front(path)[i] = path[i]
  BY <1>2, <1>3 DEF Front
<1>5. Front(path) \in {<<>>} \cup Paths
  <2>1. CASE n = 1
    BY <1>4, <2>1
  <2>2. CASE n # 1
    <3>1. n - 1 \in 1 .. MaxDepth /\ Front(path) \in [1 .. n - 1 -> Names]
      BY <1>1, <1>2, <1>4, <2>2
    <3>. QED BY <3>1 DEF Paths
  <2>. QED BY <2>1, <2>2
<1>. QED BY <1>1, <1>3, <1>4, <1>5

(* A round of get_parent_directory takes a directory, or NULL, to one.     *)
LEMMA Round ==
  ASSUME TreeTypes, Listed, NEW f \in DOMAIN rd \cup {NULL}, NEW x
  PROVE  /\ directory(get_file(x, files(f))) \in DOMAIN rd \cup {NULL}
         /\ f = NULL => directory(get_file(x, files(f))) = NULL
         /\ \A g : g = directory(get_file(x, files(f))) /\ g # NULL
                 => f # NULL /\ Child(f, x, g) /\ rd[g].type = "DIRECTORY"
         /\ \A g : f # NULL /\ Child(f, x, g) /\ rd[g].type = "DIRECTORY"
                 => g = directory(get_file(x, files(f)))
<1>1. CASE f = NULL
  BY <1>1, FindNothing, Zenon DEF files, directory
<1>2. CASE f # NULL
  <2>1. f \in DOMAIN rd /\ files(f) = rd[f].files
    BY <1>2 DEF files
  <2>2. /\ get_file(x, rd[f].files) # NULL => Child(f, x, get_file(x, rd[f].files))
        /\ \A g : Child(f, x, g) => get_file(x, rd[f].files) = g /\ g # NULL
    BY <2>1, Find
  <2>. QED BY <1>2, <2>1, <2>2 DEF directory, Child
<1>. QED BY <1>1, <1>2, Zenon

(* What get_parent_directory's loop computes.                              *)
LEMMA Descent ==
  ASSUME TreeTypes, Listed, NEW path \in Paths
  PROVE  /\ descent(path)[0] = root
         /\ \A i \in 1 .. Len(path) - 1 :
              descent(path)[i] = directory(get_file(path[i], files(descent(path)[i-1])))
         /\ \A i \in 0 .. Len(path) - 1 : descent(path)[i] \in DOMAIN rd \cup {NULL}
<1> DEFINE N       == Len(path) - 1
           S       == DOMAIN rd \cup {NULL}
           D(i, x) == directory(get_file(path[i], files(x)))
           G       == [i \in 1 .. N |-> [x \in S |-> D(i, x)]]
           E(u)    == [i \in 0 .. N |-> IF i = 0 THEN root ELSE D(i, u[i-1])]
           c       == CHOOSE u : u = E(u)
<1>0. descent(path) = c
  BY DEF descent
<1>1. N \in Nat /\ root \in S /\ \A i \in 1 .. N, x \in S : D(i, x) \in S
  BY PathFacts, Round DEF TreeTypes
<1> HIDE DEF S, D, N
<1>2. G \in [1 .. N -> [S -> S]]
  BY <1>1
<1>3. PICK g \in [0 .. N -> S] : Computes(N, root, G, g)
  <2> HIDE DEF G
  <2>. QED BY <1>1, <1>2, Loop
<1>4. g = E(g)
  <2>1. ASSUME NEW i \in 0 .. N PROVE g[i] = E(g)[i]
    <3>1. CASE i = 0
      BY <1>3, <3>1 DEF Computes
    <3>2. CASE i # 0
      <4>1. i \in 1 .. N /\ i - 1 \in 0 .. N
        BY <1>1, <3>2
      <4>2. g[i-1] \in S /\ g[i] = G[i][g[i-1]]
        BY <1>3, <4>1 DEF Computes
      <4>3. G[i][g[i-1]] = D(i, g[i-1])
        BY <4>1, <4>2
      <4>. QED BY <3>2, <4>2, <4>3
    <3>. QED BY <3>1, <3>2
  <2>. QED BY <1>3, <2>1
<1>5. c = E(c)
  BY <1>4, Zenon
<1> HIDE DEF c
<1>6. c[0] = root /\ \A i \in 1 .. N : c[i] = D(i, c[i-1])
  BY <1>1, <1>5
<1>7. \A i \in 0 .. N : c[i] \in S
  <2> DEFINE T == {i \in 0 .. N : c[i] \in S}
  <2>1. 0 \in T
    BY <1>1, <1>6
  <2>2. ASSUME NEW i \in 1 .. N, i - 1 \in T PROVE i \in T
    BY <1>1, <1>6, <2>2
  <2>3. \A i \in 0 .. N : i \in T
    <3> HIDE DEF T
    <3>. QED BY <1>1, <2>1, <2>2, Induction, Zenon
  <2>. QED BY <2>3
<1>. QED BY <1>0, <1>6, <1>7 DEF D, S, N

(* What has a file in it is a directory.                                   *)
LEMMA ParentIsDirectory ==
  ASSUME TreeTypes, Listed, NEW p \in DOMAIN rd, NEW x, NEW g, Child(p, x, g)
  PROVE  rd[p].type = "DIRECTORY"
<1>1. g \in Range(rd[p].files)
  BY DEF Child, Listed
<1>2. rd[p].files # <<>>
  BY <1>1 DEF Range
<1>3. rd[p].type \in {"DIRECTORY", "REGULAR"}
  BY DEF TreeTypes, Nodes
<1>. QED BY <1>2, <1>3 DEF Listed

(* get_parent_directory goes the way that the path leads.                  *)
LEMMA WayTaken ==
  ASSUME TreeTypes, Listed, NEW path \in Paths, NEW w,
         w \in [0 .. Len(path) - 1 -> DOMAIN rd], w[0] = root,
         \A i \in 1 .. Len(path) - 1 : Child(w[i-1], path[i], w[i]),
         rd[w[Len(path) - 1]].type = "DIRECTORY"
  PROVE  get_parent_directory(path) = w[Len(path) - 1]
<1> DEFINE N == Len(path) - 1
           d == descent(path)
           S == {i \in 0 .. N : d[i] = w[i]}
<1>1. N \in Nat
  BY PathFacts
<1>2. /\ d[0] = root
      /\ \A i \in 1 .. N : d[i] = directory(get_file(path[i], files(d[i-1])))
  BY Descent, Zenon
<1> HIDE DEF d, N
<1>3. 0 \in S
  BY <1>1, <1>2
<1>4. ASSUME NEW i \in 1 .. N, i - 1 \in S PROVE i \in S
  <2>1. i \in 0 .. N /\ i - 1 \in 0 .. N /\ d[i-1] = w[i-1]
    BY <1>1, <1>4
  <2>2. w[i] \in DOMAIN rd /\ w[i-1] \in DOMAIN rd /\ Child(w[i-1], path[i], w[i])
    BY <2>1 DEF N
  <2>3. rd[w[i]].type = "DIRECTORY"
    <3>1. CASE i = N
      BY <3>1 DEF N
    <3>2. CASE i # N
      <4>1. i + 1 \in 1 .. N /\ (i + 1) - 1 = i
        BY <1>1, <3>2
      <4>2. Child(w[i], path[i+1], w[i+1])
        BY <4>1 DEF N
      <4>. QED BY <2>2, <4>2, ParentIsDirectory
    <3>. QED BY <3>1, <3>2
  <2>4. w[i-1] # NULL
    BY <2>2, RamdiskAssumption DEF TreeTypes, root, Addresses
  <2>5. w[i] = directory(get_file(path[i], files(w[i-1])))
    BY <2>2, <2>3, <2>4, Round
  <2>6. d[i] = w[i]
    BY <1>2, <2>1, <2>5
  <2>. QED BY <2>1, <2>6
<1>5. \A i \in 0 .. N : i \in S
  <2> HIDE DEF S
  <2>. QED BY <1>1, <1>3, <1>4, Induction, Zenon
<1>6. d[N] = w[N]
  BY <1>1, <1>5
<1>. QED BY <1>6 DEF get_parent_directory, d, N

(* Where get_parent_directory does not return NULL, it has gone a way.     *)
LEMMA WayDown ==
  ASSUME TreeTypes, Listed, NEW path \in Paths, get_parent_directory(path) # NULL
  PROVE  \E w \in [0 .. Len(path) - 1 -> DOMAIN rd] :
           /\ w[0] = root /\ w[Len(path) - 1] = get_parent_directory(path)
           /\ \A i \in 1 .. Len(path) - 1 : Child(w[i-1], path[i], w[i])
<1> DEFINE N == Len(path) - 1
           d == descent(path)
           S == {i \in 0 .. N : d[N - i] # NULL}
<1>1. N \in Nat
  BY PathFacts
<1>2. /\ d[0] = root
      /\ \A i \in 1 .. N : d[i] = directory(get_file(path[i], files(d[i-1])))
      /\ \A i \in 0 .. N : d[i] \in DOMAIN rd \cup {NULL}
  BY Descent, Zenon
<1>3. d[N] = get_parent_directory(path)
  BY DEF get_parent_directory
<1> HIDE DEF d, N
<1>4. 0 \in S
  BY <1>1, <1>3
<1>5. ASSUME NEW i \in 1 .. N, d[i] # NULL PROVE d[i-1] # NULL /\ Child(d[i-1], path[i], d[i])
  <2>1. d[i-1] \in DOMAIN rd \cup {NULL} /\ d[i] = directory(get_file(path[i], files(d[i-1])))
    BY <1>1, <1>2
  <2>. QED BY <1>5, <2>1, Round
<1>6. ASSUME NEW i \in 1 .. N, i - 1 \in S PROVE i \in S
  <2>1. i \in 0 .. N /\ N - (i - 1) \in 1 .. N /\ (N - (i - 1)) - 1 = N - i
    BY <1>1
  <2>2. d[N - (i - 1)] # NULL
    BY <1>6
  <2>3. d[N - i] # NULL
    BY <1>5, <2>1, <2>2
  <2>. QED BY <2>1, <2>3
<1>7. \A i \in 0 .. N : i \in S
  <2> HIDE DEF S
  <2>. QED BY <1>1, <1>4, <1>6, Induction, Zenon
<1>8. \A i \in 0 .. N : d[i] # NULL /\ d[i] \in DOMAIN rd
  <2>1. ASSUME NEW i \in 0 .. N PROVE d[i] # NULL
    <3>1. N - i \in 0 .. N /\ N - (N - i) = i
      BY <1>1
    <3>2. d[N - (N - i)] # NULL
      BY <1>7, <3>1
    <3>. QED BY <3>1, <3>2
  <2>. QED BY <1>2, <2>1
<1> DEFINE w == [i \in 0 .. N |-> d[i]]
<1>9. w \in [0 .. N -> DOMAIN rd] /\ w[0] = root /\ w[N] = get_parent_directory(path)
  BY <1>1, <1>2, <1>3, <1>8
<1>10. \A i \in 1 .. N : Child(w[i-1], path[i], w[i])
  <2>1. ASSUME NEW i \in 1 .. N PROVE Child(w[i-1], path[i], w[i])
    <3>1. i \in 0 .. N /\ i - 1 \in 0 .. N
      BY <1>1
    <3>. QED BY <1>5, <1>8, <3>1
  <2>. QED BY <2>1, Zenon
<1> HIDE DEF w
<1>. QED BY <1>9, <1>10 DEF N

(* A way to the directory of path, and one file further.                   *)
LEMMA WayOn ==
  ASSUME NEW path \in Paths, NEW w, NEW g,
         w \in [0 .. Len(path) - 1 -> DOMAIN rd], w[0] = root,
         \A i \in 1 .. Len(path) - 1 : Child(w[i-1], path[i], w[i]),
         Child(w[Len(path) - 1], path[Len(path)], g)
  PROVE  \E v \in [0 .. Len(path) -> DOMAIN rd] : Way(path, v) /\ v[Len(path)] = g
<1> DEFINE n == Len(path)
           v == [i \in 0 .. n |-> IF i = n THEN g ELSE w[i]]
<1>1. n \in Nat /\ n >= 1
  BY PathFacts
<1> HIDE DEF n
<1>2. v \in [0 .. n -> DOMAIN rd] /\ v[0] = root /\ v[n] = g
  BY <1>1 DEF n, Child
<1>3. ASSUME NEW i \in 1 .. n PROVE Child(v[i-1], path[i], v[i])
  <2>1. i \in 0 .. n /\ i - 1 \in 0 .. n /\ i - 1 # n
    BY <1>1
  <2>2. v[i-1] = w[i-1]
    BY <2>1
  <2>3. CASE i = n
    BY <2>1, <2>2, <2>3 DEF n
  <2>4. CASE i # n
    <3>1. v[i] = w[i] /\ i \in 1 .. n - 1
      BY <1>1, <2>1, <2>4
    <3>. QED BY <2>2, <3>1 DEF n
  <2>. QED BY <2>3, <2>4
<1> HIDE DEF v
<1>. QED BY <1>2, <1>3 DEF Way, n

(* get_rd_file finds the file that the path leads to.                      *)
LEMMA Reached ==
  ASSUME TreeTypes, Listed, NEW path \in {<<>>} \cup Paths, NEW w, Way(path, w)
  PROVE  get_rd_file(path) = w[Len(path)]
<1>1. CASE path = <<>>
  BY <1>1, Zenon DEF Way, get_rd_file
<1>2. CASE path \in Paths
  <2> DEFINE n == Len(path)
             v == [i \in 0 .. n - 1 |-> w[i]]
  <2>1. n \in Nat /\ n >= 1 /\ path # <<>>
    BY <1>2, PathFacts
  <2>2. /\ w \in [0 .. n -> DOMAIN rd] /\ w[0] = root
        /\ \A i \in 1 .. n : Child(w[i-1], path[i], w[i])
    BY DEF Way
  <2>3. /\ v \in [0 .. n - 1 -> DOMAIN rd] /\ v[0] = root /\ v[n-1] = w[n-1]
        /\ w[n-1] \in DOMAIN rd /\ Child(w[n-1], path[n], w[n])
    BY <2>1, <2>2
  <2>4. \A i \in 1 .. n - 1 : Child(v[i-1], path[i], v[i])
    <3>1. ASSUME NEW i \in 1 .. n - 1 PROVE Child(v[i-1], path[i], v[i])
      <4>1. i \in 1 .. n /\ v[i-1] = w[i-1] /\ v[i] = w[i]
        BY <2>1
      <4>. QED BY <2>2, <4>1
    <3>. QED BY <3>1, Zenon
  <2>5. rd[v[n-1]].type = "DIRECTORY"
    BY <2>3, ParentIsDirectory
  <2> HIDE DEF v
  <2>6. get_parent_directory(path) = w[n-1]
    BY <1>2, <2>3, <2>4, <2>5, WayTaken, Zenon
  <2>7. w[n-1] # NULL
    BY <2>3, RamdiskAssumption DEF TreeTypes, root, Addresses
  <2>8. get_file(path[n], rd[w[n-1]].files) = w[n]
    BY <2>3, Find
  <2>. QED BY <2>1, <2>6, <2>7, <2>8, Zenon DEF get_rd_file, files, Last
<1>. QED BY <1>1, <1>2

(* Where the kernel has found the directory of path, the handler finds the *)
(* same one.                                                               *)
LEMMA Resolves ==
  ASSUME TreeTypes, Listed, NEW path \in Paths, Resolved(path)
  PROVE  /\ get_parent_directory(path) \in DOMAIN rd
         /\ rd[get_parent_directory(path)].type = "DIRECTORY"
         /\ \E w \in [0 .. Len(path) - 1 -> DOMAIN rd] :
              /\ w[0] = root /\ w[Len(path) - 1] = get_parent_directory(path)
              /\ \A i \in 1 .. Len(path) - 1 : Child(w[i-1], path[i], w[i])
<1> DEFINE q == Front(path)
           n == Len(path)
           f == get_rd_file(q)
<1>1. /\ n \in Nat /\ n >= 1 /\ q \in {<<>>} \cup Paths /\ Len(q) = n - 1
      /\ \A i \in 1 .. n - 1 : q[i] = path[i]
  BY PathFacts
<1>2. f # NULL /\ rd[f].type = "DIRECTORY"
  BY DEF Resolved, IsA
<1>3. \E w \in [0 .. n - 1 -> DOMAIN rd] : Way(q, w)
  <2>1. CASE q = <<>>
    <3> DEFINE w == [i \in 0 .. n - 1 |-> root]
    <3>1. n = 1 /\ Len(q) = 0
      BY <1>1, <2>1
    <3>2. w \in [0 .. n - 1 -> DOMAIN rd] /\ w[0] = root
      BY <3>1 DEF TreeTypes
    <3>3. \A i \in 1 .. Len(q) : FALSE
      BY <3>1
    <3> HIDE DEF w
    <3>. QED BY <1>1, <3>2, <3>3 DEF Way
  <2>2. CASE q \in Paths
    <3> DEFINE p == get_parent_directory(q)
    <3>1. q # <<>> /\ f = get_file(q[n-1], files(p))
      BY <1>1, <2>2, PathFacts DEF get_rd_file, Last
    <3>2. p # NULL
      BY <1>2, <3>1, FindNothing DEF files
    <3>3. PICK v \in [0 .. Len(q) - 1 -> DOMAIN rd] :
            /\ v[0] = root /\ v[Len(q) - 1] = p
            /\ \A i \in 1 .. Len(q) - 1 : Child(v[i-1], q[i], v[i])
      BY <2>2, <3>2, WayDown
    <3>4. p \in DOMAIN rd
      <4>1. Len(q) - 1 \in 0 .. Len(q) - 1
        BY <2>2, PathFacts
      <4>. QED BY <3>3, <4>1
    <3>5. Child(p, q[Len(q)], f)
      BY <1>1, <1>2, <3>1, <3>2, <3>4, Find DEF files
    <3> HIDE DEF p, f, q, n
    <3>6. \E w \in [0 .. Len(q) -> DOMAIN rd] : Way(q, w) /\ w[Len(q)] = f
      BY <2>2, <3>3, <3>5, WayOn, Zenon
    <3>. QED BY <1>1, <3>6
  <2>. QED BY <1>1, <2>1, <2>2
<1>4. PICK w \in [0 .. n - 1 -> DOMAIN rd] : Way(q, w)
  BY <1>3
<1>5. f = w[n-1] /\ w[n-1] \in DOMAIN rd
  BY <1>1, <1>4, Reached
<1>6. /\ w \in [0 .. n - 1 -> DOMAIN rd] /\ w[0] = root /\ rd[w[n-1]].type = "DIRECTORY"
      /\ \A i \in 1 .. n - 1 : Child(w[i-1], path[i], w[i])
  BY <1>1, <1>2, <1>4, <1>5 DEF Way
<1>7. get_parent_directory(path) = w[n-1]
  BY <1>6, WayTaken, Zenon
<1>. QED BY <1>5, <1>6, <1>7

(* The inductive invariant says what is wanted.                            *)
LEMMA Implied ==
  ASSUME IInv
  PROVE  Accounting
<1>1. ASSUME NEW f \in DOMAIN rd PROVE \E path \in {<<>>} \cup Paths : get_rd_file(path) = f
  <2>1. PICK path \in {<<>>} \cup Paths : \E w \in [0 .. Len(path) -> DOMAIN rd] :
                                          Way(path, w) /\ w[Len(path)] = f
    BY DEF IInv, Led
  <2>. QED BY <2>1, Reached DEF IInv, TypeOK
<1>. QED BY <1>1 DEF IInv, Accounting, IsTree, Balanced, Held

-----------------------------------------------------------------------------
(* What the handlers do to the tree.                                       *)

(* A way through files that keep their places remains one.                 *)
LEMMA WayKept ==
  ASSUME NEW path, NEW w, Way(path, w),
         \A i \in 0 .. Len(path) : /\ w[i] \in DOMAIN rd'
                                   /\ rd'[w[i]].parent = rd[w[i]].parent /\ rd'[w[i]].name = rd[w[i]].name
  PROVE  Way(path, w)' /\ w \in [0 .. Len(path) -> DOMAIN rd']
<1>1. w \in [0 .. Len(path) -> DOMAIN rd']
  BY DEF Way
<1>2. ASSUME NEW i \in 1 .. Len(path) PROVE Child(w[i-1], path[i], w[i])'
  <2>1. i \in 0 .. Len(path) /\ Child(w[i-1], path[i], w[i])
    BY DEF Way
  <2>. QED BY <2>1 DEF Child
<1>. QED BY <1>1, <1>2, Zenon DEF Way

(* Files that only change their contents leave the tree as it is.          *)
LEMMA SamePlaces ==
  ASSUME TreeTypes, Listed, Led,
         DOMAIN rd' = DOMAIN rd,
         \A f \in DOMAIN rd : /\ rd'[f].type = rd[f].type /\ rd'[f].files = rd[f].files
                              /\ rd'[f].parent = rd[f].parent /\ rd'[f].name = rd[f].name
  PROVE  Listed' /\ Led'
<1>1. Listed'
  <2>1. SUFFICES ASSUME NEW f \in DOMAIN rd
                 PROVE  /\ rd'[f].type = "REGULAR" => rd'[f].files = <<>>
                        /\ Range(rd'[f].files) = {g \in DOMAIN rd' \ {root} : rd'[g].parent = f}
                        /\ \A j, k \in DOMAIN rd'[f].files :
                             j # k => rd'[rd'[f].files[j]].name # rd'[rd'[f].files[k]].name
    BY DEF Listed
  <2>2. Range(rd[f].files) \subseteq DOMAIN rd
    BY DEF Listed
  <2>3. \A j \in DOMAIN rd[f].files : rd[f].files[j] \in DOMAIN rd
    BY <2>2 DEF Range
  <2>. QED BY <2>3 DEF Listed
<1>2. Led'
  <2>1. SUFFICES ASSUME NEW f \in DOMAIN rd
                 PROVE  \E path \in {<<>>} \cup Paths : \E w \in [0 .. Len(path) -> DOMAIN rd'] :
                          Way(path, w)' /\ w[Len(path)] = f
    BY DEF Led
  <2>2. PICK path \in {<<>>} \cup Paths : \E w \in [0 .. Len(path) -> DOMAIN rd] :
                                          Way(path, w) /\ w[Len(path)] = f
    BY DEF Led
  <2>3. PICK w \in [0 .. Len(path) -> DOMAIN rd] : Way(path, w) /\ w[Len(path)] = f
    BY <2>2
  <2>4. Way(path, w)' /\ w \in [0 .. Len(path) -> DOMAIN rd']
    BY <2>3, WayKept
  <2>. QED BY <2>3, <2>4
<1>. QED BY <1>1, <1>2

(* push adds a file that was not there, at the end of the way of its path, *)
(* and changes no other but for the list of the directory it is in.        *)
LEMMA AddStep ==
  ASSUME TreeTypes, Listed, Led, NEW path \in Paths, Resolved(path), ~Exists(path),
         NEW type \in {"DIRECTORY", "REGULAR"}, push(path, type)
  PROVE  /\ TreeTypes' /\ Listed' /\ Led'
         /\ \E n \in Addresses \ DOMAIN rd :
              /\ DOMAIN rd' = DOMAIN rd \cup {n}
              /\ rd'[n].type = type /\ rd'[n].data = <<>>
              /\ \A f \in DOMAIN rd : rd'[f].type = rd[f].type /\ rd'[f].data = rd[f].data
<1> DEFINE x == Last(path)
<1>0. PICK p, n : p = get_parent_directory(path) /\ n = Min(Addresses \ DOMAIN rd)
  OBVIOUS
<1> DEFINE L == rd[p].files
<1>1. PICK wild \in BOOLEAN :
        rd' = [f \in DOMAIN rd \cup {n} |->
                 IF f = n THEN create_rd_file(x, p, type, wild)
                 ELSE IF f = p THEN [rd[f] EXCEPT !.files = Append(@, n)]
                 ELSE rd[f]]
  BY <1>0 DEF push
<1>2. n \in Addresses \ DOMAIN rd
  <2>1. Addresses \ DOMAIN rd # {} /\ Addresses \ DOMAIN rd \in SUBSET Nat
    BY DEF push, Addresses
  <2>. QED BY <1>0, <2>1, FirstFree, Zenon
<1>3. /\ p \in DOMAIN rd /\ rd[p].type = "DIRECTORY"
      /\ \E w \in [0 .. Len(path) - 1 -> DOMAIN rd] :
           /\ w[0] = root /\ w[Len(path) - 1] = p
           /\ \A i \in 1 .. Len(path) - 1 : Child(w[i-1], path[i], w[i])
  BY <1>0, Resolves, Zenon
<1>4. \A g : ~Child(p, x, g)
  <2>1. p # NULL
    BY <1>3, RamdiskAssumption DEF TreeTypes, root, Addresses
  <2>2. get_file(x, L) = NULL
    BY <1>0, <2>1, PathFacts DEF Exists, get_rd_file, files
  <2>. QED BY <1>3, <2>2, Find
<1>5. x \in Names /\ x = path[Len(path)] /\ Len(path) \in Nat /\ Len(path) >= 1
  BY PathFacts DEF Last
<1>6. n # root /\ n # p /\ n \notin DOMAIN rd
  BY <1>2, <1>3 DEF root, Addresses
<1> HIDE DEF x
<1>7. /\ DOMAIN rd' = DOMAIN rd \cup {n}
      /\ rd'[n] = create_rd_file(x, p, type, wild)
      /\ rd'[p] = [rd[p] EXCEPT !.files = Append(@, n)]
      /\ \A f \in DOMAIN rd \ {p} : rd'[f] = rd[f]
  BY <1>1, <1>3, <1>6
<1>8. /\ rd'[n].type = type /\ rd'[n].data = <<>> /\ rd'[n].parent = p /\ rd'[n].name = x
      /\ rd'[n].files = <<>>
  BY <1>7 DEF create_rd_file
<1>9. /\ L \in Seq(Addresses) /\ rd'[p].files = Append(L, n)
      /\ \A f \in DOMAIN rd : /\ rd'[f].type = rd[f].type /\ rd'[f].data = rd[f].data
                               /\ rd'[f].parent = rd[f].parent /\ rd'[f].name = rd[f].name
  <2>1. rd[p] \in Nodes
    BY <1>3 DEF TreeTypes
  <2>2. /\ rd'[p].type = rd[p].type /\ rd'[p].data = rd[p].data
        /\ rd'[p].parent = rd[p].parent /\ rd'[p].name = rd[p].name
        /\ rd'[p].files = Append(L, n) /\ L \in Seq(Addresses)
    BY <1>7, <2>1 DEF Nodes
  <2>. QED BY <1>7, <2>2, Zenon
<1>10. TreeTypes'
  <2>1. rd'[n] \in Nodes
    BY <1>2, <1>3, <1>5, <1>7 DEF Nodes, create_rd_file, TreeTypes
  <2>2. rd'[p] \in Nodes
    <3>1. rd[p] \in Nodes /\ Append(L, n) \in Seq(Addresses)
      BY <1>2, <1>3, <1>9 DEF TreeTypes
    <3>. QED BY <1>7, <3>1, Zenon DEF Nodes
  <2>3. \A f \in DOMAIN rd' : rd'[f] \in Nodes
    BY <1>7, <2>1, <2>2 DEF TreeTypes
  <2>4. rd' \in [DOMAIN rd' -> Nodes]
    BY <1>1, <2>3, Zenon
  <2>5. rd'[root].type = "DIRECTORY"
    BY <1>9 DEF TreeTypes
  <2>6. \A g \in DOMAIN rd' \ {root} : rd'[g].name \in Names /\ rd'[g].parent \in DOMAIN rd'
    BY <1>3, <1>5, <1>7, <1>8, <1>9 DEF TreeTypes
  <2>. QED BY <1>2, <1>7, <2>4, <2>5, <2>6, Zenon DEF TreeTypes
<1>11. Listed'
  <2> DEFINE Fine(f) == /\ rd'[f].type = "REGULAR" => rd'[f].files = <<>>
                        /\ Range(rd'[f].files) = {g \in DOMAIN rd' \ {root} : rd'[g].parent = f}
                        /\ \A j, k \in DOMAIN rd'[f].files :
                             j # k => rd'[rd'[f].files[j]].name # rd'[rd'[f].files[k]].name
  <2>1. Fine(n)
    <3>1. \A g \in DOMAIN rd' \ {root} : rd'[g].parent # n
      BY <1>6, <1>7, <1>8, <1>9 DEF TreeTypes
    <3>2. Range(<<>>) = {} /\ \A j \in DOMAIN <<>> : FALSE
      BY DEF Range
    <3>. QED BY <1>8, <3>1, <3>2
  <2>2. ASSUME NEW f \in DOMAIN rd, f # p PROVE Fine(f)
    <3>1. rd'[f] = rd[f] /\ Range(rd[f].files) = {g \in DOMAIN rd \ {root} : rd[g].parent = f}
      BY <1>7, <2>2 DEF Listed
    <3>2. \A j \in DOMAIN rd[f].files : rd[f].files[j] \in DOMAIN rd
      BY <3>1 DEF Range
    <3>3. {g \in DOMAIN rd' \ {root} : rd'[g].parent = f} = {g \in DOMAIN rd \ {root} : rd[g].parent = f}
      BY <1>7, <1>8, <1>9, <2>2, Zenon
    <3>. QED BY <1>9, <3>1, <3>2, <3>3 DEF Listed
  <2>3. Fine(p)
    <3>1. /\ Range(L) = {g \in DOMAIN rd \ {root} : rd[g].parent = p}
          /\ \A j, k \in DOMAIN L : j # k => rd[L[j]].name # rd[L[k]].name
      BY <1>3, Zenon DEF Listed
    <3>2. Range(Append(L, n)) = Range(L) \cup {n}
      BY <1>2, <1>9, EnqueueFacts
    <3>3. {g \in DOMAIN rd' \ {root} : rd'[g].parent = p} = {g \in DOMAIN rd \ {root} : rd[g].parent = p} \cup {n}
      BY <1>6, <1>7, <1>8, <1>9, Zenon
    <3>4. \A j \in DOMAIN L : L[j] \in DOMAIN rd /\ rd'[L[j]].name = rd[L[j]].name /\ rd[L[j]].name # x
      <4>1. ASSUME NEW j \in DOMAIN L PROVE L[j] \in DOMAIN rd \ {root} /\ rd[L[j]].parent = p
        BY <3>1 DEF Range
      <4>. QED BY <1>4, <1>9, <4>1, Zenon DEF Child
    <3>5. /\ DOMAIN L = 1 .. Len(L) /\ Len(L) \in Nat /\ DOMAIN Append(L, n) = 1 .. Len(L) + 1
          /\ (\A j \in 1 .. Len(L) : Append(L, n)[j] = L[j]) /\ Append(L, n)[Len(L) + 1] = n
      BY <1>2, <1>9
    <3>6. ASSUME NEW j \in DOMAIN Append(L, n), NEW k \in DOMAIN Append(L, n), j # k
          PROVE  rd'[Append(L, n)[j]].name # rd'[Append(L, n)[k]].name
      <4>1. CASE j = Len(L) + 1
        <5>1. k \in 1 .. Len(L)
          BY <3>5, <3>6, <4>1
        <5>2. k \in DOMAIN L /\ Append(L, n)[k] = L[k] /\ Append(L, n)[j] = n
          BY <3>5, <4>1, <5>1, Zenon
        <5>. QED BY <1>8, <3>4, <5>2, Zenon
      <4>2. CASE k = Len(L) + 1
        <5>1. j \in 1 .. Len(L)
          BY <3>5, <3>6, <4>2
        <5>2. j \in DOMAIN L /\ Append(L, n)[j] = L[j] /\ Append(L, n)[k] = n
          BY <3>5, <4>2, <5>1, Zenon
        <5>. QED BY <1>8, <3>4, <5>2, Zenon
      <4>3. CASE j # Len(L) + 1 /\ k # Len(L) + 1
        <5>1. j \in 1 .. Len(L) /\ k \in 1 .. Len(L)
          BY <3>5, <4>3
        <5>. QED BY <3>1, <3>4, <3>5, <3>6, <5>1
      <4>. QED BY <4>1, <4>2, <4>3
    <3>. QED BY <1>3, <1>9, <3>1, <3>2, <3>3, <3>6
  <2> HIDE DEF Fine
  <2>4. \A f \in DOMAIN rd' : Fine(f)
    BY <1>7, <2>1, <2>2, <2>3
  <2>. QED BY <2>4 DEF Fine, Listed
<1>12. Led'
  <2> DEFINE To(f, q, w) == Way(q, w)' /\ w[Len(q)] = f
  <2>1. ASSUME NEW f \in DOMAIN rd
        PROVE  \E q \in {<<>>} \cup Paths : \E w \in [0 .. Len(q) -> DOMAIN rd'] : To(f, q, w)
    <3>1. PICK q \in {<<>>} \cup Paths : \E w \in [0 .. Len(q) -> DOMAIN rd] : Way(q, w) /\ w[Len(q)] = f
      BY DEF Led
    <3>2. PICK w \in [0 .. Len(q) -> DOMAIN rd] : Way(q, w) /\ w[Len(q)] = f
      BY <3>1
    <3>3. Way(q, w)' /\ w \in [0 .. Len(q) -> DOMAIN rd']
      BY <1>7, <1>9, <3>2, WayKept
    <3>. QED BY <3>2, <3>3
  <2>2. \E w \in [0 .. Len(path) -> DOMAIN rd'] : To(n, path, w)
    <3>1. PICK w \in [0 .. Len(path) - 1 -> DOMAIN rd] :
            /\ w[0] = root /\ w[Len(path) - 1] = p
            /\ \A i \in 1 .. Len(path) - 1 : Child(w[i-1], path[i], w[i])
      BY <1>3
    <3> DEFINE v == [i \in 0 .. Len(path) |-> IF i = Len(path) THEN n ELSE w[i]]
    <3>2. v \in [0 .. Len(path) -> DOMAIN rd'] /\ v[0] = root /\ v[Len(path)] = n
      BY <1>5, <1>7, <3>1
    <3>3. ASSUME NEW i \in 1 .. Len(path) PROVE Child(v[i-1], path[i], v[i])'
      <4>1. i \in 0 .. Len(path) /\ i - 1 \in 0 .. Len(path) /\ i - 1 # Len(path)
        BY <1>5
      <4>2. v[i-1] = w[i-1]
        BY <4>1
      <4>3. CASE i = Len(path)
        <5>1. v[i] = n /\ v[i-1] = p
          BY <3>1, <4>1, <4>2, <4>3, Zenon
        <5> HIDE DEF v
        <5>. QED BY <1>5, <1>6, <1>7, <1>8, <4>3, <5>1, Zenon DEF Child
      <4>4. CASE i # Len(path)
        <5>1. v[i] = w[i] /\ i \in 1 .. Len(path) - 1
          BY <1>5, <4>1, <4>4
        <5>2. Child(w[i-1], path[i], w[i])
          BY <3>1, <5>1
        <5>3. Child(w[i-1], path[i], w[i])'
          BY <1>7, <1>9, <5>2 DEF Child
        <5> HIDE DEF v
        <5>. QED BY <4>2, <5>1, <5>3 DEF Child
      <4>. QED BY <4>3, <4>4
    <3> HIDE DEF v
    <3>. QED BY <3>2, <3>3 DEF Way
  <2> HIDE DEF To
  <2>3. \A f \in DOMAIN rd' : \E q \in {<<>>} \cup Paths : \E w \in [0 .. Len(q) -> DOMAIN rd'] : To(f, q, w)
    BY <1>7, <2>1, <2>2
  <2>. QED BY <2>3 DEF Led, To
<1>. QED BY <1>2, <1>7, <1>8, <1>9, <1>10, <1>11, <1>12, Zenon

(* What delete_item does to the tree when d's data is no wild pointer.     *)
Unlinked(d) ==
  rd' = [f \in DOMAIN rd \ {d} |->
           IF f = rd[d].parent THEN [rd[f] EXCEPT !.files = RemoveFirst(@, d)] ELSE rd[f]]

(* delete_item takes a file with an empty list out of the tree, and        *)
(* changes no other but for the list of the directory it was in.           *)
LEMMA DeleteStep ==
  ASSUME TreeTypes, Listed, Led, NEW d \in DOMAIN rd \ {root}, rd[d].files = <<>>, Unlinked(d)
  PROVE  /\ TreeTypes' /\ Listed' /\ Led'
         /\ DOMAIN rd' = DOMAIN rd \ {d}
         /\ \A f \in DOMAIN rd' : rd'[f].type = rd[f].type /\ rd'[f].data = rd[f].data
<1>1. PICK p : p = rd[d].parent
  OBVIOUS
<1> DEFINE L == rd[p].files
           R == RemoveFirst(L, d)
<1>2. \A g \in DOMAIN rd \ {root} : rd[g].parent # d
  <2>1. Range(rd[d].files) = {g \in DOMAIN rd \ {root} : rd[g].parent = d}
    BY DEF Listed
  <2>2. Range(<<>>) = {}
    BY DEF Range
  <2>. QED BY <2>1, <2>2
<1>3. p \in DOMAIN rd /\ p # d
  BY <1>1, <1>2 DEF TreeTypes
<1>4. /\ L \in Seq(Addresses) /\ DOMAIN L = 1 .. Len(L)
      /\ Range(L) = {g \in DOMAIN rd \ {root} : rd[g].parent = p}
      /\ \A j, k \in DOMAIN L : j # k => rd[L[j]].name # rd[L[k]].name
  BY <1>3 DEF TreeTypes, Nodes, Listed
<1>5. d \in Range(L) /\ IsInjective(L)
  BY <1>1, <1>4, Zenon DEF IsInjective
<1>6. R \in Seq(Addresses) /\ Range(R) = Range(L) \ {d} /\ IsInjective(R)
  <2> HIDE DEF L
  <2>. QED BY <1>4, <1>5, RemoveFacts
<1>7. /\ DOMAIN rd' = DOMAIN rd \ {d}
      /\ rd'[p] = [rd[p] EXCEPT !.files = R]
      /\ (\A f \in DOMAIN rd' \ {p} : rd'[f] = rd[f]) /\ rd' = [f \in DOMAIN rd' |-> rd'[f]]
  BY <1>1, <1>3 DEF Unlinked
<1> HIDE DEF R
<1>8. /\ rd'[p].files = R
      /\ \A f \in DOMAIN rd' : /\ rd'[f].type = rd[f].type /\ rd'[f].data = rd[f].data
                                /\ rd'[f].parent = rd[f].parent /\ rd'[f].name = rd[f].name
  <2>1. rd[p] \in Nodes
    BY <1>3 DEF TreeTypes
  <2>2. /\ rd'[p].type = rd[p].type /\ rd'[p].data = rd[p].data
        /\ rd'[p].parent = rd[p].parent /\ rd'[p].name = rd[p].name
        /\ rd'[p].files = R
    BY <1>7, <2>1 DEF Nodes
  <2>. QED BY <1>7, <2>2, Zenon
<1>9. TreeTypes'
  <2>1. rd'[p] \in Nodes
    <3>1. rd[p] \in Nodes
      BY <1>3 DEF TreeTypes
    <3>. QED BY <1>6, <1>7, <3>1, Zenon DEF Nodes
  <2>2. \A f \in DOMAIN rd' : rd'[f] \in Nodes
    BY <1>7, <2>1 DEF TreeTypes
  <2>3. rd' \in [DOMAIN rd' -> Nodes]
    BY <1>7, <2>2
  <2>4. root \in DOMAIN rd' /\ rd'[root].type = "DIRECTORY"
    BY <1>7, <1>8 DEF TreeTypes
  <2>5. \A g \in DOMAIN rd' \ {root} : rd'[g].name \in Names /\ rd'[g].parent \in DOMAIN rd'
    BY <1>2, <1>7, <1>8 DEF TreeTypes
  <2>. QED BY <1>7, <2>3, <2>4, <2>5 DEF TreeTypes
<1>10. Listed'
  <2> DEFINE Fine(f) == /\ rd'[f].type = "REGULAR" => rd'[f].files = <<>>
                        /\ Range(rd'[f].files) = {g \in DOMAIN rd' \ {root} : rd'[g].parent = f}
                        /\ \A j, k \in DOMAIN rd'[f].files :
                             j # k => rd'[rd'[f].files[j]].name # rd'[rd'[f].files[k]].name
  <2>1. ASSUME NEW f \in DOMAIN rd', f # p PROVE Fine(f)
    <3>1. /\ rd'[f] = rd[f] /\ f \in DOMAIN rd
          /\ Range(rd[f].files) = {g \in DOMAIN rd \ {root} : rd[g].parent = f}
      BY <1>7, <2>1 DEF Listed
    <3>2. \A j \in DOMAIN rd[f].files : rd[f].files[j] \in DOMAIN rd'
      <4>1. ASSUME NEW j \in DOMAIN rd[f].files PROVE rd[f].files[j] \in DOMAIN rd /\ rd[rd[f].files[j]].parent = f
        BY <3>1 DEF Range
      <4>. QED BY <1>1, <1>7, <2>1, <4>1, Zenon
    <3>3. {g \in DOMAIN rd' \ {root} : rd'[g].parent = f} = {g \in DOMAIN rd \ {root} : rd[g].parent = f}
      BY <1>1, <1>7, <1>8, <2>1, Zenon
    <3>. QED BY <1>8, <3>1, <3>2, <3>3 DEF Listed
  <2>2. Fine(p)
    <3>1. Range(R) = {g \in DOMAIN rd' \ {root} : rd'[g].parent = p}
      BY <1>4, <1>6, <1>7, <1>8
    <3>2. ASSUME NEW j \in DOMAIN R
          PROVE  /\ R[j] \in DOMAIN rd' /\ rd'[R[j]].name = rd[R[j]].name
                 /\ \E i \in DOMAIN L : L[i] = R[j]
      <4>1. R[j] \in Range(R)
        BY DEF Range
      <4>2. R[j] \in DOMAIN rd' /\ R[j] \in Range(L)
        BY <1>6, <3>1, <4>1, Zenon
      <4>. QED BY <1>8, <4>2 DEF Range
    <3>3. ASSUME NEW j \in DOMAIN R, NEW k \in DOMAIN R, j # k
          PROVE  rd'[R[j]].name # rd'[R[k]].name
      <4>1. R[j] # R[k]
        BY <1>6, <3>3 DEF IsInjective
      <4>2. PICK a \in DOMAIN L : L[a] = R[j]
        BY <3>2
      <4>3. PICK b \in DOMAIN L : L[b] = R[k]
        BY <3>2
      <4>4. a # b
        BY <4>1, <4>2, <4>3, Zenon
      <4>5. rd[R[j]].name # rd[R[k]].name
        BY <1>4, <4>2, <4>3, <4>4
      <4>. QED BY <3>2, <4>5
    <3>4. rd'[p].type = "DIRECTORY"
      <4>1. L # <<>>
        BY <1>5 DEF Range
      <4>2. rd[p].type \in {"DIRECTORY", "REGULAR"}
        BY <1>3 DEF TreeTypes, Nodes
      <4>. QED BY <1>3, <1>7, <1>8, <4>1, <4>2, Zenon DEF Listed
    <3>. QED BY <1>8, <3>1, <3>3, <3>4, Zenon
  <2> HIDE DEF Fine
  <2>3. \A f \in DOMAIN rd' : Fine(f)
    BY <2>1, <2>2
  <2>. QED BY <2>3, Zenon DEF Fine, Listed
<1>11. Led'
  <2>1. SUFFICES ASSUME NEW f \in DOMAIN rd'
                 PROVE  \E q \in {<<>>} \cup Paths : \E w \in [0 .. Len(q) -> DOMAIN rd'] :
                          Way(q, w)' /\ w[Len(q)] = f
    BY DEF Led
  <2>2. PICK q \in {<<>>} \cup Paths : \E w \in [0 .. Len(q) -> DOMAIN rd] : Way(q, w) /\ w[Len(q)] = f
    BY <1>7 DEF Led
  <2>3. PICK w \in [0 .. Len(q) -> DOMAIN rd] : Way(q, w) /\ w[Len(q)] = f
    BY <2>2
  <2>4. Len(q) \in Nat
    BY PathFacts
  <2>5. ASSUME NEW i \in 0 .. Len(q) PROVE w[i] # d
    <3>1. CASE i = Len(q)
      BY <1>7, <2>3, <3>1
    <3>2. CASE i # Len(q)
      <4>1. i + 1 \in 1 .. Len(q) /\ (i + 1) - 1 = i
        BY <2>4, <3>2
      <4>2. Child(w[i], q[i+1], w[i+1])
        BY <2>3, <4>1 DEF Way
      <4>. QED BY <1>2, <4>2 DEF Child
    <3>. QED BY <3>1, <3>2
  <2>6. Way(q, w)' /\ w \in [0 .. Len(q) -> DOMAIN rd']
    BY <1>7, <1>8, <2>3, <2>5, WayKept
  <2>. QED BY <2>3, <2>6
<1>. QED BY <1>7, <1>8, <1>9, <1>10, <1>11

-----------------------------------------------------------------------------
(* How much a write takes.                                                 *)

(* Division leaves one remainder.                                          *)
LEMMA OneRemainder ==
  ASSUME NEW M \in Nat, M > 0, NEW q \in Int, NEW k \in Int,
         NEW r \in 0 .. M - 1, NEW s \in 0 .. M - 1, M * q + r = M * k + s
  PROVE  r = s
<1>1. M * (q - k) = s - r
  OBVIOUS
<1>2. ASSUME q - k >= 1 PROVE FALSE
  <2>1. M * (q - k) >= M
    BY <1>2
  <2>. QED BY <1>1, <2>1
<1>3. ASSUME q - k <= -1 PROVE FALSE
  <2>1. M * (q - k) <= -M
    BY <1>3
  <2>. QED BY <1>1, <2>1
<1>4. q - k = 0
  BY <1>2, <1>3
<1>. QED BY <1>1, <1>4

LEMMA Remainder ==
  ASSUME NEW M \in Nat, M > 0, NEW k \in Int, NEW r \in 0 .. M - 1, NEW n \in Int, n = M * k + r
  PROVE  n % M = r
<1>1. n = M * (n \div M) + (n % M) /\ n % M \in 0 .. M - 1 /\ n \div M \in Int
  OBVIOUS
<1>. QED BY <1>1, OneRemainder

(* C's int and size_t hold what is small enough as it is.                  *)
LEMMA SmallNumbers ==
  ASSUME NEW n \in 0 .. INT_MAX
  PROVE  ToInt(n) = n /\ ToSize(n) = n
<1>1. INT_MAX \in Nat
  BY RamdiskAssumption
<1>2. PICK M \in Nat : M = Ints /\ M = 2 * INT_MAX + 2
  BY <1>1 DEF Ints
<1>3. PICK Q \in Nat : Q = M * M /\ Q >= M
  BY <1>1, <1>2
<1>4. n % M = n
  <2>1. M > 0 /\ n \in 0 .. M - 1 /\ n = M * 0 + n /\ n \in Int
    BY <1>1, <1>2
  <2>. QED BY <2>1, Remainder
<1>5. n % Q = n
  <2>1. Q > 0 /\ n \in 0 .. Q - 1 /\ n = Q * 0 + n /\ n \in Int
    BY <1>1, <1>2, <1>3
  <2>. QED BY <2>1, Remainder
<1>. QED BY <1>1, <1>2, <1>3, <1>4, <1>5 DEF ToInt, ToSize

(* rd_write computes what the write needs, also where offset + size        *)
(* is no int: what the two conversions do wrong cancels out.               *)
LEMMA Growth ==
  ASSUME NEW s \in 0 .. INT_MAX, NEW o \in 0 .. s, NEW l \in 1 .. INT_MAX
  PROVE  /\ ToSize(ToInt(o + l)) > s <=> o + l > s
         /\ o + l > s => ToInt(ToSize(ToInt(o + l)) - s) = o + l - s
<1>1. INT_MAX \in Nat /\ INT_MAX >= 1 /\ s \in Nat /\ o \in Nat /\ l \in Nat
  BY RamdiskAssumption
<1>2. PICK t \in Nat : t = o + l
  BY <1>1
<1>3. CASE t <= INT_MAX
  <2>1. ToSize(ToInt(t)) = t
    BY <1>1, <1>3, SmallNumbers
  <2>2. ASSUME t > s PROVE ToInt(t - s) = t - s
    <3>1. t - s \in 0 .. INT_MAX
      BY <1>1, <1>3, <2>2
    <3>. QED BY <3>1, SmallNumbers
  <2>. QED BY <1>2, <2>1, <2>2
<1>4. CASE t > INT_MAX
  <2>1. PICK M \in Nat : M = Ints /\ M = 2 * INT_MAX + 2
    BY <1>1 DEF Ints
  <2>2. PICK Q \in Nat : Q = M * M
    BY <2>1
  <2>3. Q >= 4 * M
    BY <1>1, <2>1, <2>2
  <2>4. t < M /\ t > s /\ t - s \in 1 .. INT_MAX
    BY <1>1, <1>2, <1>4, <2>1
  <2>5. ToInt(t) = t - M
    <3>1. M > 0 /\ t \in 0 .. M - 1 /\ t = M * 0 + t /\ t \in Int
      BY <1>1, <2>1, <2>4
    <3>2. t % M = t
      BY <3>1, Remainder
    <3>. QED BY <1>1, <1>4, <2>1, <3>2 DEF ToInt
  <2>6. PICK z \in Nat : z = Q + t - M
    BY <2>3
  <2>7. ToSize(t - M) = z
    <3>1. Q > 0 /\ z \in 0 .. Q - 1 /\ t - M = Q * (-1) + z /\ t - M \in Int
      BY <1>1, <2>1, <2>3, <2>4, <2>6
    <3>2. (t - M) % Q = z
      BY <3>1, Remainder
    <3>. QED BY <2>1, <2>2, <3>2 DEF ToSize
  <2>8. z > s
    BY <1>1, <2>1, <2>3, <2>6
  <2>9. ToInt(z - s) = t - s
    <3>1. z - s = M * (M - 1) + (t - s)
      BY <1>1, <2>2, <2>6
    <3>2. M > 0 /\ t - s \in 0 .. M - 1 /\ M - 1 \in Int /\ z - s \in Int
      BY <1>1, <2>1, <2>4
    <3>3. (z - s) % M = t - s
      BY <3>1, <3>2, Remainder
    <3>. QED BY <1>1, <2>1, <2>4, <3>3 DEF ToInt
  <2>. QED BY <1>2, <2>4, <2>5, <2>7, <2>8, <2>9
<1>. QED BY <1>1, <1>2, <1>3, <1>4

(* A file that grows keeps its bytes, or has 0 for them.                   *)
LEMMA Reallocated ==
  ASSUME NEW d \in Seq(Bytes \cup {NUL}), NEW n \in Nat
  PROVE  reallocated(d, n) \in Seq(Bytes \cup {NUL}) /\ Len(reallocated(d, n)) = Len(d) + n
<1>1. strncpy(d) \in Seq(Bytes \cup {NUL}) /\ Len(strncpy(d)) = Len(d)
  BY DEF strncpy
<1>2. [k \in 1 .. n |-> NUL] \in Seq(Bytes \cup {NUL}) /\ Len([k \in 1 .. n |-> NUL]) = n
  OBVIOUS
<1>. QED BY <1>1, <1>2 DEF reallocated

-----------------------------------------------------------------------------
(* The steps.                                                              *)

(* Every file holds a number of bytes.                                     *)
LEMMA HeldTypes ==
  (TreeTypes => Held \in Amounts) /\ (TreeTypes' => Held' \in Amounts)
<1>1. DIRECTORY_BYTES \in Nat
  BY RamdiskAssumption
<1>2. ASSUME TreeTypes, NEW a \in DOMAIN rd PROVE size(a) \in Nat
  <2>1. rd[a].data \in Seq(Bytes \cup {NUL})
    BY <1>2 DEF TreeTypes, Nodes
  <2>. QED BY <1>1, <2>1 DEF size
<1>3. ASSUME TreeTypes', NEW a \in DOMAIN rd' PROVE size(a)' \in Nat
  <2>1. rd'[a].data \in Seq(Bytes \cup {NUL})
    BY <1>3 DEF TreeTypes, Nodes
  <2>. QED BY <1>1, <2>1 DEF size
<1>. QED BY <1>2, <1>3 DEF Held, Amounts

(* A handler that changes what one file holds, and the counter with it,    *)
(* within the capacity, keeps the balance.                                 *)
LEMMA BalanceStep ==
  ASSUME IInv, TreeTypes', NEW k \in Addresses,
         \A a \in Addresses \ {k} : Held'[a] = Held[a],
         current_bytes' = current_bytes + Held'[k] - Held[k],
         current_bytes' <= max_bytes
  PROVE  Balanced' /\ current_bytes' \in Nat
<1>1. PICK b, c : b = Held /\ c = Held'
  OBVIOUS
<1>2. b \in Amounts /\ c \in Amounts
  BY <1>1, HeldTypes DEF IInv, TypeOK
<1>3. \A a \in Addresses \ {k} : c[a] = b[a]
  BY <1>1, Zenon
<1>4. Sum(c) = Sum(b) + c[k] - b[k]
  BY <1>2, <1>3, SumChange, Zenon
<1>5. Sum(c) \in Nat
  BY <1>2, SumFacts
<1>6. current_bytes = Sum(b) /\ current_bytes' = current_bytes + c[k] - b[k]
  BY <1>1 DEF IInv, Balanced
<1>7. current_bytes' = Sum(c)
  BY <1>4, <1>6
<1>8. Sum(c) = Sum(Held')
  BY <1>1
<1>. QED BY <1>5, <1>7, <1>8 DEF Balanced

(* What a handler refuses, and what leaves the program undefined, changes  *)
(* nothing.                                                                *)
LEMMA SameStep ==
  ASSUME IInv, UNCHANGED <<rd, current_bytes>>, undefined' \in BOOLEAN
  PROVE  IInv'
<1>1. TreeTypes' /\ Listed'
  BY DEF IInv, TypeOK, TreeTypes, Listed
<1>2. Led'
  BY DEF IInv, Led, Way, Child
<1>3. Balanced'
  BY DEF IInv, Balanced, Held, size
<1>. QED BY <1>1, <1>2, <1>3, Zenon DEF IInv, TypeOK

(* A handler that has found a file with the kernel's help has found one of *)
(* the tree.                                                               *)
LEMMA Found ==
  ASSUME TreeTypes, Listed, NEW path \in Paths, Resolved(path), Exists(path)
  PROVE  get_rd_file(path) \in DOMAIN rd \ {root}
<1> DEFINE p == get_parent_directory(path)
<1>1. p \in DOMAIN rd
  BY Resolves
<1>2. p # NULL
  BY <1>1, RamdiskAssumption DEF TreeTypes, root, Addresses
<1>3. get_rd_file(path) = get_file(Last(path), rd[p].files)
  BY <1>2, PathFacts DEF get_rd_file, files
<1>4. get_rd_file(path) # NULL
  BY DEF Exists
<1> HIDE DEF p
<1>. QED BY <1>1, <1>3, <1>4, Find DEF Child

(* rd_create and rd_mkdir take the bytes the new file holds.               *)
LEMMA NewFile ==
  ASSUME IInv, NEW path \in Paths, Resolved(path), ~Exists(path),
         NEW type \in {"DIRECTORY", "REGULAR"}, push(path, type), UNCHANGED undefined,
         current_bytes' = current_bytes + (IF type = "DIRECTORY" THEN DIRECTORY_BYTES ELSE 0),
         type = "DIRECTORY" => memory_available(DIRECTORY_BYTES)
  PROVE  IInv'
<1>1. TreeTypes' /\ Listed' /\ Led'
  BY AddStep DEF IInv, TypeOK
<1>2. PICK n \in Addresses \ DOMAIN rd :
        /\ DOMAIN rd' = DOMAIN rd \cup {n}
        /\ rd'[n].type = type /\ rd'[n].data = <<>>
        /\ \A f \in DOMAIN rd : rd'[f].type = rd[f].type /\ rd'[f].data = rd[f].data
  BY AddStep, Zenon DEF IInv, TypeOK
<1>3. \A a \in Addresses \ {n} : Held'[a] = Held[a]
  BY <1>2 DEF Held, size
<1>4. Held[n] = 0 /\ Held'[n] = IF type = "DIRECTORY" THEN DIRECTORY_BYTES ELSE 0
  BY <1>2 DEF Held, size
<1>5. current_bytes \in Nat /\ DIRECTORY_BYTES \in Nat /\ current_bytes <= max_bytes
  BY RamdiskAssumption DEF IInv, TypeOK, Balanced
<1>6. current_bytes' = current_bytes + Held'[n] - Held[n] /\ current_bytes' <= max_bytes
  BY <1>4, <1>5 DEF memory_available
<1>7. Balanced' /\ current_bytes' \in Nat
  BY <1>1, <1>3, <1>6, BalanceStep, Zenon
<1>. QED BY <1>1, <1>7, Zenon DEF IInv, TypeOK

(* rd_unlink and rd_rmdir give back the bytes the file held.               *)
LEMMA FreedFile ==
  ASSUME IInv, ~undefined, NEW op, NEW path, NEW d \in DOMAIN rd \ {root}, rd[d].files = <<>>,
         Freed(op, path, d, size(d))
  PROVE  IInv'
<1>0. undefined = FALSE
  BY DEF IInv, TypeOK
<1>1. CASE rd[d].wild
  <2>1. UNCHANGED rd /\ undefined' = TRUE
    BY <1>1 DEF Freed, delete_item
  <2>2. UNCHANGED current_bytes
    BY <2>1 DEF Freed
  <2>. QED BY <2>1, <2>2, SameStep
<1>2. CASE ~rd[d].wild
  <2>1. Unlinked(d) /\ undefined' = FALSE
    BY <1>0, <1>2 DEF Freed, delete_item, Unlinked
  <2>2. current_bytes' = current_bytes - size(d)
    BY <2>1 DEF Freed
  <2>3. /\ TreeTypes' /\ Listed' /\ Led'
        /\ DOMAIN rd' = DOMAIN rd \ {d}
        /\ \A f \in DOMAIN rd' : rd'[f].type = rd[f].type /\ rd'[f].data = rd[f].data
    BY <2>1, DeleteStep, Zenon DEF IInv, TypeOK
  <2>4. d \in Addresses
    BY Zenon DEF IInv, TypeOK, TreeTypes
  <2>5. \A a \in Addresses \ {d} : Held'[a] = Held[a]
    BY <2>3, Zenon DEF Held, size
  <2>6. Held[d] = size(d) /\ Held'[d] = 0
    BY <2>3, <2>4 DEF Held
  <2>7. Held[d] \in Nat /\ current_bytes \in Nat /\ current_bytes <= max_bytes /\ max_bytes \in Nat
    BY <2>4, HeldTypes, RamdiskAssumption DEF IInv, TypeOK, Balanced, Amounts
  <2>8. current_bytes' = current_bytes + Held'[d] - Held[d] /\ current_bytes' <= max_bytes
    BY <2>2, <2>6, <2>7
  <2>9. Balanced' /\ current_bytes' \in Nat
    BY <2>3, <2>4, <2>5, <2>8, BalanceStep, Zenon
  <2>. QED BY <2>1, <2>3, <2>9, Zenon DEF IInv, TypeOK
<1>. QED BY <1>1, <1>2

(* A write takes the bytes by which the file grows, and moves no file.     *)
LEMMA WriteStep ==
  ASSUME IInv, NEW path \in Paths, NEW buffer \in Buffers, NEW offset \in Offsets,
         rd_write(path, buffer, offset)
  PROVE  IInv'
<1> DEFINE B == Bytes \cup {NUL}
<1>1. TreeTypes /\ Listed /\ Led /\ current_bytes \in Nat /\ undefined \in BOOLEAN
  BY DEF IInv, TypeOK
<1>2. PICK f : f = get_rd_file(path)
  OBVIOUS
<1>3. Resolved(path) /\ f # NULL /\ rd[f].type = "REGULAR"
  BY <1>2 DEF rd_write, IsA
<1>4. f \in DOMAIN rd \ {root} /\ f \in Addresses
  <2>1. Exists(path)
    BY <1>2, <1>3, Zenon DEF Exists
  <2>2. f \in DOMAIN rd \ {root}
    BY <1>1, <1>2, <1>3, <2>1, Found, Zenon
  <2>. QED BY <1>1, <2>2 DEF TreeTypes
<1>5. PICK s : s = size(f)
  OBVIOUS
<1>6. rd[f] \in Nodes /\ rd[f].data \in Seq(B) /\ s = Len(rd[f].data) /\ s \in Nat
  BY <1>1, <1>3, <1>4, <1>5 DEF TreeTypes, Nodes, size
<1>7. Held[f] = s
  BY <1>4, <1>5, Zenon DEF Held
<1>8. s <= INT_MAX /\ current_bytes <= max_bytes /\ INT_MAX \in Nat /\ max_bytes \in Nat
  <2>1. Held \in Amounts /\ Held[f] <= Sum(Held) /\ Sum(Held) \in Nat
    BY <1>1, <1>4, HeldTypes, SumFacts, Zenon
  <2>2. Sum(Held) = current_bytes /\ current_bytes <= max_bytes
    BY DEF IInv, Balanced
  <2>. QED BY <1>6, <1>7, <2>1, <2>2, RamdiskAssumption
<1>9. /\ offset \in Nat /\ Len(buffer) \in 1 .. INT_MAX
      /\ \A i \in 1 .. Len(buffer) : buffer[i] \in Bytes
  <2>1. PICK n \in 1 .. MaxWrite : buffer \in [1 .. n -> Bytes]
    BY DEF Buffers
  <2>2. n \in Nat /\ n \in 1 .. INT_MAX
    BY <1>8, RamdiskAssumption
  <2>3. Len(buffer) = n
    BY <2>1, <2>2
  <2>. QED BY <1>8, <2>1, <2>2, <2>3 DEF Offsets
<1>10. CASE UNCHANGED <<rd, current_bytes, undefined>>
  BY <1>1, <1>10, SameStep
<1> DEFINE t     == offset + Len(buffer)
           grows == ToSize(ToInt(t)) > s
           need  == ToInt(ToSize(ToInt(t)) - s)
           data  == IF grows THEN reallocated(rd[f].data, need) ELSE rd[f].data
           new   == [k \in DOMAIN data |-> IF k \in offset + 1 .. t THEN buffer[k - offset] ELSE data[k]]
<1>11. CASE /\ offset <= s /\ (grows => memory_available(need))
            /\ rd' = [rd EXCEPT ![f].data = new, ![f].wild = @ /\ ~grows]
            /\ current_bytes' = IF grows THEN current_bytes + need ELSE current_bytes
            /\ UNCHANGED undefined
  <2>1. (grows <=> t > s) /\ (t > s => need = t - s)
    BY <1>6, <1>8, <1>9, <1>11, Growth
  <2>2. t \in Nat
    BY <1>9
  <2> HIDE DEF t
  <2>3. grows => need \in Nat /\ need = t - s
    BY <1>6, <2>1, <2>2
  <2> HIDE DEF grows, need
  <2>4. data \in Seq(B) /\ Len(data) = IF grows THEN s + need ELSE s
    BY <1>6, <2>3, Reallocated, Zenon
  <2> HIDE DEF data
  <2>5. new \in Seq(B) /\ Len(new) = Len(data)
    <3>1. DOMAIN data = 1 .. Len(data) /\ Len(data) \in Nat /\ \A k \in 1 .. Len(data) : data[k] \in B
      BY <2>4
    <3>2. ASSUME NEW k \in 1 .. Len(data), k \in offset + 1 .. t PROVE buffer[k - offset] \in B
      <4>1. k - offset \in 1 .. Len(buffer)
        BY <1>9, <3>2 DEF t
      <4>. QED BY <1>9, <4>1
    <3>. QED BY <3>1, <3>2
  <2> HIDE DEF new
  <2>6. /\ DOMAIN rd' = DOMAIN rd /\ rd'[f] = [rd[f] EXCEPT !.data = new, !.wild = @ /\ ~grows]
        /\ (\A g \in DOMAIN rd \ {f} : rd'[g] = rd[g]) /\ rd' = [g \in DOMAIN rd' |-> rd'[g]]
    BY <1>1, <1>4, <1>11, Zenon DEF TreeTypes
  <2>7. /\ rd'[f] \in Nodes /\ rd'[f].data = new
        /\ rd'[f].type = rd[f].type /\ rd'[f].files = rd[f].files
        /\ rd'[f].parent = rd[f].parent /\ rd'[f].name = rd[f].name
    <3>1. (rd[f].wild /\ ~grows) \in BOOLEAN
      BY DEF grows
    <3>. QED BY <1>6, <2>5, <2>6, <3>1, Zenon DEF Nodes
  <2>8. \A g \in DOMAIN rd : /\ rd'[g].type = rd[g].type /\ rd'[g].files = rd[g].files
                             /\ rd'[g].parent = rd[g].parent /\ rd'[g].name = rd[g].name
    BY <2>6, <2>7, Zenon
  <2>9. TreeTypes'
    <3>1. \A g \in DOMAIN rd' : rd'[g] \in Nodes
      BY <1>1, <2>6, <2>7 DEF TreeTypes
    <3>2. rd' \in [DOMAIN rd' -> Nodes]
      BY <2>6, <3>1
    <3>. QED BY <1>1, <2>6, <2>8, <3>2, Zenon DEF TreeTypes
  <2>10. Listed' /\ Led'
    BY <1>1, <2>6, <2>8, SamePlaces, Zenon
  <2>11. Held'[f] = Len(new)
    BY <1>3, <1>4, <2>6, <2>7, Zenon DEF Held, size
  <2>12. \A a \in Addresses \ {f} : Held'[a] = Held[a]
    BY <2>6 DEF Held, size
  <2>13. current_bytes' = current_bytes + Held'[f] - Held[f] /\ current_bytes' <= max_bytes
    <3>1. CASE grows
      <4>1. current_bytes' = current_bytes + need /\ current_bytes + need <= max_bytes
        BY <1>11, <3>1, Zenon DEF memory_available
      <4>2. Held'[f] = s + need
        BY <2>4, <2>5, <2>11, <3>1, Zenon
      <4>. QED BY <1>1, <1>6, <1>7, <2>3, <3>1, <4>1, <4>2
    <3>2. CASE ~grows
      <4>1. current_bytes' = current_bytes /\ Held'[f] = s
        BY <1>11, <2>4, <2>5, <2>11, <3>2, Zenon
      <4>. QED BY <1>1, <1>6, <1>7, <1>8, <4>1
    <3>. QED BY <3>1, <3>2, Zenon
  <2>14. Balanced' /\ current_bytes' \in Nat
    BY <1>4, <2>9, <2>12, <2>13, BalanceStep, Zenon
  <2>. QED BY <1>1, <1>11, <2>9, <2>10, <2>14, Zenon DEF IInv, TypeOK
<1>. QED BY <1>2, <1>5, <1>10, <1>11, Zenon DEF rd_write, Refused

(* Initially there is the root, and nothing is in use.                     *)
LEMMA InitHolds ==
  ASSUME Init
  PROVE  IInv
<1>1. DOMAIN rd = {root} /\ rd[root] = create_rd_file(NULL, NULL, "DIRECTORY", FALSE)
  BY Zenon DEF Init
<1>2. TreeTypes
  BY <1>1 DEF Init, TreeTypes, Nodes, create_rd_file
<1>3. Listed
  BY <1>1 DEF Listed, create_rd_file, Range
<1>4. Led
  <2> DEFINE w == [i \in 0 .. 0 |-> root]
  <2>1. Len(<<>>) = 0 /\ w \in [0 .. 0 -> DOMAIN rd] /\ w[0] = root /\ \A i \in 1 .. 0 : FALSE
    BY <1>1
  <2> HIDE DEF w
  <2>2. Way(<<>>, w) /\ w[Len(<<>>)] = root
    BY <2>1 DEF Way
  <2>. QED BY <1>1, <2>1, <2>2, Zenon DEF Led
<1>5. Balanced
  <2>1. Held \in Amounts
    BY <1>2, HeldTypes
  <2>2. \A a \in Addresses : Held[a] = 0
    BY <1>1 DEF Held, Addresses, root
  <2>3. Sum(Held) = 0
    BY <2>1, <2>2, SumFacts, Zenon
  <2>. QED BY <2>3, RamdiskAssumption DEF Balanced, Init
<1>. QED BY <1>2, <1>3, <1>4, <1>5, Zenon DEF IInv, TypeOK, Init

(* One step of a handler.                                                  *)
LEMMA Step ==
  ASSUME IInv, [Next]_vars
  PROVE  IInv'
<1>0. TreeTypes /\ Listed /\ Led /\ undefined \in BOOLEAN /\ current_bytes \in Nat
  BY DEF IInv, TypeOK
<1>1. CASE UNCHANGED vars
  BY <1>0, <1>1, SameStep DEF vars
<1>2. ASSUME NEW op, NEW path, NEW code, Refused(op, path, code) PROVE IInv'
  BY <1>0, <1>2, SameStep, Zenon DEF Refused
<1>3. ASSUME NEW path \in Paths, rd_create(path) PROVE IInv'
  <2>1. current_bytes' = current_bytes + (IF "REGULAR" = "DIRECTORY" THEN DIRECTORY_BYTES ELSE 0)
    BY <1>0, <1>3 DEF rd_create
  <2>. QED BY <1>3, <2>1, NewFile DEF rd_create
<1>4. ASSUME NEW path \in Paths, rd_mkdir(path) PROVE IInv'
  BY <1>2, <1>4, NewFile DEF rd_mkdir
<1>5. ASSUME ~undefined, NEW path \in Paths, rd_unlink(path) PROVE IInv'
  <2>1. CASE ~Exists(path)
    BY <1>2, <1>5, <2>1, Zenon DEF rd_unlink
  <2>2. CASE Exists(path)
    <3>1. PICK d : d = get_rd_file(path)
      OBVIOUS
    <3>2. d \in DOMAIN rd \ {root}
      BY <1>0, <1>5, <2>2, <3>1, Found, Zenon DEF rd_unlink
    <3>3. rd[d].files = <<>>
      <4>1. rd[d].type # "DIRECTORY" /\ rd[d].type \in {"DIRECTORY", "REGULAR"}
        BY <1>0, <1>5, <2>2, <3>1, <3>2, Zenon DEF rd_unlink, IsA, Exists, TreeTypes, Nodes
      <4>. QED BY <1>0, <3>2, <4>1, Zenon DEF Listed
    <3>4. Freed("unlink", path, d, size(d))
      BY <1>5, <2>2, <3>1, Zenon DEF rd_unlink
    <3>. QED BY <1>5, <3>2, <3>3, <3>4, FreedFile, Zenon
  <2>. QED BY <2>1, <2>2
<1>6. ASSUME ~undefined, NEW path \in Paths, rd_rmdir(path) PROVE IInv'
  <2>1. CASE \E code : Refused("rmdir", path, code)
    BY <1>2, <2>1
  <2>2. CASE IsA(path, "DIRECTORY") /\ rd[get_rd_file(path)].files = <<>>
             /\ Freed("rmdir", path, get_rd_file(path), DIRECTORY_BYTES)
    <3>1. PICK d : d = get_rd_file(path)
      OBVIOUS
    <3>2. d \in DOMAIN rd \ {root}
      BY <1>0, <1>6, <2>2, <3>1, Found, Zenon DEF rd_rmdir, IsA, Exists
    <3>3. size(d) = DIRECTORY_BYTES
      BY <2>2, <3>1, Zenon DEF IsA, size
    <3>4. rd[d].files = <<>> /\ Freed("rmdir", path, d, size(d))
      BY <2>2, <3>1, <3>3
    <3>. QED BY <1>6, <3>2, <3>4, FreedFile, Zenon
  <2>. QED BY <1>6, <2>1, <2>2, Zenon DEF rd_rmdir
<1>. QED BY <1>1, <1>3, <1>4, <1>5, <1>6, WriteStep, Zenon DEF Next

(* The handlers of ramdisk.c keep the inductive invariant.                 *)
THEOREM Invariance == Spec => []IInv
<1>1. Init => IInv
  BY InitHolds
<1>2. IInv /\ [Next]_vars => IInv'
  BY Step
<1>. QED BY <1>1, <1>2, PTL DEF Spec

(* current_bytes, which memory_available trusts, is the sum of the sizes   *)
(* of the files in the tree, each of which a path leads to, and within the *)
(* capacity, after any sequence of operations, also of writes whose end is *)
(* past the largest int.                                                   *)
THEOREM AccountsAlways == Spec => []Accounting
<1>1. IInv => Accounting
  BY Implied
<1>. QED BY <1>1, Invariance, PTL
=============================================================================

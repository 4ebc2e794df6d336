----------------------------- MODULE PigOsProofs -----------------------------
(***************************************************************************)
(* pigFS and what keeps its state in it, for any built-in tree, table      *)
(* sizes, users, packages and arguments: the tables stay sound, deleted    *)
(* names stay deleted, and the tables implement the store of FileStore.    *)
(***************************************************************************)
EXTENDS PigOs, FiniteSetTheorems, SequenceTheorems, WellFoundedInduction, TLAPS

-----------------------------------------------------------------------------
(* Paths.  A relative argument is walked by FoldLeft, which the library    *)
(* defines by a recursive function on the subsets of the argument's        *)
(* positions.  Both its existence and its type are shown by induction, as  *)
(* the absence of a least counterexample.                                  *)

(* The order on the naturals as a relation, for the well-founded induction of the library. *)
LEMMA LessRel ==
  ASSUME NEW k \in Nat, NEW n \in Nat, k < n
  PROVE  <<k, n>> \in OpToRel(<, Nat)
BY DEF OpToRel

(* A set of naturals that is not empty has a least element: induction without an operator parameter. *)
LEMMA LeastNatural ==
  ASSUME NEW S, S \subseteq Nat, S # {}
  PROVE  \E n \in S : \A k \in S : n <= k
<1>1. PICK n \in S : \A k \in S : ~(<<k, n>> \in OpToRel(<, Nat))
  BY NatLessThanWellFounded, WFMin, Zenon
<1>2. \A k \in S : ~(k < n)
  BY <1>1, LessRel, Zenon
<1>3. QED
  BY <1>2

(* ".." leads from a path to a path. *)
LEMMA GoUpType ==
  ASSUME NEW C, NEW p \in PathOver(C)
  PROVE  GoUp(p) \in PathOver(C)
<1>1. p.comps \in Seq(C) /\ p.slash \in BOOLEAN
  BY DEF PathOver
<1>2. path_normalize(p) \in PathOver(C)
  BY DEF PathOver, path_normalize
<1>3. ASSUME p.comps # <<>> PROVE Front(p.comps) \in Seq(C)
  BY <1>1, <1>3 DEF Front
<1>4. QED
  BY <1>2, <1>3 DEF GoUp, Abs, PathOver

(* A component leads from a path to a path. *)
LEMMA WalkType ==
  ASSUME NEW C, NEW p \in PathOver(C), NEW c \in C
  PROVE  Walk(p, c) \in PathOver(C)
BY GoUpType DEF Walk, PathOver, Abs

(* One step of the library's fold of Walk over s. *)
WalkStep(g, cwd, s, S) ==
  IF S = {} THEN cwd ELSE Walk(g[S \ {Max(S)}], s[Max(S)])

(* The walk of path_normalize over the components, as the recursive function behind FoldLeft. *)
LEMMA FoldIs ==
  ASSUME NEW cwd, NEW s
  PROVE  FoldLeft(Walk, cwd, s) =
           (CHOOSE g : g = [S \in SUBSET DOMAIN s |-> WalkStep(g, cwd, s, S)])[DOMAIN s]
BY DEF FoldLeft, MapThenFoldSet, WalkStep

(* The largest of the numbers up to n is n, if it is among them. *)
LEMMA MaxUpTo ==
  ASSUME NEW n \in Nat, NEW S, S \subseteq 1..n, n \in S
  PROVE  Max(S) = n
<1>1. n \in S /\ \A y \in S : n >= y
  OBVIOUS
<1>2. \A x \in S : (\A y \in S : x >= y) => x = n
  OBVIOUS
<1>3. QED
  BY <1>1, <1>2 DEF Max

(* The function FoldLeft chooses exists. *)
LEMMA FoldExists ==
  ASSUME NEW C, NEW cwd, NEW s \in Seq(C), NEW n \in Nat
  PROVE  \E g : g = [S \in SUBSET (1..n) |-> WalkStep(g, cwd, s, S)]
<1> DEFINE Good(k) == \E g : g = [S \in SUBSET (1..k) |-> WalkStep(g, cwd, s, S)]
           Bad == {k \in Nat : ~Good(k)}
<1>1. Good(0)
  <2> DEFINE g == [S \in SUBSET (1..0) |-> cwd]
  <2>1. \A S \in SUBSET (1..0) : S = {}
    OBVIOUS
  <2>2. g = [S \in SUBSET (1..0) |-> WalkStep(g, cwd, s, S)]
    BY <2>1 DEF WalkStep
  <2>3. QED
    BY <2>2
<1>2. ASSUME NEW k \in Nat, Good(k) PROVE Good(k + 1)
  <2>1. PICK g : g = [S \in SUBSET (1..k) |-> WalkStep(g, cwd, s, S)]
    BY <1>2
  <2> DEFINE h == [S \in SUBSET (1..(k + 1)) |->
                     IF k + 1 \in S THEN Walk(g[S \ {k + 1}], s[k + 1]) ELSE g[S]]
  <2>2. ASSUME NEW S \in SUBSET (1..(k + 1)) PROVE h[S] = WalkStep(h, cwd, s, S)
    <3>1. CASE k + 1 \in S
      <4>1. Max(S) = k + 1 /\ S # {}
        <5>1. k + 1 \in Nat
          OBVIOUS
        <5>2. QED
          BY <3>1, <5>1, MaxUpTo
      <4>2. S \ {k + 1} \in SUBSET (1..(k + 1)) /\ k + 1 \notin S \ {k + 1}
        OBVIOUS
      <4>3. h[S \ {k + 1}] = g[S \ {k + 1}]
        BY <4>2
      <4>4. QED
        BY <3>1, <4>1, <4>3 DEF WalkStep
    <3>2. CASE k + 1 \notin S
      <4>1. S \in SUBSET (1..k)
        BY <3>2
      <4>2. h[S] = g[S] /\ g[S] = WalkStep(g, cwd, s, S)
        BY <2>1, <3>2, <4>1
      <4>3. S \ {Max(S)} \in SUBSET (1..(k + 1)) /\ k + 1 \notin S \ {Max(S)}
        BY <3>2
      <4>4. h[S \ {Max(S)}] = g[S \ {Max(S)}]
        BY <4>3
      <4>5. QED
        BY <4>2, <4>4 DEF WalkStep
    <3>3. QED
      BY <3>1, <3>2
  <2>3. h = [S \in SUBSET (1..(k + 1)) |-> WalkStep(h, cwd, s, S)]
    <3> DEFINE e == [S \in SUBSET (1..(k + 1)) |-> WalkStep(h, cwd, s, S)]
    <3>1. \A S \in SUBSET (1..(k + 1)) : h[S] = e[S]
      BY <2>2
    <3>2. QED
      BY <3>1
  <2> HIDE DEF h
  <2>4. QED
    BY <2>3
<1> HIDE DEF Good
<1>3. SUFFICES ASSUME ~Good(n) PROVE FALSE
  BY DEF Good
<1>4. PICK m \in Bad : \A k \in Bad : m <= k
  BY <1>3, LeastNatural
<1>5. m # 0 /\ m - 1 \in Nat /\ m - 1 \notin Bad
  BY <1>1, <1>4
<1>6. QED
  BY <1>2, <1>4, <1>5
(* Walking a relative argument from a path leads to a path. *)
LEMMA FoldType ==
  ASSUME NEW C, NEW cwd \in PathOver(C), NEW s \in Seq(C)
  PROVE  FoldLeft(Walk, cwd, s) \in PathOver(C)
<1> DEFINE n == Len(s)
           g == CHOOSE f : f = [S \in SUBSET DOMAIN s |-> WalkStep(f, cwd, s, S)]
<1>1. DOMAIN s = 1..n /\ n \in Nat
  OBVIOUS
<1>2. g = [S \in SUBSET DOMAIN s |-> WalkStep(g, cwd, s, S)]
  BY <1>1, FoldExists
<1>3. \A j \in 1..n : s[j] \in C
  OBVIOUS
<1> HIDE DEF g, n
<1> DEFINE Typed_(k) == \A S \in SUBSET (1..k) : g[S] \in PathOver(C)
           Bad == {k \in 0..n : ~Typed_(k)}
<1>4. Typed_(0)
  <2>1. \A S \in SUBSET (1..0) : S = {}
    OBVIOUS
  <2>2. {} \in SUBSET DOMAIN s /\ WalkStep(g, cwd, s, {}) = cwd
    BY DEF WalkStep
  <2>3. g[{}] = cwd
    BY <1>2, <2>2
  <2>4. QED
    BY <2>1, <2>3
<1>5. ASSUME NEW k \in Nat, k < n, Typed_(k) PROVE Typed_(k + 1)
  <2>1. SUFFICES ASSUME NEW S \in SUBSET (1..(k + 1)) PROVE g[S] \in PathOver(C)
    OBVIOUS
  <2>2. CASE k + 1 \in S
    <3>1. Max(S) = k + 1 /\ S # {}
      <4>1. k + 1 \in Nat
        OBVIOUS
      <4>2. QED
        BY <2>2, <4>1, MaxUpTo
    <3>2. S \in SUBSET DOMAIN s
      BY <1>1, <1>5
    <3>3. g[S] = Walk(g[S \ {k + 1}], s[k + 1])
      BY <1>2, <3>1, <3>2 DEF WalkStep
    <3>4. g[S \ {k + 1}] \in PathOver(C)
      <4>1. S \ {k + 1} \in SUBSET (1..k)
        OBVIOUS
      <4>2. QED
        BY <1>5, <4>1
    <3>5. s[k + 1] \in C
      BY <1>1, <1>3, <1>5
    <3>6. QED
      BY <3>3, <3>4, <3>5, WalkType
  <2>3. CASE k + 1 \notin S
    <3>1. S \in SUBSET (1..k)
      BY <2>3
    <3>2. QED
      BY <1>5, <3>1
  <2>4. QED
    BY <2>2, <2>3
<1>6. Typed_(n)
  <2> HIDE DEF Typed_
  <2>1. SUFFICES ASSUME ~Typed_(n) PROVE FALSE
    OBVIOUS
  <2>2. Bad \subseteq Nat /\ Bad # {}
    BY <1>1, <2>1
  <2>3. PICK m \in Bad : \A k \in Bad : m <= k
    BY <2>2, LeastNatural
  <2>4. m # 0 /\ m - 1 \in 0..n /\ m - 1 < n /\ m - 1 \notin Bad
    BY <1>1, <1>4, <2>3
  <2>5. QED
    BY <1>1, <1>5, <2>3, <2>4
<1>7. QED
  BY <1>1, <1>6, FoldIs DEF g

(* What the user types names a path. *)
LEMMA ResolveType ==
  ASSUME NEW C, NEW cwd \in PathOver(C), NEW a \in ArgOver(C)
  PROVE  fs_resolve(cwd, a) \in PathOver(C)
<1>1. a.comps \in Seq(C)
  BY DEF ArgOver
<1>2. FoldLeft(Walk, cwd, a.comps) \in PathOver(C)
  BY <1>1, FoldType
<1>3. \A p \in PathOver(C) : path_normalize(p) \in PathOver(C) /\ WithSlash(p) \in PathOver(C)
  BY DEF PathOver, path_normalize, WithSlash
<1>4. Abs(a.comps) \in PathOver(C) /\ Root \in PathOver(C)
  BY <1>1 DEF Abs, PathOver, Root
<1> DEFINE w == FoldLeft(Walk, cwd, a.comps)
<1> HIDE DEF w
<1>5. QED
  BY <1>2, <1>3, <1>4 DEF fs_resolve, w
-----------------------------------------------------------------------------
(* The run-time table. *)

Tables == {m \in Seq(MemFile) : Len(m) <= MEMFS_MAX /\ Unique(m)}

(* memfs_find returns a live slot of that name, or 0 if there is none. *)
LEMMA FindSpec ==
  ASSUME NEW m \in Seq(MemFile), NEW p
  PROVE  \/ memfs_find(m, p) = 0 /\ Matches(m, p) = {}
         \/ memfs_find(m, p) \in Matches(m, p)
<1>1. CASE Matches(m, p) = {}
  BY <1>1 DEF memfs_find
<1>2. CASE Matches(m, p) # {}
  <2>1. Matches(m, p) \subseteq Nat
    BY DEF Matches
  <2>2. \E k \in Matches(m, p) : \A j \in Matches(m, p) : k <= j
    BY <1>2, <2>1, LeastNatural
  <2>3. QED
    BY <1>2, <2>2 DEF memfs_find
<1>3. QED
  BY <1>1, <1>2

(* A live slot is found under its name. *)
LEMMA FindLive ==
  ASSUME NEW m \in Seq(MemFile), NEW k \in DOMAIN m, Live(m, k)
  PROVE  memfs_find(m, m[k].path) \in DOMAIN m /\ memfs_find(m, m[k].path) # 0
<1>1. k \in Matches(m, m[k].path)
  BY DEF Matches
<1>2. memfs_find(m, m[k].path) \in Matches(m, m[k].path)
  BY <1>1, FindSpec
<1>3. QED
  BY <1>2 DEF Matches

(* What a command that writes files does: slots keep their names and stay  *)
(* in use, and only files named in B are new or have changed.              *)
Wrote(m, n, B) ==
  /\ n \in Tables
  /\ Len(m) <= Len(n)
  /\ \A k \in DOMAIN m : /\ n[k].path = m[k].path /\ n[k].used = m[k].used
                         /\ n[k] = m[k] \/ m[k].path \in B
  /\ \A k \in DOMAIN n : k > Len(m) => n[k].path \in B

(* Several writes are one write of all the names. *)
LEMMA WroteTwice ==
  ASSUME NEW m \in Tables, NEW n, NEW o, NEW B, NEW C,
         Wrote(m, n, B), Wrote(n, o, C)
  PROVE  Wrote(m, o, B \cup C)
<1>1. m \in Seq(MemFile) /\ n \in Seq(MemFile) /\ o \in Seq(MemFile)
  BY DEF Wrote, Tables
<1>2. /\ Len(m) \in Nat /\ Len(n) \in Nat /\ Len(o) \in Nat
      /\ DOMAIN m = 1..Len(m) /\ DOMAIN n = 1..Len(n) /\ DOMAIN o = 1..Len(o)
      /\ Len(m) <= Len(n) /\ Len(n) <= Len(o)
  BY <1>1 DEF Wrote
<1>3. ASSUME NEW k \in DOMAIN m
      PROVE  /\ o[k].path = m[k].path /\ o[k].used = m[k].used
             /\ o[k] = m[k] \/ m[k].path \in B \cup C
  <2>1. k \in DOMAIN n
    BY <1>2
  <2>2. QED
    BY <2>1 DEF Wrote
<1>4. ASSUME NEW k \in DOMAIN o, k > Len(m) PROVE o[k].path \in B \cup C
  <2>1. CASE k <= Len(n)
    <3>1. k \in DOMAIN n
      BY <1>2, <2>1
    <3>2. QED
      BY <1>4, <3>1 DEF Wrote
  <2>2. CASE k > Len(n)
    BY <2>2 DEF Wrote
  <2>3. QED
    BY <1>2, <2>1, <2>2
<1>5. QED
  BY <1>2, <1>3, <1>4 DEF Wrote

(* memfs_create takes a new slot only if the name is not found. *)
LEMMA CreateWrote ==
  ASSUME NEW m \in Tables, NEW p \in Path
  PROVE  LET r == memfs_create(m, p)
         IN  /\ Wrote(m, r.fs, {p})
             /\ r.at # 0 => /\ r.at \in DOMAIN r.fs
                            /\ r.fs[r.at].path = p /\ r.fs[r.at].used
             /\ r.at # 0 /\ memfs_find(m, p) = 0 =>
                  r.fs = Append(m, Slot(p)) /\ r.at = Len(m) + 1
             /\ memfs_find(m, p) # 0 => r.fs = m /\ r.at = memfs_find(m, p)
             /\ r.at = 0 => r.fs = m
<1>1. m \in Seq(MemFile) /\ Len(m) \in Nat /\ DOMAIN m = 1..Len(m)
  BY DEF Tables
<1>2. Wrote(m, m, {p})
  BY <1>1 DEF Wrote
<1>3. CASE memfs_find(m, p) # 0
  <2>1. memfs_create(m, p) = [fs |-> m, at |-> memfs_find(m, p)]
    BY <1>3 DEF memfs_create
  <2>2. memfs_find(m, p) \in Matches(m, p)
    BY <1>1, <1>3, FindSpec
  <2>3. memfs_find(m, p) \in DOMAIN m /\ m[memfs_find(m, p)].path = p
        /\ m[memfs_find(m, p)].used
    BY <2>2 DEF Matches, Live
  <2>4. QED
    BY <1>2, <1>3, <2>1, <2>3
<1>4. CASE memfs_find(m, p) = 0 /\ Len(m) >= MEMFS_MAX
  BY <1>2, <1>4 DEF memfs_create
<1>5. CASE memfs_find(m, p) = 0 /\ Len(m) < MEMFS_MAX
  <2> DEFINE n == Append(m, Slot(p))
  <2>1. memfs_create(m, p) = [fs |-> n, at |-> Len(m) + 1]
    BY <1>1, <1>5, FsAssumption DEF memfs_create
  <2>2. Slot(p) \in MemFile /\ Slot(p).path = p /\ Slot(p).used
    <3>1. p.slash \in BOOLEAN
      BY DEF Path, PathOver
    <3>2. Slot(p) \in MemFile
      <4>1. \A d, u \in BOOLEAN, t \in Contents :
              [path |-> p, used |-> u, is_dir |-> d, content |-> t] \in MemFile
        BY DEF MemFile
      <4>2. Empty \in Contents
        BY DEF Contents
      <4>3. QED
        BY <3>1, <4>1, <4>2, Zenon DEF Slot
    <3>3. Slot(p).path = p
      BY DEF Slot
    <3>4. Slot(p).used
      BY DEF Slot
    <3>5. QED
      BY <3>2, <3>3, <3>4
  <2>3. /\ n \in Seq(MemFile) /\ Len(n) = Len(m) + 1 /\ DOMAIN n = 1..(Len(m) + 1)
        /\ \A k \in DOMAIN m : n[k] = m[k]
        /\ n[Len(m) + 1] = Slot(p)
    BY <1>1, <2>2
  <2>4. Matches(m, p) = {}
    BY <1>1, <1>5, FindSpec DEF Matches
  <2> HIDE DEF n
  <2>5. Unique(n)
    <3>1. SUFFICES ASSUME NEW j \in DOMAIN n, NEW k \in DOMAIN n, Live(n, j), Live(n, k),
                          n[j].path = n[k].path
                   PROVE  j = k
      BY DEF Unique
    <3>2. ASSUME NEW i \in DOMAIN m, Live(n, i) PROVE n[i].path # p
      BY <2>3, <2>4, <3>2 DEF Matches, Live
    <3>3. CASE j \in DOMAIN m /\ k \in DOMAIN m
      BY <2>3, <3>1, <3>3 DEF Tables, Unique, Live
    <3>4. CASE j = Len(m) + 1 \/ k = Len(m) + 1
      BY <1>1, <2>2, <2>3, <3>1, <3>2, <3>4
    <3>5. QED
      BY <1>1, <2>3, <3>3, <3>4
  <2>6. Wrote(m, n, {p})
    BY <1>1, <1>5, <2>2, <2>3, <2>5, FsAssumption DEF Wrote, Tables
  <2>7. /\ memfs_create(m, p).fs = n /\ memfs_create(m, p).at = Len(m) + 1
        /\ n = Append(m, Slot(p)) /\ Len(m) + 1 # 0 /\ Len(m) + 1 \in DOMAIN n
    BY <1>1, <2>1, <2>3 DEF n
  <2>8. n[Len(m) + 1].path = p /\ n[Len(m) + 1].used
    BY <2>2, <2>3
  <2>9. QED
    BY <1>5, <2>6, <2>7, <2>8
<1>6. QED
  BY <1>1, <1>3, <1>4, <1>5, FsAssumption
(* A slot rewritten under its name, still in use, is a write of the name. *)
LEMMA EditWrote ==
  ASSUME NEW m \in Tables, NEW k \in DOMAIN m, NEW r \in MemFile,
         r.path = m[k].path, r.used = m[k].used
  PROVE  Wrote(m, [m EXCEPT ![k] = r], {m[k].path})
<1> DEFINE n == [m EXCEPT ![k] = r]
<1>1. m \in Seq(MemFile) /\ Len(m) <= MEMFS_MAX /\ Unique(m)
  BY DEF Tables
<1>2. /\ n \in Seq(MemFile) /\ Len(n) = Len(m) /\ DOMAIN n = DOMAIN m
      /\ Len(m) \in Nat /\ DOMAIN m = 1..Len(m)
      /\ n[k] = r /\ \A j \in DOMAIN m : j # k => n[j] = m[j]
  BY <1>1
<1> HIDE DEF n
<1>3. \A j \in DOMAIN m : n[j].path = m[j].path /\ n[j].used = m[j].used
  BY <1>2
<1>4. Unique(n)
  BY <1>1, <1>2, <1>3 DEF Unique, Live
<1>5. Wrote(m, n, {m[k].path})
  BY <1>1, <1>2, <1>3, <1>4 DEF Wrote, Tables
<1>6. QED
  BY <1>5 DEF n

(* memfs_create and what its callers write. *)
LEMMA PutWrote ==
  ASSUME NEW m \in Tables, NEW p \in Path, NEW text \in Contents
  PROVE  Wrote(m, PutFile(m, p, text), {p}) /\ Wrote(m, PutDir(m, p), {p})
<1> DEFINE r == memfs_create(m, p)
           o == r.fs[r.at]
<1>1. /\ Wrote(m, r.fs, {p})
      /\ r.at # 0 => r.at \in DOMAIN r.fs /\ o.path = p
  <2>1. LET q == memfs_create(m, p)
        IN  /\ Wrote(m, q.fs, {p})
            /\ q.at # 0 => /\ q.at \in DOMAIN q.fs
                           /\ q.fs[q.at].path = p /\ q.fs[q.at].used
            /\ q.at # 0 /\ memfs_find(m, p) = 0 =>
                 q.fs = Append(m, Slot(p)) /\ q.at = Len(m) + 1
            /\ memfs_find(m, p) # 0 => q.fs = m /\ q.at = memfs_find(m, p)
            /\ q.at = 0 => q.fs = m
    BY CreateWrote
  <2>2. QED
    BY <2>1
<1>2. r.fs \in Tables /\ r.fs \in Seq(MemFile)
  BY <1>1 DEF Wrote, Tables
<1>3. CASE r.at = 0
  BY <1>1, <1>3 DEF PutFile, PutDir
<1>4. CASE r.at # 0
  <2> DEFINE f == [o EXCEPT !.content = text]
             d == [o EXCEPT !.is_dir = TRUE, !.content = DirMark]
  <2>1. o \in MemFile
    BY <1>1, <1>2, <1>4
  <2>2. f \in MemFile /\ f.path = o.path /\ f.used = o.used
    BY <2>1 DEF MemFile
  <2>3. d \in MemFile /\ d.path = o.path /\ d.used = o.used
    <3>1. DirMark \in Contents
      BY DEF Contents
    <3>2. QED
      BY <2>1, <3>1 DEF MemFile
  <2>4. /\ PutFile(m, p, text) = [r.fs EXCEPT ![r.at] = f]
        /\ PutDir(m, p) = [r.fs EXCEPT ![r.at] = d]
    BY <1>4 DEF PutFile, PutDir
  <2> HIDE DEF f, d, r
  <2>5. /\ Wrote(r.fs, [r.fs EXCEPT ![r.at] = f], {p})
        /\ Wrote(r.fs, [r.fs EXCEPT ![r.at] = d], {p})
    BY <1>1, <1>2, <1>4, <2>2, <2>3, EditWrote
  <2>6. {p} = {p} \cup {p}
    OBVIOUS
  <2>7. QED
    BY <1>1, <2>4, <2>5, <2>6, WroteTwice
<1>5. QED
  BY <1>3, <1>4

(* A slot given up: its file goes, and no other. *)
Cleared(m, n, k) ==
  /\ n \in Tables
  /\ Live(m, k)
  /\ k \in DOMAIN m /\ DOMAIN n = DOMAIN m
  /\ ~n[k].used
  /\ \A j \in DOMAIN m : j # k => n[j] = m[j]

(* Storing an entry that is not in use over a live one clears that name and no other. *)
LEMMA EditCleared ==
  ASSUME NEW m \in Tables, NEW k \in DOMAIN m, NEW r \in MemFile, ~r.used, Live(m, k)
  PROVE  Cleared(m, [m EXCEPT ![k] = r], k)
<1> DEFINE n == [m EXCEPT ![k] = r]
<1>1. m \in Seq(MemFile) /\ Len(m) <= MEMFS_MAX /\ Unique(m)
  BY DEF Tables
<1>2. /\ n \in Seq(MemFile) /\ Len(n) = Len(m) /\ DOMAIN n = DOMAIN m
      /\ n[k] = r /\ \A j \in DOMAIN m : j # k => n[j] = m[j]
  BY <1>1
<1> HIDE DEF n
<1>3. Unique(n)
  BY <1>1, <1>2 DEF Unique, Live
<1>4. Cleared(m, n, k)
  BY <1>1, <1>2, <1>3 DEF Cleared, Tables
<1>5. QED
  BY <1>4 DEF n
-----------------------------------------------------------------------------
(* The paths the kernel uses are paths. *)
LEMMA KernelPaths ==
  /\ {SkelDir, SkelRc, SkelProfile, MCFG_PATH, NetLog, Root} \subseteq Path
  /\ \A u \in UserNames : {Home(u), HomeRc(u), HomeProfile(u)} \subseteq Path
  /\ \A k \in Pkgs : UsrBin(k) \in Path
<1> DEFINE C == Components
<1>1. KernelNames \subseteq C /\ UserNames \subseteq C /\ Pkgs \subseteq C
  BY DEF Components
<1>2. \A c \in Seq(C) : Abs(c) \in Path /\ WithSlash(Abs(c)) \in Path
  <2>1. \A c \in Seq(C) : Abs(c) \in Path
    BY DEF Path, PathOver, Abs
  <2>2. \A p \in Path : WithSlash(p) \in Path
    BY DEF Path, PathOver, WithSlash
  <2>3. QED
    BY <2>1, <2>2
<1> HIDE DEF C
<1>3. \A a, b \in C : <<a, b>> \in Seq(C)
  OBVIOUS
<1>4. \A a, b, c \in C : <<a, b, c>> \in Seq(C)
  OBVIOUS
<1>5. Root \in Path
  BY DEF Root, Path, PathOver
<1>6. QED
  BY <1>1, <1>2, <1>3, <1>4, <1>5 DEF SkelDir, SkelRc, SkelProfile, MCFG_PATH,
     NetLog, Home, HomeRc, HomeProfile, UsrBin, KernelNames

(* What an argument names, from a path, is a path. *)
LEMMA ArgPath ==
  ASSUME sh_cwd \in Path, NEW a \in Args
  PROVE  fs_resolve(sh_cwd, a) \in Path /\ Abs(a.comps) \in Path
<1>1. a \in ArgOver(ToSet(a.comps)) /\ ToSet(a.comps) \subseteq Components
  BY FsAssumption DEF Components
<1>2. a.comps \in Seq(ToSet(a.comps))
  BY <1>1 DEF ArgOver
<1>3. a.comps \in Seq(Components)
  BY <1>1, <1>2, SeqMonotonic
<1>4. a \in ArgOver(Components)
  BY <1>1, <1>3 DEF ArgOver
<1>5. QED
  BY <1>3, <1>4, ResolveType DEF Path, Abs, PathOver

(* The names of the skeleton differ. *)
LEMMA SkelNames ==
  /\ SkelDir.slash = TRUE
  /\ SkelDir # SkelRc /\ SkelDir # SkelProfile /\ SkelRc # SkelProfile
<1>1. SkelDir.slash = TRUE
  <2>1. <<"etc", "skel">> # <<>>
    OBVIOUS
  <2>2. Abs(<<"etc", "skel">>) # Root
    BY <2>1 DEF Abs, Root
  <2>3. QED
    BY <2>2 DEF SkelDir, WithSlash, Abs
<1>2. SkelRc.slash = FALSE /\ SkelProfile.slash = FALSE
  BY DEF SkelRc, SkelProfile, Abs
<1>3. SkelRc.comps[3] # SkelProfile.comps[3]
  BY DEF SkelRc, SkelProfile, Abs
<1>4. QED
  BY <1>1, <1>2, <1>3

(* The tables of a fresh machine, three slots whatever is deleted. *)
LEMMA SkelIs ==
  SkelFiles = <<[Slot(SkelDir) EXCEPT !.content = DirMark],
                [Slot(SkelRc) EXCEPT !.content = RcText],
                [Slot(SkelProfile) EXCEPT !.content = ProfileText]>>
<1> DEFINE d == [Slot(SkelDir) EXCEPT !.content = DirMark]
           a == [Slot(SkelRc) EXCEPT !.content = RcText]
           b == [Slot(SkelProfile) EXCEPT !.content = ProfileText]
<1>1. SkelDir.slash = TRUE /\ Slot(SkelDir).is_dir = TRUE
  BY SkelNames DEF Slot
<1>2. SkelDir # SkelRc /\ SkelDir # SkelProfile /\ SkelRc # SkelProfile
  BY SkelNames
<1>3. d.path = SkelDir /\ a.path = SkelRc /\ b.path = SkelProfile
  BY DEF Slot
<1>4. PutDir(NoFiles, SkelDir) = <<d>>
  <2>1. memfs_find(<<>>, SkelDir) = 0
    BY DEF memfs_find, Matches
  <2>2. memfs_create(<<>>, SkelDir) = [fs |-> <<Slot(SkelDir)>>, at |-> 1]
    BY <2>1, OsAssumption, FsAssumption DEF memfs_create
  <2>3. [<<Slot(SkelDir)>> EXCEPT ![1].is_dir = TRUE, ![1].content = DirMark] = <<d>>
    <3> DEFINE o == Slot(SkelDir)
    <3>1. [o EXCEPT !.is_dir = TRUE, !.content = DirMark] = d
      BY <1>1 DEF Slot
    <3> HIDE DEF o
    <3>2. [<<o>> EXCEPT ![1].is_dir = TRUE, ![1].content = DirMark]
            = <<[o EXCEPT !.is_dir = TRUE, !.content = DirMark]>>
      OBVIOUS
    <3>3. QED
      BY <3>1, <3>2 DEF o
  <2> HIDE DEF d
  <2>4. /\ memfs_create(<<>>, SkelDir).at = 1 /\ memfs_create(<<>>, SkelDir).at # 0
        /\ memfs_create(<<>>, SkelDir).fs = <<Slot(SkelDir)>>
    BY <2>2
  <2>5. PutDir(<<>>, SkelDir) =
          [<<Slot(SkelDir)>> EXCEPT ![1].is_dir = TRUE, ![1].content = DirMark]
    BY <2>4, Zenon DEF PutDir
  <2>6. QED
    BY <2>3, <2>5 DEF NoFiles
<1> HIDE DEF d
<1>5. PutFile(<<d>>, SkelRc, RcText) = <<d, a>>
  <2>1. memfs_find(<<d>>, SkelRc) = 0
    BY <1>2, <1>3 DEF memfs_find, Matches
  <2>2. memfs_create(<<d>>, SkelRc) = [fs |-> <<d, Slot(SkelRc)>>, at |-> 2]
    BY <2>1, OsAssumption, FsAssumption DEF memfs_create
  <2>3. [<<d, Slot(SkelRc)>> EXCEPT ![2].content = RcText] = <<d, a>>
    OBVIOUS
  <2>4. QED
    BY <2>2, <2>3 DEF PutFile
<1> HIDE DEF a
<1>6. PutFile(<<d, a>>, SkelProfile, ProfileText) = <<d, a, b>>
  <2>1. memfs_find(<<d, a>>, SkelProfile) = 0
    BY <1>2, <1>3 DEF memfs_find, Matches
  <2>2. memfs_create(<<d, a>>, SkelProfile) = [fs |-> <<d, a, Slot(SkelProfile)>>, at |-> 3]
    BY <2>1, OsAssumption, FsAssumption DEF memfs_create
  <2>3. [<<d, a, Slot(SkelProfile)>> EXCEPT ![3].content = ProfileText] = <<d, a, b>>
    OBVIOUS
  <2>4. QED
    BY <2>2, <2>3 DEF PutFile
<1>7. QED
  BY <1>4, <1>5, <1>6 DEF SkelFiles, d, a
-----------------------------------------------------------------------------
(* What a step does to the files, one kind for all commands that do alike: *)
(* each names the files it changes.                                        *)

(* The part of TablesSound that is about files, made inductive: that the   *)
(* protected paths can be found needs that none of them is on the list,    *)
(* on a halted machine too, and what is written needs a path to go to.     *)
FsInv ==
  /\ memfs \in Tables
  /\ deleted = del_store
  /\ del_store \in Seq(VFS) /\ Len(del_store) <= DELETED_MAX
  /\ IsInjective(del_store)
  /\ \A p \in ToSet(del_store) : ~is_critical_path(p)
  /\ sh_cwd \in Path
  /\ net_log \in NetLogs \cup {Empty}

SameFiles == UNCHANGED <<memfs, deleted, del_store>>
WriteStep ==
  /\ \E B : /\ Wrote(memfs, memfs', B)
            /\ (\E p : B = {p}) \/ (\E u \in UserNames : B = Bundle(u))
            /\ \A q \in B : Names(q)
  /\ UNCHANGED <<deleted, del_store>>
ClearStep ==
  /\ \E k \in DOMAIN memfs : Cleared(memfs, memfs', k) /\ Names(memfs[k].path)
  /\ UNCHANGED <<deleted, del_store>>
DeleteStep ==
  /\ \E p \in VFS : /\ ~is_critical_path(p) /\ ~fs_is_deleted(p) /\ ~InMemfs(p)
                    /\ fs_mark_deleted(p) /\ Names(p)
  /\ UNCHANGED memfs
RebootStep == kernel_main /\ memfs' = SkelFiles /\ del_sync_from_store
PowerStep  == halted /\ kernel_main /\ memfs' = SkelFiles /\ deleted' = <<>> /\ del_store' = <<>>

FsStep == SameFiles \/ WriteStep \/ ClearStep \/ DeleteStep \/ RebootStep \/ PowerStep

(* A write of one name is a WriteStep. *)
LEMMA OneName ==
  ASSUME NEW p, Wrote(memfs, memfs', {p}), UNCHANGED <<deleted, del_store>>, Names(p)
  PROVE  FsStep
<1>1. \A q \in {p} : Names(q)
  OBVIOUS
<1>2. WriteStep
  <2> DEFINE B == {p}
  <2>1. Wrote(memfs, memfs', B) /\ (\E q : B = {q}) /\ \A q \in B : Names(q)
    BY <1>1
  <2> HIDE DEF B
  <2>2. QED
    BY <2>1 DEF WriteStep
<1>3. QED
  BY <1>2 DEF FsStep

(* A slot found is live and of that name. *)
LEMMA FoundSlot ==
  ASSUME FsInv, NEW p, InMemfs(p)
  PROVE  LET k == memfs_find(memfs, p)
         IN  k \in DOMAIN memfs /\ Live(memfs, k) /\ memfs[k].path = p
<1>1. memfs \in Seq(MemFile)
  BY DEF FsInv, Tables
<1>2. memfs_find(memfs, p) \in Matches(memfs, p)
  BY <1>1, FindSpec DEF InMemfs
<1>3. QED
  BY <1>2 DEF Matches

(* Giving up the slot of a name is a ClearStep. *)
LEMMA OneSlot ==
  ASSUME FsInv, NEW p, InMemfs(p), UNCHANGED <<deleted, del_store>>, Names(p),
         NEW r \in MemFile, ~r.used,
         memfs' = [memfs EXCEPT ![memfs_find(memfs, p)] = r]
  PROVE  FsStep
<1> DEFINE k == memfs_find(memfs, p)
<1>1. k \in DOMAIN memfs /\ Live(memfs, k) /\ memfs[k].path = p
  BY FoundSlot
<1> HIDE DEF k
<1>2. Cleared(memfs, memfs', k)
  BY <1>1, EditCleared DEF FsInv, k
<1>3. QED
  BY <1>1, <1>2 DEF FsStep, ClearStep

(* The commands of FsCommand. *)
LEMMA FsCommandStep ==
  ASSUME FsInv, FsCommand
  PROVE  FsStep /\ sh_cwd' \in Path
<1>1. PICK a \in Args :
        \/ fs_touch(a)
        \/ cmd_mkdir(a)
        \/ cmd_rmdir(a)
        \/ \E text \in Texts : editor_save(a, text)
        \/ \E r, n \in BOOLEAN : fs_rm(a, r, n)
        \/ fs_cd(a)
  BY DEF FsCommand
<1> DEFINE p == fs_resolve(sh_cwd, a)
<1>2. p \in Path /\ Abs(a.comps) \in Path /\ memfs \in Tables
  BY ArgPath DEF FsInv
<1>3. memfs \in Seq(MemFile)
  BY <1>2 DEF Tables
<1>0. \/ fs_touch(a)
      \/ cmd_mkdir(a)
      \/ cmd_rmdir(a)
      \/ \E text \in Texts : editor_save(a, text)
      \/ \E r, n \in BOOLEAN : fs_rm(a, r, n)
      => Names(p)
  BY Zenon DEF Names
<1> HIDE DEF p
<1>4. CASE fs_touch(a)
  <2>1. memfs' = memfs_create(memfs, p).fs /\ UNCHANGED <<deleted, del_store, sh_cwd>>
    BY <1>4 DEF fs_touch, FilesOnly, p
  <2>2. Wrote(memfs, memfs', {p})
    BY <1>2, <2>1, CreateWrote
  <2>3. QED
    BY <1>0, <1>4, <2>1, <2>2, OneName DEF FsInv
<1>5. CASE cmd_mkdir(a)
  <2>1. memfs' = PutDir(memfs, p) /\ UNCHANGED <<deleted, del_store, sh_cwd>>
    BY <1>5 DEF cmd_mkdir, FilesOnly, p
  <2>2. DirMark \in Contents
    BY DEF Contents
  <2>3. Wrote(memfs, memfs', {p})
    BY <1>2, <2>1, <2>2, PutWrote
  <2>4. QED
    BY <1>0, <1>5, <2>1, <2>3, OneName DEF FsInv
<1>6. CASE \E text \in Texts : editor_save(a, text)
  <2>1. PICK text \in Texts : editor_save(a, text)
    BY <1>6
  <2>2. memfs' = PutFile(memfs, p, text) /\ UNCHANGED <<deleted, del_store, sh_cwd>>
    BY <2>1 DEF editor_save, FilesOnly, p
  <2>3. text \in Contents
    BY DEF Contents
  <2>4. Wrote(memfs, memfs', {p})
    BY <1>2, <2>2, <2>3, PutWrote
  <2>5. QED
    BY <1>0, <1>6, <2>2, <2>4, OneName DEF FsInv
<1>7. CASE cmd_rmdir(a)
  <2> DEFINE k == memfs_find(memfs, p)
             r == [memfs[k] EXCEPT !.used = FALSE, !.is_dir = FALSE, !.content = Empty]
  <2>1. /\ InMemfs(p) /\ UNCHANGED <<deleted, del_store, sh_cwd>>
        /\ memfs' = [memfs EXCEPT ![k] = r]
    BY <1>7 DEF cmd_rmdir, FilesOnly, p, MemDir
  <2>2. k \in DOMAIN memfs
    BY <2>1, FoundSlot
  <2>3. r \in MemFile /\ ~r.used
    <3>1. Empty \in Contents
      BY DEF Contents
    <3>2. memfs[k] \in MemFile
      BY <1>3, <2>2
    <3>3. QED
      BY <3>1, <3>2 DEF MemFile
  <2> HIDE DEF r
  <2>4. QED
    BY <1>0, <1>7, <2>1, <2>3, OneSlot DEF FsInv
<1>8. CASE \E r, n \in BOOLEAN : fs_rm(a, r, n)
  <2>1. Exists(p) /\ (rm_panics(p) \/ rm_memfile(p) \/ rm_vnode(p))
    BY <1>8 DEF fs_rm, RmAllowed, p
  <2>2. CASE rm_panics(p)
    BY <2>2 DEF rm_panics, FsStep, SameFiles, FsInv
  <2>3. CASE rm_memfile(p)
    <3> DEFINE k == memfs_find(memfs, p)
               r == [memfs[k] EXCEPT !.used = FALSE]
    <3>1. /\ InMemfs(p) /\ UNCHANGED <<deleted, del_store, sh_cwd>>
          /\ memfs' = [memfs EXCEPT ![k] = r]
      BY <2>3 DEF rm_memfile, FilesOnly, Freed
    <3>2. k \in DOMAIN memfs
      BY <3>1, FoundSlot
    <3>3. r \in MemFile /\ ~r.used
      <4>1. memfs[k] \in MemFile
        BY <1>3, <3>2
      <4>2. QED
        BY <4>1 DEF MemFile
    <3> HIDE DEF r
    <3>4. QED
      BY <1>0, <1>8, <3>1, <3>3, OneSlot DEF FsInv
  <2>4. CASE rm_vnode(p)
    <3>1. p \in VFS /\ ~fs_is_deleted(p)
      BY <2>1, <2>4 DEF rm_vnode, Exists, fs_find_vnode
    <3>2. QED
      BY <1>0, <1>8, <2>4, <3>1 DEF rm_vnode, FsStep, DeleteStep, FsInv
  <2>5. QED
    BY <2>1, <2>2, <2>3, <2>4
<1>9. CASE fs_cd(a)
  <2>1. WithSlash(p) \in Path
    BY <1>2 DEF Path, PathOver, WithSlash
  <2>2. CdTargets(a) \subseteq {p, WithSlash(p), Abs(a.comps)}
    BY DEF CdTargets, p
  <2>3. QED
    BY <1>2, <1>9, <2>1, <2>2 DEF fs_cd, FsStep, SameFiles
<1>10. QED
  BY <1>1, <1>4, <1>5, <1>6, <1>7, <1>8, <1>9
(* The home directory of a new user: three writes, or fewer. *)
LEMMA HomeWrote ==
  ASSUME NEW m \in Tables, NEW u \in UserNames
  PROVE  Wrote(m, WithHome(m, u), Bundle(u))
<1>1. {Home(u), HomeRc(u), HomeProfile(u)} \subseteq Path
  BY KernelPaths
<1>2. ASSUME NEW n \in Tables, NEW from, NEW to \in Path
      PROVE  Wrote(n, Copied(n, from, to), {to})
  <2> DEFINE k == memfs_find(n, from)
  <2>1. n \in Seq(MemFile)
    BY DEF Tables
  <2>2. CASE k = 0
    BY <2>1, <2>2 DEF Copied, Wrote
  <2>3. CASE k # 0
    <3>1. k \in DOMAIN n
      BY <2>1, <2>3, FindSpec DEF Matches
    <3>2. n[k].content \in Contents
      <4> HIDE DEF k
      <4>1. n[k] \in MemFile
        BY <2>1, <3>1
      <4>2. QED
        BY <4>1 DEF MemFile
    <3>3. Copied(n, from, to) = PutFile(n, to, n[k].content)
      BY <2>3 DEF Copied
    <3> HIDE DEF k
    <3>4. QED
      BY <3>2, <3>3, PutWrote
  <2>4. QED
    BY <2>2, <2>3
<1> DEFINE a == PutDir(m, Home(u))
           b == Copied(a, SkelRc, HomeRc(u))
           c == Copied(b, SkelProfile, HomeProfile(u))
<1>3. Wrote(m, a, {Home(u)})
  <2>1. DirMark \in Contents
    BY DEF Contents
  <2>2. QED
    BY <1>1, <2>1, PutWrote
<1>4. Wrote(a, b, {HomeRc(u)}) /\ a \in Tables
  BY <1>1, <1>2, <1>3 DEF Wrote
<1>5. Wrote(b, c, {HomeProfile(u)}) /\ b \in Tables
  BY <1>1, <1>2, <1>4 DEF Wrote
<1> HIDE DEF a, b, c
<1>6. Wrote(m, b, {Home(u)} \cup {HomeRc(u)})
  BY <1>3, <1>4, WroteTwice
<1>7. Wrote(m, c, ({Home(u)} \cup {HomeRc(u)}) \cup {HomeProfile(u)})
  BY <1>5, <1>6, WroteTwice
<1>8. QED
  BY <1>7 DEF WithHome, Bundle, a, b, c

(* The log of rtldebug. *)
LEMMA LogStep ==
  ASSUME FsInv, rtldebug
  PROVE  FsStep
<1> DEFINE r == memfs_create(memfs, NetLog)
           o == r.fs[r.at]
           text == net_log
<1>1. memfs \in Tables /\ NetLog \in Path /\ text \in Contents
  BY KernelPaths DEF FsInv, Contents
<1>2. UNCHANGED <<deleted, del_store>> /\ Names(NetLog)
  BY DEF rtldebug, Names
<1>3. /\ Wrote(memfs, r.fs, {NetLog})
      /\ r.at # 0 => r.at \in DOMAIN r.fs /\ o.path = NetLog /\ o.used
      /\ r.at # 0 /\ memfs_find(memfs, NetLog) = 0 =>
           r.fs = Append(memfs, Slot(NetLog)) /\ r.at = Len(memfs) + 1
      /\ memfs_find(memfs, NetLog) # 0 => r.fs = memfs /\ r.at = memfs_find(memfs, NetLog)
  <2>1. LET q == memfs_create(memfs, NetLog)
        IN  /\ Wrote(memfs, q.fs, {NetLog})
            /\ q.at # 0 => /\ q.at \in DOMAIN q.fs
                           /\ q.fs[q.at].path = NetLog /\ q.fs[q.at].used
            /\ q.at # 0 /\ memfs_find(memfs, NetLog) = 0 =>
                 q.fs = Append(memfs, Slot(NetLog)) /\ q.at = Len(memfs) + 1
            /\ memfs_find(memfs, NetLog) # 0 =>
                 q.fs = memfs /\ q.at = memfs_find(memfs, NetLog)
            /\ q.at = 0 => q.fs = memfs
    BY <1>1, CreateWrote
  <2>2. QED
    BY <2>1
<1>4. r.fs \in Tables /\ r.fs \in Seq(MemFile)
  BY <1>3 DEF Wrote, Tables
<1>5. r.at # 0 => o \in MemFile
  BY <1>3, <1>4
<1>6. CASE r.at = 0
  <2>1. memfs' = r.fs
    BY <1>6 DEF rtldebug
  <2>2. QED
    BY <1>2, <1>3, <2>1, OneName
<1>7. CASE r.at # 0 /\ text # Empty
  <2> DEFINE f == [o EXCEPT !.content = text, !.used = TRUE]
  <2>1. memfs' = [r.fs EXCEPT ![r.at] = f]
    BY <1>7 DEF rtldebug
  <2>2. f \in MemFile /\ f.path = o.path /\ f.used = o.used
    <3>1. o.used = TRUE
      BY <1>3, <1>5, <1>7 DEF MemFile
    <3>2. QED
      BY <1>1, <1>5, <1>7, <3>1 DEF MemFile
  <2> HIDE DEF f, r
  <2>3. Wrote(r.fs, memfs', {NetLog})
    BY <1>3, <1>4, <1>7, <2>1, <2>2, EditWrote
  <2>4. Wrote(memfs, memfs', {NetLog} \cup {NetLog})
    BY <1>1, <1>3, <2>3, WroteTwice
  <2>5. {NetLog} \cup {NetLog} = {NetLog}
    OBVIOUS
  <2>6. QED
    BY <1>2, <2>4, <2>5, OneName
<1>8. CASE r.at # 0 /\ text = Empty
  <2> DEFINE f == [o EXCEPT !.used = FALSE]
  <2>1. memfs' = [r.fs EXCEPT ![r.at] = f]
    BY <1>8 DEF rtldebug, Freed
  <2>2. f \in MemFile /\ ~f.used /\ f.path = o.path
    BY <1>5, <1>8 DEF MemFile
  <2> HIDE DEF f, r
  <2>3. CASE memfs_find(memfs, NetLog) # 0
    <3>1. InMemfs(NetLog)
      BY <2>3 DEF InMemfs
    <3>2. memfs' = [memfs EXCEPT ![memfs_find(memfs, NetLog)] = f]
      BY <1>3, <2>1, <2>3
    <3>3. QED
      BY <1>2, <2>2, <3>1, <3>2, OneSlot
  <2>4. CASE memfs_find(memfs, NetLog) = 0
    <3>1. /\ memfs \in Seq(MemFile) /\ Len(memfs) \in Nat /\ DOMAIN memfs = 1..Len(memfs)
          /\ Len(r.fs) = Len(memfs) + 1 /\ Len(r.fs) <= MEMFS_MAX
          /\ r.at = Len(memfs) + 1 /\ r.at \in DOMAIN r.fs
          /\ Unique(memfs)
      BY <1>1, <1>3, <1>4, <1>8, <2>4 DEF Tables
    <3>2. \A j \in DOMAIN memfs : r.fs[j] = memfs[j]
      BY <1>3, <1>8, <2>4, <3>1
    <3>3. /\ memfs' \in Seq(MemFile) /\ Len(memfs') = Len(r.fs)
          /\ memfs'[r.at] = f
          /\ \A j \in DOMAIN memfs : memfs'[j] = memfs[j]
          /\ DOMAIN memfs' = 1..(Len(memfs) + 1)
      BY <1>4, <2>1, <2>2, <3>1, <3>2
    <3>4. Unique(memfs')
      BY <2>2, <3>1, <3>3 DEF Unique, Live
    <3>5. f.path = NetLog
      BY <1>3, <1>8, <2>2
    <3>6. Wrote(memfs, memfs', {NetLog})
      BY <3>1, <3>3, <3>4, <3>5 DEF Wrote, Tables
    <3>7. QED
      BY <1>2, <3>6, OneName
  <2>5. QED
    BY <2>3, <2>4
<1>9. QED
  BY <1>6, <1>7, <1>8

(* Every step is of one of the kinds. *)
LEMMA NextStep ==
  ASSUME FsInv, [Next]_vars
  PROVE  FsStep /\ sh_cwd' \in Path
<1>1. CASE UNCHANGED vars
  BY <1>1 DEF vars, fsVars, FsStep, SameFiles, FsInv
<1>2. CASE UserCommand
  <2>1. ASSUME NEW u \in UserNames, cmd_adduser(u) PROVE FsStep /\ sh_cwd' \in Path
    <3>1. Wrote(memfs, memfs', Bundle(u))
      BY <2>1, HomeWrote DEF FsInv, cmd_adduser
    <3>2. \A q \in Bundle(u) : Names(q)
      BY <2>1, Zenon DEF Names, Bundle
    <3>3. UNCHANGED <<deleted, del_store, sh_cwd>>
      BY <2>1 DEF cmd_adduser
    <3>4. QED
      BY <3>1, <3>2, <3>3 DEF FsInv, FsStep, WriteStep
  <2>2. ASSUME NEW u \in UserNames \cup {"root"}, cmd_su(u) PROVE FsStep /\ sh_cwd' \in Path
    <3>1. sh_cwd' \in Path
      BY <2>2, KernelPaths DEF cmd_su
    <3>2. QED
      BY <2>2, <3>1 DEF cmd_su, FsStep, SameFiles, fsVars
  <2>3. QED
    BY <1>2, <2>1, <2>2 DEF UserCommand, cmd_deluser, cmd_usermod, cmd_groupadd,
       FsInv, FsStep, SameFiles, fsVars
<1>3. CASE RpkCommand
  <2>1. ASSUME NEW k \in Pkgs, rpk_install(k) PROVE FsStep /\ sh_cwd' \in Path
    <3>1. UsrBin(k) \in Path /\ BinText \in Contents
      BY KernelPaths DEF Contents
    <3>2. Wrote(memfs, memfs', {UsrBin(k)})
      BY <2>1, <3>1, PutWrote DEF FsInv, rpk_install
    <3>3. Names(UsrBin(k))
      BY <2>1, Zenon DEF Names
    <3>4. QED
      BY <2>1, <3>2, <3>3, OneName DEF FsInv, rpk_install
  <2>2. QED
    BY <1>3, <2>1 DEF RpkCommand, rpk_remove, FsInv, FsStep, SameFiles, fsVars
<1>4. ASSUME reboot PROVE FsStep /\ sh_cwd' \in Path
  <2>1. Root \in Path
    BY KernelPaths
  <2>2. QED
    BY <1>4, <2>1 DEF reboot, kernel_main, users_init, FsStep, RebootStep
<1>5. CASE CfgCommand
  <2>1. ASSUME NEW v \in BOOLEAN, NEW save \in BOOLEAN, cmd_menuconfig(v, save)
        PROVE  FsStep /\ sh_cwd' \in Path
    <3>1. CASE save
      <4>1. MCFG_PATH \in Path /\ ConfText(v) \in Contents
        BY KernelPaths DEF Contents
      <4>2. Wrote(memfs, memfs', {MCFG_PATH})
        BY <2>1, <3>1, <4>1, PutWrote DEF FsInv, cmd_menuconfig
      <4>3. cmd_menuconfig(v, TRUE)
        BY <2>1, <3>1 DEF cmd_menuconfig
      <4>4. Names(MCFG_PATH)
        BY <4>3, Zenon DEF Names
      <4>5. QED
        BY <2>1, <4>2, <4>4, OneName DEF FsInv, cmd_menuconfig
    <3>2. CASE ~save
      BY <2>1, <3>2 DEF cmd_menuconfig, FsInv, FsStep, SameFiles
    <3>3. QED
      BY <3>1, <3>2
  <2>2. QED
    BY <1>4, <1>5, <2>1 DEF CfgCommand, menuconfig_faults
<1>6. CASE (\E text \in NetLogs : net_command(text)) \/ rtldebug
  BY <1>6, LogStep DEF rtldebug, net_command, fsVars, SameFiles, FsStep, FsInv
<1>7. CASE halted /\ power_cycle
  <2>1. Root \in Path
    BY KernelPaths
  <2>2. QED
    BY <1>7, <2>1 DEF power_cycle, kernel_main, users_init, FsStep, PowerStep
<1>8. CASE halt
  BY <1>8 DEF halt, FsInv, FsStep, SameFiles, fsVars
<1>9. QED
  BY <1>1, <1>2, <1>3, <1>4, <1>5, <1>6, <1>7, <1>8, FsCommandStep DEF Next, Command
-----------------------------------------------------------------------------
(* The invariant of the files. *)

(* Slots under different names are a table, whatever is deleted, before    *)
(* and after a step.                                                       *)
LEMMA DistinctPaths ==
  ASSUME NEW m \in Seq(MemFile), Len(m) <= MEMFS_MAX,
         \A j, k \in DOMAIN m : m[j].path = m[k].path => j = k
  PROVE  m \in Tables /\ m \in Tables'
BY DEF Tables, Unique

(* The files of a fresh machine are a table. *)
LEMMA SkelTables ==
  SkelFiles \in Tables /\ SkelFiles \in Tables'
<1> DEFINE d == [Slot(SkelDir) EXCEPT !.content = DirMark]
           a == [Slot(SkelRc) EXCEPT !.content = RcText]
           b == [Slot(SkelProfile) EXCEPT !.content = ProfileText]
<1>1. SkelDir \in Path /\ SkelRc \in Path /\ SkelProfile \in Path
  BY KernelPaths
<1>2. {DirMark, RcText, ProfileText} \subseteq Contents
  BY DEF Contents
<1>3. ASSUME NEW p \in Path, NEW t \in Contents
      PROVE  [Slot(p) EXCEPT !.content = t] \in MemFile
  <2>1. p.slash \in BOOLEAN
    BY DEF Path, PathOver
  <2>2. \A f, u \in BOOLEAN :
          [[path |-> p, used |-> u, is_dir |-> f, content |-> Empty] EXCEPT !.content = t]
            \in MemFile
    BY DEF MemFile
  <2>3. QED
    BY <2>1, <2>2, Zenon DEF Slot
<1>4. d \in MemFile /\ a \in MemFile /\ b \in MemFile
  BY <1>1, <1>2, <1>3
<1>5. d.path = SkelDir /\ a.path = SkelRc /\ b.path = SkelProfile
  BY DEF Slot
<1>6. SkelDir # SkelRc /\ SkelDir # SkelProfile /\ SkelRc # SkelProfile
  BY SkelNames
<1>7. SkelFiles = <<d, a, b>>
  BY SkelIs
<1> HIDE DEF d, a, b
<1>8. /\ <<d, a, b>> \in Seq(MemFile) /\ Len(<<d, a, b>>) <= MEMFS_MAX
      /\ \A j, k \in DOMAIN <<d, a, b>> :
           <<d, a, b>>[j].path = <<d, a, b>>[k].path => j = k
  BY <1>4, <1>5, <1>6, FsAssumption, OsAssumption
<1>9. QED
  BY <1>7, <1>8, DistinctPaths

(* While the list of deleted names stays, a table stays one. *)
LEMMA SameTables ==
  ASSUME UNCHANGED <<deleted, del_store>>
  PROVE  /\ \A p : fs_is_deleted(p)' <=> fs_is_deleted(p)
         /\ Tables' = Tables
<1>1. \A p : fs_is_deleted(p)' <=> fs_is_deleted(p)
  BY DEF fs_is_deleted
<1>2. \A m : Unique(m)' <=> Unique(m)
  BY <1>1 DEF Unique, Live
<1>3. QED
  BY <1>1, <1>2 DEF Tables

(* What a list with one more entry holds, and when it repeats none. *)
LEMMA AppendSet ==
  ASSUME NEW T, NEW s \in Seq(T), NEW x \in T
  PROVE  /\ ToSet(Append(s, x)) = ToSet(s) \cup {x}
         /\ IsInjective(s) /\ x \notin ToSet(s) => IsInjective(Append(s, x))
<1> DEFINE t == Append(s, x)
<1>1. /\ DOMAIN s = 1..Len(s) /\ Len(s) \in Nat /\ DOMAIN t = 1..(Len(s) + 1)
      /\ t[Len(s) + 1] = x /\ \A k \in DOMAIN s : t[k] = s[k]
  OBVIOUS
<1> HIDE DEF t
<1>2. ToSet(t) \subseteq ToSet(s) \cup {x}
  <2>1. SUFFICES ASSUME NEW k \in DOMAIN t PROVE t[k] \in ToSet(s) \cup {x}
    BY DEF ToSet
  <2>2. QED
    BY <1>1 DEF ToSet
<1>3. ToSet(s) \cup {x} \subseteq ToSet(t)
  <2>1. \A k \in DOMAIN s : s[k] \in ToSet(t)
    BY <1>1 DEF ToSet
  <2>2. x \in ToSet(t)
    BY <1>1 DEF ToSet
  <2>3. QED
    BY <2>1, <2>2 DEF ToSet
<1>4. ASSUME IsInjective(s), x \notin ToSet(s) PROVE IsInjective(t)
  <2>1. \A k \in DOMAIN s : s[k] # x
    BY <1>4 DEF ToSet
  <2>2. QED
    BY <1>1, <1>4, <2>1 DEF IsInjective
<1>5. QED
  BY <1>2, <1>3, <1>4 DEF t

(* What rm does to the list: the name goes to its end, or nothing happens. *)
LEMMA MarkStep ==
  ASSUME FsInv, NEW p \in VFS, fs_mark_deleted(p)
  PROVE  /\ deleted' = del_store'
         /\ \/ UNCHANGED <<deleted, del_store>>
            \/ /\ Len(del_store) < DELETED_MAX
               /\ del_store' = Append(del_store, p)
               /\ ToSet(del_store') = ToSet(del_store) \cup {p}
<1>1. deleted = del_store /\ del_store \in Seq(VFS)
  BY DEF FsInv
<1>2. CASE Len(del_store) < DELETED_MAX
  <2>1. del_store' = Append(del_store, p) /\ deleted' = del_store'
    BY <1>1, <1>2 DEF fs_mark_deleted
  <2>2. ToSet(Append(del_store, p)) = ToSet(del_store) \cup {p}
    BY <1>1, AppendSet
  <2>3. QED
    BY <1>2, <2>1, <2>2
<1>3. CASE ~(Len(del_store) < DELETED_MAX)
  BY <1>1, <1>3 DEF fs_mark_deleted
<1>4. QED
  BY <1>2, <1>3

(* A reboot finds the list it left. *)
LEMMA RebootKeeps ==
  ASSUME FsInv, del_sync_from_store
  PROVE  UNCHANGED <<deleted, del_store>>
<1>1. deleted = del_store /\ del_store \in Seq(VFS) /\ Len(del_store) <= DELETED_MAX
  BY DEF FsInv
<1>2. deleted' = SubSeq(del_store, 1, Len(del_store)) /\ del_store' = del_store
  BY <1>1, FsAssumption DEF del_sync_from_store
<1>3. SubSeq(del_store, 1, Len(del_store)) = del_store
  BY <1>1
<1>4. QED
  BY <1>1, <1>2, <1>3

(* The invariant is kept by every kind of step. *)
LEMMA FsKept ==
  ASSUME FsInv, FsStep, sh_cwd' \in Path, net_log' \in NetLogs \cup {Empty}
  PROVE  FsInv'
<1>1. ASSUME UNCHANGED <<deleted, del_store>>, memfs' \in Tables
      PROVE  FsInv'
  <2>1. memfs' \in Tables'
    BY <1>1, SameTables
  <2>2. QED
    BY <1>1, <2>1 DEF FsInv
<1>2. CASE SameFiles
  BY <1>1, <1>2 DEF SameFiles, FsInv
<1>3. CASE WriteStep
  BY <1>1, <1>3 DEF WriteStep, Wrote
<1>4. CASE ClearStep
  BY <1>1, <1>4 DEF ClearStep, Cleared
<1>5. CASE RebootStep
  BY <1>1, <1>5, RebootKeeps, SkelTables DEF RebootStep
<1>6. CASE PowerStep
  <2>1. memfs' \in Tables'
    BY <1>6, SkelTables DEF PowerStep
  <2>2. /\ del_store' = <<>> /\ deleted' = <<>>
        /\ <<>> \in Seq(VFS) /\ Len(<<>>) <= DELETED_MAX
        /\ IsInjective(<<>>) /\ ToSet(<<>>) = {}
    BY <1>6, FsAssumption DEF PowerStep, IsInjective, ToSet
  <2>3. QED
    BY <2>1, <2>2 DEF FsInv
<1>7. CASE DeleteStep
  <2>1. PICK p \in VFS : /\ ~is_critical_path(p) /\ ~fs_is_deleted(p)
                         /\ fs_mark_deleted(p) /\ memfs' = memfs
    BY <1>7 DEF DeleteStep
  <2>2. CASE UNCHANGED <<deleted, del_store>>
    BY <1>1, <2>1, <2>2 DEF FsInv
  <2>3. CASE ~UNCHANGED <<deleted, del_store>>
    <3>1. /\ deleted' = del_store' /\ Len(del_store) < DELETED_MAX
          /\ del_store' = Append(del_store, p)
          /\ ToSet(del_store') = ToSet(del_store) \cup {p}
      BY <2>1, <2>3, MarkStep
    <3>2. \A q : fs_is_deleted(q) => fs_is_deleted(q)'
      BY <3>1 DEF fs_is_deleted, FsInv
    <3>3. memfs' \in Tables'
      BY <2>1, <3>2 DEF FsInv, Tables, Unique, Live
    <3>4. del_store \in Seq(VFS) /\ p \notin ToSet(del_store) /\ IsInjective(del_store)
      BY <2>1 DEF FsInv, fs_is_deleted
    <3>5. del_store' \in Seq(VFS) /\ Len(del_store') <= DELETED_MAX
      BY <3>1, <3>4, FsAssumption
    <3>6. IsInjective(Append(del_store, p))
      BY <3>4, AppendSet
    <3>7. \A q \in ToSet(del_store') : ~is_critical_path(q)
      BY <2>1, <3>1 DEF FsInv
    <3>8. QED
      BY <3>1, <3>3, <3>5, <3>6, <3>7 DEF FsInv
  <2>4. QED
    BY <2>2, <2>3
<1>8. QED
  BY <1>2, <1>3, <1>4, <1>5, <1>6, <1>7 DEF FsStep

(* Before the first boot the file system satisfies its invariant. *)
LEMMA InitFs ==
  ASSUME Init
  PROVE  FsInv
<1>1. memfs = SkelFiles
  BY SkelIs DEF Init
<1>2. /\ del_store = <<>> /\ deleted = <<>>
      /\ <<>> \in Seq(VFS) /\ Len(<<>>) <= DELETED_MAX
      /\ IsInjective(<<>>) /\ ToSet(<<>>) = {}
  BY FsAssumption DEF Init, IsInjective, ToSet
<1>3. sh_cwd \in Path
  BY KernelPaths DEF Init
<1>4. QED
  BY <1>1, <1>2, <1>3, SkelTables DEF FsInv, Init

(* The driver's log changes with network commands and restarts only. *)
LEMMA LogNext ==
  ASSUME FsInv, [Next]_vars
  PROVE  /\ net_log' \in NetLogs \cup {Empty}
         /\ \/ net_log' = net_log
            \/ kernel_main
            \/ \E text \in NetLogs : net_command(text)
<1>1. UNCHANGED cfgVars => net_log' = net_log
  BY DEF cfgVars
<1>2. CASE UNCHANGED vars \/ FsCommand \/ halt \/ rtldebug
  BY <1>1, <1>2 DEF vars, FsCommand, halt, rtldebug, FsInv
<1>3. CASE UserCommand
  BY <1>1, <1>3 DEF UserCommand, cmd_adduser, cmd_deluser, cmd_su, cmd_usermod,
     cmd_groupadd, FsInv
<1>4. CASE RpkCommand
  BY <1>1, <1>4 DEF RpkCommand, rpk_install, rpk_remove, FsInv
<1>5. CASE \E text \in NetLogs : net_command(text)
  BY <1>5 DEF net_command
<1>6. CASE reboot \/ power_cycle
  BY <1>6 DEF reboot, power_cycle, kernel_main
<1>7. CASE CfgCommand
  BY <1>7 DEF CfgCommand, cmd_menuconfig, menuconfig_faults, reboot, kernel_main, FsInv
<1>8. QED
  BY <1>2, <1>3, <1>4, <1>5, <1>6, <1>7 DEF Next, Command

(* One step of the kernel keeps the invariant of the file system. *)
LEMMA FsNext ==
  ASSUME FsInv, [Next]_vars
  PROVE  FsInv'
BY NextStep, LogNext, FsKept

(* A name on the list is not found, in the table or among the built-in     *)
(* files.                                                                  *)
LEMMA DeletedHidden ==
  ASSUME NEW p, fs_is_deleted(p)
  PROVE  ~Exists(p)
<1>1. Matches(memfs, p) = {}
  BY DEF Matches, Live
<1>2. QED
  BY <1>1 DEF Exists, InMemfs, memfs_find, fs_find_vnode
(* In the next state as in this one, a deleted name is not found. *)
LEMMA DeletedHiddenNext ==
  ASSUME NEW p, fs_is_deleted(p)'
  PROVE  ~Exists(p)'
<1>1. Matches(memfs, p)' = {}
  BY DEF Matches, Live
<1>2. QED
  BY <1>1 DEF Exists, InMemfs, memfs_find, fs_find_vnode

(* No step but the loss of power takes a name off the list. *)
LEMMA ListGrows ==
  ASSUME FsInv, FsStep, ~halted, NEW p \in ToSet(del_store)
  PROVE  p \in ToSet(del_store') /\ ~Exists(p)'
<1>1. p \in ToSet(del_store')
  <2>1. CASE UNCHANGED <<deleted, del_store>>
    BY <2>1
  <2>2. CASE DeleteStep
    BY <2>2, MarkStep DEF DeleteStep
  <2>3. CASE RebootStep
    BY <2>3, RebootKeeps DEF RebootStep
  <2>4. QED
    BY <2>1, <2>2, <2>3 DEF FsStep, SameFiles, WriteStep, ClearStep, PowerStep
<1>2. fs_is_deleted(p)'
  BY <1>1 DEF fs_is_deleted
<1>3. QED
  BY <1>1, <1>2, DeletedHiddenNext

(* Once rm has put a name on the list no command and no reboot brings the  *)
(* file back: fs_mark_deleted only appends, kernel_main reads the list     *)
(* back from 0x600000, and nothing made later is found under the name.     *)
THEOREM DeletionsStay == Spec => DeletedStays
<1>1. Init => FsInv
  BY InitFs
<1>2. FsInv /\ [Next]_vars => FsInv'
  BY FsNext
<1>3. FsInv /\ [Next]_vars =>
        [~halted => \A p \in ToSet(del_store) :
           p \in ToSet(del_store') /\ ~Exists(p)']_vars
  BY NextStep, ListGrows
<1>4. QED
  BY <1>1, <1>2, <1>3, PTL DEF Spec, DeletedStays
-----------------------------------------------------------------------------
(* Users and groups. *)

UserRec  == [name: UserNames \cup {"root"}, active: BOOLEAN]
GroupRec == [name: GroupNames \cup {"root", "wheel", "users", NoName},
             mem: [0..(MAX_U - 1) -> Nat], nm: Nat]
Places == 0..(MAX_U - 1)

(* Every word of every array is the index of a user, counted or not, in    *)
(* use or not: what a write past an array leaves in another one is again   *)
(* the index of a user.                                                    *)
WordsUnder(n) == \A k \in 1..MAX_G : \A j \in Places : groups[k].mem[j] < n

(* The groups that no write past an end can have reached. *)
Exact(r, A) == r.nm <= MAX_U /\ Members(r) = A
Reached(g) == /\ g <= over => groups[g].name # NoName
              /\ g < over => Exact(groups[g], added[g])

UsersInv ==
  /\ users \in Seq(UserRec) /\ Len(users) \in 1..MAX_U
  /\ groups \in [1..MAX_G -> GroupRec] /\ ng \in 3..MAX_G
  /\ added \in [1..MAX_G -> SUBSET Nat] /\ over \in 1..(MAX_G + 1)
  /\ WordsUnder(Len(users))
  /\ \A g \in 1..ng : Reached(g)

(* The invariant implies the property of the run. *)
LEMMA UsersTrue ==
  ASSUME UsersInv
  PROVE  GroupsTrue
<1>1. SUFFICES ASSUME NEW g \in 1..ng
               PROVE  Members(groups[g]) \subseteq 0..(Len(users) - 1)
  BY DEF UsersInv, GroupsTrue, Reached, Exact
<1>2. g \in 1..MAX_G /\ groups[g] \in GroupRec /\ Len(users) \in Nat
  BY OsAssumption DEF UsersInv
<1>3. \A j \in Places : groups[g].mem[j] \in Nat /\ groups[g].mem[j] < Len(users)
  BY <1>2 DEF UsersInv, WordsUnder, GroupRec, Places
<1>4. \A x \in Members(groups[g]) : \E j \in Places : x = groups[g].mem[j]
  BY DEF Members, Places
<1>5. QED
  BY <1>2, <1>3, <1>4

(* Division with remainder. *)
LEMMA DivMod ==
  ASSUME NEW a \in Nat, NEW b \in Nat \ {0}
  PROVE  a \div b \in Nat /\ a % b \in Nat /\ a % b < b
OBVIOUS

(* A member appended while the array has room. *)
LEMMA AddMemberRec ==
  ASSUME NEW g \in GroupRec, g.nm < MAX_U, NEW ui \in Nat
  PROVE  /\ AddMember(g, ui) \in GroupRec
         /\ AddMember(g, ui).name = g.name
         /\ AddMember(g, ui).nm = g.nm + 1
         /\ \A j \in Places : AddMember(g, ui).mem[j] \in {g.mem[j], ui}
         /\ Members(AddMember(g, ui)) = Members(g) \cup {ui}
<1> DEFINE h == AddMember(g, ui)
<1>1. g.mem \in [Places -> Nat] /\ g.nm \in Nat
  BY DEF GroupRec, Places
<1> DEFINE f == [g.mem EXCEPT ![g.nm] = ui]
<1>2. g.nm \in Places
  BY <1>1, OsAssumption DEF Places
<1>3. /\ f \in [Places -> Nat] /\ f[g.nm] = ui
      /\ \A j \in Places : j # g.nm => f[j] = g.mem[j]
  BY <1>1, <1>2
<1> HIDE DEF f
<1>4. h \in GroupRec /\ h.name = g.name /\ h.mem = f /\ h.nm = g.nm + 1
  <2>1. h = [g EXCEPT !.mem = f, !.nm = g.nm + 1]
    BY DEF AddMember, f
  <2>2. g.name \in GroupNames \cup {"root", "wheel", "users", NoName}
    BY DEF GroupRec
  <2>3. h = [name |-> g.name, mem |-> f, nm |-> g.nm + 1]
    BY <2>1 DEF GroupRec
  <2>4. h.name = g.name /\ h.mem = f /\ h.nm = g.nm + 1
    BY <2>3
  <2>5. h \in GroupRec
    BY <1>1, <1>3, <2>2, <2>3 DEF GroupRec, Places
  <2>6. QED
    BY <2>4, <2>5
<1> HIDE DEF h
<1>5. \A j \in Places : j < h.nm <=> j < g.nm \/ j = g.nm
  BY <1>1, <1>4 DEF Places
<1>6. Members(h) = Members(g) \cup {ui}
  <2>1. Members(h) = {f[j] : j \in {i \in Places : i < h.nm}}
    BY <1>4 DEF Members, Places
  <2>2. Members(g) = {g.mem[j] : j \in {i \in Places : i < g.nm}}
    BY DEF Members, Places
  <2>3. \A j \in Places : j < g.nm => j # g.nm
    BY <1>1 DEF Places
  <2>4. QED
    BY <1>2, <1>3, <1>5, <2>1, <2>2, <2>3
<1>7. QED
  BY <1>3, <1>4, <1>6 DEF h

(* A write into a group from outside leaves in its array nothing but what  *)
(* was there and what is written.                                          *)
LEMMA HitRec ==
  ASSUME NEW r \in GroupRec, NEW o \in Nat, o < GROUP_WORDS, NEW v \in Nat
  PROVE  Hit(r, o, v) \in GroupRec /\ \A j \in Places : Hit(r, o, v).mem[j] \in {r.mem[j], v}
<1>1. /\ r.mem \in [Places -> Nat] /\ r.nm \in Nat
      /\ r.name \in GroupNames \cup {"root", "wheel", "users", NoName}
      /\ r = [name |-> r.name, mem |-> r.mem, nm |-> r.nm]
  BY DEF GroupRec, Places
<1>2. CASE o = 0
  <2>1. Hit(r, o, v) = [name |-> NoName, mem |-> r.mem, nm |-> r.nm]
    BY <1>1, <1>2 DEF Hit
  <2>2. QED
    BY <1>1, <2>1 DEF GroupRec, Places
<1>3. CASE o # 0 /\ o < GROUP_HEAD
  BY <1>3 DEF Hit
<1>4. CASE o # 0 /\ ~(o < GROUP_HEAD) /\ o < GROUP_HEAD + MAX_U
  <2> DEFINE f == [r.mem EXCEPT ![o - GROUP_HEAD] = v]
  <2>1. o - GROUP_HEAD \in Places
    BY <1>4, OsAssumption DEF Places
  <2>2. f \in [Places -> Nat] /\ \A j \in Places : f[j] \in {r.mem[j], v}
    BY <1>1, <2>1
  <2>3. Hit(r, o, v) = [r EXCEPT !.mem = f]
    BY <1>4 DEF Hit
  <2> HIDE DEF f
  <2>4. Hit(r, o, v) = [name |-> r.name, mem |-> f, nm |-> r.nm]
    BY <1>1, <2>3
  <2>5. QED
    BY <1>1, <2>2, <2>4 DEF GroupRec, Places
<1>5. CASE o # 0 /\ ~(o < GROUP_HEAD) /\ ~(o < GROUP_HEAD + MAX_U)
  <2>1. Hit(r, o, v) = [name |-> r.name, mem |-> r.mem, nm |-> v]
    BY <1>1, <1>5 DEF Hit
  <2>2. QED
    BY <1>1, <2>1 DEF GroupRec, Places
<1>6. QED
  BY <1>2, <1>3, <1>4, <1>5

(* The groups of a fresh machine. *)
LEMMA FreshGroup ==
  ASSUME NEW g \in {"root", "wheel", "users", NoName}, NEW n \in {0, 1}
  PROVE  /\ Group(g, n) \in GroupRec /\ Group(g, n).name = g /\ Group(g, n).nm = n
         /\ \A j \in Places : Group(g, n).mem[j] = 0
         /\ Members(Group(g, n)) = IF n = 0 THEN {} ELSE {0}
<1> DEFINE z == [j \in Places |-> 0]
<1>1. z \in [Places -> Nat] /\ \A j \in Places : z[j] = 0
  OBVIOUS
<1>2. Group(g, n) = [name |-> g, mem |-> z, nm |-> n]
  BY DEF Group, Places
<1> HIDE DEF z
<1>3. /\ Group(g, n) \in GroupRec /\ Group(g, n).name = g /\ Group(g, n).nm = n
      /\ Group(g, n).mem = z
  BY <1>1, <1>2 DEF GroupRec, Places
<1>4. Members(Group(g, n)) = {z[j] : j \in {i \in Places : i < n}}
  BY <1>3 DEF Members, Places
<1>5. 0 \in Places /\ \A j \in Places : j < 1 <=> j = 0
  BY OsAssumption DEF Places
<1>6. CASE n = 0
  <2>1. \A j \in Places : ~(j < 0)
    BY DEF Places
  <2>2. QED
    BY <1>1, <1>3, <1>4, <1>6, <2>1
<1>7. CASE n = 1
  BY <1>1, <1>3, <1>4, <1>5, <1>7
<1>8. QED
  BY <1>6, <1>7

(* Tables of users and groups as users_init makes them. *)
FreshTables ==
  /\ users = <<User("root")>>
  /\ groups = FreshGroups
  /\ ng = 3
  /\ added = FreshAdded
  /\ over = MAX_G + 1

LEMMA FreshTablesGood ==
  ASSUME FreshTables
  PROVE  UsersInv
<1>1. User("root") \in UserRec
  <2>1. \A b \in BOOLEAN : [name |-> "root", active |-> b] \in UserRec
    BY DEF UserRec
  <2>2. QED
    BY <2>1, Zenon DEF User
<1>2. users \in Seq(UserRec) /\ Len(users) = 1
  <2> HIDE DEF User
  <2>1. QED
    BY <1>1 DEF FreshTables
<1>3. /\ groups = [k \in 1..MAX_G |-> groups[k]]
      /\ added = [k \in 1..MAX_G |-> added[k]]
      /\ \A k \in 1..MAX_G : added[k] = IF k <= 2 THEN {0} ELSE {}
      /\ \A k \in 1..MAX_G : \/ k = 1 /\ groups[k] = Group("root", 1)
                             \/ k = 2 /\ groups[k] = Group("wheel", 1)
                             \/ k = 3 /\ groups[k] = Group("users", 0)
                             \/ k > 3 /\ groups[k] = Group(NoName, 0)
  BY OsAssumption DEF FreshTables, FreshGroups, FreshAdded
<1>4. /\ groups \in [1..MAX_G -> GroupRec]
      /\ \A k \in 1..MAX_G : \A j \in Places : groups[k].mem[j] = 0
  BY <1>3, FreshGroup
<1>5. added \in [1..MAX_G -> SUBSET Nat]
  BY <1>3
<1>6. ASSUME NEW g \in 1..3 PROVE groups[g].name # NoName /\ Exact(groups[g], added[g])
  <2>1. g \in 1..MAX_G
    BY OsAssumption
  <2>2. /\ Group("root", 1).name # NoName /\ Exact(Group("root", 1), {0})
        /\ Group("wheel", 1).name # NoName /\ Exact(Group("wheel", 1), {0})
        /\ Group("users", 0).name # NoName /\ Exact(Group("users", 0), {})
    <3>1. "root" # NoName /\ "wheel" # NoName /\ "users" # NoName
      BY DEF NoName
    <3>2. 0 <= MAX_U /\ 1 <= MAX_U
      BY OsAssumption
    <3>3. QED
      BY <3>1, <3>2, FreshGroup DEF Exact
  <2>3. CASE g = 1
    <3>1. groups[g] = Group("root", 1) /\ added[g] = {0}
      BY <1>3, <2>1, <2>3
    <3>2. QED
      BY <2>2, <3>1
  <2>4. CASE g = 2
    <3>1. groups[g] = Group("wheel", 1) /\ added[g] = {0}
      BY <1>3, <2>1, <2>4
    <3>2. QED
      BY <2>2, <3>1
  <2>5. CASE g = 3
    <3>1. groups[g] = Group("users", 0) /\ added[g] = {}
      BY <1>3, <2>1, <2>5
    <3>2. QED
      BY <2>2, <3>1
  <2>6. QED
    BY <2>3, <2>4, <2>5
<1>7. ng = 3 /\ ng \in 3..MAX_G /\ over \in 1..(MAX_G + 1)
  BY OsAssumption DEF FreshTables
<1>8. WordsUnder(Len(users))
  BY <1>2, <1>4 DEF WordsUnder
<1>9. QED
  BY <1>2, <1>4, <1>5, <1>6, <1>7, <1>8, OsAssumption DEF UsersInv, Reached

(* Before the first boot the tables of users and groups satisfy their invariant. *)
LEMMA UsersInit ==
  ASSUME Init
  PROVE  UsersInv
BY FreshTablesGood DEF Init, FreshTables

(* users_init builds tables that satisfy the invariant. *)
LEMMA UsersBoot ==
  ASSUME kernel_main
  PROVE  UsersInv'
<1>1. FreshTables'
  BY DEF kernel_main, users_init, FreshTables
<1>2. QED
  BY <1>1, FreshTablesGood, PTL

(* adduser: nu is the index of the new user, and counts one more. *)
LEMMA AddUserKeeps ==
  ASSUME UsersInv, NEW u \in UserNames, cmd_adduser(u)
  PROVE  UsersInv'
<1> DEFINE n == Len(users)
           in == {k \in gfind("users") : groups[k].nm < MAX_U}
<1>1. /\ users \in Seq(UserRec) /\ n \in 1..MAX_U
      /\ groups \in [1..MAX_G -> GroupRec] /\ ng \in 3..MAX_G
      /\ added \in [1..MAX_G -> SUBSET Nat] /\ over \in 1..(MAX_G + 1)
      /\ WordsUnder(n)
      /\ \A g \in 1..ng : Reached(g)
  BY DEF UsersInv
<1>2. /\ n < MAX_U /\ users' = Append(users, User(u)) /\ UNCHANGED <<ng, over>>
      /\ groups' = [k \in 1..MAX_G |->
                      IF k \in in THEN AddMember(groups[k], n) ELSE groups[k]]
      /\ added' = [k \in 1..MAX_G |-> IF k \in in THEN added[k] \cup {n} ELSE added[k]]
  BY DEF cmd_adduser
<1>3. User(u) \in UserRec
  <2>1. \A b \in BOOLEAN : [name |-> u, active |-> b] \in UserRec
    BY DEF UserRec
  <2>2. QED
    BY <2>1, Zenon DEF User
<1>4. users' \in Seq(UserRec) /\ Len(users') = n + 1 /\ n \in Nat
  <2> HIDE DEF User
  <2>1. QED
    BY <1>1, <1>2, <1>3
<1> HIDE DEF n, in
<1>5. ASSUME NEW k \in 1..MAX_G
      PROVE  /\ groups'[k] \in GroupRec /\ added'[k] \in SUBSET Nat
             /\ \A j \in Places : groups'[k].mem[j] < n + 1
             /\ groups'[k].name = groups[k].name
             /\ Exact(groups[k], added[k]) => Exact(groups'[k], added'[k])
  <2>1. /\ groups[k] \in GroupRec /\ added[k] \in SUBSET Nat /\ groups[k].nm \in Nat
        /\ \A j \in Places : groups[k].mem[j] \in Nat /\ groups[k].mem[j] < n
    BY <1>1 DEF WordsUnder, GroupRec, Places
  <2>2. CASE k \in in
    <3>1. groups'[k] = AddMember(groups[k], n) /\ added'[k] = added[k] \cup {n}
      BY <1>2, <2>2
    <3>2. groups[k].nm < MAX_U
      BY <2>2 DEF in
    <3>3. /\ groups'[k] \in GroupRec /\ groups'[k].name = groups[k].name
          /\ groups'[k].nm = groups[k].nm + 1
          /\ \A j \in Places : groups'[k].mem[j] \in {groups[k].mem[j], n}
          /\ Members(groups'[k]) = Members(groups[k]) \cup {n}
      BY <1>4, <2>1, <3>1, <3>2, AddMemberRec
    <3>4. \A j \in Places : groups'[k].mem[j] < n + 1
      BY <1>4, <2>1, <3>3
    <3>5. groups'[k].nm <= MAX_U
      BY <2>1, <3>2, <3>3, OsAssumption
    <3>6. added'[k] \in SUBSET Nat
      BY <1>4, <2>1, <3>1
    <3>7. QED
      BY <3>1, <3>3, <3>4, <3>5, <3>6 DEF Exact
  <2>3. CASE k \notin in
    BY <1>2, <1>4, <2>1, <2>3
  <2>4. QED
    BY <2>2, <2>3
<1>6. groups' \in [1..MAX_G -> GroupRec] /\ added' \in [1..MAX_G -> SUBSET Nat]
  BY <1>2, <1>5
<1>7. WordsUnder(Len(users))'
  BY <1>4, <1>5 DEF WordsUnder
<1>8. \A g \in 1..ng' : Reached(g)'
  <2>1. SUFFICES ASSUME NEW g \in 1..ng PROVE Reached(g)'
    BY <1>2
  <2>2. g \in 1..MAX_G /\ Reached(g)
    BY <1>1, OsAssumption
  <2>3. groups'[g].name = groups[g].name
        /\ (Exact(groups[g], added[g]) => Exact(groups'[g], added'[g]))
    BY <1>5, <2>2
  <2>4. QED
    BY <1>2, <2>2, <2>3 DEF Reached
<1>9. n + 1 \in 1..MAX_U
  BY <1>1, <1>2, <1>4, OsAssumption
<1>10. QED
  BY <1>1, <1>2, <1>4, <1>6, <1>7, <1>8, <1>9 DEF UsersInv

(* deluser only clears the active flag, so the indices kept as members stay good. *)
LEMMA DelUserKeeps ==
  ASSUME UsersInv, NEW u \in UserNames, cmd_deluser(u)
  PROVE  UsersInv'
<1>1. users \in Seq(UserRec) /\ UNCHANGED <<groups, ng, added, over>>
  BY DEF UsersInv, cmd_deluser
<1>2. PICK k \in ufind(u) : users' = [users EXCEPT ![k].active = FALSE]
  BY DEF cmd_deluser
<1>3. k \in DOMAIN users
  BY DEF ufind
<1>4. [users[k] EXCEPT !.active = FALSE] \in UserRec
  <2>1. users[k] \in UserRec
    BY <1>1, <1>3
  <2>2. QED
    BY <2>1 DEF UserRec
<1>5. users' \in Seq(UserRec) /\ Len(users') = Len(users)
  BY <1>1, <1>2, <1>3, <1>4
<1>6. QED
  BY <1>1, <1>5 DEF UsersInv, WordsUnder, Reached

(* usermod: with room a member is added.  Without, this group and the ones *)
(* after it are no longer vouched for, and only words of these are written. *)
LEMMA UserModKeeps ==
  ASSUME UsersInv, NEW g \in GroupNames, NEW u \in UserNames \cup {"root"},
         cmd_usermod(g, u)
  PROVE  UsersInv'
<1> DEFINE n == Len(users)
<1>1. /\ users \in Seq(UserRec) /\ n \in 1..MAX_U /\ users' = users /\ ng' = ng
      /\ groups \in [1..MAX_G -> GroupRec] /\ ng \in 3..MAX_G
      /\ added \in [1..MAX_G -> SUBSET Nat] /\ over \in 1..(MAX_G + 1)
      /\ WordsUnder(n)
      /\ \A q \in 1..ng : Reached(q)
  BY DEF UsersInv, cmd_usermod
<1>2. PICK uj \in ufind(u), k \in gfind(g) :
       /\ MemberWritten(k, uj - 1)
       /\ added' = [added EXCEPT ![k] = @ \cup {uj - 1}]
       /\ over' = IF groups[k].nm >= MAX_U /\ k < over THEN k ELSE over
  BY DEF cmd_usermod
<1>3. uj \in 1..n /\ k \in 1..ng /\ k \in 1..MAX_G
  BY <1>1, OsAssumption DEF ufind, gfind
<1>4. PICK ui \in Nat : ui = uj - 1 /\ ui < n
  BY <1>1, <1>3
<1>5. groups[k] \in GroupRec /\ groups[k].nm \in Nat /\ MAX_U \in Nat /\ MAX_G \in Nat
  BY <1>1, <1>3, OsAssumption DEF GroupRec
<1>6. /\ added' \in [1..MAX_G -> SUBSET Nat] /\ over' \in 1..(MAX_G + 1)
      /\ added'[k] = added[k] \cup {ui}
      /\ \A q \in 1..MAX_G : q # k => added'[q] = added[q]
  BY <1>1, <1>2, <1>3, <1>4, <1>5
<1> HIDE DEF n
<1>7. SUFFICES /\ groups' \in [1..MAX_G -> GroupRec]
               /\ \A q \in 1..MAX_G : \A j \in Places : groups'[q].mem[j] < n
               /\ \A q \in 1..ng : Reached(q)'
  BY <1>1, <1>6 DEF UsersInv, WordsUnder, n
<1>8. \A q \in 1..MAX_G : /\ groups[q] \in GroupRec
                          /\ \A j \in Places : groups[q].mem[j] < n
  BY <1>1 DEF WordsUnder
<1>9. MemberWritten(k, ui)
  BY <1>2, <1>4
<1>10. CASE groups[k].nm < MAX_U
  <2>1. groups' = [groups EXCEPT ![k] = AddMember(@, ui)] /\ over' = over
    BY <1>2, <1>5, <1>9, <1>10 DEF MemberWritten
  <2>2. /\ AddMember(groups[k], ui) \in GroupRec
        /\ AddMember(groups[k], ui).name = groups[k].name
        /\ AddMember(groups[k], ui).nm = groups[k].nm + 1
        /\ \A j \in Places : AddMember(groups[k], ui).mem[j] \in {groups[k].mem[j], ui}
        /\ Members(AddMember(groups[k], ui)) = Members(groups[k]) \cup {ui}
    BY <1>5, <1>10, AddMemberRec
  <2>3. /\ groups' \in [1..MAX_G -> GroupRec] /\ groups'[k] = AddMember(groups[k], ui)
        /\ \A q \in 1..MAX_G : q # k => groups'[q] = groups[q]
    BY <1>1, <1>3, <2>1, <2>2
  <2>4. \A q \in 1..MAX_G : \A j \in Places : groups'[q].mem[j] < n
    BY <1>3, <1>4, <1>8, <2>2, <2>3
  <2>5. Exact(groups[k], added[k]) => Exact(groups'[k], added'[k])
    BY <1>5, <1>6, <1>10, <2>2, <2>3 DEF Exact
  <2>6. ASSUME NEW q \in 1..ng PROVE Reached(q)'
    <3>1. Reached(q) /\ q \in 1..MAX_G
      BY <1>1, OsAssumption
    <3>2. CASE q = k
      BY <2>1, <2>2, <2>3, <2>5, <3>1, <3>2 DEF Reached
    <3>3. CASE q # k
      BY <1>6, <2>1, <2>3, <3>1, <3>3 DEF Reached
    <3>4. QED
      BY <3>2, <3>3
  <2>7. QED
    BY <2>3, <2>4, <2>6
<1>11. ASSUME ~(groups[k].nm < MAX_U), groups' \in [1..MAX_G -> GroupRec],
              \A q \in 1..MAX_G : q < k => groups'[q] = groups[q],
              groups'[k].name = groups[k].name
       PROVE  \A q \in 1..ng : Reached(q)'
  <2>1. over' <= k /\ over' <= over
    BY <1>1, <1>2, <1>3, <1>5, <1>11
  <2>2. ASSUME NEW q \in 1..ng PROVE Reached(q)'
    <3>1. Reached(q) /\ q \in 1..MAX_G
      BY <1>1, OsAssumption
    <3>2. CASE q < k
      BY <1>1, <1>3, <1>6, <1>11, <2>1, <3>1, <3>2 DEF Reached
    <3>3. CASE q = k
      BY <1>1, <1>3, <1>6, <1>11, <2>1, <3>1, <3>3 DEF Reached
    <3>4. CASE q > k
      BY <1>1, <1>3, <1>6, <2>1, <3>1, <3>4 DEF Reached
    <3>5. QED
      BY <1>3, <3>2, <3>3, <3>4
  <2>3. QED
    BY <2>2
<1>12. CASE groups[k].nm = MAX_U
  <2>1. PICK c \in {ui, MAX_U + 1} : groups' = [groups EXCEPT ![k].nm = c]
    BY <1>5, <1>9, <1>12 DEF MemberWritten
  <2>2. c \in Nat
    BY <1>5
  <2> DEFINE h == [groups[k] EXCEPT !.nm = c]
  <2>3. h \in GroupRec /\ h.mem = groups[k].mem /\ h.name = groups[k].name
    BY <1>5, <2>2 DEF GroupRec
  <2>4. groups' = [groups EXCEPT ![k] = h]
    BY <2>1
  <2> HIDE DEF h
  <2>5. /\ groups' \in [1..MAX_G -> GroupRec] /\ groups'[k] = h
        /\ \A q \in 1..MAX_G : q # k => groups'[q] = groups[q]
    BY <1>1, <1>3, <2>3, <2>4
  <2>6. \A q \in 1..MAX_G : \A j \in Places : groups'[q].mem[j] < n
    BY <1>3, <1>8, <2>3, <2>5
  <2>7. QED
    BY <1>3, <1>5, <1>11, <1>12, <2>3, <2>5, <2>6
<1>13. CASE groups[k].nm > MAX_U
  <2> DEFINE past == groups[k].nm - MAX_U - 1
             d == past \div GROUP_WORDS
             o == past % GROUP_WORDS
             h == k + 1 + d
             m == groups[k].nm + 1
             f == [groups[k] EXCEPT !.nm = m]
  <2>1. past \in Nat /\ GROUP_WORDS \in Nat \ {0}
    BY <1>5, <1>13, OsAssumption DEF GROUP_WORDS
  <2>2. d \in Nat /\ o \in Nat /\ o < GROUP_WORDS
    <3> HIDE DEF past
    <3>1. QED
      BY <2>1, DivMod
  <2>3. h <= MAX_G /\ groups' = [groups EXCEPT ![k].nm = @ + 1, ![h] = Hit(@, o, ui)]
    BY <1>5, <1>9, <1>13 DEF MemberWritten
  <2> HIDE DEF d, o, past
  <2>4. h \in 1..MAX_G /\ h > k
    BY <1>3, <1>5, <2>2, <2>3
  <2> HIDE DEF h
  <2>5. f \in GroupRec /\ f.mem = groups[k].mem /\ f.name = groups[k].name
    BY <1>5 DEF GroupRec
  <2>6. groups' = [groups EXCEPT ![k] = f, ![h] = Hit(@, o, ui)]
    BY <2>3
  <2> HIDE DEF f
  <2>7. /\ Hit(groups[h], o, ui) \in GroupRec
        /\ \A j \in Places : Hit(groups[h], o, ui).mem[j] \in {groups[h].mem[j], ui}
    BY <1>8, <2>2, <2>4, HitRec
  <2>8. h # k
    BY <1>3, <2>4
  <2>9. /\ groups' \in [1..MAX_G -> GroupRec]
        /\ groups'[k] = f /\ groups'[h] = Hit(groups[h], o, ui)
        /\ \A q \in 1..MAX_G : q # k /\ q # h => groups'[q] = groups[q]
    BY <1>1, <1>3, <2>4, <2>5, <2>6, <2>7, <2>8
  <2>10. \A q \in 1..MAX_G : \A j \in Places : groups'[q].mem[j] < n
    BY <1>3, <1>4, <1>8, <2>4, <2>5, <2>7, <2>9
  <2>11. \A q \in 1..MAX_G : q < k => q # k /\ q # h
    BY <1>3, <2>4
  <2>12. QED
    BY <1>5, <1>11, <1>13, <2>5, <2>9, <2>10, <2>11
<1>14. QED
  BY <1>5, <1>10, <1>12, <1>13

(* groupadd takes the next record and writes its name and its count. *)
LEMMA GroupAddKeeps ==
  ASSUME UsersInv, NEW g \in GroupNames, cmd_groupadd(g)
  PROVE  UsersInv'
<1> DEFINE k == ng + 1
           h == [groups[k] EXCEPT !.name = g, !.nm = 0]
<1>1. /\ users' = users /\ over' = over /\ ng' = k /\ k \in 3..MAX_G /\ k \in 1..MAX_G
      /\ ng \in 3..MAX_G /\ MAX_G \in Nat
      /\ groups \in [1..MAX_G -> GroupRec] /\ groups' = [groups EXCEPT ![k] = h]
      /\ added \in [1..MAX_G -> SUBSET Nat] /\ added' = [added EXCEPT ![k] = {}]
      /\ g # NoName /\ MAX_U \in Nat
  BY OsAssumption DEF UsersInv, cmd_groupadd
<1>2. groups[k] \in GroupRec
  BY <1>1
<1>3. h \in GroupRec /\ h.mem = groups[k].mem /\ h.name = g /\ h.nm = 0
  BY <1>2 DEF GroupRec
<1> HIDE DEF h
<1>4. /\ groups' \in [1..MAX_G -> GroupRec] /\ groups'[k] = h
      /\ added' \in [1..MAX_G -> SUBSET Nat] /\ added'[k] = {}
      /\ \A q \in 1..MAX_G : q # k => groups'[q] = groups[q] /\ added'[q] = added[q]
  BY <1>1, <1>3
<1>5. Members(h) = {}
  <2>1. \A j \in Places : ~(j < 0)
    BY DEF Places
  <2>2. QED
    BY <1>3, <2>1 DEF Members, Places
<1>6. ASSUME NEW q \in 1..ng' PROVE Reached(q)'
  <2>1. CASE q = k
    BY <1>1, <1>3, <1>4, <1>5, <2>1 DEF Reached, Exact
  <2>2. CASE q # k
    <3>1. q \in 1..ng /\ q \in 1..MAX_G
      BY <1>1, <2>2
    <3>2. QED
      BY <1>1, <1>4, <2>2, <3>1 DEF UsersInv, Reached
  <2>3. QED
    BY <2>1, <2>2
<1>7. WordsUnder(Len(users))'
  BY <1>1, <1>3, <1>4 DEF UsersInv, WordsUnder
<1>8. QED
  BY <1>1, <1>4, <1>6, <1>7 DEF UsersInv

(* One step of the kernel keeps the invariant of users and groups. *)
LEMMA UsersNext ==
  ASSUME UsersInv, [Next]_vars
  PROVE  UsersInv'
<1>1. ASSUME UNCHANGED userVars PROVE UsersInv'
  BY <1>1 DEF userVars, UsersInv, WordsUnder, Reached
<1>2. CASE UserCommand
  BY <1>1, <1>2, AddUserKeeps, DelUserKeeps, UserModKeeps, GroupAddKeeps
     DEF UserCommand, cmd_su
<1>3. CASE CfgCommand
  BY <1>1, <1>3, UsersBoot DEF CfgCommand, cmd_menuconfig, menuconfig_faults, reboot
<1>4. CASE RpkCommand
  BY <1>1, <1>4 DEF RpkCommand, rpk_install, rpk_remove
<1>5. CASE reboot \/ power_cycle
  BY <1>5, UsersBoot DEF reboot, power_cycle
<1>6. CASE FsCommand \/ halt \/ (\E text \in NetLogs : net_command(text)) \/ rtldebug
           \/ UNCHANGED vars
  BY <1>1, <1>6 DEF FsCommand, halt, net_command, rtldebug, vars
<1>7. QED
  BY <1>2, <1>3, <1>4, <1>5, <1>6 DEF Next, Command

(* The groups command shows of a group exactly the users whom adduser and   *)
(* usermod added to it, while no usermod has written past the end of this   *)
(* group or of one before it; and what such a write leaves in an array is   *)
(* the index of a user all the same.                                        *)
THEOREM GroupsCorrect == Spec => []GroupsTrue
<1>1. Init => UsersInv
  BY UsersInit
<1>2. UsersInv /\ [Next]_vars => UsersInv'
  BY UsersNext
<1>3. UsersInv => GroupsTrue
  BY UsersTrue
<1>4. QED
  BY <1>1, <1>2, <1>3, PTL DEF Spec
-----------------------------------------------------------------------------
(* Packages. *)

RpkInv == cmds \in Seq(Pkgs) /\ installed \subseteq Pkgs /\ CmdsAreInstalled

(* A list without repetitions is as long as the set of its entries. *)
LEMMA ListLength ==
  ASSUME NEW T, NEW s \in Seq(T), IsInjective(s)
  PROVE  Cardinality(ToSet(s)) = Len(s)
<1>1. Len(s) \in Nat /\ DOMAIN s = 1..Len(s)
  OBVIOUS
<1>2. s \in [1..Len(s) -> ToSet(s)]
  BY <1>1 DEF ToSet
<1>3. \A x \in ToSet(s) : \E k \in 1..Len(s) : s[k] = x
  BY <1>1 DEF ToSet
<1>4. s \in Bijection(1..Len(s), ToSet(s))
  BY <1>2, <1>3 DEF Bijection, Injection, Surjection
<1>5. ExistsBijection(1..Len(s), ToSet(s))
  BY <1>4 DEF ExistsBijection
<1>6. QED
  BY <1>1, <1>5, FS_CountingElements

(* An entry taken out of a list without repetitions is gone from it. *)
LEMMA RemoveAtSet ==
  ASSUME NEW T, NEW s \in Seq(T), IsInjective(s), NEW i \in DOMAIN s
  PROVE  /\ RemoveAt(s, i) \in Seq(T)
         /\ ToSet(RemoveAt(s, i)) = ToSet(s) \ {s[i]}
         /\ IsInjective(RemoveAt(s, i))
<1> DEFINE t == RemoveAt(s, i)
           Old(j) == IF j < i THEN j ELSE j + 1
<1>1. Len(s) \in Nat /\ DOMAIN s = 1..Len(s) /\ i \in 1..Len(s)
  OBVIOUS
<1>2. /\ t \in Seq(T) /\ Len(t) = Len(s) - 1 /\ DOMAIN t = 1..(Len(s) - 1)
      /\ \A j \in 1..(Len(s) - 1) : t[j] = s[Old(j)]
  <2> DEFINE a == SubSeq(s, 1, i - 1)
             b == SubSeq(s, i + 1, Len(s))
  <2>1. /\ a \in Seq(T) /\ Len(a) = i - 1
        /\ \A j \in 1..(i - 1) : a[j] = s[j]
    BY <1>1
  <2>2. /\ b \in Seq(T) /\ Len(b) = Len(s) - i
        /\ \A j \in 1..(Len(s) - i) : b[j] = s[j + i]
    BY <1>1
  <2>3. t = a \o b
    BY DEF RemoveAt
  <2> HIDE DEF a, b, t
  <2>4. t \in Seq(T) /\ Len(t) = Len(s) - 1
    <3>1. t \in Seq(T) /\ Len(t) = Len(a) + Len(b)
      BY <2>1, <2>2, <2>3, ConcatProperties
    <3>2. QED
      BY <1>1, <2>1, <2>2, <3>1
  <2>5. ASSUME NEW j \in 1..(Len(s) - 1) PROVE t[j] = s[Old(j)]
    <3>1. CASE j < i
      BY <1>1, <2>1, <2>2, <2>3, <3>1
    <3>2. CASE ~(j < i)
      <4>1. t[j] = b[j - (i - 1)]
        BY <1>1, <2>1, <2>2, <2>3, <3>2
      <4>2. j - (i - 1) \in 1..(Len(s) - i) /\ (j - (i - 1)) + i = j + 1
        BY <1>1, <3>2
      <4>3. QED
        BY <2>2, <3>2, <4>1, <4>2
    <3>3. QED
      BY <3>1, <3>2
  <2>6. QED
    BY <2>4, <2>5
<1> HIDE DEF t
<1>3. ToSet(t) \subseteq ToSet(s) \ {s[i]}
  <2>1. SUFFICES ASSUME NEW j \in DOMAIN t PROVE t[j] \in ToSet(s) \ {s[i]}
    BY DEF ToSet
  <2>2. Old(j) \in DOMAIN s /\ Old(j) # i
    BY <1>1, <1>2
  <2>3. QED
    BY <1>2, <2>2 DEF ToSet, IsInjective
<1>4. ToSet(s) \ {s[i]} \subseteq ToSet(t)
  <2>1. SUFFICES ASSUME NEW k \in DOMAIN s, k # i PROVE s[k] \in ToSet(t)
    BY DEF ToSet
  <2>2. \E j \in DOMAIN t : Old(j) = k
    <3>1. CASE k < i
      BY <1>1, <1>2, <3>1
    <3>2. CASE k > i
      <4>1. k - 1 \in DOMAIN t /\ Old(k - 1) = k
        BY <1>1, <1>2, <3>2
      <4>2. QED
        BY <4>1
    <3>3. QED
      BY <1>1, <2>1, <3>1, <3>2
  <2>3. QED
    BY <1>2, <2>2 DEF ToSet
<1>5. IsInjective(t)
  <2>1. SUFFICES ASSUME NEW j \in DOMAIN t, NEW k \in DOMAIN t, t[j] = t[k] PROVE j = k
    BY DEF IsInjective
  <2>2. Old(j) \in DOMAIN s /\ Old(k) \in DOMAIN s /\ s[Old(j)] = s[Old(k)]
    BY <1>1, <1>2, <2>1
  <2>3. Old(j) = Old(k)
    BY <2>2 DEF IsInjective
  <2>4. QED
    BY <1>2, <2>3
<1>6. QED
  BY <1>2, <1>3, <1>4, <1>5 DEF t

(* There is always room for one more command. *)
LEMMA RpkRoom ==
  ASSUME RpkInv, NEW k \in Pkgs, k \notin installed
  PROVE  Len(cmds) < RPK_INSTALLED_CMDS
<1>1. /\ cmds \in Seq(Pkgs) /\ ToSet(cmds) = installed /\ IsInjective(cmds)
      /\ installed \in SUBSET Pkgs /\ installed # Pkgs
  BY DEF RpkInv, CmdsAreInstalled
<1>2. Cardinality(installed) = Len(cmds)
  BY <1>1, ListLength
<1>3. IsFiniteSet(Pkgs) /\ Cardinality(Pkgs) <= RPK_INSTALLED_CMDS /\ RPK_INSTALLED_CMDS \in Nat
  BY OsAssumption
<1>4. Cardinality(installed) <= Cardinality(Pkgs) /\ Cardinality(installed) # Cardinality(Pkgs)
  BY <1>1, <1>3, FS_Subset
<1>5. Cardinality(Pkgs) \in Nat /\ Len(cmds) \in Nat
  BY <1>1, <1>3, FS_CardinalityType
<1>6. QED
  BY <1>2, <1>3, <1>4, <1>5

(* rpk install keeps flags and list of commands in agreement. *)
LEMMA InstallKeeps ==
  ASSUME RpkInv, NEW k \in Pkgs, rpk_install(k)
  PROVE  RpkInv'
<1>1. k \notin installed /\ installed' = installed \cup {k}
  BY DEF rpk_install
<1>2. cmds' = Append(cmds, k)
  BY <1>1, RpkRoom DEF rpk_install
<1>3. /\ cmds \in Seq(Pkgs) /\ installed \subseteq Pkgs
      /\ ToSet(cmds) = installed /\ IsInjective(cmds)
  BY DEF RpkInv, CmdsAreInstalled
<1>4. ToSet(cmds') = installed' /\ IsInjective(cmds') /\ cmds' \in Seq(Pkgs)
  BY <1>1, <1>2, <1>3, AppendSet
<1>5. QED
  BY <1>1, <1>3, <1>4 DEF RpkInv, CmdsAreInstalled

(* rpk remove keeps flags and list of commands in agreement. *)
LEMMA RemoveKeeps ==
  ASSUME RpkInv, NEW k \in Pkgs, rpk_remove(k)
  PROVE  RpkInv'
<1> DEFINE at == {j \in DOMAIN cmds : cmds[j] = k}
           i == CHOOSE j \in at : \A h \in at : j <= h
<1>1. /\ cmds \in Seq(Pkgs) /\ installed \subseteq Pkgs
      /\ ToSet(cmds) = installed /\ IsInjective(cmds)
  BY DEF RpkInv, CmdsAreInstalled
<1>2. k \in installed /\ installed' = installed \ {k}
  BY DEF rpk_remove
<1>3. at # {} /\ at \subseteq Nat
  BY <1>1, <1>2 DEF ToSet
<1>4. i \in at
  BY <1>3, LeastNatural
<1>5. cmds' = RemoveAt(cmds, i)
  BY <1>3 DEF rpk_remove
<1>6. i \in DOMAIN cmds /\ cmds[i] = k
  BY <1>4
<1> HIDE DEF i
<1>7. ToSet(cmds') = installed' /\ IsInjective(cmds') /\ cmds' \in Seq(Pkgs)
  BY <1>1, <1>2, <1>5, <1>6, RemoveAtSet
<1>8. QED
  BY <1>1, <1>2, <1>7 DEF RpkInv, CmdsAreInstalled

(* Before the first boot no package is installed and no command listed. *)
LEMMA RpkInit ==
  ASSUME Init
  PROVE  RpkInv
BY DEF Init, RpkInv, CmdsAreInstalled, ToSet, IsInjective

(* One step of the kernel keeps the invariant of rpk. *)
LEMMA RpkNext ==
  ASSUME RpkInv, [Next]_vars
  PROVE  RpkInv'
<1>1. ASSUME UNCHANGED rpkVars PROVE RpkInv'
  BY <1>1 DEF rpkVars, RpkInv, CmdsAreInstalled
<1>2. ASSUME kernel_main PROVE RpkInv'
  BY <1>2 DEF kernel_main, RpkInv, CmdsAreInstalled, ToSet, IsInjective
<1>3. CASE RpkCommand
  BY <1>3, InstallKeeps, RemoveKeeps DEF RpkCommand
<1>4. CASE UserCommand
  BY <1>1, <1>4 DEF UserCommand, cmd_adduser, cmd_deluser, cmd_su, cmd_usermod, cmd_groupadd
<1>5. CASE CfgCommand
  BY <1>1, <1>2, <1>5 DEF CfgCommand, cmd_menuconfig, menuconfig_faults, reboot
<1>6. CASE reboot \/ power_cycle
  BY <1>2, <1>6 DEF reboot, power_cycle
<1>7. CASE FsCommand \/ halt \/ (\E text \in NetLogs : net_command(text)) \/ rtldebug
           \/ UNCHANGED vars
  BY <1>1, <1>7 DEF FsCommand, halt, net_command, rtldebug, vars
<1>8. QED
  BY <1>3, <1>4, <1>5, <1>6, <1>7 DEF Next, Command

(* What rpk lists as a command is what it shows as installed, each once:   *)
(* rpk_installed_cmds has a place for every package of rpk_db, so no       *)
(* install is dropped for want of room, and a removal closes the gap.      *)
THEOREM CommandsCorrect == Spec => []CmdsAreInstalled
<1>1. Init => RpkInv
  BY RpkInit
<1>2. RpkInv /\ [Next]_vars => RpkInv'
  BY RpkNext
<1>3. RpkInv => CmdsAreInstalled
  BY DEF RpkInv
<1>4. QED
  BY <1>1, <1>2, <1>3, PTL DEF Spec
-----------------------------------------------------------------------------
(* The three flags stay Boolean. *)
Flags == halted \in BOOLEAN /\ mcfg \in BOOLEAN /\ cfg \in BOOLEAN

(* One step of the kernel keeps the types of the remaining variables. *)
LEMMA FlagsNext ==
  ASSUME Flags, [Next]_vars
  PROVE  Flags'
<1>1. ASSUME UNCHANGED <<halted, mcfg, cfg>> PROVE Flags'
  BY <1>1 DEF Flags
<1>2. ASSUME kernel_main PROVE Flags'
  <2>1. rt_cfg(NoFiles) \in BOOLEAN
    BY DEF rt_cfg
  <2>2. halted' = FALSE /\ mcfg' = TRUE /\ cfg' = rt_cfg(NoFiles)
    BY <1>2, Zenon DEF kernel_main
  <2>3. QED
    BY <2>1, <2>2, Zenon DEF Flags
<1>3. ASSUME halted' = TRUE, UNCHANGED cfgVars PROVE Flags'
  BY <1>3, Zenon DEF Flags, cfgVars
<1>4. CASE FsCommand
  <2>1. UNCHANGED cfgVars
    BY <1>4 DEF FsCommand
  <2>2. UNCHANGED halted \/ halted' = TRUE
    BY <1>4, Zenon DEF FsCommand, fs_touch, cmd_mkdir, cmd_rmdir, editor_save, fs_rm, fs_cd,
       FilesOnly, rm_panics, rm_memfile, rm_vnode
  <2>3. QED
    BY <1>1, <1>3, <2>1, <2>2 DEF cfgVars
<1>5. CASE halt
  BY <1>3, <1>5, Zenon DEF halt
<1>6. CASE CfgCommand
  <2>1. ASSUME NEW v \in BOOLEAN, NEW save \in BOOLEAN, cmd_menuconfig(v, save) PROVE Flags'
    <3>1. mcfg' = v /\ halted' = halted /\ cfg' = cfg
      BY <2>1, Zenon DEF cmd_menuconfig
    <3>2. QED
      BY <3>1, Zenon DEF Flags
  <2>2. QED
    BY <1>2, <1>6, <2>1 DEF CfgCommand, menuconfig_faults, reboot
<1>7. CASE UserCommand
  BY <1>1, <1>7 DEF UserCommand, cmd_adduser, cmd_deluser, cmd_su, cmd_usermod,
     cmd_groupadd, cfgVars
<1>8. CASE RpkCommand
  BY <1>1, <1>8 DEF RpkCommand, rpk_install, rpk_remove, cfgVars
<1>9. CASE reboot \/ power_cycle
  BY <1>2, <1>9 DEF reboot, power_cycle
<1>10. CASE (\E text \in NetLogs : net_command(text)) \/ rtldebug \/ UNCHANGED vars
  BY <1>1, <1>10 DEF net_command, rtldebug, vars, cfgVars
<1>11. QED
  BY <1>4, <1>5, <1>6, <1>7, <1>8, <1>9, <1>10 DEF Next, Command

(* The whole machine. *)
OsInv == FsInv /\ UsersInv /\ RpkInv /\ Flags

(* The initial states satisfy the invariant of the kernel. *)
LEMMA OsInit ==
  ASSUME Init
  PROVE  OsInv
<1>1. Flags
  BY Zenon DEF Init, Flags
<1>2. QED
  BY <1>1, InitFs, UsersInit, RpkInit DEF OsInv

(* One step of the kernel keeps its invariant. *)
LEMMA OsNext ==
  ASSUME OsInv, [Next]_vars
  PROVE  OsInv'
BY FsNext, UsersNext, RpkNext, FlagsNext DEF OsInv

(* The invariant of the kernel implies TablesSound. *)
LEMMA OsTables ==
  ASSUME OsInv
  PROVE  TablesSound
<1>1. FsInv /\ UsersInv /\ RpkInv /\ Flags
  BY DEF OsInv
<1>2. TypeOK
  BY <1>1 DEF TypeOK, FsInv, Tables, UsersInv, RpkInv, Flags
<1>3. LiveUnique /\ MirrorMatches /\ NoDoubleDelete
  BY <1>1 DEF FsInv, Tables, LiveUnique, MirrorMatches, NoDoubleDelete
<1>4. CriticalKept
  <2>1. SUFFICES ASSUME NEW p \in VFS, is_critical_path(p) PROVE fs_find_vnode(p)
    BY DEF CriticalKept
  <2>2. p \notin ToSet(del_store) /\ p \notin ToSet(deleted)
    BY <1>1, <2>1 DEF FsInv
  <2>3. QED
    BY <2>2 DEF fs_find_vnode, fs_is_deleted
<1>5. QED
  BY <1>2, <1>3, <1>4 DEF TablesSound

(* Through every command, failed command, reboot, fault and loss of power  *)
(* the tables keep to their sizes, a name has at most one live slot, the   *)
(* list of deleted names equals its copy at 0x600000 and repeats nothing,  *)
(* and is_critical_path's files can be found.                              *)
THEOREM TablesCorrect == Spec => []TablesSound
<1>1. Init => OsInv
  BY OsInit
<1>2. OsInv /\ [Next]_vars => OsInv'
  BY OsNext
<1>3. OsInv => TablesSound
  BY OsTables
<1>4. QED
  BY <1>1, <1>2, <1>3, PTL DEF Spec
-----------------------------------------------------------------------------
(* The refinement.  The files of a table m while the names in D are gone,  *)
(* so that the files before and after a step are said in the same terms.   *)

FileOf(r) == File(r.path, r.is_dir, r.content)
Shown(m, D) == {k \in DOMAIN m : m[k].used /\ m[k].path \notin D}
FilesOver(m, D) == {FileOf(m[k]) : k \in Shown(m, D)}

Skeleton == {File(SkelDir, TRUE, DirMark), File(SkelRc, FALSE, RcText),
             File(SkelProfile, FALSE, ProfileText)}

(* The files of the refinement mapping depend on the table and the names that are gone only. *)
LEMMA FilesAre ==
  Files(memfs) = FilesOver(memfs, Gone) /\ Files(memfs)' = FilesOver(memfs', Gone')
<1>1. Files(memfs) = FilesOver(memfs, Gone)
  <2>1. \A p : fs_is_deleted(p) <=> p \in Gone
    BY DEF fs_is_deleted, Gone
  <2>2. {j \in DOMAIN memfs : Live(memfs, j)} = Shown(memfs, Gone)
    BY <2>1 DEF Live, Shown
  <2>3. QED
    BY <2>2 DEF Files, FilesOver, FileOf
<1>2. Files(memfs)' = FilesOver(memfs', Gone')
  <2>1. \A p : fs_is_deleted(p)' <=> p \in Gone'
    BY DEF fs_is_deleted, Gone
  <2>2. {j \in DOMAIN memfs' : Live(memfs, j)'} = Shown(memfs', Gone')
    BY <2>1 DEF Live, Shown
  <2>3. QED
    BY <2>2 DEF Files, FilesOver, FileOf
<1>3. QED
  BY <1>1, <1>2

(* No two files shown have one name. *)
LEMMA ShownOnce ==
  ASSUME NEW m \in Tables, NEW j \in Shown(m, Gone), NEW k \in Shown(m, Gone),
         m[j].path = m[k].path
  PROVE  j = k
<1>1. \A p : fs_is_deleted(p) <=> p \in Gone
  BY DEF fs_is_deleted, Gone
<1>2. Unique(m)
  BY DEF Tables
<1>3. Live(m, j) /\ Live(m, k) /\ j \in DOMAIN m /\ k \in DOMAIN m
  BY <1>1 DEF Shown, Live
<1>4. QED
  BY <1>2, <1>3 DEF Unique

(* The name of a file is its path. *)
LEMMA FileName ==
  ASSUME NEW r
  PROVE  FileOf(r).name = r.path
BY DEF FileOf, File

(* A write changes the files of the names written, and these only; a file  *)
(* that is not there any more has been replaced.                           *)
LEMMA WriteFiles ==
  ASSUME NEW m \in Tables, NEW n, NEW B, Wrote(m, n, B)
  PROVE  LET F == FilesOver(m, Gone)
             G == FilesOver(n, Gone)
         IN  /\ \A g \in G \ F : g.name \in B /\ g.name \notin Gone
             /\ \A f \in F \ G : \E g \in G \ F : g.name = f.name
             /\ \A f, g \in G : f.name = g.name => f = g
<1> DEFINE F == FilesOver(m, Gone)
           G == FilesOver(n, Gone)
<1>1. n \in Tables /\ m \in Seq(MemFile) /\ n \in Seq(MemFile)
  BY DEF Wrote, Tables
<1>2. /\ DOMAIN m = 1..Len(m) /\ DOMAIN n = 1..Len(n) /\ Len(m) \in Nat /\ Len(n) \in Nat
      /\ Len(m) <= Len(n)
  BY <1>1 DEF Wrote
<1>3. ASSUME NEW g \in G \ F PROVE g.name \in B /\ g.name \notin Gone
  <2>1. PICK k \in Shown(n, Gone) : g = FileOf(n[k])
    BY <1>3 DEF FilesOver
  <2>2. k \in DOMAIN n /\ n[k].used /\ n[k].path \notin Gone /\ g.name = n[k].path
    BY <2>1, FileName DEF Shown
  <2>3. CASE k \in DOMAIN m
    <3>1. n[k] # m[k]
      <4>1. SUFFICES ASSUME n[k] = m[k] PROVE FALSE
        OBVIOUS
      <4>2. k \in Shown(m, Gone)
        BY <2>2, <2>3, <4>1 DEF Shown
      <4>3. QED
        BY <1>3, <2>1, <4>1, <4>2 DEF FilesOver
    <3>2. QED
      BY <2>2, <2>3, <3>1 DEF Wrote
  <2>4. CASE k \notin DOMAIN m
    <3>1. k > Len(m)
      BY <1>2, <2>2, <2>4
    <3>2. QED
      BY <2>2, <3>1 DEF Wrote
  <2>5. QED
    BY <2>3, <2>4
<1>4. ASSUME NEW f \in F \ G PROVE \E g \in G \ F : g.name = f.name
  <2>1. PICK k \in Shown(m, Gone) : f = FileOf(m[k])
    BY <1>4 DEF FilesOver
  <2>2. k \in DOMAIN m /\ k \in DOMAIN n /\ m[k].used /\ m[k].path \notin Gone
    BY <1>2, <2>1 DEF Shown
  <2>3. n[k].path = m[k].path /\ n[k].used
    BY <2>2 DEF Wrote
  <2>4. k \in Shown(n, Gone)
    BY <2>2, <2>3 DEF Shown
  <2>5. FileOf(n[k]) \in G
    BY <2>4 DEF FilesOver
  <2>6. FileOf(n[k]) \notin F
    <3>1. SUFFICES ASSUME NEW j \in Shown(m, Gone), FileOf(n[k]) = FileOf(m[j]) PROVE FALSE
      BY DEF FilesOver
    <3>2. m[j].path = m[k].path
      BY <2>3, <3>1, FileName
    <3>3. j = k
      BY <2>1, <3>2, ShownOnce
    <3>4. QED
      BY <1>4, <2>1, <2>5, <3>1, <3>3
  <2>7. FileOf(n[k]).name = f.name
    BY <2>1, <2>3, FileName
  <2>8. QED
    BY <2>5, <2>6, <2>7
<1>5. ASSUME NEW f \in G, NEW g \in G, f.name = g.name PROVE f = g
  <2>1. PICK j \in Shown(n, Gone) : f = FileOf(n[j])
    BY DEF FilesOver
  <2>2. PICK k \in Shown(n, Gone) : g = FileOf(n[k])
    BY DEF FilesOver
  <2>3. n[j].path = n[k].path
    BY <1>5, <2>1, <2>2, FileName
  <2>4. QED
    BY <1>1, <2>1, <2>2, <2>3, ShownOnce
<1>6. QED
  BY <1>3, <1>4, <1>5

(* A command that makes or overwrites a file is a write of FileStore, or none when it stays hidden. *)
LEMMA WriteRefines ==
  ASSUME FsInv, WriteStep
  PROVE  [Store!Next]_<<Files(memfs), Gone>>
<1> DEFINE F == Files(memfs)
           G == Files(memfs)'
<1>1. Gone' = Gone /\ memfs \in Tables
  BY DEF WriteStep, Gone, FsInv
<1>2. PICK B : /\ Wrote(memfs, memfs', B)
               /\ (\E p : B = {p}) \/ (\E u \in UserNames : B = Bundle(u))
  BY DEF WriteStep
<1>3. /\ \A g \in G \ F : g.name \in B /\ g.name \notin Gone
      /\ \A f \in F \ G : \E g \in G \ F : g.name = f.name
      /\ \A f, g \in G : f.name = g.name => f = g
  BY <1>1, <1>2, FilesAre, WriteFiles
<1>4. Store!New = G \ F /\ Store!Old = F \ G
  BY DEF Store!New, Store!Old
<1> HIDE DEF F, G
<1>5. /\ Store!NamesOf(G \ F) \subseteq B
      /\ Store!NamesOf(F \ G) \subseteq Store!NamesOf(G \ F)
      /\ Store!NamesOf(G \ F) \cap Gone = {}
  BY <1>3 DEF Store!NamesOf
<1>6. CASE \E u \in UserNames : B = Bundle(u)
  <2>1. \E C \in {Bundle(u) : u \in UserNames} : Store!NamesOf(Store!New) \subseteq C
    BY <1>4, <1>5, <1>6
  <2>2. Store!Write
    BY <1>1, <1>4, <1>5, <2>1 DEF Store!Write
  <2>3. QED
    BY <2>2 DEF Store!Next
<1>7. CASE \E p : B = {p}
  <2>1. PICK p : B = {p}
    BY <1>7
  <2>2. CASE G \ F = {}
    <3>1. F \ G = {}
      BY <1>3, <2>2
    <3>2. G = F
      BY <2>2, <3>1
    <3>3. QED
      BY <1>1, <3>2 DEF F, G
  <2>3. CASE G \ F # {}
    <3>1. PICK g : g \in G \ F
      BY <2>3
    <3>2. G \ F = {g}
      BY <1>3, <2>1, <3>1
    <3>3. Store!Write
      BY <1>1, <1>4, <1>5, <3>1, <3>2 DEF Store!Write
    <3>4. QED
      BY <3>3 DEF Store!Next
  <2>4. QED
    BY <2>2, <2>3
<1>8. QED
  BY <1>2, <1>6, <1>7

(* A command that clears a live slot is a removal of FileStore. *)
LEMMA ClearRefines ==
  ASSUME FsInv, ClearStep
  PROVE  Store!Next
<1> DEFINE m == memfs
           n == memfs'
           F == FilesOver(m, Gone)
           G == FilesOver(n, Gone)
<1>1. Gone' = Gone /\ m \in Tables
  BY DEF ClearStep, Gone, FsInv
<1>2. PICK k \in DOMAIN m : Cleared(m, n, k)
  BY DEF ClearStep
<1>3. /\ DOMAIN n = DOMAIN m /\ ~n[k].used /\ \A j \in DOMAIN m : j # k => n[j] = m[j]
      /\ n \in Tables /\ Live(m, k)
  BY <1>2 DEF Cleared
<1>4. k \in Shown(m, Gone)
  BY <1>3 DEF Shown, Live, fs_is_deleted, Gone
<1>5. Shown(n, Gone) = Shown(m, Gone) \ {k}
  BY <1>3 DEF Shown
<1>6. \A j \in Shown(n, Gone) : n[j] = m[j] /\ j \in Shown(m, Gone) /\ j # k
  BY <1>3, <1>5 DEF Shown
<1>7. G \ F = {}
  BY <1>6 DEF FilesOver
<1>8. F \ G = {FileOf(m[k])}
  <2>1. FileOf(m[k]) \in F
    BY <1>4 DEF FilesOver
  <2>2. FileOf(m[k]) \notin G
    <3>1. SUFFICES ASSUME NEW j \in Shown(n, Gone), FileOf(m[k]) = FileOf(n[j]) PROVE FALSE
      BY DEF FilesOver
    <3>2. m[k].path = m[j].path
      BY <1>6, <3>1, FileName
    <3>3. j = k
      BY <1>1, <1>4, <1>6, <3>2, ShownOnce
    <3>4. QED
      BY <1>6, <3>3
  <2>3. ASSUME NEW f \in F \ G PROVE f = FileOf(m[k])
    <3>1. PICK j \in Shown(m, Gone) : f = FileOf(m[j])
      BY <2>3 DEF FilesOver
    <3>2. j = k
      <4>1. SUFFICES ASSUME j # k PROVE FALSE
        OBVIOUS
      <4>2. j \in Shown(n, Gone) /\ n[j] = m[j]
        BY <1>5, <1>6, <3>1, <4>1
      <4>3. QED
        BY <2>3, <3>1, <4>2 DEF FilesOver
    <3>3. QED
      BY <3>1, <3>2
  <2>4. QED
    BY <2>1, <2>2, <2>3
<1>9. Files(memfs) = F /\ Files(memfs)' = G
  BY <1>1, FilesAre
<1> HIDE DEF F, G
<1>10. Store!New = {} /\ Store!Old = {FileOf(m[k])}
  BY <1>7, <1>8, <1>9 DEF Store!New, Store!Old
<1>11. QED
  BY <1>1, <1>10 DEF Store!Next, Store!Remove

(* A command that lists a name as deleted is a deletion of FileStore, or none. *)
LEMMA DeleteRefines ==
  ASSUME FsInv, DeleteStep
  PROVE  [Store!Next]_<<Files(memfs), Gone>>
<1>1. PICK p \in VFS : ~InMemfs(p) /\ fs_mark_deleted(p) /\ ~fs_is_deleted(p)
  BY DEF DeleteStep
<1>2. memfs' = memfs /\ memfs \in Seq(MemFile)
  BY DEF DeleteStep, FsInv, Tables
<1>3. CASE UNCHANGED <<deleted, del_store>>
  <2>1. Gone' = Gone
    BY <1>3 DEF Gone
  <2>2. Files(memfs)' = Files(memfs)
    BY <1>2, <2>1, FilesAre
  <2>3. QED
    BY <2>1, <2>2
<1>4. CASE ~UNCHANGED <<deleted, del_store>>
  <2>1. deleted' = del_store' /\ ToSet(del_store') = ToSet(del_store) \cup {p}
    BY <1>1, <1>4, MarkStep
  <2>2. Gone' = Gone \cup {p}
    BY <2>1 DEF Gone, FsInv
  <2>3. Matches(memfs, p) = {}
    <3>1. 0 \notin Matches(memfs, p)
      BY <1>2 DEF Matches
    <3>2. QED
      BY <1>1, <1>2, <3>1, FindSpec DEF InMemfs
  <2>4. \A k \in Shown(memfs, Gone) : memfs[k].path # p
    BY <2>3 DEF Shown, Matches, Live, Gone, fs_is_deleted
  <2>5. Shown(memfs, Gone') = Shown(memfs, Gone)
    BY <2>2, <2>4 DEF Shown
  <2>6. Files(memfs)' = Files(memfs)
    BY <1>2, <2>5, FilesAre DEF FilesOver
  <2>7. p \notin Store!NamesOf(Files(memfs))
    BY <2>4, FilesAre, FileName DEF Store!NamesOf, FilesOver
  <2>8. Store!Delete
    BY <2>2, <2>6, <2>7 DEF Store!Delete
  <2>9. QED
    BY <2>8 DEF Store!Next
<1>5. QED
  BY <1>3, <1>4

(* A fresh machine shows the skeleton, but for the names that are gone. *)
LEMMA SkeletonFiles ==
  ASSUME NEW D
  PROVE  FilesOver(SkelFiles, D) = {f \in Skeleton : f.name \notin D}
<1> DEFINE d == [Slot(SkelDir) EXCEPT !.content = DirMark]
           a == [Slot(SkelRc) EXCEPT !.content = RcText]
           b == [Slot(SkelProfile) EXCEPT !.content = ProfileText]
           x == File(SkelDir, TRUE, DirMark)
           y == File(SkelRc, FALSE, RcText)
           z == File(SkelProfile, FALSE, ProfileText)
<1>1. SkelFiles = <<d, a, b>>
  BY SkelIs
<1>2. d.path = SkelDir /\ a.path = SkelRc /\ b.path = SkelProfile
  BY DEF Slot
<1>3. d.used /\ a.used /\ b.used
  BY DEF Slot
<1>4. FileOf(d) = x /\ FileOf(a) = y /\ FileOf(b) = z
  <2>1. SkelDir.slash = TRUE /\ SkelRc.slash = FALSE /\ SkelProfile.slash = FALSE
    BY SkelNames DEF SkelRc, SkelProfile, Abs
  <2>2. d.content = DirMark /\ a.content = RcText /\ b.content = ProfileText
    BY DEF Slot
  <2>3. d.is_dir = TRUE /\ a.is_dir = FALSE /\ b.is_dir = FALSE
    BY <2>1 DEF Slot
  <2> HIDE DEF d, a, b
  <2>4. QED
    BY <1>2, <2>2, <2>3, Zenon DEF FileOf
<1>5. x.name = SkelDir /\ y.name = SkelRc /\ z.name = SkelProfile
  BY DEF File
<1> DEFINE s == <<d, a, b>>
<1> HIDE DEF d, a, b, x, y, z
<1>6. DOMAIN s = 1..3 /\ s[1] = d /\ s[2] = a /\ s[3] = b
  OBVIOUS
<1> HIDE DEF s
<1>7. /\ 1 \in Shown(s, D) <=> SkelDir \notin D
      /\ 2 \in Shown(s, D) <=> SkelRc \notin D
      /\ 3 \in Shown(s, D) <=> SkelProfile \notin D
      /\ \A k \in Shown(s, D) : k = 1 \/ k = 2 \/ k = 3
  BY <1>2, <1>3, <1>6 DEF Shown
<1>8. FilesOver(s, D) \subseteq {f \in {x, y, z} : f.name \notin D}
  BY <1>4, <1>5, <1>6, <1>7 DEF FilesOver
<1>9. {f \in {x, y, z} : f.name \notin D} \subseteq FilesOver(s, D)
  BY <1>4, <1>5, <1>6, <1>7 DEF FilesOver
<1>10. QED
  BY <1>1, <1>8, <1>9 DEF Skeleton, s, x, y, z

(* Each kind of step of the file system is a step of FileStore or leaves it unchanged. *)
LEMMA StepRefines ==
  ASSUME FsInv, FsStep
  PROVE  [Store!Next]_<<Files(memfs), Gone>>
<1>1. CASE SameFiles
  <2>1. Gone' = Gone /\ memfs' = memfs
    BY <1>1 DEF SameFiles, Gone
  <2>2. QED
    BY <2>1, FilesAre
<1>2. CASE RebootStep
  <2>1. Gone' = Gone
    BY <1>2, RebootKeeps DEF RebootStep, Gone
  <2>2. Files(memfs)' = {f \in Skeleton : f.name \notin Gone}
    BY <1>2, <2>1, FilesAre, SkeletonFiles DEF RebootStep
  <2>3. Store!Restart(Gone)
    BY <2>1, <2>2 DEF Store!Restart, Skeleton
  <2>4. QED
    BY <2>3 DEF Store!Next
<1>3. CASE PowerStep
  <2>1. Gone' = {}
    BY <1>3 DEF PowerStep, Gone, ToSet
  <2>2. Files(memfs)' = {f \in Skeleton : f.name \notin {}}
    BY <1>3, <2>1, FilesAre, SkeletonFiles DEF PowerStep
  <2>3. Store!Restart({})
    BY <2>1, <2>2 DEF Store!Restart, Skeleton
  <2>4. QED
    BY <2>3 DEF Store!Next
<1>4. QED
  BY <1>1, <1>2, <1>3, WriteRefines, ClearRefines, DeleteRefines DEF FsStep

(* Slots that are never given back, slots hidden behind a deleted name, a  *)
(* full table, a full list and the copy at 0x600000 are all invisible: to  *)
(* its users pigFS is a store of named files in which one command writes   *)
(* one file or one home directory, and a removed built-in file stays gone. *)
THEOREM StoreRefined == Spec => RefinesStore
<1>1. Init => FsInv
  BY InitFs
<1>2. FsInv /\ [Next]_vars => FsInv'
  BY FsNext
<1>3. Init => Store!Init
  <2>1. SUFFICES ASSUME Init PROVE Store!Init
    OBVIOUS
  <2>2. memfs = SkelFiles
    BY <2>1, SkelIs DEF Init
  <2>3. Gone = {}
    BY <2>1 DEF Init, Gone, ToSet
  <2>4. Files(memfs) = {f \in Skeleton : f.name \notin {}}
    BY <2>2, <2>3, FilesAre, SkeletonFiles
  <2>5. QED
    BY <2>3, <2>4 DEF Store!Init, Skeleton
<1>4. FsInv /\ [Next]_vars => [Store!Next]_<<Files(memfs), Gone>>
  BY NextStep, StepRefines
<1>5. QED
  BY <1>1, <1>2, <1>3, <1>4, PTL DEF Spec, RefinesStore, Store!Spec
-----------------------------------------------------------------------------
(* What is found under a name, and what does not change it. *)

(* The slots of a name decide what cat shows of it, and the driver's log   *)
(* for its built-in file.                                                  *)
LEMMA CatSame ==
  ASSUME NEW p, memfs \in Seq(MemFile), LiveLog(p) => net_log' = net_log,
         Matches(memfs, p)' = Matches(memfs, p),
         \A k \in Matches(memfs, p) : memfs'[k] = memfs[k],
         fs_is_deleted(p)' <=> fs_is_deleted(p)
  PROVE  fs_cat(p)' = fs_cat(p)
<1>1. memfs_find(memfs, p)' = memfs_find(memfs, p)
  BY DEF memfs_find
<1>2. InMemfs(p)' <=> InMemfs(p)
  BY <1>1 DEF InMemfs
<1>3. fs_find_vnode(p)' <=> fs_find_vnode(p)
  BY DEF fs_find_vnode
<1>4. InMemfs(p) => memfs'[memfs_find(memfs, p)'] = memfs[memfs_find(memfs, p)]
  BY <1>1, FindSpec DEF InMemfs
<1>5. CASE InMemfs(p)
  BY <1>1, <1>2, <1>4, <1>5 DEF fs_cat, InMemfs
<1>6. CASE ~InMemfs(p)
  BY <1>1, <1>2, <1>3, <1>6 DEF fs_cat, InMemfs, LiveLog
<1>7. QED
  BY <1>5, <1>6

(* A step leaves what cat shows of every path it does not name. *)
LEMMA CatKept ==
  ASSUME FsInv, FsStep, NEW p, ~Names(p), ~kernel_main, LiveLog(p) => net_log' = net_log
  PROVE  fs_cat(p)' = fs_cat(p)
<1>1. memfs \in Seq(MemFile) /\ memfs \in Tables
  BY DEF FsInv, Tables
<1>2. CASE SameFiles
  <2>1. \A q : fs_is_deleted(q)' <=> fs_is_deleted(q)
    BY <1>2 DEF SameFiles, fs_is_deleted
  <2>2. Matches(memfs, p)' = Matches(memfs, p) /\ memfs' = memfs
    BY <1>2, <2>1 DEF SameFiles, Matches, Live
  <2>3. QED
    BY <1>1, <2>1, <2>2, CatSame
<1>3. CASE WriteStep
  <2>1. PICK B : Wrote(memfs, memfs', B) /\ \A q \in B : Names(q)
    BY <1>3 DEF WriteStep
  <2>2. p \notin B /\ \A q : fs_is_deleted(q)' <=> fs_is_deleted(q)
    BY <1>3, <2>1, SameTables DEF WriteStep
  <2>3. /\ memfs' \in Seq(MemFile) /\ Len(memfs) <= Len(memfs')
        /\ DOMAIN memfs = 1..Len(memfs) /\ DOMAIN memfs' = 1..Len(memfs')
        /\ Len(memfs) \in Nat /\ Len(memfs') \in Nat
    BY <1>1, <2>1 DEF Wrote, Tables
  <2>4. \A k \in DOMAIN memfs : /\ k \in DOMAIN memfs'
                                /\ memfs'[k].path = memfs[k].path
                                /\ memfs'[k].used = memfs[k].used
                                /\ memfs[k].path = p => memfs'[k] = memfs[k]
    BY <2>1, <2>2, <2>3 DEF Wrote
  <2>5. \A k \in DOMAIN memfs' : memfs'[k].path = p => k \in DOMAIN memfs
    BY <2>1, <2>2, <2>3 DEF Wrote
  <2>6. Matches(memfs, p)' = Matches(memfs, p)
    BY <2>2, <2>4, <2>5 DEF Matches, Live
  <2>7. \A k \in Matches(memfs, p) : memfs'[k] = memfs[k]
    BY <2>4 DEF Matches
  <2>8. QED
    BY <1>1, <2>2, <2>6, <2>7, CatSame
<1>4. CASE ClearStep
  <2>1. PICK k \in DOMAIN memfs : Cleared(memfs, memfs', k) /\ Names(memfs[k].path)
    BY <1>4 DEF ClearStep
  <2>2. memfs[k].path # p /\ \A q : fs_is_deleted(q)' <=> fs_is_deleted(q)
    BY <1>4, <2>1, SameTables DEF ClearStep
  <2>3. /\ DOMAIN memfs' = DOMAIN memfs /\ ~memfs'[k].used
        /\ \A j \in DOMAIN memfs : j # k => memfs'[j] = memfs[j]
    BY <2>1 DEF Cleared
  <2>4. Matches(memfs, p)' = Matches(memfs, p)
    BY <2>2, <2>3 DEF Matches, Live
  <2>5. \A j \in Matches(memfs, p) : memfs'[j] = memfs[j]
    BY <2>2, <2>3 DEF Matches
  <2>6. QED
    BY <1>1, <2>2, <2>4, <2>5, CatSame
<1>5. CASE DeleteStep
  <2>1. PICK q \in VFS : fs_mark_deleted(q) /\ Names(q)
    BY <1>5 DEF DeleteStep
  <2>2. memfs' = memfs /\ q # p /\ deleted = del_store
    BY <1>5, <2>1 DEF DeleteStep, FsInv
  <2>3. deleted' = del_store' /\ (p \in ToSet(del_store') <=> p \in ToSet(del_store))
    BY <2>1, <2>2, MarkStep
  <2>4. fs_is_deleted(p)' <=> fs_is_deleted(p)
    BY <2>2, <2>3 DEF fs_is_deleted
  <2>5. Matches(memfs, p)' = Matches(memfs, p)
    BY <2>2, <2>4 DEF Matches, Live
  <2>6. QED
    BY <1>1, <2>2, <2>4, <2>5, CatSame
<1>6. QED
  BY <1>2, <1>3, <1>4, <1>5 DEF FsStep, RebootStep, PowerStep

(* No command changes what cat shows of a path it was not given: not by    *)
(* memfs_create's search, not by freeing a slot, not by the list.  The one *)
(* exception is the built-in network log while it is the driver's own.     *)
THEOREM OthersUntouched == Spec => OnlyNamedChange
<1>1. Init => FsInv
  BY InitFs
<1>2. FsInv /\ [Next]_vars => FsInv'
  BY FsNext
<1>3. FsInv /\ [Next]_vars =>
        [\A p \in Paths :
           fs_cat(p)' # fs_cat(p) =>
             \/ Names(p)
             \/ kernel_main
             \/ LiveLog(p) /\ \E text \in NetLogs : net_command(text)]_<<fsVars, net_log>>
  BY NextStep, LogNext, CatKept
<1>4. QED
  BY <1>1, <1>2, <1>3, PTL DEF Spec, OnlyNamedChange
-----------------------------------------------------------------------------
(* What touch and rm say they did. *)

(* touch: a slot was taken, and is live unless the name is on the list. *)
LEMMA TouchMakes ==
  ASSUME FsInv, NEW a \in Args, fs_touch(a), memfs' # memfs,
         ~fs_is_deleted(fs_resolve(sh_cwd, a))
  PROVE  Exists(fs_resolve(sh_cwd, a))'
<1> DEFINE p == fs_resolve(sh_cwd, a)
           k == Len(memfs) + 1
<1>1. p \in Path /\ memfs \in Tables /\ memfs \in Seq(MemFile)
  BY ArgPath DEF FsInv, Tables
<1>2. memfs' = memfs_create(memfs, p).fs /\ UNCHANGED <<deleted, del_store, sh_cwd>>
  BY DEF fs_touch, FilesOnly
<1>3. p' = p
  BY <1>2
<1> HIDE DEF p
<1>4. memfs' = Append(memfs, Slot(p))
  BY <1>2 DEF memfs_create
<1>5. k \in DOMAIN memfs' /\ memfs'[k] = Slot(p) /\ 0 \notin DOMAIN memfs'
  <2>1. Len(memfs) \in Nat /\ DOMAIN Append(memfs, Slot(p)) = 1..(Len(memfs) + 1)
        /\ Append(memfs, Slot(p))[Len(memfs) + 1] = Slot(p)
    BY <1>1
  <2>2. QED
    BY <1>4, <2>1
<1> HIDE DEF k
<1>6. Slot(p).path = p /\ Slot(p).used
  <2>1. Slot(p).path = p
    BY DEF Slot
  <2>2. Slot(p).used
    BY DEF Slot
  <2>3. QED
    BY <2>1, <2>2
<1>7. ~fs_is_deleted(p)'
  BY <1>2, SameTables DEF p
<1>8. k \in Matches(memfs, p)'
  BY <1>3, <1>5, <1>6, <1>7 DEF Matches, Live
<1>9. memfs_find(memfs, p)' # 0
  <2>1. \A j \in Matches(memfs, p)' : j \in DOMAIN memfs'
    BY DEF Matches
  <2>2. memfs' \in Seq(MemFile)
    BY <1>1, <1>2, CreateWrote DEF Wrote, Tables
  <2>3. Matches(memfs, p)' \subseteq Nat
    BY <2>1, <2>2
  <2>4. \E i \in Matches(memfs, p)' : \A j \in Matches(memfs, p)' : i <= j
    BY <1>8, <2>3, LeastNatural
  <2>5. memfs_find(memfs, p)' \in Matches(memfs, p)'
    BY <1>8, <2>4 DEF memfs_find
  <2>6. QED
    BY <1>5, <2>1, <2>5
<1>10. QED
  BY <1>9 DEF Exists, InMemfs, p

(* rm: the one live slot of the name is given up, or the name is on the    *)
(* list. *)
LEMMA RmRemoves ==
  ASSUME FsInv, NEW a \in Args, NEW r \in BOOLEAN, NEW n \in BOOLEAN, fs_rm(a, r, n),
         halted' # TRUE, ~UNCHANGED fsVars,
         ~(InMemfs(fs_resolve(sh_cwd, a)) /\ fs_resolve(sh_cwd, a) \in VFS)
  PROVE  ~Exists(fs_resolve(sh_cwd, a))'
<1> DEFINE p == fs_resolve(sh_cwd, a)
<1>1. p \in Path /\ memfs \in Tables /\ memfs \in Seq(MemFile)
  BY ArgPath DEF FsInv, Tables
<1>2. Exists(p) /\ (rm_memfile(p) \/ rm_vnode(p))
  BY DEF fs_rm, RmAllowed, rm_panics
<1>3. sh_cwd' = sh_cwd
  BY <1>2 DEF rm_memfile, rm_vnode, FilesOnly
<1>4. p' = p /\ ~(InMemfs(p) /\ p \in VFS)
  BY <1>3
<1> HIDE DEF p
<1>5. CASE rm_memfile(p)
  <2> DEFINE k == memfs_find(memfs, p)
  <2>1. /\ InMemfs(p) /\ UNCHANGED <<deleted, del_store>>
        /\ memfs' = [memfs EXCEPT ![k].used = FALSE]
    BY <1>5 DEF rm_memfile, Freed, FilesOnly
  <2>2. k \in DOMAIN memfs /\ Live(memfs, k) /\ memfs[k].path = p
    BY <2>1, FoundSlot
  <2> HIDE DEF k
  <2>3. /\ DOMAIN memfs' = DOMAIN memfs /\ ~memfs'[k].used
        /\ \A j \in DOMAIN memfs : j # k => memfs'[j] = memfs[j]
    <3>1. memfs[k] \in MemFile
      BY <1>1, <2>2
    <3>2. ~[memfs[k] EXCEPT !.used = FALSE].used
      BY <3>1 DEF MemFile
    <3>3. QED
      BY <1>1, <2>1, <2>2, <3>2
  <2>4. \A q : fs_is_deleted(q)' <=> fs_is_deleted(q)
    BY <2>1, SameTables
  <2>5. Matches(memfs, p)' = {}
    <3>1. SUFFICES ASSUME NEW j \in DOMAIN memfs', Live(memfs, j)', memfs'[j].path = p
                   PROVE  FALSE
      BY <1>4 DEF Matches
    <3>2. j # k /\ memfs'[j] = memfs[j] /\ j \in DOMAIN memfs
      BY <2>3, <3>1 DEF Live
    <3>3. Live(memfs, j) /\ memfs[j].path = p
      BY <2>4, <3>1, <3>2 DEF Live
    <3>4. QED
      BY <1>1, <2>2, <3>2, <3>3 DEF Tables, Unique
  <2>6. ~InMemfs(p)'
    BY <2>5 DEF InMemfs, memfs_find
  <2>7. p \notin VFS
    BY <1>4, <2>1
  <2>8. QED
    BY <1>4, <2>6, <2>7 DEF Exists, fs_find_vnode, p
<1>6. CASE rm_vnode(p)
  <2>1. fs_mark_deleted(p) /\ memfs' = memfs /\ ~InMemfs(p)
    BY <1>6 DEF rm_vnode
  <2>2. p \in VFS
    BY <1>2, <2>1 DEF Exists, fs_find_vnode
  <2>3. p \in ToSet(del_store')
    BY <2>1, <2>2, MarkStep DEF fsVars
  <2>4. fs_is_deleted(p)'
    BY <1>4, <2>3 DEF fs_is_deleted
  <2>5. QED
    BY <1>4, <2>4, DeletedHiddenNext DEF p
<1>7. QED
  BY <1>2, <1>5, <1>6

(* "touch: created" and "rm: removed" are true when they are printed for a *)
(* step that changed something: the slot made is the one found, and after  *)
(* rm nothing is, neither a second slot nor a built-in file.               *)
THEOREM MessagesCorrect == Spec => MessagesTrue
<1>1. Init => OsInv
  BY OsInit
<1>2. OsInv /\ [Next]_vars => OsInv'
  BY OsNext
<1> DEFINE Touched == \A a \in Args :
             LET p == fs_resolve(sh_cwd, a)
             IN fs_touch(a) /\ memfs' # memfs => Exists(p)' \/ fs_is_deleted(p)
           Removed == \A a \in Args, r, n \in BOOLEAN :
             LET p == fs_resolve(sh_cwd, a)
             IN fs_rm(a, r, n) /\ ~halted' /\ ~(InMemfs(p) /\ p \in VFS) => ~Exists(p)'
<1>3. OsInv => Touched
  BY TouchMakes DEF OsInv
<1>4. OsInv /\ [Next]_vars => [Removed]_fsVars
  BY RmRemoves DEF OsInv
<1>5. Spec => [][Touched]_vars
  BY <1>1, <1>2, <1>3, PTL DEF Spec
<1>6. Spec => [][Removed]_fsVars
  BY <1>1, <1>2, <1>4, PTL DEF Spec
<1>7. QED
  BY <1>5, <1>6, PTL DEF MessagesTrue, TouchedExists, RemovedIsGone
-----------------------------------------------------------------------------
(* cd .. *)

(* The function FoldLeft applies. *)
WalkFun(g, cwd, s) == g = [S \in SUBSET DOMAIN s |-> WalkStep(g, cwd, s, S)]

(* The function behind FoldLeft exists and satisfies its recursion at every place. *)
LEMMA FoldFixpoint ==
  ASSUME NEW C, NEW cwd, NEW s \in Seq(C)
  PROVE  \E g : /\ WalkFun(g, cwd, s)
                /\ FoldLeft(Walk, cwd, s) = g[DOMAIN s]
<1> DEFINE g == CHOOSE f : f = [S \in SUBSET DOMAIN s |-> WalkStep(f, cwd, s, S)]
<1>1. DOMAIN s = 1..Len(s) /\ Len(s) \in Nat
  OBVIOUS
<1>2. g = [S \in SUBSET DOMAIN s |-> WalkStep(g, cwd, s, S)]
  BY <1>1, FoldExists
<1>3. FoldLeft(Walk, cwd, s) = g[DOMAIN s]
  BY FoldIs
<1>4. WalkFun(g, cwd, s)
  BY <1>2 DEF WalkFun
<1> HIDE DEF g
<1>5. QED
  BY <1>3, <1>4

(* One component is one step of the walk. *)
LEMMA FoldOne ==
  ASSUME NEW cwd, NEW C, NEW s \in Seq(C), DOMAIN s = 1..1
  PROVE  FoldLeft(Walk, cwd, s) = Walk(cwd, s[1])
<1>1. PICK g : /\ WalkFun(g, cwd, s)
               /\ FoldLeft(Walk, cwd, s) = g[DOMAIN s]
  BY FoldFixpoint
<1>2. g[{}] = cwd
  <2>1. {} \in SUBSET DOMAIN s /\ WalkStep(g, cwd, s, {}) = cwd
    BY DEF WalkStep
  <2>2. QED
    BY <1>1, <2>1 DEF WalkFun
<1>3. Max(1..1) = 1
  BY MaxUpTo
<1>4. (1..1) \ {1} = {} /\ 1..1 # {}
  OBVIOUS
<1>5. WalkStep(g, cwd, s, 1..1) = Walk(cwd, s[1])
  BY <1>2, <1>3, <1>4 DEF WalkStep
<1>6. g[1..1] = WalkStep(g, cwd, s, 1..1)
  <2>1. 1..1 \in SUBSET DOMAIN s
    OBVIOUS
  <2>2. QED
    BY <1>1, <2>1 DEF WalkFun
<1>7. QED
  BY <1>1, <1>5, <1>6

(* cd .. from a directory without a slash at its end shortens the path. *)
LEMMA UpShorter ==
  ASSUME FsInv, fs_cd(Up), sh_cwd # Root, ~sh_cwd.slash
  PROVE  Len(sh_cwd'.comps) < Len(sh_cwd.comps)
<1> DEFINE p == fs_resolve(sh_cwd, Up)
<1>1. sh_cwd \in [comps: Seq(Components), slash: BOOLEAN]
  BY DEF FsInv, Path, PathOver
<1>2. sh_cwd.comps \in Seq(Components) /\ sh_cwd.comps # <<>>
  <2>1. sh_cwd.slash = FALSE
    BY <1>1
  <2>2. sh_cwd = [comps |-> sh_cwd.comps, slash |-> FALSE]
    BY <1>1, <2>1
  <2>3. QED
    BY <1>1, <2>2 DEF Root
<1>3. Up.abs = FALSE /\ Up.comps = <<"..">> /\ Up # Typed(<<"~">>, 0)
  <2>1. Up.comps = <<"..">> /\ Typed(<<"~">>, 0).comps = <<"~">> /\ Up.abs = FALSE
    BY DEF Up, Typed
  <2>2. <<"..">>[1] # <<"~">>[1]
    OBVIOUS
  <2>3. QED
    BY <2>1, <2>2
<1>4. p = path_normalize(GoUp(sh_cwd))
  <2>1. PICK c : c = Up.comps
    OBVIOUS
  <2>2. c \in Seq({".."}) /\ DOMAIN c = 1..1 /\ c[1] = ".."
    BY <1>3, <2>1
  <2>3. PICK C : c \in Seq(C)
    BY <2>2
  <2>4. FoldLeft(Walk, sh_cwd, c) = Walk(sh_cwd, "..")
    BY <2>2, <2>3, FoldOne
  <2>5. QED
    BY <1>3, <2>1, <2>4 DEF fs_resolve, Walk
<1>5. GoUp(sh_cwd) = Abs(Front(sh_cwd.comps))
  BY <1>2 DEF GoUp
<1>6. p.comps = Front(sh_cwd.comps)
  BY <1>4, <1>5 DEF path_normalize, Abs
<1>7. Len(Front(sh_cwd.comps)) < Len(sh_cwd.comps)
  BY <1>2 DEF Front
<1>8. WithSlash(p).comps = p.comps
  BY <1>4, <1>5 DEF WithSlash, path_normalize, Abs
<1>9. sh_cwd' \in {p, WithSlash(p)}
  <2>1. ~VnodeDir(Abs(Up.comps))
    BY <1>3, FsAssumption DEF VnodeDir
  <2>2. CdTargets(Up) \subseteq {p, WithSlash(p)}
    BY <2>1 DEF CdTargets
  <2>3. QED
    BY <2>2 DEF fs_cd
<1>10. QED
  BY <1>6, <1>7, <1>8, <1>9

(* "Go up": from a directory named without a slash at its end, cd .. leads *)
(* nearer to the root, whichever of fs_cd's candidates exists.             *)
THEOREM UpCorrect == Spec => CdUpLeaves
<1>1. Init => FsInv
  BY InitFs
<1>2. FsInv /\ [Next]_vars => FsInv'
  BY FsNext
<1>3. FsInv => (fs_cd(Up) /\ sh_cwd # Root /\ ~sh_cwd.slash
                  => Len(sh_cwd'.comps) < Len(sh_cwd.comps))
  BY UpShorter
<1>4. QED
  BY <1>1, <1>2, <1>3, PTL DEF Spec, CdUpLeaves
-----------------------------------------------------------------------------
(* What a relative argument means.  Depth is a recursive function and the  *)
(* walk a fold; both are followed one component at a time, and each        *)
(* induction is again the absence of a least counterexample.               *)

(* One step of the recursion of Depth. *)
DepthStep(d, s, j) == IF j = 0 THEN 0 ELSE DepthNext(d[j - 1], s[j])

(* The function Depth chooses exists. *)
LEMMA DepthExists ==
  ASSUME NEW s, NEW n \in Nat
  PROVE  \E d : d = [j \in 0..n |-> DepthStep(d, s, j)]
<1> DEFINE Good(k) == \E d : d = [j \in 0..k |-> DepthStep(d, s, j)]
           Bad == {k \in Nat : ~Good(k)}
<1>1. Good(0)
  <2> DEFINE d == [j \in 0..0 |-> 0]
  <2>1. d = [j \in 0..0 |-> DepthStep(d, s, j)]
    BY DEF DepthStep
  <2>2. QED
    BY <2>1
<1>2. ASSUME NEW k \in Nat, Good(k) PROVE Good(k + 1)
  <2>1. PICK d : d = [j \in 0..k |-> DepthStep(d, s, j)]
    BY <1>2
  <2> DEFINE e == [j \in 0..(k + 1) |->
                     IF j = k + 1 THEN DepthNext(d[k], s[k + 1]) ELSE d[j]]
  <2>2. ASSUME NEW j \in 0..(k + 1) PROVE e[j] = DepthStep(e, s, j)
    <3>1. CASE j = k + 1
      BY <3>1 DEF DepthStep
    <3>2. CASE j \in 0..k
      <4>1. e[j] = d[j] /\ d[j] = DepthStep(d, s, j)
        BY <2>1, <3>2
      <4>2. j # 0 => e[j - 1] = d[j - 1]
        BY <3>2
      <4>3. QED
        BY <4>1, <4>2 DEF DepthStep
    <3>3. QED
      BY <3>1, <3>2
  <2>3. e = [j \in 0..(k + 1) |-> DepthStep(e, s, j)]
    <3> DEFINE f == [j \in 0..(k + 1) |-> DepthStep(e, s, j)]
    <3>1. \A j \in 0..(k + 1) : e[j] = f[j]
      BY <2>2
    <3>2. QED
      BY <3>1
  <2> HIDE DEF e
  <2>4. QED
    BY <2>3
<1> HIDE DEF Good
<1>3. SUFFICES ASSUME ~Good(n) PROVE FALSE
  BY DEF Good
<1>4. PICK m \in Bad : \A k \in Bad : m <= k
  BY <1>3, LeastNatural
<1>5. m # 0 /\ m - 1 \in Nat /\ m - 1 \notin Bad
  BY <1>1, <1>4
<1>6. QED
  BY <1>2, <1>4, <1>5

(* Depth starts at 0 and changes by one component at a time. *)
LEMMA DepthIs ==
  ASSUME NEW C, NEW s \in Seq(C)
  PROVE  /\ Depth(s)[0] = 0
         /\ \A j \in 1..Len(s) : Depth(s)[j] = DepthNext(Depth(s)[j - 1], s[j])
<1> DEFINE d == Depth(s)
<1>1. d = CHOOSE f : f = [j \in 0..Len(s) |-> DepthStep(f, s, j)]
  BY DEF Depth, DepthStep
<1>2. Len(s) \in Nat
  OBVIOUS
<1>3. d = [j \in 0..Len(s) |-> DepthStep(d, s, j)]
  <2> HIDE DEF d
  <2>1. QED
    BY <1>1, <1>2, DepthExists
<1> HIDE DEF d
<1>4. d[0] = DepthStep(d, s, 0) /\ \A j \in 1..Len(s) : d[j] = DepthStep(d, s, j)
  BY <1>2, <1>3
<1>5. QED
  BY <1>2, <1>4 DEF DepthStep, d

(* A depth is a natural number. *)
LEMMA DepthNat ==
  ASSUME NEW C, NEW s \in Seq(C), NEW n \in 0..Len(s)
  PROVE  Depth(s)[n] \in Nat
<1> DEFINE Bad == {k \in 0..Len(s) : Depth(s)[k] \notin Nat}
<1>1. SUFFICES ASSUME n \in Bad PROVE FALSE
  OBVIOUS
<1>2. Bad \subseteq Nat /\ Bad # {}
  BY <1>1
<1>3. PICK m \in Bad : \A k \in Bad : m <= k
  BY <1>2, LeastNatural
<1>4. m # 0 /\ m \in 1..Len(s) /\ m - 1 \in 0..Len(s) /\ m - 1 \notin Bad
  BY <1>3, DepthIs
<1>5. Depth(s)[m] = DepthNext(Depth(s)[m - 1], s[m]) /\ Depth(s)[m - 1] \in Nat
  BY <1>4, DepthIs
<1>6. QED
  BY <1>3, <1>5 DEF DepthNext

(* A name that is left is at least one deep and no deeper than the end. *)
LEMMA KeptBounds ==
  ASSUME NEW C, NEW s \in Seq(C), NEW k \in 0..Len(s), NEW i \in Kept(s, k)
  PROVE  /\ i \in 1..k /\ s[i] \notin {".", ".."}
         /\ Depth(s)[i] \in 1..Depth(s)[k]
<1>1. i \in 1..k /\ s[i] \notin {".", ".."} /\ Depth(s)[k] >= Depth(s)[i]
  BY DEF Kept
<1>2. i \in 1..Len(s) /\ i - 1 \in 0..Len(s) /\ i \in 0..Len(s)
  BY <1>1
<1>3. Depth(s)[i - 1] \in Nat /\ Depth(s)[i] \in Nat /\ Depth(s)[k] \in Nat
  BY <1>2, DepthNat
<1>4. Depth(s)[i] = Depth(s)[i - 1] + 1
  BY <1>1, <1>2, DepthIs DEF DepthNext
<1>5. QED
  BY <1>1, <1>3, <1>4

(* One more component: the names it climbs above go, and a name is added. *)
LEMMA KeptStep ==
  ASSUME NEW C, NEW s \in Seq(C), NEW k \in 0..Len(s), k < Len(s)
  PROVE  \A i : i \in Kept(s, k + 1) <=>
                  \/ i \in Kept(s, k) /\ Depth(s)[k + 1] >= Depth(s)[i]
                  \/ i = k + 1 /\ s[k + 1] \notin {".", ".."}
<1>1. ASSUME NEW i PROVE
        i \in 1..k => (i \in Kept(s, k + 1) <=> i \in Kept(s, k) /\ Depth(s)[k + 1] >= Depth(s)[i])
  <2>1. SUFFICES ASSUME i \in 1..k
                 PROVE  i \in Kept(s, k + 1) <=> i \in Kept(s, k) /\ Depth(s)[k + 1] >= Depth(s)[i]
    OBVIOUS
  <2>2. \A j : j \in i..(k + 1) <=> j \in i..k \/ j = k + 1
    BY <2>1
  <2>3. QED
    BY <2>1, <2>2 DEF Kept
<1>2. k + 1 \in 1..(k + 1) /\ k + 1 \in 0..Len(s)
  OBVIOUS
<1>3. Depth(s)[k + 1] \in Nat
  BY <1>2, DepthNat
<1>4. \A j \in (k + 1)..(k + 1) : j = k + 1
  OBVIOUS
<1>5. s[k + 1] \notin {".", ".."} <=> k + 1 \in Kept(s, k + 1)
  BY <1>2, <1>3, <1>4 DEF Kept
<1>6. \A i : i \in Kept(s, k + 1) => i \in 1..k \/ i = k + 1
  BY DEF Kept
<1>7. \A i \in Kept(s, k) : i \in 1..k
  BY DEF Kept
<1>8. QED
  BY <1>1, <1>5, <1>6, <1>7

(* Each depth up to that of the end is the depth of exactly one name left. *)
NamesDistinct(s, k) ==
  \A n \in 1..Depth(s)[k] :
    \E i \in Kept(s, k) : /\ Depth(s)[i] = n
                          /\ \A j \in Kept(s, k) : Depth(s)[j] = n => j = i

(* NamesDistinct holds after every component. *)
LEMMA KeptOne ==
  ASSUME NEW C, NEW s \in Seq(C), NEW n \in 0..Len(s)
  PROVE  NamesDistinct(s, n)
<1> DEFINE Bad == {k \in 0..Len(s) : ~NamesDistinct(s, k)}
<1>1. NamesDistinct(s, 0)
  BY DepthIs DEF NamesDistinct
<1>2. ASSUME NEW k \in 0..Len(s), k < Len(s), NamesDistinct(s, k) PROVE NamesDistinct(s, k + 1)
  <2> DEFINE d == Depth(s)
             c == s[k + 1]
  <2>1. k + 1 \in 1..Len(s) /\ k + 1 \in 0..Len(s) /\ (k + 1) - 1 = k
    BY <1>2
  <2>2. d[k] \in Nat /\ d[k + 1] \in Nat /\ d[k + 1] = DepthNext(d[k], c)
    BY <2>1, DepthIs, DepthNat
  <2>3. \A i \in Kept(s, k) : d[i] \in 1..d[k]
    BY KeptBounds
  <2>4. \A i : i \in Kept(s, k + 1) <=>
                \/ i \in Kept(s, k) /\ d[k + 1] >= d[i]
                \/ i = k + 1 /\ c \notin {".", ".."}
    BY <1>2, KeptStep
  <2>5. \A m \in 1..d[k] : \E i \in Kept(s, k) :
           d[i] = m /\ \A j \in Kept(s, k) : d[j] = m => j = i
    BY <1>2 DEF NamesDistinct
  <2> HIDE DEF d, c
  <2>6. ASSUME NEW m \in 1..d[k + 1]
        PROVE  \E i \in Kept(s, k + 1) : d[i] = m /\ \A j \in Kept(s, k + 1) : d[j] = m => j = i
    <3>1. CASE c \notin {".", ".."}
      <4>1. d[k + 1] = d[k] + 1
        BY <2>2, <3>1 DEF DepthNext
      <4>2. CASE m = d[k + 1]
        <5>1. k + 1 \in Kept(s, k + 1)
          BY <2>4, <3>1
        <5>2. \A j \in Kept(s, k) : d[j] # m
          BY <2>2, <2>3, <4>1, <4>2
        <5>3. QED
          BY <2>4, <4>2, <5>1, <5>2
      <4>3. CASE m # d[k + 1]
        <5>1. m \in 1..d[k]
          BY <2>2, <4>1, <4>3
        <5>2. PICK i \in Kept(s, k) : d[i] = m /\ \A j \in Kept(s, k) : d[j] = m => j = i
          BY <2>5, <5>1
        <5>3. i \in Kept(s, k + 1)
          BY <2>2, <2>3, <2>4, <4>1
        <5>4. QED
          BY <2>4, <4>3, <5>2, <5>3
      <4>4. QED
        BY <4>2, <4>3
    <3>2. CASE c \in {".", ".."}
      <4>1. d[k + 1] <= d[k]
        BY <2>2, <3>2 DEF DepthNext
      <4>2. m \in 1..d[k]
        BY <2>2, <4>1
      <4>3. PICK i \in Kept(s, k) : d[i] = m /\ \A j \in Kept(s, k) : d[j] = m => j = i
        BY <2>5, <4>2
      <4>4. d[k + 1] >= d[i]
        BY <2>2, <4>3
      <4>5. QED
        BY <2>4, <3>2, <4>3, <4>4
    <3>3. QED
      BY <3>1, <3>2
  <2>7. QED
    BY <2>6 DEF NamesDistinct, d
<1>3. SUFFICES ASSUME n \in Bad PROVE FALSE
  OBVIOUS
<1>4. Bad \subseteq Nat /\ Bad # {}
  BY <1>3
<1>5. PICK m \in Bad : \A k \in Bad : m <= k
  BY <1>4, LeastNatural
<1>6. m # 0 /\ m - 1 \in 0..Len(s) /\ m - 1 < Len(s) /\ m - 1 \notin Bad /\ (m - 1) + 1 = m
  BY <1>1, <1>5
<1>7. NamesDistinct(s, m - 1)
  BY <1>6
<1>8. NamesDistinct(s, m)
  BY <1>2, <1>6, <1>7
<1>9. QED
  BY <1>5, <1>8

(* The n-th name of the meaning is the one left at depth n. *)
LEMMA NameIs ==
  ASSUME NEW C, NEW s \in Seq(C), NEW k \in 0..Len(s), NEW i \in Kept(s, k)
  PROVE  NameAt(s, k, Depth(s)[i]) = s[i]
<1>1. Depth(s)[i] \in 1..Depth(s)[k]
  BY KeptBounds
<1>2. PICK e \in Kept(s, k) : /\ Depth(s)[e] = Depth(s)[i]
                              /\ \A j \in Kept(s, k) : Depth(s)[j] = Depth(s)[i] => j = e
  BY <1>1, KeptOne DEF NamesDistinct
<1>3. (CHOOSE j \in Kept(s, k) : Depth(s)[j] = Depth(s)[i]) = i
  BY <1>2
<1>4. QED
  BY <1>3 DEF NameAt

(* At each depth the meaning has the name that is left there. *)
LEMMA NameOf ==
  ASSUME NEW C, NEW s \in Seq(C), NEW k \in 0..Len(s), NEW n \in 1..Depth(s)[k]
  PROVE  \E i \in Kept(s, k) : Depth(s)[i] = n /\ NameAt(s, k, n) = s[i]
<1>1. PICK i \in Kept(s, k) : Depth(s)[i] = n
  BY KeptOne DEF NamesDistinct
<1>2. QED
  BY <1>1, NameIs

(* A meaning is a sequence of names. *)
LEMMA MeaningType ==
  ASSUME NEW C, NEW s \in Seq(C), NEW k \in 0..Len(s)
  PROVE  MeaningUpTo(s, k) \in Seq(C) /\ Len(MeaningUpTo(s, k)) = Depth(s)[k]
<1>1. Depth(s)[k] \in Nat
  BY DepthNat
<1>2. ASSUME NEW n \in 1..Depth(s)[k] PROVE NameAt(s, k, n) \in C
  <2>1. PICK i \in Kept(s, k) : NameAt(s, k, n) = s[i]
    BY NameOf
  <2>2. i \in 1..Len(s)
    BY KeptBounds
  <2>3. QED
    BY <2>1, <2>2
<1> DEFINE N(n) == NameAt(s, k, n)
<1>3. \A n \in 1..Depth(s)[k] : N(n) \in C
  BY <1>2
<1>4. MeaningUpTo(s, k) = [n \in 1..Depth(s)[k] |-> N(n)]
  BY DEF MeaningUpTo
<1> HIDE DEF N
<1>5. QED
  BY <1>1, <1>3, <1>4

(* Names that are left after a component and before it are the same. *)
LEMMA NameKept ==
  ASSUME NEW C, NEW s \in Seq(C), NEW k \in 0..Len(s), k < Len(s),
         NEW n \in 1..Depth(s)[k], n \in 1..Depth(s)[k + 1]
  PROVE  NameAt(s, k + 1, n) = NameAt(s, k, n)
<1>1. PICK i \in Kept(s, k) : Depth(s)[i] = n /\ NameAt(s, k, n) = s[i]
  BY NameOf
<1>2. k + 1 \in 0..Len(s)
  OBVIOUS
<1>3. Depth(s)[k + 1] \in Nat
  BY <1>2, DepthNat
<1>4. i \in Kept(s, k + 1)
  BY <1>1, <1>3, KeptStep
<1>5. QED
  BY <1>1, <1>2, <1>4, NameIs

(* Walking one more component gives the meaning of one more component. *)
LEMMA MeaningStep ==
  ASSUME NEW C, NEW s \in Seq(C), NEW k \in 0..Len(s), k < Len(s)
  PROVE  Walk(Abs(MeaningUpTo(s, k)), s[k + 1]) = Abs(MeaningUpTo(s, k + 1))
<1> DEFINE d == Depth(s)
           c == s[k + 1]
           M == MeaningUpTo(s, k)
           N == MeaningUpTo(s, k + 1)
<1>1. k + 1 \in 1..Len(s) /\ k + 1 \in 0..Len(s) /\ (k + 1) - 1 = k /\ c \in C
  OBVIOUS
<1>2. d[k] \in Nat /\ d[k + 1] \in Nat /\ d[k + 1] = DepthNext(d[k], c)
  BY <1>1, DepthIs, DepthNat
<1>3. M \in Seq(C) /\ Len(M) = d[k] /\ N \in Seq(C) /\ Len(N) = d[k + 1]
  BY <1>1, MeaningType
<1>4. \A n \in 1..d[k] : n \in 1..d[k + 1] => N[n] = M[n]
  <2>1. \A n \in 1..d[k] : M[n] = NameAt(s, k, n)
    BY DEF MeaningUpTo
  <2>2. \A n \in 1..d[k + 1] : N[n] = NameAt(s, k + 1, n)
    BY DEF MeaningUpTo
  <2> HIDE DEF M, N
  <2>3. QED
    BY <2>1, <2>2, NameKept DEF d
<1>5. c \notin {".", ".."} => N[k + 1 - k + d[k]] = c
  <2>1. SUFFICES ASSUME c \notin {".", ".."} PROVE N[d[k + 1]] = c
    BY <1>2 DEF DepthNext
  <2>2. k + 1 \in Kept(s, k + 1)
    BY <2>1, KeptStep
  <2>3. NameAt(s, k + 1, d[k + 1]) = c
    BY <1>1, <2>2, NameIs
  <2>4. d[k + 1] \in 1..d[k + 1]
    BY <1>1, <2>2, KeptBounds
  <2>5. QED
    BY <2>3, <2>4 DEF MeaningUpTo
<1>6. Walk(Abs(M), c) = Abs(N)
  <2> HIDE DEF d, c, M, N
  <2>1. CASE c \notin {".", ".."}
    <3>1. d[k + 1] = d[k] + 1 /\ N[d[k] + 1] = c
      BY <1>2, <1>5, <2>1 DEF DepthNext
    <3>2. N = Append(M, c)
      <4>1. Append(M, c) \in Seq(C) /\ Len(Append(M, c)) = Len(N)
        BY <1>1, <1>2, <1>3, <3>1 DEF c
      <4>2. \A n \in 1..Len(N) : N[n] = Append(M, c)[n]
        BY <1>2, <1>3, <1>4, <3>1
      <4>3. QED
        BY <1>3, <4>1, <4>2, SeqEqual
    <3>3. QED
      BY <2>1, <3>2 DEF Walk, Abs
  <2>2. CASE c = "."
    <3>1. d[k + 1] = d[k]
      BY <1>2, <2>2 DEF DepthNext
    <3>2. N = M
      BY <1>2, <1>3, <1>4, <3>1, SeqEqual
    <3>3. QED
      BY <2>2, <3>2 DEF Walk
  <2>3. CASE c = ".." /\ d[k] = 0
    <3>1. d[k + 1] = 0
      BY <1>2, <2>3 DEF DepthNext
    <3>2. M = <<>> /\ N = <<>>
      BY <1>3, <2>3, <3>1
    <3>3. QED
      BY <2>3, <3>2 DEF Walk, GoUp, Abs, path_normalize
  <2>4. CASE c = ".." /\ d[k] # 0
    <3>1. d[k + 1] = d[k] - 1
      BY <1>2, <2>4 DEF DepthNext
    <3>2. M # <<>>
      BY <1>3, <2>4
    <3>3. Front(M) \in Seq(C) /\ Len(Front(M)) = d[k] - 1
      BY <1>2, <1>3, <3>2 DEF Front
    <3>4. \A n \in 1..(d[k] - 1) : Front(M)[n] = M[n]
      BY <1>2, <1>3, <3>2 DEF Front
    <3>5. N = Front(M)
      <4>1. \A n \in 1..Len(N) : N[n] = Front(M)[n]
        BY <1>2, <1>3, <1>4, <3>1, <3>4
      <4>2. QED
        BY <1>3, <3>1, <3>3, <4>1, SeqEqual
    <3>6. QED
      BY <2>4, <3>2, <3>5 DEF Walk, GoUp, Abs
  <2>5. QED
    BY <2>1, <2>2, <2>3, <2>4
<1>7. QED
  BY <1>6

(* A path of names only means itself. *)
LEMMA MeaningOfNames ==
  ASSUME NEW C, NEW b \in Seq(C), NEW t \in Seq(C),
         \A i \in 1..Len(b) : b[i] \notin {".", ".."}
  PROVE  MeaningUpTo(b \o t, Len(b)) = b
<1> DEFINE s == b \o t
<1>1. s \in Seq(C) /\ Len(b) \in 0..Len(s) /\ \A i \in 1..Len(b) : s[i] = b[i]
  OBVIOUS
<1> HIDE DEF s
<1> DEFINE Bad == {k \in 0..Len(b) : MeaningUpTo(s, k) # SubSeq(b, 1, k)}
<1>2. MeaningUpTo(s, 0) = <<>>
  <2>1. 0 \in 0..Len(s) /\ Depth(s)[0] = 0
    BY <1>1, DepthIs
  <2>2. MeaningUpTo(s, 0) \in Seq(C) /\ Len(MeaningUpTo(s, 0)) = 0
    BY <1>1, <2>1, MeaningType
  <2>3. QED
    BY <2>2
<1>3. SubSeq(b, 1, 0) = <<>>
  OBVIOUS
<1>4. ASSUME NEW k \in 0..Len(b), k < Len(b), MeaningUpTo(s, k) = SubSeq(b, 1, k)
      PROVE  MeaningUpTo(s, k + 1) = SubSeq(b, 1, k + 1)
  <2>1. k \in 0..Len(s) /\ k < Len(s) /\ k + 1 \in 1..Len(b) /\ k + 1 \in 0..Len(s)
    BY <1>1, <1>4
  <2>2. s[k + 1] = b[k + 1] /\ b[k + 1] \notin {".", ".."}
    BY <1>1, <2>1
  <2>3. Walk(Abs(MeaningUpTo(s, k)), s[k + 1]) = Abs(MeaningUpTo(s, k + 1))
    BY <1>1, <2>1, MeaningStep
  <2>4. Abs(Append(SubSeq(b, 1, k), b[k + 1])) = Abs(MeaningUpTo(s, k + 1))
    BY <1>4, <2>2, <2>3 DEF Walk, Abs
  <2>5. Append(SubSeq(b, 1, k), b[k + 1]) = SubSeq(b, 1, k + 1)
    BY <2>1
  <2>6. QED
    BY <2>4, <2>5 DEF Abs
<1>5. MeaningUpTo(s, Len(b)) = SubSeq(b, 1, Len(b))
  <2>1. SUFFICES ASSUME Len(b) \in Bad PROVE FALSE
    BY <1>1
  <2>2. Bad \subseteq Nat /\ Bad # {}
    BY <2>1
  <2>3. PICK m \in Bad : \A k \in Bad : m <= k
    BY <2>2, LeastNatural
  <2>4. m \in 0..Len(b) /\ m # 0
    BY <1>2, <1>3, <2>3, Zenon
  <2>5. m - 1 \in 0..Len(b) /\ m - 1 < Len(b) /\ m - 1 \notin Bad /\ (m - 1) + 1 = m
    <3>1. m - 1 \in 0..Len(b) /\ m - 1 < Len(b) /\ (m - 1) + 1 = m /\ ~(m <= m - 1)
      BY <2>4
    <3>2. QED
      BY <2>3, <3>1
  <2>6. MeaningUpTo(s, m) = SubSeq(b, 1, m)
    BY <1>4, <2>5
  <2>7. QED
    BY <2>3, <2>6
<1>6. SubSeq(b, 1, Len(b)) = b
  OBVIOUS
<1>7. QED
  BY <1>5, <1>6 DEF s

(* The walk of a relative argument from a path of names leads to what the  *)
(* two mean together.                                                      *)
LEMMA WalkMeans ==
  ASSUME NEW C, NEW b \in Seq(C), NEW t \in Seq(C),
         \A i \in 1..Len(b) : b[i] \notin {".", ".."}
  PROVE  FoldLeft(Walk, Abs(b), t) = Abs(Meaning(b \o t))
<1> DEFINE s == b \o t
           l == Len(b)
<1>1. s \in Seq(C) /\ l \in Nat /\ Len(t) \in Nat /\ Len(s) = l + Len(t)
      /\ \A j \in 1..Len(t) : s[l + j] = t[j]
  OBVIOUS
<1>2. MeaningUpTo(s, l) = b
  BY MeaningOfNames
<1>3. PICK g : /\ WalkFun(g, Abs(b), t)
               /\ FoldLeft(Walk, Abs(b), t) = g[DOMAIN t]
  BY FoldFixpoint
<1>4. DOMAIN t = 1..Len(t)
  OBVIOUS
<1> HIDE DEF s, l
<1> DEFINE Good(j) == g[1..j] = Abs(MeaningUpTo(s, l + j))
           Bad == {j \in 0..Len(t) : ~Good(j)}
<1>5. Good(0)
  <2>1. {} \in SUBSET DOMAIN t /\ WalkStep(g, Abs(b), t, {}) = Abs(b)
    BY DEF WalkStep
  <2>2. g[{}] = Abs(b)
    BY <1>3, <2>1 DEF WalkFun
  <2>3. 1..0 = {} /\ l + 0 = l
    BY <1>1
  <2>4. QED
    BY <1>2, <2>2, <2>3
<1>6. ASSUME NEW j \in 0..Len(t), j < Len(t), Good(j) PROVE Good(j + 1)
  <2>1. j + 1 \in Nat /\ 1..(j + 1) \subseteq 1..(j + 1) /\ j + 1 \in 1..(j + 1)
    OBVIOUS
  <2>2. Max(1..(j + 1)) = j + 1
    BY <2>1, MaxUpTo
  <2>3. (1..(j + 1)) \ {j + 1} = 1..j /\ 1..(j + 1) # {}
    OBVIOUS
  <2>4. 1..(j + 1) \in SUBSET DOMAIN t
    BY <1>1, <1>4, <1>6
  <2>5. g[1..(j + 1)] = WalkStep(g, Abs(b), t, 1..(j + 1))
    BY <1>3, <2>4 DEF WalkFun
  <2>6. g[1..(j + 1)] = Walk(g[1..j], t[j + 1])
    BY <2>2, <2>3, <2>5 DEF WalkStep
  <2>7. l + j \in 0..Len(s) /\ l + j < Len(s) /\ (l + j) + 1 = l + (j + 1) /\ j + 1 \in 1..Len(t)
    BY <1>1, <1>6
  <2>8. Walk(Abs(MeaningUpTo(s, l + j)), s[(l + j) + 1]) = Abs(MeaningUpTo(s, (l + j) + 1))
    BY <1>1, <2>7, MeaningStep
  <2>9. QED
    BY <1>1, <1>6, <2>6, <2>7, <2>8
<1>7. Good(Len(t))
  <2> HIDE DEF Good
  <2>1. SUFFICES ASSUME Len(t) \in Bad PROVE FALSE
    BY <1>1
  <2>2. Bad \subseteq Nat /\ Bad # {}
    BY <2>1
  <2>3. PICK m \in Bad : \A k \in Bad : m <= k
    BY <2>2, LeastNatural
  <2>4. m # 0 /\ m - 1 \in 0..Len(t) /\ m - 1 < Len(t) /\ m - 1 \notin Bad /\ (m - 1) + 1 = m
    BY <1>5, <2>3
  <2>5. Good(m)
    BY <1>6, <2>4
  <2>6. QED
    BY <2>3, <2>5
<1>8. FoldLeft(Walk, Abs(b), t) = Abs(MeaningUpTo(s, Len(s)))
  BY <1>1, <1>3, <1>4, <1>7
<1>9. QED
  BY <1>8 DEF Meaning, s

(* fs_resolve from a directory of names leads where the argument means. *)
LEMMA ResolveMeans ==
  ASSUME FsInv, ~sh_cwd.slash, {".", ".."} \cap ToSet(sh_cwd.comps) = {},
         NEW a \in Args, ~a.abs, a # Typed(<<"~">>, 0)
  PROVE  fs_resolve(sh_cwd, a) = Abs(Meaning(sh_cwd.comps \o a.comps))
<1> DEFINE b == sh_cwd.comps
           t == a.comps
<1>1. sh_cwd \in [comps: Seq(Components), slash: BOOLEAN]
  BY DEF FsInv, Path, PathOver
<1>2. b \in Seq(Components) /\ sh_cwd = Abs(b)
  BY <1>1 DEF Abs
<1>3. t \in Seq(Components)
  <2>1. Abs(a.comps) \in PathOver(Components)
    BY ArgPath DEF FsInv, Path
  <2>2. QED
    BY <2>1 DEF Abs, PathOver
<1>4. \A i \in 1..Len(b) : b[i] \notin {".", ".."}
  <2> HIDE DEF b, t
  <2>1. SUFFICES ASSUME NEW i \in 1..Len(b) PROVE b[i] \notin {".", ".."}
    OBVIOUS
  <2>2. {".", ".."} \cap ToSet(b) = {}
    BY DEF b
  <2>3. b[i] \in ToSet(b)
    BY <1>2, <2>1 DEF ToSet
  <2>4. QED
    BY <2>2, <2>3
<1> DEFINE w == Meaning(b \o t)
<1>5. FoldLeft(Walk, sh_cwd, t) = Abs(w)
  <2> HIDE DEF b, t
  <2>1. FoldLeft(Walk, Abs(b), t) = Abs(Meaning(b \o t))
    BY <1>2, <1>3, <1>4, WalkMeans
  <2>2. QED
    BY <1>2, <2>1
<1>6. path_normalize(Abs(w)) = Abs(w)
  <2> HIDE DEF w
  <2> DEFINE p == Abs(w)
             q == path_normalize(p)
  <2>1. p \in [comps: {w}, slash: BOOLEAN] /\ p.slash = FALSE
    BY DEF Abs
  <2> HIDE DEF p
  <2>2. q \in [comps: {w}, slash: BOOLEAN] /\ q.slash = FALSE
    BY <2>1 DEF path_normalize
  <2> HIDE DEF q
  <2>3. q = [comps |-> w, slash |-> FALSE] /\ p = [comps |-> w, slash |-> FALSE]
    BY <2>1, <2>2
  <2>4. QED
    BY <2>3 DEF p, q
<1>7. QED
  BY <1>5, <1>6 DEF fs_resolve

(* A relative argument is resolved to what its components mean, from every *)
(* directory whose name has no slash at its end and no "." or "..": for    *)
(* any arguments and any depth of the tree.                                *)
THEOREM PathsCorrect == Spec => []ResolvesAsMeant
<1>1. Init => FsInv
  BY InitFs
<1>2. FsInv /\ [Next]_vars => FsInv'
  BY FsNext
<1>3. FsInv => ResolvesAsMeant
  BY ResolveMeans DEF ResolvesAsMeant
<1>4. QED
  BY <1>1, <1>2, <1>3, PTL DEF Spec
-----------------------------------------------------------------------------
(* What ls shows. *)

(* The built-in files lie at paths. *)
LEMMA VfsPaths == VFS \subseteq Path
<1>1. SUFFICES ASSUME NEW p \in VFS PROVE p \in Path
  OBVIOUS
<1>2. p \in PathOver(ToSet(p.comps))
  BY FsAssumption DEF VFS
<1>3. ToSet(p.comps) \subseteq Components
  BY DEF Components
<1>4. p.comps \in Seq(Components)
  BY <1>2, <1>3, SeqMonotonic DEF PathOver
<1>5. QED
  BY <1>2, <1>4 DEF Path, PathOver

(* A prefix, element by element. *)
LEMMA PrefixIs ==
  ASSUME NEW S, NEW s \in Seq(S), NEW u \in Seq(S), Len(s) <= Len(u)
  PROVE  IsPrefix(s, u) <=> \A j \in 1..Len(s) : s[j] = u[j]
<1> DEFINE n == Len(s)
           v == SubSeq(u, 1, n)
<1>1. n \in Nat /\ Len(u) \in Nat /\ s \in [1..n -> S] /\ \A j \in 1..n : u[j] \in S
  OBVIOUS
<1>2. v \in Seq(S) /\ Len(v) = n /\ \A j \in 1..n : v[j] = u[j]
  BY <1>1
<1>3. IsPrefix(s, u) <=> s = v
  BY <1>1, SubSeqFull DEF IsPrefix
<1> HIDE DEF v, n
<1>4. v \in [1..n -> S]
  BY <1>1, <1>2
<1>5. s = v <=> \A j \in 1..n : s[j] = v[j]
  BY <1>1, <1>4
<1>6. QED
  BY <1>2, <1>3, <1>5 DEF n

(* A path below another goes through the first name below it. *)
LEMMA FirstBelow ==
  ASSUME NEW t \in Path, NEW p \in Path, Below(t, p)
  PROVE  LET q == Abs(SubSeq(p.comps, 1, Len(t.comps) + 1))
         IN  /\ Below(t, q) /\ ~q.slash /\ Len(q.comps) = Len(t.comps) + 1
             /\ Entry(t, q) = Entry(t, p)
<1> DEFINE C == Components
           n == Len(t.comps) + 1
           c == SubSeq(p.comps, 1, n)
           q == Abs(c)
<1>1. t.comps \in Seq(C) /\ p.comps \in Seq(C) /\ n \in 1..Len(p.comps)
      /\ Len(t.comps) \in Nat /\ IsPrefix(t.comps, p.comps)
  BY DEF Path, PathOver, Below
<1>2. c \in Seq(C) /\ Len(c) = n /\ \A j \in 1..n : c[j] = p.comps[j]
  BY <1>1
<1>3. q.comps = c /\ ~q.slash
  BY DEF Abs
<1>4. IsPrefix(t.comps, c)
  <2>1. \A j \in 1..Len(t.comps) : t.comps[j] = p.comps[j]
    BY <1>1, PrefixIs
  <2>2. \A j \in 1..Len(t.comps) : t.comps[j] = c[j]
    BY <1>1, <1>2, <2>1
  <2>3. Len(t.comps) <= Len(c)
    BY <1>1, <1>2
  <2> HIDE DEF c, C
  <2>4. QED
    BY <1>1, <1>2, <2>2, <2>3, PrefixIs
<1> HIDE DEF c
<1>5. Below(t, q) /\ Len(q.comps) = n /\ n \in 1..n /\ q.comps[n] = p.comps[n]
  <2> HIDE DEF q
  <2>1. QED
    BY <1>1, <1>2, <1>3, <1>4 DEF Below
<1>6. Entry(t, q) = q.comps[n] /\ Entry(t, p) = p.comps[n]
  <2> HIDE DEF q
  <2>1. QED
    BY <1>5 DEF Entry
<1>7. QED
  BY <1>3, <1>5, <1>6 DEF c

(* The files ls goes through are those that can be found and are not cut   *)
(* off; a built-in file further down is shown by the name of the directory *)
(* that leads to it.                                                       *)
LEMMA LsShows ==
  ASSUME FsInv, NEW t \in Path, VFS \subseteq Path
  PROVE  fs_ls(t) \ {""} = {Entry(t, p) : p \in FoundBelow(t)} \ {""}
<1>1. ASSUME NEW p \in VnodesIn(t) PROVE p \in FoundBelow(t)
  <2>1. p \in VFS /\ ~fs_is_deleted(p) /\ ~t.slash /\ Below(t, p)
        /\ Len(p.comps) = Len(t.comps) + 1 /\ p \in Path
    BY <1>1 DEF VnodesIn
  <2>2. p = Abs(SubSeq(p.comps, 1, Len(t.comps) + 1))
    <3>1. p.comps \in Seq(Components) /\ p = Abs(p.comps)
      BY <2>1, FsAssumption DEF Path, PathOver, Abs, VFS
    <3>2. SubSeq(p.comps, 1, Len(p.comps)) = p.comps
      BY <3>1
    <3>3. QED
      BY <2>1, <3>1, <3>2
  <2>3. ~CutOff(t, p) /\ Exists(p) /\ p \in Paths
    BY <2>1, <2>2 DEF CutOff, fs_find_vnode, Exists, Paths
  <2>4. QED
    BY <2>1, <2>3 DEF FoundBelow
<1>2. ASSUME NEW p \in MemFilesIn(t), Below(t, p) PROVE p \in FoundBelow(t)
  <2>1. PICK k \in DOMAIN memfs : Live(memfs, k) /\ memfs[k].path = p
    BY <1>2 DEF MemFilesIn
  <2>2. InMemfs(p)
    BY <2>1, FindLive DEF FsInv, Tables, InMemfs
  <2>3. p \in Paths
    BY <2>1 DEF Paths, SlotPaths
  <2>4. QED
    BY <1>2, <2>2, <2>3 DEF FoundBelow, Exists, CutOff
<1>3. ASSUME NEW p \in FoundBelow(t)
      PROVE  \E q \in VnodesIn(t) \cup MemFilesIn(t) : Below(t, q) /\ Entry(t, q) = Entry(t, p)
  <2>1. Below(t, p)
    BY <1>3 DEF FoundBelow
  <2>2. CASE InMemfs(p)
    <3>1. PICK k \in DOMAIN memfs : Live(memfs, k) /\ memfs[k].path = p
      BY <2>2, FoundSlot
    <3>2. QED
      BY <2>1, <3>1 DEF MemFilesIn
  <2>3. CASE ~InMemfs(p)
    <3> DEFINE q == Abs(SubSeq(p.comps, 1, Len(t.comps) + 1))
    <3>1. p \in VFS /\ p \in Path /\ ~t.slash /\ fs_find_vnode(q)
      BY <1>3, <2>3 DEF FoundBelow, CutOff, Exists, fs_find_vnode
    <3>2. Below(t, q) /\ Len(q.comps) = Len(t.comps) + 1 /\ Entry(t, q) = Entry(t, p)
      BY <2>1, <3>1, FirstBelow
    <3> HIDE DEF q
    <3>3. q \in VnodesIn(t)
      BY <3>1, <3>2 DEF VnodesIn, fs_find_vnode
    <3>4. QED
      BY <3>2, <3>3
  <2>4. QED
    BY <2>2, <2>3
<1>4. \A p : ~Below(t, p) => Entry(t, p) = ""
  BY DEF Entry
<1>5. fs_ls(t) = {Entry(t, p) : p \in VnodesIn(t) \cup MemFilesIn(t)}
  BY DEF fs_ls
<1>6. \A p \in VnodesIn(t) : Below(t, p)
  BY DEF VnodesIn
<1>7. QED
  BY <1>1, <1>2, <1>3, <1>4, <1>5, <1>6

(* A directory that ls lists shows what can be found below it: its loops   *)
(* over the two tables, with tests of their own for prefixes, deleted      *)
(* names and further slashes, agree with memfs_find and fs_find_vnode, but *)
(* for the built-in files of a directory that was removed.                 *)
THEOREM ListingsCorrect == Spec => []LsAgrees
<1>1. Init => FsInv
  BY InitFs
<1>2. FsInv /\ [Next]_vars => FsInv'
  BY FsNext
<1>3. FsInv => LsAgrees
  <2>1. SUFFICES ASSUME FsInv, NEW t, LsLists(t)
                 PROVE  fs_ls(t) \ {""} = {Entry(t, p) : p \in FoundBelow(t)} \ {""}
    BY DEF LsAgrees
  <2>2. VFS \subseteq Path
    BY VfsPaths
  <2>3. t \in Path
    <3>1. CASE MemDir(t)
      <4>1. InMemfs(t)
        BY <3>1 DEF MemDir
      <4>2. PICK k \in DOMAIN memfs : memfs[k].path = t
        BY <2>1, <4>1, FoundSlot
      <4>3. memfs[k] \in MemFile
        BY <2>1, <4>2 DEF FsInv, Tables
      <4>4. QED
        BY <4>2, <4>3 DEF MemFile
    <3>2. CASE VnodeDir(t)
      BY <2>2, <3>2 DEF VnodeDir, fs_find_vnode
    <3>3. QED
      BY <2>1, <3>1, <3>2 DEF LsLists
  <2>4. QED
    BY <2>1, <2>2, <2>3, LsShows
<1>4. QED
  BY <1>1, <1>2, <1>3, PTL DEF Spec
-----------------------------------------------------------------------------
(* Home directories. *)

(* HomeComplete is about single steps of adduser, which copies what it     *)
(* finds of the skeleton: that it finds both files needs an invariant.     *)
(* rm protects them, and rmdir, which protects nothing, takes directories  *)
(* only, so the invariant says that they are none.                         *)
Skel == {SkelRc, SkelProfile}
SkelInv ==
  \A p \in Skel : \E k \in DOMAIN memfs :
    memfs[k].path = p /\ memfs[k].used /\ ~memfs[k].is_dir

(* The files of the skeleton are protected, being in /etc. *)
LEMMA SkelCritical ==
  ASSUME NEW p \in Skel
  PROVE  is_critical_path(p) /\ p.comps[1] = "etc" /\ Len(p.comps) = 3 /\ ~p.slash
<1>1. PICK f \in {".lashrc", ".lashrc-profile"} : p = Abs(<<"etc", "skel", f>>)
  BY DEF Skel, SkelRc, SkelProfile
<1>2. p.comps = <<"etc", "skel", f>> /\ p.slash = FALSE
  BY <1>1 DEF Abs
<1>3. IsPrefix(<<"etc">>, <<"etc", "skel", f>>)
  BY DEF IsPrefix
<1>4. is_critical_path(p)
  BY <1>2, <1>3, TreeAssumption DEF is_critical_path
<1>5. QED
  BY <1>2, <1>4

(* They are found, as no protected path is on the list of deleted names.   *)
LEMMA SkelFound ==
  ASSUME FsInv, SkelInv, NEW p \in Skel
  PROVE  InMemfs(p) /\ ~MemDir(p) /\ ~fs_is_deleted(p)
<1>1. PICK k \in DOMAIN memfs : memfs[k].path = p /\ memfs[k].used /\ ~memfs[k].is_dir
  BY DEF SkelInv
<1>2. ~fs_is_deleted(p)
  BY SkelCritical DEF FsInv, fs_is_deleted
<1>3. Live(memfs, k)
  BY <1>1, <1>2 DEF Live
<1>4. InMemfs(p)
  BY <1>1, <1>3, FindLive DEF FsInv, Tables, InMemfs
<1>5. memfs_find(memfs, p) = k
  BY <1>1, <1>3, <1>4, FoundSlot DEF FsInv, Tables, Unique
<1>6. QED
  BY <1>1, <1>2, <1>4, <1>5 DEF MemDir

(* The text of a file is all that PutFile changes in the slots there are.  *)
LEMMA PutKeepsKinds ==
  ASSUME NEW m \in Tables, NEW p \in Path, NEW text \in Contents, NEW k \in DOMAIN m
  PROVE  LET n == PutFile(m, p, text)
         IN  /\ k \in DOMAIN n /\ n[k].path = m[k].path /\ n[k].used = m[k].used
             /\ n[k].is_dir = m[k].is_dir
<1> DEFINE r == memfs_create(m, p)
<1>1. /\ Wrote(m, r.fs, {p})
      /\ r.at # 0 => r.at \in DOMAIN r.fs
      /\ r.at # 0 /\ memfs_find(m, p) = 0 => r.fs = Append(m, Slot(p)) /\ r.at = Len(m) + 1
      /\ memfs_find(m, p) # 0 => r.fs = m /\ r.at = memfs_find(m, p)
      /\ r.at = 0 => r.fs = m
  <2>1. LET q == memfs_create(m, p)
        IN  /\ Wrote(m, q.fs, {p})
            /\ q.at # 0 => /\ q.at \in DOMAIN q.fs
                           /\ q.fs[q.at].path = p /\ q.fs[q.at].used
            /\ q.at # 0 /\ memfs_find(m, p) = 0 =>
                 q.fs = Append(m, Slot(p)) /\ q.at = Len(m) + 1
            /\ memfs_find(m, p) # 0 => q.fs = m /\ q.at = memfs_find(m, p)
            /\ q.at = 0 => q.fs = m
    BY CreateWrote
  <2>2. QED
    BY <2>1
<1>2. m \in Seq(MemFile) /\ r.fs \in Seq(MemFile)
  BY <1>1 DEF Wrote, Tables
<1> HIDE DEF r
<1>3. k \in DOMAIN r.fs /\ r.fs[k] = m[k]
  BY <1>1, <1>2
<1>4. CASE r.at = 0
  BY <1>3, <1>4 DEF PutFile, r
<1>5. CASE r.at # 0
  <2> DEFINE o == r.fs[r.at]
             f == [o EXCEPT !.content = text]
  <2>1. o \in MemFile
    BY <1>1, <1>2, <1>5
  <2>2. f.path = o.path /\ f.used = o.used /\ f.is_dir = o.is_dir
    BY <2>1 DEF MemFile
  <2>3. PutFile(m, p, text) = [r.fs EXCEPT ![r.at] = f]
    BY <1>5 DEF PutFile, r
  <2> HIDE DEF f
  <2>4. QED
    BY <1>1, <1>2, <1>3, <1>5, <2>2, <2>3
<1>6. QED
  BY <1>4, <1>5

(* Of the commands that name a file of the skeleton only an editor goes    *)
(* ahead, and rm with a panic.                                             *)
LEMMA SkelNamed ==
  ASSUME FsInv, SkelInv, NEW p \in Skel, Names(p)
  PROVE  memfs' = memfs \/ \E text \in Texts : memfs' = PutFile(memfs, p, text)
<1>1. InMemfs(p) /\ ~MemDir(p) /\ Exists(p) /\ is_critical_path(p)
  BY SkelFound, SkelCritical DEF Exists
<1>2. CASE \E a \in Args :
             /\ fs_resolve(sh_cwd, a) = p
             /\ \/ fs_touch(a)
                \/ cmd_mkdir(a)
                \/ cmd_rmdir(a)
                \/ \E text \in Texts : editor_save(a, text)
                \/ \E r, n \in BOOLEAN : fs_rm(a, r, n)
  <2>1. PICK a \in Args :
             /\ fs_resolve(sh_cwd, a) = p
             /\ \/ fs_touch(a)
                \/ cmd_mkdir(a)
                \/ cmd_rmdir(a)
                \/ \E text \in Texts : editor_save(a, text)
                \/ \E r, n \in BOOLEAN : fs_rm(a, r, n)
    BY <1>2
  <2>2. ~fs_touch(a) /\ ~cmd_mkdir(a) /\ ~cmd_rmdir(a)
    BY <1>1, <2>1 DEF fs_touch, cmd_mkdir, cmd_rmdir
  <2>3. ASSUME NEW r \in BOOLEAN, NEW n \in BOOLEAN, fs_rm(a, r, n) PROVE memfs' = memfs
    BY <1>1, <2>1, <2>3 DEF fs_rm, rm_panics, rm_memfile, rm_vnode
  <2>4. ASSUME NEW text \in Texts, editor_save(a, text)
        PROVE  memfs' = PutFile(memfs, p, text)
    BY <2>1, <2>4 DEF editor_save
  <2>5. QED
    BY <2>1, <2>2, <2>3, <2>4
<1>3. /\ \A u \in UserNames : p \notin {Home(u), HomeRc(u), HomeProfile(u)}
      /\ \A k \in Pkgs : p # UsrBin(k)
      /\ p # MCFG_PATH /\ p # NetLog
  <2>1. p.comps[1] = "etc" /\ Len(p.comps) = 3 /\ ~p.slash
    BY SkelCritical
  <2>2. \A u : HomeRc(u).comps[1] = "home" /\ HomeProfile(u).comps[1] = "home"
    BY DEF HomeRc, HomeProfile, Abs
  <2>3. \A u : Home(u).comps = <<"home", u>>
    BY DEF Home, WithSlash, Abs
  <2>4. \A k : UsrBin(k).comps[1] = "usr"
    BY DEF UsrBin, Abs
  <2>5. Len(MCFG_PATH.comps) = 2 /\ NetLog.comps[1] = "var"
    BY DEF MCFG_PATH, NetLog, Abs
  <2>6. \A u : Len(<<"home", u>>) = 2
    OBVIOUS
  <2>7. QED
    BY <2>1, <2>2, <2>3, <2>4, <2>5, <2>6
<1>4. QED
  BY <1>2, <1>3, Zenon DEF Names

(* No command takes a file of the skeleton away. *)
LEMMA SkelKept ==
  ASSUME FsInv, SkelInv, FsStep
  PROVE  SkelInv'
<1> SUFFICES ASSUME NEW p \in Skel
             PROVE  \E k \in DOMAIN memfs' :
                      memfs'[k].path = p /\ memfs'[k].used /\ ~memfs'[k].is_dir
  BY DEF SkelInv, Skel
<1>1. PICK k \in DOMAIN memfs : memfs[k].path = p /\ memfs[k].used /\ ~memfs[k].is_dir
  BY DEF SkelInv
<1>2. CASE memfs' = memfs
  BY <1>1, <1>2
<1>3. CASE Names(p)
  <2>1. ASSUME NEW text \in Texts, memfs' = PutFile(memfs, p, text)
        PROVE  k \in DOMAIN memfs' /\ memfs'[k].path = p /\ memfs'[k].used
               /\ ~memfs'[k].is_dir
    <3>1. p \in Path /\ text \in Contents
      BY KernelPaths DEF Skel, Contents
    <3>2. memfs \in Tables
      BY DEF FsInv
    <3>3. /\ k \in DOMAIN memfs' /\ memfs'[k].path = memfs[k].path
          /\ memfs'[k].used = memfs[k].used /\ memfs'[k].is_dir = memfs[k].is_dir
      BY <2>1, <3>1, <3>2, PutKeepsKinds
    <3>4. QED
      BY <1>1, <3>3
  <2>2. QED
    BY <1>2, <1>3, <2>1, SkelNamed
<1>4. CASE ~Names(p) /\ WriteStep
  <2>1. PICK B : Wrote(memfs, memfs', B) /\ \A q \in B : Names(q)
    BY <1>4 DEF WriteStep
  <2>2. p \notin B
    BY <1>4, <2>1
  <2>3. memfs \in Seq(MemFile) /\ memfs' \in Seq(MemFile) /\ Len(memfs) <= Len(memfs')
    BY <2>1 DEF FsInv, Wrote, Tables
  <2>4. k \in DOMAIN memfs' /\ memfs'[k] = memfs[k]
    BY <1>1, <2>1, <2>2, <2>3 DEF Wrote
  <2>5. QED
    BY <1>1, <2>4
<1>5. CASE ~Names(p) /\ ClearStep
  <2>1. PICK j \in DOMAIN memfs : Cleared(memfs, memfs', j) /\ Names(memfs[j].path)
    BY <1>5 DEF ClearStep
  <2>2. j # k
    BY <1>1, <1>5, <2>1
  <2>3. QED
    BY <1>1, <2>1, <2>2 DEF Cleared
<1>6. CASE RebootStep \/ PowerStep
  <2> DEFINE d == [Slot(SkelDir) EXCEPT !.content = DirMark]
             a == [Slot(SkelRc) EXCEPT !.content = RcText]
             b == [Slot(SkelProfile) EXCEPT !.content = ProfileText]
  <2>1. a.path = SkelRc /\ a.used /\ ~a.is_dir
    BY DEF Slot, SkelRc, Abs
  <2>2. b.path = SkelProfile /\ b.used /\ ~b.is_dir
    BY DEF Slot, SkelProfile, Abs
  <2>3. memfs' = <<d, a, b>>
    BY <1>6, SkelIs DEF RebootStep, PowerStep
  <2> HIDE DEF d, a, b
  <2>4. /\ 2 \in DOMAIN memfs' /\ memfs'[2] = a
        /\ 3 \in DOMAIN memfs' /\ memfs'[3] = b
    BY <2>3
  <2>5. QED
    BY <2>1, <2>2, <2>4 DEF Skel
<1>7. QED
  BY <1>2, <1>3, <1>4, <1>5, <1>6 DEF FsStep, SameFiles, DeleteStep

(* With a slot left a write ends in a slot of the name, and takes no more  *)
(* than that one.                                                          *)
LEMMA PutMakes ==
  ASSUME NEW m \in Tables, NEW p \in Path, NEW text \in Contents, Len(m) < MEMFS_MAX,
         NEW n \in {PutFile(m, p, text), PutDir(m, p)}
  PROVE  /\ Len(n) <= Len(m) + 1 /\ n \in Tables
         /\ \E k \in DOMAIN n : n[k].path = p /\ n[k].used
<1> DEFINE r == memfs_create(m, p)
<1>1. m \in Seq(MemFile) /\ Len(m) \in Nat
  BY DEF Tables
<1>2. /\ Wrote(m, r.fs, {p})
      /\ r.at # 0 => /\ r.at \in DOMAIN r.fs
                     /\ r.fs[r.at].path = p /\ r.fs[r.at].used
      /\ r.at # 0 /\ memfs_find(m, p) = 0 => r.fs = Append(m, Slot(p))
      /\ memfs_find(m, p) # 0 => r.fs = m
  <2>1. LET q == memfs_create(m, p)
        IN  /\ Wrote(m, q.fs, {p})
            /\ q.at # 0 => /\ q.at \in DOMAIN q.fs
                           /\ q.fs[q.at].path = p /\ q.fs[q.at].used
            /\ q.at # 0 /\ memfs_find(m, p) = 0 =>
                 q.fs = Append(m, Slot(p)) /\ q.at = Len(m) + 1
            /\ memfs_find(m, p) # 0 => q.fs = m /\ q.at = memfs_find(m, p)
            /\ q.at = 0 => q.fs = m
    BY CreateWrote
  <2>2. QED
    BY <2>1
<1>3. r.at # 0
  <2>1. CASE memfs_find(m, p) # 0
    BY <2>1 DEF memfs_create
  <2>2. CASE memfs_find(m, p) = 0
    BY <1>1, <2>2, FsAssumption DEF memfs_create
  <2>3. QED
    BY <2>1, <2>2
<1> HIDE DEF r
<1>4. r.fs \in Seq(MemFile) /\ Len(r.fs) <= Len(m) + 1
  BY <1>1, <1>2, <1>3 DEF Wrote, Tables
<1>5. r.fs[r.at] \in MemFile
  BY <1>2, <1>3, <1>4
<1>6. PICK e : n = [r.fs EXCEPT ![r.at] = e] /\ e.path = p /\ e.used
  <2> DEFINE o == r.fs[r.at]
             f == [o EXCEPT !.content = text]
             d == [o EXCEPT !.is_dir = TRUE, !.content = DirMark]
  <2>1. f.path = p /\ f.used /\ d.path = p /\ d.used
    BY <1>2, <1>3, <1>5 DEF MemFile
  <2>2. /\ PutFile(m, p, text) = [r.fs EXCEPT ![r.at] = f]
        /\ PutDir(m, p) = [r.fs EXCEPT ![r.at] = d]
    BY <1>3 DEF PutFile, PutDir, r
  <2> HIDE DEF f, d
  <2>3. QED
    BY <2>1, <2>2
<1>7. Wrote(m, n, {p})
  BY PutWrote
<1>8. n \in Tables /\ n \in Seq(MemFile)
  BY <1>7 DEF Wrote, Tables
<1>9. r.at \in DOMAIN n /\ n[r.at] = e /\ Len(n) = Len(r.fs)
  BY <1>2, <1>3, <1>4, <1>6, <1>8
<1>10. QED
  BY <1>4, <1>6, <1>8, <1>9

(* A file of the skeleton that is there is copied. *)
LEMMA CopyMakes ==
  ASSUME NEW m \in Tables, NEW from, NEW to \in Path, Len(m) < MEMFS_MAX, ~fs_is_deleted(from),
         NEW k \in DOMAIN m, m[k].path = from, m[k].used
  PROVE  LET n == Copied(m, from, to)
         IN  /\ Len(n) <= Len(m) + 1 /\ n \in Tables /\ Wrote(m, n, {to})
             /\ \E j \in DOMAIN n : n[j].path = to /\ n[j].used
<1>1. m \in Seq(MemFile) /\ Live(m, k)
  BY DEF Tables, Live
<1>2. memfs_find(m, from) \in DOMAIN m /\ memfs_find(m, from) # 0
  BY <1>1, FindLive
<1>3. PICK text \in Contents : Copied(m, from, to) = PutFile(m, to, text)
  <2>1. m[memfs_find(m, from)] \in MemFile
    BY <1>1, <1>2
  <2>2. m[memfs_find(m, from)].content \in Contents
    BY <2>1 DEF MemFile
  <2>3. QED
    BY <1>2, <2>2 DEF Copied
<1>4. PICK n : n = PutFile(m, to, text)
  OBVIOUS
<1>5. n \in {PutFile(m, to, text), PutDir(m, to)}
  BY <1>4
<1>6. /\ Len(n) <= Len(m) + 1 /\ n \in Tables
      /\ \E j \in DOMAIN n : n[j].path = to /\ n[j].used
  BY <1>5, PutMakes
<1>7. Wrote(m, n, {to})
  BY <1>4, PutWrote
<1>8. QED
  BY <1>3, <1>4, <1>6, <1>7

(* Slots stay where they are through a write. *)
LEMMA WroteSlot ==
  ASSUME NEW m \in Tables, NEW n, NEW B, Wrote(m, n, B), NEW p,
         \E k \in DOMAIN m : m[k].path = p /\ m[k].used
  PROVE  \E k \in DOMAIN n : n[k].path = p /\ n[k].used
<1>1. m \in Seq(MemFile) /\ n \in Seq(MemFile) /\ Len(m) <= Len(n)
  BY DEF Wrote, Tables
<1>2. DOMAIN m \subseteq DOMAIN n
  BY <1>1
<1>3. QED
  BY <1>2 DEF Wrote

(* adduser with three slots left makes both files. *)
LEMMA HomeMade ==
  ASSUME FsInv, SkelInv, NEW u \in UserNames, cmd_adduser(u), Len(memfs) + 3 <= MEMFS_MAX
  PROVE  Exists(HomeRc(u))' /\ Exists(HomeProfile(u))'
<1>1. {Home(u), HomeRc(u), HomeProfile(u)} \subseteq Path /\ DirMark \in Contents
  BY KernelPaths DEF Contents
<1>2. memfs \in Tables /\ Len(memfs) \in Nat /\ MEMFS_MAX \in Nat
  BY FsAssumption DEF FsInv, Tables
<1>3. ~fs_is_deleted(SkelRc) /\ ~fs_is_deleted(SkelProfile)
  BY SkelFound DEF Skel
<1>4. /\ \E k \in DOMAIN memfs : memfs[k].path = SkelRc /\ memfs[k].used
      /\ \E k \in DOMAIN memfs : memfs[k].path = SkelProfile /\ memfs[k].used
  BY DEF SkelInv, Skel
<1>5. PICK a : a = PutDir(memfs, Home(u))
  OBVIOUS
<1>6. Wrote(memfs, a, {Home(u)}) /\ a \in Tables /\ Len(a) <= Len(memfs) + 1 /\ Len(a) \in Nat
  <2>1. Len(memfs) < MEMFS_MAX
    BY <1>2
  <2>2. a \in {PutFile(memfs, Home(u), DirMark), PutDir(memfs, Home(u))}
    BY <1>5
  <2>3. a \in Tables /\ Len(a) <= Len(memfs) + 1
    BY <1>1, <1>2, <2>1, <2>2, PutMakes
  <2>4. Wrote(memfs, a, {Home(u)})
    BY <1>1, <1>2, <1>5, PutWrote
  <2>5. QED
    BY <2>3, <2>4 DEF Tables
<1>7. /\ \E k \in DOMAIN a : a[k].path = SkelRc /\ a[k].used
      /\ \E k \in DOMAIN a : a[k].path = SkelProfile /\ a[k].used
  <2>1. memfs \in Seq(MemFile) /\ a \in Seq(MemFile) /\ Len(memfs) <= Len(a)
    BY <1>2, <1>6 DEF Tables, Wrote
  <2>2. \A k \in DOMAIN memfs :
          k \in DOMAIN a /\ a[k].path = memfs[k].path /\ a[k].used = memfs[k].used
    BY <1>6, <2>1 DEF Wrote
  <2>3. QED
    BY <1>4, <2>2
<1>8. PICK b : b = Copied(a, SkelRc, HomeRc(u))
  OBVIOUS
<1>9. /\ Wrote(a, b, {HomeRc(u)}) /\ b \in Tables /\ Len(b) <= Len(a) + 1 /\ Len(b) \in Nat
      /\ \E k \in DOMAIN b : b[k].path = HomeRc(u) /\ b[k].used
  <2>1. PICK k \in DOMAIN a : a[k].path = SkelRc /\ a[k].used
    BY <1>7
  <2>2. Len(a) < MEMFS_MAX
    BY <1>2, <1>6
  <2>3. /\ Wrote(a, b, {HomeRc(u)}) /\ b \in Tables /\ Len(b) <= Len(a) + 1
        /\ \E j \in DOMAIN b : b[j].path = HomeRc(u) /\ b[j].used
    BY <1>1, <1>3, <1>6, <1>8, <2>1, <2>2, CopyMakes
  <2>4. QED
    BY <2>3 DEF Tables
<1>10. PICK c : c = Copied(b, SkelProfile, HomeProfile(u))
  OBVIOUS
<1>11. /\ Wrote(b, c, {HomeProfile(u)}) /\ c \in Tables
       /\ \E k \in DOMAIN c : c[k].path = HomeProfile(u) /\ c[k].used
  <2>1. PICK k \in DOMAIN b : b[k].path = SkelProfile /\ b[k].used
    BY <1>6, <1>9, <1>7, WroteSlot
  <2>2. Len(b) < MEMFS_MAX
    BY <1>2, <1>6, <1>9
  <2>3. QED
    BY <1>1, <1>3, <1>9, <1>10, <2>1, <2>2, CopyMakes
<1>12. \E k \in DOMAIN c : c[k].path = HomeRc(u) /\ c[k].used
  BY <1>9, <1>11, WroteSlot
<1>13. memfs' = c /\ deleted' = deleted /\ del_store' = del_store
  BY <1>5, <1>8, <1>10 DEF cmd_adduser, WithHome
<1>14. ~fs_is_deleted(HomeRc(u)) /\ ~fs_is_deleted(HomeProfile(u))
  <2>1. ToSet(del_store) \subseteq VFS /\ ToSet(deleted) \subseteq VFS
    BY DEF FsInv, ToSet
  <2>2. QED
    BY <2>1, TreeAssumption DEF fs_is_deleted
<1>15. ASSUME NEW p, ~fs_is_deleted(p), \E k \in DOMAIN c : c[k].path = p /\ c[k].used
       PROVE  Exists(p)'
  <2>1. PICK k \in DOMAIN c : c[k].path = p /\ c[k].used
    BY <1>15
  <2>2. c \in Seq(MemFile) /\ Live(c, k)
    BY <1>11, <1>15, <2>1 DEF Tables, Live
  <2>3. memfs_find(c, p) # 0
    BY <2>1, <2>2, FindLive
  <2>4. memfs_find(memfs, p)' = memfs_find(c, p)
    BY <1>13 DEF memfs_find, Matches, Live, fs_is_deleted
  <2>5. QED
    BY <2>3, <2>4 DEF Exists, InMemfs
<1>16. QED
  BY <1>11, <1>12, <1>14, <1>15

(* A user added while three slots are left has both files of the skeleton, *)
(* however often the name was used and its files were removed: a slot that *)
(* was given up or a deleted name never stands in the way.                 *)
THEOREM HomesCorrect == Spec => HomeComplete
<1>1. Init => FsInv /\ SkelInv
  <2>1. SUFFICES ASSUME Init PROVE SkelInv
    BY InitFs
  <2> DEFINE d == [Slot(SkelDir) EXCEPT !.content = DirMark]
             a == [Slot(SkelRc) EXCEPT !.content = RcText]
             b == [Slot(SkelProfile) EXCEPT !.content = ProfileText]
  <2>2. a.path = SkelRc /\ a.used /\ ~a.is_dir
    BY DEF Slot, SkelRc, Abs
  <2>3. b.path = SkelProfile /\ b.used /\ ~b.is_dir
    BY DEF Slot, SkelProfile, Abs
  <2>4. memfs = <<d, a, b>>
    BY <2>1 DEF Init
  <2> HIDE DEF d, a, b
  <2>5. /\ 2 \in DOMAIN memfs /\ memfs[2] = a
        /\ 3 \in DOMAIN memfs /\ memfs[3] = b
    BY <2>4
  <2>6. QED
    BY <2>2, <2>3, <2>5 DEF SkelInv, Skel
<1>2. (FsInv /\ SkelInv) /\ [Next]_vars => (FsInv /\ SkelInv)'
  BY FsNext, NextStep, SkelKept
<1>3. FsInv /\ SkelInv =>
        \A u \in UserNames : cmd_adduser(u) /\ Len(memfs) + 3 <= MEMFS_MAX
                               => Exists(HomeRc(u))' /\ Exists(HomeProfile(u))'
  BY HomeMade
<1>4. QED
  BY <1>1, <1>2, <1>3, PTL DEF Spec, HomeComplete
=============================================================================

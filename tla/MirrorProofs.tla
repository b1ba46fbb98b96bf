----------------------------- MODULE MirrorProofs -----------------------------
(***************************************************************************)
(* Proofs about MirrorFS, for any names, inodes and directories: the       *)
(* tables agree, an id keeps standing for its file, and readdir lists what *)
(* the directory holds.                                                    *)
(*                                                                         *)
(* Sound says what every operation keeps of the map; the operations are    *)
(* functions from maps to maps, and there is a lemma about each.  Keeps    *)
(* says more of the map they make: it continues the one they were given.   *)
(* Where one of them repeats a step (the children of a directory are       *)
(* entered one after the other) the proof looks at the first step that     *)
(* goes wrong.                                                             *)
(***************************************************************************)
EXTENDS MirrorFS, FiniteSetTheorems, SequenceTheorems, WellFoundedInduction, TLAPS

------------------------------------------------------------------------------
(* The order of paths, and the first of some.                              *)

\* Among natural numbers there is a least one.
LEMMA Smallest ==
    ASSUME NEW S, S \subseteq Nat, S # {}
    PROVE  \E n \in S : \A k \in S : n <= k
<1> DEFINE T == {0..n : n \in S}
<1>1. T \subseteq FiniteSubsetsOf(Nat)
  <2>1. \A n \in S : IsFiniteSet(0..n) /\ 0..n \subseteq Nat
    BY FS_Interval
  <2> QED
    BY <2>1 DEF FiniteSubsetsOf
<1>2. T # {}
  OBVIOUS
<1>3. PICK x \in T : \A y \in T : ~(<<y, x>> \in StrictSubsetOrdering(Nat))
  BY <1>1, <1>2, WFMin, FS_StrictSubsetOrderingWellFounded, Zenon
<1>4. PICK n \in S : x = 0..n
  OBVIOUS
<1>5. ASSUME NEW k \in S PROVE n <= k
  <2>1. ~(<<0..k, 0..n>> \in StrictSubsetOrdering(Nat))
    BY <1>3, <1>4
  <2>2. ~((0..k) \subseteq (0..n) /\ 0..k # 0..n)
    BY <2>1 DEF StrictSubsetOrdering
  <2>3. CASE k < n
    <3>1. n \in 0..n /\ n \notin 0..k
      BY <2>3
    <3> QED
      BY <2>2, <2>3, <3>1
  <2> QED
    BY <2>3
<1> QED
  BY <1>5

\* The indices of a path, and its elements.
LEMMA PathShape ==
    ASSUME NEW p \in Seq(Int)
    PROVE  /\ Len(p) \in Nat
           /\ DOMAIN p = 1..Len(p)
           /\ \A i \in 1..Len(p) : p[i] \in Int
BY LenProperties, ElementOfSeq

\* Of two paths one precedes the other.
LEMMA PathsOrdered ==
    ASSUME NEW p \in Seq(Int), NEW q \in Seq(Int), p # q
    PROVE  Precedes(p, q) \/ Precedes(q, p)
<1> DEFINE D == {i \in DOMAIN p \cap DOMAIN q : p[i] # q[i]}
<1>0. /\ Len(p) \in Nat /\ DOMAIN p = 1..Len(p) /\ \A i \in 1..Len(p) : p[i] \in Int
      /\ Len(q) \in Nat /\ DOMAIN q = 1..Len(q) /\ \A i \in 1..Len(q) : q[i] \in Int
  BY PathShape
<1>1. CASE D = {}
  <2>1. \A i \in DOMAIN p \cap DOMAIN q : p[i] = q[i]
    BY <1>1
  <2>2. CASE Len(p) = Len(q)
    <3>1. \A i \in 1..Len(p) : p[i] = q[i]
      BY <1>0, <2>1, <2>2
    <3>2. p = q
      BY <2>2, <3>1, SeqEqual
    <3> QED
      BY <3>2
  <2>3. CASE Len(p) < Len(q)
    BY <2>1, <2>3 DEF Precedes
  <2>4. CASE Len(q) < Len(p)
    BY <2>1, <2>4 DEF Precedes
  <2>5. Len(p) \in Int /\ Len(q) \in Int
    BY <1>0
  <2> QED
    BY <2>2, <2>3, <2>4, <2>5
<1>2. CASE D # {}
  <2>1. D \subseteq Nat
    BY <1>0
  <2>2. PICK i \in D : \A k \in D : i <= k
    BY <1>2, <2>1, Smallest
  <2>3. i \in Nat /\ i \in 1..Len(p) /\ i \in 1..Len(q)
    BY <1>0, <2>1, <2>2
  <2>4. \A j \in 1..(i - 1) : p[j] = q[j]
    <3> SUFFICES ASSUME NEW j \in 1..(i - 1), p[j] # q[j] PROVE FALSE
      OBVIOUS
    <3>1. j \in 1..Len(p) /\ j \in 1..Len(q) /\ ~(i <= j)
      BY <1>0, <2>3
    <3>2. j \in D
      BY <1>0, <3>1
    <3> QED
      BY <2>2, <3>1, <3>2
  <2>5. p[i] \in Int /\ q[i] \in Int /\ p[i] # q[i]
    BY <1>0, <2>2, <2>3
  <2>6. p[i] < q[i] \/ q[i] < p[i]
    BY <2>5
  <2>7. i \in DOMAIN p \cap DOMAIN q
    BY <1>0, <2>3
  <2> QED
    BY <2>4, <2>6, <2>7, Zenon DEF Precedes
<1> QED
  BY <1>1, <1>2

\* No path precedes itself.
LEMMA PathsStrict ==
    ASSUME NEW p \in Seq(Int)
    PROVE  ~Precedes(p, p)
BY DEF Precedes

\* Two paths have the same first n symbols.
Same(f, g, n) == \A j \in 1..n : f[j] = g[j]

\* Prefixes that agree with the same prefix agree.
LEMMA SameChained ==
    ASSUME NEW f, NEW g, NEW h, NEW k \in Int, NEW l \in Int, NEW n \in Int,
           Same(f, g, k), Same(g, h, l), n <= k, n <= l
    PROVE  Same(f, h, n)
BY DEF Same

\* Equal prefixes have equal symbols.
LEMMA SameAt ==
    ASSUME NEW f, NEW g, NEW n \in Int, NEW i \in Int, Same(f, g, n), 1 <= i, i <= n
    PROVE  f[i] = g[i]
BY DEF Same

\* What precedes a path precedes all it precedes.
LEMMA PathsTransitive ==
    ASSUME NEW p \in Seq(Int), NEW q \in Seq(Int), NEW r \in Seq(Int),
           Precedes(p, q), Precedes(q, r)
    PROVE  Precedes(p, r)
<1> DEFINE Shorter(f, g) == Len(f) < Len(g) /\ Same(f, g, Len(f))
           Less(f, g, i) == /\ i \in 1..Len(f) /\ i \in 1..Len(g)
                            /\ f[i] < g[i] /\ Same(f, g, i - 1)
<1>0. /\ Len(p) \in Nat /\ DOMAIN p = 1..Len(p) /\ \A i \in 1..Len(p) : p[i] \in Int
      /\ Len(q) \in Nat /\ DOMAIN q = 1..Len(q) /\ \A i \in 1..Len(q) : q[i] \in Int
      /\ Len(r) \in Nat /\ DOMAIN r = 1..Len(r) /\ \A i \in 1..Len(r) : r[i] \in Int
  BY PathShape
<1>1. Shorter(p, q) \/ \E i : Less(p, q, i)
  BY <1>0 DEF Precedes, Same
<1>2. Shorter(q, r) \/ \E i : Less(q, r, i)
  BY <1>0 DEF Precedes, Same
<1>3. (Shorter(p, r) \/ \E i : Less(p, r, i)) => Precedes(p, r)
  BY <1>0 DEF Precedes, Same
<1>4. CASE Shorter(p, q) /\ Shorter(q, r)
  BY <1>0, <1>3, <1>4, SameChained
<1>5. ASSUME Shorter(p, q), NEW i, Less(q, r, i) PROVE Precedes(p, r)
  <2>0. i \in Nat
    BY <1>0, <1>5
  <2>1. CASE i <= Len(p)
    <3>0. Same(p, q, Len(p)) /\ Len(p) \in Int /\ i \in Int /\ 1 <= i /\ i <= Len(p)
      BY <1>0, <1>5, <2>0, <2>1
    <3>1. p[i] = q[i]
      BY <3>0, SameAt
    <3>2. Same(p, r, i - 1)
      BY <1>0, <1>5, <2>0, <2>1, SameChained
    <3>3. Less(p, r, i)
      BY <1>0, <1>5, <2>0, <2>1, <3>1, <3>2
    <3> QED
      BY <1>3, <3>3
  <2>2. CASE Len(p) < i
    <3>1. Same(p, r, Len(p))
      BY <1>0, <1>5, <2>0, <2>2, SameChained
    <3>2. Shorter(p, r)
      BY <1>0, <1>5, <2>0, <2>2, <3>1
    <3> QED
      BY <1>3, <3>2
  <2> QED
    BY <1>0, <2>0, <2>1, <2>2
<1>6. ASSUME NEW i, Less(p, q, i), Shorter(q, r) PROVE Precedes(p, r)
  <2>0. i \in Nat
    BY <1>0, <1>6
  <2>1. Same(p, r, i - 1)
    BY <1>0, <1>6, <2>0, SameChained
  <2>a. Same(q, r, Len(q)) /\ Len(q) \in Int /\ i \in Int /\ 1 <= i /\ i <= Len(q)
    BY <1>0, <1>6, <2>0
  <2>2. q[i] = r[i]
    BY <2>a, SameAt
  <2>3. Less(p, r, i)
    BY <1>0, <1>6, <2>0, <2>1, <2>2
  <2> QED
    BY <1>3, <2>3
<1>7. ASSUME NEW i, Less(p, q, i), NEW k, Less(q, r, k) PROVE Precedes(p, r)
  <2>0. i \in Nat /\ k \in Nat
    BY <1>0, <1>7
  <2>1. CASE i <= k
    <3>1. Same(p, r, i - 1)
      BY <1>0, <1>7, <2>0, <2>1, SameChained
    <3>2. CASE i = k
      <4>1. p[i] \in Int /\ q[i] \in Int /\ r[i] \in Int /\ p[i] < q[i] /\ q[i] < r[i]
        BY <1>0, <1>7, <3>2
      <4>2. Less(p, r, i)
        BY <1>7, <3>1, <3>2, <4>1
      <4> QED
        BY <1>3, <4>2
    <3>3. CASE i < k
      <4>0. Same(q, r, k - 1) /\ k - 1 \in Int /\ i \in Int /\ 1 <= i /\ i <= k - 1
        BY <1>0, <1>7, <2>0, <3>3
      <4>1. q[i] = r[i]
        BY <4>0, SameAt
      <4>2. Less(p, r, i)
        BY <1>0, <1>7, <2>0, <3>1, <3>3, <4>1
      <4> QED
        BY <1>3, <4>2
    <3> QED
      BY <2>0, <2>1, <3>2, <3>3
  <2>2. CASE k < i
    <3>1. Same(p, r, k - 1)
      BY <1>0, <1>7, <2>0, <2>2, SameChained
    <3>0. Same(p, q, i - 1) /\ i - 1 \in Int /\ k \in Int /\ 1 <= k /\ k <= i - 1
      BY <1>0, <1>7, <2>0, <2>2
    <3>2. p[k] = q[k]
      BY <3>0, SameAt
    <3>3. Less(p, r, k)
      BY <1>0, <1>7, <2>0, <2>2, <3>1, <3>2
    <3> QED
      BY <1>3, <3>3
  <2> QED
    BY <2>0, <2>1, <2>2
<1> QED
  BY <1>1, <1>2, <1>4, <1>5, <1>6, <1>7

\* The names are interned once each.
InternOK(x) ==
    /\ x.intern \in Seq(Names)
    /\ \A i, j \in DOMAIN x.intern : x.intern[i] = x.intern[j] => i = j

\* Interned names are names.
LEMMA InternedNames ==
    ASSUME NEW x, InternOK(x)
    PROVE  Interned(x) \subseteq Names
BY ElementOfSeq DEF InternOK, Interned, ToSet

\* The symbols of a path are numbers that lead back to its names.
LEMMA SymbolsMean ==
    ASSUME NEW x, InternOK(x), NEW p \in Seq(Interned(x))
    PROVE  /\ Symbols(x, p) \in Seq(Int)
           /\ Len(Symbols(x, p)) = Len(p)
           /\ \A i \in 1..Len(p) : x.intern[Symbols(x, p)[i]] = p[i]
<1>1. Len(p) \in Nat /\ DOMAIN p = 1..Len(p) /\ \A i \in 1..Len(p) : p[i] \in Interned(x)
  BY LenProperties, ElementOfSeq
<1>2. DOMAIN x.intern \subseteq Int
  BY LenProperties DEF InternOK
<1>3. ASSUME NEW s \in Interned(x)
      PROVE  Symbol(x, s) \in Int /\ x.intern[Symbol(x, s)] = s
  <2>1. \E i \in DOMAIN x.intern : x.intern[i] = s
    BY DEF Interned, ToSet
  <2>2. Symbol(x, s) \in DOMAIN x.intern /\ x.intern[Symbol(x, s)] = s
    BY <2>1 DEF Symbol
  <2> QED
    BY <1>2, <2>2
<1>4. Symbols(x, p) = [i \in 1..Len(p) |-> Symbol(x, p[i])]
  BY <1>1 DEF Symbols
<1>5. \A i \in 1..Len(p) : Symbol(x, p[i]) \in Int
  BY <1>1, <1>3
<1>6. Symbols(x, p) \in Seq(Int) /\ Len(Symbols(x, p)) = Len(p)
  BY <1>1, <1>4, <1>5, IsASeq
<1>7. ASSUME NEW i \in 1..Len(p) PROVE x.intern[Symbols(x, p)[i]] = p[i]
  <2>1. Symbols(x, p)[i] = Symbol(x, p[i])
    BY <1>4
  <2>2. p[i] \in Interned(x)
    BY <1>1
  <2> QED
    BY <1>3, <2>1, <2>2
<1> QED
  BY <1>6, <1>7

\* Different paths have different symbols.
LEMMA SymbolsDiffer ==
    ASSUME NEW x, InternOK(x), NEW p \in Seq(Interned(x)), NEW q \in Seq(Interned(x)),
           Symbols(x, p) = Symbols(x, q)
    PROVE  p = q
<1>1. Len(p) = Len(q)
  BY SymbolsMean
<1>2. \A i \in 1..Len(p) : p[i] = q[i]
  BY <1>1, SymbolsMean
<1> QED
  BY <1>1, <1>2, SeqEqual

\* Finitely many paths of interned names have a first.
LEMMA FirstAlias ==
    ASSUME NEW x, InternOK(x), NEW S, IsFiniteSet(S), S # {}, S \subseteq Seq(Interned(x))
    PROVE  First(x, S) \in S
<1> DEFINE Before(q, p) == Precedes(Symbols(x, q), Symbols(x, p))
           B(p) == {q \in S : Before(q, p)}
           T == {B(p) : p \in S}
<1>1. T \subseteq FiniteSubsetsOf(S)
  <2>1. \A p \in S : B(p) \in SUBSET S
    OBVIOUS
  <2>2. \A p \in S : IsFiniteSet(B(p))
    BY <2>1, FS_Subset
  <2> QED
    BY <2>1, <2>2 DEF FiniteSubsetsOf
<1>2. T # {}
  OBVIOUS
<1>3. PICK t \in T : \A y \in T : ~(<<y, t>> \in StrictSubsetOrdering(S))
  BY <1>1, <1>2, WFMin, FS_StrictSubsetOrderingWellFounded, Zenon
<1>4. PICK p \in S : t = B(p)
  OBVIOUS
<1>5. ASSUME NEW q \in S \ {p} PROVE Before(p, q)
  <2> SUFFICES ASSUME ~Before(p, q) PROVE FALSE
    OBVIOUS
  <2>1. \A r \in S : Symbols(x, r) \in Seq(Int)
    BY SymbolsMean
  <2>2. Symbols(x, p) # Symbols(x, q)
    BY SymbolsDiffer
  <2>3. Before(q, p)
    BY <2>1, <2>2, PathsOrdered
  <2>4. q \in B(p) /\ q \notin B(q)
    BY <2>1, <2>3, PathsStrict
  <2>5. B(q) \subseteq B(p)
    <3> SUFFICES ASSUME NEW r \in B(q) PROVE Before(r, p)
      OBVIOUS
    <3> QED
      BY <2>1, <2>3, PathsTransitive
  <2>6. <<B(q), B(p)>> \in StrictSubsetOrdering(S)
    BY <2>4, <2>5 DEF StrictSubsetOrdering
  <2> QED
    BY <1>3, <1>4, <2>6
<1> QED
  BY <1>5 DEF First

------------------------------------------------------------------------------
(* What the operations keep of the map.                                    *)

Fields == {"next_fileid", "intern", "id_to_path", "path_to_id", "inode_to_id", "id_to_inode"}

\* An entry's name is one of its aliases, all made of the names K.
EntryOK(K, e) ==
    /\ DOMAIN e = {"name", "aliases", "ftype", "children"}
    /\ IsFiniteSet(e.aliases)
    /\ e.aliases \subseteq Seq(K)
    /\ e.name \in e.aliases
    /\ e.ftype \in {"reg", "dir"}

\* Ids are given out in order, so that none is given out twice.
EntriesOK(x) ==
    \A id \in DOMAIN x.id_to_path :
        /\ id \in Nat /\ id < x.next_fileid
        /\ EntryOK(Interned(x), x.id_to_path[id])
\* A path leads to an entry that has it as an alias.
PathsOK(x) ==
    \A p \in DOMAIN x.path_to_id :
        /\ p \in Seq(Interned(x))
        /\ x.path_to_id[p] \in DOMAIN x.id_to_path
        /\ p \in x.id_to_path[x.path_to_id[p]].aliases
\* Ids and inodes: each leads to the other, and both to the entry.
InodesOK(x) ==
    /\ DOMAIN x.id_to_inode = DOMAIN x.id_to_path
    /\ \A id \in DOMAIN x.id_to_inode :
           /\ x.id_to_inode[id] \in DOMAIN x.inode_to_id
           /\ x.inode_to_id[x.id_to_inode[id]] = id
    /\ \A i \in DOMAIN x.inode_to_id :
           /\ i \in Inodes
           /\ x.inode_to_id[i] \in DOMAIN x.id_to_path
           /\ x.id_to_inode[x.inode_to_id[i]] = i

Sound(x) ==
    /\ DOMAIN x = Fields
    /\ x.next_fileid \in Nat \ {0}
    /\ InternOK(x)
    /\ EntriesOK(x)
    /\ PathsOK(x)
    /\ InodesOK(x)

\* A path leads from one map to the other to the same file.
Stays(x, y, p) ==
    /\ p \in DOMAIN y.path_to_id
    /\ y.path_to_id[p] = x.path_to_id[p]
    /\ y.id_to_inode[x.path_to_id[p]] = x.id_to_inode[x.path_to_id[p]]

\* What a map keeps of an earlier one: the names it interned, and the inodes of
\* the ids it gave out; the ids it adds are new.
Continues(x, y) ==
    /\ x.next_fileid <= y.next_fileid
    /\ Interned(x) \subseteq Interned(y)
    /\ \A id \in DOMAIN y.id_to_inode :
           IF id \in DOMAIN x.id_to_inode
           THEN y.id_to_inode[id] = x.id_to_inode[id]
           ELSE id >= x.next_fileid

\* A sound map that comes of another.
Keeps(x, y) == Sound(y) /\ Continues(x, y)

\* A sound map comes of itself.
LEMMA KeepsItself ==
    ASSUME NEW x, Sound(x)
    PROVE  Keeps(x, x)
BY DEF Keeps, Continues, Sound

\* What comes of a map that comes of another comes of that.
LEMMA KeepsTwice ==
    ASSUME NEW x, NEW y, NEW z, Sound(x), Keeps(x, y), Keeps(y, z)
    PROVE  Keeps(x, z)
<1>1. /\ x.next_fileid \in Nat /\ y.next_fileid \in Nat /\ z.next_fileid \in Nat
      /\ x.next_fileid <= y.next_fileid /\ y.next_fileid <= z.next_fileid
  BY DEF Keeps, Sound, Continues
<1>2. ASSUME NEW id \in DOMAIN z.id_to_inode
      PROVE  IF id \in DOMAIN x.id_to_inode
             THEN z.id_to_inode[id] = x.id_to_inode[id]
             ELSE id >= x.next_fileid
  <2>1. id \in Nat
    BY DEF Keeps, Sound, InodesOK, EntriesOK
  <2>2. IF id \in DOMAIN y.id_to_inode
        THEN z.id_to_inode[id] = y.id_to_inode[id]
        ELSE id >= y.next_fileid
    BY DEF Keeps, Continues
  <2>3. id \in DOMAIN y.id_to_inode =>
            IF id \in DOMAIN x.id_to_inode
            THEN y.id_to_inode[id] = x.id_to_inode[id]
            ELSE id >= x.next_fileid
    BY DEF Keeps, Continues
  <2>4. id \in DOMAIN x.id_to_inode => id < x.next_fileid
    BY DEF Sound, InodesOK, EntriesOK
  <2> QED
    BY <1>1, <2>1, <2>2, <2>3, <2>4
<1>3. Interned(x) \subseteq Interned(z)
  BY DEF Keeps, Continues
<1> QED
  BY <1>1, <1>2, <1>3 DEF Keeps, Continues

\* A path of interned names stays one.
LEMMA PathsGrow ==
    ASSUME NEW x, NEW y, Keeps(x, y), NEW p \in Seq(Interned(x))
    PROVE  p \in Seq(Interned(y))
BY SeqMonotonic DEF Keeps, Continues

\* A map with the same interned names has the same names, and more.
LEMMA SameNames ==
    ASSUME NEW x, NEW y, y.intern = x.intern
    PROVE  Interned(y) = Interned(x) /\ (InternOK(x) => InternOK(y))
BY DEF Interned, InternOK

\* Interning a name: it is among those interned, and the tables stay as they are.
LEMMA InternMeans ==
    ASSUME NEW x, Sound(x), NEW s \in Names
    PROVE  LET y == Intern(x, s)
           IN  /\ Keeps(x, y)
               /\ s \in Interned(y)
               /\ y.next_fileid = x.next_fileid
               /\ y.id_to_path = x.id_to_path
               /\ y.path_to_id = x.path_to_id
               /\ y.id_to_inode = x.id_to_inode
<1>1. CASE s \in Interned(x)
  BY <1>1, KeepsItself DEF Intern
<1>2. CASE s \notin Interned(x)
  <2>1. PICK y, l : y = [x EXCEPT !.intern = Append(@, s)] /\ l = x.intern
    OBVIOUS
  <2>2. /\ DOMAIN y = Fields /\ y.intern = Append(l, s)
        /\ y.next_fileid = x.next_fileid
        /\ y.path_to_id = x.path_to_id
        /\ y.id_to_path = x.id_to_path
        /\ y.id_to_inode = x.id_to_inode
        /\ y.inode_to_id = x.inode_to_id
    BY <2>1 DEF Sound, Fields
  <2>3. l \in Seq(Names) /\ \A i, j \in DOMAIN l : l[i] = l[j] => i = j
    BY <2>1 DEF Sound, InternOK
  <2>4. PICK n : n = Len(l)
    OBVIOUS
  <2>5. /\ n \in Nat /\ DOMAIN l = 1..n
        /\ Append(l, s) \in Seq(Names)
        /\ DOMAIN Append(l, s) = 1..(n + 1)
        /\ \A i \in 1..n : Append(l, s)[i] = l[i]
        /\ Append(l, s)[n + 1] = s
    <3>1. n \in Nat /\ DOMAIN l = 1..n
      BY <2>3, <2>4, LenProperties
    <3>2. /\ Append(l, s) \in Seq(Names) /\ Len(Append(l, s)) = n + 1
          /\ \A i \in 1..n : Append(l, s)[i] = l[i]
          /\ Append(l, s)[n + 1] = s
      BY <2>3, <2>4, AppendProperties
    <3>3. DOMAIN Append(l, s) = 1..(n + 1)
      BY <3>2, LenProperties
    <3> QED
      BY <3>1, <3>2, <3>3
  <2>6. \A i \in 1..n : l[i] # s
    BY <1>2, <2>1, <2>5 DEF Interned, ToSet
  <2>7. \A i \in 1..(n + 1) : i \in 1..n \/ i = n + 1
    BY <2>5
  <2>8. InternOK(y)
    BY <2>2, <2>3, <2>5, <2>6, <2>7 DEF InternOK
  <2>9. Interned(y) = Interned(x) \cup {s}
    <3>1. Interned(y) = {Append(l, s)[i] : i \in 1..(n + 1)} /\ Interned(x) = {l[i] : i \in 1..n}
      BY <2>1, <2>2, <2>5 DEF Interned, ToSet
    <3>2. n + 1 \in 1..(n + 1) /\ \A i \in 1..n : i \in 1..(n + 1)
      BY <2>5
    <3> QED
      BY <2>5, <2>7, <3>1, <3>2
  <2>10. Seq(Interned(x)) \subseteq Seq(Interned(y))
    BY <2>9, SeqMonotonic
  <2>11. EntriesOK(y)
    <3>1. \A e : EntryOK(Interned(x), e) => EntryOK(Interned(y), e)
      BY <2>10 DEF EntryOK
    <3> QED
      BY <2>2, <3>1 DEF Sound, EntriesOK
  <2>12. PathsOK(y)
    BY <2>2, <2>10 DEF Sound, PathsOK
  <2>13. InodesOK(y)
    BY <2>2 DEF Sound, InodesOK
  <2>14. Sound(y)
    BY <2>2, <2>8, <2>11, <2>12, <2>13 DEF Sound
  <2>15. Continues(x, y)
    BY <2>2, <2>9 DEF Sound, Continues
  <2>16. Intern(x, s) = y
    BY <1>2, <2>1 DEF Intern
  <2> QED
    BY <2>2, <2>9, <2>14, <2>15, <2>16 DEF Keeps
<1> QED
  BY <1>1, <1>2

\* The entry of a file that keeps an alias.
LEMMA KeptMeans ==
    ASSUME NEW x, NEW S, NEW id, EntryOK(Interned(x), x.id_to_path[id]),
           PathsOf(x, S, id) = {} \/ Left(x, S, id) # {}, InternOK(x)
    PROVE  /\ EntryOK(Interned(x), Kept(x, S, id))
           /\ Kept(x, S, id).aliases = Left(x, S, id)
           /\ x.id_to_path[id].name \notin S => Kept(x, S, id).name = x.id_to_path[id].name
           /\ Kept(x, S, id).children = x.id_to_path[id].children
<1> DEFINE e == x.id_to_path[id]
           k == Kept(x, S, id)
<1> HIDE DEF e
<1>1. /\ DOMAIN e = {"name", "aliases", "ftype", "children"}
      /\ IsFiniteSet(e.aliases) /\ e.aliases \subseteq Seq(Interned(x))
      /\ e.name \in e.aliases /\ e.ftype \in {"reg", "dir"}
  BY DEF e, EntryOK
<1>2. k = [e EXCEPT !.aliases = Left(x, S, id),
                    !.name = IF @ \in PathsOf(x, S, id) THEN First(x, Left(x, S, id)) ELSE @]
  BY DEF e, Kept
<1>3. /\ DOMAIN k = DOMAIN e
      /\ k.aliases = Left(x, S, id)
      /\ k.name = IF e.name \in PathsOf(x, S, id) THEN First(x, Left(x, S, id)) ELSE e.name
      /\ k.ftype = e.ftype
      /\ k.children = e.children
  BY <1>1, <1>2
<1>4. Left(x, S, id) = e.aliases \ PathsOf(x, S, id)
  BY DEF e, Left
<1>5. Left(x, S, id) \in SUBSET e.aliases
  BY <1>4
<1>6. IsFiniteSet(Left(x, S, id)) /\ Left(x, S, id) \subseteq Seq(Interned(x))
  BY <1>1, <1>5, FS_Subset
<1>7. k.name \in Left(x, S, id)
  <2>1. CASE e.name \in PathsOf(x, S, id)
    <3>1. Left(x, S, id) # {}
      BY <2>1
    <3> QED
      BY <1>3, <1>6, <2>1, <3>1, FirstAlias
  <2>2. CASE e.name \notin PathsOf(x, S, id)
    BY <1>1, <1>3, <1>4, <2>2
  <2> QED
    BY <2>1, <2>2
<1>8. EntryOK(Interned(x), k)
  BY <1>1, <1>3, <1>6, <1>7 DEF EntryOK
<1>9. e.name \notin S => k.name = e.name
  BY <1>3 DEF PathsOf
<1> QED
  BY <1>3, <1>8, <1>9 DEF e

\* The tables of a map without some paths.
LEMMA RemovedFields ==
    ASSUME NEW x, Sound(x), NEW S
    PROVE  LET y == remove_paths(x, S)
               inodes == {x.id_to_inode[id] : id \in Dropped(x, S) \cap DOMAIN x.id_to_inode}
           IN  /\ DOMAIN y = Fields
               /\ y.next_fileid = x.next_fileid /\ y.intern = x.intern
               /\ DOMAIN y.path_to_id = DOMAIN x.path_to_id \ S
               /\ \A p \in DOMAIN x.path_to_id \ S : y.path_to_id[p] = x.path_to_id[p]
               /\ DOMAIN y.id_to_path = DOMAIN x.id_to_path \ Dropped(x, S)
               /\ \A id \in DOMAIN y.id_to_path : y.id_to_path[id] = Kept(x, S, id)
               /\ DOMAIN y.id_to_inode = DOMAIN x.id_to_inode \ Dropped(x, S)
               /\ \A id \in DOMAIN y.id_to_inode : y.id_to_inode[id] = x.id_to_inode[id]
               /\ DOMAIN y.inode_to_id = DOMAIN x.inode_to_id \ inodes
               /\ \A i \in DOMAIN y.inode_to_id : y.inode_to_id[i] = x.inode_to_id[i]
<1> DEFINE y == remove_paths(x, S)
           inodes == {x.id_to_inode[id] : id \in Dropped(x, S) \cap DOMAIN x.id_to_inode}
<1>1. DOMAIN x = Fields
  BY DEF Sound
<1>2. /\ DOMAIN y = Fields
      /\ y.next_fileid = x.next_fileid /\ y.intern = x.intern
      /\ y.path_to_id = Without(x.path_to_id, S)
      /\ y.id_to_path = [id \in DOMAIN x.id_to_path \ Dropped(x, S) |-> Kept(x, S, id)]
      /\ y.id_to_inode = Without(x.id_to_inode, Dropped(x, S))
      /\ y.inode_to_id = Without(x.inode_to_id, inodes)
  BY <1>1 DEF remove_paths, Fields
<1> HIDE DEF y, inodes
<1>3. /\ DOMAIN y.path_to_id = DOMAIN x.path_to_id \ S
      /\ \A p \in DOMAIN x.path_to_id \ S : y.path_to_id[p] = x.path_to_id[p]
  BY <1>2 DEF Without, Restrict
<1>4. /\ DOMAIN y.id_to_path = DOMAIN x.id_to_path \ Dropped(x, S)
      /\ \A id \in DOMAIN y.id_to_path : y.id_to_path[id] = Kept(x, S, id)
  BY <1>2
<1>5. /\ DOMAIN y.id_to_inode = DOMAIN x.id_to_inode \ Dropped(x, S)
      /\ \A id \in DOMAIN y.id_to_inode : y.id_to_inode[id] = x.id_to_inode[id]
  BY <1>2 DEF Without, Restrict
<1>6. /\ DOMAIN y.inode_to_id = DOMAIN x.inode_to_id \ inodes
      /\ \A i \in DOMAIN y.inode_to_id : y.inode_to_id[i] = x.inode_to_id[i]
  BY <1>2 DEF Without, Restrict
<1> QED
  BY <1>2, <1>3, <1>4, <1>5, <1>6 DEF y, inodes

\* remove_path, for any set of paths: the tables stay sound, and the paths that
\* are not removed lead to the same files.
LEMMA RemoveSound ==
    ASSUME NEW x, Sound(x), NEW S
    PROVE  /\ Keeps(x, remove_paths(x, S))
           /\ \A p \in DOMAIN x.path_to_id \ S : Stays(x, remove_paths(x, S), p)
           /\ DOMAIN remove_paths(x, S).path_to_id = DOMAIN x.path_to_id \ S
           /\ \A id \in DOMAIN remove_paths(x, S).id_to_path :
                  /\ id \in DOMAIN x.id_to_path
                  /\ x.id_to_path[id].name \notin S =>
                         remove_paths(x, S).id_to_path[id].name = x.id_to_path[id].name
           /\ remove_paths(x, S).next_fileid = x.next_fileid
           /\ remove_paths(x, S).intern = x.intern
<1> DEFINE y == remove_paths(x, S)
           gone == Dropped(x, S)
           inodes == {x.id_to_inode[id] : id \in Dropped(x, S) \cap DOMAIN x.id_to_inode}
<1>1. /\ DOMAIN x = Fields
      /\ x.next_fileid \in Nat \ {0}
      /\ InternOK(x)
      /\ EntriesOK(x)
      /\ PathsOK(x)
      /\ InodesOK(x)
  BY DEF Sound
<1>2. /\ DOMAIN y = Fields
      /\ y.next_fileid = x.next_fileid /\ y.intern = x.intern
      /\ DOMAIN y.path_to_id = DOMAIN x.path_to_id \ S
      /\ \A p \in DOMAIN x.path_to_id \ S : y.path_to_id[p] = x.path_to_id[p]
      /\ DOMAIN y.id_to_path = DOMAIN x.id_to_path \ gone
      /\ \A id \in DOMAIN y.id_to_path : y.id_to_path[id] = Kept(x, S, id)
      /\ DOMAIN y.id_to_inode = DOMAIN x.id_to_inode \ gone
      /\ \A id \in DOMAIN y.id_to_inode : y.id_to_inode[id] = x.id_to_inode[id]
      /\ DOMAIN y.inode_to_id = DOMAIN x.inode_to_id \ inodes
      /\ \A i \in DOMAIN y.inode_to_id : y.inode_to_id[i] = x.inode_to_id[i]
  BY RemovedFields
<1> HIDE DEF y, gone, inodes
<1>0. Interned(y) = Interned(x) /\ InternOK(y)
  BY <1>1, <1>2, SameNames
<1>3. ASSUME NEW id \in DOMAIN y.id_to_path
      PROVE  /\ id \in DOMAIN x.id_to_path
             /\ EntryOK(Interned(x), y.id_to_path[id])
             /\ y.id_to_path[id].aliases = Left(x, S, id)
             /\ x.id_to_path[id].name \notin S =>
                    y.id_to_path[id].name = x.id_to_path[id].name
  <2>1. id \in DOMAIN x.id_to_path /\ id \notin gone
    BY <1>2
  <2>2. PathsOf(x, S, id) = {} \/ Left(x, S, id) # {}
    BY <2>1 DEF gone, Dropped
  <2>3. EntryOK(Interned(x), x.id_to_path[id])
    BY <1>1, <2>1 DEF EntriesOK
  <2> QED
    BY <1>1, <1>2, <2>1, <2>2, <2>3, KeptMeans
<1>4. EntriesOK(y)
  BY <1>0, <1>1, <1>2, <1>3 DEF EntriesOK
<1>5. ASSUME NEW p \in DOMAIN x.path_to_id \ S
      PROVE  /\ x.path_to_id[p] \in DOMAIN y.id_to_path
             /\ p \in Left(x, S, x.path_to_id[p])
  <2> DEFINE id == x.path_to_id[p]
  <2>1. id \in DOMAIN x.id_to_path /\ p \in x.id_to_path[id].aliases
    BY <1>1 DEF PathsOK
  <2>2. p \in Left(x, S, id)
    BY <2>1 DEF Left, PathsOf
  <2>3. id \notin gone
    BY <2>2 DEF gone, Dropped
  <2> QED
    BY <1>2, <2>1, <2>2, <2>3
<1>6. PathsOK(y)
  <2> SUFFICES ASSUME NEW p \in DOMAIN y.path_to_id
               PROVE  /\ p \in Seq(Interned(x))
                      /\ y.path_to_id[p] \in DOMAIN y.id_to_path
                      /\ p \in y.id_to_path[y.path_to_id[p]].aliases
    BY <1>0 DEF PathsOK
  <2>1. p \in DOMAIN x.path_to_id \ S /\ y.path_to_id[p] = x.path_to_id[p]
    BY <1>2
  <2>2. p \in Seq(Interned(x))
    BY <1>1, <2>1 DEF PathsOK
  <2> QED
    BY <1>3, <1>5, <2>1, <2>2
<1>7. InodesOK(y)
  <2>1. DOMAIN y.id_to_inode = DOMAIN y.id_to_path
    BY <1>1, <1>2 DEF InodesOK
  <2>2. ASSUME NEW id \in DOMAIN y.id_to_inode
        PROVE  /\ y.id_to_inode[id] \in DOMAIN y.inode_to_id
               /\ y.inode_to_id[y.id_to_inode[id]] = id
    <3>1. id \in DOMAIN x.id_to_inode /\ id \notin gone
      BY <1>2
    <3>2. x.id_to_inode[id] \in DOMAIN x.inode_to_id /\ x.inode_to_id[x.id_to_inode[id]] = id
      BY <1>1, <3>1 DEF InodesOK
    <3>3. x.id_to_inode[id] \notin inodes
      BY <1>1, <3>1, <3>2 DEF inodes, gone, InodesOK
    <3> QED
      BY <1>2, <3>1, <3>2, <3>3
  <2>3. ASSUME NEW i \in DOMAIN y.inode_to_id
        PROVE  /\ i \in Inodes
               /\ y.inode_to_id[i] \in DOMAIN y.id_to_path
               /\ y.id_to_inode[y.inode_to_id[i]] = i
    <3>1. i \in DOMAIN x.inode_to_id /\ i \notin inodes /\ y.inode_to_id[i] = x.inode_to_id[i]
      BY <1>2
    <3>2. i \in Inodes /\ x.inode_to_id[i] \in DOMAIN x.id_to_inode
          /\ x.id_to_inode[x.inode_to_id[i]] = i
      BY <1>1, <3>1 DEF InodesOK
    <3>3. x.inode_to_id[i] \notin gone
      BY <3>1, <3>2 DEF inodes, gone
    <3> QED
      BY <1>2, <2>1, <3>1, <3>2, <3>3
  <2> QED
    BY <2>1, <2>2, <2>3 DEF InodesOK
<1>8. ASSUME NEW p \in DOMAIN x.path_to_id \ S PROVE Stays(x, y, p)
  BY <1>1, <1>2, <1>5 DEF Stays, InodesOK
<1>9. Sound(y)
  BY <1>0, <1>1, <1>2, <1>4, <1>6, <1>7 DEF Sound
<1>10. Continues(x, y)
  BY <1>0, <1>1, <1>2 DEF Continues
<1> QED
  BY <1>1, <1>2, <1>3, <1>8, <1>9, <1>10 DEF Keeps, y

\* A change of an entry that keeps its paths.
Reshaped(x, y) ==
    /\ DOMAIN y = Fields
    /\ y.next_fileid = x.next_fileid /\ y.intern = x.intern
    /\ y.path_to_id = x.path_to_id
    /\ y.inode_to_id = x.inode_to_id
    /\ y.id_to_inode = x.id_to_inode
    /\ DOMAIN y.id_to_path = DOMAIN x.id_to_path
    /\ \A id \in DOMAIN x.id_to_path :
           /\ EntryOK(Interned(x), y.id_to_path[id])
           /\ y.id_to_path[id].name = x.id_to_path[id].name
           /\ y.id_to_path[id].aliases = x.id_to_path[id].aliases

\* A reshaped map is as sound as before.
LEMMA ReshapedSound ==
    ASSUME NEW x, Sound(x), NEW y, Reshaped(x, y)
    PROVE  Keeps(x, y)
<1>0. Interned(y) = Interned(x) /\ InternOK(y)
  BY SameNames DEF Sound, Reshaped
<1>1. EntriesOK(y)
  BY <1>0 DEF Sound, Reshaped, EntriesOK
<1>2. PathsOK(y)
  BY <1>0 DEF Sound, Reshaped, PathsOK
<1>3. InodesOK(y)
  BY DEF Sound, Reshaped, InodesOK
<1>4. Sound(y)
  BY <1>0, <1>1, <1>2, <1>3 DEF Sound, Reshaped
<1>5. Continues(x, y)
  BY <1>0 DEF Continues, Sound, Reshaped
<1> QED
  BY <1>4, <1>5 DEF Keeps

\* A map that does not change.
LEMMA Unshaped ==
    ASSUME NEW x, Sound(x)
    PROVE  Reshaped(x, x)
BY DEF Sound, Reshaped, EntriesOK

\* The attributes of an entry change.
LEMMA TypedReshapes ==
    ASSUME NEW x, Sound(x), NEW id \in DOMAIN x.id_to_path, NEW t \in {"reg", "dir"}
    PROVE  Reshaped(x, [x EXCEPT !.id_to_path[id].ftype = t])
<1> DEFINE y == [x EXCEPT !.id_to_path[id].ftype = t]
<1>1. DOMAIN x = Fields /\ \A k \in DOMAIN x.id_to_path : EntryOK(Interned(x), x.id_to_path[k])
  BY DEF Sound, EntriesOK
<1>2. /\ DOMAIN y = Fields
      /\ y.next_fileid = x.next_fileid /\ y.intern = x.intern
      /\ y.path_to_id = x.path_to_id
      /\ y.inode_to_id = x.inode_to_id
      /\ y.id_to_inode = x.id_to_inode
      /\ y.id_to_path = [x.id_to_path EXCEPT ![id] = [@ EXCEPT !.ftype = t]]
  BY <1>1 DEF Fields
<1> HIDE DEF y
<1>3. DOMAIN y.id_to_path = DOMAIN x.id_to_path
  BY <1>2
<1>4. ASSUME NEW k \in DOMAIN x.id_to_path
      PROVE  /\ EntryOK(Interned(x), y.id_to_path[k])
             /\ y.id_to_path[k].name = x.id_to_path[k].name
             /\ y.id_to_path[k].aliases = x.id_to_path[k].aliases
  <2>1. CASE k # id
    BY <1>1, <1>2, <2>1
  <2>2. CASE k = id
    <3>1. y.id_to_path[k] = [x.id_to_path[k] EXCEPT !.ftype = t]
      BY <1>2, <2>2
    <3> QED
      BY <1>1, <3>1 DEF EntryOK
  <2> QED
    BY <2>1, <2>2
<1> QED
  BY <1>2, <1>3, <1>4 DEF Reshaped, y

\* The list of children of an entry changes.
Relaid(x, id, c) == [x EXCEPT !.id_to_path[id].children = c]

\* A new list of children leaves the paths alone, and is the list of the entry.
LEMMA ChildrenReshape ==
    ASSUME NEW x, Sound(x), NEW id \in DOMAIN x.id_to_path, NEW c,
           NEW y, y = Relaid(x, id, c)
    PROVE  Reshaped(x, y) /\ y.id_to_path[id].children = c
<1>1. DOMAIN x = Fields /\ \A k \in DOMAIN x.id_to_path : EntryOK(Interned(x), x.id_to_path[k])
  BY DEF Sound, EntriesOK
<1>2. /\ DOMAIN y = Fields
      /\ y.next_fileid = x.next_fileid /\ y.intern = x.intern
      /\ y.path_to_id = x.path_to_id
      /\ y.inode_to_id = x.inode_to_id
      /\ y.id_to_inode = x.id_to_inode
      /\ y.id_to_path = [x.id_to_path EXCEPT ![id] = [@ EXCEPT !.children = c]]
  BY <1>1 DEF Fields, Relaid
<1>3. DOMAIN y.id_to_path = DOMAIN x.id_to_path
  BY <1>2
<1>4. ASSUME NEW k \in DOMAIN x.id_to_path
      PROVE  /\ EntryOK(Interned(x), y.id_to_path[k])
             /\ y.id_to_path[k].name = x.id_to_path[k].name
             /\ y.id_to_path[k].aliases = x.id_to_path[k].aliases
             /\ k = id => y.id_to_path[k].children = c
  <2>1. CASE k # id
    BY <1>1, <1>2, <2>1
  <2>2. CASE k = id
    <3>1. y.id_to_path[k] = [x.id_to_path[k] EXCEPT !.children = c]
      BY <1>2, <2>2
    <3> QED
      BY <1>1, <3>1 DEF EntryOK
  <2> QED
    BY <2>1, <2>2
<1> QED
  BY <1>2, <1>3, <1>4 DEF Reshaped

\* WithChild and WithoutChild.
LEMMA ChildEditSound ==
    ASSUME NEW x, Sound(x), NEW dir \in DOMAIN x.id_to_path, NEW s, NEW id
    PROVE  Keeps(x, WithChild(x, dir, s, id)) /\ Keeps(x, WithoutChild(x, dir, s))
<1> DEFINE c == x.id_to_path[dir].children
           with == [c EXCEPT !.ids = Override(Entry(s, id), @)]
           less == [c EXCEPT !.ids = Without(@, {s})]
<1>1. Keeps(x, Relaid(x, dir, with))
  BY ChildrenReshape, ReshapedSound
<1>2. Keeps(x, Relaid(x, dir, less))
  BY ChildrenReshape, ReshapedSound
<1>3. WithChild(x, dir, s, id) \in {x, Relaid(x, dir, with)}
  <2>0. "id_to_path" \in DOMAIN x
    BY DEF Sound, Fields
  <2>1. "children" \in DOMAIN x.id_to_path[dir]
    BY DEF Sound, EntriesOK, EntryOK
  <2> QED
    BY <2>0, <2>1 DEF WithChild, Relaid
<1>4. WithoutChild(x, dir, s) \in {x, Relaid(x, dir, less)}
  <2>0. "id_to_path" \in DOMAIN x
    BY DEF Sound, Fields
  <2>1. "children" \in DOMAIN x.id_to_path[dir]
    BY DEF Sound, EntriesOK, EntryOK
  <2> QED
    BY <2>0, <2>1 DEF WithoutChild, Relaid
<1> QED
  BY <1>1, <1>2, <1>3, <1>4, KeepsItself

\* A table forgets some paths.
LEMMA ForgetSound ==
    ASSUME NEW x, Sound(x), NEW S
    PROVE  LET y == [x EXCEPT !.path_to_id = Without(@, S)]
           IN  /\ Keeps(x, y)
               /\ y.id_to_path = x.id_to_path /\ y.intern = x.intern
               /\ DOMAIN y.path_to_id = DOMAIN x.path_to_id \ S
               /\ \A p \in DOMAIN y.path_to_id : y.path_to_id[p] = x.path_to_id[p]
<1> DEFINE y == [x EXCEPT !.path_to_id = Without(@, S)]
<1>1. DOMAIN x = Fields
  BY DEF Sound
<1>2. /\ DOMAIN y = Fields
      /\ y.next_fileid = x.next_fileid /\ y.intern = x.intern
      /\ y.path_to_id = Without(x.path_to_id, S)
      /\ y.id_to_path = x.id_to_path
      /\ y.id_to_inode = x.id_to_inode
      /\ y.inode_to_id = x.inode_to_id
  BY <1>1 DEF Fields
<1> HIDE DEF y
<1>3. /\ DOMAIN y.path_to_id = DOMAIN x.path_to_id \ S
      /\ \A p \in DOMAIN y.path_to_id : y.path_to_id[p] = x.path_to_id[p]
  BY <1>2 DEF Without, Restrict
<1>0. Interned(y) = Interned(x) /\ InternOK(y)
  BY <1>2, SameNames DEF Sound
<1>4. EntriesOK(y) /\ InodesOK(y)
  BY <1>0, <1>2 DEF Sound, EntriesOK, InodesOK
<1>5. PathsOK(y)
  BY <1>0, <1>2, <1>3 DEF Sound, PathsOK
<1>6. Sound(y)
  BY <1>0, <1>2, <1>4, <1>5 DEF Sound
<1>7. Continues(x, y)
  BY <1>0, <1>2 DEF Sound, Continues
<1> QED
  BY <1>2, <1>3, <1>6, <1>7 DEF Keeps, y

\* remove_path_tree and delete_entry.
LEMMA DeleteSound ==
    ASSUME NEW x, Sound(x), NEW id, NEW p
    PROVE  /\ Keeps(x, remove_path(x, p))
           /\ Keeps(x, remove_path_tree(x, p, id))
           /\ Keeps(x, delete_entry(x, id))
<1>1. Keeps(x, remove_path(x, p))
  BY RemoveSound DEF remove_path
<1>2. \A q : Keeps(x, remove_path_tree(x, q, id))
  BY RemoveSound, KeepsItself DEF remove_path_tree
<1>3. Keeps(x, delete_entry(x, id))
  BY <1>2, KeepsItself DEF delete_entry
<1> QED
  BY <1>1, <1>2, <1>3

\* The entry gets the aliases that are alive, and one of them as its name.
LEMMA RenamedSound ==
    ASSUME NEW x, Sound(x), NEW id \in DOMAIN x.id_to_path, NEW alive,
           alive \in SUBSET x.id_to_path[id].aliases, alive # {},
           \A p \in DOMAIN x.path_to_id : x.path_to_id[p] = id => p \in alive
    PROVE  LET y == Renamed(x, id, alive)
           IN  /\ Keeps(x, y)
               /\ DOMAIN y.id_to_path = DOMAIN x.id_to_path
               /\ y.id_to_path[id].name = First(x, alive)
               /\ First(x, alive) \in alive
<1> DEFINE y == Renamed(x, id, alive)
           e == x.id_to_path[id]
<1>1. DOMAIN x = Fields /\ InternOK(x) /\ EntriesOK(x) /\ PathsOK(x) /\ InodesOK(x)
  BY DEF Sound
<1>2. EntryOK(Interned(x), e)
  BY <1>1 DEF EntriesOK
<1>3. IsFiniteSet(alive) /\ alive \subseteq Seq(Interned(x))
  BY <1>2, FS_Subset DEF EntryOK
<1>4. First(x, alive) \in alive
  BY <1>1, <1>3, FirstAlias
<1>5. /\ DOMAIN y = Fields
      /\ y.next_fileid = x.next_fileid /\ y.intern = x.intern
      /\ y.path_to_id = x.path_to_id
      /\ y.inode_to_id = x.inode_to_id
      /\ y.id_to_inode = x.id_to_inode
      /\ DOMAIN y.id_to_path = DOMAIN x.id_to_path
      /\ \A k \in DOMAIN x.id_to_path : k # id => y.id_to_path[k] = x.id_to_path[k]
      /\ y.id_to_path[id] = [[e EXCEPT !.aliases = alive] EXCEPT !.name = First(x, alive)]
  BY <1>1 DEF Fields, Renamed
<1> HIDE DEF y
<1>6. /\ DOMAIN y.id_to_path[id] = DOMAIN e
      /\ y.id_to_path[id].aliases = alive
      /\ y.id_to_path[id].name = First(x, alive)
      /\ y.id_to_path[id].ftype = e.ftype
  BY <1>2, <1>5 DEF EntryOK
<1>7. EntryOK(Interned(x), y.id_to_path[id])
  BY <1>2, <1>3, <1>4, <1>6 DEF EntryOK
<1>0. Interned(y) = Interned(x) /\ InternOK(y)
  BY <1>1, <1>5, SameNames
<1>8. EntriesOK(y)
  BY <1>0, <1>1, <1>5, <1>7 DEF EntriesOK
<1>9. PathsOK(y)
  <2> SUFFICES ASSUME NEW p \in DOMAIN x.path_to_id
               PROVE  /\ p \in Seq(Interned(x))
                      /\ x.path_to_id[p] \in DOMAIN x.id_to_path
                      /\ p \in y.id_to_path[x.path_to_id[p]].aliases
    BY <1>0, <1>5 DEF PathsOK
  <2>1. /\ p \in Seq(Interned(x))
        /\ x.path_to_id[p] \in DOMAIN x.id_to_path
        /\ p \in x.id_to_path[x.path_to_id[p]].aliases
    BY <1>1 DEF PathsOK
  <2>2. CASE x.path_to_id[p] = id
    BY <1>6, <2>1, <2>2
  <2>3. CASE x.path_to_id[p] # id
    BY <1>5, <2>1, <2>3
  <2> QED
    BY <2>2, <2>3
<1>10. InodesOK(y)
  BY <1>1, <1>5 DEF InodesOK
<1>11. Sound(y)
  BY <1>0, <1>5, <1>8, <1>9, <1>10 DEF Sound
<1>12. Continues(x, y)
  BY <1>0, <1>5 DEF Sound, Continues
<1> QED
  BY <1>4, <1>5, <1>6, <1>11, <1>12 DEF Keeps, y

\* An inode that is known already.
LEMMA KnownSound ==
    ASSUME NEW x, Sound(x), NEW id \in DOMAIN x.id_to_path, NEW i, x.id_to_inode[id] = i
    PROVE  LET y == [x EXCEPT !.inode_to_id = Override(Entry(i, id), @)]
           IN  /\ Keeps(x, y)
               /\ y.id_to_path = x.id_to_path
               /\ y.id_to_inode = x.id_to_inode
<1> DEFINE y == [x EXCEPT !.inode_to_id = Override(Entry(i, id), @)]
<1>1. DOMAIN x = Fields /\ EntriesOK(x) /\ PathsOK(x) /\ InodesOK(x)
  BY DEF Sound
<1>2. /\ DOMAIN y = Fields
      /\ y.next_fileid = x.next_fileid /\ y.intern = x.intern
      /\ y.path_to_id = x.path_to_id
      /\ y.id_to_path = x.id_to_path
      /\ y.id_to_inode = x.id_to_inode
      /\ y.inode_to_id = Override(Entry(i, id), x.inode_to_id)
  BY <1>1 DEF Fields
<1> HIDE DEF y
<1>3. i \in DOMAIN x.inode_to_id /\ x.inode_to_id[i] = id
  BY <1>1 DEF InodesOK
<1>4. /\ DOMAIN y.inode_to_id = DOMAIN x.inode_to_id
      /\ \A j \in DOMAIN x.inode_to_id : y.inode_to_id[j] = x.inode_to_id[j]
  BY <1>2, <1>3 DEF Override, Entry
<1>0. Interned(y) = Interned(x) /\ InternOK(y)
  BY <1>2, SameNames DEF Sound
<1>5. EntriesOK(y) /\ PathsOK(y)
  BY <1>0, <1>1, <1>2 DEF EntriesOK, PathsOK
<1>6. InodesOK(y)
  BY <1>1, <1>2, <1>4 DEF InodesOK
<1>7. Sound(y)
  BY <1>0, <1>2, <1>5, <1>6 DEF Sound
<1>8. Continues(x, y)
  BY <1>0, <1>2 DEF Sound, Continues
<1> QED
  BY <1>2, <1>7, <1>8 DEF Keeps, y

\* An entry that is kept belongs to the file found under its name.
KeptFor(r, x, id, f) ==
    /\ Keeps(x, r.m)
    /\ ~r.delete => /\ r.m.id_to_path = x.id_to_path
                    /\ r.m.id_to_inode[id] = f.ino

\* Checked keeps an entry for its own file only.
LEMMA CheckedSound ==
    ASSUME NEW x, Sound(x), NEW id \in DOMAIN x.id_to_path, NEW f
    PROVE  KeptFor(Checked(x, id, f), x, id, f)
<1> DEFINE known == [x EXCEPT !.inode_to_id = Override(Entry(f.ino, id), @)]
<1>1. CASE id \notin DOMAIN x.id_to_inode \/ x.id_to_inode[id] # f.ino
  <2>1. Checked(x, id, f) = Deleted(delete_entry(x, id))
    BY <1>1 DEF Checked
  <2> QED
    BY <2>1, DeleteSound DEF Deleted, KeptFor
<1>2. CASE ~(id \notin DOMAIN x.id_to_inode \/ x.id_to_inode[id] # f.ino)
  <2>1. /\ Keeps(x, known) /\ Sound(known)
        /\ known.id_to_path = x.id_to_path
        /\ known.id_to_inode = x.id_to_inode
    BY <1>2, KnownSound DEF Keeps
  <2>2. Checked(x, id, f) \in {Deleted(delete_entry(known, id)), Fresh(known)}
    BY <1>2 DEF Checked
  <2> HIDE DEF known
  <2>3. CASE Checked(x, id, f) = Deleted(delete_entry(known, id))
    <3>1. Keeps(known, delete_entry(known, id))
      BY <2>1, DeleteSound
    <3>2. Keeps(x, delete_entry(known, id))
      BY <2>1, <3>1, KeepsTwice
    <3> QED
      BY <2>3, <3>2 DEF Deleted, KeptFor
  <2>4. CASE Checked(x, id, f) = Fresh(known)
    BY <1>2, <2>1, <2>4 DEF Fresh, KeptFor
  <2> QED
    BY <2>2, <2>3, <2>4
<1> QED
  BY <1>1, <1>2

\* refresh_entry keeps the map sound, and an entry that it keeps belongs to the
\* file that is found on the disk under the entry's name.
LEMMA RefreshSound ==
    ASSUME NEW x, Sound(x), NEW d, NEW id \in DOMAIN x.id_to_path
    PROVE  LET r == refresh_entry(x, d, id)
           IN  /\ Keeps(x, r.m)
               /\ ~r.delete =>
                      /\ id \in DOMAIN r.m.id_to_path
                      /\ r.m.id_to_path[id].name \in DOMAIN d
                      /\ r.m.id_to_inode[id] = d[r.m.id_to_path[id].name].ino
<1> DEFINE aliases == x.id_to_path[id].aliases
           alive == aliases \cap DOMAIN d
           y == [x EXCEPT !.path_to_id = Without(@, aliases \ alive)]
           z == Renamed(y, id, alive)
<1>1. /\ Keeps(x, y) /\ Sound(y)
      /\ y.id_to_path = x.id_to_path
      /\ DOMAIN y.path_to_id = DOMAIN x.path_to_id \ (aliases \ alive)
      /\ \A p \in DOMAIN y.path_to_id : y.path_to_id[p] = x.path_to_id[p]
  BY ForgetSound DEF Keeps
<1>2. CASE alive = {}
  <2>1. refresh_entry(x, d, id) = Deleted(delete_entry(y, id))
    BY <1>2 DEF refresh_entry
  <2> HIDE DEF y
  <2>2. Keeps(y, delete_entry(y, id))
    BY <1>1, DeleteSound
  <2>3. Keeps(x, delete_entry(y, id))
    BY <1>1, <2>2, KeepsTwice
  <2> QED
    BY <2>1, <2>3 DEF Deleted
<1>3. CASE alive # {}
  <2>1. refresh_entry(x, d, id) = Checked(z, id, d[First(y, alive)])
    BY <1>3 DEF refresh_entry
  <2>2. ASSUME NEW p \in DOMAIN y.path_to_id, y.path_to_id[p] = id PROVE p \in alive
    BY <1>1, <2>2 DEF Sound, PathsOK
  <2> HIDE DEF y
  <2>3. alive \in SUBSET y.id_to_path[id].aliases /\ id \in DOMAIN y.id_to_path
    BY <1>1
  <2>4. \A p \in DOMAIN y.path_to_id : y.path_to_id[p] = id => p \in alive
    BY <2>2
  <2> HIDE DEF alive
  <2>5. /\ Keeps(y, z) /\ Sound(z)
        /\ DOMAIN z.id_to_path = DOMAIN y.id_to_path
        /\ z.id_to_path[id].name = First(y, alive)
        /\ First(y, alive) \in alive
    BY <1>1, <1>3, <2>3, <2>4, RenamedSound DEF Keeps
  <2> HIDE DEF z
  <2>6. id \in DOMAIN z.id_to_path
    BY <2>3, <2>5
  <2>f. PICK f : f = d[First(y, alive)]
    OBVIOUS
  <2> DEFINE r == Checked(z, id, f)
  <2>7. KeptFor(r, z, id, f)
    BY <2>5, <2>6, CheckedSound
  <2> HIDE DEF r
  <2>8. First(y, alive) \in DOMAIN d
    BY <2>5 DEF alive
  <2>9. ~r.delete => /\ id \in DOMAIN r.m.id_to_path
                     /\ r.m.id_to_path[id].name = First(y, alive)
                     /\ r.m.id_to_inode[id] = d[First(y, alive)].ino
    BY <2>f, <2>5, <2>6, <2>7 DEF KeptFor
  <2>10. Keeps(x, r.m)
    <3>1. Keeps(x, z)
      BY <1>1, <2>5, KeepsTwice
    <3> QED
      BY <2>7, <3>1, KeepsTwice DEF KeptFor
  <2> QED
    BY <2>f, <2>1, <2>8, <2>9, <2>10 DEF r
<1> QED
  BY <1>2, <1>3

\* What entering a file at the path p leaves alone: the other paths lead to the
\* same files, and the entries keep their names, unless the name was p.
Follows(x, y, p) ==
    /\ x.next_fileid <= y.next_fileid
    /\ \A q \in DOMAIN x.path_to_id \ {p} : Stays(x, y, q)
    /\ \A id \in DOMAIN y.id_to_path :
           id < x.next_fileid =>
               /\ id \in DOMAIN x.id_to_path
               /\ x.id_to_path[id].name # p => y.id_to_path[id].name = x.id_to_path[id].name

\* Two changes at the same path.
LEMMA FollowsTwice ==
    ASSUME NEW x, NEW y, NEW z, NEW p, Sound(x), Sound(y), Sound(z),
           Follows(x, y, p), Follows(y, z, p)
    PROVE  Follows(x, z, p)
<1>1. /\ x.next_fileid \in Int /\ y.next_fileid \in Int /\ z.next_fileid \in Int
      /\ x.next_fileid <= y.next_fileid /\ y.next_fileid <= z.next_fileid
  BY DEF Sound, Follows
<1>2. x.next_fileid <= z.next_fileid
  BY <1>1
<1>3. ASSUME NEW q \in DOMAIN x.path_to_id \ {p} PROVE Stays(x, z, q)
  <2>1. Stays(x, y, q)
    BY DEF Follows
  <2>2. q \in DOMAIN y.path_to_id \ {p}
    BY <2>1 DEF Stays
  <2>3. Stays(y, z, q)
    BY <2>2 DEF Follows
  <2> QED
    BY <2>1, <2>3 DEF Stays
<1>4. ASSUME NEW id \in DOMAIN z.id_to_path, id < x.next_fileid
      PROVE  /\ id \in DOMAIN x.id_to_path
             /\ x.id_to_path[id].name # p => z.id_to_path[id].name = x.id_to_path[id].name
  <2>1. id \in Int
    BY DEF Sound, EntriesOK
  <2>2. id < y.next_fileid
    BY <1>1, <1>4, <2>1
  <2>3. id \in DOMAIN y.id_to_path
        /\ (y.id_to_path[id].name # p => z.id_to_path[id].name = y.id_to_path[id].name)
    BY <2>2 DEF Follows
  <2>4. id \in DOMAIN x.id_to_path
        /\ (x.id_to_path[id].name # p => y.id_to_path[id].name = x.id_to_path[id].name)
    BY <1>4, <2>3 DEF Follows
  <2> QED
    BY <2>3, <2>4
<1> QED
  BY <1>2, <1>3, <1>4 DEF Follows

\* A reshaped map has the same paths.
LEMMA ReshapedFollows ==
    ASSUME NEW x, NEW y, NEW p, Sound(x), Reshaped(x, y)
    PROVE  Follows(x, y, p)
<1>1. x.next_fileid <= y.next_fileid
  BY DEF Sound, Reshaped
<1> QED
  BY <1>1 DEF Reshaped, Follows, Stays

\* remove_path.
LEMMA RemoveFollows ==
    ASSUME NEW x, NEW p, Sound(x)
    PROVE  Follows(x, remove_path(x, p), p)
<1> DEFINE y == remove_paths(x, {p})
<1>1. /\ \A q \in DOMAIN x.path_to_id \ {p} : Stays(x, y, q)
      /\ \A id \in DOMAIN y.id_to_path :
             /\ id \in DOMAIN x.id_to_path
             /\ x.id_to_path[id].name \notin {p} =>
                    y.id_to_path[id].name = x.id_to_path[id].name
      /\ y.next_fileid = x.next_fileid
  BY RemoveSound
<1> HIDE DEF y
<1>2. x.next_fileid <= y.next_fileid
  BY <1>1 DEF Sound
<1>3. Follows(x, y, p)
  BY <1>1, <1>2 DEF Follows
<1> QED
  BY <1>3 DEF y, remove_path

\* What entering the file f at the path p makes of the map x.
EntersAs(x, y, p, f, id) ==
    /\ Keeps(x, y)
    /\ Follows(x, y, p)
    /\ p \in DOMAIN y.path_to_id
    /\ y.path_to_id[p] = id
    /\ y.id_to_inode[id] = f.ino

\* The inode is known: the path becomes one more alias of its file.
LEMMA AliasedSound ==
    ASSUME NEW x, Sound(x), NEW f, NEW p \in Seq(Interned(x)), NEW id,
           f.ino \in DOMAIN x.inode_to_id, x.inode_to_id[f.ino] = id
    PROVE  EntersAs(x, Aliased(x, id, p, f.ino), p, f, id)
<1> DEFINE y == Aliased(x, id, p, f.ino)
           e == x.id_to_path[id]
<1>1. DOMAIN x = Fields /\ EntriesOK(x) /\ PathsOK(x) /\ InodesOK(x)
  BY DEF Sound
<1>2. id \in DOMAIN x.id_to_path /\ id \in DOMAIN x.id_to_inode /\ x.id_to_inode[id] = f.ino
  BY <1>1 DEF InodesOK
<1>3. EntryOK(Interned(x), e)
  BY <1>1, <1>2 DEF EntriesOK
<1>4. /\ DOMAIN y = Fields
      /\ y.next_fileid = x.next_fileid /\ y.intern = x.intern
      /\ y.path_to_id = Override(Entry(p, id), x.path_to_id)
      /\ y.inode_to_id = x.inode_to_id
      /\ y.id_to_inode = Override(x.id_to_inode, Entry(id, f.ino))
      /\ y.id_to_path = [x.id_to_path EXCEPT ![id].aliases = @ \cup {p}]
  BY <1>1, <1>2 DEF Fields, Aliased, Found
<1> HIDE DEF y
<1>5. /\ DOMAIN y.path_to_id = DOMAIN x.path_to_id \cup {p}
      /\ y.path_to_id[p] = id
      /\ \A q \in DOMAIN x.path_to_id \ {p} : y.path_to_id[q] = x.path_to_id[q]
  BY <1>4 DEF Override, Entry
<1>6. /\ DOMAIN y.id_to_inode = DOMAIN x.id_to_inode
      /\ \A k \in DOMAIN x.id_to_inode : y.id_to_inode[k] = x.id_to_inode[k]
  BY <1>2, <1>4 DEF Override, Entry
<1>7. /\ DOMAIN y.id_to_path = DOMAIN x.id_to_path
      /\ \A k \in DOMAIN x.id_to_path : k # id => y.id_to_path[k] = x.id_to_path[k]
      /\ y.id_to_path[id] = [e EXCEPT !.aliases = @ \cup {p}]
  BY <1>2, <1>4
<1>8. /\ DOMAIN y.id_to_path[id] = DOMAIN e
      /\ y.id_to_path[id].aliases = e.aliases \cup {p}
      /\ y.id_to_path[id].name = e.name
      /\ y.id_to_path[id].ftype = e.ftype
  BY <1>3, <1>7 DEF EntryOK
<1>9. EntryOK(Interned(x), y.id_to_path[id])
  <2>1. IsFiniteSet(e.aliases \cup {p})
    BY <1>3, FS_AddElement DEF EntryOK
  <2> QED
    BY <1>3, <1>8, <2>1 DEF EntryOK
<1>0. Interned(y) = Interned(x) /\ InternOK(y)
  BY <1>4, SameNames DEF Sound
<1>10. EntriesOK(y)
  BY <1>0, <1>1, <1>4, <1>7, <1>9 DEF EntriesOK
<1>11. PathsOK(y)
  <2> SUFFICES ASSUME NEW q \in DOMAIN y.path_to_id
               PROVE  /\ q \in Seq(Interned(x))
                      /\ y.path_to_id[q] \in DOMAIN x.id_to_path
                      /\ q \in y.id_to_path[y.path_to_id[q]].aliases
    BY <1>0, <1>7 DEF PathsOK
  <2>1. CASE q = p
    BY <1>2, <1>5, <1>8, <2>1
  <2>2. CASE q # p
    <3>1. /\ q \in DOMAIN x.path_to_id
          /\ y.path_to_id[q] = x.path_to_id[q]
      BY <1>5, <2>2
    <3>2. /\ q \in Seq(Interned(x))
          /\ x.path_to_id[q] \in DOMAIN x.id_to_path
          /\ q \in x.id_to_path[x.path_to_id[q]].aliases
      BY <1>1, <3>1 DEF PathsOK
    <3> QED
      BY <1>7, <1>8, <3>1, <3>2
  <2> QED
    BY <2>1, <2>2
<1>12. InodesOK(y)
  BY <1>1, <1>4, <1>6, <1>7 DEF InodesOK
<1>13. Keeps(x, y)
  <2>1. Sound(y)
    BY <1>0, <1>4, <1>10, <1>11, <1>12 DEF Sound
  <2>2. Continues(x, y)
    BY <1>0, <1>4, <1>6 DEF Sound, Continues
  <2> QED
    BY <2>1, <2>2 DEF Keeps
<1>14. Follows(x, y, p)
  <2>1. x.next_fileid <= y.next_fileid
    BY <1>4 DEF Sound
  <2>2. \A q \in DOMAIN x.path_to_id \ {p} : Stays(x, y, q)
    BY <1>1, <1>5, <1>6 DEF Stays, PathsOK, InodesOK
  <2>3. \A k \in DOMAIN x.id_to_path : y.id_to_path[k].name = x.id_to_path[k].name
    BY <1>7, <1>8
  <2> QED
    BY <1>7, <2>1, <2>2, <2>3 DEF Follows
<1> QED
  BY <1>2, <1>5, <1>6, <1>13, <1>14 DEF EntersAs, y

\* The inode is new: so is the id.
LEMMA AddedSound ==
    ASSUME NEW x, Sound(x), NEW f \in File, NEW p \in Seq(Interned(x)), NEW id,
           f.ino \notin DOMAIN x.inode_to_id, id = x.next_fileid
    PROVE  EntersAs(x, Added(x, id, p, f), p, f, id)
<1> DEFINE y == Added(x, id, p, f)
<1>1. DOMAIN x = Fields /\ EntriesOK(x) /\ PathsOK(x) /\ InodesOK(x)
  BY DEF Sound
<1>2. id \in Nat \ {0} /\ id \notin DOMAIN x.id_to_path
  BY <1>1 DEF Sound, EntriesOK
<1>3. f.ino \in Inodes /\ f.ftype \in {"reg", "dir"}
  BY DEF File
<1>4. /\ DOMAIN y = Fields
      /\ y.next_fileid = x.next_fileid + 1 /\ y.intern = x.intern
      /\ y.path_to_id = Override(Entry(p, id), x.path_to_id)
      /\ y.inode_to_id = Override(Entry(f.ino, id), x.inode_to_id)
      /\ y.id_to_inode = Override(Entry(id, f.ino), x.id_to_inode)
      /\ y.id_to_path = Override(Entry(id, FSEntry(p, f.ftype)), x.id_to_path)
  BY <1>1 DEF Fields, Added
<1> HIDE DEF y
<1>5. /\ DOMAIN y.path_to_id = DOMAIN x.path_to_id \cup {p}
      /\ y.path_to_id[p] = id
      /\ \A q \in DOMAIN x.path_to_id \ {p} : y.path_to_id[q] = x.path_to_id[q]
  BY <1>4 DEF Override, Entry
<1>6. /\ DOMAIN y.id_to_inode = DOMAIN x.id_to_inode \cup {id}
      /\ y.id_to_inode[id] = f.ino
      /\ \A k \in DOMAIN x.id_to_inode : k # id => y.id_to_inode[k] = x.id_to_inode[k]
  BY <1>4 DEF Override, Entry
<1>7. /\ DOMAIN y.id_to_path = DOMAIN x.id_to_path \cup {id}
      /\ \A k \in DOMAIN x.id_to_path : k # id => y.id_to_path[k] = x.id_to_path[k]
      /\ y.id_to_path[id] = FSEntry(p, f.ftype)
  BY <1>4 DEF Override, Entry
<1>8. /\ DOMAIN y.inode_to_id = DOMAIN x.inode_to_id \cup {f.ino}
      /\ y.inode_to_id[f.ino] = id
      /\ \A i \in DOMAIN x.inode_to_id : y.inode_to_id[i] = x.inode_to_id[i]
  BY <1>4 DEF Override, Entry
<1>9. EntryOK(Interned(x), y.id_to_path[id]) /\ y.id_to_path[id].aliases = {p}
  <2>1. IsFiniteSet({p})
    BY FS_Singleton
  <2> QED
    BY <1>3, <1>7, <2>1 DEF EntryOK, FSEntry
<1>0. Interned(y) = Interned(x) /\ InternOK(y)
  BY <1>4, SameNames DEF Sound
<1>10. EntriesOK(y)
  <2> SUFFICES ASSUME NEW k \in DOMAIN y.id_to_path
               PROVE  /\ k \in Nat /\ k < y.next_fileid
                      /\ EntryOK(Interned(x), y.id_to_path[k])
    BY <1>0 DEF EntriesOK
  <2>1. CASE k = id
    BY <1>2, <1>4, <1>9, <2>1
  <2>2. CASE k # id
    <3>1. k \in DOMAIN x.id_to_path /\ y.id_to_path[k] = x.id_to_path[k]
      BY <1>7, <2>2
    <3>2. k \in Nat /\ k < x.next_fileid /\ EntryOK(Interned(x), x.id_to_path[k])
      BY <1>1, <3>1 DEF EntriesOK
    <3> QED
      BY <1>2, <1>4, <3>1, <3>2
  <2> QED
    BY <2>1, <2>2
<1>11. PathsOK(y)
  <2> SUFFICES ASSUME NEW q \in DOMAIN y.path_to_id
               PROVE  /\ q \in Seq(Interned(x))
                      /\ y.path_to_id[q] \in DOMAIN y.id_to_path
                      /\ q \in y.id_to_path[y.path_to_id[q]].aliases
    BY <1>0 DEF PathsOK
  <2>1. CASE q = p
    BY <1>5, <1>7, <1>9, <2>1
  <2>2. CASE q # p
    <3>1. /\ q \in DOMAIN x.path_to_id
          /\ y.path_to_id[q] = x.path_to_id[q]
      BY <1>5, <2>2
    <3>2. /\ q \in Seq(Interned(x))
          /\ x.path_to_id[q] \in DOMAIN x.id_to_path
          /\ q \in x.id_to_path[x.path_to_id[q]].aliases
      BY <1>1, <3>1 DEF PathsOK
    <3> QED
      BY <1>2, <1>7, <3>1, <3>2
  <2> QED
    BY <2>1, <2>2
<1>12. InodesOK(y)
  <2>0. id \notin DOMAIN x.id_to_inode
    BY <1>1, <1>2 DEF InodesOK
  <2>1. DOMAIN y.id_to_inode = DOMAIN y.id_to_path
    BY <1>1, <1>6, <1>7 DEF InodesOK
  <2>2. ASSUME NEW k \in DOMAIN y.id_to_inode
        PROVE  /\ y.id_to_inode[k] \in DOMAIN y.inode_to_id
               /\ y.inode_to_id[y.id_to_inode[k]] = k
    <3>1. CASE k = id
      BY <1>6, <1>8, <3>1
    <3>2. CASE k # id
      <4>1. /\ k \in DOMAIN x.id_to_inode /\ y.id_to_inode[k] = x.id_to_inode[k]
            /\ x.id_to_inode[k] \in DOMAIN x.inode_to_id
            /\ x.inode_to_id[x.id_to_inode[k]] = k
        BY <1>1, <1>6, <3>2 DEF InodesOK
      <4> QED
        BY <1>8, <4>1
    <3> QED
      BY <3>1, <3>2
  <2>3. ASSUME NEW i \in DOMAIN y.inode_to_id
        PROVE  /\ i \in Inodes
               /\ y.inode_to_id[i] \in DOMAIN y.id_to_path
               /\ y.id_to_inode[y.inode_to_id[i]] = i
    <3>1. CASE i = f.ino
      BY <1>3, <1>6, <1>7, <1>8, <3>1
    <3>2. CASE i # f.ino
      <4>1. /\ i \in DOMAIN x.inode_to_id /\ y.inode_to_id[i] = x.inode_to_id[i]
            /\ i \in Inodes
            /\ x.inode_to_id[i] \in DOMAIN x.id_to_path
            /\ x.inode_to_id[i] \in DOMAIN x.id_to_inode
            /\ x.id_to_inode[x.inode_to_id[i]] = i
        BY <1>1, <1>8, <3>2 DEF InodesOK
      <4> QED
        BY <1>2, <1>6, <1>7, <4>1
    <3> QED
      BY <3>1, <3>2
  <2> QED
    BY <2>1, <2>2, <2>3 DEF InodesOK
<1>13. Keeps(x, y)
  <2>1. Sound(y)
    BY <1>0, <1>2, <1>4, <1>10, <1>11, <1>12 DEF Sound
  <2>2. x.next_fileid <= y.next_fileid
    BY <1>4 DEF Sound
  <2>3. id >= x.next_fileid
    BY <1>2
  <2>4. Continues(x, y)
    BY <1>0, <1>1, <1>2, <1>6, <2>2, <2>3 DEF Continues, InodesOK
  <2> QED
    BY <2>1, <2>4 DEF Keeps
<1>14. Follows(x, y, p)
  <2>1. x.next_fileid <= y.next_fileid
    BY <1>4 DEF Sound
  <2>2. ASSUME NEW q \in DOMAIN x.path_to_id \ {p} PROVE Stays(x, y, q)
    <3>1. x.path_to_id[q] \in DOMAIN x.id_to_path /\ x.path_to_id[q] \in DOMAIN x.id_to_inode
      BY <1>1 DEF PathsOK, InodesOK
    <3>2. x.path_to_id[q] # id
      BY <1>2, <3>1
    <3> QED
      BY <1>5, <1>6, <3>1, <3>2 DEF Stays
  <2>3. ASSUME NEW k \in DOMAIN y.id_to_path, k < x.next_fileid
        PROVE  k \in DOMAIN x.id_to_path /\ y.id_to_path[k] = x.id_to_path[k]
    <3>1. k # id
      BY <1>2, <2>3
    <3> QED
      BY <1>7, <3>1
  <2> QED
    BY <2>1, <2>2, <2>3 DEF Follows
<1> QED
  BY <1>5, <1>6, <1>13, <1>14 DEF EntersAs, y

\* The attributes of an entry, if there is one, are replaced.
LEMMA TypedEnters ==
    ASSUME NEW x, Sound(x), NEW id, NEW t \in {"reg", "dir"}
    PROVE  Reshaped(x, Typed(x, id, t))
BY TypedReshapes, Unshaped DEF Typed, Found

\* create_entry for a path that is not in the table, or no longer.
LEMMA WithPathEnters ==
    ASSUME NEW x, Sound(x), NEW f \in File, NEW p \in Seq(Interned(x))
    PROVE  EntersAs(x, WithPath(x, p, f).m, p, f, WithPath(x, p, f).id)
<1>1. f.ftype \in {"reg", "dir"}
  BY DEF File
<1>2. CASE f.ino \in DOMAIN x.inode_to_id
  <2>1. PICK id : id = x.inode_to_id[f.ino]
    OBVIOUS
  <2>2. PICK y : y = Typed(x, id, f.ftype)
    OBVIOUS
  <2>3. Reshaped(x, y)
    BY <1>1, <2>2, TypedEnters
  <2>4. Keeps(x, y) /\ Sound(y) /\ Follows(x, y, p)
    BY <2>3, ReshapedSound, ReshapedFollows DEF Keeps
  <2>p. p \in Seq(Interned(y))
    BY <2>4, PathsGrow
  <2>5. f.ino \in DOMAIN y.inode_to_id /\ y.inode_to_id[f.ino] = id
    BY <1>2, <2>1, <2>3 DEF Reshaped
  <2>6. PICK z : z = Aliased(y, id, p, f.ino)
    OBVIOUS
  <2>7. EntersAs(y, z, p, f, id)
    BY <2>4, <2>5, <2>6, <2>p, AliasedSound
  <2>8. Keeps(x, z) /\ Follows(x, z, p)
    BY <2>4, <2>7, FollowsTwice, KeepsTwice DEF EntersAs, Keeps
  <2>9. EntersAs(x, z, p, f, id)
    BY <2>7, <2>8 DEF EntersAs
  <2>10. WithPath(x, p, f) = [m |-> z, id |-> id]
    BY <1>2, <2>1, <2>2, <2>6 DEF WithPath
  <2> QED
    BY <2>9, <2>10
<1>3. CASE f.ino \notin DOMAIN x.inode_to_id
  <2>1. PICK id : id = FreshId(x)
    OBVIOUS
  <2>2. PICK z : z = Added(x, id, p, f)
    OBVIOUS
  <2>3. EntersAs(x, z, p, f, id)
    BY <1>3, <2>1, <2>2, AddedSound DEF FreshId
  <2>4. WithPath(x, p, f) = [m |-> z, id |-> id]
    BY <1>3, <2>1, <2>2 DEF WithPath
  <2> QED
    BY <2>3, <2>4
<1> QED
  BY <1>2, <1>3

\* create_entry: the path leads to the file that was found there.
LEMMA CreateEnters ==
    ASSUME NEW x, Sound(x), NEW f \in File, NEW p \in Seq(Interned(x))
    PROVE  EntersAs(x, create_entry(x, p, f).m, p, f, create_entry(x, p, f).id)
<1>1. CASE p \notin DOMAIN x.path_to_id
  BY <1>1, WithPathEnters DEF create_entry
<1>2. CASE p \in DOMAIN x.path_to_id
  <2>1. PICK id : id = x.path_to_id[p]
    OBVIOUS
  <2>2. CASE id \in DOMAIN x.id_to_inode /\ x.id_to_inode[id] = f.ino
    <3>1. PICK y : y = Typed(x, id, f.ftype)
      OBVIOUS
    <3>2. f.ftype \in {"reg", "dir"}
      BY DEF File
    <3>3. Reshaped(x, y)
      BY <3>1, <3>2, TypedEnters
    <3>4. Keeps(x, y) /\ Follows(x, y, p)
      BY <3>3, ReshapedSound, ReshapedFollows
    <3>5. EntersAs(x, y, p, f, id)
      BY <1>2, <2>1, <2>2, <3>3, <3>4 DEF EntersAs, Reshaped
    <3>6. create_entry(x, p, f) = [m |-> y, id |-> id]
      BY <1>2, <2>1, <2>2, <3>1 DEF create_entry
    <3> QED
      BY <3>5, <3>6
  <2>3. CASE ~(id \in DOMAIN x.id_to_inode /\ x.id_to_inode[id] = f.ino)
    <3>1. PICK y : y = remove_path(x, p)
      OBVIOUS
    <3>2. Keeps(x, y) /\ Sound(y) /\ Follows(x, y, p)
      BY <3>1, DeleteSound, RemoveFollows DEF Keeps
    <3>p. p \in Seq(Interned(y))
      BY <3>2, PathsGrow
    <3>3. PICK r : r = WithPath(y, p, f)
      OBVIOUS
    <3>4. EntersAs(y, r.m, p, f, r.id)
      BY <3>2, <3>3, <3>p, WithPathEnters
    <3>5. Keeps(x, r.m) /\ Follows(x, r.m, p)
      BY <3>2, <3>4, FollowsTwice, KeepsTwice DEF EntersAs, Keeps
    <3>6. EntersAs(x, r.m, p, f, r.id)
      BY <3>4, <3>5 DEF EntersAs
    <3>7. create_entry(x, p, f) = r
      BY <1>2, <2>1, <2>3, <3>1, <3>3 DEF create_entry
    <3> QED
      BY <3>6, <3>7
  <2> QED
    BY <2>2, <2>3
<1> QED
  BY <1>1, <1>2

\* A child's path.
LEMMA ChildPaths ==
    ASSUME NEW K, NEW p \in Seq(K), NEW s, NEW t
    PROVE  Append(p, s) # p /\ (Append(p, s) = Append(p, t) => s = t)
<1> DEFINE U == K \cup {s, t}
<1>1. p \in Seq(U) /\ s \in U /\ t \in U
  BY SeqMonotonic
<1> HIDE DEF U
<1>2. /\ Len(Append(p, s)) = Len(p) + 1
      /\ Append(p, s)[Len(p) + 1] = s
      /\ Append(p, t)[Len(p) + 1] = t
      /\ Len(p) \in Nat
  BY <1>1, AppendProperties, LenProperties
<1> QED
  BY <1>2

\* The name of a child is a name.
LEMMA ChildNames ==
    ASSUME NEW K, NEW p \in Seq(K), NEW s, Append(p, s) \in Seq(Names)
    PROVE  s \in Names
<1> DEFINE U == K \cup {s}
<1>1. p \in Seq(U) /\ s \in U
  BY SeqMonotonic
<1> HIDE DEF U
<1>2. /\ Len(Append(p, s)) = Len(p) + 1
      /\ Append(p, s)[Len(p) + 1] = s
      /\ Len(p) \in Nat
  BY <1>1, AppendProperties, LenProperties
<1>3. Len(p) + 1 \in 1..Len(Append(p, s))
  BY <1>2
<1> QED
  BY <1>2, <1>3, ElementOfSeq

\* What is known when some children of the directory at p, those in done, have
\* been entered, beginning with the map x.
Entering(x, all, d, p, done) ==
    /\ Keeps(x, all.m)
    /\ DOMAIN all.ids = done
    /\ \A s \in done :
           /\ Append(p, s) \in DOMAIN all.m.path_to_id
           /\ all.m.path_to_id[Append(p, s)] = all.ids[s]
           /\ all.m.id_to_inode[all.ids[s]] = d[Append(p, s)].ino
    /\ \A id \in DOMAIN all.m.id_to_path :
           (id \in DOMAIN x.id_to_path /\ x.id_to_path[id].name = p) =>
               all.m.id_to_path[id].name = p

\* One more child is entered: its path is none of those entered before, and the
\* directory keeps its name.
LEMMA EnterStep ==
    ASSUME NEW x, Sound(x), NEW d, Directory(d), NEW p \in Seq(Interned(x)), NEW all, NEW done,
           Entering(x, all, d, p, done), NEW s, Append(p, s) \in DOMAIN d
    PROVE  Entering(x, EnterNext(all, d, p, s), d, p, done \cup {s})
<1>1. PICK q : q = Append(p, s)
  OBVIOUS
<1>2. PICK f : f = d[q]
  OBVIOUS
<1>3. s \in Names /\ f \in File
  BY <1>1, <1>2, ChildNames DEF Directory
<1>a. PICK v, y : v = all.m /\ y = Intern(v, s)
  OBVIOUS
<1>4. /\ Keeps(x, v) /\ Keeps(v, y) /\ Keeps(x, y) /\ Sound(y)
      /\ s \in Interned(y)
      /\ y.next_fileid = v.next_fileid
      /\ y.id_to_path = v.id_to_path
      /\ y.path_to_id = v.path_to_id
      /\ y.id_to_inode = v.id_to_inode
  <2>1. Keeps(x, v) /\ Sound(v)
    BY <1>a DEF Entering, Keeps
  <2> QED
    BY <1>3, <1>a, <2>1, InternMeans, KeepsTwice DEF Keeps
<1>q. q \in Seq(Interned(y))
  <2>1. p \in Seq(Interned(y))
    BY <1>4, PathsGrow
  <2> QED
    BY <1>1, <1>4, <2>1, AppendProperties
<1>5. PICK r : r = create_entry(y, q, f)
  OBVIOUS
<1>7. EntersAs(y, r.m, q, f, r.id)
  BY <1>3, <1>4, <1>5, <1>q, CreateEnters
<1>8. PICK z : z = r.m
  OBVIOUS
<1>9. /\ Keeps(y, z) /\ Follows(y, z, q)
      /\ q \in DOMAIN z.path_to_id /\ z.path_to_id[q] = r.id
      /\ z.id_to_inode[r.id] = f.ino
  BY <1>7, <1>8 DEF EntersAs
<1>10. PICK ids : ids = Override(Entry(s, r.id), all.ids)
  OBVIOUS
<1>11. EnterNext(all, d, p, s) = [m |-> z, ids |-> ids]
  BY <1>1, <1>2, <1>a, <1>5, <1>8, <1>10 DEF EnterNext, Listed
<1>12. /\ DOMAIN ids = done \cup {s}
       /\ ids[s] = r.id
       /\ \A t \in done : t # s => ids[t] = all.ids[t]
  BY <1>10 DEF Override, Entry, Entering
<1>13. Keeps(x, z)
  BY <1>4, <1>9, KeepsTwice
<1>14. ASSUME NEW t \in done \cup {s}
       PROVE  /\ Append(p, t) \in DOMAIN z.path_to_id
              /\ z.path_to_id[Append(p, t)] = ids[t]
              /\ z.id_to_inode[ids[t]] = d[Append(p, t)].ino
  <2>1. CASE t = s
    BY <1>1, <1>2, <1>9, <1>12, <2>1
  <2>2. CASE t # s
    <3>1. PICK c : c = Append(p, t)
      OBVIOUS
    <3>2. c # q
      BY <1>1, <2>2, <3>1, ChildPaths
    <3>3. c \in DOMAIN y.path_to_id /\ y.path_to_id[c] = all.ids[t]
          /\ y.id_to_inode[all.ids[t]] = d[c].ino
      BY <1>a, <1>4, <2>2, <3>1 DEF Entering
    <3>4. Stays(y, z, c)
      BY <1>9, <3>2, <3>3 DEF Follows
    <3> QED
      BY <1>12, <2>2, <3>1, <3>3, <3>4 DEF Stays
  <2> QED
    BY <2>1, <2>2
<1>15. ASSUME NEW id \in DOMAIN z.id_to_path, id \in DOMAIN x.id_to_path,
              x.id_to_path[id].name = p
       PROVE  z.id_to_path[id].name = p
  <2>1. id \in Nat /\ id < x.next_fileid /\ x.next_fileid \in Nat
    BY <1>15 DEF Sound, EntriesOK
  <2>2. id < y.next_fileid
    <3>1. y.next_fileid \in Nat /\ x.next_fileid <= y.next_fileid
      BY <1>4 DEF Keeps, Sound, Continues
    <3> QED
      BY <2>1, <3>1
  <2>3. /\ id \in DOMAIN y.id_to_path
        /\ y.id_to_path[id].name # q => z.id_to_path[id].name = y.id_to_path[id].name
    BY <1>9, <1>15, <2>2 DEF Follows
  <2>4. y.id_to_path[id].name = p
    BY <1>a, <1>4, <1>15, <2>3 DEF Entering
  <2>5. p # q
    BY <1>1, ChildPaths
  <2> QED
    BY <2>3, <2>4, <2>5
<1> QED
  BY <1>9, <1>11, <1>12, <1>13, <1>14, <1>15 DEF Entering

\* The maps and lists of children after n children have been entered, for all n
\* up to k.
Progress(x, d, p, order, k, g) ==
    g = [n \in 0..k |-> IF n = 0 THEN [m |-> x, ids |-> <<>>]
                        ELSE EnterNext(g[n - 1], d, p, order[n])]

\* A longer progress.
LEMMA ProgressLonger ==
    ASSUME NEW x, NEW d, NEW p, NEW order, NEW k \in Nat, NEW g, k > 0,
           Progress(x, d, p, order, k - 1, g)
    PROVE  \E h : Progress(x, d, p, order, k, h)
<1> DEFINE h == [n \in 0..k |-> IF n = k THEN EnterNext(g[k - 1], d, p, order[k]) ELSE g[n]]
           a == [m |-> x, ids |-> <<>>]
<1>0. PICK b : b = a
  OBVIOUS
<1>1. \A n \in 0..(k - 1) : g[n] = IF n = 0 THEN b ELSE EnterNext(g[n - 1], d, p, order[n])
  <2>1. g = [n \in 0..(k - 1) |-> IF n = 0 THEN b ELSE EnterNext(g[n - 1], d, p, order[n])]
    BY <1>0 DEF Progress
  <2> QED
    BY <2>1
<1>2. ASSUME NEW n \in 0..k
      PROVE  h[n] = IF n = 0 THEN b ELSE EnterNext(h[n - 1], d, p, order[n])
  <2>1. CASE n = k
    <3>1. h[n] = EnterNext(g[k - 1], d, p, order[k])
      BY <2>1
    <3>2. h[n - 1] = g[k - 1]
      BY <2>1
    <3> QED
      BY <2>1, <3>1, <3>2
  <2>2. CASE n = 0
    <3>1. h[n] = g[n] /\ n \in 0..(k - 1)
      BY <2>2
    <3> QED
      BY <1>1, <2>2, <3>1
  <2>3. CASE n # k /\ n # 0
    <3>1. h[n] = g[n] /\ n \in 0..(k - 1) /\ h[n - 1] = g[n - 1]
      BY <2>3
    <3>2. g[n] = EnterNext(g[n - 1], d, p, order[n])
      BY <1>1, <2>3, <3>1
    <3> QED
      BY <2>3, <3>1, <3>2
  <2> QED
    BY <2>1, <2>2, <2>3
<1>3. PICK w : w = h
  OBVIOUS
<1>4. /\ w = [n \in 0..k |-> w[n]]
      /\ \A n \in 0..k : w[n] = IF n = 0 THEN b ELSE EnterNext(w[n - 1], d, p, order[n])
  BY <1>2, <1>3
<1> HIDE DEF h
<1>5. w = [n \in 0..k |-> IF n = 0 THEN b ELSE EnterNext(w[n - 1], d, p, order[n])]
  BY <1>4
<1>6. Progress(x, d, p, order, k, w)
  BY <1>0, <1>5 DEF Progress
<1> QED
  BY <1>6

\* The recursive function of Entered exists.
LEMMA ProgressFound ==
    ASSUME NEW x, NEW d, NEW p, NEW order, NEW k \in Nat
    PROVE  \E g : Progress(x, d, p, order, k, g)
<1> DEFINE Bad == {n \in Nat : ~ \E g : Progress(x, d, p, order, n, g)}
<1> SUFFICES ASSUME Bad # {} PROVE FALSE
  OBVIOUS
<1>1. PICK n \in Bad : \A j \in Bad : n <= j
  <2>1. Bad \subseteq Nat
    OBVIOUS
  <2> QED
    BY <2>1, Smallest
<1>2. CASE n = 0
  <2>1. PICK g : g = [i \in 0..0 |-> [m |-> x, ids |-> <<>>]]
    OBVIOUS
  <2>2. g = [i \in 0..0 |-> IF i = 0 THEN [m |-> x, ids |-> <<>>]
                            ELSE EnterNext(g[i - 1], d, p, order[i])]
    BY <2>1
  <2>3. Progress(x, d, p, order, 0, g)
    BY <2>2 DEF Progress
  <2> QED
    BY <1>2, <2>3
<1>3. CASE n > 0
  <2>1. n \in Nat /\ n - 1 \in Nat /\ ~(n <= n - 1)
    BY <1>3
  <2>2. n - 1 \notin Bad
    BY <1>1, <2>1
  <2>3. PICK g : Progress(x, d, p, order, n - 1, g)
    BY <2>1, <2>2
  <2> QED
    BY <1>3, <2>1, <2>3, ProgressLonger
<1> QED
  BY <1>2, <1>3

\* Entered is where the progress ends.
LEMMA EnteredMeans ==
    ASSUME NEW x, NEW d, NEW p, NEW order, Len(order) \in Nat
    PROVE  \E g : /\ Progress(x, d, p, order, Len(order), g)
                  /\ Entered(x, d, p, order) = g[Len(order)]
<1> DEFINE g == CHOOSE g : Progress(x, d, p, order, Len(order), g)
<1>1. Progress(x, d, p, order, Len(order), g)
  BY ProgressFound
<1>2. Entered(x, d, p, order) = g[Len(order)]
  BY DEF Entered, Progress
<1> QED
  BY <1>1, <1>2

\* All the children of the directory at p are entered.
LEMMA EnteredAll ==
    ASSUME NEW x, Sound(x), NEW d, Directory(d), NEW p \in Seq(Interned(x)),
           NEW order, Len(order) \in Nat,
           \A n \in 1..Len(order) : Append(p, order[n]) \in DOMAIN d
    PROVE  Entering(x, Entered(x, d, p, order), d, p, {order[i] : i \in 1..Len(order)})
<1> DEFINE SoFar(n) == {order[i] : i \in 1..n}
           last == Len(order)
<1>1. PICK g : Progress(x, d, p, order, last, g) /\ Entered(x, d, p, order) = g[last]
  BY EnteredMeans
<1>2. PICK b : b = [m |-> x, ids |-> <<>>]
  OBVIOUS
<1>3. \A n \in 0..last : g[n] = IF n = 0 THEN b ELSE EnterNext(g[n - 1], d, p, order[n])
  <2>1. g = [n \in 0..last |-> IF n = 0 THEN b ELSE EnterNext(g[n - 1], d, p, order[n])]
    BY <1>1, <1>2 DEF Progress
  <2> QED
    BY <2>1
<1> DEFINE Bad == {n \in 0..last : ~Entering(x, g[n], d, p, SoFar(n))}
<1>4. Bad = {}
  <2> SUFFICES ASSUME Bad # {} PROVE FALSE
    OBVIOUS
  <2>1. PICK n \in Bad : \A j \in Bad : n <= j
    <3>1. Bad \subseteq Nat
      OBVIOUS
    <3> QED
      BY <3>1, Smallest
  <2>2. CASE n = 0
    <3>1. g[0] = b
      BY <1>3, <2>2
    <3>2. SoFar(0) = {} /\ DOMAIN b.ids = {} /\ b.m = x
      BY <1>2
    <3>3. Keeps(x, x)
      BY KeepsItself
    <3>4. Entering(x, b, d, p, {})
      BY <3>2, <3>3 DEF Entering
    <3> QED
      BY <2>2, <3>1, <3>2, <3>4
  <2>3. CASE n > 0
    <3>1. n \in 0..last /\ n \in 1..last /\ n - 1 \in 0..last /\ ~(n <= n - 1)
      BY <2>3
    <3>2. n - 1 \notin Bad
      BY <2>1, <3>1
    <3>3. Entering(x, g[n - 1], d, p, SoFar(n - 1))
      BY <3>1, <3>2
    <3>4. g[n] = EnterNext(g[n - 1], d, p, order[n])
      BY <1>3, <2>3, <3>1
    <3>5. SoFar(n) = SoFar(n - 1) \cup {order[n]}
      <4>1. \A i : i \in 1..n <=> i \in 1..(n - 1) \/ i = n
        BY <3>1
      <4> QED
        BY <4>1
    <3>6. PICK all, s, done : all = g[n - 1] /\ s = order[n] /\ done = SoFar(n - 1)
      OBVIOUS
    <3> HIDE DEF SoFar
    <3>7. Entering(x, all, d, p, done) /\ Append(p, s) \in DOMAIN d
      BY <3>1, <3>3, <3>6
    <3>8. Entering(x, EnterNext(all, d, p, s), d, p, done \cup {s})
      BY <3>7, EnterStep
    <3>9. Entering(x, g[n], d, p, SoFar(n))
      BY <3>4, <3>5, <3>6, <3>8
    <3> QED
      BY <3>1, <3>9
  <2> QED
    BY <2>2, <2>3
<1>5. last \in 0..last
  OBVIOUS
<1>6. Entering(x, g[last], d, p, SoFar(last))
  BY <1>4, <1>5
<1> QED
  BY <1>1, <1>6

\* What refresh_dir_list makes of a directory with the name p, if it keeps its
\* entry: its children are those on the disk, each with an id that stands for it.
LaidOut(y, d, id, p) ==
    id \in DOMAIN y.id_to_path =>
        LET e == y.id_to_path[id]
        IN  /\ e.name = p
            /\ DOMAIN e.children.ids = Listing(d, p)
            /\ \A s \in Listing(d, p) : y.id_to_inode[e.children.ids[s]] = d[Append(p, s)].ino

\* The children that are gone lose their paths; they are none of those listed.
LEMMA RelistSound ==
    ASSUME NEW x, Sound(x), NEW d, NEW id \in DOMAIN x.id_to_path, NEW p \in Seq(Interned(x)),
           NEW all, NEW e, e.name = p, x.id_to_path[id].name = p,
           Entering(x, all, d, p, Listing(d, p))
    PROVE  Keeps(x, Relist(all, e, id)) /\ LaidOut(Relist(all, e, id), d, id, p)
<1>1. PICK old : old = IF e.children.listed THEN DOMAIN e.children.ids ELSE {}
  OBVIOUS
<1>2. PICK stale : stale = {Append(e.name, s) : s \in old \ DOMAIN all.ids}
  OBVIOUS
<1>3. PICK y, ids : y = all.m /\ ids = all.ids
  OBVIOUS
<1>4. PICK z : z = remove_paths(y, stale)
  OBVIOUS
<1>5. Relist(all, e, id) = WithChildren(z, id, ids)
  BY <1>1, <1>2, <1>3, <1>4 DEF Relist
<1>6. /\ Keeps(x, y) /\ Sound(y)
      /\ DOMAIN ids = Listing(d, p)
      /\ \A s \in Listing(d, p) :
             /\ Append(p, s) \in DOMAIN y.path_to_id
             /\ y.path_to_id[Append(p, s)] = ids[s]
             /\ y.id_to_inode[ids[s]] = d[Append(p, s)].ino
      /\ id \in DOMAIN y.id_to_path => y.id_to_path[id].name = p
  BY <1>3 DEF Entering, Keeps
<1>7. /\ Keeps(y, z) /\ Keeps(x, z) /\ Sound(z)
      /\ \A q \in DOMAIN y.path_to_id \ stale : Stays(y, z, q)
      /\ \A k \in DOMAIN z.id_to_path :
             /\ k \in DOMAIN y.id_to_path
             /\ y.id_to_path[k].name \notin stale =>
                    z.id_to_path[k].name = y.id_to_path[k].name
  BY <1>4, <1>6, RemoveSound, KeepsTwice DEF Keeps
<1>8. p \notin stale
  BY <1>2, ChildPaths
<1>9. ASSUME NEW s \in Listing(d, p) PROVE z.id_to_inode[ids[s]] = d[Append(p, s)].ino
  <2>1. PICK c : c = Append(p, s)
    OBVIOUS
  <2>2. c \notin stale
    BY <1>2, <1>3, <1>6, <2>1, ChildPaths
  <2>3. c \in DOMAIN y.path_to_id /\ y.path_to_id[c] = ids[s] /\ y.id_to_inode[ids[s]] = d[c].ino
    BY <1>6, <2>1
  <2>4. Stays(y, z, c)
    BY <1>7, <2>2, <2>3
  <2> QED
    BY <2>1, <2>3, <2>4 DEF Stays
<1>10. CASE id \in DOMAIN z.id_to_path
  <2>0. PICK c : c = Children(ids)
    OBVIOUS
  <2>1. PICK w : w = Relaid(z, id, c)
    OBVIOUS
  <2>2. WithChildren(z, id, ids) = w
    BY <1>10, <2>0, <2>1 DEF WithChildren, Found, Relaid
  <2>3. Reshaped(z, w) /\ w.id_to_path[id].children = c
    BY <1>7, <1>10, <2>1, ChildrenReshape
  <2>4. Keeps(x, w)
    BY <1>7, <2>3, ReshapedSound, KeepsTwice
  <2>5. w.id_to_path[id].name = p
    BY <1>6, <1>7, <1>8, <1>10, <2>3 DEF Reshaped
  <2>6. w.id_to_path[id].children.ids = ids
    BY <2>0, <2>3 DEF Children
  <2>7. \A s \in Listing(d, p) : w.id_to_inode[ids[s]] = d[Append(p, s)].ino
    BY <1>9, <2>3 DEF Reshaped
  <2>8. LaidOut(w, d, id, p)
    BY <1>6, <2>5, <2>6, <2>7 DEF LaidOut
  <2> QED
    BY <1>5, <2>2, <2>4, <2>8
<1>11. CASE id \notin DOMAIN z.id_to_path
  BY <1>5, <1>7, <1>11 DEF WithChildren, Found, LaidOut
<1> QED
  BY <1>10, <1>11

\* What a directory holds is finite.
LEMMA ListingFinite ==
    ASSUME NEW d, Directory(d), NEW p
    PROVE  IsFiniteSet(Listing(d, p))
<1> DEFINE S == DOMAIN d \ {<<>>}
           T == {Last(q) : q \in S}
           f == [q \in S |-> Last(q)]
<1>1. IsFiniteSet(S)
  BY FS_Difference DEF Directory
<1>2. f \in Surjection(S, T)
  BY DEF Surjection
<1>3. IsFiniteSet(T)
  BY <1>1, <1>2, FS_Surjection
<1>4. Listing(d, p) \in SUBSET T
  BY DEF Listing
<1> HIDE DEF T
<1> QED
  BY <1>3, <1>4, FS_Subset

\* An order of a finite set has all of its elements.
LEMMA OrderMeans ==
    ASSUME NEW S, IsFiniteSet(S), NEW order \in SetToSeqs(S)
    PROVE  Len(order) \in Nat /\ S = {order[i] : i \in 1..Len(order)}
<1>1. PICK n : n = Cardinality(S)
  OBVIOUS
<1>2. n \in Nat
  BY <1>1, FS_CardinalityType
<1>3. order \in [1..n -> S] /\ \A i, j \in 1..n : i # j => order[i] # order[j]
  BY <1>1 DEF SetToSeqs
<1>4. order \in Injection(1..n, S)
  BY <1>3 DEF Injection, IsInjective
<1>5. IsFiniteSet(1..n) /\ Cardinality(1..n) = n
  BY <1>2, FS_Interval
<1>6. order \in Surjection(1..n, S)
  BY <1>1, <1>4, <1>5, FS_Injection
<1>7. S = {order[i] : i \in 1..n}
  BY <1>6 DEF Surjection
<1>8. Len(order) = n
  BY <1>2, <1>3
<1> QED
  BY <1>2, <1>7, <1>8

\* refresh_dir_list.
LEMMA ListSound ==
    ASSUME NEW x, Sound(x), NEW d, Directory(d), NEW id \in DOMAIN x.id_to_path,
           NEW order \in SetToSeqs(Listing(d, x.id_to_path[id].name))
    PROVE  /\ Keeps(x, refresh_dir_list(x, d, id, order))
           /\ LaidOut(refresh_dir_list(x, d, id, order), d, id, x.id_to_path[id].name)
<1>1. PICK e, p : e = x.id_to_path[id] /\ p = e.name
  OBVIOUS
<1>2. p \in Seq(Interned(x))
  BY <1>1 DEF Sound, EntriesOK, EntryOK
<1>3. Len(order) \in Nat /\ Listing(d, p) = {order[i] : i \in 1..Len(order)}
  BY <1>1, ListingFinite, OrderMeans
<1>4. \A n \in 1..Len(order) : Append(p, order[n]) \in DOMAIN d
  <2>1. \A s \in Listing(d, p) : Append(p, s) \in DOMAIN d
    BY DEF Listing
  <2> QED
    BY <1>3, <2>1
<1>5. PICK all : all = Entered(x, d, p, order)
  OBVIOUS
<1>6. Entering(x, all, d, p, Listing(d, p))
  BY <1>2, <1>3, <1>4, <1>5, EnteredAll
<1>7. refresh_dir_list(x, d, id, order) = Relist(all, e, id)
  BY <1>1, <1>5 DEF refresh_dir_list
<1> QED
  BY <1>1, <1>2, <1>6, <1>7, RelistSound

------------------------------------------------------------------------------
(* Renames, in the map and on the disk.                                    *)

\* A path below from becomes a path below to.
LEMMA RebasedPath ==
    ASSUME NEW K, NEW p \in Seq(K), NEW from \in Seq(K), NEW to \in Seq(K), IsPrefix(from, p)
    PROVE  Rebased(p, from, to) \in Seq(K)
<1>1. Len(from) \in Nat /\ Len(p) \in Nat /\ Len(from) <= Len(p)
  BY LenProperties DEF IsPrefix
<1>2. SubSeq(p, Len(from) + 1, Len(p)) \in Seq(K)
  <2>1. CASE Len(from) = Len(p)
    <3>1. SubSeq(p, Len(from) + 1, Len(p)) = <<>>
      BY <1>1, <2>1, SubSeqEmpty
    <3> QED
      BY <3>1, EmptySeq
  <2>2. CASE Len(from) < Len(p)
    BY <1>1, <2>2, SubSeqProperties
  <2> QED
    BY <1>1, <2>1, <2>2
<1> QED
  BY <1>2, ConcatProperties DEF Rebased

RebasedAll(S, from, to) == {Rebased(p, from, to) : p \in S}

\* What MovedKeys makes of a table of paths.
MovesTo(f, g, moves, from, to) ==
    /\ DOMAIN g = RebasedAll(moves, from, to) \cup (DOMAIN f \ moves)
    /\ \A q \in DOMAIN g :
           \/ \E p \in moves : q = Rebased(p, from, to) /\ g[q] = f[p]
           \/ q \in DOMAIN f \ moves /\ g[q] = f[q]

\* MovedKeys moves the keys below from.
LEMMA MovedMeans ==
    ASSUME NEW f, NEW from, NEW to, NEW moves, moves = Below(DOMAIN f, from),
           NEW g, g = MovedKeys(f, from, to)
    PROVE  MovesTo(f, g, moves, from, to)
<1> DEFINE R == {Rebased(p, from, to) : p \in moves}
           of(q) == CHOOSE p \in moves : Rebased(p, from, to) = q
<1>1. g = [q \in R \cup (DOMAIN f \ moves) |-> IF q \in R THEN f[of(q)] ELSE f[q]]
  BY DEF MovedKeys, Override, Without, Restrict
<1>2. \A q \in R : of(q) \in moves /\ Rebased(of(q), from, to) = q
  OBVIOUS
<1> HIDE DEF of
<1>3. DOMAIN g = R \cup (DOMAIN f \ moves)
  BY <1>1
<1>4. ASSUME NEW q \in R
      PROVE  \E p \in moves : q = Rebased(p, from, to) /\ g[q] = f[p]
  <2>1. g[q] = f[of(q)]
    BY <1>1
  <2> QED
    BY <1>2, <2>1
<1>5. ASSUME NEW q \in DOMAIN g, q \notin R
      PROVE  q \in DOMAIN f \ moves /\ g[q] = f[q]
  BY <1>1, <1>3, <1>5
<1> QED
  BY <1>3, <1>4, <1>5 DEF MovesTo, RebasedAll

\* Finitely many paths stay so.
LEMMA RebasedFinite ==
    ASSUME NEW S, IsFiniteSet(S), NEW from, NEW to
    PROVE  IsFiniteSet(RebasedAll(S, from, to))
<1> DEFINE T == RebasedAll(S, from, to)
           f == [p \in S |-> Rebased(p, from, to)]
<1>1. f \in Surjection(S, T)
  BY DEF Surjection, RebasedAll
<1> QED
  BY <1>1, FS_Surjection

\* rename_path_prefix.
LEMMA RenameSound ==
    ASSUME NEW x, Sound(x), NEW from \in Seq(Interned(x)), NEW to \in Seq(Interned(x))
    PROVE  Keeps(x, rename_path_prefix(x, from, to))
<1> SUFFICES ASSUME from # to PROVE Keeps(x, rename_path_prefix(x, from, to))
  BY KeepsItself DEF rename_path_prefix
<1>1. PICK y : y = rename_path_prefix(x, from, to)
  OBVIOUS
<1>2. DOMAIN x = Fields /\ EntriesOK(x) /\ PathsOK(x) /\ InodesOK(x) /\ x.next_fileid \in Nat \ {0}
  BY DEF Sound
<1>3. /\ DOMAIN y = Fields
      /\ y.next_fileid = x.next_fileid /\ y.intern = x.intern
      /\ y.path_to_id = MovedKeys(x.path_to_id, from, to)
      /\ y.id_to_inode = x.id_to_inode
      /\ y.inode_to_id = x.inode_to_id
      /\ y.id_to_path = [id \in DOMAIN x.id_to_path |-> MovedEntry(x, from, to, id)]
  BY <1>1, <1>2 DEF Fields, rename_path_prefix
<1>0. Interned(y) = Interned(x) /\ InternOK(y)
  BY <1>3, SameNames DEF Sound
<1>4. PICK moves : moves = Below(DOMAIN x.path_to_id, from)
  OBVIOUS
<1>5. \A p \in moves : p \in DOMAIN x.path_to_id /\ p \in Seq(Interned(x)) /\ IsPrefix(from, p)
  BY <1>2, <1>4 DEF Below, PathsOK
<1>6. \A q \in DOMAIN y.path_to_id :
          \/ \E p \in moves : q = Rebased(p, from, to) /\ y.path_to_id[q] = x.path_to_id[p]
          \/ q \in DOMAIN x.path_to_id \ moves /\ y.path_to_id[q] = x.path_to_id[q]
  <2>1. PICK f, g : f = x.path_to_id /\ g = y.path_to_id
    OBVIOUS
  <2>2. MovesTo(f, g, moves, from, to)
    <3>1. moves = Below(DOMAIN f, from) /\ g = MovedKeys(f, from, to)
      BY <1>3, <1>4, <2>1
    <3> QED
      BY <3>1, MovedMeans
  <2> QED
    BY <2>1, <2>2 DEF MovesTo
<1>7. ASSUME NEW id \in DOMAIN x.id_to_path
      PROVE  /\ EntryOK(Interned(x), y.id_to_path[id])
             /\ \A p \in x.id_to_path[id].aliases :
                    \/ p \in moves /\ x.path_to_id[p] = id
                    \/ p \in y.id_to_path[id].aliases
             /\ \A p \in moves : x.path_to_id[p] = id =>
                    Rebased(p, from, to) \in y.id_to_path[id].aliases
  <2>1. PICK e, of : e = x.id_to_path[id] /\ of = PathsOf(x, moves, id)
    OBVIOUS
  <2>2. PICK k : k = y.id_to_path[id]
    OBVIOUS
  <2>3. k = [e EXCEPT !.aliases = (@ \ of) \cup {Rebased(p, from, to) : p \in @ \cap of},
                      !.name = IF @ \in of THEN Rebased(@, from, to) ELSE @]
    BY <1>3, <1>4, <2>1, <2>2 DEF MovedEntry
  <2>4. EntryOK(Interned(x), e)
    BY <1>2, <2>1 DEF EntriesOK
  <2>5. /\ DOMAIN e = {"name", "aliases", "ftype", "children"}
        /\ IsFiniteSet(e.aliases) /\ e.aliases \subseteq Seq(Interned(x))
        /\ e.name \in e.aliases /\ e.ftype \in {"reg", "dir"}
    BY <2>4 DEF EntryOK
  <2>6. /\ DOMAIN k = DOMAIN e
        /\ k.aliases = (e.aliases \ of) \cup {Rebased(p, from, to) : p \in e.aliases \cap of}
        /\ k.name = IF e.name \in of THEN Rebased(e.name, from, to) ELSE e.name
        /\ k.ftype = e.ftype
    BY <2>3, <2>5
  <2>7. of \subseteq moves /\ \A p \in moves : x.path_to_id[p] = id <=> p \in of
    BY <1>5, <2>1 DEF PathsOf
  <2>8. IsFiniteSet(k.aliases)
    <3>1. IsFiniteSet(e.aliases \ of) /\ IsFiniteSet(e.aliases \cap of)
      BY <2>5, FS_Difference, FS_Intersection
    <3>2. IsFiniteSet(RebasedAll(e.aliases \cap of, from, to))
      BY <3>1, RebasedFinite
    <3>3. \A A, B : IsFiniteSet(A) /\ IsFiniteSet(B) => IsFiniteSet(A \cup B)
      BY FS_Union
    <3> QED
      BY <2>6, <3>1, <3>2, <3>3 DEF RebasedAll
  <2>9. k.aliases \subseteq Seq(Interned(x))
    <3>1. \A p \in e.aliases \cap of : Rebased(p, from, to) \in Seq(Interned(x))
      BY <1>5, <2>7, RebasedPath
    <3> QED
      BY <2>5, <2>6, <3>1
  <2>10. k.name \in k.aliases
    BY <2>5, <2>6
  <2>11. EntryOK(Interned(x), k)
    BY <2>5, <2>6, <2>8, <2>9, <2>10 DEF EntryOK
  <2>12. ASSUME NEW p \in moves, x.path_to_id[p] = id
         PROVE  Rebased(p, from, to) \in k.aliases
    <3>1. p \in of
      BY <2>7, <2>12
    <3>2. p \in e.aliases
      BY <1>2, <1>5, <2>1, <2>12 DEF PathsOK
    <3> QED
      BY <2>6, <3>1, <3>2
  <2>13. \A p \in e.aliases : p \in of \/ p \in k.aliases
    BY <2>6
  <2>14. \A p \in e.aliases : (p \in moves /\ x.path_to_id[p] = id) \/ p \in k.aliases
    BY <2>7, <2>13
  <2> QED
    BY <2>1, <2>2, <2>11, <2>12, <2>14
<1>8. DOMAIN y.id_to_path = DOMAIN x.id_to_path
  BY <1>3
<1>9. EntriesOK(y)
  BY <1>0, <1>2, <1>3, <1>7, <1>8 DEF EntriesOK
<1>10. PathsOK(y)
  <2> SUFFICES ASSUME NEW q \in DOMAIN y.path_to_id
               PROVE  /\ q \in Seq(Interned(x))
                      /\ y.path_to_id[q] \in DOMAIN x.id_to_path
                      /\ q \in y.id_to_path[y.path_to_id[q]].aliases
    BY <1>0, <1>8 DEF PathsOK
  <2>1. CASE \E p \in moves : q = Rebased(p, from, to) /\ y.path_to_id[q] = x.path_to_id[p]
    <3>1. PICK p \in moves : q = Rebased(p, from, to) /\ y.path_to_id[q] = x.path_to_id[p]
      BY <2>1
    <3>2. x.path_to_id[p] \in DOMAIN x.id_to_path
      BY <1>2, <1>5 DEF PathsOK
    <3>3. q \in Seq(Interned(x))
      BY <1>5, <3>1, RebasedPath
    <3> QED
      BY <1>7, <3>1, <3>2, <3>3
  <2>2. CASE q \in DOMAIN x.path_to_id \ moves /\ y.path_to_id[q] = x.path_to_id[q]
    <3>1. /\ q \in Seq(Interned(x))
          /\ x.path_to_id[q] \in DOMAIN x.id_to_path
          /\ q \in x.id_to_path[x.path_to_id[q]].aliases
      BY <1>2, <2>2 DEF PathsOK
    <3> QED
      BY <1>7, <2>2, <3>1
  <2> QED
    BY <1>6, <2>1, <2>2
<1>11. InodesOK(y)
  BY <1>2, <1>3, <1>8 DEF InodesOK
<1>12. Sound(y)
  BY <1>0, <1>2, <1>3, <1>9, <1>10, <1>11 DEF Sound
<1>13. Continues(x, y)
  BY <1>0, <1>2, <1>3 DEF Continues
<1> QED
  BY <1>1, <1>12, <1>13 DEF Keeps

\* The disk after a file is made, linked, removed or moved.
LEMMA NewDirectory ==
    ASSUME NEW d, Directory(d), NEW p \in Seq(Names), NEW f \in File
    PROVE  LET e == Override(Entry(p, f), d)
           IN  Directory(e) /\ p \in DOMAIN e
<1>1. PICK e : e = Override(Entry(p, f), d)
  OBVIOUS
<1>2. /\ DOMAIN e = DOMAIN d \cup {p}
      /\ e[p] = f
      /\ \A q \in DOMAIN d : q # p => e[q] = d[q]
  BY <1>1 DEF Override, Entry
<1>3. IsFiniteSet(DOMAIN d \cup {p})
  BY FS_AddElement DEF Directory
<1> QED
  BY <1>1, <1>2, <1>3 DEF Directory

\* The disk after a file is removed.
LEMMA GoneDirectory ==
    ASSUME NEW d, Directory(d), NEW p, p # <<>>
    PROVE  Directory(Without(d, {p}))
<1>1. PICK e : e = Without(d, {p})
  OBVIOUS
<1>2. /\ DOMAIN e = DOMAIN d \ {p}
      /\ \A q \in DOMAIN d \ {p} : e[q] = d[q]
  BY <1>1 DEF Without, Restrict
<1>3. IsFiniteSet(DOMAIN d \ {p})
  BY FS_RemoveElement DEF Directory
<1> QED
  BY <1>1, <1>2, <1>3 DEF Directory

\* The disk after a file is moved, with what is below it.
LEMMA MovedDirectory ==
    ASSUME NEW d, Directory(d), NEW p \in Seq(Names), NEW q \in Seq(Names), p # <<>>
    PROVE  Directory(MovedKeys(d, p, q))
<1>1. PICK e, moves : e = MovedKeys(d, p, q) /\ moves = Below(DOMAIN d, p)
  OBVIOUS
<1>2. PICK R : R = RebasedAll(moves, p, q)
  OBVIOUS
<1>3. MovesTo(d, e, moves, p, q)
  BY <1>1, MovedMeans
<1>4. DOMAIN e = R \cup (DOMAIN d \ moves)
  BY <1>2, <1>3 DEF MovesTo
<1>5. \A r \in moves : r \in DOMAIN d /\ r \in Seq(Names) /\ IsPrefix(p, r) /\ d[r] \in File
  BY <1>1 DEF Below, Directory
<1>6. IsFiniteSet(DOMAIN e)
  <2>1. IsFiniteSet(DOMAIN d \ moves) /\ moves \in SUBSET DOMAIN d
    BY <1>5, FS_Difference DEF Directory
  <2>2. IsFiniteSet(moves)
    BY <2>1, FS_Subset DEF Directory
  <2>3. IsFiniteSet(R)
    BY <1>2, <2>2, RebasedFinite
  <2>4. \A A, B : IsFiniteSet(A) /\ IsFiniteSet(B) => IsFiniteSet(A \cup B)
    BY FS_Union
  <2> QED
    BY <1>4, <2>1, <2>3, <2>4
<1>7. <<>> \in DOMAIN e
  <2>1. Len(p) \in Nat /\ Len(p) # 0
    BY LenProperties, EmptySeq
  <2>2. Len(<<>>) = 0
    BY EmptySeq
  <2>3. ~IsPrefix(p, <<>>)
    BY <2>1, <2>2 DEF IsPrefix
  <2> QED
    BY <1>4, <1>5, <2>3 DEF Directory
<1>8. ASSUME NEW r \in DOMAIN e PROVE r \in Seq(Names) /\ e[r] \in File
  <2>1. CASE \E t \in moves : r = Rebased(t, p, q) /\ e[r] = d[t]
    BY <1>5, <2>1, RebasedPath
  <2>2. CASE r \in DOMAIN d \ moves /\ e[r] = d[r]
    BY <2>2 DEF Directory
  <2> QED
    BY <1>3, <2>1, <2>2 DEF MovesTo
<1> QED
  BY <1>1, <1>6, <1>7, <1>8 DEF Directory

\* A child's path is a path, and not the root's.
LEMMA ChildPathIs ==
    ASSUME NEW x, Sound(x), NEW id \in DOMAIN x.id_to_path, NEW s \in Names
    PROVE  LET p == ChildPath(x, id, s)
           IN  /\ p \in Seq(Names) /\ p # <<>> /\ Last(p) = s
               /\ \A y : Keeps(x, y) /\ s \in Interned(y) => p \in Seq(Interned(y))
<1>1. PICK b, p : b = x.id_to_path[id].name /\ p = Append(b, s)
  OBVIOUS
<1>2. b \in Seq(Interned(x))
  BY <1>1 DEF Sound, EntriesOK, EntryOK
<1>3. b \in Seq(Names)
  BY <1>2, InternedNames, SeqMonotonic DEF Sound
<1>4. p \in Seq(Names) /\ p # <<>> /\ Len(p) = Len(b) + 1 /\ p[Len(b) + 1] = s
  BY <1>1, <1>3, AppendProperties
<1>5. Last(p) = s
  BY <1>4 DEF Last
<1>6. ASSUME NEW y, Keeps(x, y), s \in Interned(y) PROVE p \in Seq(Interned(y))
  <2>1. b \in Seq(Interned(y))
    BY <1>2, <1>6, PathsGrow
  <2> QED
    BY <1>1, <1>6, <2>1, AppendProperties
<1> QED
  BY <1>1, <1>4, <1>5, <1>6 DEF ChildPath

\* refresh_entry where its result is ignored.
LEMMA RefreshedSound ==
    ASSUME NEW x, Sound(x), NEW d, NEW id
    PROVE  Keeps(x, Refreshed(x, d, id))
BY RefreshSound, KeepsItself DEF Refreshed, Found

\* WithoutChild, for a directory that may have lost its entry.
LEMMA WithoutChildSound ==
    ASSUME NEW x, Sound(x), NEW dir, NEW s
    PROVE  Keeps(x, WithoutChild(x, dir, s))
<1>1. CASE dir \in DOMAIN x.id_to_path
  BY <1>1, ChildEditSound
<1>2. CASE dir \notin DOMAIN x.id_to_path
  BY <1>2, KeepsItself DEF WithoutChild, Found
<1> QED
  BY <1>1, <1>2

\* What rename makes of the map.
LEMMA MovedSound ==
    ASSUME NEW x, Sound(x), NEW p \in Seq(Interned(x)), NEW q \in Seq(Interned(x)),
           NEW from_dir, NEW to_dir
    PROVE  Keeps(x, Moved(x, p, q, from_dir, to_dir))
<1>1. CASE p \notin DOMAIN x.path_to_id
  BY <1>1, KeepsItself DEF Moved
<1>2. CASE p \in DOMAIN x.path_to_id
  <2>1. PICK y : y = Vacated(x, q)
    OBVIOUS
  <2>2. Keeps(x, y) /\ Sound(y) /\ p \in Seq(Interned(y)) /\ q \in Seq(Interned(y))
    <3>1. Keeps(x, y)
      BY <2>1, DeleteSound, KeepsItself DEF Vacated
    <3> QED
      BY <3>1, PathsGrow DEF Keeps
  <2>3. PICK z : z = rename_path_prefix(y, p, q)
    OBVIOUS
  <2>4. Keeps(x, z) /\ Sound(z)
    BY <2>2, <2>3, RenameSound, KeepsTwice DEF Keeps
  <2>5. PICK s : s = Last(p)
    OBVIOUS
  <2>6. PICK w : w = WithoutChild(z, from_dir, s)
    OBVIOUS
  <2>7. Keeps(x, w) /\ Sound(w)
    BY <2>4, <2>6, WithoutChildSound, KeepsTwice DEF Keeps
  <2>8. Keeps(w, Arrived(w, to_dir, q))
    <3>1. PICK t, id : t = Last(q) /\ id = w.path_to_id[q]
      OBVIOUS
    <3>2. Found(w, to_dir) => Keeps(w, WithChild(w, to_dir, t, id))
      BY <2>7, ChildEditSound DEF Found
    <3> QED
      BY <2>7, <3>1, <3>2, KeepsItself DEF Arrived
  <2>9. Moved(x, p, q, from_dir, to_dir) = Arrived(w, to_dir, q)
    BY <1>2, <2>1, <2>3, <2>5, <2>6 DEF Moved
  <2> QED
    BY <2>7, <2>8, <2>9, KeepsTwice
<1> QED
  BY <1>1, <1>2

------------------------------------------------------------------------------
(* The inductive invariant.                                                *)

Truth(d, x, r) ==
    r.op = "readdir" =>
        LET c == x.id_to_path[r.id].children.ids
        IN  /\ DOMAIN c = Listing(d, r.path)
            /\ \A s \in DOMAIN c : x.id_to_inode[c[s]] = d[Append(r.path, s)].ino

\* An operation without the lock has the path of a file.
PathsHeld(w) ==
    /\ DOMAIN w = Users
    /\ \A u \in Users : w[u] # NotUnlocked => w[u].path \in Seq(Names)

InvOf(sc, d, x, r, w) ==
    /\ sc \in Scopes
    /\ Directory(d)
    /\ Sound(x)
    /\ x.next_fileid <= sc.ids
    /\ Truth(d, x, r)
    /\ PathsHeld(w)
Inv == InvOf(scope, disk, m, reply, unlocked)

\* What a step comes to: the invariant, and a map that continues the one before.
Advance == Inv' /\ Continues(m, m')

\* A step that leaves the map alone.
LEMMA SameMap ==
    ASSUME Inv, m' = m
    PROVE  Continues(m, m')
<1>1. PICK x : x = m
  OBVIOUS
<1>2. Continues(x, x)
  BY <1>1, KeepsItself DEF Inv, InvOf, Keeps
<1> QED
  BY <1>1, <1>2

\* An answer that is not readdir's.
Plain(r) == r.op # "readdir"

\* All answers but those of readdir are plain.
LEMMA PlainAnswers ==
    /\ Plain(Nothing) /\ Plain(Failed) /\ Plain(Done)
    /\ \A op, id, p : op # "readdir" => Plain(Ok(op, id, p))
BY DEF Plain, Nothing, Failed, Done, Ok

\* A plain answer promises nothing here.
LEMMA PlainTruth ==
    ASSUME NEW d, NEW x, NEW r, Plain(r)
    PROVE  Truth(d, x, r)
BY DEF Plain, Truth

\* An operation that answers with the map x.
LEMMA AnswerKeeps ==
    ASSUME Inv, NEW d, d = disk', Directory(d), NEW x, Keeps(m, x), NEW r, Truth(d, x, r),
           Answer(x, r)
    PROVE  Advance
<1>1. m' = x /\ reply' = r /\ scope' = scope /\ unlocked' = unlocked /\ x.next_fileid <= scope.ids
  BY DEF Answer
<1>2. scope \in Scopes /\ PathsHeld(unlocked)
  BY DEF Inv, InvOf
<1>3. InvOf(scope, d, x, r, unlocked)
  BY <1>1, <1>2 DEF InvOf, Keeps
<1> QED
  BY <1>1, <1>3 DEF Inv, Advance, Keeps

\* An operation with a plain answer.
LEMMA PlainKeeps ==
    ASSUME Inv, NEW d, d = disk', Directory(d), NEW x, Keeps(m, x), NEW r, Plain(r), Answer(x, r)
    PROVE  Advance
BY PlainTruth, AnswerKeeps

\* A directory is listed, or is not one.
LEMMA RelistedSound ==
    ASSUME Directory(disk), NEW x, Sound(x), NEW id \in DOMAIN x.id_to_path,
           NEW o \in Orders(x, id)
    PROVE  /\ Keeps(x, Relisted(x, id, o))
           /\ is_directory(x.id_to_path[id]) =>
                  LaidOut(Relisted(x, id, o), disk, id, x.id_to_path[id].name)
           /\ ~is_directory(x.id_to_path[id]) => Relisted(x, id, o) = x
<1>1. PICK d : d = disk
  OBVIOUS
<1>2. o \in SetToSeqs(Listing(d, x.id_to_path[id].name))
  BY <1>1 DEF Orders
<1>3. /\ Keeps(x, refresh_dir_list(x, d, id, o))
      /\ LaidOut(refresh_dir_list(x, d, id, o), d, id, x.id_to_path[id].name)
  BY <1>1, <1>2, ListSound
<1> QED
  BY <1>1, <1>3, KeepsItself DEF Relisted

\* The answer of lookup.
LEMMA AnswerChildKeeps ==
    ASSUME Inv, NEW d, d = disk', Directory(d), NEW x, Keeps(m, x), NEW dir, NEW s,
           AnswerChild(x, dir, s)
    PROVE  Advance
<1>1. PICK r : r = IF has_child(x, dir, s)
                   THEN Ok("lookup", find_child(x, dir, s), ChildPath(x, dir, s)) ELSE Failed
  OBVIOUS
<1>2. Answer(x, r)
  BY <1>1 DEF AnswerChild
<1>3. Plain(r)
  BY <1>1, PlainAnswers
<1> QED
  BY <1>2, <1>3, PlainKeeps

\* lookup's second half.
LEMMA MissKeeps ==
    ASSUME Inv, UNCHANGED disk, NEW x, Keeps(m, x), NEW dir, NEW s, Miss(x, dir, s)
    PROVE  Advance
<1>1. PICK d : d = disk' /\ d = disk
  OBVIOUS
<1>2. Directory(d)
  BY <1>1 DEF Inv, InvOf
<1>m. Sound(m) /\ Sound(x)
  BY DEF Inv, InvOf, Keeps
<1>3. CASE ~Found(x, dir) \/ ~Exists(ChildPath(x, dir, s))
  <2>1. Answer(x, Failed)
    BY <1>3 DEF Miss
  <2> QED
    BY <1>1, <1>2, <2>1, PlainAnswers, PlainKeeps
<1>4. CASE ~(~Found(x, dir) \/ ~Exists(ChildPath(x, dir, s)))
  <2>1. PICK r : r = refresh_entry(x, d, dir)
    OBVIOUS
  <2>2. Relook(r, dir, s)
    BY <1>1, <1>4, <2>1 DEF Miss
  <2>3. dir \in DOMAIN x.id_to_path
    BY <1>4 DEF Found
  <2>4. PICK y : y = r.m
    OBVIOUS
  <2>5. Keeps(m, y) /\ Sound(y)
    BY <1>m, <2>1, <2>3, <2>4, RefreshSound, KeepsTwice DEF Keeps
  <2>6. CASE r.delete \/ ~CanList(y, dir)
    <3>1. Answer(y, Failed)
      BY <2>2, <2>4, <2>6 DEF Relook
    <3> QED
      BY <1>1, <1>2, <2>5, <3>1, PlainAnswers, PlainKeeps
  <2>7. CASE ~(r.delete \/ ~CanList(y, dir))
    <3>1. PICK o \in Orders(y, dir) : AnswerChild(Relisted(y, dir, o), dir, s)
      BY <2>2, <2>4, <2>7 DEF Relook
    <3>2. PICK z : z = Relisted(y, dir, o)
      OBVIOUS
    <3>3. dir \in DOMAIN y.id_to_path
      BY <2>7 DEF CanList, Found
    <3>4. Keeps(m, z)
      BY <1>1, <1>2, <1>m, <2>5, <3>2, <3>3, RelistedSound, KeepsTwice
    <3> QED
      BY <1>1, <1>2, <3>1, <3>2, <3>4, AnswerChildKeeps
  <2> QED
    BY <2>6, <2>7
<1> QED
  BY <1>3, <1>4

\* lookup keeps the invariant.
LEMMA LookupKeeps ==
    ASSUME Inv, NEW dir, NEW s, lookup(dir, s)
    PROVE  Advance
<1>1. PICK d : d = disk' /\ d = disk
  BY DEF lookup
<1>2. Directory(d) /\ Sound(m) /\ Keeps(m, m)
  BY <1>1, KeepsItself DEF Inv, InvOf
<1>3. CASE ~(has_child(m, dir, s) /\ Found(m, find_child(m, dir, s)))
  <2>1. Miss(m, dir, s) /\ UNCHANGED disk
    BY <1>3 DEF lookup
  <2> QED
    BY <1>2, <2>1, MissKeeps
<1>4. CASE has_child(m, dir, s) /\ Found(m, find_child(m, dir, s))
  <2>1. PICK id : id = find_child(m, dir, s)
    OBVIOUS
  <2>2. PICK r : r = refresh_entry(m, d, id)
    OBVIOUS
  <2>3. Hit(r, id, dir, s)
    BY <1>1, <1>4, <2>1, <2>2 DEF lookup
  <2>4. PICK y : y = r.m
    OBVIOUS
  <2>5. PICK x : x = m
    OBVIOUS
  <2>6. id \in DOMAIN x.id_to_path /\ Sound(x) /\ r = refresh_entry(x, d, id)
    BY <1>2, <1>4, <2>1, <2>2, <2>5 DEF Found
  <2>7. Keeps(m, y)
    BY <2>4, <2>5, <2>6, RefreshSound
  <2>8. CASE r.delete
    <3>1. Miss(y, dir, s)
      BY <2>3, <2>4, <2>8 DEF Hit
    <3> QED
      BY <1>1, <2>7, <3>1, MissKeeps
  <2>9. CASE ~r.delete
    <3>1. PICK t : t = IF has_child(y, dir, s)
                       THEN Ok("lookup", id, ChildPath(y, dir, s)) ELSE Failed
      OBVIOUS
    <3>2. Answer(y, t)
      BY <2>3, <2>4, <2>9, <3>1 DEF Hit
    <3>3. Plain(t)
      BY <3>1, PlainAnswers
    <3> QED
      BY <1>1, <1>2, <2>7, <3>2, <3>3, PlainKeeps
  <2> QED
    BY <2>8, <2>9
<1> QED
  BY <1>3, <1>4

\* getattr keeps the invariant.
LEMMA GetattrKeeps ==
    ASSUME Inv, NEW id, getattr(id)
    PROVE  Advance
<1>1. PICK d : d = disk' /\ d = disk
  BY DEF getattr
<1>2. PICK x : x = m
  OBVIOUS
<1>3. Directory(d) /\ Sound(x) /\ Keeps(m, x)
  BY <1>1, <1>2, KeepsItself DEF Inv, InvOf
<1>4. CASE ~Found(x, id)
  <2>1. Answer(x, Failed)
    BY <1>2, <1>4 DEF getattr
  <2> QED
    BY <1>1, <1>3, <2>1, PlainAnswers, PlainKeeps
<1>5. CASE Found(x, id)
  <2>1. PICK r : r = refresh_entry(x, d, id)
    OBVIOUS
  <2>2. AnswerAttr(r, id)
    BY <1>1, <1>2, <1>5, <2>1 DEF getattr
  <2>3. PICK y : y = r.m
    OBVIOUS
  <2>4. Keeps(m, y)
    BY <1>2, <1>3, <1>5, <2>1, <2>3, RefreshSound DEF Found
  <2>5. CASE r.delete
    <3>1. Answer(y, Failed)
      BY <2>2, <2>3, <2>5 DEF AnswerAttr
    <3> QED
      BY <1>1, <1>3, <2>4, <3>1, PlainAnswers, PlainKeeps
  <2>6. CASE ~r.delete
    <3>1. PICK t : t = Ok("getattr", id, y.id_to_path[id].name)
      OBVIOUS
    <3>2. Answer(y, t)
      BY <2>2, <2>3, <2>6, <3>1 DEF AnswerAttr
    <3>3. Plain(t)
      BY <3>1, PlainAnswers
    <3> QED
      BY <1>1, <1>3, <2>4, <3>2, <3>3, PlainKeeps
  <2> QED
    BY <2>5, <2>6
<1> QED
  BY <1>4, <1>5

\* readdir keeps the invariant.
LEMMA ReaddirKeeps ==
    ASSUME Inv, NEW dir, readdir(dir)
    PROVE  Advance
<1>1. PICK d : d = disk' /\ d = disk
  BY DEF readdir
<1>2. PICK x : x = m
  OBVIOUS
<1>3. Directory(d) /\ Sound(x) /\ Keeps(m, x)
  BY <1>1, <1>2, KeepsItself DEF Inv, InvOf
<1>4. CASE ~Found(x, dir)
  <2>1. Answer(x, Failed)
    BY <1>2, <1>4 DEF readdir
  <2> QED
    BY <1>1, <1>3, <2>1, PlainAnswers, PlainKeeps
<1>5. CASE Found(x, dir)
  <2>1. PICK y : y = refresh_entry(x, d, dir).m
    OBVIOUS
  <2>2. List(y, dir)
    BY <1>1, <1>2, <1>5, <2>1 DEF readdir
  <2>3. Keeps(m, y) /\ Sound(y)
    BY <1>2, <1>3, <1>5, <2>1, RefreshSound DEF Found, Keeps
  <2>4. CASE ~CanList(y, dir)
    <3>1. Answer(y, Failed)
      BY <2>2, <2>4 DEF List
    <3> QED
      BY <1>1, <1>3, <2>3, <3>1, PlainAnswers, PlainKeeps
  <2>5. CASE CanList(y, dir)
    <3>1. PICK o \in Orders(y, dir) : AnswerList(Relisted(y, dir, o), dir)
      BY <2>2, <2>5 DEF List
    <3>2. PICK z : z = Relisted(y, dir, o)
      OBVIOUS
    <3>3. dir \in DOMAIN y.id_to_path
      BY <2>5 DEF CanList, Found
    <3>4. PICK p : p = y.id_to_path[dir].name
      OBVIOUS
    <3>5. /\ Keeps(y, z)
          /\ is_directory(y.id_to_path[dir]) => LaidOut(z, d, dir, p)
          /\ ~is_directory(y.id_to_path[dir]) => z = y
      BY <1>1, <1>3, <2>3, <3>2, <3>3, <3>4, RelistedSound
    <3>k. Keeps(m, z)
      BY <1>2, <1>3, <2>3, <3>5, KeepsTwice
    <3>6. AnswerList(z, dir)
      BY <3>1, <3>2
    <3>7. CASE ~Listable(z, dir)
      <4>1. Answer(z, Failed)
        BY <3>6, <3>7 DEF AnswerList
      <4> QED
        BY <1>1, <1>3, <3>k, <4>1, PlainAnswers, PlainKeeps
    <3>8. CASE Listable(z, dir)
      <4>1. PICK r : r = Ok("readdir", dir, z.id_to_path[dir].name)
        OBVIOUS
      <4>2. Answer(z, r)
        BY <3>6, <3>8, <4>1 DEF AnswerList
      <4>3. r.op = "readdir" /\ r.id = dir /\ r.path = z.id_to_path[dir].name
        BY <4>1 DEF Ok
      <4>4. dir \in DOMAIN z.id_to_path /\ is_directory(z.id_to_path[dir])
        BY <3>8 DEF Listable, Found
      <4>5. LaidOut(z, d, dir, p)
        BY <3>5, <4>4
      <4>6. PICK c : c = z.id_to_path[dir].children.ids
        OBVIOUS
      <4>7. /\ r.path = p
            /\ DOMAIN c = Listing(d, p)
            /\ \A s \in Listing(d, p) : z.id_to_inode[c[s]] = d[Append(p, s)].ino
        BY <4>3, <4>4, <4>5, <4>6 DEF LaidOut
      <4>8. Truth(d, z, r)
        BY <4>3, <4>6, <4>7 DEF Truth
      <4> QED
        BY <1>1, <1>3, <3>k, <4>2, <4>8, AnswerKeeps
    <3> QED
      BY <3>7, <3>8
  <2> QED
    BY <2>4, <2>5
<1> QED
  BY <1>4, <1>5

\* setattr keeps the invariant.
LEMMA SetattrKeeps ==
    ASSUME Inv, NEW id, setattr(id)
    PROVE  Advance
<1>1. PICK d : d = disk' /\ d = disk
  BY DEF setattr
<1>2. PICK x, p : x = m /\ p = m.id_to_path[id].name
  OBVIOUS
<1>3. Directory(d) /\ Sound(x) /\ Keeps(m, x)
  BY <1>1, <1>2, KeepsItself DEF Inv, InvOf
<1>4. CASE ~Found(x, id) \/ p \notin DOMAIN d
  <2>1. Answer(x, Failed)
    BY <1>1, <1>2, <1>4 DEF setattr, Exists
  <2> QED
    BY <1>1, <1>3, <2>1, PlainAnswers, PlainKeeps
<1>5. CASE Found(x, id) /\ p \in DOMAIN d
  <2>1. PICK t : t = d[p].ftype
    OBVIOUS
  <2>2. PICK y : y = [x EXCEPT !.id_to_path[id].ftype = t]
    OBVIOUS
  <2>3. Answer(y, Done)
    BY <1>1, <1>2, <1>5, <2>1, <2>2 DEF setattr, Exists
  <2>4. t \in {"reg", "dir"}
    BY <1>3, <1>5, <2>1 DEF Directory, File
  <2>5. y = Typed(x, id, t)
    BY <1>5, <2>2 DEF Typed
  <2>6. Keeps(m, y)
    BY <1>2, <1>3, <2>4, <2>5, TypedEnters, ReshapedSound
  <2> QED
    BY <1>1, <1>3, <2>3, <2>6, PlainAnswers, PlainKeeps
<1> QED
  BY <1>4, <1>5

\* A path of which all maps that have the name have the symbols.
Named(p) == /\ Last(p) \in Names
            /\ \A y : Keeps(m, y) /\ Last(p) \in Interned(y) => p \in Seq(Interned(y))

\* What is recorded of the file at a path.
LEMMA RecordedKeeps ==
    ASSUME Sound(m), NEW d, Directory(d), NEW x, Keeps(m, x), NEW p \in DOMAIN d, Named(p)
    PROVE  Keeps(m, Recorded(x, d, p).m)
<1>1. PICK f, s, y : f = d[p] /\ s = Last(p) /\ y = Intern(x, s)
  OBVIOUS
<1>2. f \in File /\ s \in Names
  BY <1>1 DEF Directory, Named
<1>3. Keeps(x, y) /\ s \in Interned(y)
  BY <1>1, <1>2, InternMeans DEF Keeps
<1>4. Keeps(m, y) /\ Sound(y)
  BY <1>3, KeepsTwice DEF Keeps
<1>5. p \in Seq(Interned(y))
  BY <1>1, <1>3, <1>4 DEF Named
<1>6. PICK r : r = create_entry(y, p, f)
  OBVIOUS
<1>7. EntersAs(y, r.m, p, f, r.id)
  BY <1>2, <1>4, <1>5, <1>6, CreateEnters
<1>8. Keeps(m, r.m)
  BY <1>4, <1>7, KeepsTwice DEF EntersAs
<1> QED
  BY <1>1, <1>6, <1>8 DEF Recorded

\* The answer of the operations that make a file.
LEMMA AnswerEntryKeeps ==
    ASSUME Inv, NEW d, d = disk', Directory(d), NEW r, Keeps(m, r.m), NEW dir, NEW p,
           AnswerEntry(r, dir, p)
    PROVE  Advance
<1>1. PICK y, id, s : y = r.m /\ id = r.id /\ s = Last(p)
  OBVIOUS
<1>2. Keeps(m, y) /\ Sound(y) /\ Sound(m)
  BY <1>1 DEF Keeps, Inv, InvOf
<1>3. CASE Found(y, dir)
  <2>1. PICK z : z = WithChild(y, dir, s, id)
    OBVIOUS
  <2>2. Answer(z, Done)
    BY <1>1, <1>3, <2>1 DEF AnswerEntry
  <2>3. Keeps(m, z)
    BY <1>2, <1>3, <2>1, ChildEditSound, KeepsTwice DEF Found
  <2> QED
    BY <2>2, <2>3, PlainAnswers, PlainKeeps
<1>4. CASE ~Found(y, dir)
  <2>1. Answer(y, Failed)
    BY <1>1, <1>4 DEF AnswerEntry
  <2> QED
    BY <1>2, <2>1, PlainAnswers, PlainKeeps
<1> QED
  BY <1>3, <1>4

\* The end of the operations that make a file.
LEMMA EnterKeeps ==
    ASSUME Inv, NEW d, d = disk', Directory(d), NEW x, Keeps(m, x), NEW dir,
           NEW p \in DOMAIN d, Named(p), Enter(x, d, dir, p)
    PROVE  Advance
<1>1. PICK r : r = Recorded(x, d, p)
  OBVIOUS
<1>2. Keeps(m, r.m)
  BY <1>1, RecordedKeeps DEF Inv, InvOf
<1>3. AnswerEntry(r, dir, p)
  BY <1>1 DEF Enter
<1> QED
  BY <1>2, <1>3, AnswerEntryKeeps

\* A new file on the disk.
LEMMA NewKeeps ==
    ASSUME Directory(disk), NEW p \in Seq(Names), NEW i \in FreeInodes,
           NEW t \in {"reg", "dir"}, NEW d, d = WithNew(p, i, t)
    PROVE  Directory(d) /\ p \in DOMAIN d
<1>1. PICK e, f : e = disk /\ f = [ino |-> i, ftype |-> t]
  OBVIOUS
<1>2. f \in File
  BY <1>1 DEF File, FreeInodes
<1>3. d = Override(Entry(p, f), e)
  BY <1>1 DEF WithNew
<1> QED
  BY <1>1, <1>2, <1>3, NewDirectory

\* create keeps the invariant.
LEMMA CreateKeeps ==
    ASSUME Inv, NEW dir, NEW s \in Names, create(dir, s)
    PROVE  Advance
<1>1. PICK d, x, p : d = disk' /\ x = m /\ p = ChildPath(m, dir, s)
  OBVIOUS
<1>2. Directory(disk) /\ Sound(x) /\ Keeps(m, x)
  BY <1>1, KeepsItself DEF Inv, InvOf
<1>3. CASE ~Found(m, dir) \/ ~DirAt(Front(p)) \/ DirAt(p)
  <2>1. Answer(x, Failed) /\ d = disk
    BY <1>1, <1>3 DEF create
  <2> QED
    BY <1>1, <1>2, <2>1, PlainAnswers, PlainKeeps
<1>4. CASE ~(~Found(m, dir) \/ ~DirAt(Front(p)) \/ DirAt(p))
  <2>1. p \in Seq(Names) /\ Named(p)
    BY <1>1, <1>2, <1>4, ChildPathIs DEF Found, Named
  <2>2. /\ (Exists(p) /\ d = disk) \/ \E i \in FreeInodes : d = WithNew(p, i, "reg")
        /\ Enter(Refreshed(x, d, dir), d, dir, p)
    BY <1>1, <1>4 DEF create
  <2>3. Directory(d) /\ p \in DOMAIN d
    <3>1. CASE Exists(p) /\ d = disk
      BY <1>2, <3>1 DEF Exists
    <3>2. CASE \E i \in FreeInodes : d = WithNew(p, i, "reg")
      BY <1>2, <2>1, <3>2, NewKeeps
    <3> QED
      BY <2>2, <3>1, <3>2
  <2>4. PICK y : y = Refreshed(x, d, dir)
    OBVIOUS
  <2>5. Keeps(m, y)
    BY <1>1, <1>2, <2>4, RefreshedSound
  <2> QED
    BY <1>1, <2>1, <2>2, <2>3, <2>4, <2>5, EnterKeeps
<1> QED
  BY <1>3, <1>4

\* mkdir and symlink keep the invariant.
LEMMA MakeKeeps ==
    ASSUME Inv, NEW dir, NEW s \in Names, NEW t \in {"reg", "dir"}, make(dir, s, t)
    PROVE  Advance
<1>1. PICK d, x, p : d = disk' /\ x = m /\ p = ChildPath(m, dir, s)
  OBVIOUS
<1>2. Directory(disk) /\ Sound(x) /\ Keeps(m, x)
  BY <1>1, KeepsItself DEF Inv, InvOf
<1>3. CASE ~Found(m, dir) \/ ~DirAt(Front(p)) \/ Exists(p)
  <2>1. Answer(x, Failed) /\ d = disk
    BY <1>1, <1>3 DEF make
  <2> QED
    BY <1>1, <1>2, <2>1, PlainAnswers, PlainKeeps
<1>4. CASE ~(~Found(m, dir) \/ ~DirAt(Front(p)) \/ Exists(p))
  <2>1. p \in Seq(Names) /\ Named(p)
    BY <1>1, <1>2, <1>4, ChildPathIs DEF Found, Named
  <2>2. /\ \E i \in FreeInodes : d = WithNew(p, i, t)
        /\ Enter(Refreshed(x, d, dir), d, dir, p)
    BY <1>1, <1>4 DEF make
  <2>3. Directory(d) /\ p \in DOMAIN d
    BY <1>2, <2>1, <2>2, NewKeeps
  <2>4. PICK y : y = Refreshed(x, d, dir)
    OBVIOUS
  <2>5. Keeps(m, y)
    BY <1>1, <1>2, <2>4, RefreshedSound
  <2> QED
    BY <1>1, <2>1, <2>2, <2>3, <2>4, <2>5, EnterKeeps
<1> QED
  BY <1>3, <1>4

\* mknod keeps the invariant.
LEMMA MknodKeeps ==
    ASSUME Inv, NEW dir, NEW s \in Names, mknod(dir, s)
    PROVE  Advance
<1>1. PICK d, x, p : d = disk' /\ x = m /\ p = ChildPath(m, dir, s)
  OBVIOUS
<1>2. Directory(disk) /\ Sound(x) /\ Keeps(m, x)
  BY <1>1, KeepsItself DEF Inv, InvOf
<1>3. CASE ~Found(m, dir) \/ ~DirAt(Front(p)) \/ Exists(p)
  <2>1. Answer(x, Failed) /\ d = disk
    BY <1>1, <1>3 DEF mknod
  <2> QED
    BY <1>1, <1>2, <2>1, PlainAnswers, PlainKeeps
<1>4. CASE ~(~Found(m, dir) \/ ~DirAt(Front(p)) \/ Exists(p))
  <2>1. p \in Seq(Names) /\ Named(p)
    BY <1>1, <1>2, <1>4, ChildPathIs DEF Found, Named
  <2>2. /\ \E i \in FreeInodes : d = WithNew(p, i, "reg")
        /\ Enter(x, d, dir, p)
    BY <1>1, <1>4 DEF mknod
  <2>3. Directory(d) /\ p \in DOMAIN d
    BY <1>2, <2>1, <2>2, NewKeeps
  <2> QED
    BY <1>1, <1>2, <2>1, <2>2, <2>3, EnterKeeps
<1> QED
  BY <1>3, <1>4

\* link keeps the invariant.
LEMMA LinkKeeps ==
    ASSUME Inv, NEW id, NEW dir, NEW s \in Names, link(id, dir, s)
    PROVE  Advance
<1>1. PICK d, x, p, q : /\ d = disk' /\ x = m
                        /\ p = m.id_to_path[id].name /\ q = ChildPath(m, dir, s)
  OBVIOUS
<1>2. Directory(disk) /\ Sound(x) /\ Keeps(m, x)
  BY <1>1, KeepsItself DEF Inv, InvOf
<1> DEFINE Bad == \/ ~Found(m, id) \/ ~Found(m, dir)
                  \/ ~Exists(p) \/ DirAt(p) \/ ~DirAt(Front(q)) \/ Exists(q)
<1>3. CASE Bad
  <2>1. Answer(x, Failed) /\ d = disk
    BY <1>1, <1>3 DEF link
  <2> QED
    BY <1>1, <1>2, <2>1, PlainAnswers, PlainKeeps
<1>4. CASE ~Bad
  <2>1. q \in Seq(Names) /\ Named(q)
    BY <1>1, <1>2, <1>4, ChildPathIs DEF Found, Named
  <2>r. PICK r, l : r = Recorded(x, d, q) /\ l = Linked(r, id, dir, disk[p].ftype)
    OBVIOUS
  <2>2. d = WithLink(p, q) /\ AnswerEntry(l, dir, q)
    BY <1>1, <1>4, <2>r DEF link
  <2>3. PICK e, f : e = disk /\ f = disk[p]
    OBVIOUS
  <2>4. f \in File /\ Directory(e)
    BY <1>2, <1>4, <2>3 DEF Exists, Directory
  <2>5. d = Override(Entry(q, f), e)
    BY <2>2, <2>3 DEF WithLink
  <2>6. Directory(d) /\ q \in DOMAIN d
    BY <2>1, <2>4, <2>5, NewDirectory
  <2>7. Keeps(m, r.m) /\ Sound(m) /\ Sound(r.m)
    BY <1>1, <1>2, <2>1, <2>6, <2>r, RecordedKeeps DEF Keeps
  <2>8. l.m \in {r.m, Typed(r.m, id, f.ftype)}
    <3>1. CASE ~Found(r.m, dir)
      BY <2>r, <3>1 DEF Linked
    <3>2. CASE Found(r.m, dir)
      <4>1. l = [r EXCEPT !.m = Typed(@, id, f.ftype)]
        BY <2>3, <2>r, <3>2 DEF Linked
      <4>2. "m" \in DOMAIN r
        BY <2>r DEF Recorded, create_entry, WithPath
      <4> QED
        BY <4>1, <4>2
    <3> QED
      BY <3>1, <3>2
  <2>9. Keeps(r.m, Typed(r.m, id, f.ftype))
    BY <2>4, <2>7, TypedEnters, ReshapedSound DEF File
  <2>10. Keeps(m, l.m)
    BY <2>7, <2>8, <2>9, KeepsTwice
  <2> QED
    BY <1>1, <2>2, <2>6, <2>10, AnswerEntryKeeps
<1> QED
  BY <1>3, <1>4

\* remove keeps the invariant.
LEMMA RemoveKeeps ==
    ASSUME Inv, NEW dir, NEW s \in Names, remove(dir, s)
    PROVE  Advance
<1>1. PICK d, e, x, p : d = disk' /\ e = disk /\ x = m /\ p = ChildPath(m, dir, s)
  OBVIOUS
<1>2. Directory(e) /\ Sound(x) /\ Keeps(m, x)
  BY <1>1, KeepsItself DEF Inv, InvOf
<1>3. CASE ~Found(m, dir) \/ ~CanRemove(p)
  <2>1. Answer(x, Failed) /\ d = e
    BY <1>1, <1>3 DEF remove
  <2> QED
    BY <1>1, <1>2, <2>1, PlainAnswers, PlainKeeps
<1>4. CASE ~(~Found(m, dir) \/ ~CanRemove(p))
  <2>1. p \in Seq(Names) /\ p # <<>>
    BY <1>1, <1>2, <1>4, ChildPathIs DEF Found
  <2>i. PICK v : v = Intern(x, s)
    OBVIOUS
  <2>2. PICK y : y = remove_path(v, p)
    OBVIOUS
  <2>3. PICK z : z = WithoutChild(y, dir, s)
    OBVIOUS
  <2>4. PICK w : w = Refreshed(z, d, dir)
    OBVIOUS
  <2>5. d = Without(e, {p}) /\ Answer(w, Done)
    BY <1>1, <1>4, <2>i, <2>2, <2>3, <2>4 DEF remove
  <2>6. Directory(d)
    BY <1>2, <2>1, <2>5, GoneDirectory
  <2>7. Keeps(x, y)
    <3>1. Keeps(x, v)
      BY <1>2, <2>i, InternMeans
    <3> QED
      BY <1>2, <2>2, <3>1, DeleteSound, KeepsTwice DEF Keeps
  <2>8. Keeps(x, z)
    BY <1>2, <2>3, <2>7, WithoutChildSound, KeepsTwice DEF Keeps
  <2>9. Keeps(m, w)
    BY <1>1, <1>2, <2>4, <2>8, RefreshedSound, KeepsTwice DEF Keeps
  <2> QED
    BY <1>1, <2>5, <2>6, <2>9, PlainAnswers, PlainKeeps
<1> QED
  BY <1>3, <1>4

\* rename keeps the invariant.
LEMMA RenameKeeps ==
    ASSUME Inv, NEW from_dir, NEW s \in Names, NEW to_dir, NEW t \in Names,
           rename(from_dir, s, to_dir, t)
    PROVE  Advance
<1>1. PICK d, e, x, p, q : /\ d = disk' /\ e = disk /\ x = m
                           /\ p = ChildPath(m, from_dir, s) /\ q = ChildPath(m, to_dir, t)
  OBVIOUS
<1>2. Directory(e) /\ Sound(x) /\ Keeps(m, x)
  BY <1>1, KeepsItself DEF Inv, InvOf
<1>i. PICK u, v : u = Intern(x, s) /\ v = Intern(u, t)
  OBVIOUS
<1>3. PICK y : y = Moved(v, p, q, from_dir, to_dir)
  OBVIOUS
<1>4. PICK z : z = Refreshed(y, d, from_dir)
  OBVIOUS
<1>5. PICK w : w = IF to_dir # from_dir THEN Refreshed(z, d, to_dir) ELSE z
  OBVIOUS
<1>6. \/ Answer(x, Failed) /\ d = e
      \/ Answer(x, Done) /\ d = e
      \/ Found(x, from_dir) /\ Found(x, to_dir) /\ d = MovedKeys(e, p, q) /\ Answer(w, Done)
  <2> DEFINE Bad == \/ ~Found(m, from_dir) \/ ~Found(m, to_dir)
                    \/ ~Exists(Front(q)) \/ ~Exists(p)
             Idle == p = q \/ (Exists(q) /\ disk[p].ino = disk[q].ino)
  <2>1. CASE Bad
    BY <1>1, <2>1 DEF rename
  <2>2. CASE ~Bad /\ Idle
    BY <1>1, <2>2 DEF rename
  <2>3. CASE ~Bad /\ ~Idle /\ ~CanMove(p, q)
    BY <1>1, <2>3 DEF rename
  <2>4. CASE ~Bad /\ ~Idle /\ CanMove(p, q)
    BY <1>1, <1>i, <1>3, <1>4, <1>5, <2>4 DEF rename, WithMove
  <2> QED
    BY <2>1, <2>2, <2>3, <2>4
<1>7. CASE Answer(x, Failed) /\ d = e
  BY <1>1, <1>2, <1>7, PlainAnswers, PlainKeeps
<1>8. CASE Answer(x, Done) /\ d = e
  BY <1>1, <1>2, <1>8, PlainAnswers, PlainKeeps
<1>9. CASE Found(x, from_dir) /\ Found(x, to_dir) /\ d = MovedKeys(e, p, q) /\ Answer(w, Done)
  <2>1. p \in Seq(Names) /\ p # <<>> /\ q \in Seq(Names)
    BY <1>1, <1>2, <1>9, ChildPathIs DEF Found
  <2>i. /\ Keeps(x, v) /\ Sound(v)
        /\ p \in Seq(Interned(v)) /\ q \in Seq(Interned(v))
    <3>1. Keeps(x, u) /\ Sound(u) /\ s \in Interned(u)
      BY <1>2, <1>i, InternMeans DEF Keeps
    <3>2. Keeps(u, v) /\ t \in Interned(v)
      BY <1>i, <3>1, InternMeans
    <3>3. Keeps(x, v) /\ s \in Interned(v)
      BY <1>2, <3>1, <3>2, KeepsTwice DEF Keeps, Continues
    <3> QED
      BY <1>1, <1>2, <1>9, <3>2, <3>3, ChildPathIs DEF Found, Keeps
  <2>2. Directory(d)
    BY <1>2, <1>9, <2>1, MovedDirectory
  <2>3. Keeps(x, y)
    BY <1>2, <1>3, <2>i, MovedSound, KeepsTwice
  <2>4. Keeps(x, z)
    BY <1>2, <1>4, <2>3, RefreshedSound, KeepsTwice DEF Keeps
  <2>5. Keeps(m, w)
    BY <1>1, <1>2, <1>5, <2>4, RefreshedSound, KeepsTwice DEF Keeps
  <2> QED
    BY <1>1, <1>9, <2>2, <2>5, PlainAnswers, PlainKeeps
<1> QED
  BY <1>6, <1>7, <1>8, <1>9

\* The first half of write and read keeps the invariant.
LEMMA ReleaseKeeps ==
    ASSUME Inv, NEW u \in Users, NEW id, release(u, id)
    PROVE  Advance
<1>1. PICK x, p, w : x = m /\ p = m.id_to_path[id].name /\ w = unlocked'
  OBVIOUS
<1>2. /\ Found(x, id) /\ w = [unlocked EXCEPT ![u] = [id |-> id, path |-> p, written |-> FALSE]]
      /\ reply' = Nothing /\ scope' = scope /\ disk' = disk /\ m' = x
  BY <1>1 DEF release
<1>3. Sound(x) /\ PathsHeld(unlocked)
  BY <1>1 DEF Inv, InvOf
<1>4. p \in Seq(Names)
  <2>1. p \in Seq(Interned(x))
    BY <1>1, <1>2, <1>3 DEF Found, Sound, EntriesOK, EntryOK
  <2> QED
    BY <1>3, <2>1, InternedNames, SeqMonotonic DEF Sound
<1>5. PathsHeld(w)
  BY <1>2, <1>3, <1>4 DEF PathsHeld
<1>6. Truth(disk, x, Nothing)
  BY PlainAnswers, PlainTruth
<1>7. Inv'
  BY <1>1, <1>2, <1>5, <1>6 DEF Inv, InvOf
<1> QED
  BY <1>1, <1>2, <1>7, SameMap DEF Advance

\* The end of an operation that released the lock.
LEMMA EndKeeps ==
    ASSUME Inv, NEW u \in Users, NEW d, d = disk', Directory(d), NEW x, Keeps(m, x),
           x.next_fileid = m.next_fileid, End(u, x)
    PROVE  Advance
<1>1. PICK w : w = unlocked'
  OBVIOUS
<1>2. /\ m' = x /\ reply' = Nothing /\ scope' = scope
      /\ w = [unlocked EXCEPT ![u] = NotUnlocked]
  BY <1>1 DEF End
<1>3. PathsHeld(w)
  BY <1>2 DEF PathsHeld, Inv, InvOf
<1>4. Truth(d, x, Nothing)
  BY PlainAnswers, PlainTruth
<1>5. scope \in Scopes /\ m.next_fileid <= scope.ids
  BY DEF Inv, InvOf
<1>6. InvOf(scope, d, x, Nothing, w)
  BY <1>3, <1>4, <1>5 DEF InvOf, Keeps
<1> QED
  BY <1>1, <1>2, <1>6 DEF Inv, Advance, Keeps

\* The open and the write of write keep the invariant.
LEMMA WriteKeeps ==
    ASSUME Inv, NEW u \in Users, write(u)
    PROVE  Advance
<1>1. PICK d, x, p, w : d = disk' /\ x = m /\ p = unlocked[u].path /\ w = unlocked'
  OBVIOUS
<1>2. Directory(disk) /\ Sound(x) /\ Keeps(m, x) /\ PathsHeld(unlocked)
  BY <1>1, KeepsItself DEF Inv, InvOf
<1>3. p \in Seq(Names)
  BY <1>1, <1>2 DEF write, Opening, PathsHeld
<1>4. CASE DirAt(p) \/ (~Exists(p) /\ ~DirAt(Front(p)))
  <2>1. End(u, x) /\ d = disk
    BY <1>1, <1>4 DEF write
  <2> QED
    BY <1>1, <1>2, <2>1, EndKeeps
<1>5. CASE ~(DirAt(p) \/ (~Exists(p) /\ ~DirAt(Front(p))))
  <2>1. PICK r : r = Ok("write", unlocked[u].id, p)
    OBVIOUS
  <2>2. /\ d = disk \/ \E i \in FreeInodes : d = WithNew(p, i, "reg")
        /\ reply' = r /\ scope' = scope /\ m' = m
        /\ w = [unlocked EXCEPT ![u].written = TRUE]
    BY <1>1, <1>5, <2>1 DEF write
  <2>3. Directory(d)
    BY <1>2, <1>3, <2>2, NewKeeps
  <2>4. PathsHeld(w)
    <3>1. DOMAIN w = Users /\ \A v \in Users : v # u => w[v] = unlocked[v]
      BY <1>2, <2>2 DEF PathsHeld
    <3>2. w[u].path = p
      <4>1. w[u] = [unlocked[u] EXCEPT !.written = TRUE]
        BY <1>2, <2>2 DEF PathsHeld
      <4> QED
        BY <1>1, <4>1
    <3> QED
      BY <1>2, <1>3, <3>1, <3>2 DEF PathsHeld
  <2>5. Truth(d, x, r)
    BY <2>1, PlainAnswers, PlainTruth
  <2>6. Inv'
    BY <1>1, <2>2, <2>3, <2>4, <2>5 DEF Inv, InvOf
  <2> QED
    BY <2>2, <2>6, SameMap DEF Advance
<1> QED
  BY <1>4, <1>5

\* The update of the entry at the end of write keeps the invariant.
LEMMA WriteEntryKeeps ==
    ASSUME Inv, NEW u \in Users, write_entry(u)
    PROVE  Advance
<1>1. PICK d, x, y : d = disk' /\ x = m /\ y = Typed(x, unlocked[u].id, "reg")
  OBVIOUS
<1>2. Directory(d) /\ Sound(x) /\ End(u, y)
  BY <1>1 DEF write_entry, Inv, InvOf
<1>3. Reshaped(x, y)
  BY <1>1, <1>2, TypedEnters
<1>4. Keeps(m, y) /\ y.next_fileid = m.next_fileid
  BY <1>1, <1>2, <1>3, ReshapedSound DEF Reshaped
<1> QED
  BY <1>1, <1>2, <1>4, EndKeeps

\* read keeps the invariant.
LEMMA ReadKeeps ==
    ASSUME Inv, NEW u \in Users, read(u)
    PROVE  Advance
<1>1. PICK d, x : d = disk' /\ x = m
  OBVIOUS
<1>2. Directory(d) /\ Keeps(m, x) /\ End(u, x)
  BY <1>1, KeepsItself DEF read, Inv, InvOf
<1> QED
  BY <1>1, <1>2, EndKeeps

\* Another program changes the directory.
LEMMA BehindKeeps ==
    ASSUME Inv, NEW d, Directory(d), Behind(d)
    PROVE  Advance
<1>1. disk' = d /\ reply' = Nothing /\ scope' = scope /\ m' = m /\ unlocked' = unlocked
  BY DEF Behind
<1>2. PICK x : x = m
  OBVIOUS
<1>3. Truth(d, x, Nothing)
  BY PlainAnswers, PlainTruth
<1>4. InvOf(scope, d, x, Nothing, unlocked)
  BY <1>2, <1>3 DEF Inv, InvOf
<1> QED
  BY <1>1, <1>2, <1>4, SameMap DEF Inv, Advance

\* The paths other programs use.
LEMMA PathsArePaths ==
    ASSUME scope \in Scopes, NEW p \in Paths
    PROVE  p \in Seq(Names) /\ p # <<>>
<1>1. scope.depth \in Nat
  BY MirrorAssumption
<1>2. PICK n \in 1..scope.depth : p \in [1..n -> Names]
  BY DEF Paths
<1>3. n \in Nat /\ 1 \in 1..n
  BY <1>1
<1>4. p \in Seq(Names)
  BY <1>2, <1>3, IsASeq
<1>5. DOMAIN p = 1..n
  BY <1>2
<1>6. Len(p) = n
  BY <1>3, <1>4, <1>5, LenProperties
<1> QED
  BY <1>3, <1>4, <1>6, EmptySeq

\* Other programs create, remove and rename files.
LEMMA HostKeeps ==
    ASSUME Inv, HostCreate \/ HostRemove \/ HostRename
    PROVE  Advance
<1>1. scope \in Scopes /\ Directory(disk)
  BY DEF Inv, InvOf
<1>2. CASE HostCreate
  <2>1. PICK p \in Paths, i \in FreeInodes, t \in {"reg", "dir"} : Behind(WithNew(p, i, t))
    BY <1>2 DEF HostCreate
  <2>2. PICK d : d = WithNew(p, i, t)
    OBVIOUS
  <2>3. Directory(d)
    BY <1>1, <2>2, NewKeeps, PathsArePaths
  <2> QED
    BY <2>1, <2>2, <2>3, BehindKeeps
<1>3. CASE HostRemove
  <2>1. PICK p \in Paths : Behind(Without(disk, {p}))
    BY <1>3 DEF HostRemove
  <2>2. PICK d, e : e = disk /\ d = Without(e, {p})
    OBVIOUS
  <2>3. Directory(d)
    BY <1>1, <2>2, GoneDirectory, PathsArePaths
  <2> QED
    BY <2>1, <2>2, <2>3, BehindKeeps
<1>4. CASE HostRename
  <2>1. PICK p \in Paths, q \in Paths : Behind(WithMove(p, q))
    BY <1>4 DEF HostRename
  <2>2. PICK d, e : e = disk /\ d = MovedKeys(e, p, q)
    OBVIOUS
  <2>3. Directory(d)
    BY <1>1, <2>2, MovedDirectory, PathsArePaths
  <2>4. Behind(d)
    BY <2>1, <2>2 DEF WithMove
  <2> QED
    BY <2>3, <2>4, BehindKeeps
<1> QED
  BY <1>2, <1>3, <1>4

------------------------------------------------------------------------------
\* The first map has the root only.
LEMMA InitInv == Init => Inv
<1> SUFFICES ASSUME Init PROVE Inv
  OBVIOUS
<1>1. PICK d, x : d = disk /\ x = m
  OBVIOUS
<1>2. scope \in Scopes /\ Directory(d) /\ scope.ids \in Nat \ {0}
  BY <1>1, MirrorAssumption DEF Init
<1>3. PICK i, e : i = d[<<>>].ino /\ e = FSEntry(<<>>, "dir")
  OBVIOUS
<1>4. /\ x = [next_fileid |-> 1,
              intern |-> <<>>,
              id_to_path |-> Entry(0, e),
              path_to_id |-> Entry(<<>>, 0),
              inode_to_id |-> Entry(i, 0),
              id_to_inode |-> Entry(0, i)]
      /\ reply = Nothing
      /\ unlocked = [u \in Users |-> NotUnlocked]
  BY <1>1, <1>3 DEF Init, NewMap
<1>5. /\ DOMAIN x = Fields
      /\ x.next_fileid = 1 /\ x.intern = <<>>
      /\ x.id_to_path = [k \in {0} |-> e]
      /\ x.path_to_id = [k \in {<<>>} |-> 0]
      /\ x.inode_to_id = [k \in {i} |-> 0]
      /\ x.id_to_inode = [k \in {0} |-> i]
  BY <1>4 DEF Fields, Entry
<1>6. i \in Inodes
  BY <1>2, <1>3 DEF Directory, File
<1>7. EntryOK(Interned(x), e) /\ e.aliases = {<<>>}
  <2>1. IsFiniteSet({<<>>}) /\ <<>> \in Seq(Interned(x))
    BY FS_Singleton, EmptySeq
  <2> QED
    BY <1>3, <2>1 DEF EntryOK, FSEntry
<1>8. EntriesOK(x)
  BY <1>5, <1>7 DEF EntriesOK
<1>9. PathsOK(x)
  <2>1. <<>> \in Seq(Interned(x))
    BY EmptySeq
  <2> QED
    BY <1>5, <1>7, <2>1 DEF PathsOK
<1>10. InodesOK(x)
  BY <1>5, <1>6 DEF InodesOK
<1>n. InternOK(x)
  BY <1>5, EmptySeq DEF InternOK
<1>11. Sound(x)
  BY <1>5, <1>8, <1>9, <1>10, <1>n DEF Sound
<1>12. PathsHeld(unlocked)
  BY <1>4 DEF PathsHeld
<1>13. Truth(d, x, Nothing)
  BY PlainAnswers, PlainTruth
<1>14. x.next_fileid <= scope.ids
  BY <1>2, <1>5
<1> QED
  BY <1>1, <1>2, <1>4, <1>11, <1>12, <1>13, <1>14 DEF Inv, InvOf

\* Every action keeps the invariant.
LEMMA NextInv == Inv /\ [Next]_vars => Advance
<1> SUFFICES ASSUME Inv, [Next]_vars PROVE Advance
  OBVIOUS
<1>1. ASSUME NEW id \in Ids, getattr(id) \/ readdir(id) \/ setattr(id) PROVE Advance
  BY <1>1, GetattrKeeps, ReaddirKeeps, SetattrKeeps
<1>2. ASSUME NEW dir \in Ids, NEW s \in Names,
             lookup(dir, s) \/ create(dir, s) \/ make(dir, s, "reg") \/ make(dir, s, "dir")
             \/ mknod(dir, s) \/ remove(dir, s)
      PROVE  Advance
  BY <1>2, LookupKeeps, CreateKeeps, MakeKeeps, MknodKeeps, RemoveKeeps
<1>3. ASSUME NEW dir \in Ids, NEW s \in Names, NEW id \in Ids, link(id, dir, s)
      PROVE  Advance
  BY <1>3, LinkKeeps
<1>4. ASSUME NEW dir \in Ids, NEW s \in Names, NEW to \in Ids, NEW t \in Names,
             rename(dir, s, to, t)
      PROVE  Advance
  BY <1>4, RenameKeeps
<1>5. ASSUME NEW u \in scope.users, (\E id \in Ids : release(u, id)) \/ write(u)
                                   \/ write_entry(u) \/ read(u)
      PROVE  Advance
  <2>1. u \in Users
    BY MirrorAssumption DEF Inv, InvOf
  <2> QED
    BY <1>5, <2>1, ReleaseKeeps, WriteKeeps, WriteEntryKeeps, ReadKeeps
<1>6. CASE HostCreate \/ HostRemove \/ HostRename
  BY <1>6, HostKeeps
<1>7. CASE UNCHANGED vars
  BY <1>7, SameMap DEF vars, Inv, Advance
<1> QED
  BY <1>1, <1>2, <1>3, <1>4, <1>5, <1>6, <1>7 DEF Next

\* The invariant holds in every state.
LEMMA AlwaysInv == Spec => []Inv
<1>1. Inv /\ [Next]_vars => Inv'
  BY NextInv DEF Advance
<1> QED
  BY InitInv, <1>1, PTL DEF Spec

(* Whatever the clients, the operations without the lock and the other     *)
(* programs do, the five tables of the map agree, for any names, inodes,   *)
(* directories and depth.                                                  *)
THEOREM TablesSound == Spec => []TablesAgree
<1>1. Inv => TablesAgree
  <2> SUFFICES ASSUME Inv PROVE TablesAgree
    OBVIOUS
  <2>1. PICK x : x = m
    OBVIOUS
  <2>2. /\ Directory(disk) /\ Sound(x) /\ x.next_fileid <= scope.ids
        /\ EntriesOK(x) /\ PathsOK(x) /\ InodesOK(x)
        /\ x.next_fileid \in Nat \ {0} /\ scope.ids \in Nat
    BY <2>1, MirrorAssumption DEF Inv, InvOf, Sound
  <2>3. \A id \in DOMAIN x.id_to_path : id \in 0..(scope.ids - 1)
    <3> SUFFICES ASSUME NEW id \in DOMAIN x.id_to_path PROVE id \in 0..(scope.ids - 1)
      OBVIOUS
    <3>1. id \in Nat /\ id < x.next_fileid
      BY <2>2 DEF EntriesOK
    <3> QED
      BY <2>2, <3>1
  <2>4. TypeOK
    <3>1. x.next_fileid \in 1..scope.ids
      BY <2>2
    <3>2. \A p \in DOMAIN x.path_to_id :
              p \in Seq(Names) /\ x.path_to_id[p] \in 0..(scope.ids - 1)
      BY <2>2, <2>3, InternedNames, SeqMonotonic DEF PathsOK, Sound
    <3>3. DOMAIN x.inode_to_id \subseteq Inodes
      BY <2>2 DEF InodesOK
    <3>4. \A id \in DOMAIN x.id_to_path : x.id_to_path[id].ftype \in {"reg", "dir"}
      BY <2>2 DEF EntriesOK, EntryOK
    <3> QED
      BY <2>1, <2>2, <2>3, <3>1, <3>2, <3>3, <3>4 DEF TypeOK
  <2>5. PathsKnown
    BY <2>1, <2>2 DEF PathsKnown, Found, PathsOK, EntriesOK, EntryOK
  <2>6. InodesAgree
    <3>1. DOMAIN x.id_to_inode = DOMAIN x.id_to_path
      BY <2>2 DEF InodesOK
    <3>2. \A id \in DOMAIN x.id_to_inode, i \in Inodes :
              x.id_to_inode[id] = i <=> i \in DOMAIN x.inode_to_id /\ x.inode_to_id[i] = id
      BY <2>2 DEF InodesOK
    <3>3. \A i \in DOMAIN x.inode_to_id : x.inode_to_id[i] \in DOMAIN x.id_to_path
      BY <2>2 DEF InodesOK
    <3> QED
      BY <2>1, <3>1, <3>2, <3>3 DEF InodesAgree, Found
  <2> QED
    BY <2>4, <2>5, <2>6 DEF TablesAgree
<1> QED
  BY <1>1, AlwaysInv, PTL

(* As long as an id is known it stands for the same inode, and an id that  *)
(* was forgotten is not given out again.                                   *)
THEOREM IdsKept == Spec => IdsStable
<1>1. Inv /\ [Next]_vars => [SameFiles]_vars
  BY NextInv DEF Advance, Continues, SameFiles
<1> QED
  BY <1>1, AlwaysInv, PTL DEF Spec, IdsStable

(* readdir answers with exactly the files of the directory, each with the  *)
(* id that stands for it.                                                  *)
THEOREM ReaddirHonest == Spec => []ReaddirTruthful
<1>1. Inv => ReaddirTruthful
  BY DEF Inv, InvOf, Truth, ReaddirTruthful
<1> QED
  BY <1>1, AlwaysInv, PTL
==============================================================================

------------------------------ MODULE MountProofs ------------------------------
(***************************************************************************)
(* What the paths of the MOUNT protocol are made of, for all paths: the    *)
(* components of paths that are put together or trimmed, and which paths   *)
(* lie below an export.                                                    *)
(*                                                                         *)
(* Components is defined by counting.  The proofs use instead that it cuts *)
(* a path: its components are found at places of their own, with slashes   *)
(* between them and nothing else; and there is but one way to cut a path.  *)
(***************************************************************************)
EXTENDS MountPaths, FiniteSetTheorems, SequenceTheorems, WellFoundedInduction, TLAPS

Chars == STRING \cup {Slash}
Paths == Seq(Chars)

\* Among natural numbers there is a least one.
LEMMA Smallest ==
    ASSUME NEW S, S \subseteq Nat, S # {}
    PROVE  \E n \in S : \A k \in S : n <= k
<1> DEFINE T == {0..n : n \in S}
<1>1. T \subseteq FiniteSubsetsOf(Nat)
  <2>1. \A n \in S : IsFiniteSet(0..n) /\ 0..n \subseteq Nat
    BY FS_Interval
  <2> QED
    BY <2>1 DEF FiniteSubsetsOf
<1>2. T # {}
  OBVIOUS
<1>3. PICK x \in T : \A y \in T : ~(<<y, x>> \in StrictSubsetOrdering(Nat))
  BY <1>1, <1>2, WFMin, FS_StrictSubsetOrderingWellFounded, Zenon
<1>4. PICK n \in S : x = 0..n
  OBVIOUS
<1>5. ASSUME NEW k \in S PROVE n <= k
  <2>1. ~(<<0..k, 0..n>> \in StrictSubsetOrdering(Nat))
    BY <1>3, <1>4
  <2>2. ~((0..k) \subseteq (0..n) /\ 0..k # 0..n)
    BY <2>1 DEF StrictSubsetOrdering
  <2>3. CASE k < n
    <3>1. n \in 0..n /\ n \notin 0..k
      BY <2>3
    <3> QED
      BY <2>2, <2>3, <3>1
  <2> QED
    BY <2>3
<1> QED
  BY <1>5

\* Of numbers below a bound one is the largest.
LEMMA Largest ==
    ASSUME NEW S, NEW n \in Nat, S \subseteq 0..n, S # {}
    PROVE  \E m \in S : \A k \in S : k <= m
<1> DEFINE T == {n - k : k \in S}
<1>0. \A k \in S : k \in Nat /\ n - k \in Nat
  OBVIOUS
<1>1. T \subseteq Nat /\ T # {}
  BY <1>0
<1>2. PICK t \in T : \A u \in T : t <= u
  BY <1>1, Smallest
<1>3. PICK m \in S : t = n - m
  OBVIOUS
<1>4. ASSUME NEW k \in S PROVE k <= m
  <2>1. n - k \in T
    OBVIOUS
  <2> QED
    BY <1>0, <1>2, <1>3, <2>1
<1> QED
  BY <1>4

------------------------------------------------------------------------------
(* Paths, cut into components.                                             *)

\* Place i of the path lies in the k-th component.
Within(c, b, k, i) == b[k] <= i /\ i < b[k] + Len(c[k])

\* The components c lie at the places b of the path, a slash or more apart.
Cuts(path, c, b) ==
    /\ \A k \in 1..Len(c) : b[k] \in 1..Len(path) /\ c[k] \in Paths /\ c[k] # <<>>
    /\ \A k \in 1..Len(c) : b[k] + Len(c[k]) <= Len(path) + 1
    /\ \A k \in 1..Len(c) : \A j \in 1..Len(c[k]) :
           c[k][j] = path[b[k] + j - 1] /\ c[k][j] # Slash
    /\ \A k, l \in 1..Len(c) : k < l => b[k] + Len(c[k]) < b[l]
    /\ \A i \in 1..Len(path) : path[i] # Slash => \E k \in 1..Len(c) : Within(c, b, k, i)
IsCut(path, c) == c \in Seq(Paths) /\ \E b : Cuts(path, c, b)

\* A path has a length, and characters at its places.
LEMMA PathFacts ==
    ASSUME NEW p \in Paths
    PROVE  /\ Len(p) \in Nat
           /\ DOMAIN p = 1..Len(p)
           /\ \A i \in 1..Len(p) : p[i] \in Chars
BY LenProperties, ElementOfSeq DEF Paths

\* What a cut says of the places: inside the path, in their order, with a slash after
\* each component, and nothing but slashes outside of them.
LEMMA PlaceFacts ==
    ASSUME NEW p \in Paths, NEW c \in Seq(Paths), NEW b, Cuts(p, c, b)
    PROVE  /\ Len(p) \in Nat /\ Len(c) \in Nat
           /\ \A k \in 1..Len(c) :
                /\ b[k] \in 1..Len(p)
                /\ Len(c[k]) \in Nat \ {0}
                /\ b[k] + Len(c[k]) <= Len(p) + 1
                /\ \A i \in 1..Len(p) : Within(c, b, k, i) => p[i] # Slash
           /\ \A k, l \in 1..Len(c) : k < l => b[k] + Len(c[k]) < b[l]
           /\ \A i \in 1..Len(p) : p[i] # Slash => \E k \in 1..Len(c) : Within(c, b, k, i)
<1>1. Len(p) \in Nat /\ Len(c) \in Nat
  BY LenProperties DEF Paths
<1>2. ASSUME NEW k \in 1..Len(c)
      PROVE  /\ b[k] \in 1..Len(p)
             /\ Len(c[k]) \in Nat \ {0}
             /\ b[k] + Len(c[k]) <= Len(p) + 1
             /\ \A i \in 1..Len(p) : Within(c, b, k, i) => p[i] # Slash
  <2>1. b[k] \in 1..Len(p) /\ c[k] \in Paths /\ c[k] # <<>>
        /\ b[k] + Len(c[k]) <= Len(p) + 1
    BY DEF Cuts
  <2>2. Len(c[k]) \in Nat \ {0}
    BY <2>1, LenProperties, EmptySeq DEF Paths
  <2>3. ASSUME NEW i \in 1..Len(p), Within(c, b, k, i)
        PROVE  p[i] # Slash
    <3>1. i - b[k] + 1 \in 1..Len(c[k])
      BY <1>1, <2>1, <2>2, <2>3 DEF Within
    <3>2. c[k][i - b[k] + 1] = p[b[k] + (i - b[k] + 1) - 1] /\ c[k][i - b[k] + 1] # Slash
      BY <3>1 DEF Cuts
    <3>3. b[k] + (i - b[k] + 1) - 1 = i
      BY <1>1, <2>1
    <3> QED
      BY <3>2, <3>3
  <2> QED
    BY <2>1, <2>2, <2>3
<1>3. /\ \A k, l \in 1..Len(c) : k < l => b[k] + Len(c[k]) < b[l]
      /\ \A i \in 1..Len(p) : p[i] # Slash => \E k \in 1..Len(c) : Within(c, b, k, i)
  BY DEF Cuts
<1> QED
  BY <1>1, <1>2, <1>3

\* Where components begin: after a slash, or with the path.
Begins(path) == {i \in DOMAIN path : path[i] # Slash /\ (i > 1 => path[i - 1] = Slash)}

\* The places are where components begin.
LEMMA PlacesBegin ==
    ASSUME NEW p \in Paths, NEW c \in Seq(Paths), NEW b, Cuts(p, c, b)
    PROVE  Begins(p) = {b[k] : k \in 1..Len(c)}
<1>1. /\ Len(p) \in Nat /\ Len(c) \in Nat
      /\ \A k \in 1..Len(c) :
            /\ b[k] \in 1..Len(p)
            /\ Len(c[k]) \in Nat \ {0}
            /\ b[k] + Len(c[k]) <= Len(p) + 1
            /\ \A i \in 1..Len(p) : Within(c, b, k, i) => p[i] # Slash
      /\ \A k, l \in 1..Len(c) : k < l => b[k] + Len(c[k]) < b[l]
      /\ \A i \in 1..Len(p) : p[i] # Slash => \E k \in 1..Len(c) : Within(c, b, k, i)
  BY PlaceFacts
<1>2. DOMAIN p = 1..Len(p)
  BY PathFacts
<1>3. ASSUME NEW i \in Begins(p)
      PROVE  i \in {b[k] : k \in 1..Len(c)}
  <2>1. i \in 1..Len(p) /\ p[i] # Slash /\ (i > 1 => p[i - 1] = Slash)
    BY <1>2 DEF Begins
  <2>2. PICK k \in 1..Len(c) : Within(c, b, k, i)
    BY <1>1, <2>1
  <2>3. CASE b[k] < i
    <3>1. i - 1 \in 1..Len(p) /\ Within(c, b, k, i - 1) /\ i > 1
      BY <1>1, <2>1, <2>2, <2>3 DEF Within
    <3> QED
      BY <1>1, <2>1, <3>1
  <2>4. b[k] <= i /\ b[k] \in Int
    BY <1>1, <2>2 DEF Within
  <2> QED
    BY <2>1, <2>3, <2>4
<1>4. ASSUME NEW k \in 1..Len(c)
      PROVE  b[k] \in Begins(p)
  <2>1. b[k] \in 1..Len(p) /\ Within(c, b, k, b[k])
    BY <1>1 DEF Within
  <2>2. p[b[k]] # Slash
    BY <1>1, <2>1
  <2>3. ASSUME b[k] > 1, p[b[k] - 1] # Slash
        PROVE  FALSE
    <3>1. b[k] - 1 \in 1..Len(p)
      BY <1>1, <2>1, <2>3
    <3>2. PICK l \in 1..Len(c) : Within(c, b, l, b[k] - 1)
      BY <1>1, <2>3, <3>1
    <3>3. CASE l < k
      BY <1>1, <3>2, <3>3 DEF Within
    <3>4. CASE l > k
      BY <1>1, <3>2, <3>4 DEF Within
    <3>5. CASE l = k
      BY <1>1, <3>2, <3>5 DEF Within
    <3> QED
      BY <1>1, <3>3, <3>4, <3>5
  <2> QED
    BY <1>2, <2>1, <2>2, <2>3 DEF Begins
<1> QED
  BY <1>3, <1>4

\* Two ways to cut a path have the first places in common.
LEMMA SamePlaces ==
    ASSUME NEW p \in Paths, NEW c \in Seq(Paths), NEW b, Cuts(p, c, b),
           NEW d \in Seq(Paths), NEW e, Cuts(p, d, e), NEW k \in 1..Len(c),
           \A l \in 1..(k - 1) : l <= Len(d) /\ b[l] = e[l]
    PROVE  k <= Len(d) /\ b[k] = e[k]
<1>1. /\ Len(p) \in Nat /\ Len(c) \in Nat /\ Len(d) \in Nat
      /\ \A l \in 1..Len(c) : b[l] \in 1..Len(p) /\ Len(c[l]) \in Nat \ {0}
      /\ \A l \in 1..Len(d) : e[l] \in 1..Len(p) /\ Len(d[l]) \in Nat \ {0}
      /\ \A l, m \in 1..Len(c) : l < m => b[l] + Len(c[l]) < b[m]
      /\ \A l, m \in 1..Len(d) : l < m => e[l] + Len(d[l]) < e[m]
  BY PlaceFacts
<1>2. {b[l] : l \in 1..Len(c)} = {e[l] : l \in 1..Len(d)}
  <2>1. Begins(p) = {b[l] : l \in 1..Len(c)}
    BY PlacesBegin
  <2>2. Begins(p) = {e[l] : l \in 1..Len(d)}
    BY PlacesBegin
  <2> QED
    BY <2>1, <2>2
<1>3. PICK l \in 1..Len(d) : e[l] = b[k]
  BY <1>2
<1>4. l >= k
  <2>1. CASE l < k
    <3>1. l \in 1..(k - 1) /\ l \in 1..Len(c)
      BY <1>1, <2>1
    <3>2. b[l] = b[k]
      BY <1>3, <3>1
    <3> QED
      BY <1>1, <2>1, <3>1, <3>2
  <2> QED
    BY <1>1, <2>1
<1>5. k \in 1..Len(d) /\ e[k] <= b[k]
  <2>1. k \in 1..Len(d)
    BY <1>1, <1>4
  <2>2. CASE l = k
    BY <1>1, <1>3, <2>1, <2>2
  <2>3. CASE l > k
    BY <1>1, <1>3, <2>1, <2>3
  <2> QED
    BY <1>1, <1>4, <2>1, <2>2, <2>3
<1>6. PICK m \in 1..Len(c) : b[m] = e[k]
  BY <1>2, <1>5
<1>7. m >= k
  <2>1. CASE m < k
    <3>1. m \in 1..(k - 1) /\ m \in 1..Len(d)
      BY <1>1, <1>5, <2>1
    <3>2. e[m] = e[k]
      BY <1>6, <3>1
    <3> QED
      BY <1>1, <1>5, <2>1, <3>1, <3>2, SMTT(20)
  <2> QED
    BY <1>1, <2>1
<1>8. b[k] <= e[k]
  <2>1. CASE m = k
    BY <1>1, <1>6, <2>1
  <2>2. CASE m > k
    BY <1>1, <1>6, <2>2
  <2> QED
    BY <1>1, <1>7, <2>1, <2>2
<1> QED
  BY <1>1, <1>5, <1>8

\* No component ends before that of another cut that begins with it.
LEMMA NotShorter ==
    ASSUME NEW p \in Paths, NEW c \in Seq(Paths), NEW b, Cuts(p, c, b),
           NEW d \in Seq(Paths), NEW e, Cuts(p, d, e),
           NEW k \in 1..Len(c), k \in 1..Len(d), b[k] = e[k]
    PROVE  Len(c[k]) >= Len(d[k])
<1>1. /\ Len(p) \in Nat /\ Len(c) \in Nat /\ Len(d) \in Nat
      /\ \A l \in 1..Len(c) : b[l] \in 1..Len(p) /\ Len(c[l]) \in Nat \ {0}
      /\ \A l \in 1..Len(d) :
            /\ e[l] \in 1..Len(p) /\ Len(d[l]) \in Nat \ {0}
            /\ e[l] + Len(d[l]) <= Len(p) + 1
            /\ \A i \in 1..Len(p) : Within(d, e, l, i) => p[i] # Slash
      /\ \A l, m \in 1..Len(c) : l < m => b[l] + Len(c[l]) < b[m]
      /\ \A i \in 1..Len(p) : p[i] # Slash => \E l \in 1..Len(c) : Within(c, b, l, i)
  BY PlaceFacts
<1>2. SUFFICES ASSUME Len(c[k]) < Len(d[k]) PROVE FALSE
  BY <1>1
<1> DEFINE i == b[k] + Len(c[k])
<1>3. i \in 1..Len(p) /\ Within(d, e, k, i)
  BY <1>1, <1>2, SMTT(20) DEF Within
<1>4. PICK l \in 1..Len(c) : Within(c, b, l, i)
  BY <1>1, <1>3
<1>5. CASE l < k
  BY <1>1, <1>4, <1>5, SMTT(20) DEF Within
<1>6. CASE l > k
  BY <1>1, <1>4, <1>6 DEF Within
<1>7. CASE l = k
  BY <1>1, <1>4, <1>7 DEF Within
<1> QED
  BY <1>1, <1>5, <1>6, <1>7

\* There is but one way to cut a path.
LEMMA CutUnique ==
    ASSUME NEW p \in Paths, NEW c, NEW d, IsCut(p, c), IsCut(p, d)
    PROVE  c = d
<1>1. c \in Seq(Paths) /\ d \in Seq(Paths)
  BY DEF IsCut
<1>2. PICK b, e : Cuts(p, c, b) /\ Cuts(p, d, e)
  BY DEF IsCut
<1>3. Len(c) \in Nat /\ Len(d) \in Nat
  BY <1>1, LenProperties
<1> DEFINE Same(k) == k <= Len(c) /\ k <= Len(d) /\ b[k] = e[k]
           Bad == {k \in 1..Len(c) \cup 1..Len(d) : ~Same(k)}
<1>4. Bad = {}
  <2>1. SUFFICES ASSUME Bad # {} PROVE FALSE
    OBVIOUS
  <2>2. Bad \subseteq Nat
    BY <1>3
  <2>3. PICK k \in Bad : \A l \in Bad : k <= l
    BY <2>1, <2>2, Smallest
  <2>4. \A l \in 1..(k - 1) : Same(l)
    <3>1. SUFFICES ASSUME NEW l \in 1..(k - 1), ~Same(l) PROVE FALSE
      OBVIOUS
    <3>2. l \in Bad
      BY <1>3, <3>1
    <3> QED
      BY <2>2, <2>3, <3>2
  <2>5. CASE k \in 1..Len(c)
    <3>1. k <= Len(d) /\ b[k] = e[k]
      BY <1>1, <1>2, <2>4, <2>5, SamePlaces
    <3> QED
      BY <1>3, <2>5, <3>1
  <2>6. CASE k \in 1..Len(d)
    <3>1. k <= Len(c) /\ e[k] = b[k]
      <4>1. \A l \in 1..(k - 1) : l <= Len(c) /\ e[l] = b[l]
        BY <2>4
      <4> QED
        BY <1>1, <1>2, <2>6, <4>1, SamePlaces
    <3> QED
      BY <1>3, <2>6, <3>1
  <2> QED
    BY <2>5, <2>6
<1>5. \A k \in 1..Len(c) \cup 1..Len(d) : Same(k)
  BY <1>4
<1>6. Len(c) = Len(d)
  <2>1. CASE Len(c) < Len(d)
    <3>1. Len(d) \in 1..Len(d)
      BY <1>3, <2>1
    <3> QED
      BY <1>3, <1>5, <2>1, <3>1
  <2>2. CASE Len(d) < Len(c)
    <3>1. Len(c) \in 1..Len(c)
      BY <1>3, <2>2
    <3> QED
      BY <1>3, <1>5, <2>2, <3>1
  <2> QED
    BY <1>3, <2>1, <2>2
<1>7. ASSUME NEW k \in 1..Len(c) PROVE c[k] = d[k]
  <2>1. k \in 1..Len(d) /\ b[k] = e[k]
    BY <1>5, <1>6, <1>7
  <2>2. Len(c[k]) >= Len(d[k]) /\ Len(d[k]) >= Len(c[k])
    BY <1>1, <1>2, <2>1, NotShorter
  <2>3. c[k] \in Paths /\ d[k] \in Paths
    BY <1>1, <2>1, ElementOfSeq
  <2>4. Len(c[k]) = Len(d[k]) /\ Len(c[k]) \in Nat
    BY <2>2, <2>3, LenProperties DEF Paths
  <2>5. ASSUME NEW j \in 1..Len(c[k]) PROVE c[k][j] = d[k][j]
    <3>1. c[k][j] = p[b[k] + j - 1]
      BY <1>2 DEF Cuts
    <3>2. d[k][j] = p[e[k] + j - 1]
      BY <1>2, <2>1, <2>4 DEF Cuts
    <3> QED
      BY <2>1, <3>1, <3>2
  <2> QED
    BY <2>3, <2>4, <2>5, SeqEqual DEF Paths
<1> QED
  BY <1>1, <1>6, <1>7, SeqEqual

------------------------------------------------------------------------------
(* Components cuts a path.                                                 *)

\* Numbers below a bound can be numbered in their order: by how many there are up
\* to each of them.
UpTo(S, i) == {j \in S : j <= i}

\* Counting numbers the elements of a set of places from 1 on, in their order.
LEMMA Numbered ==
    ASSUME NEW n \in Nat, NEW S \in SUBSET (1..n)
    PROVE  /\ Cardinality(S) \in Nat
           /\ \A k \in 1..Cardinality(S) : \E i \in S : Cardinality(UpTo(S, i)) = k
           /\ \A i \in S : Cardinality(UpTo(S, i)) \in 1..Cardinality(S)
           /\ \A i, j \in S : i < j => Cardinality(UpTo(S, i)) < Cardinality(UpTo(S, j))
<1>1. IsFiniteSet(S)
  <2>1. IsFiniteSet(1..n)
    BY FS_Interval
  <2> QED
    BY <2>1, FS_Subset
<1>2. Cardinality(S) \in Nat
  BY <1>1, FS_CardinalityType
<1>3. ASSUME NEW i \in S
      PROVE  Cardinality(UpTo(S, i)) \in 1..Cardinality(S) /\ IsFiniteSet(UpTo(S, i))
  <2>1. UpTo(S, i) \in SUBSET S /\ i \in UpTo(S, i)
    BY DEF UpTo
  <2>2. IsFiniteSet(UpTo(S, i)) /\ Cardinality(UpTo(S, i)) <= Cardinality(S)
    BY <1>1, <2>1, FS_Subset
  <2>3. Cardinality(UpTo(S, i)) \in Nat /\ Cardinality(UpTo(S, i)) # 0
    BY <2>1, <2>2, FS_CardinalityType, FS_EmptySet
  <2> QED
    BY <1>2, <2>2, <2>3
<1>4. ASSUME NEW i \in S, NEW j \in S, i < j
      PROVE  Cardinality(UpTo(S, i)) < Cardinality(UpTo(S, j))
  <2>1. i \in Int /\ j \in Int /\ \A s \in S : s \in Int
    OBVIOUS
  <2>2. UpTo(S, i) \in SUBSET UpTo(S, j) /\ j \in UpTo(S, j) /\ j \notin UpTo(S, i)
    <3>1. ASSUME NEW s \in S, s <= i PROVE s <= j
      BY <1>4, <2>1, <3>1
    <3>2. ~(j <= i) /\ j <= j
      BY <1>4, <2>1
    <3>3. UpTo(S, i) \subseteq UpTo(S, j)
      BY <3>1 DEF UpTo
    <3> QED
      BY <3>2, <3>3 DEF UpTo
  <2>3. IsFiniteSet(UpTo(S, j)) /\ Cardinality(UpTo(S, j)) \in Nat /\ Cardinality(UpTo(S, i)) \in Nat
    BY <1>2, <1>3
  <2>4. /\ Cardinality(UpTo(S, i)) <= Cardinality(UpTo(S, j))
        /\ Cardinality(UpTo(S, j)) # Cardinality(UpTo(S, i))
    BY <2>2, <2>3, FS_Subset
  <2> QED
    BY <2>3, <2>4
<1> DEFINE N == 1..Cardinality(S)
           f == [i \in S |-> Cardinality(UpTo(S, i))]
<1>5. f \in Surjection(S, N)
  <2>1. f \in Injection(S, N)
    <3>1. f \in [S -> N]
      BY <1>3
    <3>2. ASSUME NEW i \in S, NEW j \in S, f[i] = f[j]
          PROVE  i = j
      <4>1. i \in Int /\ j \in Int /\ f[i] = Cardinality(UpTo(S, i)) /\ f[j] = Cardinality(UpTo(S, j))
        OBVIOUS
      <4>2. Cardinality(UpTo(S, i)) \in Int /\ Cardinality(UpTo(S, j)) \in Int
        BY <1>2, <1>3
      <4> QED
        BY <1>4, <3>2, <4>1, <4>2
    <3> QED
      BY <3>1, <3>2 DEF Injection, IsInjective
  <2>2. IsFiniteSet(N) /\ Cardinality(N) = Cardinality(S)
    BY <1>2, FS_Interval
  <2> QED
    BY <2>1, <2>2, FS_Injection
<1>6. ASSUME NEW k \in 1..Cardinality(S)
      PROVE  \E i \in S : Cardinality(UpTo(S, i)) = k
  <2>1. \E i \in S : f[i] = k
    BY <1>5 DEF Surjection
  <2> QED
    BY <2>1
<1> QED
  BY <1>2, <1>3, <1>4, <1>6

\* The k-th place where a component begins, and the places of the one that begins at i.
Nth(path, k) == CHOOSE i \in Begins(path) : Cardinality(UpTo(Begins(path), i)) = k
Run(path, i) == {j \in i..Len(path) : \A l \in i..j : path[l] # Slash}

\* Components, in the terms of these definitions.
LEMMA ComponentsDef ==
    ASSUME NEW path
    PROVE  Components(path) =
               [k \in 1..Cardinality(Begins(path)) |->
                   SubSeq(path, Nth(path, k), Nth(path, k) + Cardinality(Run(path, Nth(path, k))) - 1)]
BY DEF Components, Begins, UpTo, Nth, Run

\* A component goes on to the next slash, or to the end of the path.
LEMMA RunFacts ==
    ASSUME NEW p \in Paths, NEW i \in 1..Len(p), p[i] # Slash
    PROVE  LET n == Cardinality(Run(p, i))
           IN  /\ n \in Nat \ {0}
               /\ i + n <= Len(p) + 1
               /\ \A j \in i..(i + n - 1) : p[j] # Slash
               /\ i + n <= Len(p) => p[i + n] = Slash
<1>1. Len(p) \in Nat
  BY PathFacts
<1> DEFINE S == {j \in i..Len(p) : p[j] = Slash} \cup {Len(p) + 1}
<1>2. PICK e \in S : \A j \in S : e <= j
  <2>1. S \subseteq Nat /\ S # {}
    BY <1>1
  <2> QED
    BY <2>1, Smallest
<1>3. e \in (i + 1)..(Len(p) + 1) /\ (e <= Len(p) => p[e] = Slash)
  BY <1>1, <1>2
<1>4. \A j \in i..(e - 1) : p[j] # Slash
  <2>1. SUFFICES ASSUME NEW j \in i..(e - 1), p[j] = Slash PROVE FALSE
    OBVIOUS
  <2>2. j \in S
    BY <1>1, <1>3, <2>1
  <2> QED
    BY <1>1, <1>2, <1>3, <2>2
<1>5. Run(p, i) = i..(e - 1)
  <2>1. ASSUME NEW j \in Run(p, i) PROVE j \in i..(e - 1)
    <3>1. j \in i..Len(p) /\ \A l \in i..j : p[l] # Slash
      BY DEF Run
    <3>2. CASE j >= e
      <4>1. e \in i..j /\ e <= Len(p)
        BY <1>1, <1>3, <3>1, <3>2
      <4> QED
        BY <1>3, <3>1, <4>1
    <3> QED
      BY <1>1, <1>3, <3>1, <3>2
  <2>2. ASSUME NEW j \in i..(e - 1) PROVE j \in Run(p, i)
    <3>1. j \in i..Len(p) /\ \A l \in i..j : l \in i..(e - 1)
      BY <1>1, <1>3
    <3> QED
      BY <1>4, <3>1 DEF Run
  <2> QED
    BY <2>1, <2>2
<1>6. Cardinality(Run(p, i)) = e - i
  BY <1>1, <1>3, <1>5, FS_Interval
<1> QED
  BY <1>1, <1>3, <1>4, <1>6

\* Nth numbers the places where components begin.
LEMMA NthFacts ==
    ASSUME NEW p \in Paths
    PROVE  /\ Cardinality(Begins(p)) \in Nat
           /\ \A k \in 1..Cardinality(Begins(p)) : Nth(p, k) \in Begins(p)
           /\ \A k, l \in 1..Cardinality(Begins(p)) : k < l => Nth(p, k) < Nth(p, l)
           /\ \A i \in Begins(p) : \E k \in 1..Cardinality(Begins(p)) : Nth(p, k) = i
<1> DEFINE S == Begins(p)
           rank(i) == Cardinality(UpTo(S, i))
<1>1. Len(p) \in Nat /\ S \in SUBSET (1..Len(p))
  BY PathFacts DEF Begins
<1>2. /\ Cardinality(S) \in Nat
      /\ \A k \in 1..Cardinality(S) : \E i \in S : rank(i) = k
      /\ \A i \in S : rank(i) \in 1..Cardinality(S)
      /\ \A i, j \in S : i < j => rank(i) < rank(j)
  BY <1>1, Numbered
<1>3. \A k \in 1..Cardinality(S) : Nth(p, k) \in S /\ rank(Nth(p, k)) = k
  <2>1. SUFFICES ASSUME NEW k \in 1..Cardinality(S)
                 PROVE  Nth(p, k) \in S /\ rank(Nth(p, k)) = k
    OBVIOUS
  <2>2. \E i \in S : Cardinality(UpTo(S, i)) = k
    BY <1>2
  <2> QED
    BY <2>2 DEF Nth
<1>4. \A i \in S : i \in Int
  BY <1>1
<1> HIDE DEF S, rank
<1>5. \A i, j \in S : rank(i) < rank(j) => i < j
  <2>1. SUFFICES ASSUME NEW i \in S, NEW j \in S, rank(i) < rank(j), j <= i
                 PROVE  FALSE
    BY <1>4
  <2>2. CASE i = j
    BY <1>2, <2>1, <2>2
  <2>3. CASE j < i
    BY <1>2, <2>1, <2>3
  <2> QED
    BY <1>4, <2>1, <2>2, <2>3
<1>6. \A k, l \in 1..Cardinality(S) : k < l => Nth(p, k) < Nth(p, l)
  BY <1>3, <1>5
<1>7. ASSUME NEW i \in S
      PROVE  \E k \in 1..Cardinality(S) : Nth(p, k) = i
  <2>1. rank(i) \in 1..Cardinality(S)
    BY <1>2
  <2>2. Nth(p, rank(i)) \in S /\ rank(Nth(p, rank(i))) = rank(i)
    BY <1>3, <2>1
  <2>3. \A j \in S : j # i => rank(j) # rank(i)
    BY <1>2, <1>4
  <2> QED
    BY <2>1, <2>2, <2>3
<1> QED
  BY <1>2, <1>3, <1>6, <1>7 DEF S

\* Every place that is no slash comes after the beginning of a component, with no
\* slash between.
LEMMA BeginsBefore ==
    ASSUME NEW p \in Paths, NEW i \in 1..Len(p), p[i] # Slash
    PROVE  \E j \in Begins(p) : j <= i /\ \A l \in j..i : p[l] # Slash
<1>1. Len(p) \in Nat /\ DOMAIN p = 1..Len(p)
  BY PathFacts
<1> DEFINE S == {j \in 1..i : \A l \in j..i : p[l] # Slash}
<1>2. PICK j \in S : \A k \in S : j <= k
  <2>1. i \in S /\ S \subseteq Nat
    OBVIOUS
  <2> QED
    BY <2>1, Smallest
<1>3. j \in 1..Len(p) /\ j <= i /\ \A l \in j..i : p[l] # Slash
  BY <1>1, <1>2
<1>4. ASSUME j > 1, p[j - 1] # Slash PROVE FALSE
  <2>1. j - 1 \in 1..i /\ \A l \in (j - 1)..i : l = j - 1 \/ l \in j..i
    BY <1>1, <1>3, <1>4
  <2>2. j - 1 \in S
    BY <1>3, <1>4, <2>1
  <2> QED
    BY <1>1, <1>2, <1>3, <2>2
<1>5. j \in Begins(p)
  <2>1. p[j] # Slash
    BY <1>1, <1>3
  <2> QED
    BY <1>1, <1>3, <1>4, <2>1 DEF Begins
<1> QED
  BY <1>3, <1>5

\* Components cuts a path.
LEMMA ComponentsCut ==
    ASSUME NEW p \in Paths
    PROVE  IsCut(p, Components(p))
<1> DEFINE n == Cardinality(Begins(p))
           b == [k \in 1..n |-> Nth(p, k)]
           r(k) == Cardinality(Run(p, b[k]))
           c == Components(p)
<1>1. Len(p) \in Nat /\ DOMAIN p = 1..Len(p) /\ \A i \in 1..Len(p) : p[i] \in Chars
  BY PathFacts
<1>2. /\ n \in Nat
      /\ \A k \in 1..n : b[k] \in Begins(p)
      /\ \A k, l \in 1..n : k < l => b[k] < b[l]
      /\ \A i \in Begins(p) : \E k \in 1..n : b[k] = i
  BY NthFacts
<1>3. c = [k \in 1..n |-> SubSeq(p, b[k], b[k] + r(k) - 1)]
  BY ComponentsDef
<1> HIDE DEF n, b, c
<1>4. \A k \in 1..n :
          /\ b[k] \in 1..Len(p) /\ p[b[k]] # Slash
          /\ b[k] > 1 => p[b[k] - 1] = Slash
  BY <1>1, <1>2 DEF Begins
<1>5. \A k \in 1..n :
          /\ r(k) \in Nat \ {0}
          /\ b[k] + r(k) <= Len(p) + 1
          /\ \A j \in b[k]..(b[k] + r(k) - 1) : p[j] # Slash
          /\ b[k] + r(k) <= Len(p) => p[b[k] + r(k)] = Slash
  BY <1>4, RunFacts
<1> HIDE DEF r
<1>6. \A k \in 1..n :
          /\ c[k] \in Paths
          /\ Len(c[k]) = r(k)
          /\ \A j \in 1..r(k) : c[k][j] = p[b[k] + j - 1]
  <2>1. SUFFICES ASSUME NEW k \in 1..n
                 PROVE  /\ c[k] \in Paths
                        /\ Len(c[k]) = r(k)
                        /\ \A j \in 1..r(k) : c[k][j] = p[b[k] + j - 1]
    OBVIOUS
  <2>2. c[k] = SubSeq(p, b[k], b[k] + r(k) - 1)
    BY <1>3
  <2>3. b[k] \in 1..Len(p) /\ b[k] + r(k) - 1 \in b[k]..Len(p) /\ b[k] + r(k) - 1 \in Int
    BY <1>1, <1>4, <1>5
  <2>4. /\ SubSeq(p, b[k], b[k] + r(k) - 1) \in Seq(Chars)
        /\ Len(SubSeq(p, b[k], b[k] + r(k) - 1)) = (b[k] + r(k) - 1) - b[k] + 1
        /\ \A j \in 1..((b[k] + r(k) - 1) - b[k] + 1) :
               SubSeq(p, b[k], b[k] + r(k) - 1)[j] = p[b[k] + j - 1]
    BY <1>1, <2>3, SMTT(20) DEF Paths
  <2>5. (b[k] + r(k) - 1) - b[k] + 1 = r(k)
    BY <1>4, <1>5
  <2> QED
    BY <2>2, <2>4, <2>5 DEF Paths
<1>7. c \in Seq(Paths) /\ Len(c) = n
  BY <1>2, <1>3, <1>6
<1>8. Cuts(p, c, b)
  <2>1. ASSUME NEW k \in 1..n
        PROVE  /\ b[k] \in 1..Len(p) /\ c[k] \in Paths /\ c[k] # <<>>
               /\ b[k] + Len(c[k]) <= Len(p) + 1
               /\ \A j \in 1..Len(c[k]) : c[k][j] = p[b[k] + j - 1] /\ c[k][j] # Slash
    <3>1. Len(c[k]) = r(k) /\ r(k) \in Nat \ {0} /\ c[k] \in Paths
      BY <1>5, <1>6
    <3>2. c[k] # <<>>
      BY <3>1
    <3>3. ASSUME NEW j \in 1..r(k) PROVE c[k][j] = p[b[k] + j - 1] /\ c[k][j] # Slash
      <4>1. b[k] + j - 1 \in b[k]..(b[k] + r(k) - 1)
        BY <1>1, <1>4, <3>1
      <4> QED
        BY <1>5, <1>6, <4>1
    <3> QED
      BY <1>4, <1>5, <3>1, <3>2, <3>3
  <2>2. ASSUME NEW k \in 1..n, NEW l \in 1..n, k < l
        PROVE  b[k] + Len(c[k]) < b[l]
    <3>1. b[k] < b[l] /\ b[k] \in 1..Len(p) /\ b[l] \in 1..Len(p)
      BY <1>2, <1>4, <2>2
    <3>2. p[b[l] - 1] = Slash
      BY <1>1, <1>4, <3>1
    <3>3. b[l] - 1 \notin b[k]..(b[k] + r(k) - 1)
      BY <1>5, <3>2
    <3>4. Len(c[k]) = r(k) /\ r(k) \in Nat
      BY <1>5, <1>6
    <3> QED
      BY <1>1, <3>1, <3>3, <3>4
  <2>3. ASSUME NEW i \in 1..Len(p), p[i] # Slash
        PROVE  \E k \in 1..n : Within(c, b, k, i)
    <3>1. PICK j \in Begins(p) : j <= i /\ \A l \in j..i : p[l] # Slash
      BY <2>3, BeginsBefore
    <3>2. PICK k \in 1..n : b[k] = j
      BY <1>2
    <3>3. Len(c[k]) = r(k) /\ r(k) \in Nat /\ b[k] \in 1..Len(p)
      BY <1>4, <1>5, <1>6
    <3>4. CASE i >= b[k] + r(k)
      <4>1. b[k] + r(k) \in j..i /\ b[k] + r(k) <= Len(p)
        BY <1>1, <3>2, <3>3, <3>4
      <4> QED
        BY <1>5, <3>1, <4>1
    <3>5. CASE i < b[k] + r(k)
      BY <3>1, <3>2, <3>3, <3>5 DEF Within
    <3> QED
      BY <1>1, <3>3, <3>4, <3>5
  <2> QED
    BY <1>7, <2>1, <2>2, <2>3 DEF Cuts
<1> QED
  BY <1>7, <1>8 DEF IsCut, c

\* Whatever cuts a path is its components.
LEMMA ComponentsOf ==
    ASSUME NEW p \in Paths, NEW c, IsCut(p, c)
    PROVE  Components(p) = c
BY ComponentsCut, CutUnique

------------------------------------------------------------------------------
(* Paths put together, and trimmed.                                        *)

\* The components of two paths with a slash between them.
LEMMA JoinedPaths ==
    ASSUME NEW p \in Paths, NEW q \in Paths
    PROVE  Components(p \o <<Slash>> \o q) = Components(p) \o Components(q)
<1>1. PICK c, b : c = Components(p) /\ c \in Seq(Paths) /\ Cuts(p, c, b)
  BY ComponentsCut DEF IsCut
<1>2. PICK d, e : d = Components(q) /\ d \in Seq(Paths) /\ Cuts(q, d, e)
  BY ComponentsCut DEF IsCut
<1>3. PICK r : r = p \o <<Slash>> \o q
  OBVIOUS
<1>4. /\ Len(p) \in Nat /\ Len(q) \in Nat
      /\ r \in Paths /\ Len(r) = Len(p) + 1 + Len(q)
      /\ \A i \in 1..Len(p) : r[i] = p[i]
      /\ r[Len(p) + 1] = Slash
      /\ \A i \in 1..Len(q) : r[i + Len(p) + 1] = q[i]
  <2>1. Slash \in Chars
    BY DEF Chars
  <2> QED
    BY <1>3, <2>1 DEF Paths
<1>40. PICK h \in Nat : h = Len(p) + 1
  BY <1>4
<1>41. Len(p) \in Nat /\ Len(q) \in Nat /\ Len(r) \in Nat /\ Len(r) = h + Len(q) /\ Len(p) + 1 = h
  BY <1>4, <1>40
<1>42. \A i \in 1..Len(q) : r[i + h] = q[i]
  BY <1>4, <1>40
<1>5. PICK f : f = c \o d
  OBVIOUS
<1>6. /\ Len(c) \in Nat /\ Len(d) \in Nat
      /\ f \in Seq(Paths) /\ Len(f) = Len(c) + Len(d)
      /\ \A k \in 1..Len(c) : f[k] = c[k]
      /\ \A k \in 1..Len(d) : f[k + Len(c)] = d[k]
  BY <1>1, <1>2, <1>5
<1>7. PICK g : g = [k \in 1..Len(f) |-> IF k <= Len(c) THEN b[k] ELSE e[k - Len(c)] + h]
  OBVIOUS
<1>8. /\ \A k \in 1..Len(c) : g[k] = b[k]
      /\ \A k \in 1..Len(d) : g[k + Len(c)] = e[k] + h
  <2>1. ASSUME NEW k \in 1..Len(d) PROVE g[k + Len(c)] = e[k] + h
    <3>1. k + Len(c) \in 1..Len(f) /\ ~(k + Len(c) <= Len(c)) /\ (k + Len(c)) - Len(c) = k
      BY <1>6
    <3> QED
      BY <1>7, <3>1
  <2> QED
    BY <1>6, <1>7, <2>1
<1>9. ASSUME NEW k \in 1..Len(f)
      PROVE  k \in 1..Len(c) \/ \E l \in 1..Len(d) : k = l + Len(c)
  <2>1. CASE k > Len(c)
    <3>1. k - Len(c) \in 1..Len(d) /\ k = (k - Len(c)) + Len(c)
      BY <1>6, <2>1
    <3> QED
      BY <3>1
  <2> QED
    BY <1>6, <2>1
<1>10. /\ \A k \in 1..Len(c) :
             /\ b[k] \in 1..Len(p) /\ c[k] \in Paths /\ c[k] # <<>>
             /\ Len(c[k]) \in Nat \ {0}
             /\ b[k] + Len(c[k]) <= Len(p) + 1
             /\ \A j \in 1..Len(c[k]) : c[k][j] = p[b[k] + j - 1] /\ c[k][j] # Slash
       /\ \A k, l \in 1..Len(c) : k < l => b[k] + Len(c[k]) < b[l]
       /\ \A i \in 1..Len(p) : p[i] # Slash => \E k \in 1..Len(c) : Within(c, b, k, i)
  BY <1>1, PlaceFacts DEF Cuts
<1>11. /\ \A k \in 1..Len(d) :
             /\ e[k] \in 1..Len(q) /\ d[k] \in Paths /\ d[k] # <<>>
             /\ Len(d[k]) \in Nat \ {0}
             /\ e[k] + Len(d[k]) <= Len(q) + 1
             /\ \A j \in 1..Len(d[k]) : d[k][j] = q[e[k] + j - 1] /\ d[k][j] # Slash
       /\ \A k, l \in 1..Len(d) : k < l => e[k] + Len(d[k]) < e[l]
       /\ \A i \in 1..Len(q) : q[i] # Slash => \E k \in 1..Len(d) : Within(d, e, k, i)
  BY <1>2, PlaceFacts DEF Cuts
<1>12. ASSUME NEW k \in 1..Len(f)
       PROVE  /\ g[k] \in 1..Len(r) /\ f[k] \in Paths /\ f[k] # <<>>
              /\ g[k] + Len(f[k]) <= Len(r) + 1
              /\ \A j \in 1..Len(f[k]) : f[k][j] = r[g[k] + j - 1] /\ f[k][j] # Slash
  <2>1. CASE k \in 1..Len(c)
    <3>1. f[k] = c[k] /\ g[k] = b[k]
      BY <1>6, <1>8, <2>1
    <3>2. ASSUME NEW j \in 1..Len(c[k]) PROVE c[k][j] = r[b[k] + j - 1] /\ c[k][j] # Slash
      <4>1. b[k] + j - 1 \in 1..Len(p)
        BY <1>4, <1>10, <2>1, SMTT(20)
      <4> QED
        BY <1>4, <1>10, <2>1, <4>1
    <3> QED
      BY <1>4, <1>10, <2>1, <3>1, <3>2
  <2>2. ASSUME NEW l \in 1..Len(d), k = l + Len(c)
        PROVE  /\ g[k] \in 1..Len(r) /\ f[k] \in Paths /\ f[k] # <<>>
               /\ g[k] + Len(f[k]) <= Len(r) + 1
               /\ \A j \in 1..Len(f[k]) : f[k][j] = r[g[k] + j - 1] /\ f[k][j] # Slash
    <3>1. f[k] = d[l] /\ g[k] = e[l] + h
      BY <1>6, <1>8, <2>2
    <3>3. /\ e[l] \in 1..Len(q) /\ d[l] \in Paths /\ d[l] # <<>>
          /\ Len(d[l]) \in Nat \ {0} /\ e[l] + Len(d[l]) <= Len(q) + 1
      BY <1>11
    <3>2. ASSUME NEW j \in 1..Len(d[l])
          PROVE  d[l][j] = r[(e[l] + h) + j - 1] /\ d[l][j] # Slash
      <4>1. e[l] + j - 1 \in 1..Len(q) /\ (e[l] + j - 1) + h = (e[l] + h) + j - 1
        <5>1. PICK x \in Int, y \in Int, n \in Int, z \in Int :
                  x = e[l] /\ y = Len(q) /\ n = Len(d[l]) /\ z = j
          BY <1>41, <3>3, SMTT(20)
        <5> QED
          <6>1. x >= 1 /\ n >= 1 /\ x + n <= y + 1 /\ z >= 1 /\ z <= n
            BY <3>3, <5>1
          <6>2. x + z - 1 \in 1..y /\ (x + z - 1) + h = (x + h) + z - 1
            BY <6>1
          <6> QED
            BY <5>1, <6>2
      <4> QED
        BY <1>11, <1>42, <4>1
    <3> QED
      <4>1. g[k] \in 1..Len(r) /\ g[k] + Len(d[l]) <= Len(r) + 1
        <5>1. PICK x \in Int, y \in Int, n \in Int, z \in Int :
                  x = e[l] /\ y = Len(q) /\ n = Len(d[l]) /\ z = Len(r)
          BY <1>41, <3>3, SMTT(20)
        <5> QED
          <6>1. x >= 1 /\ n >= 1 /\ x + n <= y + 1 /\ z = h + y
            BY <1>41, <3>3, <5>1
          <6>2. x + h \in 1..z /\ (x + h) + n <= z + 1
            BY <6>1
          <6> QED
            BY <3>1, <5>1, <6>2
      <4> QED
        BY <3>1, <3>2, <3>3, <4>1
  <2> QED
    BY <1>9, <2>1, <2>2
<1>13. ASSUME NEW k \in 1..Len(f), NEW l \in 1..Len(f), k < l
       PROVE  g[k] + Len(f[k]) < g[l]
  <2>1. CASE l \in 1..Len(c)
    <3>1. k \in 1..Len(c)
      BY <1>6, <1>13, <2>1
    <3> QED
      BY <1>6, <1>8, <1>10, <1>13, <2>1, <3>1
  <2>2. ASSUME NEW m \in 1..Len(d), l = m + Len(c), k \in 1..Len(c)
        PROVE  g[k] + Len(f[k]) < g[l]
    <3>1. g[k] = b[k] /\ f[k] = c[k] /\ g[l] = e[m] + h
      BY <1>6, <1>8, <2>2
    <3> QED
      <4>1. b[k] \in 1..Len(p) /\ Len(c[k]) \in Nat /\ b[k] + Len(c[k]) <= Len(p) + 1
        BY <1>10, <2>2
      <4>2. e[m] \in 1..Len(q)
        BY <1>11
      <4> QED
        <5>1. PICK x \in Int, y \in Int, n \in Int, z \in Int :
                  x = b[k] /\ y = e[m] /\ n = Len(c[k]) /\ z = Len(p)
          <6>1. b[k] \in Int /\ e[m] \in Int /\ Len(c[k]) \in Int /\ Len(p) \in Int
            BY <1>41, <4>1, <4>2
          <6> QED
            BY <6>1
        <5>2. x + n <= z + 1 /\ y >= 1 /\ z + 1 = h
          BY <1>41, <4>1, <4>2, <5>1
        <5>3. x + n < y + h
          BY <5>2
        <5> QED
          BY <3>1, <5>1, <5>3
  <2>3. ASSUME NEW m \in 1..Len(d), l = m + Len(c), NEW i \in 1..Len(d), k = i + Len(c)
        PROVE  g[k] + Len(f[k]) < g[l]
    <3>1. g[k] = e[i] + h /\ f[k] = d[i] /\ g[l] = e[m] + h
      BY <1>6, <1>8, <2>3
    <3>2. i < m
      BY <1>6, <1>13, <2>3
    <3>3. /\ e[i] \in 1..Len(q) /\ e[m] \in 1..Len(q) /\ Len(d[i]) \in Nat
          /\ e[i] + Len(d[i]) < e[m]
      BY <1>11, <3>2
    <3>4. PICK x \in Int, y \in Int, n \in Int : x = e[i] /\ y = e[m] /\ n = Len(d[i])
      BY <3>3
    <3>5. (x + h) + n < y + h
      <4>1. x + n < y
        BY <3>3, <3>4
      <4> QED
        BY <4>1
    <3> QED
      BY <3>1, <3>4, <3>5
  <2> QED
    BY <1>9, <2>1, <2>2, <2>3
<1>14. ASSUME NEW i \in 1..Len(r), r[i] # Slash
       PROVE  \E k \in 1..Len(f) : Within(f, g, k, i)
  <2>1. CASE i <= Len(p)
    <3>1. i \in 1..Len(p) /\ p[i] # Slash
      BY <1>4, <1>14, <2>1
    <3>2. PICK k \in 1..Len(c) : Within(c, b, k, i)
      BY <1>10, <3>1
    <3>3. k \in 1..Len(f) /\ f[k] = c[k] /\ g[k] = b[k]
      BY <1>6, <1>8
    <3>4. Within(f, g, k, i)
      BY <3>2, <3>3 DEF Within
    <3> QED
      BY <3>3, <3>4
  <2>2. CASE i > Len(p)
    <3>1. i # Len(p) + 1
      BY <1>4, <1>14
    <3>2. PICK m \in 1..Len(q) : i = m + h
      <4>1. i - h \in 1..Len(q) /\ i = (i - h) + h
        BY <1>41, <2>2, <3>1
      <4> QED
        BY <4>1
    <3>3. q[m] # Slash
      BY <1>14, <1>42, <3>2
    <3>4. PICK k \in 1..Len(d) : Within(d, e, k, m)
      BY <1>11, <3>3
    <3>5. k + Len(c) \in 1..Len(f) /\ f[k + Len(c)] = d[k] /\ g[k + Len(c)] = e[k] + h
      BY <1>6, <1>8
    <3>6. Within(f, g, k + Len(c), i)
      <4>1. e[k] \in 1..Len(q) /\ Len(d[k]) \in Nat
        BY <1>11
      <4> QED
        BY <3>2, <3>4, <3>5, <4>1 DEF Within
    <3> QED
      BY <3>5, <3>6
  <2> QED
    BY <1>4, <2>1, <2>2
<1>15. IsCut(r, f)
  <2>1. Cuts(r, f, g)
    BY <1>12, <1>13, <1>14 DEF Cuts
  <2> QED
    BY <1>6, <2>1 DEF IsCut
<1> QED
  BY <1>1, <1>2, <1>3, <1>4, <1>5, <1>15, ComponentsOf

\* A path that lies between slashes has the components of the whole.
LEMMA InnerPath ==
    ASSUME NEW p \in Paths, NEW u \in 1..(Len(p) + 1), NEW v \in (u - 1)..Len(p),
           \A i \in 1..Len(p) : i < u \/ v < i => p[i] = Slash
    PROVE  Components(SubSeq(p, u, v)) = Components(p)
<1>1. PICK c, b : c = Components(p) /\ c \in Seq(Paths) /\ Cuts(p, c, b)
  BY ComponentsCut DEF IsCut
<1>2. PICK r : r = SubSeq(p, u, v)
  OBVIOUS
<1>3. /\ Len(p) \in Nat /\ r \in Paths /\ Len(r) = v - u + 1
      /\ \A i \in 1..Len(r) : r[i] = p[u + i - 1]
  BY <1>2, PathFacts DEF Paths
<1>4. PICK g : g = [k \in 1..Len(c) |-> b[k] - u + 1]
  OBVIOUS
<1>5. /\ Len(c) \in Nat
      /\ \A k \in 1..Len(c) :
            /\ b[k] \in 1..Len(p) /\ Len(c[k]) \in Nat \ {0}
            /\ b[k] + Len(c[k]) <= Len(p) + 1
      /\ \A k, l \in 1..Len(c) : k < l => b[k] + Len(c[k]) < b[l]
      /\ \A i \in 1..Len(p) : p[i] # Slash => \E k \in 1..Len(c) : Within(c, b, k, i)
  BY <1>1, PlaceFacts
<1>50. \A k \in 1..Len(c) :
           /\ c[k] \in Paths /\ c[k] # <<>>
           /\ \A j \in 1..Len(c[k]) : c[k][j] = p[b[k] + j - 1] /\ c[k][j] # Slash
  BY <1>1 DEF Cuts
<1>51. u \in Int /\ v \in Int /\ Len(p) \in Int /\ 1 <= u /\ u - 1 <= v /\ v <= Len(p) /\ Len(r) = v - u + 1
  BY <1>3
<1>6. ASSUME NEW k \in 1..Len(c)
      PROVE  u <= b[k] /\ b[k] + Len(c[k]) <= v + 1 /\ g[k] = b[k] - u + 1
  <2>0. b[k] \in 1..Len(p) /\ Len(c[k]) \in Nat \ {0} /\ b[k] + Len(c[k]) <= Len(p) + 1
    BY <1>5
  <2>1. ASSUME NEW j \in 1..Len(c[k]) PROVE u <= b[k] + j - 1 /\ b[k] + j - 1 <= v
    <3>1. b[k] + j - 1 \in 1..Len(p) /\ b[k] + j - 1 \in Int
      BY <1>51, <2>0, SMTT(20)
    <3>2. p[b[k] + j - 1] # Slash
      BY <1>50
    <3>3. ~(b[k] + j - 1 < u) /\ ~(v < b[k] + j - 1)
      BY <3>1, <3>2
    <3> QED
      BY <1>51, <3>1, <3>3
  <2>2. 1 \in 1..Len(c[k]) /\ Len(c[k]) \in 1..Len(c[k])
    BY <2>0
  <2>3. u <= b[k] + 1 - 1 /\ b[k] + Len(c[k]) - 1 <= v
    BY <2>1, <2>2
  <2>4. g[k] = b[k] - u + 1
    BY <1>4
  <2> QED
    BY <1>51, <2>0, <2>3, <2>4, SMTT(20)
<1>7. ASSUME NEW k \in 1..Len(c)
      PROVE  /\ g[k] \in 1..Len(r)
             /\ g[k] + Len(c[k]) <= Len(r) + 1
             /\ \A j \in 1..Len(c[k]) : c[k][j] = r[g[k] + j - 1] /\ c[k][j] # Slash
  <2>0. b[k] \in 1..Len(p) /\ Len(c[k]) \in Nat \ {0} /\ b[k] + Len(c[k]) <= v + 1
        /\ u <= b[k] /\ g[k] = b[k] - u + 1
    BY <1>5, <1>6
  <2>10. PICK x \in Int, n \in Int, y \in Int : x = b[k] /\ n = Len(c[k]) /\ y = Len(r)
    BY <1>51, <2>0
  <2>1. g[k] \in 1..Len(r) /\ g[k] + Len(c[k]) <= Len(r) + 1
    <3>1. n >= 1 /\ x + n <= v + 1 /\ u <= x /\ y = v - u + 1
      BY <1>51, <2>0, <2>10
    <3>2. x - u + 1 \in 1..y /\ (x - u + 1) + n <= y + 1
      BY <1>51, <3>1
    <3> QED
      BY <2>0, <2>10, <3>2
  <2>2. ASSUME NEW j \in 1..Len(c[k]) PROVE c[k][j] = r[g[k] + j - 1] /\ c[k][j] # Slash
    <3>1. g[k] + j - 1 \in 1..Len(r) /\ u + (g[k] + j - 1) - 1 = b[k] + j - 1
      <4>1. n >= 1 /\ x + n <= v + 1 /\ u <= x /\ y = v - u + 1 /\ j >= 1 /\ j <= n /\ j \in Int
        BY <1>51, <2>0, <2>10
      <4>2. (x - u + 1) + j - 1 \in 1..y /\ u + ((x - u + 1) + j - 1) - 1 = x + j - 1
        BY <1>51, <4>1
      <4> QED
        BY <2>0, <2>10, <4>2
    <3>2. r[g[k] + j - 1] = p[u + (g[k] + j - 1) - 1]
      BY <1>3, <3>1
    <3> QED
      BY <1>50, <3>1, <3>2, SMTT(20)
  <2> QED
    BY <2>1, <2>2
<1>8. ASSUME NEW i \in 1..Len(r), r[i] # Slash
      PROVE  \E k \in 1..Len(c) : Within(c, g, k, i)
  <2>1. u + i - 1 \in 1..Len(p) /\ p[u + i - 1] # Slash
    BY <1>3, <1>8
  <2>2. PICK k \in 1..Len(c) : Within(c, b, k, u + i - 1)
    BY <1>5, <2>1
  <2>3. Within(c, g, k, i)
    <3>1. b[k] \in 1..Len(p) /\ Len(c[k]) \in Nat /\ g[k] = b[k] - u + 1
      BY <1>5, <1>6
    <3> QED
      BY <1>51, <2>2, <3>1, SMTT(20) DEF Within
  <2> QED
    BY <2>3
<1>9. ASSUME NEW k \in 1..Len(c), NEW l \in 1..Len(c), k < l
      PROVE  g[k] + Len(c[k]) < g[l]
  <2>1. /\ b[k] \in 1..Len(p) /\ b[l] \in 1..Len(p) /\ Len(c[k]) \in Nat
        /\ b[k] + Len(c[k]) < b[l] /\ g[k] = b[k] - u + 1 /\ g[l] = b[l] - u + 1
    BY <1>5, <1>6, <1>9
  <2>2. PICK x \in Int, n \in Int, y \in Int : x = b[k] /\ n = Len(c[k]) /\ y = b[l]
    BY <2>1, SMTT(20)
  <2> QED
    <3>1. (x - u + 1) + n < y - u + 1
      <4>1. x + n < y
        BY <2>1, <2>2
      <4> QED
        BY <1>51, <4>1
    <3> QED
      BY <2>1, <2>2, <3>1
<1>10. Cuts(r, c, g)
  BY <1>50, <1>7, <1>8, <1>9 DEF Cuts
<1> QED
  BY <1>1, <1>2, <1>3, <1>10, ComponentsOf DEF IsCut

\* trim_start_slashes leaves out slashes at the beginning only.
LEMMA TrimmedStart ==
    ASSUME NEW p \in Paths
    PROVE  \E u \in 1..(Len(p) + 1) :
               /\ trim_start_slashes(p) = SubSeq(p, u, Len(p))
               /\ \A i \in 1..Len(p) : i < u => p[i] = Slash
<1>1. Len(p) \in Nat /\ DOMAIN p = 1..Len(p)
  BY PathFacts
<1> DEFINE S == {i \in 1..Len(p) : p[i] # Slash} \cup {Len(p) + 1}
           leading == {i \in DOMAIN p : \A j \in 1..i : p[j] = Slash}
<1>2. PICK u \in S : \A i \in S : u <= i
  <2>1. S \subseteq Nat /\ S # {}
    BY <1>1
  <2> QED
    BY <2>1, Smallest
<1>3. u \in 1..(Len(p) + 1)
  BY <1>1, <1>2
<1>4. \A i \in 1..Len(p) : i < u => p[i] = Slash
  <2>1. SUFFICES ASSUME NEW i \in 1..Len(p), i < u, p[i] # Slash PROVE FALSE
    OBVIOUS
  <2>2. i \in S
    BY <2>1
  <2> QED
    BY <1>1, <1>2, <1>3, <2>1, <2>2
<1>5. leading = 1..(u - 1)
  <2>1. ASSUME NEW i \in leading PROVE i \in 1..(u - 1)
    <3>1. i \in 1..Len(p) /\ \A j \in 1..i : p[j] = Slash
      BY <1>1
    <3>2. CASE i >= u
      <4>1. u \in 1..i /\ u <= Len(p)
        BY <1>1, <1>3, <3>1, <3>2
      <4> QED
        BY <1>1, <1>2, <3>1, <4>1
    <3> QED
      BY <1>1, <1>3, <3>1, <3>2
  <2>2. ASSUME NEW i \in 1..(u - 1) PROVE i \in leading
    <3>1. i \in DOMAIN p /\ \A j \in 1..i : j \in 1..Len(p) /\ j < u
      BY <1>1, <1>3
    <3> QED
      BY <1>4, <3>1
  <2> QED
    BY <2>1, <2>2
<1> HIDE DEF leading
<1>6. Cardinality(leading) = u - 1
  <2>1. u - 1 \in Nat
    BY <1>1, <1>3
  <2>2. Cardinality(1..(u - 1)) = IF 1 > u - 1 THEN 0 ELSE (u - 1) - 1 + 1
    BY <2>1, FS_Interval
  <2> QED
    BY <1>5, <2>1, <2>2
<1>7. trim_start_slashes(p) = SubSeq(p, Cardinality(leading) + 1, Len(p))
  BY DEF trim_start_slashes, leading
<1>8. trim_start_slashes(p) = SubSeq(p, u, Len(p))
  <2>1. Cardinality(leading) + 1 = u
    BY <1>1, <1>3, <1>6
  <2> QED
    BY <1>7, <2>1
<1> QED
  BY <1>3, <1>4, <1>8

\* trim_end_slashes leaves out slashes at the end only, and all of them.
LEMMA TrimmedEnd ==
    ASSUME NEW p \in Paths
    PROVE  \E v \in 0..Len(p) :
               /\ trim_end_slashes(p) = SubSeq(p, 1, v)
               /\ v > 0 => p[v] # Slash
               /\ \A i \in 1..Len(p) : v < i => p[i] = Slash
<1>1. Len(p) \in Nat /\ DOMAIN p = 1..Len(p)
  BY PathFacts
<1> DEFINE S == {i \in 1..Len(p) : p[i] # Slash} \cup {0}
           trailing == {i \in DOMAIN p : \A j \in i..Len(p) : p[j] = Slash}
<1>2. PICK v \in S : \A i \in S : i <= v
  <2>1. S \subseteq 0..Len(p) /\ S # {}
    BY <1>1
  <2> QED
    BY <1>1, <2>1, Largest
<1>3. v \in 0..Len(p) /\ (v > 0 => p[v] # Slash)
  BY <1>1, <1>2
<1>4. \A i \in 1..Len(p) : v < i => p[i] = Slash
  <2>1. SUFFICES ASSUME NEW i \in 1..Len(p), v < i, p[i] # Slash PROVE FALSE
    OBVIOUS
  <2>2. i \in S
    BY <2>1
  <2> QED
    BY <1>1, <1>2, <1>3, <2>1, <2>2
<1>5. trailing = (v + 1)..Len(p)
  <2>1. ASSUME NEW i \in trailing PROVE i \in (v + 1)..Len(p)
    <3>1. i \in 1..Len(p) /\ \A j \in i..Len(p) : p[j] = Slash
      BY <1>1
    <3>2. CASE i <= v
      <4>1. v \in i..Len(p) /\ v > 0
        BY <1>1, <1>3, <3>1, <3>2
      <4> QED
        BY <1>3, <3>1, <4>1
    <3> QED
      BY <1>1, <1>3, <3>1, <3>2
  <2>2. ASSUME NEW i \in (v + 1)..Len(p) PROVE i \in trailing
    <3>1. i \in DOMAIN p /\ \A j \in i..Len(p) : j \in 1..Len(p) /\ v < j
      BY <1>1, <1>3
    <3> QED
      BY <1>4, <3>1
  <2> QED
    BY <2>1, <2>2
<1> HIDE DEF trailing
<1>6. Cardinality(trailing) = Len(p) - v
  <2>1. v + 1 \in Int /\ Len(p) \in Int
    BY <1>1, <1>3
  <2>2. Cardinality((v + 1)..Len(p)) = IF v + 1 > Len(p) THEN 0 ELSE Len(p) - (v + 1) + 1
    BY <2>1, FS_Interval
  <2> QED
    BY <1>1, <1>3, <1>5, <2>2
<1>7. trim_end_slashes(p) = SubSeq(p, 1, Len(p) - Cardinality(trailing))
  BY DEF trim_end_slashes, trailing
<1>8. trim_end_slashes(p) = SubSeq(p, 1, v)
  <2>1. Len(p) - Cardinality(trailing) = v
    BY <1>1, <1>3, <1>6
  <2> QED
    BY <1>7, <2>1
<1> QED
  BY <1>3, <1>4, <1>8

\* A part of a path is a path.
LEMMA PartOfPath ==
    ASSUME NEW p \in Paths, NEW u \in 1..(Len(p) + 1), NEW v \in (u - 1)..Len(p)
    PROVE  /\ SubSeq(p, u, v) \in Paths
           /\ Len(SubSeq(p, u, v)) = v - u + 1
           /\ \A i \in 1..(v - u + 1) : SubSeq(p, u, v)[i] = p[u + i - 1]
BY PathFacts DEF Paths

\* The empty path and the root have no components.
LEMMA NoComponents ==
    /\ <<>> \in Paths /\ Components(<<>>) = <<>>
    /\ <<Slash>> \in Paths /\ Components(<<Slash>>) = <<>>
<1>1. <<>> \in Paths /\ <<Slash>> \in Paths /\ <<>> \in Seq(Paths)
  BY DEF Paths, Chars
<1>2. Cuts(<<>>, <<>>, <<>>) /\ Cuts(<<Slash>>, <<>>, <<>>)
  BY DEF Cuts
<1> QED
  BY <1>1, <1>2, ComponentsOf DEF IsCut

\* A slash in front of a path adds no component.
LEMMA AfterSlash ==
    ASSUME NEW p \in Paths
    PROVE  Components(<<Slash>> \o p) = Components(p)
<1>1. <<>> \o <<Slash>> \o p = <<Slash>> \o p
  BY NoComponents DEF Paths
<1>2. Components(<<>> \o <<Slash>> \o p) = Components(<<>>) \o Components(p)
  BY NoComponents, JoinedPaths
<1>3. <<>> \o Components(p) = Components(p)
  <2>1. Components(p) \in Seq(Paths)
    BY ComponentsCut DEF IsCut
  <2> QED
    BY <2>1, ConcatEmptySeq
<1> QED
  BY <1>1, <1>2, <1>3, NoComponents

\* Slashes at both ends make no difference (trim_slashes).
LEMMA TrimmedComponents ==
    ASSUME NEW p \in Paths
    PROVE  Components(<<Slash>> \o trim_slashes(p)) = Components(p)
<1>1. PICK u \in 1..(Len(p) + 1) :
          /\ trim_start_slashes(p) = SubSeq(p, u, Len(p))
          /\ \A i \in 1..Len(p) : i < u => p[i] = Slash
  BY TrimmedStart
<1>2. PICK q : q = trim_start_slashes(p)
  OBVIOUS
<1>3. Len(p) \in Nat /\ Len(p) \in (u - 1)..Len(p)
  BY PathFacts
<1>4. q \in Paths
  BY <1>1, <1>2, <1>3, PartOfPath
<1>5. Components(q) = Components(p)
  <2>1. \A i \in 1..Len(p) : i < u \/ Len(p) < i => p[i] = Slash
    BY <1>1, <1>3
  <2> QED
    BY <1>1, <1>2, <1>3, <2>1, InnerPath
<1>6. PICK v \in 0..Len(q) :
          /\ trim_end_slashes(q) = SubSeq(q, 1, v)
          /\ \A i \in 1..Len(q) : v < i => q[i] = Slash
  BY <1>4, TrimmedEnd
<1>7. PICK w : w = trim_end_slashes(q)
  OBVIOUS
<1>8. Len(q) \in Nat /\ 1 \in 1..(Len(q) + 1) /\ v \in (1 - 1)..Len(q)
  BY <1>4, PathFacts
<1>9. w \in Paths
  BY <1>4, <1>6, <1>7, <1>8, PartOfPath
<1>10. Components(w) = Components(q)
  <2>1. \A i \in 1..Len(q) : i < 1 \/ v < i => q[i] = Slash
    BY <1>6, <1>8
  <2> QED
    BY <1>4, <1>6, <1>7, <1>8, <2>1, InnerPath
<1>11. trim_slashes(p) = w
  BY <1>2, <1>7 DEF trim_slashes
<1> QED
  BY <1>5, <1>9, <1>10, <1>11, AfterSlash

------------------------------------------------------------------------------
(* Below an export.                                                        *)

\* An export name begins with its one slash, and does not end with another.
IsExport(q) == q \in Paths /\ q # <<>> /\ q[1] = Slash /\ (q = <<Slash>> \/ q[Len(q)] # Slash)

\* with_export_name makes an export name of every name.
LEMMA ExportNames ==
    ASSUME NEW name \in Paths
    PROVE  IsExport(with_export_name(name))
<1>1. PICK v \in 0..Len(name) :
          trim_end_slashes(name) = SubSeq(name, 1, v) /\ (v > 0 => name[v] # Slash)
  BY TrimmedEnd
<1>2. PICK t : t = trim_end_slashes(name)
  OBVIOUS
<1>3. Len(name) \in Nat /\ 1 \in 1..(Len(name) + 1) /\ v \in (1 - 1)..Len(name)
  BY PathFacts
<1>4. t \in Paths /\ Len(t) = v /\ \A i \in 1..v : t[i] = name[i]
  <2>1. /\ t \in Paths /\ Len(t) = v - 1 + 1
        /\ \A i \in 1..(v - 1 + 1) : t[i] = name[1 + i - 1]
    BY <1>1, <1>2, <1>3, PartOfPath
  <2> QED
    BY <1>3, <2>1
<1>5. PICK u \in 1..(Len(t) + 1) : trim_start_slashes(t) = SubSeq(t, u, Len(t))
  BY <1>4, TrimmedStart
<1>6. PICK w : w = trim_start_slashes(t)
  OBVIOUS
<1>7. /\ w \in Paths /\ Len(w) = v - u + 1 /\ \A i \in 1..(v - u + 1) : w[i] = t[u + i - 1]
  <2>1. v \in (u - 1)..Len(t)
    BY <1>3, <1>4
  <2> QED
    <3>1. w = SubSeq(t, u, v) /\ Len(t) = v /\ t \in Paths
      BY <1>4, <1>5, <1>6
    <3> QED
      BY <2>1, <3>1, PartOfPath
<1>8. PICK q : q = <<Slash>> \o w
  OBVIOUS
<1>9. /\ q \in Paths /\ Len(w) \in Nat /\ Len(q) = Len(w) + 1 /\ q[1] = Slash
      /\ \A i \in 1..Len(w) : q[i + 1] = w[i]
  <2>1. Slash \in Chars
    BY DEF Chars
  <2> QED
    BY <1>7, <1>8, <2>1 DEF Paths
<1>12. with_export_name(name) = q
  BY <1>2, <1>6, <1>8 DEF with_export_name
<1>10. CASE Len(w) = 0
  <2>1. q = <<Slash>>
    BY <1>9, <1>10 DEF Paths
  <2> QED
    BY <1>9, <1>12, <2>1 DEF IsExport
<1>11. CASE Len(w) # 0
  <2>1. Len(w) \in 1..Len(w) /\ v > 0 /\ v \in 1..v /\ u + Len(w) - 1 = v
    BY <1>3, <1>4, <1>7, <1>9, <1>11
  <2>2. q[Len(q)] = w[Len(w)] /\ w[Len(w)] = t[v] /\ t[v] = name[v] /\ name[v] # Slash
    BY <1>1, <1>4, <1>7, <1>9, <2>1
  <2>3. q # <<>>
    BY <1>9
  <2> QED
    BY <1>9, <1>12, <2>2, <2>3 DEF IsExport
<1> QED
  BY <1>10, <1>11

\* export_subpath by cases: a path that goes on after the export with nothing, or with
\* a slash, or anyhow if the export is the root.
LEMMA SubpathCases ==
    ASSUME NEW p \in Paths, NEW q, IsExport(q)
    PROVE  LET sub == export_subpath(p, q)
               rest == SubSeq(p, Len(q) + 1, Len(p))
           IN  /\ sub.some => Len(q) <= Len(p) /\ p = q \o rest
               /\ sub.some =>
                     \/ sub.path = rest /\ (q = <<Slash>> \/ rest = <<>>)
                     \/ rest # <<>> /\ rest[1] = Slash /\ sub.path = Tail(rest)
               /\ Len(q) <= Len(p) /\ SubSeq(p, 1, Len(q)) = q
                     /\ (q = <<Slash>> \/ rest = <<>> \/ rest[1] = Slash) => sub.some
<1> DEFINE sub == export_subpath(p, q)
           rest == SubSeq(p, Len(q) + 1, Len(p))
<1>1. sub = IF ~(Len(q) <= Len(p) /\ SubSeq(p, 1, Len(q)) = q) THEN [some |-> FALSE]
            ELSE IF q = <<Slash>> \/ rest = <<>> THEN [some |-> TRUE, path |-> rest]
            ELSE IF rest[1] = Slash THEN [some |-> TRUE, path |-> Tail(rest)]
            ELSE [some |-> FALSE]
  BY DEF export_subpath, StartsWith, After, None, Some
<1>2. ASSUME Len(q) <= Len(p), SubSeq(p, 1, Len(q)) = q PROVE p = q \o rest
  <2>1. q \in Paths /\ Len(p) \in Nat /\ Len(q) \in Nat
    BY PathFacts DEF IsExport
  <2>2. PICK r : r = rest
    OBVIOUS
  <2>3. r \in Paths /\ Len(r) = Len(p) - (Len(q) + 1) + 1
        /\ \A i \in 1..(Len(p) - (Len(q) + 1) + 1) : r[i] = p[(Len(q) + 1) + i - 1]
    <3>1. Len(q) + 1 \in 1..(Len(p) + 1) /\ Len(p) \in ((Len(q) + 1) - 1)..Len(p)
      BY <1>2, <2>1
    <3> QED
      BY <2>2, <3>1, PartOfPath
  <2>4. PICK n \in Nat : n = Len(r) /\ Len(p) = Len(q) + n
    <3>1. Len(r) \in Nat /\ Len(p) = Len(q) + Len(r)
      BY <1>2, <2>1, <2>3, PathFacts
    <3> QED
      BY <3>1
  <2>5. \A i \in 1..Len(q) : p[i] = q[i]
    <3>1. 1 \in 1..(Len(p) + 1) /\ Len(q) \in (1 - 1)..Len(p)
      BY <1>2, <2>1
    <3>2. \A i \in 1..(Len(q) - 1 + 1) : SubSeq(p, 1, Len(q))[i] = p[1 + i - 1]
      BY <3>1, PartOfPath
    <3>3. \A i \in 1..Len(q) : i \in 1..(Len(q) - 1 + 1) /\ 1 + i - 1 = i
      BY <2>1
    <3> QED
      BY <1>2, <3>2, <3>3
  <2>6. \A i \in 1..n : p[Len(q) + i] = r[i]
    <3>1. SUFFICES ASSUME NEW i \in 1..n PROVE p[Len(q) + i] = r[i]
      OBVIOUS
    <3>2. i \in 1..(Len(p) - (Len(q) + 1) + 1) /\ (Len(q) + 1) + i - 1 = Len(q) + i
      BY <2>1, <2>4
    <3> QED
      BY <2>3, <3>2
  <2>7. PICK z : z = q \o r
    OBVIOUS
  <2>8. /\ z \in Paths /\ Len(z) = Len(p)
        /\ \A i \in 1..Len(q) : z[i] = q[i]
        /\ \A i \in 1..n : z[Len(q) + i] = r[i]
    BY <2>1, <2>3, <2>4, <2>7 DEF Paths
  <2>9. ASSUME NEW i \in 1..Len(p) PROVE p[i] = z[i]
    <3>1. CASE i <= Len(q)
      BY <2>1, <2>5, <2>8, <3>1
    <3>2. CASE i > Len(q)
      <4>1. i - Len(q) \in 1..n /\ Len(q) + (i - Len(q)) = i
        BY <2>1, <2>4, <3>2
      <4>2. PICK m \in 1..n : m = i - Len(q) /\ Len(q) + m = i
        BY <4>1
      <4>3. p[Len(q) + m] = r[m]
        BY <2>6
      <4>4. z[Len(q) + m] = r[m]
        BY <2>8
      <4> QED
        BY <4>2, <4>3, <4>4
    <3> QED
      BY <2>1, <3>1, <3>2
  <2>10. p = z
    BY <2>8, <2>9, SeqEqual DEF Paths
  <2> QED
    BY <2>2, <2>7, <2>10
<1> HIDE DEF sub, rest
<1>3. sub.some => Len(q) <= Len(p) /\ p = q \o rest
  BY <1>1, <1>2
<1>4. sub.some => \/ sub.path = rest /\ (q = <<Slash>> \/ rest = <<>>)
                  \/ rest # <<>> /\ rest[1] = Slash /\ sub.path = Tail(rest)
  BY <1>1
<1>5. Len(q) <= Len(p) /\ SubSeq(p, 1, Len(q)) = q
         /\ (q = <<Slash>> \/ rest = <<>> \/ rest[1] = Slash) => sub.some
  BY <1>1
<1> QED
  BY <1>3, <1>4, <1>5 DEF sub, rest

\* The components of a path below an export are those of the export, followed by
\* those of the part below it.
THEOREM SubpathComponents ==
    ASSUME NEW p \in Paths, NEW q, IsExport(q), export_subpath(p, q).some
    PROVE  LET path == export_subpath(p, q).path
           IN  path \in Paths /\ Components(p) = Components(q) \o Components(path)
<1>1. PICK rest : rest = SubSeq(p, Len(q) + 1, Len(p))
  OBVIOUS
<1>2. PICK path : path = export_subpath(p, q).path
  OBVIOUS
<1>3. /\ Len(q) <= Len(p) /\ p = q \o rest
      /\ \/ path = rest /\ (q = <<Slash>> \/ rest = <<>>)
         \/ rest # <<>> /\ rest[1] = Slash /\ path = Tail(rest)
  BY <1>1, <1>2, SubpathCases
<1>4. q \in Paths /\ Len(p) \in Nat /\ Len(q) \in Nat /\ rest \in Paths
  <2>1. q \in Paths /\ Len(p) \in Nat /\ Len(q) \in Nat
    BY PathFacts DEF IsExport
  <2>2. Len(q) + 1 \in 1..(Len(p) + 1) /\ Len(p) \in ((Len(q) + 1) - 1)..Len(p)
    BY <1>3, <2>1
  <2> QED
    BY <1>1, <2>1, <2>2, PartOfPath
<1>5. Components(q) \in Seq(Paths)
  BY <1>4, ComponentsCut DEF IsCut
<1>6. CASE path = rest /\ q = <<Slash>>
  <2>1. Components(p) = Components(rest)
    BY <1>3, <1>4, <1>6, AfterSlash
  <2>2. Components(rest) \in Seq(Paths)
    BY <1>4, ComponentsCut DEF IsCut
  <2>3. Components(q) \o Components(rest) = Components(rest)
    BY <1>6, <2>2, NoComponents, ConcatEmptySeq
  <2> QED
    BY <1>2, <1>4, <1>6, <2>1, <2>3
<1>7. CASE path = rest /\ rest = <<>>
  <2>1. p = q
    BY <1>3, <1>4, <1>7, ConcatEmptySeq DEF Paths
  <2>2. Components(q) \o Components(rest) = Components(q)
    BY <1>5, <1>7, NoComponents, ConcatEmptySeq
  <2> QED
    BY <1>2, <1>4, <1>7, <2>1, <2>2
<1>8. CASE rest # <<>> /\ rest[1] = Slash /\ path = Tail(rest)
  <2>1. path \in Paths /\ rest = <<Slash>> \o path
    BY <1>4, <1>8 DEF Paths
  <2>2. p = q \o <<Slash>> \o path
    <3>1. Slash \in Chars
      BY DEF Chars
    <3> QED
      BY <1>3, <1>4, <2>1, <3>1, ConcatAssociative DEF Paths
  <2>3. Components(q \o <<Slash>> \o path) = Components(q) \o Components(path)
    BY <1>4, <2>1, JoinedPaths
  <2> QED
    BY <1>2, <2>1, <2>2, <2>3
<1> QED
  BY <1>3, <1>6, <1>7, <1>8

\* In a path without doubled slashes a component follows the one before it after a
\* slash.
LEMMA CleanPlaces ==
    ASSUME NEW p \in Paths, Clean(p), NEW c \in Seq(Paths), NEW b, Cuts(p, c, b), NEW k \in 1..Len(c)
    PROVE  b[k] = IF k = 1 THEN 2 ELSE (b[k - 1] + Len(c[k - 1])) + 1
<1>1. /\ Len(p) \in Nat /\ Len(c) \in Nat
      /\ \A l \in 1..Len(c) :
            /\ b[l] \in 1..Len(p) /\ Len(c[l]) \in Nat \ {0}
            /\ \A i \in 1..Len(p) : Within(c, b, l, i) => p[i] # Slash
      /\ \A l, m \in 1..Len(c) : l < m => b[l] + Len(c[l]) < b[m]
      /\ \A i \in 1..Len(p) : p[i] # Slash => \E l \in 1..Len(c) : Within(c, b, l, i)
  BY PlaceFacts
<1>2. /\ p[1] = Slash
      /\ \A i \in 1..(Len(p) - 1) : p[i] # Slash \/ p[i + 1] # Slash
  BY DEF Clean
<1>3. PICK x \in Int : x = b[k] /\ x \in 1..Len(p)
  BY <1>1, SMTT(20)
<1>4. p[x] # Slash /\ (x > 1 => p[x - 1] = Slash)
  <2>1. x \in Begins(p)
    BY <1>3, PlacesBegin
  <2> QED
    BY <2>1 DEF Begins
<1>5. x > 1
  BY <1>2, <1>3, <1>4
\* Where the component before ends.
<1>6. PICK y \in Int : y = IF k = 1 THEN 1 ELSE b[k - 1] + Len(c[k - 1])
  <2>1. CASE k # 1
    <3>1. k - 1 \in 1..Len(c)
      BY <1>1, <2>1
    <3>2. b[k - 1] + Len(c[k - 1]) \in Int
      BY <1>1, <3>1
    <3> QED
      BY <2>1, <3>2
  <2> QED
    BY <2>1
<1>7. y < x /\ y >= 1
  <2>1. CASE k = 1
    BY <1>5, <1>6, <2>1
  <2>2. CASE k # 1
    <3>1. k - 1 \in 1..Len(c) /\ k - 1 < k
      BY <1>1, <2>2
    <3>2. b[k - 1] + Len(c[k - 1]) < b[k] /\ b[k - 1] \in 1..Len(p) /\ Len(c[k - 1]) \in Nat
      BY <1>1, <3>1
    <3> QED
      BY <1>3, <1>6, <2>2, <3>2
  <2> QED
    BY <2>1, <2>2
<1>8. ~(y + 1 < x)
  <2>1. SUFFICES ASSUME y + 1 < x PROVE FALSE
    OBVIOUS
  <2>2. PICK i \in Int : i = x - 2
    OBVIOUS
  <2>3. i \in 1..(Len(p) - 1) /\ i \in 1..Len(p) /\ i + 1 = x - 1 /\ y <= i
    BY <1>1, <1>3, <1>7, <2>1, <2>2, SMTT(20)
  <2>4. p[i] # Slash
    BY <1>2, <1>4, <1>5, <2>3
  <2>5. PICK l \in 1..Len(c) : Within(c, b, l, i)
    BY <1>1, <2>3, <2>4
  <2>6. PICK w \in Int, n \in Int : w = b[l] /\ n = Len(c[l]) /\ n > 0 /\ w <= i /\ i < w + n
    BY <1>1, <2>5 DEF Within
  <2>7. CASE l = k
    BY <1>3, <2>2, <2>6, <2>7
  <2>8. CASE l > k
    <3>1. b[k] + Len(c[k]) < b[l] /\ Len(c[k]) \in Nat
      BY <1>1, <2>8
    <3> QED
      BY <1>3, <2>2, <2>6, <3>1, SMTT(20)
  <2>9. CASE l < k
    <3>1. k # 1 /\ k - 1 \in 1..Len(c)
      BY <1>1, <2>9
    <3>2. y = b[k - 1] + Len(c[k - 1])
      BY <1>6, <3>1
    <3>3. CASE l = k - 1
      BY <2>3, <2>6, <3>2, <3>3
    <3>4. CASE l < k - 1
      <4>1. b[l] + Len(c[l]) < b[k - 1] /\ b[k - 1] \in Int /\ Len(c[k - 1]) \in Nat
        BY <1>1, <3>1, <3>4
      <4>2. w + n < y
        BY <2>6, <3>2, <4>1, SMTT(20)
      <4> QED
        BY <2>3, <2>6, <4>2
    <3> QED
      BY <1>1, <2>9, <3>3, <3>4
  <2> QED
    BY <1>1, <2>7, <2>8, <2>9
<1>9. x = y + 1
  BY <1>7, <1>8
<1> QED
  BY <1>3, <1>6, <1>9

\* Every path that is spelt without doubled slashes, as the export is, and whose
\* components begin with the export's, is found below the export.
THEOREM SubpathFound ==
    ASSUME NEW p \in Paths, NEW q, IsExport(q), Clean(p), Clean(q),
           NEW f \in Seq(Paths), Components(p) = Components(q) \o f
    PROVE  export_subpath(p, q).some
<1>1. q \in Paths /\ q # <<>> /\ (q = <<Slash>> \/ q[Len(q)] # Slash)
  BY DEF IsExport
<1>2. PICK c, e : c = Components(q) /\ c \in Seq(Paths) /\ Cuts(q, c, e)
  BY <1>1, ComponentsCut DEF IsCut
<1>3. PICK d, b : d = Components(p) /\ d \in Seq(Paths) /\ Cuts(p, d, b)
  BY ComponentsCut DEF IsCut
<1>4. /\ Len(c) \in Nat /\ Len(d) \in Nat /\ Len(c) <= Len(d)
      /\ \A k \in 1..Len(c) : k \in 1..Len(d) /\ d[k] = c[k]
  <2>1. d = c \o f
    BY <1>2, <1>3
  <2> QED
    BY <1>2, <2>1
<1>5. /\ Len(p) \in Nat
      /\ \A k \in 1..Len(d) :
            /\ b[k] \in 1..Len(p) /\ Len(d[k]) \in Nat \ {0}
            /\ b[k] + Len(d[k]) <= Len(p) + 1
            /\ \A i \in 1..Len(p) : Within(d, b, k, i) => p[i] # Slash
      /\ \A k, l \in 1..Len(d) : k < l => b[k] + Len(d[k]) < b[l]
      /\ \A i \in 1..Len(p) : p[i] # Slash => \E k \in 1..Len(d) : Within(d, b, k, i)
  BY <1>3, PlaceFacts
<1>6. /\ Len(q) \in Nat
      /\ \A k \in 1..Len(c) :
            /\ e[k] \in 1..Len(q) /\ Len(c[k]) \in Nat \ {0}
            /\ e[k] + Len(c[k]) <= Len(q) + 1
            /\ \A i \in 1..Len(q) : Within(c, e, k, i) => q[i] # Slash
      /\ \A k, l \in 1..Len(c) : k < l => e[k] + Len(c[k]) < e[l]
      /\ \A i \in 1..Len(q) : q[i] # Slash => \E k \in 1..Len(c) : Within(c, e, k, i)
  BY <1>1, <1>2, PlaceFacts
\* The components of the export lie at the same places of both.
<1>7. \A k \in 1..Len(c) : b[k] = e[k]
  <2> DEFINE Bad == {k \in 1..Len(c) : b[k] # e[k]}
  <2>1. SUFFICES ASSUME Bad # {} PROVE FALSE
    OBVIOUS
  <2>2. PICK k \in Bad : \A l \in Bad : k <= l
    <3>1. Bad \subseteq Nat
      BY <1>4
    <3> QED
      BY <2>1, <3>1, Smallest
  <2>3. k \in 1..Len(c) /\ k \in 1..Len(d) /\ b[k] # e[k]
    BY <1>4, <2>2
  <2>4. b[k] = IF k = 1 THEN 2 ELSE (b[k - 1] + Len(d[k - 1])) + 1
    <3>1. d \in Seq(Paths) /\ Cuts(p, d, b) /\ p \in Paths /\ Clean(p) /\ k \in 1..Len(d)
      BY <1>3, <2>3
    <3> QED
      BY <3>1, CleanPlaces
  <2>5. e[k] = IF k = 1 THEN 2 ELSE (e[k - 1] + Len(c[k - 1])) + 1
    BY <1>1, <1>2, <2>3, CleanPlaces
  <2>6. CASE k # 1
    <3>1. k - 1 \in 1..Len(c) /\ ~(k <= k - 1)
      BY <1>4, <2>3, <2>6
    <3>2. b[k - 1] = e[k - 1] /\ d[k - 1] = c[k - 1]
      BY <1>4, <2>2, <3>1
    <3> QED
      BY <2>3, <2>4, <2>5, <2>6, <3>2
  <2> QED
    BY <2>3, <2>4, <2>5, <2>6
<1> DEFINE rest == SubSeq(p, Len(q) + 1, Len(p))
<1>8. CASE q = <<Slash>>
  <2>1. p # <<>> /\ p[1] = Slash
    BY DEF Clean
  <2>2. Len(q) = 1 /\ Len(p) >= 1
    BY <1>5, <1>8, <2>1 DEF Paths
  <2>3. SubSeq(p, 1, Len(q)) = q
    <3>1. PICK r : r = SubSeq(p, 1, 1)
      OBVIOUS
    <3>2. 1 \in 1..(Len(p) + 1) /\ 1 \in (1 - 1)..Len(p) /\ 1 \in 1..(1 - 1 + 1) /\ 1 + 1 - 1 = 1
      BY <1>5, <2>2
    <3>3. r \in Paths /\ Len(r) = 1 - 1 + 1 /\ r[1] = p[1 + 1 - 1]
      BY <3>1, <3>2, PartOfPath
    <3>4. Len(r) = Len(q) /\ \A i \in 1..Len(r) : r[i] = q[i]
      <4>1. Len(r) = 1 /\ r[1] = Slash /\ q[1] = Slash
        BY <1>8, <2>1, <3>3
      <4> QED
        BY <2>2, <4>1
    <3>5. r = q
      BY <1>1, <3>3, <3>4, SeqEqual DEF Paths
    <3> QED
      BY <2>2, <3>1, <3>5
  <2> QED
    BY <1>8, <2>2, <2>3, SubpathCases
<1>9. CASE q[Len(q)] # Slash
  <2>1. Len(q) \in 1..Len(q)
    BY <1>1, <1>6
  <2>2. PICK n \in 1..Len(c) : Within(c, e, n, Len(q))
    BY <1>6, <1>9, <2>1
  \* The export's last component ends with it.
  <2>3. e[n] + Len(c[n]) = Len(q) + 1
    <3>1. PICK x \in Int, z \in Int : x = e[n] /\ z = Len(c[n])
      BY <1>6, SMTT(20)
    <3>2. x + z <= Len(q) + 1 /\ Len(q) < x + z
      BY <1>6, <2>2, <3>1 DEF Within
    <3>3. x + z = Len(q) + 1
      BY <1>6, <3>2
    <3> QED
      BY <3>1, <3>3
  <2>4. n = Len(c)
    <3>1. SUFFICES ASSUME n # Len(c) PROVE FALSE
      OBVIOUS
    <3>2. Len(c) \in 1..Len(c) /\ n < Len(c)
      BY <1>4, <3>1
    <3>3. e[n] + Len(c[n]) < e[Len(c)] /\ e[Len(c)] \in 1..Len(q)
      BY <1>6, <3>2
    <3> QED
      BY <1>6, <2>3, <3>3
  <2>5. n \in 1..Len(d) /\ b[n] + Len(d[n]) = Len(q) + 1
    BY <1>4, <1>7, <2>3
  <2>6. Len(q) <= Len(p)
    <3>1. Len(q) + 1 <= Len(p) + 1
      BY <1>5, <2>5
    <3> QED
      BY <1>5, <1>6, <3>1
  \* What lies after the export's last component lies after the export.
  <2>7. \A k \in 1..Len(d) : k > n => b[k] > Len(q) + 1
    <3>1. SUFFICES ASSUME NEW k \in 1..Len(d), k > n PROVE b[k] > Len(q) + 1
      OBVIOUS
    <3>2. b[n] + Len(d[n]) < b[k] /\ b[k] \in Int
      BY <1>5, <2>5, <3>1
    <3> QED
      BY <1>6, <2>5, <3>2
  <2>8. ASSUME NEW i \in 1..Len(q) PROVE p[i] = q[i]
    <3>1. i \in 1..Len(p)
      BY <1>5, <1>6, <2>6
    <3>2. CASE q[i] # Slash
      <4>1. PICK k \in 1..Len(c) : Within(c, e, k, i)
        BY <1>6, <3>2
      <4>2. PICK x \in Int, z \in Int : x = e[k] /\ z = Len(c[k]) /\ x >= 1
        BY <1>6, SMTT(20)
      <4>3. PICK j \in 1..Len(c[k]) : x + j - 1 = i
        <5>1. x <= i /\ i < x + z
          BY <4>1, <4>2 DEF Within
        <5>2. i - x + 1 \in 1..z /\ x + (i - x + 1) - 1 = i
          BY <1>6, <5>1
        <5> QED
          BY <4>2, <5>2
      <4>4. c[k][j] = q[e[k] + j - 1]
        BY <1>2 DEF Cuts
      <4>5. k \in 1..Len(d) /\ d[k] = c[k] /\ b[k] = e[k]
        BY <1>4, <1>7
      <4>6. d[k][j] = p[b[k] + j - 1]
        BY <1>3, <4>5 DEF Cuts
      <4> QED
        BY <4>2, <4>3, <4>4, <4>5, <4>6
    <3>3. CASE q[i] = Slash /\ p[i] # Slash
      <4>1. PICK k \in 1..Len(d) : Within(d, b, k, i)
        BY <1>5, <3>1, <3>3
      <4>2. k <= n
        <5>1. SUFFICES ASSUME k > n PROVE FALSE
          BY <1>4
        <5>2. b[k] > Len(q) + 1 /\ b[k] \in Int /\ b[k] <= i
          BY <1>5, <2>7, <4>1, <5>1 DEF Within
        <5> QED
          BY <1>6, <5>2
      <4>3. k \in 1..Len(c) /\ d[k] = c[k] /\ b[k] = e[k]
        <5>1. k \in 1..Len(c)
          BY <1>4, <4>2
        <5> QED
          BY <1>4, <1>7, <5>1
      <4>4. Within(c, e, k, i)
        BY <4>1, <4>3 DEF Within
      <4> QED
        BY <1>6, <3>3, <4>3, <4>4
    <3> QED
      BY <3>2, <3>3
  <2>9. SubSeq(p, 1, Len(q)) = q
    <3>1. 1 \in 1..(Len(p) + 1) /\ Len(q) \in (1 - 1)..Len(p)
      BY <1>5, <1>6, <2>6
    <3>2. PICK r : r = SubSeq(p, 1, Len(q))
      OBVIOUS
    <3>3. r \in Paths /\ Len(r) = Len(q) - 1 + 1 /\ \A i \in 1..(Len(q) - 1 + 1) : r[i] = p[1 + i - 1]
      BY <3>1, <3>2, PartOfPath
    <3>4. Len(r) = Len(q) /\ \A i \in 1..Len(q) : r[i] = q[i]
      <4>1. \A i \in 1..Len(q) : i \in 1..(Len(q) - 1 + 1) /\ 1 + i - 1 = i
        BY <1>6
      <4> QED
        BY <1>6, <2>8, <3>3, <4>1
    <3>5. r = q
      BY <1>1, <3>3, <3>4, SeqEqual DEF Paths
    <3> QED
      BY <3>2, <3>5
  <2>10. rest = <<>> \/ rest[1] = Slash
    <3>1. CASE Len(p) = Len(q)
      <4>1. rest = <<>>
        BY <1>5, <1>6, <3>1 DEF Paths
      <4> QED
        BY <4>1
    <3>2. CASE Len(p) > Len(q)
      <4>1. PICK i \in 1..Len(p) : i = Len(q) + 1
        BY <1>5, <1>6, <3>2
      <4>2. p[i] = Slash
        <5>1. SUFFICES ASSUME p[i] # Slash PROVE FALSE
          OBVIOUS
        <5>2. PICK k \in 1..Len(d) : Within(d, b, k, i)
          BY <1>5, <5>1
        <5>3. PICK x \in Int, z \in Int : x = b[k] /\ z = Len(d[k]) /\ z > 0 /\ x <= i /\ i < x + z
          BY <1>5, <5>2, SMTT(20) DEF Within
        <5>4. CASE k > n
          BY <1>6, <2>7, <4>1, <5>3, <5>4
        <5>5. CASE k = n
          BY <1>6, <2>5, <4>1, <5>3, <5>5
        <5>6. CASE k < n
          <6>1. PICK y \in Int, w \in Nat : y = b[n] /\ w = Len(d[n])
            BY <1>5, <2>5
          <6>2. b[k] + Len(d[k]) < b[n]
            BY <1>5, <2>5, <5>6
          <6>3. x + z < y /\ y + w = Len(q) + 1
            BY <2>5, <5>3, <6>1, <6>2
          <6> QED
            BY <1>6, <4>1, <5>3, <6>3, SMTT(20)
        <5> QED
          BY <1>4, <5>4, <5>5, <5>6
      <4>3. i \in 1..(Len(p) + 1) /\ Len(p) \in (i - 1)..Len(p) /\ 1 \in 1..(Len(p) - i + 1)
            /\ i + 1 - 1 = i
        BY <1>5
      <4>4. SubSeq(p, i, Len(p))[1] = p[i + 1 - 1]
        BY <4>3, PartOfPath
      <4> QED
        BY <4>1, <4>2, <4>3, <4>4
    <3> QED
      BY <1>5, <1>6, <2>6, <3>1, <3>2
  <2> QED
    BY <2>6, <2>9, <2>10, SubpathCases
<1> QED
  BY <1>1, <1>8, <1>9
==============================================================================

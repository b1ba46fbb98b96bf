----------------------------- MODULE ReaddirProofs -----------------------------
(***************************************************************************)
(* What is proved of ReaddirPaging, for any directory, any sizes of pages, *)
(* any mtimes and any number of changes and of failures.                   *)
(***************************************************************************)
EXTENDS ReaddirPaging, FiniteSetTheorems, SequenceTheorems, TLAPS

USE DEF NoVersion, Dot, DotDot

Versions(v) == {i \in DOMAIN past : past[i].mtime = v}
Limit == Cardinality(Names) + 2

\* The records of the state.
Verifiers == Times \cup {0}
History == [dir : SUBSET Names, mtime : Times]
Listings == [at : {"ask", "wait", "done"}, cookie : Nat, verf : Verifiers, got : Seq(Int),
             began : Nat, page : Nat, larger : BOOLEAN, blind : BOOLEAN]
Requests == [at : {"stat", "list"}, cookie : Nat, verf : Verifiers, attr : BOOLEAN,
             dircount : Nat, room : Nat]
Pages == [at : {"answer"}, stat : {"OK"}, entries : Seq(Int), eof : BOOLEAN, verf : Verifiers]
Refusals == [at : {"answer"}, stat : {"BAD_COOKIE", "TOOSMALL"}, attr : BOOLEAN]

\* The directory's past: its last version is the present.
PastOK ==
    /\ past \in Seq(History)
    /\ Len(past) >= 1
    /\ past[Len(past)].dir = dir

\* The client's listing.
ClientOK ==
    /\ client \in Listings
    /\ client.cookie = Len(client.got)
    /\ client.page <= Len(client.got)
    /\ Len(client.got) <= Limit
    /\ client.began <= Len(past)
    /\ client.at # "ask" => client.began >= 1
    /\ client.began = 0 => client.got = <<>> /\ client.verf = 0

\* The request is the client's, and a page is one the client has room for.
ServerOK ==
    /\ server \in {Idle} \cup Requests \cup Pages \cup Refusals
    /\ client.at = "wait" <=> server.at # "idle"
    /\ server \in Requests => server.cookie = client.cookie
    /\ server.at = "stat" => server.verf = client.verf
    /\ server \in Pages => Len(client.got) + Len(server.entries) <= Limit
    /\ failures \in 0..MaxFailures

Shape == PastOK /\ ClientOK /\ ServerOK

\* The first n entries of s are those of the i-th version of the directory.
Agrees(s, n, i) ==
    /\ n <= Len(Listing(past[i].dir))
    /\ \A k \in 1..n : s[k] = Listing(past[i].dir)[k]

\* The entries of s after the first n are those of a version that is v or came
\* after it.
Follows(s, n, v) ==
    \E i \in Versions(v), j \in DOMAIN past :
        /\ i <= j
        /\ Len(s) <= Len(Listing(past[j].dir))
        /\ \A k \in (n + 1)..Len(s) : s[k] = Listing(past[j].dir)[k]

\* The page e continues the client's n entries with those of such a version.
Continues(e, n, v) ==
    \E i \in Versions(v), j \in DOMAIN past :
        /\ i <= j
        /\ n + Len(e) <= Len(Listing(past[j].dir))
        /\ \A k \in 1..Len(e) : e[k] = Listing(past[j].dir)[n + k]

\* The first n entries of s are those of the only version v.
Holds(s, n, v) ==
    /\ Versions(v) # {}
    /\ \A i : Versions(v) = {i} => Agrees(s, n, i)

\* The pages up to the last are of the version the client holds, and the last
\* one of this or a later version; what the handler has found out of the
\* verifier holds of all pages.
ClientFits ==
    /\ client.verf = 0 => client.got = <<>>
    /\ client.verf # 0 =>
           /\ Holds(client.got, Len(client.got) - client.page, client.verf)
           /\ Follows(client.got, Len(client.got) - client.page, client.verf)
ServerFits ==
    /\ (server.at = "list" \/ server \in Pages) /\ server.verf # 0 =>
           Holds(client.got, Len(client.got), server.verf)
    /\ server \in Pages /\ server.verf # 0 =>
           Continues(server.entries, Len(client.got), server.verf)
PagesInv == ~client.blind => ClientFits /\ ServerFits

\* One page, of a directory that holds still: it goes on where the client is,
\* tells the end just there, and refuses a cookie only if it lies beyond the
\* listing.
PageRight(all, cookie, verf, a) ==
    \/ a \in Refusals /\ (a.stat = "BAD_COOKIE" => cookie > Len(all))
    \/ /\ a \in Pages
       /\ a.verf = verf
       /\ cookie + Len(a.entries) <= Len(all)
       /\ \A k \in 1..Len(a.entries) : a.entries[k] = all[cookie + k]
       /\ a.eof => cookie + Len(a.entries) = Len(all)

\* While nothing has changed, the client has the beginning of the listing, the
\* page that is on its way goes on there, and the verifier is the present mtime,
\* or none.
QuietInv ==
    Quiet =>
        /\ Agrees(client.got, Len(client.got), Len(past))
        /\ client.verf \in {0, mtime}
        /\ server \in Requests => server.at = "stat" \/ server.verf \in {0, mtime}
        /\ server \in Refusals => server.stat # "BAD_COOKIE" \/ ~server.attr
        /\ server \in Pages =>
               /\ server.verf \in {0, mtime}
               /\ PageRight(Listing(dir), Len(client.got), server.verf, server)
        /\ Finished => Len(client.got) = Len(Listing(dir))

------------------------------------------------------------------------------
(* The listing of a directory: every name once, in order.                  *)

(* A name that comes before another has fewer before it.                   *)
LEMMA RankGrows ==
  ASSUME NEW S \in SUBSET Nat, IsFiniteSet(S), NEW a \in S, NEW b \in S, a < b
  PROVE  /\ Cardinality(Before(a, S)) \in Nat
         /\ Cardinality(Before(b, S)) \in Nat
         /\ Cardinality(Before(a, S)) < Cardinality(Before(b, S))
         /\ Cardinality(Before(b, S)) < Cardinality(S)
<1>1. /\ Before(a, S) \in SUBSET Before(b, S)
      /\ a \in Before(b, S) /\ a \notin Before(a, S)
      /\ Before(b, S) \in SUBSET S
      /\ b \notin Before(b, S)
  <2>1. a \in Nat /\ b \in Nat /\ \A x \in S : x \in Nat
    OBVIOUS
  <2>2. ASSUME NEW x \in Before(a, S) PROVE x \in Before(b, S)
    BY <2>1, <2>2 DEF Before
  <2>3. a \in Before(b, S) /\ a \notin Before(a, S)
    BY <2>1 DEF Before
  <2>4. Before(b, S) \in SUBSET S /\ b \notin Before(b, S)
    BY <2>1 DEF Before
  <2> QED
    BY <2>2, <2>3, <2>4
<1>2. IsFiniteSet(Before(b, S)) /\ Cardinality(Before(b, S)) <= Cardinality(S)
      /\ (Cardinality(S) = Cardinality(Before(b, S)) => S = Before(b, S))
  BY <1>1, FS_Subset
<1>3. IsFiniteSet(Before(a, S)) /\ Cardinality(Before(a, S)) <= Cardinality(Before(b, S))
      /\ (Cardinality(Before(b, S)) = Cardinality(Before(a, S)) => Before(b, S) = Before(a, S))
  BY <1>1, <1>2, FS_Subset
<1>4. Cardinality(S) \in Nat /\ Cardinality(Before(a, S)) \in Nat /\ Cardinality(Before(b, S)) \in Nat
  BY <1>2, <1>3, FS_CardinalityType
<1> QED
  BY <1>1, <1>2, <1>3, <1>4

(* The number of names before one is less than that of all.                *)
LEMMA RankBound ==
  ASSUME NEW S \in SUBSET Nat, IsFiniteSet(S), NEW a \in S
  PROVE  /\ Cardinality(S) \in Nat
         /\ Cardinality(Before(a, S)) \in 0..(Cardinality(S) - 1)
<1>1. Before(a, S) \in SUBSET S /\ a \notin Before(a, S)
  BY DEF Before
<1>2. IsFiniteSet(Before(a, S)) /\ Cardinality(Before(a, S)) <= Cardinality(S)
      /\ (Cardinality(S) = Cardinality(Before(a, S)) => S = Before(a, S))
  BY <1>1, FS_Subset
<1>3. Cardinality(S) \in Nat /\ Cardinality(Before(a, S)) \in Nat
  BY <1>2, FS_CardinalityType
<1> QED
  BY <1>1, <1>2, <1>3

(* For each position there is a name with that many names before it.       *)
LEMMA RankTaken ==
  ASSUME NEW S \in SUBSET Nat, IsFiniteSet(S), NEW k \in 1..Cardinality(S)
  PROVE  \E n \in S : Cardinality(Before(n, S)) = k - 1
<1> DEFINE f == [n \in S |-> Cardinality(Before(n, S)) + 1]
           T == 1..Cardinality(S)
<1>1. Cardinality(S) \in Nat
  BY FS_CardinalityType
<1>2. f \in [S -> T]
  BY <1>1, RankBound
<1>3. ASSUME NEW a \in S, NEW b \in S, f[a] = f[b] PROVE a = b
  <2>1. Cardinality(Before(a, S)) + 1 = Cardinality(Before(b, S)) + 1
    BY <1>3
  <2>2. a \in Nat /\ b \in Nat
    OBVIOUS
  <2>3. CASE a < b
    BY <2>1, <2>3, RankGrows
  <2>4. CASE b < a
    BY <2>1, <2>4, RankGrows
  <2> QED
    BY <2>2, <2>3, <2>4
<1>4. f \in Injection(S, T)
  BY <1>2, <1>3 DEF Injection, IsInjective
<1>5. IsFiniteSet(T) /\ Cardinality(T) = Cardinality(S)
  BY <1>1, FS_Interval
<1>6. f \in Surjection(S, T)
  BY <1>4, <1>5, FS_Injection
<1>7. PICK n \in S : f[n] = k
  BY <1>6 DEF Surjection
<1> QED
  BY <1>1, <1>7, RankBound

(* InOrder has each name of a directory once, in order.                    *)
LEMMA OrderRight ==
  ASSUME NEW S \in SUBSET Nat, IsFiniteSet(S)
  PROVE  /\ Cardinality(S) \in Nat
         /\ InOrder(S) \in [1..Cardinality(S) -> S]
         /\ \A i, j \in 1..Cardinality(S) : i < j => InOrder(S)[i] < InOrder(S)[j]
         /\ \A n \in S : \E i \in 1..Cardinality(S) : InOrder(S)[i] = n
<1>1. Cardinality(S) \in Nat
  BY FS_CardinalityType
<1>2. ASSUME NEW k \in 1..Cardinality(S)
      PROVE  InOrder(S)[k] \in S /\ Cardinality(Before(InOrder(S)[k], S)) = k - 1
  <2>1. \E n \in S : Cardinality(Before(n, S)) = k - 1
    BY RankTaken
  <2>2. InOrder(S)[k] = CHOOSE n \in S : Cardinality(Before(n, S)) = k - 1
    BY DEF InOrder
  <2> QED
    BY <2>1, <2>2
<1>3. InOrder(S) \in [1..Cardinality(S) -> S]
  BY <1>2 DEF InOrder
<1>4. ASSUME NEW i \in 1..Cardinality(S), NEW j \in 1..Cardinality(S), i < j
      PROVE  InOrder(S)[i] < InOrder(S)[j]
  <2> PICK a, b : a = InOrder(S)[i] /\ b = InOrder(S)[j]
    OBVIOUS
  <2>1. /\ a \in S /\ Cardinality(Before(a, S)) = i - 1
        /\ b \in S /\ Cardinality(Before(b, S)) = j - 1
    BY <1>2
  <2>2. CASE b < a
    BY <1>1, <1>4, <2>1, <2>2, RankGrows
  <2>3. a # b
    BY <1>1, <1>4, <2>1
  <2> QED
    BY <2>1, <2>2, <2>3
<1>5. ASSUME NEW n \in S PROVE \E i \in 1..Cardinality(S) : InOrder(S)[i] = n
  <2> PICK i : i = Cardinality(Before(n, S)) + 1
    OBVIOUS
  <2>1. i \in 1..Cardinality(S) /\ Cardinality(Before(n, S)) = i - 1
    BY <1>1, RankBound
  <2> PICK a : a = InOrder(S)[i]
    OBVIOUS
  <2>2. a \in S /\ Cardinality(Before(a, S)) = i - 1
    BY <1>2, <2>1
  <2>3. a \in Nat /\ n \in Nat
    BY <2>2
  <2>4. CASE a < n
    BY <2>1, <2>2, <2>4, RankGrows
  <2>5. CASE n < a
    BY <2>1, <2>2, <2>5, RankGrows
  <2> QED
    BY <2>1, <2>3, <2>4, <2>5
<1> QED
  BY <1>1, <1>3, <1>4, <1>5

(* A listing is a sequence of the directory's names, with two before them. *)
LEMMA ListingType ==
  ASSUME NEW S \in SUBSET Names
  PROVE  /\ Listing(S) \in Seq(Int)
         /\ Len(Listing(S)) \in Nat
         /\ Len(Listing(S)) >= 2
         /\ Len(Listing(S)) <= Limit
         /\ Limit \in Nat
<1>1. S \in SUBSET Nat /\ IsFiniteSet(S) /\ IsFiniteSet(Names) /\ Cardinality(S) <= Cardinality(Names)
  BY PagingAssumption, FS_Subset
<1>2. Cardinality(S) \in Nat /\ Cardinality(Names) \in Nat
  BY <1>1, FS_CardinalityType
<1>3. InOrder(S) \in [1..Cardinality(S) -> S]
  BY <1>1, OrderRight
<1> PICK n, f : n = Cardinality(S) /\ f = InOrder(S)
  OBVIOUS
<1>4. f \in Seq(Int) /\ Len(f) = n
  <2>1. S \in SUBSET Int
    BY <1>1
  <2>2. f \in [1..n -> S] /\ n \in Nat
    BY <1>2, <1>3
  <2>3. f \in [1..n -> Int] /\ n \in Nat
    BY <2>1, <2>2
  <2> QED
    BY <2>3
<1>5. <<Dot, DotDot>> \in Seq(Int) /\ Len(<<Dot, DotDot>>) = 2
  OBVIOUS
<1>6. Listing(S) \in Seq(Int) /\ Len(Listing(S)) = 2 + n
  BY <1>4, <1>5, ConcatProperties DEF Listing
<1> QED
  BY <1>1, <1>2, <1>6 DEF Limit

------------------------------------------------------------------------------
(* The first l of the entries e.                                           *)
LEMMA FirstOf ==
  ASSUME NEW e, NEW l \in Nat, \A i \in 1..l : e[i] \in Int
  PROVE  /\ SubSeq(e, 1, l) \in Seq(Int)
         /\ Len(SubSeq(e, 1, l)) = l
         /\ \A i \in 1..l : SubSeq(e, 1, l)[i] = e[i]
<1>1. /\ SubSeq(e, 1, l) \in Seq(Int)
      /\ Len(SubSeq(e, 1, l)) = IF 1 <= l THEN l - 1 + 1 ELSE 0
      /\ \A i \in 1..(l - 1 + 1) : SubSeq(e, 1, l)[i] = e[1 + i - 1]
  BY SubSeqProperties
<1> QED
  BY <1>1

(* What readdir_index finds from the cookie on is cut to the room there is. *)
LEMMA PageFits ==
  ASSUME NEW all \in Seq(Int), NEW c \in Nat, NEW n \in 0..Len(all), c <= n,
         NEW e, e = SubSeq(SubSeq(all, 1, n), c + 1, n),
         NEW q \in Requests, NEW end \in BOOLEAN, end => n = Len(all)
  PROVE  PageRight(all, c, q.verf, Page(e, end, q))
<1> PICK room, verf : room = q.room /\ verf = q.verf
  OBVIOUS
<1>0. room \in Nat /\ verf \in Verifiers /\ q.attr \in BOOLEAN
  BY DEF Requests
<1>1. Len(all) \in Nat /\ n \in Nat /\ \A i \in 1..Len(all) : all[i] \in Int
  BY LenProperties
<1> PICK r : r = SubSeq(all, 1, n)
  OBVIOUS
<1>2. r \in Seq(Int) /\ Len(r) = n /\ \A i \in 1..n : r[i] = all[i]
  BY <1>1, SubSeqProperties
<1>3. \A i \in (c + 1)..n : r[i] \in Int
  BY <1>1, <1>2
<1>4. e \in Seq(Int) /\ Len(e) = n - c /\ \A i \in 1..(n - c) : e[i] = r[c + 1 + i - 1]
  BY <1>1, <1>2, <1>3, SubSeqProperties
<1>5. \A i \in 1..(n - c) : e[i] = all[c + i]
  BY <1>1, <1>2, <1>4
<1> PICK l : l = IF room < Len(e) THEN room ELSE Len(e)
  OBVIOUS
<1>6. l \in Nat /\ l <= n - c /\ (room >= Len(e) => l = n - c)
  <2>1. PICK x \in Nat : x = Len(e) /\ x = n - c
    BY <1>1, <1>4
  <2> QED
    BY <1>0, <2>1
<1> PICK f : f = Fitting(e, room)
  OBVIOUS
<1>7. \A i \in 1..l : e[i] \in Int
  BY <1>1, <1>5, <1>6
<1>8. f \in Seq(Int) /\ Len(f) = l /\ \A i \in 1..l : f[i] = e[i]
  <2>1. f = SubSeq(e, 1, l)
    BY DEF Fitting
  <2>2. l \in Nat
    BY <1>6
  <2>3. /\ SubSeq(e, 1, l) \in Seq(Int)
        /\ Len(SubSeq(e, 1, l)) = l
        /\ \A i \in 1..l : SubSeq(e, 1, l)[i] = e[i]
    BY <1>7, <2>2, FirstOf
  <2> QED
    BY <2>1, <2>3
<1>9. ASSUME NEW i \in 1..l PROVE f[i] = all[c + i]
  <2>1. i \in 1..(n - c)
    BY <1>1, <1>6
  <2> QED
    BY <1>5, <1>8, <2>1
<1>10. c + l <= Len(all) /\ (end /\ room >= Len(e) => c + l = Len(all))
  <2>1. c + l <= Len(all)
    BY <1>1, <1>6
  <2>2. ASSUME end, room >= Len(e) PROVE c + l = Len(all)
    BY <1>1, <1>6, <2>2
  <2> QED
    BY <2>1, <2>2
<1>11. CASE e # <<>> /\ room = 0
  BY <1>0, <1>11 DEF Page, Refusal, Refusals, PageRight
<1>12. CASE ~(e # <<>> /\ room = 0)
  <2>p. PICK eof \in BOOLEAN : eof = (end /\ room >= Len(e))
    OBVIOUS
  <2>1. Page(e, end, q) = [at |-> "answer", stat |-> "OK", entries |-> f, eof |-> eof,
                           verf |-> verf]
    BY <1>12, <2>p DEF Page, Entries
  <2>2. eof => c + Len(f) = Len(all)
    BY <1>8, <1>10, <2>p
  <2>3. c + Len(f) <= Len(all)
    BY <1>8, <1>10
  <2>4. \A k \in 1..Len(f) : f[k] = all[c + k]
    BY <1>8, <1>9
  <2> PICK a : a = Page(e, end, q)
    OBVIOUS
  <2>5. a \in Pages /\ a.entries = f /\ a.eof = eof /\ a.verf = verf
    <3>1. a.entries = f /\ a.eof = eof /\ a.verf = verf
      BY <2>1
    <3>2. f \in Seq(Int)
      BY <1>8
    <3>3. [at |-> "answer", stat |-> "OK", entries |-> f, eof |-> eof, verf |-> verf] \in Pages
      BY <1>0, <3>2, Zenon DEF Pages
    <3> QED
      BY <2>1, <3>1, <3>3
  <2> QED
    BY <2>2, <2>3, <2>4, <2>5, Zenon DEF PageRight
<1> QED
  BY <1>11, <1>12

(* ListPage answers right.                                                 *)
LEMMA ListPageRight ==
  ASSUME NEW all \in Seq(Int), Len(all) >= 2, NEW q \in Requests
  PROVE  PageRight(all, q.cookie, q.verf, ListPage(all, q))
<1> PICK c, v, d : c = q.cookie /\ v = q.verf /\ d = q.dircount
  OBVIOUS
<1>1. c \in Nat /\ d \in Nat /\ q.attr \in BOOLEAN /\ Len(all) \in Nat
  BY LenProperties DEF Requests
<1> PICK limit : limit = c + MaxResults(d)
  OBVIOUS
<1>2. limit \in Nat /\ limit > c
  <2>1. d \div 16 \in Nat
    BY <1>1
  <2>2. MaxResults(d) \in Nat /\ MaxResults(d) >= 1
    BY <2>1 DEF MaxResults
  <2> QED
    BY <1>1, <2>2
<1> PICK n : n = IF limit < 1 THEN 1 ELSE IF limit < Len(all) THEN limit ELSE Len(all)
  OBVIOUS
<1>3. n \in 0..Len(all) /\ (n = limit \/ n = Len(all))
  BY <1>1, <1>2
<1>p. PICK end \in BOOLEAN : end = (n = Len(all))
  OBVIOUS
<1> (end => n = Len(all)) /\ (~end => n # Len(all))
  BY <1>p
<1> PICK r : r = readdir(all, limit)
  OBVIOUS
<1>4. r.entries = SubSeq(all, 1, n) /\ r.end = end
  BY <1>p DEF readdir
<1>5. \A i \in 1..n : all[i] \in Int
  BY <1>1, <1>3, LenProperties
<1>6. Len(r.entries) = n
  BY <1>1, <1>3, <1>4, <1>5, SubSeqProperties
<1>7. CASE OutOfRange(r, c)
  <2>1. c > Len(all)
    BY <1>1, <1>2, <1>3, <1>4, <1>6, <1>7 DEF OutOfRange
  <2>2. ListPage(all, q) = Refusal("BAD_COOKIE", q.attr)
    BY <1>7 DEF ListPage
  <2> QED
    BY <1>1, <2>1, <2>2 DEF Refusal, Refusals, PageRight
<1>8. CASE ~OutOfRange(r, c)
  <2>1. c <= n
    BY <1>1, <1>3, <1>4, <1>6, <1>8 DEF OutOfRange
  <2> PICK e : e = SubSeq(SubSeq(all, 1, n), c + 1, n)
    OBVIOUS
  <2>2. ListPage(all, q) = Page(e, end, q)
    BY <1>4, <1>6, <1>8 DEF ListPage, From
  <2>3. PageRight(all, c, v, Page(e, end, q))
    BY <1>1, <1>3, <2>1, PageFits, ZenonT(30)
  <2> QED
    BY <2>2, <2>3
<1> QED
  BY <1>7, <1>8

------------------------------------------------------------------------------
(* The shape of the state.                                                 *)

(* The present is the last version of the past.                            *)
LEMMA PresentFacts ==
  ASSUME PastOK
  PROVE  /\ Len(past) \in Nat /\ Len(past) \in DOMAIN past /\ DOMAIN past = 1..Len(past)
         /\ mtime \in Times /\ mtime \in Nat
         /\ dir \in SUBSET Names /\ past[Len(past)].dir = dir
         /\ \A i \in DOMAIN past : past[i].dir \in SUBSET Names /\ past[i].mtime \in Nat
<1>1. Len(past) \in Nat /\ DOMAIN past = 1..Len(past) /\ Len(past) \in DOMAIN past
  BY LenProperties DEF PastOK
<1>2. \A i \in DOMAIN past : past[i] \in History
  BY <1>1, ElementOfSeq DEF PastOK
<1>3. \A i \in DOMAIN past : past[i].dir \in SUBSET Names /\ past[i].mtime \in Times
  BY <1>2 DEF History
<1> QED
  BY <1>1, <1>3, PagingAssumption DEF PastOK, mtime

(* A change adds a version.                                                *)
LEMMA ChangeFacts ==
  ASSUME PastOK, Change
  PROVE  /\ PastOK'
         /\ Len(past') = Len(past) + 1
         /\ DOMAIN past' = DOMAIN past \cup {Len(past) + 1}
         /\ \A i \in DOMAIN past : past'[i] = past[i]
<1> USE PresentFacts
<1>1. PICK n \in Names : dir' = (dir \ {n}) \cup ({n} \ dir)
  BY DEF Change
<1>2. dir' \in SUBSET Names
  BY <1>1
<1>3. PICK t \in Times : past' = Append(past, [dir |-> dir', mtime |-> t])
  BY DEF Change
<1>p. PICK h : h = [dir |-> dir', mtime |-> t]
  OBVIOUS
<1>4. h \in History /\ h.dir = dir'
  BY <1>2, <1>p DEF History
<1>5. past \in Seq(History)
  BY DEF PastOK
<1>6. past' = Append(past, h)
  BY <1>3, <1>p
<1>7. /\ past' \in Seq(History) /\ Len(past') = Len(past) + 1
      /\ \A i \in 1..Len(past) : past'[i] = past[i]
      /\ past'[Len(past) + 1] = h
  BY <1>4, <1>5, <1>6, AppendProperties
<1>8. DOMAIN past' = 1..(Len(past) + 1)
  BY <1>7, LenProperties
<1>9. past'[Len(past')].dir = dir'
  BY <1>4, <1>7
<1>10. PastOK'
  BY <1>7, <1>9 DEF PastOK
<1> QED
  BY <1>7, <1>8, <1>10

(* The four kinds of states of a request are told apart by their fields.   *)
LEMMA Kinds ==
  /\ \A x \in Requests : x.at \in {"stat", "list"} /\ x # Idle /\ x \notin Pages /\ x \notin Refusals
  /\ \A x \in Pages : x.at = "answer" /\ x.stat = "OK" /\ x # Idle /\ x \notin Refusals
  /\ \A x \in Refusals : x.at = "answer" /\ x.stat \in {"BAD_COOKIE", "TOOSMALL"} /\ x # Idle
  /\ Idle.at = "idle"
BY DEF Requests, Pages, Refusals, Idle

(* A request that is handled is answered from the directory as it is.      *)
LEMMA ListFacts ==
  ASSUME Shape, List
  PROVE  /\ server \in Requests /\ server.cookie = Len(client.got) /\ client.at = "wait"
         /\ PageRight(Listing(dir), Len(client.got), server.verf, server')
         /\ server' \in Pages \cup Refusals
         /\ UNCHANGED <<dir, past, client, failures>>
<1>1. server \in Requests /\ server.at = "list"
  BY Kinds DEF Shape, ServerOK, List
<1>2. dir \in SUBSET Names
  BY PresentFacts DEF Shape
<1>3. Listing(dir) \in Seq(Int) /\ Len(Listing(dir)) >= 2
  BY <1>2, ListingType
<1>4. PageRight(Listing(dir), server.cookie, server.verf, ListPage(Listing(dir), server))
  BY <1>1, <1>3, ListPageRight
<1>5. server.cookie = Len(client.got) /\ client.at = "wait"
  BY <1>1, Kinds DEF Shape, ServerOK, ClientOK
<1> QED
  BY <1>1, <1>4, <1>5 DEF List, PageRight

(* The client is at the step of its listing that the server's state says.  *)
LEMMA ClientFields ==
  ASSUME ClientOK
  PROVE  /\ client.at \in {"ask", "wait", "done"} /\ client.got \in Seq(Int)
         /\ Len(client.got) \in Nat /\ client.cookie \in Nat /\ client.verf \in Verifiers
         /\ client.began \in Nat /\ client.page \in Nat /\ client.larger \in BOOLEAN
<1>1. /\ client.at \in {"ask", "wait", "done"} /\ client.got \in Seq(Int)
      /\ client.cookie \in Nat /\ client.verf \in Verifiers
      /\ client.began \in Nat /\ client.page \in Nat /\ client.larger \in BOOLEAN
  BY DEF ClientOK, Listings
<1> QED
  BY <1>1, LenProperties

(* A sequence e is put behind the sequence g.                              *)
LEMMA Joined ==
  ASSUME NEW g \in Seq(Int), NEW e \in Seq(Int), NEW h, h = g \o e
  PROVE  /\ h \in Seq(Int)
         /\ Len(g) \in Nat /\ Len(e) \in Nat
         /\ Len(h) = Len(g) + Len(e)
         /\ Len(e) <= Len(h)
         /\ Len(h) - Len(e) = Len(g)
         /\ Len(g) + Len(e) \in Nat
         /\ \A k \in 1..Len(g) : h[k] = g[k]
         /\ \A k \in 1..Len(e) : h[Len(g) + k] = e[k]
<1>1. Len(g) \in Nat /\ Len(e) \in Nat
  BY LenProperties
<1>2. /\ h \in Seq(Int)
      /\ Len(h) = Len(g) + Len(e)
      /\ \A i \in 1..(Len(g) + Len(e)) : h[i] = IF i <= Len(g) THEN g[i] ELSE e[i - Len(g)]
  BY ConcatProperties
<1> PICK n, m : n = Len(g) /\ m = Len(e)
  OBVIOUS
<1>3. \A k \in 1..n : h[k] = g[k]
  BY <1>1, <1>2
<1>4. ASSUME NEW k \in 1..m PROVE h[n + k] = e[k]
  <2>1. n + k \in 1..(n + m) /\ ~(n + k <= n) /\ n + k - n = k
    BY <1>1
  <2> QED
    BY <1>2, <2>1
<1> QED
  BY <1>1, <1>2, <1>3, <1>4

(* The client takes a page.                                                *)
LEMMA TakeFacts ==
  ASSUME Shape, Take
  PROVE  /\ server \in Pages /\ client.at = "wait"
         /\ client.got \in Seq(Int) /\ server.entries \in Seq(Int)
         /\ client' \in Listings
         /\ client'.got = client.got \o server.entries
         /\ client'.page = Len(server.entries)
         /\ client'.cookie = Len(client'.got)
         /\ client'.verf = server.verf
         /\ client'.began = client.began
         /\ client'.blind = (client.blind \/ server.verf = 0)
         /\ client'.at = IF server.eof THEN "done" ELSE "ask"
         /\ server' = Idle
         /\ UNCHANGED <<dir, past, failures>>
<1>1. server \in Pages /\ client.at = "wait"
  BY Kinds DEF Shape, ServerOK, Take
<1>2. server.entries \in Seq(Int) /\ server.verf \in Verifiers
  BY <1>1 DEF Pages
<1>3. client.got \in Seq(Int)
  BY ClientFields DEF Shape
<1>p. PICK g, e, h : g = client.got /\ e = server.entries /\ h = client.got \o server.entries
  OBVIOUS
<1>4. h \in Seq(Int) /\ Len(h) = Len(g) + Len(e) /\ Len(g) + Len(e) \in Nat /\ Len(e) \in Nat
  <2>1. g \in Seq(Int) /\ e \in Seq(Int) /\ h = g \o e
    BY <1>2, <1>3, <1>p
  <2> QED
    BY <2>1, Joined
<1>5. client \in Listings /\ client.cookie = Len(g)
  BY <1>p DEF Shape, ClientOK
<1>6. /\ client'.got = h
      /\ client'.page = Len(e)
      /\ client'.cookie = client.cookie + Len(e)
      /\ client'.verf = server.verf
      /\ client'.began = client.began
      /\ client'.blind = (client.blind \/ server.verf = 0)
      /\ client'.at = IF server.eof THEN "done" ELSE "ask"
      /\ server' = Idle
      /\ UNCHANGED <<dir, past, failures>>
  BY <1>5, <1>p DEF Take, Listings
<1>7. client' \in Listings
  <2>1. PICK at \in {"ask", "done"} : at = IF server.eof THEN "done" ELSE "ask"
    OBVIOUS
  <2>2. PICK x \in Nat : x = Len(e)
    BY <1>4
  <2>3. PICK y \in Nat : y = client.cookie + Len(e)
    BY <1>4, <1>5
  <2>b. PICK b \in BOOLEAN : b = (client.blind \/ server.verf = 0)
    OBVIOUS
  <2>4. client' = [client EXCEPT !.at = at, !.got = h, !.page = x, !.cookie = y,
                                 !.verf = server.verf, !.blind = b, !.larger = FALSE]
    BY <1>p, <2>1, <2>2, <2>3, <2>b DEF Take
  <2> QED
    BY <1>2, <1>4, <1>5, <2>4 DEF Listings
<1>8. client'.cookie = Len(client'.got)
  BY <1>4, <1>5, <1>6
<1> QED
  BY <1>1, <1>2, <1>3, <1>6, <1>7, <1>8, <1>p

(* Every step keeps the shape of the state.                                *)
LEMMA ShapeStep == Shape /\ [Next]_vars => Shape'
<1> SUFFICES ASSUME Shape, [Next]_vars PROVE Shape'
  OBVIOUS
<1> PastOK /\ ClientOK /\ ServerOK
  BY DEF Shape
<1> USE PresentFacts, ClientFields, Kinds
<1>1. CASE UNCHANGED vars
  BY <1>1 DEF vars, Shape, PastOK, ClientOK, ServerOK, mtime
<1>2. CASE Change
  <2>1. PastOK' /\ Len(past') = Len(past) + 1 /\ UNCHANGED <<client, server, failures>>
    BY <1>2, ChangeFacts DEF Change
  <2>2. ClientOK'
    BY <2>1 DEF ClientOK
  <2>3. ServerOK'
    BY <2>1 DEF ServerOK
  <2> QED
    BY <2>1, <2>2, <2>3 DEF Shape
<1>3. CASE Ask
  <2>1. UNCHANGED <<dir, past, failures>>
    BY <1>3 DEF Ask
  <2>2. PastOK'
    BY <2>1 DEF PastOK
  <2>3. /\ client.at = "ask"
        /\ client' = [client EXCEPT !.at = "wait", !.began = IF @ = 0 THEN Len(past) ELSE @]
    BY <1>3 DEF Ask
  <2>4. PICK dircount \in Nat, room \in Nat :
            server' = [at |-> "stat", cookie |-> client.cookie, verf |-> client.verf,
                       attr |-> FALSE, dircount |-> dircount, room |-> room]
    BY <1>3, PagingAssumption DEF Ask
  <2>5. /\ server' \in Requests /\ server'.at = "stat" /\ server'.cookie = client.cookie
        /\ server'.verf = client.verf
    BY <2>4 DEF Requests
  <2>6. /\ client' \in Listings /\ client'.at = "wait" /\ client'.got = client.got
        /\ client'.cookie = client.cookie /\ client'.verf = client.verf
        /\ client'.page = client.page
        /\ client'.began = IF client.began = 0 THEN Len(past) ELSE client.began
    BY <2>3 DEF ClientOK, Listings
  <2>7. ClientOK'
    BY <2>1, <2>2, <2>6 DEF ClientOK
  <2>8. ServerOK'
    BY <2>1, <2>5, <2>6 DEF ServerOK, ClientOK
  <2> QED
    BY <2>2, <2>7, <2>8 DEF Shape
<1>4. CASE Stat
  <2>1. UNCHANGED <<dir, past, client>> /\ server.at = "stat" /\ failures' \in 0..MaxFailures
    <3>1. failures \in 0..MaxFailures /\ MaxFailures \in Nat
      BY PagingAssumption DEF ServerOK
    <3>2. failures' = failures \/ (failures < MaxFailures /\ failures' = failures + 1)
      BY <1>4 DEF Stat
    <3>3. failures' \in 0..MaxFailures
      BY <3>1, <3>2
    <3> QED
      BY <1>4, <3>3 DEF Stat
  <2>2. PastOK' /\ ClientOK'
    BY <2>1 DEF PastOK, ClientOK
  <2>3. server \in Requests
    BY <2>1 DEF ServerOK
  <2>4. PICK v \in Verifiers, attr \in BOOLEAN : server' = Checked(v, attr)
    BY <1>4 DEF Stat, Verifiers
  <2>5. CASE server' = Refusal("BAD_COOKIE", attr)
    <3>1. server' \in Refusals
      BY <2>5 DEF Refusal, Refusals
    <3> QED
      BY <2>1, <2>2, <3>1 DEF ServerOK, Shape
  <2>6. CASE server' = [server EXCEPT !.at = "list", !.verf = v, !.attr = attr]
    <3>1. server' \in Requests /\ server'.at = "list" /\ server'.cookie = server.cookie
      BY <2>3, <2>6 DEF Requests
    <3>2. server'.cookie = client.cookie /\ client.at = "wait"
      BY <2>1, <2>3, <3>1 DEF ServerOK
    <3> QED
      BY <2>1, <2>2, <3>1, <3>2 DEF ServerOK, Shape
  <2> QED
    BY <2>4, <2>5, <2>6 DEF Checked
<1>5. CASE List
  <2>1. /\ server \in Requests /\ client.at = "wait"
        /\ PageRight(Listing(dir), Len(client.got), server.verf, server')
        /\ server' \in Pages \cup Refusals
        /\ UNCHANGED <<dir, past, client, failures>>
    BY <1>5, ListFacts
  <2>2. PastOK' /\ ClientOK'
    BY <2>1 DEF PastOK, ClientOK
  <2>3. Len(Listing(dir)) \in Nat /\ Len(Listing(dir)) <= Limit /\ Limit \in Nat
    BY ListingType
  <2>4. ASSUME server' \in Pages
        PROVE  Len(client.got) + Len(server'.entries) <= Limit
    <3>1. Len(client.got) + Len(server'.entries) <= Len(Listing(dir))
      BY <2>1, <2>4 DEF PageRight
    <3>2. server'.entries \in Seq(Int) /\ client.got \in Seq(Int)
      BY <2>4 DEF Pages
    <3>3. Len(client.got) + Len(server'.entries) \in Nat
      BY <3>2, Joined
    <3>p. PICK n, l : n = Len(client.got) + Len(server'.entries) /\ l = Len(Listing(dir))
      OBVIOUS
    <3>4. n \in Nat /\ l \in Nat /\ Limit \in Nat /\ n <= l /\ l <= Limit
      BY <2>3, <3>1, <3>3, <3>p
    <3>5. n <= Limit
      BY <3>4
    <3> QED
      BY <3>5, <3>p
  <2> QED
    BY <2>1, <2>2, <2>4 DEF ServerOK, Shape
<1>6. CASE Take
  <2>1. UNCHANGED <<dir, past, failures>>
    BY <1>6 DEF Take
  <2>2. PastOK'
    BY <2>1 DEF PastOK
  <2>3. /\ server \in Pages /\ client' \in Listings
        /\ client.got \in Seq(Int) /\ server.entries \in Seq(Int)
        /\ client'.got = client.got \o server.entries
        /\ client'.page = Len(server.entries)
        /\ client'.cookie = Len(client'.got)
        /\ client'.verf = server.verf
        /\ client'.began = client.began
        /\ client'.at \in {"ask", "done"}
        /\ server' = Idle
        /\ client.began >= 1
    BY <1>6, TakeFacts DEF ClientOK
  <2>4. client'.page <= Len(client'.got) /\ Len(client'.got) = Len(client.got) + Len(server.entries)
    <3>1. PICK g, e, h : g = client.got /\ e = server.entries /\ h = client'.got
      OBVIOUS
    <3>2. g \in Seq(Int) /\ e \in Seq(Int) /\ h = g \o e
      BY <2>3, <3>1
    <3>3. Len(e) <= Len(h) /\ Len(h) = Len(g) + Len(e)
      BY <3>2, Joined
    <3> QED
      BY <2>3, <3>1, <3>3
  <2>5. ClientOK'
    <3>1. Len(client'.got) <= Limit
      BY <2>3, <2>4 DEF ServerOK
    <3>2. client'.began <= Len(past) /\ client'.began >= 1
      BY <2>3 DEF ClientOK
    <3>3. client'.began # 0
      BY <2>3, <3>2
    <3>4. Len(past') = Len(past)
      BY <2>1
    <3> QED
      BY <2>2, <2>3, <2>4, <3>1, <3>2, <3>3, <3>4, Zenon DEF ClientOK
  <2>6. ServerOK'
    BY <2>1, <2>3 DEF ServerOK
  <2> QED
    BY <2>2, <2>5, <2>6 DEF Shape
<1>7. CASE Restart \/ Enlarge
  <2>1. UNCHANGED <<dir, past, failures>> /\ server' = Idle
    BY <1>7 DEF Restart, Enlarge
  <2>2. PastOK'
    BY <2>1 DEF PastOK
  <2>3. ClientOK' /\ client'.at = "ask"
    <3>1. CASE client' = Begin
      <4>1. /\ client' \in Listings /\ client'.at = "ask" /\ client'.got = <<>>
            /\ client'.cookie = 0 /\ client'.verf = 0 /\ client'.page = 0 /\ client'.began = 0
        BY <3>1, EmptySeq DEF Begin, Listings, Verifiers
      <4>2. Limit \in Nat /\ Len(client'.got) = 0
        BY <4>1, ListingType, EmptySeq
      <4> QED
        BY <2>1, <2>2, <4>1, <4>2 DEF ClientOK
    <3>2. CASE client' = [client EXCEPT !.at = "ask", !.larger = TRUE]
      <4>1. /\ client' \in Listings /\ client'.at = "ask" /\ client'.got = client.got
            /\ client'.cookie = client.cookie /\ client'.verf = client.verf
            /\ client'.page = client.page /\ client'.began = client.began
        BY <3>2 DEF ClientOK, Listings
      <4> QED
        BY <2>1, <2>2, <4>1 DEF ClientOK
    <3> QED
      BY <1>7, <3>1, <3>2 DEF Restart, Enlarge
  <2>4. ServerOK'
    BY <2>1, <2>3 DEF ServerOK
  <2> QED
    BY <2>2, <2>3, <2>4 DEF Shape
<1> QED
  BY <1>1, <1>2, <1>3, <1>4, <1>5, <1>6, <1>7 DEF Next

(* The initial state has this shape.                                       *)
LEMMA ShapeInit == Init => Shape
<1> SUFFICES ASSUME Init PROVE Shape
  OBVIOUS
<1>1. PICK t \in Times : past = <<[dir |-> dir, mtime |-> t]>>
  BY DEF Init
<1>p. PICK h : h = [dir |-> dir, mtime |-> t]
  OBVIOUS
<1>2. h \in History /\ h.dir = dir
  BY <1>p DEF Init, History
<1>3. past = <<h>>
  BY <1>1, <1>p
<1>4. past \in Seq(History) /\ Len(past) = 1 /\ past[1] = h /\ DOMAIN past = {1}
  BY <1>2, <1>3
<1>5. PastOK
  BY <1>2, <1>4 DEF PastOK, History
<1>6. /\ client \in Listings /\ client.at = "ask" /\ client.got = <<>>
      /\ client.cookie = 0 /\ client.verf = 0 /\ client.page = 0 /\ client.began = 0
  BY EmptySeq DEF Init, Begin, Listings, Verifiers
<1>7. Limit \in Nat /\ Len(client.got) = 0
  BY <1>5, <1>6, PresentFacts, ListingType, EmptySeq
<1>8. ClientOK
  BY <1>4, <1>6, <1>7 DEF ClientOK
<1>9. ServerOK
  BY <1>6, Kinds, PagingAssumption DEF Init, ServerOK
<1> QED
  BY <1>5, <1>8, <1>9 DEF Shape

(* However pages and changes come, the listing and the request have their  *)
(* types, and the client never has more entries than the directory can.    *)
THEOREM ListingTypeCorrect == Spec => []TypeOK
<1>1. Spec => []Shape
  BY ShapeInit, ShapeStep, PTL DEF Spec
<1>2. Shape => TypeOK
  BY PresentFacts, ClientFields, Kinds DEF Shape, ClientOK, ServerOK, TypeOK, Limit, Verifiers
<1> QED
  BY <1>1, <1>2, PTL

------------------------------------------------------------------------------
(* The pages of a listing.                                                 *)

(* A change leaves what was known of the versions so far.                  *)
LEMMA ChangeKeeps ==
  ASSUME PastOK, Change, NEW s, NEW n, NEW v
  PROVE  /\ Holds(s, n, v) => Holds(s, n, v)'
         /\ Follows(s, n, v) => Follows(s, n, v)'
         /\ Continues(s, n, v) => Continues(s, n, v)'
<1>0. Versions(v) \subseteq Versions(v)'
  BY ChangeFacts DEF Versions
<1>1. /\ DOMAIN past' = DOMAIN past \cup {Len(past) + 1}
      /\ \A i \in DOMAIN past : past'[i] = past[i]
  BY ChangeFacts
<1>2. ASSUME Holds(s, n, v) PROVE Holds(s, n, v)'
  <2>1. Versions(v) \subseteq Versions(v)' /\ Versions(v) \subseteq DOMAIN past
    BY <1>1 DEF Versions
  <2>2. ASSUME NEW i, Versions(v)' = {i} PROVE Agrees(s, n, i)'
    <3>1. Versions(v) = {i} /\ i \in DOMAIN past
      BY <1>2, <2>1, <2>2 DEF Holds
    <3>2. Agrees(s, n, i)
      BY <1>2, <3>1 DEF Holds
    <3>3. past'[i] = past[i]
      BY <1>1, <3>1
    <3> QED
      BY <3>2, <3>3 DEF Agrees
  <2> QED
    BY <1>2, <2>1, <2>2 DEF Holds
<1>3. Follows(s, n, v) => Follows(s, n, v)'
  BY <1>0, <1>1 DEF Follows
<1>4. Continues(s, n, v) => Continues(s, n, v)'
  BY <1>0, <1>1 DEF Continues
<1> QED
  BY <1>2, <1>3, <1>4

(* At the check of the verifier: the version the client holds is the       *)
(* present one, so that its last page is of this version as well.          *)
LEMMA VerifierTells ==
  ASSUME Shape, PagesInv, ~client.blind, mtime # 0, client.verf = 0 \/ client.verf = mtime
  PROVE  Holds(client.got, Len(client.got), mtime)
<1> PastOK /\ ClientOK /\ ClientFits
  BY DEF Shape, PagesInv
<1>1. /\ Len(past) \in Nat /\ Len(past) \in DOMAIN past /\ DOMAIN past = 1..Len(past)
      /\ mtime \in Nat
      /\ \A i \in DOMAIN past : past[i].dir \in SUBSET Names /\ past[i].mtime \in Nat
  BY PresentFacts
<1>4. Len(past) \in Versions(mtime)
  BY <1>1 DEF Versions, mtime
<1>p. PICK g, v, n : g = client.got /\ v = client.verf /\ n = Len(client.got) - client.page
  OBVIOUS
<1>5. g \in Seq(Int) /\ Len(g) \in Nat /\ n \in Nat /\ n <= Len(g)
  BY <1>p, ClientFields DEF ClientOK
<1>6. ASSUME NEW i, Versions(mtime) = {i} PROVE Agrees(g, Len(g), i)
  <2>1. i \in DOMAIN past /\ past[i].mtime = mtime
    BY <1>6 DEF Versions
  <2>2. Len(Listing(past[i].dir)) \in Nat
    BY <1>1, <2>1, ListingType
  <2>3. CASE v = 0
    <3>1. g = <<>>
      BY <1>p, <2>3 DEF ClientFits
    <3>2. Len(g) = 0
      BY <3>1, EmptySeq
    <3> QED
      BY <2>2, <3>2 DEF Agrees
  <2>4. CASE v = mtime
    <3>1. Holds(g, n, v) /\ Follows(g, n, v)
      BY <1>p, <2>4 DEF ClientFits
    <3>2. Agrees(g, n, i)
      BY <1>6, <2>4, <3>1 DEF Holds
    <3>3. PICK f \in Versions(v), j \in DOMAIN past :
              /\ f <= j
              /\ Len(g) <= Len(Listing(past[j].dir))
              /\ \A k \in (n + 1)..Len(g) : g[k] = Listing(past[j].dir)[k]
      BY <3>1 DEF Follows
    <3>4. f = i /\ Len(past) = i
      BY <1>4, <1>6, <2>4, <3>3
    <3>5. j = i
      BY <1>1, <3>3, <3>4
    <3>6. ASSUME NEW k \in 1..Len(g) PROVE g[k] = Listing(past[i].dir)[k]
      <4>1. k \in 1..n \/ k \in (n + 1)..Len(g)
        BY <1>5
      <4> QED
        BY <3>2, <3>3, <3>5, <4>1 DEF Agrees
    <3> QED
      BY <3>3, <3>5, <3>6 DEF Agrees
  <2> QED
    BY <1>p, <2>3, <2>4
<1> QED
  BY <1>4, <1>6, <1>p DEF Holds

(* A page that is taken is the last one from then on.                      *)
LEMMA TakenFits ==
  ASSUME NEW g \in Seq(Int), NEW e \in Seq(Int), NEW h, h = g \o e, NEW v,
         Holds(g, Len(g), v), Continues(e, Len(g), v)
  PROVE  Holds(h, Len(g), v) /\ Follows(h, Len(g), v)
<1>1. /\ h \in Seq(Int) /\ Len(g) \in Nat /\ Len(e) \in Nat
      /\ Len(h) = Len(g) + Len(e)
      /\ \A k \in 1..Len(g) : h[k] = g[k]
      /\ \A k \in 1..Len(e) : h[Len(g) + k] = e[k]
  BY Joined
<1>2. Holds(h, Len(g), v)
  BY <1>1 DEF Holds, Agrees
<1>3. PICK i \in Versions(v), j \in DOMAIN past :
          /\ i <= j
          /\ Len(g) + Len(e) <= Len(Listing(past[j].dir))
          /\ \A k \in 1..Len(e) : e[k] = Listing(past[j].dir)[Len(g) + k]
  BY DEF Continues
<1>4. ASSUME NEW k \in (Len(g) + 1)..Len(h) PROVE h[k] = Listing(past[j].dir)[k]
  <2>p. PICK n, l : n = Len(g) /\ l = k - Len(g)
    OBVIOUS
  <2>1. l \in 1..Len(e) /\ n + l = k
    BY <1>1, <2>p
  <2>2. h[n + l] = e[l] /\ e[l] = Listing(past[j].dir)[n + l]
    BY <1>1, <1>3, <2>1, <2>p
  <2> QED
    BY <2>1, <2>2
<1> QED
  BY <1>1, <1>2, <1>3, <1>4 DEF Follows

(* A step that leaves the directory alone, and of the client at most       *)
(* where it is in its listing.                                             *)
LEMMA ClientKept ==
  ASSUME UNCHANGED past, client'.got = client.got, client'.page = client.page,
         client'.verf = client.verf
  PROVE  /\ ClientFits' <=> ClientFits
         /\ \A s, n, v : Holds(s, n, v)' <=> Holds(s, n, v)
         /\ \A s, n, v : Continues(s, n, v)' <=> Continues(s, n, v)
BY DEF ClientFits, Holds, Follows, Continues, Agrees, Versions

(* No step breaks the listing's pages.                                     *)
LEMMA PagesStep == Shape /\ PagesInv /\ [Next]_vars => PagesInv'
<1> SUFFICES ASSUME Shape, PagesInv, [Next]_vars, ~client'.blind PROVE ClientFits' /\ ServerFits'
  BY DEF PagesInv
<1> PastOK /\ ClientOK /\ ServerOK
  BY DEF Shape
<1>a. /\ Len(past) \in Nat /\ Len(past) \in DOMAIN past /\ DOMAIN past = 1..Len(past)
      /\ past[Len(past)].dir = dir /\ dir \in SUBSET Names /\ mtime \in Nat
  BY PresentFacts
<1>1. CASE UNCHANGED vars
  <2>1. UNCHANGED <<past, client, server>>
    BY <1>1 DEF vars
  <2>2. ClientFits /\ ServerFits
    BY <2>1 DEF PagesInv
  <2> QED
    BY <2>1, <2>2, ClientKept DEF ServerFits
<1>2. CASE Change
  <2>1. UNCHANGED <<client, server>> /\ \A i \in DOMAIN past : past'[i] = past[i]
    BY <1>2, ChangeFacts DEF Change
  <2>4. ClientFits /\ ServerFits
    BY <2>1 DEF PagesInv
  <2>5. ClientFits'
    BY <1>2, <2>1, <2>4, ChangeKeeps DEF ClientFits
  <2>6. ServerFits'
    BY <1>2, <2>1, <2>4, ChangeKeeps DEF ServerFits
  <2> QED
    BY <2>5, <2>6
<1>3. CASE Ask
  <2>1. /\ UNCHANGED past
        /\ client' = [client EXCEPT !.at = "wait", !.began = IF @ = 0 THEN Len(past) ELSE @]
        /\ server'.at = "stat"
    BY <1>3 DEF Ask
  <2>2. /\ client'.got = client.got /\ client'.page = client.page /\ client'.verf = client.verf
        /\ client'.blind = client.blind
    BY <2>1 DEF ClientOK, Listings
  <2>3. ClientFits
    BY <2>2 DEF PagesInv
  <2>4. server'.at # "list" /\ server' \notin Pages
    BY <2>1, Kinds
  <2> QED
    BY <2>1, <2>2, <2>3, <2>4, ClientKept DEF ServerFits
<1>4. CASE Stat
  <2>1. UNCHANGED <<dir, past, client>> /\ server.at = "stat" /\ server \in Requests
    BY <1>4, Kinds DEF Stat, ServerOK
  <2>2. ClientFits /\ ~client.blind /\ mtime' = mtime
    BY <2>1 DEF PagesInv, mtime
  <2>3. ClientFits'
    BY <2>1, <2>2, ClientKept
  <2>4. PICK v \in {0, mtime}, attr \in BOOLEAN : server' = Checked(v, attr)
    BY <1>4 DEF Stat
  <2>5. CASE server' = Refusal("BAD_COOKIE", attr)
    <3>1. server'.at = "answer" /\ server'.stat = "BAD_COOKIE"
      BY <2>5 DEF Refusal
    <3>2. server'.at # "list" /\ server' \notin Pages
      BY <3>1, Kinds
    <3> QED
      BY <2>3, <3>2 DEF ServerFits
  <2>6. CASE /\ ~(server.verf # 0 /\ server.verf # v)
             /\ server' = [server EXCEPT !.at = "list", !.verf = v, !.attr = attr]
    <3>1. server' \in Requests /\ server'.verf = v
      BY <2>1, <2>6, PresentFacts DEF Requests, Verifiers
    <3>2. server' \notin Pages
      BY <3>1, Kinds
    <3>3. ASSUME v # 0 PROVE Holds(client.got, Len(client.got), v)'
      <4>1. v = mtime /\ mtime # 0 /\ (client.verf = 0 \/ client.verf = mtime)
        BY <2>1, <2>6, <3>3 DEF ServerOK
      <4>2. Holds(client.got, Len(client.got), v)
        BY <2>2, <4>1, VerifierTells
      <4> QED
        BY <2>1, <4>2 DEF Holds, Agrees, Versions
    <3> QED
      BY <2>1, <2>3, <3>1, <3>2, <3>3 DEF ServerFits
  <2> QED
    BY <2>4, <2>5, <2>6 DEF Checked
<1>5. CASE List
  <2>1. /\ server \in Requests /\ server.at = "list"
        /\ PageRight(Listing(dir), Len(client.got), server.verf, server')
        /\ server' \in Pages \cup Refusals
        /\ UNCHANGED <<dir, past, client>>
    BY <1>5, ListFacts DEF List
  <2>2. ClientFits /\ ServerFits
    BY <2>1 DEF PagesInv
  <2>3. ClientFits'
    BY <2>1, <2>2, ClientKept
  <2>4. server.verf # 0 => Holds(client.got, Len(client.got), server.verf)
    BY <2>1, <2>2 DEF ServerFits
  <2>5. server'.at # "list"
    BY <2>1, Kinds
  <2>6. ASSUME server' \in Pages PROVE ServerFits'
    <3>1. /\ server'.verf = server.verf
          /\ Len(client.got) + Len(server'.entries) <= Len(Listing(dir))
          /\ \A k \in 1..Len(server'.entries) : server'.entries[k] = Listing(dir)[Len(client.got) + k]
      BY <2>1, <2>6, Kinds DEF PageRight
    <3>p. PICK e, n, v : e = server'.entries /\ n = Len(client.got) /\ v = server.verf
      OBVIOUS
    <3>2. ASSUME v # 0 PROVE Continues(e, n, v)' /\ Holds(client.got, n, v)'
      <4>1. Holds(client.got, n, v)
        BY <2>4, <3>2, <3>p
      <4>2. PICK i \in Versions(v) : i <= Len(past)
        BY <1>a, <4>1 DEF Holds, Versions
      <4>3. Continues(e, n, v)
        BY <1>a, <3>1, <3>p, <4>2 DEF Continues
      <4>4. UNCHANGED past /\ client'.got = client.got
        BY <2>1
      <4> QED
        BY <4>1, <4>3, <4>4 DEF Continues, Holds, Agrees, Versions
    <3> QED
      BY <2>1, <3>1, <3>2, <3>p DEF ServerFits
  <2> QED
    BY <2>3, <2>5, <2>6 DEF ServerFits
<1>6. CASE Take
  <2>1. /\ server \in Pages
        /\ client.got \in Seq(Int) /\ server.entries \in Seq(Int)
        /\ client'.got = client.got \o server.entries
        /\ client'.page = Len(server.entries)
        /\ client'.verf = server.verf
        /\ client'.blind = (client.blind \/ server.verf = 0)
        /\ server' = Idle
        /\ UNCHANGED <<dir, past>>
    BY <1>6, TakeFacts
  <2>2. ServerFits /\ server.verf # 0
    BY <2>1 DEF PagesInv
  <2>p. PICK g, e, h, v : g = client.got /\ e = server.entries /\ h = client'.got /\ v = server.verf
    OBVIOUS
  <2>3. g \in Seq(Int) /\ e \in Seq(Int) /\ h = g \o e
    BY <2>1, <2>p
  <2>4. v # 0 /\ Holds(g, Len(g), v) /\ Continues(e, Len(g), v)
    BY <2>1, <2>2, <2>p DEF ServerFits
  <2>5. Holds(h, Len(g), v) /\ Follows(h, Len(g), v)
    BY <2>3, <2>4, TakenFits
  <2>6. Holds(h, Len(g), v)' /\ Follows(h, Len(g), v)'
    BY <2>1, <2>5 DEF Holds, Follows, Agrees, Versions
  <2>7. Len(h) - Len(e) = Len(g)
    BY <2>3, Joined
  <2>8. ClientFits'
    BY <2>1, <2>4, <2>6, <2>7, <2>p DEF ClientFits
  <2>9. server'.at # "list" /\ server' \notin Pages
    BY <2>1, Kinds
  <2> QED
    BY <2>8, <2>9 DEF ServerFits
<1>7. CASE Restart
  <2>1. client'.verf = 0 /\ client'.got = <<>> /\ server'.at # "list" /\ server' \notin Pages
    BY <1>7, Kinds DEF Restart, Begin
  <2> QED
    BY <2>1 DEF ClientFits, ServerFits
<1>8. CASE Enlarge
  <2>1. UNCHANGED past /\ client' = [client EXCEPT !.at = "ask", !.larger = TRUE] /\ server' = Idle
    BY <1>8 DEF Enlarge
  <2>2. /\ client'.got = client.got /\ client'.page = client.page /\ client'.verf = client.verf
        /\ client'.blind = client.blind
    BY <2>1 DEF ClientOK, Listings
  <2>3. ClientFits
    BY <2>1, <2>2 DEF PagesInv
  <2>4. server'.at # "list" /\ server' \notin Pages
    BY <2>1, Kinds
  <2> QED
    BY <2>1, <2>2, <2>3, <2>4, ClientKept DEF ServerFits
<1> QED
  BY <1>1, <1>2, <1>3, <1>4, <1>5, <1>6, <1>7, <1>8 DEF Next

(* However the directory changes under a listing, its pages up to the last *)
(* are the beginning of one version of the directory, if every page came   *)
(* with a version and the mtime tells versions apart.                      *)
THEOREM PagesFitTogether == Spec => []PagesFit
<1>1. Init => PagesInv
  BY Kinds DEF Init, Begin, PagesInv, ClientFits, ServerFits
<1>2. Spec => [](Shape /\ PagesInv)
  BY <1>1, ShapeInit, ShapeStep, PagesStep, PTL DEF Spec
<1>3. Shape /\ PagesInv => PagesFit
  <2> SUFFICES ASSUME Shape, PagesInv, ~client.blind,
                      Cardinality(Versions(client.verf)) = 1,
                      NEW i \in Versions(client.verf)
               PROVE  SubSeq(client.got, 1, Len(client.got) - client.page) =
                          SubSeq(Listing(past[i].dir), 1, Len(client.got) - client.page)
    BY DEF PagesFit, Versions
  <2>1. ClientFits
    BY DEF PagesInv
  <2>3. Versions(client.verf) = {i}
    <3>1. Versions(client.verf) \in SUBSET (1..Len(past)) /\ Len(past) \in Nat
      BY PresentFacts DEF Shape, Versions
    <3>2. IsFiniteSet(1..Len(past))
      BY <3>1, FS_Interval
    <3>3. IsFiniteSet(Versions(client.verf))
      BY <3>1, <3>2, FS_Subset
    <3>4. PICK x : Versions(client.verf) = {x}
      BY <3>3, FS_Singleton
    <3> QED
      BY <3>4
  <2>p. PICK g, n, L : g = client.got /\ n = Len(client.got) - client.page /\ L = Listing(past[i].dir)
    OBVIOUS
  <2>4. n \in Nat /\ n <= Len(g) /\ g \in Seq(Int)
    BY <2>p, ClientFields DEF Shape, ClientOK
  <2>5. L \in Seq(Int) /\ Len(L) \in Nat
    BY <2>p, PresentFacts, ListingType DEF Shape, Versions
  <2>6. n <= Len(L) /\ \A k \in 1..n : g[k] = L[k]
    <3>1. CASE client.verf = 0
      <4>1. Len(g) = 0
        BY <2>1, <2>p, <3>1, EmptySeq DEF ClientFits
      <4> QED
        BY <2>4, <2>5, <4>1
    <3>2. CASE client.verf # 0
      BY <2>1, <2>3, <2>p, <3>2 DEF ClientFits, Holds, Agrees
    <3> QED
      BY <3>1, <3>2
  <2>7. \A k \in 1..n : g[k] \in Int /\ L[k] \in Int
    BY <2>4, <2>5, <2>6
  <2>8. /\ SubSeq(g, 1, n) \in Seq(Int) /\ SubSeq(L, 1, n) \in Seq(Int)
        /\ Len(SubSeq(g, 1, n)) = n /\ Len(SubSeq(L, 1, n)) = n
        /\ \A k \in 1..n : SubSeq(g, 1, n)[k] = g[k] /\ SubSeq(L, 1, n)[k] = L[k]
    BY <2>4, <2>7, SubSeqProperties
  <2>9. SubSeq(g, 1, n) = SubSeq(L, 1, n)
    BY <2>4, <2>6, <2>8, SeqEqual
  <2> QED
    BY <2>9, <2>p
<1> QED
  BY <1>2, <1>3, PTL

------------------------------------------------------------------------------
(* The listing of a directory that nobody changes.                         *)

(* No step breaks a quiet listing.                                         *)
LEMMA QuietStep == Shape /\ QuietInv /\ [Next]_vars => QuietInv'
<1> SUFFICES ASSUME Shape, QuietInv, [Next]_vars, Quiet' PROVE QuietInv'
  BY DEF QuietInv
<1> PastOK /\ ClientOK /\ ServerOK
  BY DEF Shape
<1>a. /\ Len(past) \in Nat /\ Len(past) >= 1
      /\ past[Len(past)].dir = dir /\ dir \in SUBSET Names /\ mtime \in Nat
      /\ Listing(dir) \in Seq(Int) /\ Len(Listing(dir)) \in Nat
  BY PresentFacts, ListingType DEF PastOK
<1>1. CASE UNCHANGED vars
  BY <1>1 DEF vars, QuietInv, Quiet, Finished, Agrees, mtime
<1>2. CASE Change
  <2>1. client' = client /\ Len(past') = Len(past) + 1
    BY <1>2, ChangeFacts DEF Change
  <2>2. client.began <= Len(past) /\ client.began \in Nat
    BY ClientFields DEF ClientOK
  <2> QED
    BY <1>a, <2>1, <2>2 DEF Quiet
<1>3. CASE Ask
  <2>1. /\ UNCHANGED <<dir, past>>
        /\ client' = [client EXCEPT !.at = "wait", !.began = IF @ = 0 THEN Len(past) ELSE @]
    BY <1>3 DEF Ask
  <2>2. /\ client'.got = client.got /\ client'.verf = client.verf /\ client'.at = "wait"
        /\ client.began # 0 => client'.began = client.began
    BY <2>1 DEF ClientOK, Listings
  <2>3. server' \in Requests /\ server'.at = "stat"
    <3>1. PICK dircount \in Nat, room \in Nat :
              server' = [at |-> "stat", cookie |-> client.cookie, verf |-> client.verf,
                         attr |-> FALSE, dircount |-> dircount, room |-> room]
      BY <1>3, PagingAssumption DEF Ask
    <3> QED
      BY <3>1, ClientFields DEF Requests
  <2>4. Agrees(client.got, Len(client.got), Len(past)) /\ client.verf \in {0, mtime}
    <3>1. CASE client.began = 0
      <4>1. client.got = <<>> /\ client.verf = 0
        BY <3>1 DEF ClientOK
      <4>2. Len(client.got) = 0
        BY <4>1, EmptySeq
      <4> QED
        BY <1>a, <4>1, <4>2 DEF Agrees
    <3>2. CASE client.began # 0
      BY <2>1, <2>2, <3>2 DEF QuietInv, Quiet
    <3> QED
      BY <3>1, <3>2
  <2>5. server' \notin Refusals /\ server' \notin Pages
    BY <2>3, Kinds
  <2> QED
    BY <2>1, <2>2, <2>3, <2>4, <2>5 DEF QuietInv, Finished, Agrees, mtime
<1>4. CASE Stat
  <2>1. UNCHANGED <<dir, past, client>> /\ server.at = "stat" /\ server \in Requests
    BY <1>4, Kinds DEF Stat, ServerOK
  <2>2. Quiet /\ client.verf \in {0, mtime}
    BY <2>1 DEF QuietInv, Quiet
  <2>3. PICK v \in {0, mtime}, attr \in BOOLEAN :
            server' = Checked(v, attr) /\ (attr => v = mtime)
    BY <1>4 DEF Stat
  <2>4. server.verf \in {0, mtime}
    BY <2>1, <2>2 DEF ServerOK
  <2>5. CASE server' = [server EXCEPT !.at = "list", !.verf = v, !.attr = attr]
    <3>1. server' \in Requests /\ server'.verf \in {0, mtime}
      BY <2>1, <2>5, PresentFacts DEF Requests, Verifiers
    <3>2. server' \notin Refusals /\ server' \notin Pages
      BY <3>1, Kinds
    <3> QED
      BY <2>1, <2>2, <3>1, <3>2 DEF QuietInv, Finished, Agrees, mtime
  <2>6. CASE ~attr /\ server' = Refusal("BAD_COOKIE", attr)
    <3>1. server' \in Refusals /\ ~server'.attr
      BY <2>6 DEF Refusal, Refusals
    <3>2. server' \notin Requests /\ server' \notin Pages
      BY <3>1, Kinds
    <3> QED
      BY <2>1, <2>2, <3>1, <3>2 DEF QuietInv, Finished, Agrees, mtime
  <2> QED
    BY <2>3, <2>4, <2>5, <2>6 DEF Checked
<1>5. CASE List
  <2>1. /\ server \in Requests /\ server.at = "list" /\ client.at = "wait"
        /\ PageRight(Listing(dir), Len(client.got), server.verf, server')
        /\ server' \in Pages \cup Refusals
        /\ UNCHANGED <<dir, past, client>>
    BY <1>5, ListFacts DEF List
  <2>2. Quiet /\ server.verf \in {0, mtime} /\ Agrees(client.got, Len(client.got), Len(past))
    BY <2>1 DEF QuietInv, Quiet
  <2>3. Len(client.got) <= Len(Listing(dir)) /\ Len(client.got) \in Nat
    BY <1>a, <2>2, ClientFields DEF Agrees
  <2>4. ASSUME server' \in Refusals PROVE server'.stat # "BAD_COOKIE"
    <3>1. server' \notin Pages
      BY <2>4, Kinds
    <3>2. server'.stat = "BAD_COOKIE" => Len(client.got) > Len(Listing(dir))
      BY <2>1, <3>1 DEF PageRight
    <3>3. ~(Len(client.got) > Len(Listing(dir)))
      BY <1>a, <2>3
    <3> QED
      BY <3>2, <3>3
  <2>5. server' \notin Requests
    BY <2>1, Kinds
  <2>6. ASSUME server' \in Pages
        PROVE  /\ server'.verf = server.verf
               /\ PageRight(Listing(dir), Len(client.got), server'.verf, server')
    BY <2>1, <2>6, Kinds DEF PageRight
  <2> QED
    BY <2>1, <2>2, <2>4, <2>5, <2>6 DEF QuietInv, Finished, Agrees, mtime
<1>6. CASE Take
  <2>1. /\ server \in Pages
        /\ client.got \in Seq(Int) /\ server.entries \in Seq(Int)
        /\ client'.got = client.got \o server.entries
        /\ client'.verf = server.verf
        /\ client'.began = client.began
        /\ client'.at = IF server.eof THEN "done" ELSE "ask"
        /\ server' = Idle
        /\ UNCHANGED <<dir, past>>
    BY <1>6, TakeFacts
  <2>2. /\ Agrees(client.got, Len(client.got), Len(past))
        /\ server.verf \in {0, mtime}
        /\ PageRight(Listing(dir), Len(client.got), server.verf, server)
    BY <2>1 DEF QuietInv, Quiet
  <2>p. PICK g, e, h, L : g = client.got /\ e = server.entries /\ h = client'.got /\ L = Listing(dir)
    OBVIOUS
  <2>3. g \in Seq(Int) /\ e \in Seq(Int) /\ h = g \o e
    BY <2>1, <2>p
  <2>4. /\ Len(g) \in Nat /\ Len(e) \in Nat /\ Len(h) = Len(g) + Len(e)
        /\ \A k \in 1..Len(g) : h[k] = g[k]
        /\ \A k \in 1..Len(e) : h[Len(g) + k] = e[k]
    BY <2>3, Joined
  <2>5. \A k \in 1..Len(g) : g[k] = L[k]
    BY <1>a, <2>2, <2>p DEF Agrees
  <2>6. /\ Len(g) + Len(e) <= Len(L)
        /\ \A k \in 1..Len(e) : e[k] = L[Len(g) + k]
        /\ server.eof => Len(g) + Len(e) = Len(L)
    BY <2>1, <2>2, <2>p, Kinds DEF PageRight
  <2>7. ASSUME NEW k \in 1..Len(h) PROVE h[k] = L[k]
    <3>1. CASE k <= Len(g)
      BY <2>4, <2>5, <3>1
    <3>2. CASE ~(k <= Len(g))
      <4>p. PICK n, l : n = Len(g) /\ l = k - Len(g)
        OBVIOUS
      <4>1. l \in 1..Len(e) /\ n + l = k
        BY <2>4, <3>2, <4>p
      <4>2. h[n + l] = e[l] /\ e[l] = L[n + l]
        BY <2>4, <2>6, <4>1, <4>p
      <4> QED
        BY <4>1, <4>2
    <3> QED
      BY <3>1, <3>2
  <2>8. Agrees(h, Len(h), Len(past))
    BY <1>a, <2>4, <2>6, <2>7, <2>p DEF Agrees
  <2>9. Finished' => Len(h) = Len(L)
    BY <2>1, <2>4, <2>6 DEF Finished
  <2>10. server' \notin Requests /\ server' \notin Refusals /\ server' \notin Pages
    BY <2>1, Kinds
  <2>11. Agrees(h, Len(h), Len(past))' /\ mtime' = mtime /\ Listing(dir)' = L
    BY <2>1, <2>8, <2>p DEF Agrees, mtime
  <2> QED
    BY <2>1, <2>2, <2>9, <2>10, <2>11, <2>p DEF QuietInv
<1>7. CASE Restart
  <2>1. client'.began = 0 /\ Len(past') = Len(past)
    BY <1>7 DEF Restart, Begin
  <2>2. client'.began = Len(past')
    BY DEF Quiet
  <2> QED
    BY <1>a, <2>1, <2>2
<1>8. CASE Enlarge
  <2>1. /\ UNCHANGED <<dir, past>>
        /\ client' = [client EXCEPT !.at = "ask", !.larger = TRUE] /\ server' = Idle
    BY <1>8 DEF Enlarge
  <2>2. /\ client'.got = client.got /\ client'.verf = client.verf
        /\ client'.began = client.began /\ client'.at = "ask"
    BY <2>1 DEF ClientOK, Listings
  <2>3. Agrees(client.got, Len(client.got), Len(past)) /\ client.verf \in {0, mtime}
    BY <2>1, <2>2 DEF QuietInv, Quiet
  <2>4. server' \notin Requests /\ server' \notin Refusals /\ server' \notin Pages
    BY <2>1, Kinds
  <2> QED
    BY <2>1, <2>2, <2>3, <2>4 DEF QuietInv, Finished, Agrees, mtime
<1> QED
  BY <1>1, <1>2, <1>3, <1>4, <1>5, <1>6, <1>7, <1>8 DEF Next

(* A listing during which nothing changed is the directory's, whatever the *)
(* sizes of its pages, and a cookie of it is refused only where getattr    *)
(* failed.                                                                 *)
THEOREM QuietComplete == Spec => []QuietListing
<1>1. Init => QuietInv
  <2> SUFFICES ASSUME Init, Quiet PROVE FALSE
    BY DEF QuietInv
  <2>1. client.began = 0
    BY DEF Init, Begin
  <2>2. Len(past) >= 1
    BY ShapeInit DEF Shape, PastOK
  <2> QED
    BY <2>1, <2>2 DEF Quiet
<1>2. Spec => [](Shape /\ QuietInv)
  BY <1>1, ShapeInit, ShapeStep, QuietStep, PTL DEF Spec
<1>3. Shape /\ QuietInv => QuietListing
  <2> SUFFICES ASSUME Shape, QuietInv, Quiet
               PROVE  /\ Finished => client.got = Listing(dir)
                      /\ server.at = "answer" /\ server.stat = "BAD_COOKIE" => ~server.attr
    BY DEF QuietListing
  <2>1. server.at = "answer" /\ server.stat = "BAD_COOKIE" => ~server.attr
    BY Kinds DEF Shape, ServerOK, QuietInv
  <2>2. ASSUME Finished PROVE client.got = Listing(dir)
    <3>p. PICK g, L : g = client.got /\ L = Listing(dir)
      OBVIOUS
    <3>1. past[Len(past)].dir = dir /\ dir \in SUBSET Names
      BY PresentFacts DEF Shape
    <3>2. g \in Seq(Int) /\ L \in Seq(Int)
      BY <3>1, <3>p, ListingType, ClientFields DEF Shape
    <3>3. Len(g) = Len(L) /\ \A k \in 1..Len(g) : g[k] = L[k]
      BY <2>2, <3>1, <3>p DEF QuietInv, Agrees
    <3>4. g = L
      BY <3>2, <3>3, SeqEqual
    <3> QED
      BY <3>4, <3>p
  <2> QED
    BY <2>1, <2>2
<1> QED
  BY <1>2, <1>3, PTL
==============================================================================

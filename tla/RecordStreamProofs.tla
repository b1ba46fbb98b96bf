--------------------------- MODULE RecordStreamProofs ---------------------------
(***************************************************************************)
(* Proofs about RecordStream, for any calls, codecs, sizes of fragments    *)
(* and limits: record marking implements the abstract channel, nothing is  *)
(* lost, and the client gets the replies whole and in order.               *)
(*                                                                         *)
(* Both directions carry fragments of numbered records.  The argument is   *)
(* about where a sequence of fragments leads: from a place in one record   *)
(* to a place in the same or a later one, with nothing left out.           *)
(***************************************************************************)
EXTENDS RecordStream, SequenceTheorems, TLAPS

Fragment == [last : BOOLEAN, data : Seq(Nat)]

\* f carries what the record r of R has after its first o bytes, to its end if it
\* says so.
Fits(f, R, r, o) ==
    /\ r \in DOMAIN R
    /\ o + Len(f.data) <= Len(R[r])
    /\ \A k \in 1..Len(f.data) : f.data[k] = R[r][o + k]
    /\ f.last => o + Len(f.data) = Len(R[r])

\* The place after a fragment at the place o of record r.
NextRecord(f, r) == IF f.last THEN r + 1 ELSE r
NextPlace(f, o) == IF f.last THEN 0 ELSE o + Len(f.data)

\* Each fragment lies at the place where the one before it ended.
Along(fs, R, rec, off) ==
    /\ rec \in [1..(Len(fs) + 1) -> Nat] /\ off \in [1..(Len(fs) + 1) -> Nat]
    /\ \A j \in 1..Len(fs) :
           /\ Fits(fs[j], R, rec[j], off[j])
           /\ rec[j + 1] = NextRecord(fs[j], rec[j])
           /\ off[j + 1] = NextPlace(fs[j], off[j])
    /\ \A j, l \in 1..(Len(fs) + 1) : j <= l => rec[j] <= rec[l]

\* The fragments lead from the place o of record r to the place p of record e.
Leads(fs, R, r, o, e, p) ==
    \E rec, off :
        /\ Along(fs, R, rec, off)
        /\ rec[1] = r /\ off[1] = o
        /\ rec[Len(fs) + 1] = e /\ off[Len(fs) + 1] = p

\* The places that fragments lead to.
LEMMA LeadsTyped ==
    ASSUME NEW fs \in Seq(Fragment), NEW R, NEW r, NEW o, NEW e, NEW p, Leads(fs, R, r, o, e, p)
    PROVE  r \in Nat /\ o \in Nat /\ e \in Nat /\ p \in Nat /\ r <= e
<1> PICK rec, off : /\ Along(fs, R, rec, off)
                    /\ rec[1] = r /\ off[1] = o
                    /\ rec[Len(fs) + 1] = e /\ off[Len(fs) + 1] = p
  BY DEF Leads
<1>1. 1 \in 1..(Len(fs) + 1) /\ Len(fs) + 1 \in 1..(Len(fs) + 1) /\ 1 <= Len(fs) + 1
  BY LenProperties
<1> QED
  BY <1>1 DEF Along

\* No fragments lead nowhere.
LEMMA LeadsNone ==
    ASSUME NEW R, NEW r \in Nat, NEW o \in Nat
    PROVE  /\ Leads(<<>>, R, r, o, r, o)
           /\ \A e, p : Leads(<<>>, R, r, o, e, p) => e = r /\ p = o
<1> DEFINE rec == [j \in 1..1 |-> r]
           off == [j \in 1..1 |-> o]
<1>1. Along(<<>>, R, rec, off)
  BY DEF Along
<1>2. rec[1] = r /\ off[1] = o /\ Len(<<>>) + 1 = 1
  OBVIOUS
<1>3. Leads(<<>>, R, r, o, r, o)
  BY <1>1, <1>2 DEF Leads
<1>4. \A e, p : Leads(<<>>, R, r, o, e, p) => e = r /\ p = o
  BY <1>2 DEF Leads
<1> QED
  BY <1>3, <1>4

\* The first fragment, and the rest.
LEMMA LeadsFirst ==
    ASSUME NEW fs \in Seq(Fragment), fs # <<>>, NEW R, NEW r, NEW o, NEW e, NEW p,
           Leads(fs, R, r, o, e, p)
    PROVE  /\ Fits(Head(fs), R, r, o)
           /\ NextRecord(Head(fs), r) <= e
           /\ Leads(Tail(fs), R, NextRecord(Head(fs), r), NextPlace(Head(fs), o), e, p)
<1> PICK rec, off : /\ Along(fs, R, rec, off)
                    /\ rec[1] = r /\ off[1] = o
                    /\ rec[Len(fs) + 1] = e /\ off[Len(fs) + 1] = p
  BY DEF Leads
<1> PICK n \in Nat : n = Len(fs)
  BY LenProperties
<1> PICK gs : gs = Tail(fs)
  OBVIOUS
<1>1. n >= 1 /\ Head(fs) = fs[1] /\ Len(gs) = n - 1 /\ \A j \in 1..(n - 1) : gs[j] = fs[j + 1]
  OBVIOUS
<1>2. /\ rec \in [1..(n + 1) -> Nat] /\ off \in [1..(n + 1) -> Nat]
      /\ \A j \in 1..n :
           /\ Fits(fs[j], R, rec[j], off[j])
           /\ rec[j + 1] = NextRecord(fs[j], rec[j])
           /\ off[j + 1] = NextPlace(fs[j], off[j])
      /\ \A j, l \in 1..(n + 1) : j <= l => rec[j] <= rec[l]
  BY DEF Along
<1> DEFINE rec2 == [j \in 1..n |-> rec[j + 1]]
           off2 == [j \in 1..n |-> off[j + 1]]
<1>3. Along(gs, R, rec2, off2)
  <2>1. Len(gs) + 1 = n
    BY <1>1
  <2>2. rec2 \in [1..n -> Nat] /\ off2 \in [1..n -> Nat]
    BY <1>2
  <2>3. ASSUME NEW j \in 1..(n - 1)
        PROVE  /\ Fits(gs[j], R, rec2[j], off2[j])
               /\ rec2[j + 1] = NextRecord(gs[j], rec2[j])
               /\ off2[j + 1] = NextPlace(gs[j], off2[j])
    <3>1. j \in 1..n /\ j + 1 \in 1..n /\ gs[j] = fs[j + 1]
      BY <1>1
    <3>2. rec2[j] = rec[j + 1] /\ off2[j] = off[j + 1]
          /\ rec2[j + 1] = rec[(j + 1) + 1] /\ off2[j + 1] = off[(j + 1) + 1]
      BY <3>1
    <3> QED
      BY <1>2, <3>1, <3>2
  <2>4. ASSUME NEW j \in 1..n, NEW l \in 1..n, j <= l PROVE rec2[j] <= rec2[l]
    <3>1. j + 1 \in 1..(n + 1) /\ l + 1 \in 1..(n + 1) /\ j + 1 <= l + 1
      BY <2>4
    <3>2. rec[j + 1] <= rec[l + 1]
      BY <1>2, <3>1
    <3> QED
      BY <3>2
  <2> QED
    BY <1>1, <2>1, <2>2, <2>3, <2>4 DEF Along
<1>4. /\ rec2[1] = NextRecord(Head(fs), r) /\ off2[1] = NextPlace(Head(fs), o)
      /\ rec2[n] = e /\ off2[n] = p
  <2>1. 1 \in 1..n /\ n \in 1..n
    BY <1>1
  <2>2. rec[1 + 1] = NextRecord(fs[1], rec[1]) /\ off[1 + 1] = NextPlace(fs[1], off[1])
    BY <1>2, <2>1
  <2> QED
    BY <1>1, <2>1, <2>2
<1>5. Leads(gs, R, NextRecord(Head(fs), r), NextPlace(Head(fs), o), e, p)
  <2>1. Len(gs) + 1 = n
    BY <1>1
  <2> HIDE DEF rec2, off2
  <2> QED
    BY <1>3, <1>4, <2>1 DEF Leads
<1>6. Fits(Head(fs), R, r, o) /\ NextRecord(Head(fs), r) <= e
  <2>1. 1 \in 1..n /\ 2 \in 1..(n + 1) /\ n + 1 \in 1..(n + 1) /\ 2 <= n + 1 /\ 1 + 1 = 2
    BY <1>1
  <2>2. rec[2] = NextRecord(fs[1], r) /\ rec[2] <= rec[n + 1] /\ Fits(fs[1], R, r, o)
    BY <1>2, <2>1
  <2> QED
    BY <1>1, <2>2
<1> QED
  BY <1>5, <1>6

\* A fragment that fits goes on.
LEMMA LeadsOn ==
    ASSUME NEW fs \in Seq(Fragment), NEW f \in Fragment, NEW R, NEW r, NEW o, NEW e, NEW p,
           Leads(fs, R, r, o, e, p), Fits(f, R, e, p)
    PROVE  Leads(Append(fs, f), R, r, o, NextRecord(f, e), NextPlace(f, p))
<1> PICK rec, off : /\ Along(fs, R, rec, off)
                    /\ rec[1] = r /\ off[1] = o
                    /\ rec[Len(fs) + 1] = e /\ off[Len(fs) + 1] = p
  BY DEF Leads
<1> PICK n \in Nat : n = Len(fs)
  BY LenProperties
<1> PICK gs : gs = Append(fs, f)
  OBVIOUS
<1>1. Len(gs) = n + 1 /\ gs[n + 1] = f /\ \A j \in 1..n : gs[j] = fs[j]
  OBVIOUS
<1>2. /\ rec \in [1..(n + 1) -> Nat] /\ off \in [1..(n + 1) -> Nat]
      /\ \A j \in 1..n :
           /\ Fits(fs[j], R, rec[j], off[j])
           /\ rec[j + 1] = NextRecord(fs[j], rec[j])
           /\ off[j + 1] = NextPlace(fs[j], off[j])
      /\ \A j, l \in 1..(n + 1) : j <= l => rec[j] <= rec[l]
  BY DEF Along
<1>3. PICK e2 \in Nat, p2 \in Nat : e2 = NextRecord(f, e) /\ p2 = NextPlace(f, p) /\ e <= e2
  <2>1. n + 1 \in 1..(n + 1)
    OBVIOUS
  <2>2. e \in Nat /\ p \in Nat /\ Len(f.data) \in Nat
    BY <1>2, <2>1, LenProperties DEF Fragment
  <2>3. NextRecord(f, e) \in Nat /\ e <= NextRecord(f, e)
    BY <2>2 DEF NextRecord
  <2>4. NextPlace(f, p) \in Nat
    BY <2>2 DEF NextPlace
  <2> QED
    BY <2>3, <2>4
<1> DEFINE rec2 == [j \in 1..(n + 2) |-> IF j = n + 2 THEN e2 ELSE rec[j]]
           off2 == [j \in 1..(n + 2) |-> IF j = n + 2 THEN p2 ELSE off[j]]
<1>4. Along(gs, R, rec2, off2)
  <2>1. Len(gs) + 1 = n + 2
    BY <1>1
  <2>2. rec2 \in [1..(n + 2) -> Nat] /\ off2 \in [1..(n + 2) -> Nat]
    BY <1>2
  <2>3. ASSUME NEW j \in 1..(n + 1)
        PROVE  /\ Fits(gs[j], R, rec2[j], off2[j])
               /\ rec2[j + 1] = NextRecord(gs[j], rec2[j])
               /\ off2[j + 1] = NextPlace(gs[j], off2[j])
    <3>1. CASE j = n + 1
      <4>1. /\ rec2[j] = rec[n + 1] /\ off2[j] = off[n + 1] /\ rec2[j + 1] = e2 /\ off2[j + 1] = p2
            /\ gs[j] = f
        BY <1>1, <3>1
      <4> QED
        BY <1>3, <4>1
    <3>2. CASE j # n + 1
      <4>1. j \in 1..n /\ j + 1 \in 1..(n + 1)
        BY <3>2
      <4>2. /\ rec2[j] = rec[j] /\ off2[j] = off[j]
            /\ rec2[j + 1] = rec[j + 1] /\ off2[j + 1] = off[j + 1] /\ gs[j] = fs[j]
        BY <1>1, <4>1
      <4> QED
        BY <1>2, <4>1, <4>2
    <3> QED
      BY <3>1, <3>2
  <2>4. ASSUME NEW j \in 1..(n + 2), NEW l \in 1..(n + 2), j <= l PROVE rec2[j] <= rec2[l]
    <3>1. CASE j = n + 2
      BY <2>4, <3>1
    <3>2. CASE j # n + 2 /\ l # n + 2
      BY <1>2, <2>4, <3>2
    <3>3. CASE j # n + 2 /\ l = n + 2
      <4>1. j \in 1..(n + 1) /\ n + 1 \in 1..(n + 1) /\ j <= n + 1
        BY <3>3
      <4>2. rec[j] <= rec[n + 1] /\ rec[j] \in Nat /\ rec[n + 1] \in Nat
        BY <1>2, <4>1
      <4> QED
        BY <1>3, <3>3, <4>2
    <3> QED
      BY <3>1, <3>2, <3>3
  <2> QED
    BY <1>1, <2>1, <2>2, <2>3, <2>4 DEF Along
<1>5. rec2[1] = r /\ off2[1] = o /\ rec2[n + 2] = e2 /\ off2[n + 2] = p2
  OBVIOUS
<1>6. Len(gs) + 1 = n + 2
  BY <1>1
<1> HIDE DEF rec2, off2
<1> QED
  BY <1>3, <1>4, <1>5, <1>6 DEF Leads

\* Some of the fragments lead to an earlier place.
LEMMA LeadsPart ==
    ASSUME NEW fs \in Seq(Fragment), NEW R, NEW r, NEW o, NEW e, NEW p,
           Leads(fs, R, r, o, e, p), NEW n \in 0..Len(fs)
    PROVE  \E e2 \in Nat, p2 \in Nat : e2 <= e /\ Leads(SubSeq(fs, 1, n), R, r, o, e2, p2)
<1> PICK rec, off : /\ Along(fs, R, rec, off)
                    /\ rec[1] = r /\ off[1] = o
                    /\ rec[Len(fs) + 1] = e /\ off[Len(fs) + 1] = p
  BY DEF Leads
<1> PICK m \in Nat : m = Len(fs)
  BY LenProperties
<1> PICK gs : gs = SubSeq(fs, 1, n)
  OBVIOUS
<1>1. Len(gs) = n /\ n \in Nat /\ n <= m /\ \A j \in 1..n : gs[j] = fs[j]
  OBVIOUS
<1>2. /\ rec \in [1..(m + 1) -> Nat] /\ off \in [1..(m + 1) -> Nat]
      /\ \A j \in 1..m :
           /\ Fits(fs[j], R, rec[j], off[j])
           /\ rec[j + 1] = NextRecord(fs[j], rec[j])
           /\ off[j + 1] = NextPlace(fs[j], off[j])
      /\ \A j, l \in 1..(m + 1) : j <= l => rec[j] <= rec[l]
  BY DEF Along
<1> DEFINE rec2 == [j \in 1..(n + 1) |-> rec[j]]
           off2 == [j \in 1..(n + 1) |-> off[j]]
<1>3. Along(gs, R, rec2, off2)
  <2>1. rec2 \in [1..(n + 1) -> Nat] /\ off2 \in [1..(n + 1) -> Nat]
    BY <1>1, <1>2
  <2>2. ASSUME NEW j \in 1..n
        PROVE  /\ Fits(gs[j], R, rec2[j], off2[j])
               /\ rec2[j + 1] = NextRecord(gs[j], rec2[j])
               /\ off2[j + 1] = NextPlace(gs[j], off2[j])
    <3>1. /\ j \in 1..m /\ gs[j] = fs[j]
          /\ rec2[j] = rec[j] /\ off2[j] = off[j] /\ rec2[j + 1] = rec[j + 1] /\ off2[j + 1] = off[j + 1]
      BY <1>1
    <3> QED
      BY <1>2, <3>1
  <2>3. ASSUME NEW j \in 1..(n + 1), NEW l \in 1..(n + 1), j <= l PROVE rec2[j] <= rec2[l]
    BY <1>1, <1>2, <2>3
  <2> QED
    BY <1>1, <2>1, <2>2, <2>3 DEF Along
<1>4. /\ rec2[1] = r /\ off2[1] = o
      /\ rec2[n + 1] = rec[n + 1] /\ off2[n + 1] = off[n + 1]
  BY <1>1
<1>5. rec[n + 1] \in Nat /\ off[n + 1] \in Nat /\ rec[n + 1] <= e
  <2>1. n + 1 \in 1..(m + 1) /\ m + 1 \in 1..(m + 1) /\ n + 1 <= m + 1
    BY <1>1
  <2> QED
    BY <1>2, <2>1
<1>6. Leads(gs, R, r, o, rec[n + 1], off[n + 1])
  <2> HIDE DEF rec2, off2
  <2> QED
    BY <1>1, <1>3, <1>4 DEF Leads
<1> QED
  BY <1>5, <1>6

\* Records that are added later do not matter.
LEMMA LeadsSame ==
    ASSUME NEW fs \in Seq(Fragment), NEW R, NEW S, NEW r, NEW o, NEW e, NEW p,
           Leads(fs, R, r, o, e, p),
           DOMAIN R \subseteq DOMAIN S, \A i \in DOMAIN R : S[i] = R[i]
    PROVE  Leads(fs, S, r, o, e, p)
<1> PICK rec, off : /\ Along(fs, R, rec, off)
                    /\ rec[1] = r /\ off[1] = o
                    /\ rec[Len(fs) + 1] = e /\ off[Len(fs) + 1] = p
  BY DEF Leads
<1>1. ASSUME NEW f, NEW i, NEW j, Fits(f, R, i, j) PROVE Fits(f, S, i, j)
  <2>1. i \in DOMAIN R /\ i \in DOMAIN S /\ S[i] = R[i]
    BY <1>1 DEF Fits
  <2> QED
    BY <1>1, <2>1 DEF Fits
<1>2. Along(fs, S, rec, off)
  BY <1>1, Zenon DEF Along
<1> QED
  BY <1>2 DEF Leads

\* Fragments after each other.
LEMMA LeadsBoth ==
    ASSUME NEW fs \in Seq(Fragment), NEW gs \in Seq(Fragment), NEW R, NEW r, NEW o, NEW e, NEW p, NEW e2, NEW p2,
           Leads(fs, R, r, o, e, p), Leads(gs, R, e, p, e2, p2)
    PROVE  Leads(fs \o gs, R, r, o, e2, p2)
<1> PICK rec, off : /\ Along(fs, R, rec, off)
                    /\ rec[1] = r /\ off[1] = o
                    /\ rec[Len(fs) + 1] = e /\ off[Len(fs) + 1] = p
  BY DEF Leads
<1> PICK rec2, off2 : /\ Along(gs, R, rec2, off2)
                      /\ rec2[1] = e /\ off2[1] = p
                      /\ rec2[Len(gs) + 1] = e2 /\ off2[Len(gs) + 1] = p2
  BY DEF Leads
<1> PICK m \in Nat, n \in Nat : m = Len(fs) /\ n = Len(gs)
  BY LenProperties
<1> PICK hs : hs = fs \o gs
  OBVIOUS
<1>1. Len(hs) = m + n /\ (\A j \in 1..m : hs[j] = fs[j]) /\ \A j \in 1..n : hs[m + j] = gs[j]
  OBVIOUS
<1>2. /\ rec \in [1..(m + 1) -> Nat] /\ off \in [1..(m + 1) -> Nat]
      /\ \A j \in 1..m :
           /\ Fits(fs[j], R, rec[j], off[j])
           /\ rec[j + 1] = NextRecord(fs[j], rec[j])
           /\ off[j + 1] = NextPlace(fs[j], off[j])
      /\ \A j, l \in 1..(m + 1) : j <= l => rec[j] <= rec[l]
  BY DEF Along
<1>3. /\ rec2 \in [1..(n + 1) -> Nat] /\ off2 \in [1..(n + 1) -> Nat]
      /\ \A j \in 1..n :
           /\ Fits(gs[j], R, rec2[j], off2[j])
           /\ rec2[j + 1] = NextRecord(gs[j], rec2[j])
           /\ off2[j + 1] = NextPlace(gs[j], off2[j])
      /\ \A j, l \in 1..(n + 1) : j <= l => rec2[j] <= rec2[l]
  BY DEF Along
<1> DEFINE rec3 == [j \in 1..(m + n + 1) |-> IF j <= m THEN rec[j] ELSE rec2[j - m]]
           off3 == [j \in 1..(m + n + 1) |-> IF j <= m THEN off[j] ELSE off2[j - m]]
\* The two meet at the place of the first fragment of gs.
<1>4. \A j \in 1..(m + 1) : j \in 1..(m + n + 1) /\ rec3[j] = rec[j] /\ off3[j] = off[j]
  <2> SUFFICES ASSUME NEW j \in 1..(m + 1)
               PROVE  j \in 1..(m + n + 1) /\ rec3[j] = rec[j] /\ off3[j] = off[j]
    OBVIOUS
  <2>1. j \in 1..(m + n + 1)
    OBVIOUS
  <2>2. CASE j <= m
    BY <2>1, <2>2
  <2>3. CASE j = m + 1
    <3>1. j - m = 1 /\ ~(j <= m)
      BY <2>3
    <3> QED
      BY <2>1, <2>3, <3>1
  <2> QED
    BY <2>2, <2>3
<1>5. \A j \in 1..(n + 1) :
          m + j \in 1..(m + n + 1) /\ rec3[m + j] = rec2[j] /\ off3[m + j] = off2[j]
  <2> SUFFICES ASSUME NEW j \in 1..(n + 1)
               PROVE  m + j \in 1..(m + n + 1) /\ rec3[m + j] = rec2[j] /\ off3[m + j] = off2[j]
    OBVIOUS
  <2>1. m + j \in 1..(m + n + 1) /\ ~(m + j <= m) /\ (m + j) - m = j
    OBVIOUS
  <2> QED
    BY <2>1
<1>6. rec3 \in [1..(m + n + 1) -> Nat] /\ off3 \in [1..(m + n + 1) -> Nat]
  <2> SUFFICES ASSUME NEW j \in 1..(m + n + 1) PROVE rec3[j] \in Nat /\ off3[j] \in Nat
    OBVIOUS
  <2>1. CASE j <= m
    BY <1>2, <2>1
  <2>2. CASE ~(j <= m)
    <3>1. j - m \in 1..(n + 1)
      BY <2>2
    <3> QED
      BY <1>3, <2>2, <3>1
  <2> QED
    BY <2>1, <2>2
<1> HIDE DEF rec3, off3
<1>7. Along(hs, R, rec3, off3)
  <2>1. ASSUME NEW j \in 1..(m + n)
        PROVE  /\ Fits(hs[j], R, rec3[j], off3[j])
               /\ rec3[j + 1] = NextRecord(hs[j], rec3[j])
               /\ off3[j + 1] = NextPlace(hs[j], off3[j])
    <3>1. CASE j <= m
      <4>1. j \in 1..m /\ j \in 1..(m + 1) /\ j + 1 \in 1..(m + 1)
        BY <3>1
      <4> QED
        BY <1>1, <1>2, <1>4, <4>1
    <3>2. CASE ~(j <= m)
      <4>1. PICK k \in 1..n : k = j - m /\ j = m + k /\ k \in 1..(n + 1) /\ k + 1 \in 1..(n + 1) /\ j + 1 = m + (k + 1)
        <5>1. PICK k \in Int : k = j - m
          <6>1. j - m \in Int
            OBVIOUS
          <6> QED
            BY <6>1
        <5>2. k \in 1..n /\ j = m + k /\ k \in 1..(n + 1) /\ k + 1 \in 1..(n + 1) /\ j + 1 = m + (k + 1)
          BY <3>2, <5>1
        <5> QED
          BY <5>1, <5>2
      <4>2. rec3[j] = rec2[k] /\ off3[j] = off2[k] /\ rec3[j + 1] = rec2[k + 1] /\ off3[j + 1] = off2[k + 1]
        BY <1>5, <4>1
      <4>3. hs[j] = gs[k]
        BY <1>1, <4>1
      <4> QED
        BY <1>3, <4>2, <4>3
    <3> QED
      BY <3>1, <3>2
  <2>2. ASSUME NEW j \in 1..(m + n + 1), NEW l \in 1..(m + n + 1), j <= l PROVE rec3[j] <= rec3[l]
    <3>1. CASE l <= m + 1
      <4>1. j \in 1..(m + 1) /\ l \in 1..(m + 1)
        BY <2>2, <3>1
      <4>2. rec3[j] = rec[j] /\ rec3[l] = rec[l]
        BY <1>4, <4>1
      <4> QED
        BY <1>2, <2>2, <4>1, <4>2
    <3>2. CASE j > m
      <4>1. PICK k \in 1..(n + 1), i \in 1..(n + 1) : j = m + k /\ l = m + i /\ k <= i
        <5>1. /\ j - m \in 1..(n + 1) /\ l - m \in 1..(n + 1)
              /\ j = m + (j - m) /\ l = m + (l - m) /\ j - m <= l - m
          BY <2>2, <3>2
        <5> QED
          BY <5>1
      <4>2. rec3[j] = rec2[k] /\ rec3[l] = rec2[i]
        BY <1>5, <4>1
      <4> QED
        BY <1>3, <4>1, <4>2
    <3>3. CASE j <= m /\ l > m + 1
      <4>1. j \in 1..(m + 1) /\ m + 1 \in 1..(m + 1) /\ j <= m + 1
        BY <3>3
      <4>2. PICK i \in 1..(n + 1) : l = m + i /\ 1 \in 1..(n + 1) /\ 1 <= i
        <5>1. l - m \in 1..(n + 1) /\ l = m + (l - m) /\ 1 \in 1..(n + 1) /\ 1 <= l - m
          BY <3>3
        <5> QED
          BY <5>1
      <4>3. rec3[j] = rec[j] /\ rec[j] <= rec[m + 1] /\ rec[m + 1] = rec2[1]
        BY <1>2, <1>4, <4>1
      <4>4. rec3[l] = rec2[i] /\ rec2[1] <= rec2[i]
        BY <1>3, <1>5, <4>2
      <4>5. rec[j] \in Nat /\ rec2[1] \in Nat /\ rec2[i] \in Nat
        BY <1>2, <1>3, <4>1, <4>2
      <4> QED
        BY <4>3, <4>4, <4>5
    <3> QED
      BY <3>1, <3>2, <3>3
  <2>3. Len(hs) + 1 = m + n + 1
    BY <1>1
  <2> QED
    BY <1>1, <1>6, <2>1, <2>2, <2>3 DEF Along
<1>8. rec3[1] = r /\ off3[1] = o /\ rec3[m + n + 1] = e2 /\ off3[m + n + 1] = p2
  <2>1. 1 \in 1..(m + 1) /\ n + 1 \in 1..(n + 1) /\ m + (n + 1) = m + n + 1
    OBVIOUS
  <2>2. rec3[m + (n + 1)] = rec2[n + 1] /\ off3[m + (n + 1)] = off2[n + 1]
    BY <1>5, <2>1
  <2> QED
    BY <1>4, <2>1, <2>2
<1> QED
  BY <1>1, <1>7, <1>8 DEF Leads

------------------------------------------------------------------------------
(* Reading and writing fragments.                                          *)

\* The bytes s are the first ones of record r.
Begins(s, R, r) == \A k \in 1..Len(s) : r \in DOMAIN R /\ s[k] = R[r][k]

\* A buffer that takes the next fragment still holds the first bytes of its record.
LEMMA Fill ==
    ASSUME NEW s \in Seq(Nat), NEW R, NEW r \in Nat, Begins(s, R, r),
           NEW f \in Fragment, Fits(f, R, r, Len(s)), R[r] \in Seq(Nat)
    PROVE  /\ s \o f.data \in Seq(Nat)
           /\ Len(s \o f.data) = Len(s) + Len(f.data)
           /\ Begins(s \o f.data, R, r)
<1> PICK d, z : d = f.data /\ z = s \o d
  OBVIOUS
<1>1. d \in Seq(Nat)
  BY DEF Fragment
<1> PICK m \in Nat, n \in Nat : m = Len(s) /\ n = Len(d)
  BY <1>1, LenProperties
<1>2. z \in Seq(Nat) /\ Len(z) = m + n /\ (\A k \in 1..m : z[k] = s[k]) /\ \A k \in 1..n : z[m + k] = d[k]
  BY <1>1, SMTT(20)
<1>3. (\A k \in 1..m : s[k] = R[r][k]) /\ \A k \in 1..n : d[k] = R[r][m + k]
  BY DEF Begins, Fits
<1>4. ASSUME NEW k \in 1..(m + n) PROVE z[k] = R[r][k]
  <2>1. CASE k <= m
    BY <1>2, <1>3, <2>1
  <2>2. CASE ~(k <= m)
    <3>1. PICK i \in Int : i = k - m
      <4>1. k - m \in Int
        OBVIOUS
      <4> QED
        BY <4>1
    <3>2. i \in 1..n /\ m + i = k
      BY <2>2, <3>1
    <3>3. z[m + i] = d[i] /\ d[i] = R[r][m + i]
      BY <1>2, <1>3, <3>2
    <3> QED
      BY <3>2, <3>3
  <2> QED
    BY <2>1, <2>2
<1> QED
  BY <1>2, <1>4 DEF Begins, Fits

\* The bytes that begin a record and are as many are the record.
LEMMA BeginsAll ==
    ASSUME NEW s \in Seq(Nat), NEW R, NEW r \in Nat, Begins(s, R, r), R[r] \in Seq(Nat), Len(s) = Len(R[r])
    PROVE  s = R[r]
BY SeqEqual DEF Begins

\* The fragments of a buffer: all but the last are full.
LEMMA CountFacts ==
    ASSUME NEW l \in Nat \ {0}, NEW m \in Nat \ {0}, NEW n, n = (l + m - 1) \div m
    PROVE  n \in Nat \ {0} /\ (n - 1) * m < l /\ l <= n * m
<1>1. n \in Int /\ n * m <= l + m - 1 /\ l + m - 1 < (n + 1) * m
  OBVIOUS
<1>2. (n + 1) * m = n * m + m /\ (n - 1) * m = n * m - m
  BY <1>1
<1>3. l <= n * m /\ (n - 1) * m < l
  BY <1>1, <1>2
<1>4. n > 0
  <2>1. SUFFICES ASSUME n <= 0 PROVE FALSE
    BY <1>1
  <2>2. n * m <= 0
    BY <1>1, <2>1
  <2> QED
    BY <1>1, <1>3, <2>2
<1> QED
  BY <1>1, <1>3, <1>4

\* The offset o of the i-th of n fragments, of m bytes, of a buffer of l.
StartsAt(o, i, l, m, n) ==
    /\ o = (i - 1) * m
    /\ o + m = i * m
    /\ i < n => o + m < l
    /\ i = n => o < l /\ l <= o + m

\* Every fragment starts inside the buffer, and only the last one reaches its end.
LEMMA OffsetFacts ==
    ASSUME NEW l \in Nat \ {0}, NEW m \in Nat \ {0}, NEW n \in Nat \ {0},
           (n - 1) * m < l, l <= n * m, NEW i \in 1..n
    PROVE  \E o \in Nat : StartsAt(o, i, l, m, n)
<1>1. PICK k \in Nat : k = i - 1
  <2>1. i - 1 \in Nat
    OBVIOUS
  <2> QED
    BY <2>1
<1>2. i = k + 1 /\ i - 1 = k
  BY <1>1
<1>3. PICK o \in Nat : o = k * m
  <2>1. k * m \in Nat
    OBVIOUS
  <2> QED
    BY <2>1
<1>4. (k + 1) * m = o + m
  <2>1. (k + 1) * m = k * m + m
    OBVIOUS
  <2> QED
    BY <1>3, <2>1
<1>5. ASSUME i < n PROVE o + m < l
  <2>1. PICK j \in Nat : j = n - 1 - i
    <3>1. n - 1 - i \in Nat
      BY <1>5
    <3> QED
      BY <3>1
  <2>2. n - 1 = (k + 1) + j
    BY <1>2, <2>1
  <2>3. ((k + 1) + j) * m = (k + 1) * m + j * m /\ j * m \in Nat
    OBVIOUS
  <2>4. PICK x \in Nat : x = j * m
    BY <2>3
  <2>5. (n - 1) * m = (o + m) + x
    BY <1>4, <2>2, <2>3, <2>4
  <2>6. (o + m) + x < l
    BY <2>5
  <2> QED
    BY <2>6
<1>6. ASSUME i = n PROVE o < l /\ l <= o + m
  <2>1. n - 1 = k /\ n = k + 1
    BY <1>2, <1>6
  <2> QED
    BY <1>3, <1>4, <2>1
<1> QED
  BY <1>2, <1>3, <1>4, <1>5, <1>6 DEF StartsAt

\* What write_fragment writes leads through the whole buffer, and says so.
LEMMA WriteLeads ==
    ASSUME NEW R, NEW r \in Nat, r \in DOMAIN R, R[r] \in Seq(Nat), R[r] # <<>>
    PROVE  /\ write_fragment(R[r]) \in Seq(Fragment)
           /\ Leads(write_fragment(R[r]), R, r, 0, r + 1, 0)
<1> PICK buf : buf = R[r]
  OBVIOUS
<1> PICK l \in Nat \ {0} : l = Len(buf)
  BY EmptySeq, LenProperties
<1> PICK m \in Nat \ {0} : m = MAX_FRAGMENT_SIZE
  BY StreamAssumption
<1> PICK n : n = (l + m - 1) \div m
  OBVIOUS
<1>1. n \in Nat \ {0} /\ (n - 1) * m < l /\ l <= n * m
  BY CountFacts
<1> PICK off : off = [i \in 1..(n + 1) |-> IF i = n + 1 THEN 0 ELSE (i - 1) * m]
  OBVIOUS
<1> PICK fs : fs = write_fragment(buf)
  OBVIOUS
<1>2. ASSUME NEW i \in 1..n
      PROVE  \E o \in Nat : /\ off[i] = o
                            /\ Offset(i) = o
                            /\ i < n => o + m < l /\ off[i + 1] = o + m
                            /\ i = n => o < l /\ l <= o + m
  <2>1. PICK o \in Nat : /\ o = (i - 1) * m
                         /\ o + m = i * m
                         /\ i < n => o + m < l
                         /\ i = n => o < l /\ l <= o + m
    <3>1. n \in Nat \ {0} /\ (n - 1) * m < l /\ l <= n * m
      BY <1>1
    <3>2. PICK o \in Nat : StartsAt(o, i, l, m, n)
      BY <3>1, OffsetFacts
    <3> QED
      BY <3>2 DEF StartsAt
  <2>2. i \in 1..(n + 1) /\ i # n + 1
    BY <1>1
  <2>3. off[i] = o
    BY <2>1, <2>2
  <2>4. ASSUME i < n PROVE off[i + 1] = o + m
    <3>1. i + 1 \in 1..(n + 1) /\ i + 1 # n + 1 /\ (i + 1) - 1 = i
      BY <1>1, <2>4
    <3> QED
      BY <2>1, <3>1
  <2>5. Offset(i) = o
    BY <2>1 DEF Offset
  <2> QED
    BY <2>1, <2>3, <2>4, <2>5
<1>3. ASSUME NEW i \in 1..n
      PROVE  /\ fs[i] \in Fragment
             /\ Fits(fs[i], R, r, off[i])
             /\ fs[i].last <=> i = n
             /\ i < n => off[i + 1] = off[i] + Len(fs[i].data)
  <2>1. PICK o \in Nat : /\ off[i] = o
                         /\ Offset(i) = o
                         /\ i < n => o + m < l /\ off[i + 1] = o + m
                         /\ i = n => o < l /\ l <= o + m
    BY <1>2
  <2>2. i \in Nat /\ i <= n
    BY <1>1
  <2>3. PICK s \in Nat : /\ s = (IF l - o < m THEN l - o ELSE m)
                         /\ i < n => s = m
                         /\ o + s <= l
                         /\ o + s >= l <=> i = n
    <3>1. CASE i < n
      <4>1. o + m < l /\ ~(l - o < m) /\ ~(o + m >= l) /\ i # n
        BY <1>1, <2>1, <2>2, <3>1, SMTT(20)
      <4>2. m = (IF l - o < m THEN l - o ELSE m)
        BY <4>1
      <4> QED
        BY <4>1, <4>2
    <3>2. CASE i = n
      <4>1. o < l /\ l <= o + m
        BY <2>1, <3>2
      <4>2. PICK s \in Nat : s = l - o
        <5>1. l - o \in Nat
          BY <4>1
        <5> QED
          BY <5>1
      <4>3. o + s = l /\ s <= m /\ s = (IF l - o < m THEN l - o ELSE m)
        BY <4>1, <4>2
      <4>4. ~(i < n) /\ o + s <= l /\ o + s >= l
        BY <1>1, <3>2, <4>3
      <4> QED
        BY <3>2, <4>3, <4>4, Zenon
    <3> QED
      BY <1>1, <2>2, <3>1, <3>2
  <2>4. fs[i] = [last |-> o + s >= l, data |-> SubSeq(buf, o + 1, o + s)]
    <3>1. Offset(i) = o /\ Size(buf, i) = s /\ Count(buf) = n
      BY <2>1, <2>3 DEF Size, Count
    <3> QED
      BY <3>1 DEF write_fragment
  <2>5. PICK d : d = SubSeq(buf, o + 1, o + s)
    OBVIOUS
  <2>6. d \in Seq(Nat) /\ Len(d) = s /\ \A k \in 1..s : d[k] = buf[o + k]
    <3>1. buf \in Seq(Nat) /\ o + 1 \in 1..(Len(buf) + 1) /\ o + s \in o..Len(buf)
      BY <2>3
    <3>2. PICK a \in Int, b \in Int : a = o + 1 /\ b = o + s
      <4>1. o + 1 \in Int /\ o + s \in Int
        OBVIOUS
      <4> QED
        BY <4>1
    <3>3. \A k \in a..b : k \in 1..Len(buf)
      BY <2>3, <3>2
    <3>4. d = SubSeq(buf, a, b)
      BY <2>5, <3>2
    <3>5. d \in Seq(Nat)
      BY <3>1, <3>2, <3>3, <3>4, SubSeqProperties
    <3>6. Len(d) = s
      BY <3>1, <3>2, <3>3, <3>4, SubSeqProperties
    <3>7. \A k \in 1..s : d[k] = buf[o + k]
      <4> SUFFICES ASSUME NEW k \in 1..s PROVE d[k] = buf[o + k]
        OBVIOUS
      <4>1. d[k] = buf[a + k - 1]
        BY <3>1, <3>2, <3>3, <3>4, <3>6, SubSeqProperties
      <4>2. a + k - 1 = o + k
        BY <3>2
      <4> QED
        BY <4>1, <4>2
    <3> QED
      BY <3>5, <3>6, <3>7
  <2>7. fs[i].data = d /\ fs[i].last = (o + s >= l)
    BY <2>4, <2>5
  <2>8. fs[i] \in Fragment
    BY <2>4, <2>5, <2>6 DEF Fragment
  <2>9. fs[i].last <=> i = n
    BY <2>3, <2>7
  <2>10. Fits(fs[i], R, r, o)
    <3>1. i = n => o + s = l
      BY <2>3
    <3> QED
      BY <2>3, <2>6, <2>7, <2>9, <3>1 DEF Fits
  <2> QED
    BY <2>1, <2>3, <2>6, <2>7, <2>8, <2>9, <2>10
<1>4. fs \in Seq(Fragment) /\ Len(fs) = n
  <2>1. Count(buf) = n
    BY DEF Count
  <2>2. fs = [i \in 1..n |-> fs[i]]
    BY <2>1 DEF write_fragment
  <2>3. n \in Nat /\ \A i \in 1..n : fs[i] \in Fragment
    BY <1>1, <1>3
  <2>4. fs \in [1..n -> Fragment]
    <3> HIDE DEF write_fragment
    <3> QED
      BY <2>2, <2>3, Zenon
  <2>5. fs \in Seq(Fragment)
    <3>1. n \in Nat
      BY <2>3
    <3>2. Seq(Fragment) = UNION {[1..k -> Fragment] : k \in Nat}
      BY SeqDef, Zenon
    <3>3. \E k \in Nat : fs \in [1..k -> Fragment]
      BY <2>4, <3>1, Zenon
    <3> QED
      BY <3>2, <3>3
  <2> QED
    BY <2>3, <2>4, <2>5, LenProperties
<1> DEFINE rec == [i \in 1..(n + 1) |-> IF i = n + 1 THEN r + 1 ELSE r]
<1>5. Along(fs, R, rec, off)
  <2>1. rec \in [1..(n + 1) -> Nat]
    OBVIOUS
  <2>2. off \in [1..(n + 1) -> Nat]
    <3>1. ASSUME NEW i \in 1..(n + 1) PROVE (IF i = n + 1 THEN 0 ELSE (i - 1) * m) \in Nat
      <4>1. CASE i = n + 1
        BY <4>1
      <4>2. CASE i # n + 1
        <5>1. i \in 1..n
          BY <1>1, <4>2, SMTT(20)
        <5>2. off[i] \in Nat /\ off[i] = (i - 1) * m
          BY <1>2, <4>2, <5>1
        <5> QED
          BY <4>2, <5>2
      <4> QED
        BY <4>1, <4>2
    <3> QED
      BY <3>1
  <2>3. ASSUME NEW i \in 1..n
        PROVE  /\ Fits(fs[i], R, rec[i], off[i])
               /\ rec[i + 1] = NextRecord(fs[i], rec[i])
               /\ off[i + 1] = NextPlace(fs[i], off[i])
    <3>1. rec[i] = r /\ i \in 1..(n + 1) /\ i + 1 \in 1..(n + 1)
      BY <1>1
    <3>2. Fits(fs[i], R, r, off[i])
      BY <1>3
    <3>3. CASE i = n
      <4>1. fs[i].last /\ rec[i + 1] = r + 1 /\ off[i + 1] = 0
        BY <1>3, <3>1, <3>3
      <4> QED
        BY <3>1, <3>2, <4>1 DEF NextRecord, NextPlace
    <3>4. CASE i < n
      <4>1. ~fs[i].last /\ rec[i + 1] = r /\ off[i + 1] = off[i] + Len(fs[i].data)
        <5>1. i + 1 # n + 1 /\ i # n
          BY <1>1, <3>4
        <5>2. ~fs[i].last /\ off[i + 1] = off[i] + Len(fs[i].data)
          BY <1>3, <3>4, <5>1, Zenon
        <5> QED
          BY <3>1, <5>1, <5>2
      <4> QED
        BY <3>1, <3>2, <4>1 DEF NextRecord, NextPlace
    <3> QED
      BY <1>1, <3>3, <3>4
  <2>4. ASSUME NEW j \in 1..(n + 1), NEW k \in 1..(n + 1), j <= k PROVE rec[j] <= rec[k]
    BY <1>1, <2>4
  <2> QED
    BY <1>4, <2>1, <2>2, <2>3, <2>4 DEF Along
<1>6. rec[1] = r /\ off[1] = 0 /\ rec[n + 1] = r + 1 /\ off[n + 1] = 0
  <2>1. 1 \in 1..(n + 1) /\ n + 1 \in 1..(n + 1) /\ 1 # n + 1 /\ (1 - 1) * m = 0
    BY <1>1
  <2> QED
    BY <2>1
<1>7. Leads(fs, R, r, 0, r + 1, 0)
  <2> HIDE DEF rec
  <2> QED
    BY <1>4, <1>5, <1>6 DEF Leads
<1> QED
  BY <1>4, <1>7

------------------------------------------------------------------------------
(* The inductive invariant.                                                *)

\* s is a sequence, of whatever.
IsSeq(s) == \E S : s \in Seq(S)

\* a is the i-th call, treated as the client may.
IsAsked(a, i) ==
    \E call \in Calls(i) : \E d \in Treatments(i, call, Encoded(i, call)) :
        a = [call |-> call, damage |-> d, record |-> Apply(d, Encoded(i, call))]

\* The records sent or begun, how many are complete, and how far the next one is.
Records == [i \in DOMAIN asked |-> asked[i].record]
Complete == IF sending THEN Len(asked) - 1 ELSE Len(asked)
Place == IF sending THEN Len(Records[Len(asked)]) - Len(unsent) ELSE 0

\* What the server makes of the i-th record, and the first w replies.
Out(i) == Handled(asked[i].record, asked[i].call)
Replies(w) == [i \in 1..w |-> Written(Out(i))]

Typed ==
    /\ IsSeq(asked) /\ IsSeq(understood) /\ IsSeq(meant) /\ IsSeq(heard)
    /\ sending \in BOOLEAN /\ hungup \in BOOLEAN
    /\ reader \in {"running", "ended"} /\ conn \in {"open", "closed"}
    /\ up \in Seq(Fragment) /\ down \in Seq(Fragment)
    /\ unsent \in Seq(Nat) /\ cur_fragment \in Seq(Nat) /\ reply \in Seq(Nat)
    /\ submitted \in Seq(Seq(Nat))

\* What is unsent is the end of the last record.
Sending ==
    /\ Len(asked) <= MaxCalls
    /\ \A i \in DOMAIN asked : IsAsked(asked[i], i)
    /\ sending =>
        /\ Len(asked) > 0
        /\ Place \in Nat
        /\ \A k \in 1..Len(unsent) : unsent[k] = Records[Len(asked)][Place + k]

\* The reader has the records in order and the beginning of the next one; what is
\* in transit goes on from there, to the client's place if nothing is cut off.
Arriving ==
    /\ Len(submitted) <= Complete
    /\ \A i \in 1..Len(submitted) : submitted[i] = Records[i] /\ Len(submitted[i]) <= Limit
    /\ reader = "running" =>
        /\ Begins(cur_fragment, Records, Len(submitted) + 1)
        /\ \E e \in Nat, p \in Nat :
               /\ e <= Complete + 1
               /\ ~hungup => e = Complete + 1 /\ p = Place
               /\ Leads(up, Records, Len(submitted) + 1, Len(cur_fragment), e, p)
    /\ reader = "ended" /\ ~hungup => \E i \in DOMAIN Records : Len(Records[i]) > Limit

\* Records are processed in order, and the connection has a reason to be closed.
Processed ==
    /\ Len(understood) <= Len(submitted)
    /\ Len(meant) = Len(understood)
    /\ \A i \in 1..Len(understood) :
           /\ understood[i] = IF Out(i).ok THEN Out(i).made ELSE Failed
           /\ meant[i] = IF Out(i).ok THEN Out(i).means ELSE Failed
    /\ hungup => conn = "closed"
    /\ conn = "closed" /\ ~hungup =>
        reader = "ended" \/ \E i \in 1..Len(understood) : ~Out(i).ok

\* The client has the first replies whole, and the beginning of the next one; the
\* others follow, up to the w-th.
Answered(w) ==
    /\ conn = "open" => w = Len(understood)
    /\ \A i \in 1..w : Out(i).ok
    /\ Begins(reply, Replies(w), Len(heard) + 1)
    /\ Leads(down, Replies(w), Len(heard) + 1, Len(reply), w + 1, 0)
    /\ \A i \in 1..Len(heard) : heard[i] = Decoded(asked[i].call, Written(Out(i)))

StreamInv ==
    /\ Typed
    /\ Sending
    /\ Arriving
    /\ Processed
    /\ \E w \in 0..Len(understood) : Answered(w)

\* A longer sequence.
LEMMA Longer ==
    ASSUME NEW s, IsSeq(s), NEW x
    PROVE  /\ IsSeq(Append(s, x))
           /\ Len(s) \in Nat /\ Len(Append(s, x)) = Len(s) + 1
           /\ DOMAIN s = 1..Len(s) /\ DOMAIN Append(s, x) = 1..(Len(s) + 1)
           /\ \A i \in 1..Len(s) : Append(s, x)[i] = s[i]
           /\ Append(s, x)[Len(s) + 1] = x
           /\ SubSeq(Append(s, x), 1, Len(s)) = s
<1> PICK S : s \in Seq(S)
  BY DEF IsSeq
<1> DEFINE T == S \cup {x}
<1>1. s \in Seq(T) /\ x \in T
  BY SeqMonotonic
<1>2. Append(s, x) \in Seq(T)
  BY <1>1, AppendProperties
<1> HIDE DEF T
<1>3. /\ Len(s) \in Nat /\ Len(Append(s, x)) = Len(s) + 1
      /\ \A i \in 1..Len(s) : Append(s, x)[i] = s[i]
      /\ Append(s, x)[Len(s) + 1] = x
  BY <1>1, AppendProperties, LenProperties
<1>4. DOMAIN s = 1..Len(s) /\ DOMAIN Append(s, x) = 1..(Len(s) + 1)
  BY <1>1, <1>2, <1>3, LenProperties
<1>5. SubSeq(Append(s, x), 1, Len(s)) = s
  BY <1>1, <1>2, <1>3
<1> QED
  BY <1>2, <1>3, <1>4, <1>5 DEF IsSeq

\* A sequence has a length.
LEMMA Lengths ==
    ASSUME NEW s, IsSeq(s)
    PROVE  Len(s) \in Nat /\ DOMAIN s = 1..Len(s)
BY Longer

\* What arrives is bytes; a reply has some, and every call that is one and is not
\* damaged gets a reply.
LEMMA RecordFacts ==
    ASSUME Typed, Sending, NEW i \in DOMAIN asked
    PROVE  /\ i \in 1..Len(asked)
           /\ Records[i] = asked[i].record /\ Records[i] \in Seq(Nat)
           /\ Out(i).ok => Written(Out(i)) \in Seq(Nat) /\ Written(Out(i)) # <<>>
           /\ IsValid(asked[i].call) /\ Undamaged(asked[i].damage) => Out(i).ok
<1>1. DOMAIN asked = 1..Len(asked) /\ Len(asked) \in Nat /\ Len(asked) <= MaxCalls
  BY Lengths DEF Typed, Sending
<1>2. i \in 1..MaxCalls
  BY <1>1, StreamAssumption
<1> PICK call \in Calls(i) : \E d \in Treatments(i, call, Encoded(i, call)) :
            asked[i] = [call |-> call, damage |-> d, record |-> Apply(d, Encoded(i, call))]
  BY DEF Sending, IsAsked
<1> PICK d \in Treatments(i, call, Encoded(i, call)) :
            asked[i] = [call |-> call, damage |-> d, record |-> Apply(d, Encoded(i, call))]
  OBVIOUS
<1>3. asked[i].call = call /\ asked[i].damage = d /\ asked[i].record = Apply(d, Encoded(i, call))
  OBVIOUS
<1>4. Out(i) = Handled(Apply(d, Encoded(i, call)), call)
  BY <1>3 DEF Out
<1>5. \A out \in {Handled(Apply(d, Encoded(i, call)), call)} :
          /\ Apply(d, Encoded(i, call)) \in Seq(Nat)
          /\ out.ok => Written(out) \in Seq(Nat) \ {<<>>}
          /\ IsValid(call) /\ Undamaged(d) => out.ok
  BY <1>2, CodecAssumption
<1>6. /\ Apply(d, Encoded(i, call)) \in Seq(Nat)
      /\ Out(i).ok => Written(Out(i)) \in Seq(Nat) \ {<<>>}
      /\ IsValid(call) /\ Undamaged(d) => Out(i).ok
  BY <1>4, <1>5
<1> QED
  BY <1>1, <1>3, <1>6 DEF Records

------------------------------------------------------------------------------
(* Every action keeps the invariant.                                       *)

\* The first states.
LEMMA StreamInit == Init => StreamInv
<1> SUFFICES ASSUME Init PROVE StreamInv
  OBVIOUS
<1> USE DEF Init
<1>1. IsSeq(<<>>)
  BY DEF IsSeq
<1>2. Typed
  <2>1. <<>> \in Seq(Fragment) /\ <<>> \in Seq(Nat) /\ <<>> \in Seq(Seq(Nat))
    OBVIOUS
  <2> QED
    BY <1>1, <2>1, Zenon DEF Typed
<1>3. Sending
  BY StreamAssumption DEF Sending
<1>4. Arriving
  <2>1. Complete = 0 /\ Len(submitted) + 1 = 1 /\ Len(cur_fragment) = 0
    BY DEF Complete
  <2>2. Begins(cur_fragment, Records, 1)
    BY DEF Begins
  <2>3. Leads(up, Records, 1, 0, 1, 0)
    BY LeadsNone
  <2>4. Place = 0
    BY DEF Place
  <2> QED
    BY <2>1, <2>2, <2>3, <2>4 DEF Arriving
<1>5. Processed
  BY DEF Processed
<1>6. Answered(0)
  <2>1. Begins(reply, Replies(0), Len(heard) + 1)
    BY DEF Begins
  <2>2. Leads(down, Replies(0), Len(heard) + 1, Len(reply), 0 + 1, 0)
    BY LeadsNone
  <2> QED
    BY <2>1, <2>2 DEF Answered
<1> QED
  BY <1>2, <1>3, <1>4, <1>5, <1>6 DEF StreamInv

\* Steps of the others leave the client's part alone.
LEMMA SendingFrame == Sending /\ UNCHANGED client => Sending'
BY DEF Sending, client, Place, Records, IsAsked

\* And the reader's.
LEMMA ArrivingFrame == Arriving /\ UNCHANGED <<client, server, up, hungup>> => Arriving'
BY DEF Arriving, client, server, Place, Records, Complete

\* The worker's.
LEMMA ProcessedFrame ==
    Processed /\ UNCHANGED <<asked, submitted, reader, answers, conn, hungup>> => Processed'
BY DEF Processed, answers, Out

\* And what goes back to the client.
LEMMA AnsweredFrame ==
    ASSUME NEW w, Answered(w), UNCHANGED <<asked, understood, down, listener, conn>>
    PROVE  Answered(w)'
BY DEF Answered, listener, Out, Replies

\* A new call leaves the earlier ones, and their replies, as they were.
LEMMA AskedMore ==
    ASSUME IsSeq(asked), NEW a, asked' = Append(asked, a)
    PROVE  /\ DOMAIN Records = 1..Len(asked) /\ DOMAIN Records' = 1..(Len(asked) + 1)
           /\ \A i \in 1..Len(asked) : Records'[i] = Records[i] /\ Out(i)' = Out(i)
           /\ \A w \in 0..Len(asked) : Replies(w)' = Replies(w)
<1>1. /\ Len(asked) \in Nat
      /\ DOMAIN asked = 1..Len(asked) /\ DOMAIN asked' = 1..(Len(asked) + 1)
      /\ \A i \in 1..Len(asked) : asked'[i] = asked[i]
  BY Longer
<1>2. \A i \in 1..Len(asked) : Records'[i] = Records[i] /\ Out(i)' = Out(i)
  BY <1>1 DEF Records, Out
<1>3. ASSUME NEW w \in 0..Len(asked) PROVE Replies(w)' = Replies(w)
  <2>1. \A i \in 1..w : i \in 1..Len(asked)
    BY <1>1
  <2>2. \A i \in 1..w : Written(Out(i)') = Written(Out(i))
    BY <1>2, <2>1
  <2> QED
    BY <2>2 DEF Replies
<1> QED
  BY <1>1, <1>2, <1>3 DEF Records

\* A new call.
LEMMA AskStep == StreamInv /\ Ask => StreamInv'
<1> SUFFICES ASSUME StreamInv, Ask PROVE StreamInv'
  OBVIOUS
<1> USE DEF StreamInv
<1> PICK n \in Nat : n = Len(asked)
  BY Lengths DEF Typed
<1> PICK call \in Calls(n + 1) : \E d \in Treatments(n + 1, call, Encoded(n + 1, call)) :
           /\ unsent' = Apply(d, Encoded(n + 1, call))
           /\ asked' = Append(asked, [call |-> call, damage |-> d, record |-> unsent'])
  BY DEF Ask
<1> PICK d \in Treatments(n + 1, call, Encoded(n + 1, call)) :
           /\ unsent' = Apply(d, Encoded(n + 1, call))
           /\ asked' = Append(asked, [call |-> call, damage |-> d, record |-> unsent'])
  OBVIOUS
<1> PICK a : a = [call |-> call, damage |-> d, record |-> unsent']
  OBVIOUS
<1>1. /\ asked' = Append(asked, a) /\ a.record = unsent'
      /\ sending = FALSE /\ sending' = TRUE /\ n < MaxCalls
      /\ UNCHANGED <<up, server, answers, down, listener, conn, hungup>>
  BY DEF Ask, Typed
<1>2. IsAsked(a, n + 1)
  BY DEF IsAsked
<1>3. unsent' \in Seq(Nat)
  <2>1. n + 1 \in 1..MaxCalls
    BY <1>1, StreamAssumption
  <2> QED
    BY <2>1, CodecAssumption
<1>4. /\ IsSeq(asked') /\ Len(asked') = n + 1
      /\ DOMAIN asked = 1..n /\ DOMAIN asked' = 1..(n + 1)
      /\ \A i \in 1..n : asked'[i] = asked[i]
      /\ asked'[n + 1] = a
  BY <1>1, Longer DEF Typed
<1>5. /\ DOMAIN Records = 1..n /\ DOMAIN Records' = 1..(n + 1)
      /\ \A i \in 1..n : Records'[i] = Records[i] /\ Out(i)' = Out(i)
      /\ \A w \in 0..n : Replies(w)' = Replies(w)
  BY <1>1, AskedMore DEF Typed
<1>6. Records'[n + 1] = unsent'
  BY <1>1, <1>4 DEF Records
<1>7. Place' = 0 /\ Place = 0 /\ Complete' = n /\ Complete = n
  BY <1>1, <1>3, <1>4, <1>6, LenProperties DEF Place, Complete
<1>8. Typed'
  BY <1>1, <1>3, <1>4 DEF Typed, server, answers, listener
<1>9. Sending'
  <2>1. ASSUME NEW i \in 1..(n + 1) PROVE IsAsked(asked'[i], i)
    BY <1>2, <1>4, <2>1 DEF Sending
  <2>2. Len(asked') <= MaxCalls /\ Len(asked') > 0
    BY <1>1, <1>4, StreamAssumption
  <2>3. \A k \in 1..Len(unsent') : unsent'[k] = Records'[Len(asked')][Place' + k]
    BY <1>3, <1>4, <1>6, <1>7, LenProperties
  <2>4. \A i \in DOMAIN asked' : IsAsked(asked[i], i)'
    BY <1>4, <2>1 DEF IsAsked
  <2> QED
    BY <1>7, <2>2, <2>3, <2>4 DEF Sending
<1>10. Len(submitted) \in Nat /\ Len(submitted) <= n /\ Len(understood) <= n /\ Len(understood) \in Nat
  BY <1>7, Lengths, LenProperties DEF Typed, Arriving, Processed
<1>11. Arriving'
  <2>1. \A i \in 1..Len(submitted) : submitted[i] = Records'[i] /\ Len(submitted[i]) <= Limit
    BY <1>5, <1>10 DEF Arriving
  <2>2. ASSUME reader = "running"
        PROVE  /\ Begins(cur_fragment, Records', Len(submitted) + 1)
               /\ \E e \in Nat, p \in Nat :
                      /\ e <= n + 1
                      /\ ~hungup => e = n + 1 /\ p = 0
                      /\ Leads(up, Records', Len(submitted) + 1, Len(cur_fragment), e, p)
    <3>1. Begins(cur_fragment, Records', Len(submitted) + 1)
      BY <1>5, <2>2 DEF Arriving, Begins
    <3>2. PICK e \in Nat, p \in Nat :
                      /\ e <= n + 1
                      /\ ~hungup => e = n + 1 /\ p = 0
                      /\ Leads(up, Records, Len(submitted) + 1, Len(cur_fragment), e, p)
      BY <1>7, <2>2 DEF Arriving
    <3>3. Leads(up, Records', Len(submitted) + 1, Len(cur_fragment), e, p)
      <4>1. DOMAIN Records \subseteq DOMAIN Records' /\ \A i \in DOMAIN Records : Records'[i] = Records[i]
        BY <1>5
      <4>2. up \in Seq(Fragment)
        BY DEF Typed
      <4> QED
        BY <3>2, <4>1, <4>2, LeadsSame
    <3> QED
      BY <3>1, <3>2, <3>3
  <2>3. ASSUME reader = "ended", ~hungup PROVE \E i \in DOMAIN Records' : Len(Records'[i]) > Limit
    <3>1. PICK i \in DOMAIN Records : Len(Records[i]) > Limit
      BY <2>3 DEF Arriving
    <3> QED
      BY <1>5, <3>1
  <2> QED
    BY <1>1, <1>7, <1>10, <2>1, <2>2, <2>3 DEF Arriving, server
<1>12. Processed'
  <2>1. \A i \in 1..Len(understood) : Out(i)' = Out(i)
    BY <1>5, <1>10
  <2> QED
    BY <1>1, <2>1 DEF Processed, answers, server
<1>13. \E w \in 0..Len(understood') : Answered(w)'
  <2>1. PICK w \in 0..Len(understood) : Answered(w)
    OBVIOUS
  <2>2. w \in 0..n /\ \A i \in 1..w : Out(i)' = Out(i)
    BY <1>5, <1>10
  <2>3. Replies(w)' = Replies(w)
    BY <1>5, <2>2
  <2>4. \A i \in 1..Len(heard) : i \in 1..w
    <3>1. Len(heard) + 1 <= w + 1 /\ Len(heard) \in Nat
      BY <2>1, LeadsTyped, Lengths DEF Answered, Typed
    <3> QED
      BY <3>1
  <2>5. \A i \in 1..Len(heard) : heard[i] = Decoded(asked'[i].call, Written(Out(i)'))
    <3>1. \A i \in 1..w : i \in 1..n /\ asked'[i] = asked[i]
      BY <1>4, <2>2
    <3> QED
      BY <2>1, <2>2, <2>4, <3>1 DEF Answered
  <2>6. Answered(w)'
    BY <1>1, <2>1, <2>2, <2>3, <2>5 DEF Answered, answers, listener
  <2> QED
    BY <1>1, <2>6 DEF answers
<1> QED
  BY <1>8, <1>9, <1>11, <1>12, <1>13

\* A fragment more, the last one of its record or not, goes on from the client's place
\* to its next one.
LEMMA SendGoesOn ==
    ASSUME Typed, Sending, SendFragment
    PROVE  \E f \in Fragment :
               /\ up' = Append(up, f)
               /\ Fits(f, Records, Complete + 1, Place)
               /\ NextRecord(f, Complete + 1) = Complete' + 1
               /\ NextPlace(f, Place) = Place'
               /\ Complete <= Complete' /\ Complete \in Nat /\ Complete' \in Nat
               /\ sending' \in BOOLEAN /\ unsent' \in Seq(Nat) /\ Sending'
<1>1. /\ sending = TRUE /\ UNCHANGED asked
      /\ \/ /\ up' = Append(up, [last |-> TRUE, data |-> unsent])
            /\ sending' = FALSE
            /\ unsent' = <<>>
         \/ \E k \in FragmentSizes :
                /\ k <= Len(unsent)
                /\ up' = Append(up, [last |-> FALSE, data |-> SubSeq(unsent, 1, k)])
                /\ unsent' = SubSeq(unsent, k + 1, Len(unsent))
                /\ sending' = sending
  BY DEF SendFragment, Typed
<1> PICK n \in Nat : n = Len(asked) /\ n > 0
  BY <1>1, Lengths DEF Typed, Sending
<1> PICK s : s = Records[n]
  OBVIOUS
<1>2. n \in DOMAIN Records /\ s \in Seq(Nat) /\ n \in DOMAIN asked
  BY Lengths, RecordFacts DEF Typed, Records
<1> PICK l \in Nat, u \in Nat : l = Len(s) /\ u = Len(unsent)
  BY <1>2, LenProperties DEF Typed
<1> PICK o : o = Place
  OBVIOUS
<1>3. o \in Nat /\ o = l - u /\ o + u = l /\ \A k \in 1..u : unsent[k] = s[o + k]
  BY <1>1 DEF Place, Sending
<1>4. Complete = n - 1 /\ Complete + 1 = n
  BY <1>1 DEF Complete
<1>5. Records' = Records /\ unsent \in Seq(Nat) /\ Len(asked) <= MaxCalls /\ \A i \in DOMAIN asked' : IsAsked(asked[i], i)'
  BY <1>1 DEF Records, IsAsked, Typed, Sending
<1>6. CASE /\ up' = Append(up, [last |-> TRUE, data |-> unsent])
           /\ sending' = FALSE
           /\ unsent' = <<>>
  <2> PICK f : f = [last |-> TRUE, data |-> unsent]
    OBVIOUS
  <2>1. f \in Fragment /\ f.last = TRUE /\ f.data = unsent
    BY <1>5 DEF Fragment
  <2>2. Fits(f, Records, n, o)
    BY <1>2, <1>3, <2>1 DEF Fits
  <2>3. Complete' = n /\ Place' = 0
    BY <1>1, <1>6 DEF Complete, Place
  <2>4. NextRecord(f, n) = n + 1 /\ NextPlace(f, o) = 0
    BY <2>1 DEF NextRecord, NextPlace
  <2>5. Sending' /\ unsent' \in Seq(Nat)
    BY <1>1, <1>5, <1>6 DEF Sending
  <2>6. Complete <= Complete' /\ Complete \in Nat /\ Complete' \in Nat
    BY <1>4, <2>3
  <2> QED
    BY <1>4, <1>6, <2>1, <2>2, <2>3, <2>4, <2>5, <2>6
<1>7. CASE \E k \in FragmentSizes :
                /\ k <= Len(unsent)
                /\ up' = Append(up, [last |-> FALSE, data |-> SubSeq(unsent, 1, k)])
                /\ unsent' = SubSeq(unsent, k + 1, Len(unsent))
                /\ sending' = sending
  <2> PICK k \in FragmentSizes :
                /\ k <= u
                /\ up' = Append(up, [last |-> FALSE, data |-> SubSeq(unsent, 1, k)])
                /\ unsent' = SubSeq(unsent, k + 1, u)
                /\ sending' = sending
    BY <1>7
  <2> PICK f, d : d = SubSeq(unsent, 1, k) /\ f = [last |-> FALSE, data |-> d]
    OBVIOUS
  <2>1. k \in Nat
    BY StreamAssumption
  <2>2. d \in Seq(Nat) /\ Len(d) = k /\ \A j \in 1..k : d[j] = unsent[j]
    BY <1>5, <2>1
  <2>3. f \in Fragment /\ f.last = FALSE /\ f.data = d
    BY <2>2 DEF Fragment
  <2>4. Fits(f, Records, n, o)
    <3>1. o + k <= l /\ \A j \in 1..k : j \in 1..u
      BY <1>3, <2>1
    <3> QED
      BY <1>2, <1>3, <2>2, <2>3, <3>1 DEF Fits
  <2>5. /\ unsent' \in Seq(Nat) /\ Len(unsent') = u - k
        /\ \A j \in 1..(u - k) : unsent'[j] = unsent[k + j]
    <3> PICK z : z = unsent'
      OBVIOUS
    <3>1. z = SubSeq(unsent, k + 1, u) /\ unsent \in Seq(Nat) /\ u = Len(unsent) /\ k \in 0..u
      BY <1>5, <2>1
    <3>2. z \in Seq(Nat) /\ Len(z) = u - k
      BY <3>1
    <3>3. \A j \in 1..(u - k) : z[j] = unsent[k + j]
      BY <3>1
    <3> QED
      BY <3>2, <3>3
  <2>6. Place' = o + k /\ Complete' = n - 1
    <3>1. Place' = l - (u - k) /\ Complete' = n - 1
      BY <1>1, <1>5, <2>5 DEF Place, Complete
    <3> QED
      BY <1>3, <2>1, <3>1
  <2>7. \A j \in 1..(u - k) : unsent'[j] = s[(o + k) + j]
    <3> SUFFICES ASSUME NEW j \in 1..(u - k) PROVE unsent'[j] = s[(o + k) + j]
      OBVIOUS
    <3>1. k + j \in 1..u
      BY <2>1
    <3>2. o + (k + j) = (o + k) + j
      <4>1. o \in Int /\ k \in Int /\ j \in Int
        BY <1>3, <2>1
      <4>2. \A x, y, z \in Int : x + (y + z) = (x + y) + z
        OBVIOUS
      <4> QED
        BY <4>1, <4>2, Zenon
    <3> QED
      BY <1>3, <2>5, <3>1, <3>2
  <2>8. Sending'
    <3>1. o + k \in Nat /\ Len(asked') = n
      BY <1>1, <1>3, <2>1
    <3> QED
      BY <1>1, <1>5, <2>5, <2>6, <2>7, <3>1, SMTT(20) DEF Sending
  <2>9. NextRecord(f, n) = n /\ NextPlace(f, o) = o + k
    BY <2>2, <2>3 DEF NextRecord, NextPlace
  <2>10. Complete' + 1 = n /\ Complete <= Complete' /\ Complete \in Nat /\ Complete' \in Nat
    BY <1>4, <2>6
  <2> QED
    BY <1>1, <1>4, <2>3, <2>4, <2>5, <2>6, <2>8, <2>9, <2>10
<1> QED
  BY <1>1, <1>6, <1>7

\* A fragment more.
LEMMA SendStep == StreamInv /\ SendFragment => StreamInv'
<1> SUFFICES ASSUME StreamInv, SendFragment PROVE StreamInv'
  OBVIOUS
<1> USE DEF StreamInv
<1>1. UNCHANGED <<asked, server, answers, down, listener, conn, hungup>> /\ ~hungup
  BY DEF SendFragment
<1> PICK f \in Fragment :
               /\ up' = Append(up, f)
               /\ Fits(f, Records, Complete + 1, Place)
               /\ NextRecord(f, Complete + 1) = Complete' + 1
               /\ NextPlace(f, Place) = Place'
               /\ Complete <= Complete' /\ Complete \in Nat /\ Complete' \in Nat
               /\ sending' \in BOOLEAN /\ unsent' \in Seq(Nat) /\ Sending'
  BY SendGoesOn
<1>2. Typed'
  BY <1>1, AppendProperties DEF Typed, server, answers, listener
<1>3. Records' = Records
  BY <1>1 DEF Records
<1>4. Arriving'
  <2>1. Len(submitted) <= Complete'
    BY Lengths, LenProperties, SMTT(20) DEF Arriving, Typed
  <2>2. ASSUME reader = "running"
        PROVE  \E e \in Nat, p \in Nat :
                   /\ e <= Complete' + 1
                   /\ ~hungup => e = Complete' + 1 /\ p = Place'
                   /\ Leads(up', Records, Len(submitted) + 1, Len(cur_fragment), e, p)
    <3>1. Leads(up, Records, Len(submitted) + 1, Len(cur_fragment), Complete + 1, Place)
      BY <1>1, <2>2 DEF Arriving
    <3>2. Leads(up', Records, Len(submitted) + 1, Len(cur_fragment), Complete' + 1, Place')
      BY <3>1, LeadsOn DEF Typed
    <3>3. up' \in Seq(Fragment)
      BY <1>2 DEF Typed
    <3>4. Complete' + 1 \in Nat /\ Place' \in Nat
      BY <3>2, <3>3, LeadsTyped
    <3>5. PICK c \in Nat, p \in Nat : c = Complete' + 1 /\ p = Place'
      BY <3>4
    <3>6. c <= c
      OBVIOUS
    <3> QED
      BY <3>2, <3>5, <3>6, Zenon
  <2> QED
    BY <1>1, <1>3, <2>1, <2>2 DEF Arriving, server
<1>5. Processed'
  BY <1>1, ProcessedFrame DEF server
<1>6. \E w \in 0..Len(understood') : Answered(w)'
  BY <1>1, AnsweredFrame DEF answers
<1> QED
  BY <1>2, <1>4, <1>5, <1>6

\* The client hangs up: some of what is in transit still arrives.
LEMMA HangUpStep == StreamInv /\ HangUp => StreamInv'
<1> SUFFICES ASSUME StreamInv, HangUp PROVE StreamInv'
  OBVIOUS
<1> USE DEF StreamInv
<1>1. /\ UNCHANGED <<client, server, answers, down, listener>>
      /\ hungup' = TRUE /\ conn' = "closed"
  BY DEF HangUp
<1> PICK n \in 0..Len(up) : up' = SubSeq(up, 1, n)
  BY DEF HangUp
<1>2. up' \in Seq(Fragment)
  <2>1. up \in Seq(Fragment)
    BY DEF Typed
  <2> QED
    BY <2>1
<1>3. Typed'
  BY <1>1, <1>2 DEF Typed, client, server, answers, listener
<1>4. Sending'
  BY <1>1, SendingFrame
<1>5. Arriving'
  <2>1. Records' = Records /\ Complete' = Complete
    BY <1>1 DEF Records, Complete, client
  <2>2. ASSUME reader = "running"
        PROVE  \E e \in Nat, p \in Nat :
                   /\ e <= Complete + 1
                   /\ Leads(up', Records, Len(submitted) + 1, Len(cur_fragment), e, p)
    <3>1. PICK e \in Nat, p \in Nat :
                   /\ e <= Complete + 1
                   /\ Leads(up, Records, Len(submitted) + 1, Len(cur_fragment), e, p)
      BY <2>2 DEF Arriving
    <3>2. PICK e2 \in Nat, p2 \in Nat :
                   /\ e2 <= e
                   /\ Leads(up', Records, Len(submitted) + 1, Len(cur_fragment), e2, p2)
      BY <3>1, LeadsPart DEF Typed
    <3>3. Complete \in Int
      BY Lengths DEF Complete, Typed
    <3>4. e2 <= Complete + 1
      BY <3>1, <3>2, <3>3
    <3> QED
      BY <3>2, <3>4
  <2> QED
    BY <1>1, <2>1, <2>2 DEF Arriving, server
<1>6. Processed'
  BY <1>1 DEF Processed, Out, client, server, answers
<1>7. \E w \in 0..Len(understood') : Answered(w)'
  BY <1>1 DEF Answered, Out, Replies, client, answers, listener
<1> QED
  BY <1>3, <1>4, <1>5, <1>6, <1>7

\* The client is ahead of the reader, the reader of the worker.
LEMMA Ahead ==
    ASSUME Typed, Sending, Arriving, Processed
    PROVE  /\ Len(asked) \in Nat /\ Complete \in Nat /\ Len(submitted) \in Nat /\ Len(understood) \in Nat
           /\ Complete <= Len(asked) /\ Len(submitted) <= Complete /\ Len(understood) <= Len(submitted)
           /\ DOMAIN asked = 1..Len(asked) /\ DOMAIN Records = 1..Len(asked)
<1>1. /\ Len(asked) \in Nat /\ Len(submitted) \in Nat /\ Len(understood) \in Nat
      /\ DOMAIN asked = 1..Len(asked)
  BY Lengths, LenProperties DEF Typed
<1>2. Complete \in Nat /\ Complete <= Len(asked)
  BY <1>1 DEF Complete, Sending
<1> QED
  BY <1>1, <1>2 DEF Arriving, Processed, Records

\* The reader takes a fragment.
LEMMA ReadStep == StreamInv /\ Read => StreamInv'
<1> SUFFICES ASSUME StreamInv, Read PROVE StreamInv'
  OBVIOUS
<1> USE DEF StreamInv
<1> PICK f : f = Head(up)
  OBVIOUS
<1> PICK filled : filled = cur_fragment \o f.data
  OBVIOUS
<1>1. /\ reader = "running" /\ up # <<>> /\ up' = Tail(up)
      /\ \/ /\ Len(cur_fragment) + Len(f.data) > Limit
            /\ reader' = "ended" /\ UNCHANGED <<cur_fragment, submitted>>
         \/ /\ Len(cur_fragment) + Len(f.data) <= Limit
            /\ IF f.last
               THEN cur_fragment' = <<>> /\ submitted' = Append(submitted, filled)
               ELSE cur_fragment' = filled /\ UNCHANGED submitted
            /\ UNCHANGED reader
      /\ UNCHANGED <<client, answers, down, listener, conn, hungup>>
  BY DEF Read
<1> PICK r \in Nat, o \in Nat : r = Len(submitted) + 1 /\ o = Len(cur_fragment)
  BY Ahead, LenProperties DEF Typed
<1>2. up \in Seq(Fragment) /\ f \in Fragment /\ up' \in Seq(Fragment)
  BY <1>1, HeadTailProperties DEF Typed
<1>3. PICK e \in Nat, p \in Nat :
               /\ e <= Complete + 1
               /\ ~hungup => e = Complete + 1 /\ p = Place
               /\ Leads(up, Records, r, o, e, p)
  BY <1>1 DEF Arriving
<1>4. /\ Fits(f, Records, r, o)
      /\ NextRecord(f, r) <= e
      /\ Leads(up', Records, NextRecord(f, r), NextPlace(f, o), e, p)
  BY <1>1, <1>2, <1>3, LeadsFirst
<1>5. r \in 1..Len(asked) /\ r \in DOMAIN Records /\ Records[r] \in Seq(Nat)
  <2>1. r \in DOMAIN Records
    BY <1>4 DEF Fits
  <2> QED
    BY <2>1, Ahead, RecordFacts
<1>6. f.data \in Seq(Nat) /\ f.last \in BOOLEAN /\ Len(f.data) \in Nat
  BY <1>2, LenProperties DEF Fragment
<1>7. /\ filled \in Seq(Nat)
      /\ Len(filled) = o + Len(f.data)
      /\ Begins(filled, Records, r)
      /\ f.last => filled = Records[r]
  <2>1. cur_fragment \in Seq(Nat)
    BY DEF Typed
  <2>2. Begins(cur_fragment, Records, r)
    BY <1>1 DEF Arriving
  <2>3. f \in Fragment /\ Fits(f, Records, r, Len(cur_fragment)) /\ Records[r] \in Seq(Nat)
    BY <1>2, <1>4, <1>5
  <2>4. /\ filled \in Seq(Nat)
        /\ Len(filled) = o + Len(f.data)
        /\ Begins(filled, Records, r)
    BY <2>1, <2>2, <2>3, Fill
  <2>5. ASSUME f.last PROVE filled = Records[r]
    <3>1. Len(filled) = Len(Records[r])
      BY <1>4, <2>4, <2>5 DEF Fits
    <3> QED
      BY <2>3, <2>4, <3>1, BeginsAll
  <2> QED
    BY <2>4, <2>5
<1>8. UNCHANGED <<Records, Complete, Place>>
  BY <1>1 DEF Records, Complete, Place, client
<1>9. Sending'
  BY <1>1, SendingFrame
<1>10. Typed' /\ Arriving' /\ Len(submitted) <= Len(submitted')
  <2>1. CASE /\ o + Len(f.data) > Limit
             /\ reader' = "ended" /\ UNCHANGED <<cur_fragment, submitted>>
    <3>1. Typed'
      BY <1>1, <1>2, <2>1 DEF Typed, client, answers, listener
    <3>2. Len(Records[r]) > Limit
      <4>1. o + Len(f.data) <= Len(Records[r]) /\ Len(Records[r]) \in Nat
        BY <1>4, <1>5, LenProperties DEF Fits
      <4> QED
        BY <1>6, <2>1, <4>1, StreamAssumption
    <3>3. Arriving'
      BY <1>1, <1>5, <1>8, <2>1, <3>2 DEF Arriving
    <3> QED
      BY <2>1, <3>1, <3>3, Ahead
  <2>2. CASE /\ o + Len(f.data) <= Limit /\ f.last
             /\ cur_fragment' = <<>> /\ submitted' = Append(submitted, filled)
             /\ UNCHANGED reader
    <3>1. submitted' \in Seq(Seq(Nat)) /\ cur_fragment' \in Seq(Nat)
      BY <1>7, <2>2, AppendProperties DEF Typed
    <3>2. Typed'
      BY <1>1, <1>2, <2>2, <3>1 DEF Typed, client, answers, listener
    <3>3. /\ Len(submitted') = r
          /\ \A i \in 1..(r - 1) : submitted'[i] = submitted[i]
          /\ submitted'[r] = filled
      <4>1. submitted \in Seq(Seq(Nat)) /\ Len(submitted) \in Nat
        BY LenProperties DEF Typed
      <4>2. /\ Len(submitted') = Len(submitted) + 1
            /\ \A i \in 1..Len(submitted) : submitted'[i] = submitted[i]
            /\ submitted'[Len(submitted) + 1] = filled
        BY <1>7, <2>2, <4>1, AppendProperties
      <4>3. Len(submitted) = r - 1
        BY <4>1
      <4> QED
        BY <4>2, <4>3
    <3>4. NextRecord(f, r) = r + 1 /\ NextPlace(f, o) = 0
      BY <2>2 DEF NextRecord, NextPlace
    <3>5. r <= Complete
      BY <1>3, <1>4, <3>4, Ahead
    <3>6. \A i \in 1..r : submitted'[i] = Records[i] /\ Len(submitted'[i]) <= Limit
      <4> SUFFICES ASSUME NEW i \in 1..r
                   PROVE  submitted'[i] = Records[i] /\ Len(submitted'[i]) <= Limit
        OBVIOUS
      <4>1. CASE i = r
        BY <1>7, <2>2, <3>3, <4>1
      <4>2. CASE i \in 1..(r - 1)
        <5>1. i \in 1..Len(submitted)
          BY <4>2, Ahead
        <5> QED
          BY <3>3, <4>2, <5>1 DEF Arriving
      <4> QED
        BY <4>1, <4>2
    <3>7. Len(cur_fragment') = 0 /\ Begins(cur_fragment', Records, r + 1)
      BY <2>2 DEF Begins
    <3>8. Leads(up', Records, Len(submitted') + 1, Len(cur_fragment'), e, p)
      BY <1>4, <3>3, <3>4, <3>7
    <3>9. Arriving'
      BY <1>1, <1>3, <1>8, <2>2, <3>3, <3>5, <3>6, <3>7, <3>8 DEF Arriving
    <3> QED
      BY <3>2, <3>3, <3>9
  <2>3. CASE /\ o + Len(f.data) <= Limit /\ ~f.last
             /\ cur_fragment' = filled /\ UNCHANGED submitted
             /\ UNCHANGED reader
    <3>1. Typed'
      BY <1>1, <1>2, <1>7, <2>3 DEF Typed, client, answers, listener
    <3>2. NextRecord(f, r) = r /\ NextPlace(f, o) = Len(filled)
      BY <1>7, <2>3 DEF NextRecord, NextPlace
    <3>3. Leads(up', Records, r, Len(cur_fragment'), e, p)
      BY <1>4, <2>3, <3>2
    <3>4. Arriving'
      BY <1>1, <1>3, <1>7, <1>8, <2>3, <3>3 DEF Arriving
    <3> QED
      BY <2>3, <3>1, <3>4, Ahead
  <2> QED
    BY <1>1, <1>6, <2>1, <2>2, <2>3
<1>11. Processed'
  <2>1. Len(understood) <= Len(submitted')
    <3>1. Len(submitted') \in Nat
      BY <1>10, LenProperties DEF Typed
    <3> QED
      BY <1>10, <3>1, Ahead
  <2> QED
    BY <1>1, <2>1 DEF Processed, Out, client, answers
<1>12. \E w \in 0..Len(understood') : Answered(w)'
  BY <1>1, AnsweredFrame DEF client, answers
<1> QED
  BY <1>9, <1>10, <1>11, <1>12

\* The reader meets the end of the stream.
LEMMA ReadEndStep == StreamInv /\ ReadEnd => StreamInv'
<1> SUFFICES ASSUME StreamInv, ReadEnd PROVE StreamInv'
  OBVIOUS
<1> USE DEF StreamInv
<1>1. /\ reader = "running" /\ reader' = "ended" /\ hungup
      /\ UNCHANGED <<client, up, cur_fragment, submitted, answers, down, listener, conn, hungup>>
  BY DEF ReadEnd
<1>2. Typed'
  BY <1>1 DEF Typed, client, answers, listener
<1>3. Sending'
  BY <1>1, SendingFrame
<1>4. Arriving'
  BY <1>1 DEF Arriving, Records, Complete, client
<1>5. Processed'
  BY <1>1 DEF Processed, Out, client, answers
<1>6. \E w \in 0..Len(understood') : Answered(w)'
  BY <1>1, AnsweredFrame DEF client, answers
<1> QED
  BY <1>2, <1>3, <1>4, <1>5, <1>6

\* process_socket ends because nothing more can come.
LEMMA CloseStep == StreamInv /\ Close => StreamInv'
<1> SUFFICES ASSUME StreamInv, Close PROVE StreamInv'
  OBVIOUS
<1> USE DEF StreamInv
<1>1. /\ reader = "ended" /\ conn' = "closed"
      /\ UNCHANGED <<client, up, server, answers, down, listener, hungup>>
  BY DEF Close
<1>2. Typed'
  BY <1>1 DEF Typed, client, server, answers, listener
<1>3. Sending'
  BY <1>1, SendingFrame
<1>4. Arriving'
  BY <1>1, ArrivingFrame
<1>5. Processed'
  BY <1>1 DEF Processed, Out, client, server, answers
<1>6. \E w \in 0..Len(understood') : Answered(w)'
  BY <1>1 DEF Answered, Out, Replies, client, answers, listener
<1> QED
  BY <1>2, <1>3, <1>4, <1>5, <1>6

\* A record is processed.  A reply goes out after those that are on their way.
LEMMA ProcessStep == StreamInv /\ Process => StreamInv'
<1> SUFFICES ASSUME StreamInv, Process PROVE StreamInv'
  OBVIOUS
<1> USE DEF StreamInv
<1> PICK n \in Nat : n = Len(understood)
  BY Ahead
<1> PICK out : out = Out(n + 1)
  OBVIOUS
<1>1. n + 1 \in 1..Len(submitted) /\ n + 1 \in 1..Len(asked) /\ n + 1 \in DOMAIN asked
  <2>1. n < Len(submitted)
    BY DEF Process
  <2> QED
    BY <2>1, Ahead
<1>2. out = Handled(submitted[n + 1], asked[n + 1].call)
  BY <1>1, RecordFacts DEF Arriving, Out
<1>3. /\ \/ /\ ~out.ok
            /\ conn' = "closed"
            /\ understood' = Append(understood, Failed)
            /\ meant' = Append(meant, Failed)
            /\ UNCHANGED down
         \/ /\ out.ok
            /\ understood' = Append(understood, out.made)
            /\ meant' = Append(meant, out.means)
            /\ down' = IF conn = "open" THEN down \o write_fragment(Written(out)) ELSE down
            /\ UNCHANGED conn
      /\ UNCHANGED <<client, up, server, listener, hungup>>
  BY <1>2 DEF Process
<1> PICK x, y : /\ understood' = Append(understood, x) /\ meant' = Append(meant, y)
                /\ x = IF out.ok THEN out.made ELSE Failed
                /\ y = IF out.ok THEN out.means ELSE Failed
  BY <1>3
<1>4. /\ IsSeq(understood') /\ Len(understood') = n + 1 /\ understood'[n + 1] = x
      /\ \A i \in 1..n : understood'[i] = understood[i]
      /\ IsSeq(meant') /\ Len(meant') = n + 1 /\ meant'[n + 1] = y
      /\ \A i \in 1..n : meant'[i] = meant[i]
  <2>1. IsSeq(understood) /\ IsSeq(meant) /\ Len(meant) = n
    BY DEF Typed, Processed
  <2>2. /\ IsSeq(understood') /\ Len(understood') = n + 1 /\ understood'[n + 1] = x
        /\ \A i \in 1..n : understood'[i] = understood[i]
    BY <2>1, Longer
  <2>3. /\ IsSeq(meant') /\ Len(meant') = n + 1 /\ meant'[n + 1] = y
        /\ \A i \in 1..n : meant'[i] = meant[i]
    BY <2>1, Longer
  <2> QED
    BY <2>2, <2>3
<1>5. UNCHANGED <<Records, Complete, asked>> /\ \A i : Out(i)' = Out(i) /\ \A w : Replies(w)' = Replies(w)
  BY <1>3 DEF Records, Complete, client, Out, Replies
<1>6. out.ok => Written(out) \in Seq(Nat) /\ Written(out) # <<>>
  BY <1>1, RecordFacts
<1>7. Sending'
  BY <1>3, SendingFrame
<1>8. Arriving'
  BY <1>3, ArrivingFrame
<1>9. Processed'
  <2>1. ASSUME NEW i \in 1..(n + 1)
        PROVE  /\ understood'[i] = IF Out(i)'.ok THEN Out(i)'.made ELSE Failed
               /\ meant'[i] = IF Out(i)'.ok THEN Out(i)'.means ELSE Failed
    <3>1. CASE i = n + 1
      BY <1>4, <1>5, <3>1
    <3>2. CASE i \in 1..n
      BY <1>4, <1>5, <3>2 DEF Processed
    <3>3. i = n + 1 \/ i \in 1..n
      OBVIOUS
    <3> QED
      BY <3>1, <3>2, <3>3, Zenon
  <2>2. n + 1 <= Len(submitted)
    BY <1>1
  <2>3. ASSUME conn' = "closed", ~hungup, reader # "ended" PROVE \E i \in 1..(n + 1) : ~Out(i).ok
    <3>1. CASE ~out.ok
      <4>1. n + 1 \in 1..(n + 1)
        OBVIOUS
      <4> QED
        BY <3>1, <4>1
    <3>2. CASE out.ok
      <4>1. PICK i \in 1..n : ~Out(i).ok
        BY <1>3, <2>3, <3>2 DEF Processed
      <4> QED
        BY <4>1
    <3> QED
      BY <3>1, <3>2
  <2>4. hungup => conn' = "closed"
    BY <1>3 DEF Processed
  <2> QED
    BY <1>3, <1>4, <1>5, <2>1, <2>2, <2>3, <2>4 DEF Processed, server
<1> PICK w \in 0..n : Answered(w)
  OBVIOUS
<1>10. /\ Len(heard) \in Nat /\ down \in Seq(Fragment) /\ conn \in {"open", "closed"}
       /\ Leads(down, Replies(w), Len(heard) + 1, Len(reply), w + 1, 0)
  BY Lengths DEF Typed, Answered
<1>11. CASE out.ok /\ conn = "open"
  <2>1. w = n /\ DOMAIN Replies(n + 1) = 1..(n + 1) /\ DOMAIN Replies(n) = 1..n
    BY <1>11 DEF Answered, Replies
  <2> PICK R, bytes, fs : R = Replies(n + 1) /\ bytes = Written(out) /\ fs = write_fragment(bytes)
    OBVIOUS
  <2>2. n + 1 \in DOMAIN R /\ R[n + 1] = bytes
    BY <2>1 DEF Replies
  <2>3. fs \in Seq(Fragment) /\ Leads(fs, R, n + 1, 0, (n + 1) + 1, 0)
    BY <1>6, <1>11, <2>2, WriteLeads
  <2>4. DOMAIN Replies(n) \subseteq DOMAIN R /\ \A i \in DOMAIN Replies(n) : R[i] = Replies(n)[i]
    BY <2>1 DEF Replies
  <2>5. Leads(down, R, Len(heard) + 1, Len(reply), n + 1, 0)
    BY <1>10, <2>1, <2>4, LeadsSame
  <2>6. down' = down \o fs
    BY <1>3, <1>11
  <2>7. Leads(down', R, Len(heard) + 1, Len(reply), (n + 1) + 1, 0)
    BY <1>10, <2>3, <2>5, <2>6, LeadsBoth
  <2>8. down' \in Seq(Fragment)
    BY <1>10, <2>3, <2>6, ConcatProperties
  <2>9. Typed'
    BY <1>3, <1>4, <2>8, <1>11 DEF Typed, client, server, listener
  <2>10. Begins(reply, R, Len(heard) + 1)
    BY <2>1, <2>4 DEF Answered, Begins
  <2>11. \A i \in 1..(n + 1) : Out(i).ok
    BY <1>11, <2>1 DEF Answered
  <2>12. Answered(n + 1)'
    BY <1>3, <1>4, <1>5, <2>7, <2>10, <2>11 DEF Answered, client, listener
  <2>13. n + 1 \in 0..Len(understood')
    BY <1>4
  <2> QED
    BY <1>7, <1>8, <1>9, <2>9, <2>12, <2>13
<1>12. CASE ~(out.ok /\ conn = "open")
  <2>1. down' = down /\ conn' = "closed"
    BY <1>3, <1>10, <1>12
  <2>2. Typed'
    BY <1>3, <1>4, <2>1 DEF Typed, client, server, listener
  <2>3. Answered(w)'
    BY <1>3, <1>5, <2>1 DEF Answered, client, listener
  <2>4. w \in 0..Len(understood')
    BY <1>4
  <2> QED
    BY <1>7, <1>8, <1>9, <2>2, <2>3, <2>4
<1> QED
  BY <1>11, <1>12

\* The client takes a fragment.
LEMMA ListenStep == StreamInv /\ Listen => StreamInv'
<1> SUFFICES ASSUME StreamInv, Listen PROVE StreamInv'
  OBVIOUS
<1> USE DEF StreamInv
<1> PICK f, filled : f = Head(down) /\ filled = reply \o f.data
  OBVIOUS
<1>1. /\ down # <<>> /\ down' = Tail(down)
      /\ IF f.last
         THEN reply' = <<>> /\ heard' = Append(heard, Decoded(asked[Len(heard) + 1].call, filled))
         ELSE reply' = filled /\ UNCHANGED heard
      /\ UNCHANGED <<client, up, server, answers, conn, hungup>>
  BY DEF Listen
<1> PICK w \in 0..Len(understood) : Answered(w)
  OBVIOUS
<1> PICK r \in Nat, o \in Nat : r = Len(heard) + 1 /\ o = Len(reply)
  BY Lengths, LenProperties DEF Typed
<1> PICK R : R = Replies(w)
  OBVIOUS
<1>2. down \in Seq(Fragment) /\ f \in Fragment /\ down' \in Seq(Fragment)
  BY <1>1, HeadTailProperties DEF Typed
<1>3. w \in Nat /\ Leads(down, R, r, o, w + 1, 0)
  BY Ahead DEF Answered
<1>4. /\ Fits(f, R, r, o)
      /\ NextRecord(f, r) <= w + 1
      /\ Leads(down', R, NextRecord(f, r), NextPlace(f, o), w + 1, 0)
  BY <1>1, <1>2, <1>3, LeadsFirst
<1>5. r \in 1..w /\ R[r] = Written(Out(r)) /\ R[r] \in Seq(Nat)
  <2>1. r \in 1..w
    BY <1>4 DEF Fits, Replies
  <2>2. r \in DOMAIN asked /\ Out(r).ok
    BY <2>1, Ahead DEF Answered
  <2> QED
    BY <2>1, <2>2, RecordFacts DEF Replies
<1>6. reply \in Seq(Nat) /\ Begins(reply, R, r) /\ Fits(f, R, r, Len(reply))
  BY <1>4 DEF Typed, Answered
<1>7. /\ filled \in Seq(Nat)
      /\ Len(filled) = o + Len(f.data)
      /\ Begins(filled, R, r)
  BY <1>2, <1>5, <1>6, Fill
<1>8. ASSUME f.last PROVE filled = R[r]
  <2>1. Len(filled) = Len(R[r])
    BY <1>4, <1>7, <1>8 DEF Fits
  <2> QED
    BY <1>5, <1>7, <2>1, BeginsAll
<1>9. UNCHANGED asked /\ \A i : Out(i)' = Out(i) /\ Replies(w)' = R
  BY <1>1 DEF client, Out, Replies
<1>10. Sending'
  BY <1>1, SendingFrame
<1>11. Arriving'
  BY <1>1, ArrivingFrame
<1>12. Processed'
  BY <1>1, ProcessedFrame DEF client, server
<1>13. CASE f.last
  <2> PICK x : x = Decoded(asked[r].call, filled)
    OBVIOUS
  <2>1. heard' = Append(heard, x) /\ reply' = <<>>
    BY <1>1, <1>13
  <2>2. /\ IsSeq(heard') /\ Len(heard') = r /\ heard'[r] = x
        /\ \A i \in 1..(r - 1) : heard'[i] = heard[i]
    <3>1. IsSeq(heard) /\ Len(heard) = r - 1
      BY Lengths DEF Typed
    <3>2. /\ IsSeq(heard') /\ Len(heard') = Len(heard) + 1 /\ heard'[Len(heard) + 1] = x
          /\ \A i \in 1..Len(heard) : heard'[i] = heard[i]
      BY <2>1, <3>1, Longer
    <3> QED
      BY <3>1, <3>2
  <2>3. Typed'
    <3>1. <<>> \in Seq(Nat)
      OBVIOUS
    <3> QED
      BY <1>1, <1>2, <2>1, <2>2, <3>1 DEF Typed, client, server, answers
  <2>4. NextRecord(f, r) = r + 1 /\ NextPlace(f, o) = 0
    BY <1>13 DEF NextRecord, NextPlace
  <2>5. Leads(down', R, Len(heard') + 1, Len(reply'), w + 1, 0) /\ Begins(reply', R, Len(heard') + 1)
    BY <1>4, <2>1, <2>2, <2>4 DEF Begins
  <2>6. ASSUME NEW i \in 1..r PROVE heard'[i] = Decoded(asked[i].call, Written(Out(i)))
    <3>1. CASE i = r
      BY <1>5, <1>8, <1>13, <2>2, <3>1
    <3>2. CASE i \in 1..(r - 1)
      <4>1. i \in 1..Len(heard)
        BY <3>2, Lengths DEF Typed
      <4> QED
        BY <2>2, <3>2, <4>1 DEF Answered
    <3> QED
      BY <3>1, <3>2
  <2>7. Answered(w)'
    BY <1>1, <1>9, <2>2, <2>5, <2>6 DEF Answered, answers
  <2> QED
    BY <1>1, <1>10, <1>11, <1>12, <2>3, <2>7 DEF answers
<1>14. CASE ~f.last
  <2>1. reply' = filled /\ heard' = heard
    BY <1>1, <1>14
  <2>2. Typed'
    BY <1>1, <1>2, <1>7, <2>1 DEF Typed, client, server, answers
  <2>3. NextRecord(f, r) = r /\ NextPlace(f, o) = Len(filled)
    BY <1>7, <1>14 DEF NextRecord, NextPlace
  <2>4. Leads(down', R, Len(heard') + 1, Len(reply'), w + 1, 0) /\ Begins(reply', R, Len(heard') + 1)
    BY <1>4, <1>7, <2>1, <2>3
  <2>5. Answered(w)'
    BY <1>1, <1>9, <2>1, <2>4 DEF Answered, answers
  <2> QED
    BY <1>1, <1>10, <1>11, <1>12, <2>2, <2>5 DEF answers
<1> QED
  BY <1>13, <1>14

\* The invariant holds throughout.
LEMMA StreamInvariant == Spec => []StreamInv
<1>1. StreamInv /\ [Next]_vars => StreamInv'
  <2> SUFFICES ASSUME StreamInv, [Next]_vars PROVE StreamInv'
    OBVIOUS
  <2>1. CASE UNCHANGED vars
    <3>1. UNCHANGED <<client, up, server, answers, down, listener, conn, hungup>>
      BY <2>1 DEF vars
    <3>2. Typed'
      BY <3>1 DEF StreamInv, Typed, client, server, answers, listener
    <3>3. Sending' /\ Arriving'
      BY <3>1, SendingFrame, ArrivingFrame DEF StreamInv
    <3>4. Processed'
      BY <3>1, ProcessedFrame DEF StreamInv, client, server
    <3>5. \E w \in 0..Len(understood') : Answered(w)'
      BY <3>1, AnsweredFrame DEF StreamInv, client, answers
    <3> QED
      BY <3>2, <3>3, <3>4, <3>5 DEF StreamInv
  <2> QED
    BY <2>1, AskStep, SendStep, HangUpStep, ReadStep, ReadEndStep, ProcessStep, CloseStep, ListenStep DEF Next
<1> QED
  BY <1>1, StreamInit, PTL DEF Spec

------------------------------------------------------------------------------
(* The theorems.                                                           *)

\* What the channel is given: the records that are completed.
Sent == [i \in DOMAIN Completed |-> Completed[i].record]

\* The records the channel is given are the complete ones.
LEMMA SentIs == StreamInv => Complete \in Nat /\ Sent = [i \in 1..Complete |-> asked[i].record]
<1> SUFFICES ASSUME StreamInv PROVE Sent = [i \in 1..Complete |-> asked[i].record]
  BY Ahead DEF StreamInv
<1>1. IsSeq(asked) /\ Len(asked) \in Nat /\ DOMAIN asked = 1..Len(asked) /\ sending \in BOOLEAN
  BY Lengths DEF StreamInv, Typed
<1>2. CASE sending = FALSE
  BY <1>1, <1>2 DEF Completed, Complete, Sent
<1>3. CASE sending = TRUE
  <2>1. PICK S : asked \in Seq(S)
    BY <1>1 DEF IsSeq
  <2>2. PICK n \in Nat : n = Complete /\ n = Len(asked) - 1
    BY <1>3, Ahead DEF StreamInv, Complete
  <2>3. PICK s : s = SubSeq(asked, 1, n)
    OBVIOUS
  <2>4. Len(s) = n /\ DOMAIN s = 1..n /\ \A i \in 1..n : s[i] = asked[i]
    BY <1>1, <2>1, <2>2, <2>3
  <2>5. Completed = s
    BY <1>3, <2>2, <2>3 DEF Completed
  <2> QED
    BY <2>2, <2>4, <2>5 DEF Sent
<1> QED
  BY <1>1, <1>2, <1>3

\* A record that is completed is added to them.
LEMMA SentMore ==
    ASSUME NEW n \in Nat, NEW s, NEW z, s = [i \in 1..n |-> asked[i].record],
           z = [i \in 1..(n + 1) |-> asked[i].record]
    PROVE  Len(z) = Len(s) + 1 /\ SubSeq(z, 1, Len(s)) = s
<1>1. PICK S : S = {asked[i].record : i \in 1..(n + 1)}
  OBVIOUS
<1>2. z \in Seq(S) /\ Len(z) = n + 1
  BY <1>1
<1>3. s \in Seq(S) /\ Len(s) = n
  BY <1>1
<1>4. SubSeq(z, 1, n) \in Seq(S) /\ Len(SubSeq(z, 1, n)) = n /\ \A i \in 1..n : SubSeq(z, 1, n)[i] = z[i]
  BY <1>2
<1>5. \A i \in 1..n : z[i] = s[i]
  OBVIOUS
<1>6. SubSeq(z, 1, n) = s
  BY <1>3, <1>4, <1>5, SeqEqual
<1> QED
  BY <1>2, <1>3, <1>6

\* SocketMessageHandler::read submits the records the client has completed, whole,
\* once and in order, none of them longer than the limit: the reader and its
\* fragments implement the abstract channel of records.
THEOREM RecordsArriveInOrder == Spec => ImplementsChannel
<1>1. Init => Channel!Init
  <2> SUFFICES ASSUME Init PROVE Channel!Init
    OBVIOUS
  <2>1. Completed = <<>>
    BY DEF Init, Completed
  <2>2. Sent = <<>>
    BY <2>1 DEF Sent
  <2> QED
    BY <2>2 DEF Init, Channel!Init, Sent
<1>2. StreamInv' => (Complete \in Nat /\ Sent = [i \in 1..Complete |-> asked[i].record])'
  BY SentIs, PTL
<1>3. StreamInv /\ StreamInv' /\ [Next]_vars
        => Channel!Next \/ UNCHANGED <<Sent, submitted, reader = "running">>
  <2> SUFFICES ASSUME StreamInv, StreamInv', [Next]_vars
               PROVE  Channel!Next \/ UNCHANGED <<Sent, submitted, reader = "running">>
    OBVIOUS
  <2> PICK n \in Nat, m \in Nat :
        /\ n = Complete /\ m = Complete'
        /\ Sent = [i \in 1..n |-> asked[i].record] /\ Sent' = [i \in 1..m |-> asked'[i].record]
    BY <1>2, SentIs
  <2>1. ASSUME UNCHANGED client PROVE UNCHANGED Sent
    BY <2>1 DEF client, Complete
  <2>2. CASE Ask
    <3>1. PICK a : asked' = Append(asked, a)
      BY <2>2 DEF Ask
    <3>2. IsSeq(asked) /\ sending \in BOOLEAN /\ n <= Len(asked)
      BY Ahead DEF StreamInv, Typed
    <3>3. Len(asked') = Len(asked) + 1 /\ Len(asked) \in Nat /\ \A i \in 1..Len(asked) : asked'[i] = asked[i]
      BY <3>1, <3>2, Longer
    <3>4. m = n
      BY <2>2, <3>3 DEF Ask, Complete
    <3>5. \A i \in 1..n : asked'[i] = asked[i]
      BY <3>2, <3>3
    <3>6. UNCHANGED Sent
      BY <3>4, <3>5
    <3> QED
      BY <2>2, <3>6 DEF Ask, server
  <2>3. CASE SendFragment
    <3>1. UNCHANGED <<asked, submitted, reader>> /\ (sending' = FALSE \/ UNCHANGED sending) /\ sending
      BY <2>3 DEF SendFragment, server
    <3>2. CASE UNCHANGED sending
      <4>1. m = n
        BY <3>1, <3>2 DEF Complete
      <4> QED
        BY <3>1, <4>1
    <3>3. CASE sending' = FALSE
      <4>1. m = n + 1
        BY <3>1, <3>3, Ahead DEF Complete, StreamInv
      <4>2. Len(Sent') = Len(Sent) + 1 /\ SubSeq(Sent', 1, Len(Sent)) = Sent
        BY <3>1, <4>1, SentMore
      <4>3. Channel!Send
        BY <3>1, <4>2 DEF Channel!Send, Sent
      <4> QED
        BY <4>3 DEF Channel!Next
    <3> QED
      BY <3>1, <3>2, <3>3
  <2>4. CASE Read
    <3>1. UNCHANGED Sent /\ reader = "running"
      BY <2>1, <2>4 DEF Read
    <3>2. CASE reader' = "ended" /\ UNCHANGED submitted
      <4>1. Channel!End
        BY <3>1, <3>2 DEF Channel!End, Sent
      <4> QED
        BY <4>1 DEF Channel!Next
    <3>3. CASE UNCHANGED <<submitted, reader>>
      BY <3>1, <3>3
    <3>4. CASE reader' = reader /\ \E x : submitted' = Append(submitted, x)
      <4>1. PICK x : submitted' = Append(submitted, x)
        BY <3>4
      <4> PICK l \in Nat : l = Len(submitted)
        BY Ahead DEF StreamInv
      <4>2. Len(submitted') = l + 1 /\ submitted'[l + 1] = x
        <5>1. IsSeq(submitted)
          BY DEF StreamInv, Typed, IsSeq
        <5> QED
          BY <4>1, <5>1, Longer
      <4>3. l + 1 <= m /\ submitted'[l + 1] = Records'[l + 1] /\ Len(submitted'[l + 1]) <= Limit
        BY <4>2 DEF StreamInv, Arriving
      <4>4. m = n /\ Records' = Records /\ UNCHANGED asked
        BY <2>4 DEF Read, client, Complete, Records
      <4>5. l + 1 \in DOMAIN asked
        BY <4>3, <4>4, Ahead DEF StreamInv
      <4>6. Sent[l + 1] = x /\ Len(Sent) = n /\ l < n /\ Len(x) <= Limit
        BY <4>2, <4>3, <4>4, <4>5 DEF Records
      <4>7. Channel!Deliver
        BY <3>1, <3>4, <4>1, <4>6 DEF Channel!Deliver, Sent
      <4> QED
        BY <4>7 DEF Channel!Next
    <3> QED
      BY <2>4, <3>2, <3>3, <3>4 DEF Read
  <2>5. CASE ReadEnd
    <3>1. Channel!End
      BY <2>1, <2>5 DEF ReadEnd, Channel!End, Sent
    <3> QED
      BY <3>1 DEF Channel!Next
  <2>6. CASE HangUp \/ Process \/ Close \/ Listen \/ UNCHANGED vars
    <3>1. UNCHANGED <<client, server>>
      BY <2>6 DEF HangUp, Process, Close, Listen, vars
    <3> QED
      BY <2>1, <3>1 DEF server
  <2> QED
    BY <2>2, <2>3, <2>4, <2>5, <2>6 DEF Next
<1> QED
  BY <1>1, <1>3, StreamInvariant, PTL DEF Spec, ImplementsChannel, Channel!Spec, Sent

\* When nothing is left to do, every call that was sent whole has been answered: no
\* fragment is lost or left in a buffer on its way to the server (read_fragment) or
\* back (write_fragment), and the connection was not closed early.
THEOREM EveryCallAnswered == Spec => []NothingLost
<1>1. StreamInv => NothingLost
  <2> SUFFICES ASSUME StreamInv, Quiet,
                      \A i \in DOMAIN asked :
                          /\ IsValid(asked[i].call)
                          /\ Undamaged(asked[i].damage) /\ Len(asked[i].record) <= Limit
               PROVE  Len(heard) = Len(asked)
    BY DEF NothingLost
  <2> USE DEF StreamInv
  <2>1. /\ ~hungup /\ sending = FALSE /\ up = <<>> /\ down = <<>>
        /\ Len(understood) = Len(submitted)
    BY DEF Quiet, Typed
  <2>2. \A i \in 1..Len(asked) : Out(i).ok
    BY RecordFacts, Ahead
  <2>3. ASSUME NEW i \in DOMAIN Records PROVE ~(Len(Records[i]) > Limit)
    <3>1. i \in DOMAIN asked /\ Records[i] = asked[i].record /\ Records[i] \in Seq(Nat)
      BY RecordFacts, Ahead
    <3>2. Len(Records[i]) <= Limit /\ Len(Records[i]) \in Nat /\ Limit \in Nat
      BY <3>1, LenProperties, StreamAssumption
    <3> QED
      BY <3>2
  <2>4. reader = "running"
    BY <2>1, <2>3 DEF Typed, Arriving
\* Everything has arrived.
  <2>5. Len(submitted) = Len(asked)
    <3>1. Complete = Len(asked)
      BY <2>1 DEF Complete
    <3>2. Leads(<<>>, Records, Len(submitted) + 1, Len(cur_fragment), Len(asked) + 1, Place)
      BY <2>1, <2>4, <3>1 DEF Arriving
    <3>3. Len(submitted) + 1 \in Nat /\ Len(cur_fragment) \in Nat
      BY Ahead, LenProperties DEF Typed
    <3>4. Len(asked) + 1 = Len(submitted) + 1
      BY <3>2, <3>3, LeadsNone
    <3> QED
      BY <3>4, Ahead
\* Nothing closed the connection.
  <2>6. conn = "open"
    <3>1. \A i \in 1..Len(understood) : i \in 1..Len(asked)
      BY <2>1, <2>5
    <3> QED
      BY <2>1, <2>2, <2>4, <3>1 DEF Typed, Processed
  <2>7. Answered(Len(asked))
    BY <2>1, <2>5, <2>6 DEF Answered
  <2>8. Leads(<<>>, Replies(Len(asked)), Len(heard) + 1, Len(reply), Len(asked) + 1, 0)
    BY <2>1, <2>7 DEF Answered
  <2>9. Len(heard) \in Nat /\ Len(reply) \in Nat
    BY Lengths, LenProperties DEF Typed
  <2>10. Len(asked) + 1 = Len(heard) + 1
    BY <2>8, <2>9, LeadsNone
  <2> QED
    BY <2>9, <2>10, Ahead
<1> QED
  BY <1>1, StreamInvariant, PTL

\* What the server makes of the i-th call is made of the i-th record, as the client
\* sent it (process_rpc_command), and what the client reads as its i-th reply is the
\* reply to it, byte for byte (write_fragment).  Nothing is heard of a call that is
\* refused, or of a later one.
RepliesWhole ==
    /\ Len(heard) <= Len(meant) /\ Len(meant) = Len(understood)
    /\ Len(understood) <= Len(Completed)
    /\ \A i \in 1..Len(understood) : \A out \in {Handled(asked[i].record, asked[i].call)} :
           /\ understood[i] = IF out.ok THEN out.made ELSE Failed
           /\ i <= Len(heard) =>
                  /\ out.ok /\ meant[i] = out.means
                  /\ heard[i] = Decoded(asked[i].call, Written(out))

\* The client gets every reply whole and in order.
THEOREM RepliesArriveWhole == Spec => []RepliesWhole
<1>1. StreamInv => RepliesWhole
  <2> SUFFICES ASSUME StreamInv PROVE RepliesWhole
    OBVIOUS
  <2> USE DEF StreamInv
  <2> PICK w \in 0..Len(understood) : Answered(w)
    OBVIOUS
  <2>1. Len(heard) \in Nat /\ Len(heard) + 1 <= w + 1
    BY Lengths, LeadsTyped DEF Typed, Answered
  <2>2. Len(heard) <= w /\ w \in Nat /\ w <= Len(understood) /\ Len(meant) = Len(understood)
    BY <2>1, Ahead DEF Processed
  <2>3. Len(understood) <= Len(Completed)
    <3>1. Len(Completed) = Complete
      <4>1. IsSeq(asked) /\ Len(asked) \in Nat
        BY Ahead DEF Typed
      <4>2. PICK S : asked \in Seq(S)
        BY <4>1 DEF IsSeq
      <4>3. PICK n \in Nat : n = Complete /\ n <= Len(asked)
        BY Ahead
      <4>4. sending => Completed = SubSeq(asked, 1, n)
        BY <4>3 DEF Completed, Complete
      <4>5. Len(SubSeq(asked, 1, n)) = n
        BY <4>1, <4>2, <4>3
      <4>6. ~sending => Completed = asked /\ Complete = Len(asked)
        BY DEF Completed, Complete
      <4> QED
        BY <4>3, <4>4, <4>5, <4>6
    <3> QED
      BY <3>1, Ahead DEF Processed
  <2>4. ASSUME NEW i \in 1..Len(understood)
        PROVE  /\ understood[i] = IF Out(i).ok THEN Out(i).made ELSE Failed
               /\ i <= Len(heard) =>
                      /\ Out(i).ok /\ meant[i] = Out(i).means
                      /\ heard[i] = Decoded(asked[i].call, Written(Out(i)))
    <3>1. i <= Len(heard) => i \in 1..w /\ i \in 1..Len(heard)
      BY <2>1, <2>2, Ahead
    <3> QED
      BY <3>1 DEF Answered, Processed
  <2>5. \A i : Out(i) = Handled(asked[i].record, asked[i].call)
    BY DEF Out
  <2>6. Len(heard) <= Len(meant)
    BY <2>1, <2>2, Ahead
  <2> QED
    BY <2>2, <2>3, <2>4, <2>5, <2>6 DEF RepliesWhole
<1> QED
  BY <1>1, StreamInvariant, PTL
==============================================================================

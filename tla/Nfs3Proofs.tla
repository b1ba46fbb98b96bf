------------------------------ MODULE Nfs3Proofs ------------------------------
(***************************************************************************)
(* Proofs about Nfs3Procs, for any calls, requests and file systems.       *)
(*                                                                         *)
(* Inv holds on any number of connections and whatever fails: what a call  *)
(* has read is never newer than what there is, once it has acted its own   *)
(* change lies behind all that it read before, and what it made sure of    *)
(* before it acts was so when it looked.                                   *)
(*                                                                         *)
(* It rests on what the calls of the file system make of it: they leave a  *)
(* file system, nothing in it gets younger or lost or of another type, and *)
(* some change names or files only.                                        *)
(***************************************************************************)
EXTENDS Nfs3Procs, SequenceTheorems, TLAPS

------------------------------------------------------------------------------
(* What the calls of the file system make of it.                           *)

\* The age of an object: its attributes, also while it has no name.
Age(f, o) ==
    IF o \in DOMAIN f.dir THEN f.ver[o]
    ELSE IF o \in DOMAIN f.file THEN f.file[o].ctime ELSE 0

\* g is f later on: directories and files stay what they are, and only get older.
Grows(f, g) ==
    /\ DOMAIN g.dir = DOMAIN f.dir
    /\ \A d \in DOMAIN f.dir : f.ver[d] <= g.ver[d]
    /\ DOMAIN f.file \subseteq DOMAIN g.file
    /\ \A id \in DOMAIN f.file :
           f.file[id].ctime <= g.file[id].ctime /\ f.file[id].ftype = g.file[id].ftype

\* What a name leads to is a file.
LEMMA NamesLead ==
    ASSUME NEW f, FileSystem(f), NEW id, Live(f, id)
    PROVE  id \in DOMAIN f.file
BY DEF FileSystem, Live

\* A file system's files.
LEMMA FilesTyped ==
    ASSUME NEW f, FileSystem(f)
    PROVE  /\ Len(f.file) \in Nat
           /\ DOMAIN f.file = 1..Len(f.file)
           /\ \A id \in DOMAIN f.file : f.file[id] \in File /\ f.file[id].ctime \in Nat
<1>1. f.file \in Seq(File)
  BY DEF FileSystem
<1>2. /\ Len(f.file) \in Nat
      /\ DOMAIN f.file = 1..Len(f.file)
      /\ \A id \in DOMAIN f.file : f.file[id] \in File
  BY <1>1
<1>3. \A e \in File : e.ctime \in Nat
  BY DEF File
<1> QED
  BY <1>2, <1>3

\* getattr gives the age of an object, or nothing.
LEMMA AttrIsAge ==
    ASSUME NEW f, FileSystem(f), NEW o
    PROVE  /\ Age(f, o) \in Nat
           /\ getattr(f, o) \in {NoAttr, Age(f, o)}
           /\ getattr(f, o) \in Int
           /\ getattr(f, o) # NoAttr => getattr(f, o) = Age(f, o)
           /\ Live(f, o) => getattr(f, o) = Age(f, o)
           /\ o \in DOMAIN f.dir => getattr(f, o) = f.ver[o] /\ f.ver[o] \in Nat
<1>1. \A d \in DOMAIN f.dir : f.ver[d] \in Nat
  BY DEF FileSystem
<1>2. \A id \in DOMAIN f.file : f.file[id].ctime \in Nat
  BY FilesTyped
<1>3. Live(f, o) => o \in DOMAIN f.file
  BY NamesLead
<1> QED
  BY <1>1, <1>2, <1>3 DEF Age, getattr, NoAttr

\* Whatever happens, an object gets older.
LEMMA AgeGrows ==
    ASSUME NEW f, FileSystem(f), NEW g, FileSystem(g), Grows(f, g), NEW o
    PROVE  Age(f, o) <= Age(g, o)
<1>1. Age(f, o) \in Nat /\ Age(g, o) \in Nat
  BY AttrIsAge
<1> QED
  BY <1>1, FilesTyped DEF Age, Grows

\* Nothing is older than itself.
LEMMA GrowsReflexive ==
    ASSUME NEW f, FileSystem(f)
    PROVE  Grows(f, f)
<1>1. \A d \in DOMAIN f.dir : f.ver[d] \in Nat
  BY DEF FileSystem
<1>2. \A id \in DOMAIN f.file : f.file[id].ctime \in Nat
  BY FilesTyped
<1> QED
  BY <1>1, <1>2 DEF Grows

------------------------------------------------------------------------------
(* A call that changes the files and nothing else.                         *)

\* g has the names of f, and its files, one of which has become older.
OnlyFiles(f, g) ==
    /\ FileSystem(g)
    /\ Grows(f, g)
    /\ g.dir = f.dir
    /\ g.ver = f.ver

\* One file gives way to a later one: names and directories stay.
LEMMA FileReplaced ==
    ASSUME NEW f, FileSystem(f), NEW id \in DOMAIN f.file, NEW e \in File,
           f.file[id].ctime <= e.ctime, f.file[id].ftype = e.ftype,
           NEW g, g = [f EXCEPT !.file[id] = e]
    PROVE  OnlyFiles(f, g)
<1>1. f.file \in Seq(File)
  BY DEF FileSystem
<1>2. /\ [f.file EXCEPT ![id] = e] \in Seq(File)
      /\ Len([f.file EXCEPT ![id] = e]) = Len(f.file)
      /\ DOMAIN [f.file EXCEPT ![id] = e] = DOMAIN f.file
      /\ \A j \in DOMAIN f.file :
             [f.file EXCEPT ![id] = e][j] = IF j = id THEN e ELSE f.file[j]
  BY <1>1
<1>g. /\ DOMAIN g = {"dir", "ver", "file"}
      /\ g.dir = f.dir /\ g.ver = f.ver /\ g.file = [f.file EXCEPT ![id] = e]
  BY DEF FileSystem
<1>3. FileSystem(g)
  BY <1>2, <1>g DEF FileSystem
<1>4. \A j \in DOMAIN f.file :
          f.file[j].ctime <= g.file[j].ctime /\ f.file[j].ftype = g.file[j].ftype
  BY <1>2, <1>g, FilesTyped
<1>5. \A d \in DOMAIN f.dir : f.ver[d] <= f.ver[d]
  BY DEF FileSystem
<1>6. Grows(f, g)
  BY <1>2, <1>g, <1>4, <1>5 DEF Grows
<1> QED
  BY <1>3, <1>6, <1>g DEF OnlyFiles

\* Nothing has changed.
LEMMA SameFiles ==
    ASSUME NEW f, FileSystem(f)
    PROVE  OnlyFiles(f, f)
BY GrowsReflexive DEF OnlyFiles

\* Names unchanged, the attributes there are stay the ones there are.
LEMMA SameNames ==
    ASSUME NEW f, NEW g, OnlyFiles(f, g), NEW o
    PROVE  /\ Live(g, o) <=> Live(f, o)
           /\ o \in DOMAIN f.dir => getattr(g, o) = getattr(f, o)
           /\ FileSystem(f) => (getattr(g, o) = NoAttr <=> getattr(f, o) = NoAttr)
<1>1. Live(g, o) <=> Live(f, o)
  BY DEF OnlyFiles, Live
<1>2. o \in DOMAIN f.dir => getattr(g, o) = getattr(f, o)
  BY DEF OnlyFiles, getattr
<1>3. ASSUME FileSystem(f) PROVE getattr(g, o) = NoAttr <=> getattr(f, o) = NoAttr
  <2>1. FileSystem(g)
    BY DEF OnlyFiles
  <2>2. /\ Age(f, o) \in Nat /\ Age(g, o) \in Nat
        /\ Live(f, o) => getattr(f, o) = Age(f, o)
        /\ Live(g, o) => getattr(g, o) = Age(g, o)
    BY <1>3, <2>1, AttrIsAge
  <2>3. CASE o \in DOMAIN f.dir
    BY <1>2, <2>3
  <2>4. CASE o \notin DOMAIN f.dir /\ Live(f, o)
    BY <2>2, <2>4, <1>1 DEF NoAttr
  <2>5. CASE o \notin DOMAIN f.dir /\ ~Live(f, o)
    BY <2>5, <1>1 DEF getattr, OnlyFiles
  <2> QED
    BY <2>3, <2>4, <2>5
<1> QED
  BY <1>1, <1>2, <1>3

\* A file that has changed, with its change noted in the ctime.
LEMMA FileChanges ==
    ASSUME NEW f, FileSystem(f), NEW id \in DOMAIN f.file, NEW b \in BOOLEAN
    PROVE  /\ OnlyFiles(f, Changed(f, id, b))
           /\ OnlyFiles(f, Changed(f, id, f.file[id].data))
<1> DEFINE e == f.file[id]
           Noted(d) == [e EXCEPT !.ctime = e.ctime + 1, !.data = d]
<1>1. e \in File /\ e.ctime \in Nat
  BY FilesTyped
<1>2. e.data \in BOOLEAN
  BY <1>1, Zenon DEF File
<1>3. [e EXCEPT !.ctime = e.ctime + 1] \in File
  BY <1>1 DEF File
<1>4. \A x \in File : \A d \in BOOLEAN : [x EXCEPT !.data = d] \in File
  BY DEF File
<1>5. \A d : Noted(d) = [[e EXCEPT !.ctime = e.ctime + 1] EXCEPT !.data = d]
  OBVIOUS
<1>6. \A d \in BOOLEAN : Noted(d) \in File
  BY <1>3, <1>4, <1>5
<1>7. \A d : e.ctime <= Noted(d).ctime /\ e.ftype = Noted(d).ftype
  BY <1>1 DEF File
<1>8. \A d : Changed(f, id, d) = [f EXCEPT !.file[id] = Noted(d)]
  BY DEF Changed
<1>9. \A d \in BOOLEAN : OnlyFiles(f, Changed(f, id, d))
  <2> TAKE d \in BOOLEAN
  <2> HIDE DEF Noted
  <2> QED
    BY <1>6, <1>7, <1>8, FileReplaced
<1> QED
  BY <1>2, <1>9

\* setattr changes files and no names, also when it fails half way.
LEMMA SetattrRight ==
    ASSUME NEW f, FileSystem(f), NEW id, NEW set, NEW can
    PROVE  OnlyFiles(f, setattr(f, id, set, can).fs)
<1>1. CASE Live(f, id)
  <2>1. id \in DOMAIN f.file
    BY <1>1, NamesLead
  <2>2. /\ OnlyFiles(f, Changed(f, id, FALSE))
        /\ OnlyFiles(f, Changed(f, id, f.file[id].data))
        /\ OnlyFiles(f, f)
    BY <2>1, FileChanges, SameFiles
  <2> QED
    BY <1>1, <2>2 DEF setattr, path_setattr, Ok, Err
<1>2. CASE ~Live(f, id)
  BY <1>2, SameFiles DEF setattr, Err
<1> QED
  BY <1>1, <1>2

\* write changes files and no names.
LEMMA WriteRight ==
    ASSUME NEW f, FileSystem(f), NEW id
    PROVE  OnlyFiles(f, write(f, id).fs)
<1>1. CASE Live(f, id)
  <2>1. OnlyFiles(f, Changed(f, id, TRUE)) /\ OnlyFiles(f, f)
    BY <1>1, NamesLead, FileChanges, SameFiles
  <2> QED
    BY <2>1 DEF write, Ok, Err
<1>2. CASE ~Live(f, id)
  BY <1>2, SameFiles DEF write, Err
<1> QED
  BY <1>1, <1>2

------------------------------------------------------------------------------
(* A call that changes names.                                              *)

\* Directories that are touched get older; nothing else happens.
LEMMA TouchedRight ==
    ASSUME NEW f, FileSystem(f), NEW S
    PROVE  /\ FileSystem(Touched(f, S))
           /\ Grows(f, Touched(f, S))
           /\ Touched(f, S).dir = f.dir
           /\ Touched(f, S).file = f.file
           /\ \A d \in DOMAIN f.dir :
                  Touched(f, S).ver[d] = IF d \in S THEN f.ver[d] + 1 ELSE f.ver[d]
<1> DEFINE g == Touched(f, S)
           v == [d \in DOMAIN f.ver |-> IF d \in S THEN f.ver[d] + 1 ELSE f.ver[d]]
<1>1. f.ver \in [DOMAIN f.dir -> Nat] /\ DOMAIN f.ver = DOMAIN f.dir
  BY DEF FileSystem
<1>2. /\ DOMAIN g = {"dir", "ver", "file"}
      /\ g.dir = f.dir /\ g.file = f.file /\ g.ver = v
  BY DEF FileSystem, Touched
<1>3. v \in [DOMAIN f.dir -> Nat]
  BY <1>1
<1>4. FileSystem(g)
  BY <1>2, <1>3 DEF FileSystem
<1>5. \A d \in DOMAIN f.dir : f.ver[d] <= v[d]
  BY <1>1
<1>6. \A id \in DOMAIN f.file : f.file[id].ctime <= f.file[id].ctime
  BY FilesTyped
<1>7. Grows(f, g)
  BY <1>2, <1>5, <1>6 DEF Grows
<1>8. \A d \in DOMAIN f.dir : v[d] = IF d \in S THEN f.ver[d] + 1 ELSE f.ver[d]
  BY <1>1
<1> HIDE DEF v, g
<1> QED
  BY <1>2, <1>4, <1>7, <1>8 DEF g

\* Another set of names in the directory d.
LEMMA Renamed ==
    ASSUME NEW f, FileSystem(f), NEW d \in DOMAIN f.dir,
           NEW names, Range(names) \subseteq DOMAIN f.file,
           NEW g, g = [f EXCEPT !.dir[d] = names]
    PROVE  /\ FileSystem(g)
           /\ Grows(f, g)
           /\ g.ver = f.ver
           /\ g.file = f.file
           /\ DOMAIN g.dir = DOMAIN f.dir
           /\ g.dir[d] = names
           /\ \A o \in DOMAIN f.dir : o # d => g.dir[o] = f.dir[o]
<1>1. /\ DOMAIN g = {"dir", "ver", "file"}
      /\ g.dir = [f.dir EXCEPT ![d] = names] /\ g.ver = f.ver /\ g.file = f.file
  BY DEF FileSystem
<1>2. /\ DOMAIN g.dir = DOMAIN f.dir
      /\ g.dir[d] = names
      /\ \A o \in DOMAIN f.dir : o # d => g.dir[o] = f.dir[o]
  BY <1>1
<1>3. g.dir = [o \in DOMAIN g.dir |-> g.dir[o]]
  BY <1>1
<1>4. \A o \in DOMAIN g.dir : Range(g.dir[o]) \subseteq DOMAIN g.file
  BY <1>1, <1>2 DEF FileSystem
<1>5. FileSystem(g)
  BY <1>1, <1>2, <1>3, <1>4 DEF FileSystem
<1>6. Grows(f, f)
  BY GrowsReflexive
<1>7. Grows(f, g)
  BY <1>1, <1>2, <1>6 DEF Grows
<1> QED
  BY <1>1, <1>2, <1>5, <1>7

\* A name is entered in a directory: every name still leads to a file.
LEMMA LinkedRight ==
    ASSUME NEW f, FileSystem(f), NEW d \in DOMAIN f.dir, NEW n, NEW id \in DOMAIN f.file
    PROVE  /\ FileSystem(Linked(f, d, n, id))
           /\ Grows(f, Linked(f, d, n, id))
           /\ Linked(f, d, n, id).ver = f.ver
           /\ Linked(f, d, n, id).file = f.file
           /\ DOMAIN Linked(f, d, n, id).dir = DOMAIN f.dir
<1> DEFINE names == Override(Entry(n, id), f.dir[d])
<1>1. Range(f.dir[d]) \subseteq DOMAIN f.file
  BY DEF FileSystem
<1>2. Range(names) \subseteq DOMAIN f.file
  BY <1>1 DEF Range, Override, Entry
<1>3. Linked(f, d, n, id) = [f EXCEPT !.dir[d] = names]
  BY DEF Linked
<1> HIDE DEF names
<1> QED
  BY <1>2, <1>3, Renamed

\* A name is taken out of a directory: every name still leads to a file.
LEMMA UnlinkedRight ==
    ASSUME NEW f, FileSystem(f), NEW d \in DOMAIN f.dir, NEW n
    PROVE  /\ FileSystem(Unlinked(f, d, n))
           /\ Grows(f, Unlinked(f, d, n))
           /\ Unlinked(f, d, n).ver = f.ver
           /\ Unlinked(f, d, n).file = f.file
           /\ DOMAIN Unlinked(f, d, n).dir = DOMAIN f.dir
<1> DEFINE names == Without(f.dir[d], {n})
           g == Unlinked(f, d, n)
<1>1. Range(f.dir[d]) \subseteq DOMAIN f.file
  BY DEF FileSystem
<1>2. Range(names) \subseteq DOMAIN f.file
  BY <1>1 DEF Range, Without, Restrict
<1>3. g = [f EXCEPT !.dir[d] = names]
  BY DEF Unlinked
<1> HIDE DEF names, g
<1> QED
  BY <1>2, <1>3, Renamed DEF g

\* What is later than the later is later.
LEMMA GrowsTransitive ==
    ASSUME NEW f, FileSystem(f), NEW g, FileSystem(g), NEW h, FileSystem(h),
           Grows(f, g), Grows(g, h)
    PROVE  Grows(f, h)
<1>1. \A x \in {f, g, h} : \A d \in DOMAIN x.dir : x.ver[d] \in Nat
  BY DEF FileSystem
<1>2. \A x \in {f, g, h} : \A id \in DOMAIN x.file : x.file[id].ctime \in Nat
  BY FilesTyped
<1>3. \A d \in DOMAIN f.dir : f.ver[d] <= h.ver[d]
  BY <1>1 DEF Grows
<1>4. \A id \in DOMAIN f.file :
          f.file[id].ctime <= h.file[id].ctime /\ f.file[id].ftype = h.file[id].ftype
  BY <1>2 DEF Grows
<1> QED
  BY <1>3, <1>4 DEF Grows

\* A name is given to a file.
LEMMA EnterRight ==
    ASSUME NEW f, FileSystem(f), NEW d \in DOMAIN f.dir, NEW n, NEW id \in DOMAIN f.file
    PROVE  /\ FileSystem(Enter(f, d, n, id))
           /\ Grows(f, Enter(f, d, n, id))
           /\ Enter(f, d, n, id).file = f.file
<1> DEFINE g == Linked(f, d, n, id)
<1>1. FileSystem(g) /\ Grows(f, g) /\ g.file = f.file
  BY LinkedRight
<1>2. /\ FileSystem(Touched(g, {d})) /\ Grows(g, Touched(g, {d}))
      /\ Touched(g, {d}).file = g.file
  BY <1>1, TouchedRight
<1> HIDE DEF g
<1>3. Grows(f, Touched(g, {d}))
  BY <1>1, <1>2, GrowsTransitive
<1> QED
  BY <1>1, <1>2, <1>3 DEF Enter, g

\* A file is made: those there were stay as they are.
LEMMA NewRight ==
    ASSUME NEW f, FileSystem(f), NEW d \in DOMAIN f.dir, NEW n,
           NEW ftype \in AnyType
    PROVE  LET res == New(f, d, n, ftype)
           IN  FileSystem(res.fs) /\ Grows(f, res.fs)
<1> DEFINE file == [ftype |-> ftype, ctime |-> 0, data |-> FALSE]
           files == Append(f.file, file)
           g == [f EXCEPT !.file = files]
           new == Len(f.file) + 1
<1>1. file \in File
  BY Zenon DEF File
<1>2. f.file \in Seq(File)
  BY DEF FileSystem
<1> HIDE DEF file
<1>3. /\ files \in Seq(File)
      /\ DOMAIN f.file \subseteq DOMAIN files
      /\ new \in DOMAIN files
      /\ \A id \in DOMAIN f.file : files[id] = f.file[id]
  BY <1>1, <1>2, AppendProperties
<1> HIDE DEF files
<1>4. /\ DOMAIN g = {"dir", "ver", "file"}
      /\ g.dir = f.dir /\ g.ver = f.ver /\ g.file = files
  BY DEF FileSystem
<1>5. FileSystem(g)
  BY <1>3, <1>4 DEF FileSystem
<1>6. Grows(f, g)
  <2>1. Grows(f, f)
    BY GrowsReflexive
  <2> QED
    BY <2>1, <1>3, <1>4 DEF Grows
<1>7. /\ FileSystem(Enter(g, d, n, new)) /\ Grows(g, Enter(g, d, n, new))
      /\ Enter(g, d, n, new).file = files
  BY <1>3, <1>4, <1>5, EnterRight
<1>8. Grows(f, Enter(g, d, n, new))
  BY <1>5, <1>6, <1>7, GrowsTransitive
<1>9. New(f, d, n, ftype) = Ok(Enter(g, d, n, new), new)
  BY DEF New, file, files
<1> HIDE DEF g, new
<1> QED
  BY <1>3, <1>7, <1>8, <1>9 DEF Ok

\* The result of a call that may change names.
Outcome(f, res) == FileSystem(res.fs) /\ Grows(f, res.fs)

\* A call that changes nothing, whether it fails or not.
LEMMA ErrRight ==
    ASSUME NEW f, FileSystem(f), NEW id
    PROVE  Outcome(f, Err(f)) /\ Outcome(f, Ok(f, id))
BY GrowsReflexive DEF Outcome, Err, Ok

\* create, of a new file or of one that is there.
LEMMA CreateRight ==
    ASSUME NEW f, FileSystem(f), NEW d \in DOMAIN f.dir, NEW n, NEW set, NEW can
    PROVE  Outcome(f, create(f, d, n, set, can))
<1>0. Outcome(f, Err(f))
  BY ErrRight
<1>1. CASE ~Has(f, d, n)
  <2> DEFINE res == New(f, d, n, "reg")
  <2>1. FileSystem(res.fs) /\ Grows(f, res.fs)
    BY NewRight DEF AnyType
  <2>2. \A made, lost : [made EXCEPT !.lost = lost].fs = made.fs \/ "fs" \notin DOMAIN made
    OBVIOUS
  <2>3. "fs" \in DOMAIN res
    BY DEF New, Ok
  <2>4. create(f, d, n, set, can) = [res EXCEPT !.lost = set \ can]
    BY <1>1 DEF create
  <2> HIDE DEF res
  <2> QED
    BY <2>1, <2>2, <2>3, <2>4 DEF Outcome
<1>2. CASE Has(f, d, n)
  <2>1. f.dir[d][n] \in DOMAIN f.file
    BY <1>2 DEF FileSystem, Has, Range
  <2>2. OnlyFiles(f, Changed(f, f.dir[d][n], FALSE))
    BY <2>1, FileChanges
  <2> QED
    BY <1>0, <1>2, <2>2 DEF create, Outcome, OnlyFiles, Ok
<1> QED
  BY <1>1, <1>2

\* mkdir, symlink and mknod.
LEMMA MakeRight ==
    ASSUME NEW f, FileSystem(f), NEW d \in DOMAIN f.dir, NEW n, NEW ftype \in AnyType
    PROVE  Outcome(f, make(f, d, n, ftype))
<1> DEFINE res == New(f, d, n, ftype)
<1>2. FileSystem(res.fs) /\ Grows(f, res.fs)
  BY NewRight
<1>3. make(f, d, n, ftype) \in {res, Err(f)}
  BY DEF make
<1> HIDE DEF res
<1> QED
  BY <1>2, <1>3, ErrRight DEF Outcome

\* link, of a file that has a name.
LEMMA LinkRight ==
    ASSUME NEW f, FileSystem(f), NEW id, NEW d \in DOMAIN f.dir, NEW n
    PROVE  Outcome(f, link(f, id, d, n))
<1>1. CASE Live(f, id)
  <2>1. FileSystem(Enter(f, d, n, id)) /\ Grows(f, Enter(f, d, n, id))
    BY <1>1, NamesLead, EnterRight
  <2> QED
    BY <2>1, ErrRight DEF link, Outcome, Ok
<1>2. CASE ~Live(f, id)
  BY <1>2, ErrRight DEF link
<1> QED
  BY <1>1, <1>2

\* A name taken away.
LEMMA RemoveRight ==
    ASSUME NEW f, FileSystem(f), NEW d \in DOMAIN f.dir, NEW n
    PROVE  Outcome(f, remove(f, d, n))
<1> DEFINE g == Unlinked(f, d, n)
           h == Touched(g, {d})
<1>1. FileSystem(g) /\ Grows(f, g)
  BY UnlinkedRight
<1>2. FileSystem(h) /\ Grows(g, h)
  BY <1>1, TouchedRight
<1>3. CASE ~Has(f, d, n)
  BY <1>3, ErrRight DEF remove
<1>4. CASE Has(f, d, n)
  <2> HIDE DEF g, h
  <2>1. Grows(f, h)
    BY <1>1, <1>2, GrowsTransitive
  <2>2. remove(f, d, n) = Ok(h, 0)
    BY <1>4 DEF remove, g, h
  <2> QED
    BY <1>2, <2>1, <2>2 DEF Outcome, Ok
<1> QED
  BY <1>3, <1>4

\* rename, after which both directories are older by the same.
LEMMA RenameRight ==
    ASSUME NEW f, FileSystem(f), NEW d \in DOMAIN f.dir, NEW n, NEW e \in DOMAIN f.dir, NEW m
    PROVE  LET g == rename(f, d, n, e, m).fs
           IN  /\ Outcome(f, rename(f, d, n, e, m))
               /\ g.ver[e] = f.ver[e] + (g.ver[d] - f.ver[d])
<1>1. f.ver[d] \in Nat /\ f.ver[e] \in Nat
  BY DEF FileSystem
<1>2. CASE rename(f, d, n, e, m) \in {Err(f), Ok(f, 0)}
  <2>1. rename(f, d, n, e, m).fs = f
    <3>1. Err(f).fs = f /\ Ok(f, 0).fs = f
      BY DEF Ok, Err
    <3> QED
      BY <1>2, <3>1
  <2>2. Outcome(f, rename(f, d, n, e, m))
    BY <2>1, GrowsReflexive DEF Outcome
  <2> QED
    BY <1>1, <2>1, <2>2
<1>3. CASE rename(f, d, n, e, m) \notin {Err(f), Ok(f, 0)}
  <2> DEFINE id == f.dir[d][n]
             g == Unlinked(f, d, n)
             h == Linked(g, e, m, id)
             k == Touched(h, {d, e})
  <2>1. Has(f, d, n) /\ rename(f, d, n, e, m) = Ok(k, 0)
    BY <1>3 DEF rename
  <2>2. id \in DOMAIN f.file
    BY <2>1 DEF FileSystem, Has, Range
  <2>3. /\ FileSystem(g) /\ Grows(f, g) /\ g.file = f.file /\ g.ver = f.ver
        /\ DOMAIN g.dir = DOMAIN f.dir
    BY UnlinkedRight
  <2> HIDE DEF id, g
  <2>4. /\ FileSystem(h) /\ Grows(g, h) /\ h.ver = g.ver /\ DOMAIN h.dir = DOMAIN g.dir
    <3>1. id \in DOMAIN g.file /\ e \in DOMAIN g.dir
      BY <2>2, <2>3
    <3> QED
      BY <2>3, <3>1, LinkedRight, SMTT(10)
  <2> HIDE DEF h
  <2>5. /\ FileSystem(k) /\ Grows(h, k)
        /\ k.ver[d] = f.ver[d] + 1 /\ k.ver[e] = f.ver[e] + 1
    BY <2>3, <2>4, TouchedRight
  <2> HIDE DEF k
  <2>6. Grows(f, h)
    BY <2>3, <2>4, GrowsTransitive
  <2>7. Grows(f, k)
    BY <2>4, <2>5, <2>6, GrowsTransitive
  <2> QED
    BY <1>1, <2>1, <2>5, <2>7 DEF Outcome, Ok
<1> QED
  BY <1>2, <1>3

------------------------------------------------------------------------------
(* What sets the handlers apart, without the file system as it is now.     *)

Writing == {"CREATE", "MKDIR", "SYMLINK", "MKNOD", "LINK", "REMOVE", "RMDIR", "RENAME",
            "SETATTR", "WRITE"}
Blind == {"FSSTAT", "FSINFO"}
ObjectsOf(r) ==
    IF r.proc = "RENAME" THEN <<r.d, r.to>>
    ELSE IF r.proc \in DirProcs THEN <<r.d>> ELSE <<r.id>>
Looks(r) ==
    \/ r.proc \in {"RMDIR", "LOOKUP"}
    \/ r.proc = "CREATE" /\ r.how \in {"UNCHECKED", "GUARDED"}

\* What is to be said of a procedure apart from the operation.
LEMMA HandlerRight ==
    ASSUME NEW r, Askable(r, fs)
    PROVE  /\ Handler(r).objects = ObjectsOf(r)
           /\ Handler(r).writes <=> r.proc \in Writing
           /\ Handler(r).stat = "no" <=> r.proc \in Blind
           /\ Handler(r).look <=> Looks(r)
           /\ Handler(r).post = "always" <=> r.proc \in DirProcs
           /\ Handler(r).post # "no" <=> r.proc \in DirProcs \cup {"COMMIT", "FSSTAT"}
<1> USE DEF ObjectsOf, Writing, Blind, Looks, DirProcs, InDir, OnFile
<1>1. CASE r.proc = "LOOKUP"
  <2>1. Handler(r) = nfsproc3_lookup(r)
    BY <1>1 DEF Handler, handle_nfs
  <2> QED
    BY <1>1, <2>1 DEF nfsproc3_lookup
<1>2. CASE r.proc = "CREATE"
  <2>1. Handler(r) = nfsproc3_create(r, Settable)
    BY <1>2 DEF Handler, handle_nfs
  <2> DEFINE look == r.how \in {"UNCHECKED", "GUARDED"}
             op == IF r.how = "EXCLUSIVE" THEN create_exclusive(fs, r.d, r.n)
                   ELSE create(fs, r.d, r.n, r.set, Settable)
  <2>3. Handler(r) = InDir(r, look, op)
    BY <2>1, Zenon DEF nfsproc3_create
  <2> HIDE DEF look, op
  <2>4. /\ Handler(r).objects = <<r.d>> /\ Handler(r).writes /\ Handler(r).stat = "must"
        /\ Handler(r).post = "always"
    BY <2>3
  <2>5. Handler(r).look <=> look
    BY <2>3
  <2> QED
    BY <1>2, <2>4, <2>5 DEF look
<1>3. CASE r.proc = "MKDIR"
  <2>1. Handler(r) = nfsproc3_mkdir(r)
    BY <1>3 DEF Handler, handle_nfs
  <2> QED
    BY <1>3, <2>1 DEF nfsproc3_mkdir
<1>4. CASE r.proc = "SYMLINK"
  <2>1. Handler(r) = nfsproc3_symlink(r)
    BY <1>4 DEF Handler, handle_nfs
  <2> QED
    BY <1>4, <2>1 DEF nfsproc3_symlink
<1>5. CASE r.proc = "MKNOD"
  <2>1. Handler(r) = nfsproc3_mknod(r)
    BY <1>5 DEF Handler, handle_nfs
  <2> QED
    BY <1>5, <2>1 DEF nfsproc3_mknod
<1>6. CASE r.proc = "LINK"
  <2>1. Handler(r) = nfsproc3_link(r)
    BY <1>6 DEF Handler, handle_nfs
  <2> QED
    BY <1>6, <2>1 DEF nfsproc3_link
<1>7. CASE r.proc = "REMOVE"
  <2>1. Handler(r) = nfsproc3_remove(r)
    BY <1>7 DEF Handler, handle_nfs
  <2> QED
    BY <1>7, <2>1 DEF nfsproc3_remove
<1>8. CASE r.proc = "RMDIR"
  <2>1. Handler(r) = nfsproc3_rmdir(r)
    BY <1>8 DEF Handler, handle_nfs
  <2> QED
    BY <1>8, <2>1 DEF nfsproc3_rmdir
<1>9. CASE r.proc = "RENAME"
  <2>1. Handler(r) = nfsproc3_rename(r)
    BY <1>9 DEF Handler, handle_nfs
  <2> QED
    BY <1>9, <2>1 DEF nfsproc3_rename
<1>10. CASE r.proc = "GETATTR"
  <2>1. Handler(r) = nfsproc3_getattr(r)
    BY <1>10 DEF Handler, handle_nfs
  <2> QED
    BY <1>10, <2>1 DEF nfsproc3_getattr
<1>11. CASE r.proc = "SETATTR"
  <2>1. Handler(r) = nfsproc3_setattr(r, Settable)
    BY <1>11 DEF Handler, handle_nfs
  <2> QED
    BY <1>11, <2>1 DEF nfsproc3_setattr
<1>12. CASE r.proc = "ACCESS"
  <2>1. Handler(r) = nfsproc3_access(r)
    BY <1>12 DEF Handler, handle_nfs
  <2> QED
    BY <1>12, <2>1 DEF nfsproc3_access
<1>13. CASE r.proc = "READLINK"
  <2>1. Handler(r) = nfsproc3_readlink(r)
    BY <1>13 DEF Handler, handle_nfs
  <2> QED
    BY <1>13, <2>1 DEF nfsproc3_readlink
<1>14. CASE r.proc = "READ"
  <2>1. Handler(r) = nfsproc3_read(r)
    BY <1>14 DEF Handler, handle_nfs
  <2> QED
    BY <1>14, <2>1 DEF nfsproc3_read
<1>15. CASE r.proc = "WRITE"
  <2>1. Handler(r) = nfsproc3_write(r)
    BY <1>15 DEF Handler, handle_nfs
  <2> QED
    BY <1>15, <2>1 DEF nfsproc3_write
<1>16. CASE r.proc = "COMMIT"
  <2>1. Handler(r) = nfsproc3_commit(r)
    BY <1>16 DEF Handler, handle_nfs
  <2> QED
    BY <1>16, <2>1 DEF nfsproc3_commit
<1>17. CASE r.proc = "FSSTAT"
  <2>1. Handler(r) = nfsproc3_fsstat(r)
    BY <1>17 DEF Handler, handle_nfs
  <2> QED
    BY <1>17, <2>1 DEF nfsproc3_fsstat
<1>18. CASE r.proc = "FSINFO"
  <2>1. Handler(r) = nfsproc3_fsinfo(r)
    BY <1>18 DEF Handler, handle_nfs
  <2> QED
    BY <1>18, <2>1 DEF nfsproc3_fsinfo
<1>19. CASE r.proc = "PATHCONF"
  <2>1. Handler(r) = nfsproc3_pathconf(r)
    BY <1>19 DEF Handler, handle_nfs
  <2> QED
    BY <1>19, <2>1 DEF nfsproc3_pathconf
<1> QED
  BY <1>1, <1>2, <1>3, <1>4, <1>5, <1>6, <1>7, <1>8, <1>9, <1>10,
     <1>11, <1>12, <1>13, <1>14, <1>15, <1>16, <1>17, <1>18, <1>19 DEF Askable, FileProcs

\* The attributes of every object of a call change by the same.
Alike(f, g, objects) ==
    \A i \in DOMAIN objects :
        /\ getattr(g, objects[i])
             = getattr(f, objects[i]) + (getattr(g, objects[1]) - getattr(f, objects[1]))
        /\ getattr(g, objects[i]) = NoAttr <=> getattr(f, objects[i]) = NoAttr

\* Nothing has changed, so everything has by the same.
LEMMA AlikeSame ==
    ASSUME NEW f, FileSystem(f), NEW objects
    PROVE  Alike(f, f, objects)
BY AttrIsAge DEF Alike

\* One object changes by its own change.
LEMMA AlikeOne ==
    ASSUME NEW f, FileSystem(f), NEW g, FileSystem(g), NEW o,
           getattr(g, o) = NoAttr <=> getattr(f, o) = NoAttr
    PROVE  Alike(f, g, <<o>>)
<1>1. getattr(f, o) \in Int /\ getattr(g, o) \in Int
  BY AttrIsAge
<1> QED
  BY <1>1 DEF Alike

\* A directory always has attributes.
LEMMA DirectoryHas ==
    ASSUME NEW f, FileSystem(f), NEW g, Outcome(f, g), NEW d \in DOMAIN f.dir
    PROVE  /\ FileSystem(g.fs)
           /\ getattr(f, d) # NoAttr /\ getattr(g.fs, d) # NoAttr
           /\ Alike(f, g.fs, <<d>>)
<1>1. FileSystem(g.fs) /\ DOMAIN g.fs.dir = DOMAIN f.dir
  BY DEF Outcome, Grows
<1>2. getattr(f, d) \in Nat /\ getattr(g.fs, d) \in Nat
  BY <1>1, AttrIsAge
<1>3. getattr(f, d) # NoAttr /\ getattr(g.fs, d) # NoAttr
  BY <1>2 DEF NoAttr
<1> QED
  BY <1>1, <1>3, AlikeOne

\* What the call of the file system does, whatever the procedure: nothing gets
\* lost or younger, and only a procedure that writes changes anything.
LEMMA EffectRight ==
    ASSUME FileSystem(fs), NEW r, Askable(r, fs), NEW can
    PROVE  LET res == handle_nfs(r, can).op
           IN  /\ Outcome(fs, res)
               /\ r.proc \notin Writing => res.fs = fs
               /\ Alike(fs, res.fs, ObjectsOf(r))
<1> DEFINE res == handle_nfs(r, can).op
<1>1. CASE r.proc \in FileProcs \ {"SETATTR", "WRITE"}
  <2>1. res.fs = fs
    <3>1. CASE r.proc = "GETATTR"
      <4>1. handle_nfs(r, can) = nfsproc3_getattr(r)
        BY <3>1 DEF handle_nfs
      <4> QED
        BY <4>1 DEF nfsproc3_getattr, OnFile, consult, Ok, Err
    <3>2. CASE r.proc = "ACCESS"
      <4>1. handle_nfs(r, can) = nfsproc3_access(r)
        BY <3>2 DEF handle_nfs
      <4> QED
        BY <4>1 DEF nfsproc3_access, OnFile, consult, Ok, Err
    <3>3. CASE r.proc = "READLINK"
      <4>1. handle_nfs(r, can) = nfsproc3_readlink(r)
        BY <3>3 DEF handle_nfs
      <4> QED
        BY <4>1 DEF nfsproc3_readlink, OnFile, consult, Ok, Err
    <3>4. CASE r.proc = "READ"
      <4>1. handle_nfs(r, can) = nfsproc3_read(r)
        BY <3>4 DEF handle_nfs
      <4> QED
        BY <4>1 DEF nfsproc3_read, OnFile, consult, Ok, Err
    <3>5. CASE r.proc = "COMMIT"
      <4>1. handle_nfs(r, can) = nfsproc3_commit(r)
        BY <3>5 DEF handle_nfs
      <4> QED
        BY <4>1 DEF nfsproc3_commit, OnFile, consult, Ok, Err
    <3>6. CASE r.proc = "FSSTAT"
      <4>1. handle_nfs(r, can) = nfsproc3_fsstat(r)
        BY <3>6 DEF handle_nfs
      <4> QED
        BY <4>1 DEF nfsproc3_fsstat, OnFile, consult, Ok, Err
    <3>7. CASE r.proc = "FSINFO"
      <4>1. handle_nfs(r, can) = nfsproc3_fsinfo(r)
        BY <3>7 DEF handle_nfs
      <4> QED
        BY <4>1 DEF nfsproc3_fsinfo, OnFile, consult, Ok, Err
    <3>8. CASE r.proc = "PATHCONF"
      <4>1. handle_nfs(r, can) = nfsproc3_pathconf(r)
        BY <3>8 DEF handle_nfs
      <4> QED
        BY <4>1 DEF nfsproc3_pathconf, OnFile, consult, Ok, Err
    <3> QED
      BY <1>1, <3>1, <3>2, <3>3, <3>4, <3>5, <3>6, <3>7, <3>8 DEF FileProcs
  <2> HIDE DEF res
  <2>2. r.proc \in Writing => FALSE
    BY <1>1 DEF Writing, FileProcs
  <2> QED
    BY <2>1, <2>2, GrowsReflexive, AlikeSame DEF Outcome, res
<1>2. CASE r.proc \in {"SETATTR", "WRITE"}
  <2>1. OnlyFiles(fs, res.fs)
    <3>1. CASE r.proc = "SETATTR"
      <4>1. handle_nfs(r, can) = nfsproc3_setattr(r, can)
        BY <3>1 DEF handle_nfs
      <4>2. res = setattr(fs, r.id, r.set, can)
        BY <4>1 DEF nfsproc3_setattr, OnFile
      <4> QED
        BY <4>2, SetattrRight
    <3>2. CASE r.proc = "WRITE"
      <4>1. handle_nfs(r, can) = nfsproc3_write(r)
        BY <3>2 DEF handle_nfs
      <4>2. res = write(fs, r.id)
        BY <4>1 DEF nfsproc3_write, OnFile
      <4> QED
        BY <4>2, WriteRight
    <3> QED
      BY <1>2, <3>1, <3>2
  <2> HIDE DEF res
  <2>2. Outcome(fs, res)
    BY <2>1 DEF OnlyFiles, Outcome
  <2>3. ObjectsOf(r) = <<r.id>> /\ r.proc \in Writing
    BY <1>2 DEF ObjectsOf, DirProcs, Writing
  <2>4. getattr(res.fs, r.id) = NoAttr <=> getattr(fs, r.id) = NoAttr
    BY <2>1, SameNames
  <2>5. Alike(fs, res.fs, <<r.id>>)
    BY <2>2, <2>4, AlikeOne DEF Outcome
  <2> QED
    BY <2>2, <2>3, <2>5 DEF res
<1>3. CASE r.proc \in DirProcs \ {"RENAME"}
  <2>0. r.d \in DOMAIN fs.dir
    BY <1>3 DEF Askable
  <2>1. Outcome(fs, res) /\ (r.proc = "LOOKUP" => res.fs = fs)
    <3>9. {"dir", "lnk", "node"} \subseteq AnyType
      BY DEF AnyType
    <3>1. CASE r.proc = "LOOKUP"
      <4>1. handle_nfs(r, can) = nfsproc3_lookup(r)
        BY <3>1 DEF handle_nfs
      <4>2. res = lookup(fs, r.d, r.n)
        BY <4>1 DEF nfsproc3_lookup, InDir
      <4> QED
        BY <2>0, <3>1, <4>2, ErrRight DEF lookup, Ok, Err
    <3>2. CASE r.proc = "MKDIR"
      <4>1. handle_nfs(r, can) = nfsproc3_mkdir(r)
        BY <3>2 DEF handle_nfs
      <4>2. res = make(fs, r.d, r.n, "dir")
        BY <4>1 DEF nfsproc3_mkdir, InDir
      <4> QED
        BY <2>0, <3>2, <4>2, <3>9, MakeRight
    <3>3. CASE r.proc = "SYMLINK"
      <4>1. handle_nfs(r, can) = nfsproc3_symlink(r)
        BY <3>3 DEF handle_nfs
      <4>2. res = make(fs, r.d, r.n, "lnk")
        BY <4>1 DEF nfsproc3_symlink, InDir
      <4> QED
        BY <2>0, <3>3, <4>2, <3>9, MakeRight
    <3>4. CASE r.proc = "MKNOD"
      <4>1. handle_nfs(r, can) = nfsproc3_mknod(r)
        BY <3>4 DEF handle_nfs
      <4>2. res = make(fs, r.d, r.n, "node")
        BY <4>1 DEF nfsproc3_mknod, InDir
      <4> QED
        BY <2>0, <3>4, <4>2, <3>9, MakeRight
    <3>5. CASE r.proc = "LINK"
      <4>1. handle_nfs(r, can) = nfsproc3_link(r)
        BY <3>5 DEF handle_nfs
      <4>2. res = link(fs, r.id, r.d, r.n)
        BY <4>1 DEF nfsproc3_link, InDir
      <4> QED
        BY <2>0, <3>5, <4>2, LinkRight
    <3>6. CASE r.proc = "REMOVE"
      <4>1. handle_nfs(r, can) = nfsproc3_remove(r)
        BY <3>6 DEF handle_nfs
      <4>2. res = remove(fs, r.d, r.n)
        BY <4>1 DEF nfsproc3_remove, InDir
      <4> QED
        BY <2>0, <3>6, <4>2, RemoveRight
    <3>7. CASE r.proc = "RMDIR"
      <4>1. handle_nfs(r, can) = nfsproc3_rmdir(r)
        BY <3>7 DEF handle_nfs
      <4>2. res = remove(fs, r.d, r.n)
        BY <4>1 DEF nfsproc3_rmdir, InDir
      <4> QED
        BY <2>0, <3>7, <4>2, RemoveRight
    <3>8. CASE r.proc = "CREATE"
      <4>1. handle_nfs(r, can) = nfsproc3_create(r, can)
        BY <3>8 DEF handle_nfs
      <4>2. res = IF r.how = "EXCLUSIVE" THEN Err(fs) ELSE create(fs, r.d, r.n, r.set, can)
        BY <4>1 DEF nfsproc3_create, InDir, create_exclusive
      <4> QED
        BY <2>0, <3>8, <4>2, CreateRight, ErrRight
    <3> QED
      BY <1>3, <3>1, <3>2, <3>3, <3>4, <3>5, <3>6, <3>7, <3>8 DEF DirProcs
  <2> HIDE DEF res
  <2>2. ObjectsOf(r) = <<r.d>>
    BY <1>3 DEF ObjectsOf, DirProcs
  <2>3. r.proc \notin Writing => r.proc = "LOOKUP"
    BY <1>3 DEF DirProcs, Writing
  <2>4. Alike(fs, res.fs, <<r.d>>)
    BY <2>0, <2>1, DirectoryHas
  <2> QED
    BY <2>1, <2>2, <2>3, <2>4 DEF res
<1>4. CASE r.proc = "RENAME"
  <2>0. r.d \in DOMAIN fs.dir /\ r.to \in DOMAIN fs.dir
    BY <1>4 DEF Askable, DirProcs
  <2>1. handle_nfs(r, can) = nfsproc3_rename(r)
    BY <1>4 DEF handle_nfs
  <2>2. res = rename(fs, r.d, r.n, r.to, r.as)
    BY <2>1 DEF nfsproc3_rename, InDir
  <2>3. /\ Outcome(fs, res)
        /\ res.fs.ver[r.to] = fs.ver[r.to] + (res.fs.ver[r.d] - fs.ver[r.d])
    BY <2>0, <2>2, RenameRight
  <2> HIDE DEF res
  <2>4. ObjectsOf(r) = <<r.d, r.to>> /\ r.proc \in Writing
    BY <1>4 DEF ObjectsOf, Writing
  <2>5. FileSystem(res.fs) /\ DOMAIN res.fs.dir = DOMAIN fs.dir
    BY <2>3 DEF Outcome, Grows
  <2>6. \A d \in {r.d, r.to} : /\ getattr(fs, d) = fs.ver[d] /\ fs.ver[d] \in Nat
                               /\ getattr(res.fs, d) = res.fs.ver[d] /\ res.fs.ver[d] \in Nat
    BY <2>0, <2>5, AttrIsAge
  <2>7. Alike(fs, res.fs, <<r.d, r.to>>)
    BY <2>3, <2>6 DEF Alike, NoAttr
  <2> QED
    BY <2>3, <2>4, <2>7 DEF res
<1> QED
  BY <1>1, <1>2, <1>3, <1>4 DEF Askable, DirProcs, FileProcs

\* Where setattr succeeds, only the mode may not be what was asked for.
LEMMA SetattrLoses ==
    ASSUME NEW f, NEW id, NEW set \in SUBSET Settable, NEW can, setattr(f, id, set, can).ok
    PROVE  setattr(f, id, set, can).lost \subseteq {"mode"}
<1>1. setattr(f, id, set, can) = path_setattr(f, id, set, can)
  BY DEF setattr, Err
<1>2. /\ "size" \in set => "size" \in can
      /\ \E done : path_setattr(f, id, set, can) = [Ok(done, id) EXCEPT !.lost = set \ can]
  <2>1. \A g : ~Err(g).ok
    BY DEF Err
  <2> QED
    BY <1>1, <2>1, Zenon DEF path_setattr
<1>3. path_setattr(f, id, set, can).lost = set \ can
  BY <1>2 DEF Ok
<1> QED
  BY <1>1, <1>2, <1>3 DEF Settable

\* So it is of all other calls but create.
LEMMA LostLittle ==
    ASSUME NEW r, Askable(r, fs), r.proc # "CREATE", NEW can, handle_nfs(r, can).op.ok
    PROVE  handle_nfs(r, can).op.lost \subseteq {"mode"}
<1> DEFINE res == handle_nfs(r, can).op
<1>1. CASE r.proc = "SETATTR"
  <2>1. handle_nfs(r, can) = nfsproc3_setattr(r, can)
    BY <1>1 DEF handle_nfs
  <2>2. res = setattr(fs, r.id, r.set, can)
    BY <2>1 DEF nfsproc3_setattr, OnFile
  <2> QED
    BY <1>1, <2>2, SetattrLoses DEF Askable
<1>2. CASE r.proc \in FileProcs \ {"SETATTR"}
  <2>1. \/ res = write(fs, r.id)
        \/ res = Ok(fs, r.id)
        \/ \E types : res = consult(fs, r.id, types)
    <3> USE DEF handle_nfs, OnFile
    <3>1. CASE r.proc \in {"WRITE", "FSSTAT", "FSINFO"}
      BY <3>1 DEF nfsproc3_write, nfsproc3_fsstat, nfsproc3_fsinfo
    <3>2. CASE r.proc \in {"READ", "READLINK", "ACCESS"}
      BY <3>2 DEF nfsproc3_read, nfsproc3_readlink, nfsproc3_access
    <3>3. CASE r.proc \in {"GETATTR", "PATHCONF", "COMMIT"}
      BY <3>3 DEF nfsproc3_getattr, nfsproc3_pathconf, nfsproc3_commit
    <3> QED
      BY <1>2, <3>1, <3>2, <3>3 DEF FileProcs
  <2> QED
    BY <2>1 DEF write, consult, Ok, Err
<1>3. CASE r.proc \in DirProcs \ {"CREATE"}
  <2>1. \/ \E type : res = make(fs, r.d, r.n, type)
        \/ res \in {link(fs, r.id, r.d, r.n), remove(fs, r.d, r.n), lookup(fs, r.d, r.n)}
        \/ res = rename(fs, r.d, r.n, r.to, r.as)
    <3> USE DEF handle_nfs, InDir
    <3>1. CASE r.proc \in {"MKDIR", "SYMLINK", "MKNOD"}
      BY <3>1 DEF nfsproc3_mkdir, nfsproc3_symlink, nfsproc3_mknod
    <3>2. CASE r.proc \in {"LINK", "REMOVE", "RMDIR"}
      BY <3>2 DEF nfsproc3_link, nfsproc3_remove, nfsproc3_rmdir
    <3>3. CASE r.proc = "LOOKUP"
      BY <3>3 DEF nfsproc3_lookup
    <3>4. CASE r.proc = "RENAME"
      BY <3>4 DEF nfsproc3_rename
    <3> QED
      BY <1>3, <3>1, <3>2, <3>3, <3>4 DEF DirProcs
  <2>2. res.lost = {}
    <3>1. \A f, id : Ok(f, id).lost = {} /\ Err(f).lost = {}
      BY DEF Ok, Err
    <3>2. \/ \E f, id : res = Ok(f, id)
          \/ \E f : res = Err(f)
      BY <2>1, Zenon DEF make, New, link, remove, lookup, rename
    <3> QED
      BY <3>1, <3>2
  <2> QED
    BY <2>2
<1> QED
  BY <1>1, <1>2, <1>3 DEF Askable

------------------------------------------------------------------------------
(* The inductive invariant: what is known of a call, where its handler is. *)

Fields == {"at", "req", "pre", "post", "id", "stat", "wcc", "own", "op", "set", "lost",
           "seen", "missed", "data"}
Running == {"stat", "access", "look", "check", "act", "post", "set"}

\* An answer, or what will be one, is honest about the change.
Honest(x) ==
    /\ x.stat = "OK" => /\ "failed" \notin {x.op, x.set}
                        /\ (x.req.proc = "CREATE" /\ x.op = "ok") \/ x.lost \subseteq {"mode"}
    /\ "ok" \in {x.op, x.set} =>
           \/ x.stat = "OK"
           \/ x.req.proc = "MKDIR" /\ x.op = "ok" /\ x.set = "failed"

\* The attributes of all the objects were read.
Full(x) == Len(x.pre) = Len(ObjectsOf(x.req))

\* Before the operation nothing has happened, and what was read is not newer
\* than what there is.
Ready(f, x) ==
    /\ DOMAIN x = Fields
    /\ x.req \in Requests
    /\ x.pre \in Seq(Int)
    /\ x.post = <<>>
    /\ x.own = 0
    /\ x.stat = "OK" /\ x.op = "none" /\ x.set = "none" /\ x.lost = {}
    /\ Len(x.pre) <= Len(ObjectsOf(x.req))
    /\ \A i \in DOMAIN x.pre :
           x.pre[i] = NoAttr \/ x.pre[i] <= Age(f, ObjectsOf(x.req)[i])

\* What a handler has made sure of when it acts: CREATE that the name was free
\* when it looked, RMDIR that it found a directory, and SETATTR that the guard is
\* what it read.
Sure(f, x) ==
    /\ (x.req.proc = "CREATE" /\ x.req.how # "EXCLUSIVE") => x.missed \/ x.seen = 0
    /\ x.req.proc = "RMDIR" => x.id \in DOMAIN f.file /\ IsDir(f, x.id)
    /\ x.req.proc = "SETATTR" => x.req.guard = NoAttr \/ x.req.guard = x.pre[1]

\* After it the objects are newer than what was read, by the call's own change,
\* and so is what was read since.
Acted(f, x) ==
    /\ DOMAIN x = Fields
    /\ x.req \in Requests
    /\ x.pre \in Seq(Int)
    /\ x.post \in Seq(Int)
    /\ x.own \in Int
    /\ Honest(x)
    /\ x.req.proc \notin Blind => Full(x)
    /\ Len(x.pre) <= Len(ObjectsOf(x.req))
    /\ Len(x.post) <= Len(ObjectsOf(x.req))
    /\ x.own > 0 =>
           \A i \in DOMAIN x.pre :
               /\ x.pre[i] = NoAttr \/ x.pre[i] < Age(f, ObjectsOf(x.req)[i])
               /\ i \in DOMAIN x.post => NoAttr \in {x.pre[i], x.post[i]} \/ x.pre[i] < x.post[i]

Answered(x) ==
    /\ DOMAIN x = Fields
    /\ x.req \in Requests
    /\ Honest(x)
    /\ x.own > 0 =>
           \A i \in DOMAIN x.wcc :
               NoAttr \notin {x.wcc[i][1], x.wcc[i][2]} => x.wcc[i][1] < x.wcc[i][2]
    /\ (x.req.proc = "READ" /\ x.stat = "OK") => x.data >= x.post[1]

CallInv(f, x) ==
    /\ x.at \in {"idle", "done"} \cup Running
    /\ x.at = "idle" => x = Blank
    /\ x.at = "stat" => /\ Ready(f, x) /\ Len(x.pre) < Len(ObjectsOf(x.req))
                        /\ x.req.proc \notin Blind
    /\ x.at = "access" => Ready(f, x) /\ Full(x)
    /\ x.at = "look" => Ready(f, x) /\ Full(x) /\ Looks(x.req)
    /\ x.at = "check" => /\ Ready(f, x) /\ Full(x) /\ x.req.proc \in {"RMDIR", "LOOKUP"}
                         /\ x.id \in DOMAIN f.file
    /\ x.at = "act" => Ready(f, x) /\ (Full(x) \/ x.req.proc \in Blind) /\ Sure(f, x)
    /\ x.at = "post" => /\ Acted(f, x) /\ Len(x.post) < Len(ObjectsOf(x.req))
                        /\ x.req.proc \notin {"READ", "FSINFO"}
    /\ x.at = "set" => /\ Acted(f, x) /\ x.stat = "OK"
                       /\ \/ x.req.proc = "MKDIR" /\ Len(x.post) = Len(ObjectsOf(x.req))
                          \/ x.req.proc = "CREATE" /\ x.own = 0 /\ x.post = <<>> /\ x.op = "none"
    /\ x.at = "done" => Answered(x)

FsInv == FileSystem(fs) /\ \A r \in Requests : Askable(r, fs)

Inv == FsInv /\ DOMAIN call = Calls /\ \A c \in Calls : CallInv(fs, call[c])

\* One object, or the two directories of a RENAME.
LEMMA ObjectsTyped ==
    ASSUME NEW r
    PROVE  /\ Len(ObjectsOf(r)) \in {1, 2}
           /\ Len(ObjectsOf(r)) \in Nat /\ 0 < Len(ObjectsOf(r)) /\ 0 <= Len(ObjectsOf(r))
           /\ DOMAIN ObjectsOf(r) = 1..Len(ObjectsOf(r))
           /\ r.proc # "RENAME" => Len(ObjectsOf(r)) = 1
           /\ r.proc \in FileProcs => ObjectsOf(r) = <<r.id>>
<1>1. CASE r.proc = "RENAME"
  <2>1. ObjectsOf(r) = <<r.d, r.to>> /\ r.proc \notin FileProcs
    BY <1>1 DEF ObjectsOf, FileProcs
  <2> QED
    BY <1>1, <2>1
<1>2. CASE r.proc # "RENAME"
  <2>1. ObjectsOf(r) \in {<<r.d>>, <<r.id>>}
    BY <1>2 DEF ObjectsOf
  <2>2. r.proc \in FileProcs => ObjectsOf(r) = <<r.id>>
    BY <1>2 DEF ObjectsOf, FileProcs, DirProcs
  <2>3. Len(ObjectsOf(r)) = 1 /\ DOMAIN ObjectsOf(r) = 1..1
    BY <2>1
  <2> QED
    BY <1>2, <2>2, <2>3
<1> QED
  BY <1>1, <1>2

\* An answer sets where the handler is, the status and the attributes.
LEMMA AnswerFields ==
    ASSUME NEW x, DOMAIN x = Fields, NEW s, NEW w
    PROVE  LET y == Answer(x, s, w)
           IN  /\ DOMAIN y = Fields /\ y.at = "done" /\ y.stat = s /\ y.wcc = w
               /\ y.req = x.req /\ y.pre = x.pre /\ y.post = x.post /\ y.id = x.id
               /\ y.own = x.own /\ y.op = x.op /\ y.set = x.set /\ y.lost = x.lost
               /\ y.data = x.data
BY DEF Answer, Fields

\* The handler goes on, with another status or another file in hand.
LEMMA MovesOn ==
    ASSUME NEW f, NEW x, Ready(f, x), NEW a, NEW i, NEW y,
           y \in {[x EXCEPT !.at = a], [x EXCEPT !.at = a, !.id = i]},
           a \in {"stat", "access", "look", "check", "act"},
           IF a = "stat" THEN Len(x.pre) < Len(ObjectsOf(x.req)) /\ x.req.proc \notin Blind
           ELSE Full(x) \/ (a = "act" /\ x.req.proc \in Blind),
           a = "look" => Looks(x.req),
           a = "check" => x.req.proc \in {"RMDIR", "LOOKUP"} /\ y.id \in DOMAIN f.file,
           a = "act" => Sure(f, y)
    PROVE  CallInv(f, y) /\ y.at = a
<1>1. DOMAIN x = Fields
  BY DEF Ready
<1>2. /\ DOMAIN y = Fields /\ y.at = a /\ y.req = x.req /\ y.pre = x.pre
      /\ y.post = x.post /\ y.own = x.own /\ y.stat = x.stat
      /\ y.op = x.op /\ y.set = x.set /\ y.lost = x.lost
  BY <1>1 DEF Fields
<1>3. Ready(f, y)
  BY <1>2 DEF Ready
<1> QED
  BY <1>2, <1>3 DEF CallInv, Full, Running

\* An answer before anything has happened.
LEMMA AnswersEarly ==
    ASSUME NEW f, NEW x, Ready(f, x), NEW s, NEW w, x.req.proc = "READ" => s # "OK"
    PROVE  CallInv(f, Answer(x, s, w))
<1> DEFINE y == Answer(x, s, w)
<1>1. DOMAIN x = Fields
  BY DEF Ready
<1>2. /\ DOMAIN y = Fields /\ y.at = "done" /\ y.stat = s
      /\ y.req = x.req /\ y.own = x.own /\ y.op = x.op /\ y.set = x.set /\ y.lost = x.lost
  BY <1>1, AnswerFields
<1> HIDE DEF y
<1>3. Answered(y)
  BY <1>2 DEF Ready, Answered, Honest
<1> QED
  BY <1>2, <1>3 DEF CallInv, y

\* An error that the handler finds itself: the attributes are read again.
LEMMA GivesUp ==
    ASSUME NEW f, NEW x, Ready(f, x), Full(x), x.req.proc \notin {"READ", "FSINFO"}, NEW s
    PROVE  CallInv(f, [x EXCEPT !.at = "post", !.stat = s])
<1> DEFINE y == [x EXCEPT !.at = "post", !.stat = s]
<1>1. DOMAIN x = Fields
  BY DEF Ready
<1>2. /\ DOMAIN y = Fields /\ y.at = "post" /\ y.stat = s /\ y.pre = x.pre /\ y.post = x.post
      /\ y.req = x.req /\ y.own = x.own /\ y.op = x.op /\ y.set = x.set /\ y.lost = x.lost
  BY <1>1 DEF Fields
<1> HIDE DEF y
<1>3. /\ y.post = <<>> /\ y.post \in Seq(Int) /\ Len(y.post) = 0
      /\ y.own = 0 /\ y.own \in Int /\ ~(y.own > 0)
  BY <1>2 DEF Ready
<1>4. Len(y.post) < Len(ObjectsOf(y.req)) /\ Len(y.post) <= Len(ObjectsOf(y.req))
  <2>1. 0 < Len(ObjectsOf(y.req)) /\ 0 <= Len(ObjectsOf(y.req))
    BY ObjectsTyped
  <2> QED
    BY <1>3, <2>1
<1>5. Acted(f, y)
  BY <1>2, <1>3, <1>4 DEF Ready, Acted, Honest, Full
<1> QED
  BY <1>2, <1>4, <1>5 DEF CallInv, Running, y

------------------------------------------------------------------------------
(* The steps before the operation.                                         *)

\* With the permission in hand, the handler looks, acts or answers.
LEMMA OnwardRight ==
    ASSUME FsInv, NEW x, Ready(fs, x), Full(x)
    PROVE  CallInv(fs, Onward(x))
<1> DEFINE r == x.req
<1>1. r \in Requests /\ Askable(r, fs)
  BY DEF Ready, FsInv
<1>2. Handler(r).look <=> Looks(r)
  BY <1>1, HandlerRight
<1>3. CASE Looks(r)
  <2>1. Onward(x) = [x EXCEPT !.at = "look"]
    BY <1>2, <1>3 DEF Onward
  <2>2. CallInv(fs, [x EXCEPT !.at = "look"])
    BY <1>3, MovesOn
  <2> QED
    BY <2>1, <2>2
<1>4. CASE ~Looks(r) /\ r.proc = "MKNOD" /\ ~r.known
  <2>1. Onward(x) = [x EXCEPT !.at = "post", !.stat = "INVAL"]
    BY <1>2, <1>4 DEF Onward
  <2>2. CallInv(fs, [x EXCEPT !.at = "post", !.stat = "INVAL"])
    BY <1>4, GivesUp
  <2> QED
    BY <2>1, <2>2
<1>5. CASE ~Looks(r) /\ ~OutOfSync(x) /\ Onward(x) = [x EXCEPT !.at = "act"]
  <2>p. PICK y : y = [x EXCEPT !.at = "act"]
    OBVIOUS
  <2>1. y.req = x.req /\ y.pre = x.pre
    BY <2>p DEF Ready, Fields
  <2>2. Sure(fs, y)
    BY <1>1, <1>5, <2>1 DEF Sure, Looks, OutOfSync, Askable
  <2>3. CallInv(fs, y)
    BY <2>2, <2>p, MovesOn
  <2> QED
    BY <1>5, <2>3, <2>p
<1>6. CASE Onward(x) \in {Answer(x, "NOT_SYNC", Default(r)), Answer(x, "GARBAGE_ARGS", <<>>)}
  BY <1>6, AnswersEarly
<1>7. CASE Onward(x) = Answer(x, "OK", <<>>) /\ r.proc \in {"ACCESS", "GETATTR", "PATHCONF"}
  BY <1>7, AnswersEarly
<1>8. \/ Looks(r)
      \/ ~Looks(r) /\ r.proc = "MKNOD" /\ ~r.known
      \/ ~Looks(r) /\ ~OutOfSync(x) /\ Onward(x) = [x EXCEPT !.at = "act"]
      \/ Onward(x) \in {Answer(x, "NOT_SYNC", Default(r)), Answer(x, "GARBAGE_ARGS", <<>>)}
      \/ Onward(x) = Answer(x, "OK", <<>>) /\ r.proc \in {"ACCESS", "GETATTR", "PATHCONF"}
  BY <1>2 DEF Onward
<1> QED
  BY <1>3, <1>4, <1>5, <1>6, <1>7, <1>8

\* Start: the call is refused, or all is ready.
LEMMA StartRight ==
    ASSUME Inv, NEW c \in Calls, Start(c)
    PROVE  fs' = fs /\ \E y : Become(c, y) /\ CallInv(fs, y)
<1>1. fs' = fs /\ call[c] = Blank
  BY DEF Start, Step, Inv, CallInv
<1>2. PICK r \in Requests :
          LET x == [call[c] EXCEPT !.req = r]
          IN  IF Handler(r).writes /\ cap # "ReadWrite" THEN Become(c, ReadOnly(x))
              ELSE IF r.proc = "WRITE" /\ r.garbled = "count"
              THEN Become(c, Answer(x, "GARBAGE_ARGS", <<>>))
              ELSE \/ Become(c, Answer(x, "STALE", Default(r)))
                   \/ Become(c, [x EXCEPT !.at = IF Handler(r).stat = "no" THEN "act" ELSE "stat"])
  BY DEF Start
<1>3. Askable(r, fs)
  BY DEF Inv, FsInv
<1>4. Handler(r).stat = "no" <=> r.proc \in Blind
  BY <1>3, HandlerRight
<1>x. PICK x : x = [call[c] EXCEPT !.req = r]
  OBVIOUS
<1>5. /\ DOMAIN x = Fields /\ x.req = r /\ x.pre = <<>> /\ x.post = <<>> /\ x.own = 0
      /\ x.stat = "OK" /\ x.op = "none" /\ x.set = "none" /\ x.lost = {}
  BY <1>1, <1>x DEF Blank, Fields
<1>6. Len(ObjectsOf(r)) \in {1, 2}
  BY ObjectsTyped
<1>7. Ready(fs, x)
  BY <1>5, <1>6 DEF Ready
<1>8. PICK s, w, a : /\ \/ s # "OK" /\ Become(c, Answer(x, s, w))
                        \/ Become(c, [x EXCEPT !.at = a])
                     /\ a = IF r.proc \in Blind THEN "act" ELSE "stat"
  BY <1>2, <1>4, <1>x DEF ReadOnly
<1>9. CASE s # "OK" /\ Become(c, Answer(x, s, w))
  BY <1>1, <1>7, <1>9, AnswersEarly
<1>10. CASE Become(c, [x EXCEPT !.at = a])
  <2>1. Len(x.pre) = 0
    BY <1>5
  <2>2. CallInv(fs, [x EXCEPT !.at = a])
    <3>1. CASE r.proc \in Blind
      <4>1. CallInv(fs, [x EXCEPT !.at = "act"])
        <5>1. [x EXCEPT !.at = "act"].req = r
          BY <1>5 DEF Fields
        <5>2. Sure(fs, [x EXCEPT !.at = "act"])
          BY <3>1, <5>1 DEF Sure, Blind
        <5> QED
          BY <1>5, <1>7, <3>1, <5>2, MovesOn
      <4> QED
        BY <1>8, <3>1, <4>1
    <3>2. CASE r.proc \notin Blind
      <4>1. Len(x.pre) < Len(ObjectsOf(x.req))
        <5>1. Len(ObjectsOf(x.req)) \in {1, 2}
          BY ObjectsTyped
        <5> QED
          BY <2>1, <5>1
      <4>2. CallInv(fs, [x EXCEPT !.at = "stat"])
        BY <1>5, <1>7, <3>2, <4>1, MovesOn
      <4> QED
        BY <1>8, <3>2, <4>2
    <3> QED
      BY <3>1, <3>2
  <2> QED
    BY <1>1, <1>10, <2>2
<1> QED
  BY <1>8, <1>9, <1>10

\* Stat: what is read is as old as the object, and there is room for it.
LEMMA StatRight ==
    ASSUME Inv, NEW c \in Calls, Stat(c)
    PROVE  fs' = fs /\ \E y : Become(c, y) /\ CallInv(fs, y)
<1> DEFINE r == call[c].req
<1>1. /\ fs' = fs /\ call[c].at = "stat" /\ Ready(fs, call[c])
      /\ Len(call[c].pre) < Len(ObjectsOf(r)) /\ r.proc \notin Blind /\ CallInv(fs, call[c])
  BY DEF Stat, Step, Inv, CallInv
<1>p. PICK x : x = call[c]
  OBVIOUS
<1>2. /\ x.req \in Requests /\ Askable(x.req, fs) /\ FileSystem(fs) /\ DOMAIN x = Fields
      /\ x.pre \in Seq(Int) /\ x.post = <<>>
  BY <1>1, <1>p DEF Ready, Inv, FsInv
<1>3. Objects(x.req) = ObjectsOf(x.req)
  BY <1>2, HandlerRight DEF Objects
<1> DEFINE o == ObjectsOf(x.req)[Len(x.pre) + 1]
<1>4. PICK a \in Attr(o) :
          IF a = NoAttr /\ Handler(x.req).stat = "must"
          THEN Become(c, Answer(x, "NOENT", Default(x.req)))
          ELSE Become(c, AfterStat([x EXCEPT !.pre = Append(@, a)]))
  BY <1>3, <1>p DEF Stat
<1>5. a \in Int /\ (a = NoAttr \/ a <= Age(fs, o))
  <2>1. a \in {NoAttr, getattr(fs, o)}
    BY DEF Attr
  <2>2. Age(fs, o) \in Nat /\ getattr(fs, o) \in {NoAttr, Age(fs, o)}
    BY <1>2, AttrIsAge
  <2> QED
    BY <2>1, <2>2 DEF NoAttr
<1>6. CASE Become(c, Answer(x, "NOENT", Default(x.req)))
  BY <1>1, <1>p, <1>6, AnswersEarly
<1>7. CASE Become(c, AfterStat([x EXCEPT !.pre = Append(@, a)]))
  <2> DEFINE z == [x EXCEPT !.pre = Append(@, a)]
  <2>1. /\ DOMAIN z = Fields /\ z.at = x.at /\ z.req = x.req /\ z.pre = Append(x.pre, a)
        /\ z.post = x.post /\ z.own = x.own /\ z.stat = x.stat
        /\ z.op = x.op /\ z.set = x.set /\ z.lost = x.lost
    BY <1>2 DEF Fields
  <2>2. /\ z.pre \in Seq(Int) /\ Len(z.pre) = Len(x.pre) + 1
        /\ \A i \in DOMAIN z.pre : \/ i \in DOMAIN x.pre /\ z.pre[i] = x.pre[i]
                                   \/ i = Len(x.pre) + 1 /\ z.pre[i] = a
    BY <1>2, <1>5, <2>1, AppendProperties
  <2>3. Len(x.pre) \in Nat /\ Len(ObjectsOf(x.req)) \in {1, 2}
    <3>1. Len(x.pre) \in Nat
      BY <1>2
    <3>2. Len(ObjectsOf(x.req)) \in {1, 2}
      BY ObjectsTyped
    <3> QED
      BY <3>1, <3>2
  <2> HIDE DEF z
  <2>4. Len(z.pre) <= Len(ObjectsOf(z.req))
    BY <1>1, <1>p, <2>1, <2>2, <2>3
  <2>5. Ready(fs, z)
    BY <1>1, <1>p, <1>5, <2>1, <2>2, <2>4 DEF Ready
  <2>6. CASE Len(z.pre) < Len(ObjectsOf(z.req))
    <3>1. AfterStat(z) = z
      BY <1>3, <2>1, <2>6 DEF AfterStat
    <3>2. CallInv(fs, z)
      BY <1>1, <1>p, <2>1, <2>5, <2>6 DEF CallInv, Running
    <3> QED
      BY <1>1, <1>7, <3>1, <3>2 DEF z
  <2>7. CASE ~(Len(z.pre) < Len(ObjectsOf(z.req)))
    <3>1. Full(z)
      BY <2>2, <2>3, <2>4, <2>7, <2>1 DEF Full
    <3>2. CallInv(fs, Onward(z))
      BY <2>5, <3>1, OnwardRight DEF Inv
    <3>3. CallInv(fs, [z EXCEPT !.at = "access"])
      BY <2>5, <3>1, MovesOn
    <3>4. AfterStat(z) \in {Onward(z), [z EXCEPT !.at = "access"]}
      BY <1>3, <2>1, <2>7 DEF AfterStat
    <3> QED
      BY <1>1, <1>7, <3>2, <3>3, <3>4 DEF z
  <2> QED
    BY <2>6, <2>7
<1> QED
  BY <1>4, <1>6, <1>7

\* Access: the handler goes on, or answers before anything has happened.
LEMMA AccessRight ==
    ASSUME Inv, NEW c \in Calls, Access(c)
    PROVE  fs' = fs /\ \E y : Become(c, y) /\ CallInv(fs, y)
<1>1. fs' = fs /\ Ready(fs, call[c]) /\ Full(call[c])
  BY DEF Access, Step, Inv, CallInv
<1>2. CallInv(fs, Onward(call[c]))
  BY <1>1, OnwardRight DEF Inv
<1>3. \A s : s # "OK" => CallInv(fs, Denied(call[c], s))
  BY <1>1, AnswersEarly DEF Denied
<1> QED
  BY <1>1, <1>2, <1>3 DEF Access

\* An UNCHECKED CREATE goes on with the file that has the name.
LEMMA FindsFile ==
    ASSUME NEW f, NEW x, Ready(f, x), Full(x), x.req.proc = "CREATE", NEW i
    PROVE  CallInv(f, [x EXCEPT !.at = "set", !.id = i])
<1> DEFINE y == [x EXCEPT !.at = "set", !.id = i]
<1>1. DOMAIN x = Fields
  BY DEF Ready
<1>2. /\ DOMAIN y = Fields /\ y.at = "set" /\ y.stat = x.stat /\ y.pre = x.pre /\ y.post = x.post
      /\ y.req = x.req /\ y.own = x.own /\ y.op = x.op /\ y.set = x.set /\ y.lost = x.lost
  BY <1>1 DEF Fields
<1> HIDE DEF y
<1>3. /\ y.post = <<>> /\ y.post \in Seq(Int) /\ Len(y.post) = 0
      /\ y.own = 0 /\ y.own \in Int /\ ~(y.own > 0)
  BY <1>2 DEF Ready
<1>4. Len(y.post) <= Len(ObjectsOf(y.req))
  <2>1. 0 < Len(ObjectsOf(y.req)) /\ 0 <= Len(ObjectsOf(y.req))
    BY ObjectsTyped
  <2> QED
    BY <1>3, <2>1
<1>5. Acted(f, y)
  BY <1>2, <1>3, <1>4 DEF Ready, Acted, Honest, Full
<1>6. y.stat = "OK" /\ y.op = "none"
  BY <1>2 DEF Ready
<1> QED
  BY <1>2, <1>3, <1>5, <1>6 DEF CallInv, Running, y

\* Look: the name decides where the handler goes, nothing has happened yet.
LEMMA LookRight ==
    ASSUME Inv, NEW c \in Calls, Look(c)
    PROVE  fs' = fs /\ \E y : Become(c, y) /\ CallInv(fs, y)
<1> DEFINE r == call[c].req
           seen == IF Has(fs, r.d, r.n) THEN fs.dir[r.d][r.n] ELSE 0
<1>1. fs' = fs /\ Ready(fs, call[c]) /\ Full(call[c]) /\ Looks(r)
  BY DEF Look, Step, Inv, CallInv
<1>2. Askable(r, fs) /\ FileSystem(fs) /\ DOMAIN call[c] = Fields
  BY <1>1 DEF Ready, Inv, FsInv
<1>3. r.d \in DOMAIN fs.dir
  BY <1>1, <1>2 DEF Looks, Askable, DirProcs
<1>4. PICK x, found :
          /\ Become(c, Looked(x, found))
          /\ \/ x = [call[c] EXCEPT !.seen = seen] /\ found = lookup(fs, r.d, r.n)
             \/ x = [[call[c] EXCEPT !.seen = seen] EXCEPT !.missed = TRUE] /\ found = Err(fs)
  BY DEF Look
<1>5. /\ DOMAIN x = Fields /\ x.req = r /\ x.pre = call[c].pre /\ x.post = call[c].post
      /\ x.stat = call[c].stat /\ x.own = call[c].own
      /\ x.op = call[c].op /\ x.set = call[c].set /\ x.lost = call[c].lost
      /\ x.seen = seen
      /\ found = Err(fs) => x.missed \/ found = lookup(fs, r.d, r.n)
  <2> HIDE DEF seen
  <2> QED
    BY <1>2, <1>4 DEF Fields
<1>6. Ready(fs, x) /\ Full(x)
  BY <1>1, <1>5 DEF Ready, Full
<1>7. /\ found.ok => found.id \in DOMAIN fs.file
      /\ ~found.ok => x.missed \/ x.seen = 0
  BY <1>2, <1>3, <1>4, <1>5 DEF lookup, Ok, Err, Has, FileSystem, Range
<1> HIDE DEF r, seen
<1>8. CASE r.proc = "CREATE"
  <2>1. /\ CallInv(fs, [x EXCEPT !.at = "post", !.stat = "EXIST"])
        /\ CallInv(fs, [x EXCEPT !.at = "set", !.id = found.id])
    BY <1>5, <1>6, <1>8, GivesUp, FindsFile
  <2>2. ASSUME ~found.ok PROVE CallInv(fs, [x EXCEPT !.at = "act"])
    <3>p. PICK y : y = [x EXCEPT !.at = "act"]
      OBVIOUS
    <3>1. y.req = r /\ y.seen = x.seen /\ y.missed = x.missed
      BY <1>5, <3>p DEF Fields
    <3>2. Sure(fs, y)
      BY <1>7, <1>8, <2>2, <3>1 DEF Sure
    <3> QED
      BY <1>6, <3>2, <3>p, MovesOn
  <2> QED
    BY <1>1, <1>4, <1>5, <1>8, <2>1, <2>2 DEF Looked
<1>9. CASE r.proc # "CREATE"
  <2>1. r.proc \in {"RMDIR", "LOOKUP"}
    BY <1>1, <1>9 DEF Looks, r
  <2>2. CallInv(fs, [x EXCEPT !.at = "post", !.stat = "NOENT"])
    BY <1>5, <1>6, <2>1, GivesUp
  <2>3. CallInv(fs, Answer(x, "NOENT", <<>>))
    BY <1>5, <1>6, <2>1, AnswersEarly
  <2>4. ASSUME found.ok PROVE CallInv(fs, [x EXCEPT !.at = "check", !.id = found.id])
    <3>p. PICK y : y = [x EXCEPT !.at = "check", !.id = found.id]
      OBVIOUS
    <3>1. y.id = found.id
      BY <1>5, <3>p DEF Fields
    <3>2. y.id \in DOMAIN fs.file
      BY <1>7, <2>4, <3>1
    <3> QED
      BY <1>5, <1>6, <2>1, <3>2, <3>p, MovesOn
  <2> QED
    BY <1>1, <1>4, <1>5, <1>9, <2>2, <2>3, <2>4 DEF Looked
<1> QED
  BY <1>8, <1>9

\* Check: the type decides where the handler goes.
LEMMA CheckRight ==
    ASSUME Inv, NEW c \in Calls, Check(c)
    PROVE  fs' = fs /\ \E y : Become(c, y) /\ CallInv(fs, y)
<1>p. PICK x : x = call[c]
  OBVIOUS
<1>1. /\ fs' = fs /\ Ready(fs, x) /\ Full(x)
      /\ x.req.proc \in {"RMDIR", "LOOKUP"} /\ x.id \in DOMAIN fs.file
  BY <1>p DEF Check, Step, Inv, CallInv
<1>2. ASSUME NEW a PROVE CallInv(fs, Checked(x, a))
  <2>1. \A s : CallInv(fs, [x EXCEPT !.at = "post", !.stat = s])
    BY <1>1, GivesUp
  <2>2. ASSUME x.req.proc = "RMDIR", IsDir(fs, x.id)
        PROVE  CallInv(fs, [x EXCEPT !.at = "act"])
    <3>p. PICK y : y = [x EXCEPT !.at = "act"]
      OBVIOUS
    <3>1. y.req = x.req /\ y.id = x.id
      BY <1>1, <3>p DEF Ready, Fields
    <3>2. Sure(fs, y)
      BY <1>1, <2>2, <3>1 DEF Sure
    <3> QED
      BY <1>1, <3>2, <3>p, MovesOn
  <2>3. x.req.proc = "LOOKUP" => CallInv(fs, Answer(x, "OK", <<>>))
    BY <1>1, AnswersEarly
  <2> QED
    BY <1>1, <2>1, <2>2, <2>3 DEF Checked
<1> QED
  BY <1>1, <1>2, <1>p DEF Check

------------------------------------------------------------------------------
(* The operation.                                                          *)

\* What an operation that leaves res.fs tells of the call.
LEMMA DidRight ==
    ASSUME FsInv, NEW x, Ready(fs, x), NEW res, Outcome(fs, res),
           Alike(fs, res.fs, ObjectsOf(x.req)), NEW y, y = Did(x, res)
    PROVE  /\ DOMAIN y = Fields /\ y.req = x.req /\ y.pre = x.pre /\ y.post = x.post
           /\ y.stat = x.stat /\ y.op = Verdict(res) /\ y.set = x.set /\ y.lost = res.lost
           /\ y.own \in Int
           /\ y.own = getattr(res.fs, ObjectsOf(x.req)[1]) - getattr(fs, ObjectsOf(x.req)[1])
           /\ y.own > 0 => \A i \in DOMAIN y.pre :
                  y.pre[i] = NoAttr \/ y.pre[i] < Age(res.fs, ObjectsOf(x.req)[i])
<1> DEFINE o == ObjectsOf(x.req)
<1>1. DOMAIN x = Fields /\ x.req \in Requests /\ Askable(x.req, fs)
  BY DEF Ready, FsInv
<1>2. Objects(x.req) = o
  BY <1>1, HandlerRight DEF Objects
<1>3. /\ DOMAIN y = Fields /\ y.req = x.req /\ y.pre = x.pre /\ y.post = x.post
      /\ y.stat = x.stat /\ y.op = Verdict(res) /\ y.set = x.set /\ y.lost = res.lost
      /\ y.own = getattr(res.fs, o[1]) - getattr(fs, o[1])
  <2>1. y = [x EXCEPT !.id = res.id, !.op = Verdict(res), !.lost = res.lost,
                      !.own = getattr(res.fs, o[1]) - getattr(fs, o[1])]
    BY <1>2 DEF Did
  <2> HIDE DEF o
  <2> QED
    BY <1>1, <2>1 DEF Fields
<1>4. FileSystem(fs) /\ FileSystem(res.fs)
  BY DEF FsInv, Outcome
<1>5. \A p : /\ getattr(fs, p) \in Int /\ getattr(res.fs, p) \in Int
             /\ Age(fs, p) \in Nat /\ Age(res.fs, p) \in Nat
             /\ getattr(fs, p) # NoAttr => getattr(fs, p) = Age(fs, p)
             /\ getattr(res.fs, p) # NoAttr => getattr(res.fs, p) = Age(res.fs, p)
  BY <1>4, AttrIsAge
<1>6. y.own \in Int
  BY <1>3, <1>5
<1>7. ASSUME y.own > 0, NEW i \in DOMAIN y.pre
      PROVE  y.pre[i] = NoAttr \/ y.pre[i] < Age(res.fs, o[i])
  <2>1. i \in DOMAIN o
    <3>1. /\ x.pre \in Seq(Int) /\ Len(x.pre) <= Len(o) /\ i \in DOMAIN x.pre
      BY <1>3, <1>7 DEF Ready
    <3>2. DOMAIN o = 1..Len(o) /\ Len(o) \in {1, 2}
      BY ObjectsTyped
    <3>3. Len(o) \in Int /\ Len(x.pre) \in Nat /\ DOMAIN x.pre = 1..Len(x.pre)
      BY <3>1, <3>2
    <3> HIDE DEF o
    <3> QED
      BY <3>1, <3>2, <3>3
  <2>2. /\ getattr(res.fs, o[i]) = getattr(fs, o[i]) + y.own
        /\ getattr(res.fs, o[i]) = NoAttr <=> getattr(fs, o[i]) = NoAttr
    BY <1>3, <2>1 DEF Alike
  <2>3. getattr(fs, o[i]) # NoAttr /\ getattr(res.fs, o[i]) # NoAttr
    BY <1>5, <1>6, <1>7, <2>2
  <2>4. Age(res.fs, o[i]) = Age(fs, o[i]) + y.own
    BY <1>5, <2>2, <2>3
  <2>5. x.pre[i] = NoAttr \/ x.pre[i] <= Age(fs, o[i])
    BY <1>3, <1>7 DEF Ready
  <2>6. x.pre[i] \in Int
    <3>1. x.pre \in Seq(Int) /\ i \in DOMAIN x.pre
      BY <1>3, <1>7 DEF Ready
    <3> QED
      BY <3>1
  <2> HIDE DEF o
  <2> QED
    BY <1>3, <1>5, <1>6, <1>7, <2>4, <2>5, <2>6
<1> QED
  BY <1>3, <1>6, <1>7

\* The attributes are read again once the operation is through.
LEMMA ThenPost ==
    ASSUME FsInv, NEW x, Ready(fs, x), Full(x) \/ x.req.proc \in Blind,
           x.req.proc \notin {"READ", "FSINFO"},
           NEW res, Outcome(fs, res), Alike(fs, res.fs, ObjectsOf(x.req)),
           NEW z, DOMAIN z = Fields, z.at = "post", z.req = x.req, z.pre = x.pre, z.post = x.post,
           z.own = Did(x, res).own, Honest(z)
    PROVE  CallInv(res.fs, z)
<1>1. /\ z.own \in Int
      /\ z.own > 0 => \A i \in DOMAIN z.pre :
             z.pre[i] = NoAttr \/ z.pre[i] < Age(res.fs, ObjectsOf(x.req)[i])
  <2>1. PICK y : y = Did(x, res)
    OBVIOUS
  <2> QED
    BY <2>1, DidRight
<1>2. x.req \in Requests /\ z.pre \in Seq(Int) /\ z.post = <<>> /\ z.post \in Seq(Int)
      /\ Len(z.pre) <= Len(ObjectsOf(z.req)) /\ Len(z.post) = 0 /\ DOMAIN z.post = {}
  BY DEF Ready
<1>3. Len(z.post) < Len(ObjectsOf(z.req)) /\ Len(z.post) <= Len(ObjectsOf(z.req))
  <2>1. 0 < Len(ObjectsOf(z.req)) /\ 0 <= Len(ObjectsOf(z.req))
    BY ObjectsTyped
  <2>2. Len(z.post) = 0
    BY <1>2
  <2> QED
    BY <2>1, <2>2
<1>4. Acted(res.fs, z)
  BY <1>1, <1>2, <1>3 DEF Acted, Full
<1> QED
  BY <1>3, <1>4 DEF CallInv, Running

\* A READ that succeeds has read a file that has a name.
LEMMA ReadsLive ==
    ASSUME NEW r, r.proc = "READ", NEW can, handle_nfs(r, can).op.ok
    PROVE  Live(fs, r.id)
<1>1. handle_nfs(r, can) = nfsproc3_read(r)
  BY DEF handle_nfs
<1>2. handle_nfs(r, can).op = consult(fs, r.id, {"reg"})
  BY <1>1 DEF nfsproc3_read, OnFile
<1> QED
  BY <1>2 DEF consult, Err

\* After an operation that succeeded the change lies behind what was read.
LEMMA ResultRight ==
    ASSUME FsInv, NEW x, Ready(fs, x), Full(x) \/ x.req.proc \in Blind,
           NEW can, NEW res, res = handle_nfs(x.req, can).op, res.ok
    PROVE  CallInv(res.fs, Result(x, res))
<1> DEFINE r == x.req
<1>1. /\ DOMAIN x = Fields /\ r \in Requests /\ Askable(r, fs) /\ FileSystem(fs)
      /\ x.stat = "OK" /\ x.set = "none" /\ x.pre \in Seq(Int)
  BY DEF Ready, FsInv
<1>2. Outcome(fs, res) /\ Alike(fs, res.fs, ObjectsOf(r))
  BY <1>1, EffectRight
<1>3. PICK y : y = Did(x, res)
  OBVIOUS
<1>l. r.proc # "CREATE" => res.lost \subseteq {"mode"}
  BY <1>1, LostLittle
<1>4. /\ DOMAIN y = Fields /\ y.req = r /\ y.pre = x.pre /\ y.post = x.post
      /\ y.stat = x.stat /\ y.op = "ok" /\ y.set = "none" /\ y.lost = res.lost
      /\ y.own \in Int
      /\ y.own > 0 => \A i \in DOMAIN y.pre :
             y.pre[i] = NoAttr \/ y.pre[i] < Age(res.fs, ObjectsOf(r)[i])
  BY <1>1, <1>2, <1>3, DidRight DEF Verdict
<1>5. Handler(r).post = "always" <=> r.proc \in DirProcs
  BY <1>1, HandlerRight
<1>6. r.proc \notin DirProcs => r.proc \in FileProcs /\ ObjectsOf(r) = <<r.id>>
  BY <1>1, ObjectsTyped DEF Askable
<1>7. CASE r.proc \in DirProcs
  <2>1. Result(x, res) = [y EXCEPT !.at = "post"]
    BY <1>3, <1>5, <1>7 DEF Result
  <2>p. PICK z : z = [y EXCEPT !.at = "post"]
    OBVIOUS
  <2>2. /\ DOMAIN z = Fields /\ z.at = "post" /\ z.req = x.req /\ z.pre = x.pre /\ z.post = x.post
        /\ z.own = y.own /\ z.stat = x.stat
        /\ z.op = y.op /\ z.set = y.set /\ z.lost = y.lost
    BY <1>4, <2>p DEF Fields
  <2>3. Honest(z)
    BY <1>1, <1>4, <1>l, <2>2 DEF Honest
  <2>4. r.proc \notin {"READ", "FSINFO"}
    BY <1>7 DEF DirProcs
  <2>5. CallInv(res.fs, z)
    BY <1>2, <1>3, <2>2, <2>3, <2>4, ThenPost
  <2> QED
    BY <2>1, <2>5, <2>p
<1>8. CASE r.proc \in {"WRITE", "SETATTR", "COMMIT"}
  <2> DEFINE after == getattr(res.fs, r.id)
             w == Wcc(y, <<after>>)
  <2>1. Result(x, res) = Answer(y, "OK", w)
    BY <1>3, <1>5, <1>8 DEF Result, DirProcs
  <2>2. r.proc \notin DirProcs /\ r.proc \notin Blind /\ r.proc # "READ"
    BY <1>8 DEF DirProcs, Blind
  <2>3. ObjectsOf(r) = <<r.id>> /\ Objects(y.req) = <<r.id>>
    BY <1>1, <1>4, <1>6, <2>2, HandlerRight DEF Objects
  <2>4. DOMAIN w = {1} /\ w[1] = <<y.pre[1], after>>
    BY <2>3 DEF Wcc
  <2>5. 1 \in DOMAIN y.pre
    <3>1. Len(x.pre) = 1
      BY <2>2, <2>3 DEF Full
    <3> QED
      BY <1>1, <1>4, <3>1
  <2>6. after # NoAttr => after = Age(res.fs, r.id)
    BY <1>2, AttrIsAge DEF Outcome
  <2> HIDE DEF w, after
  <2>7. y.own > 0 => \A i \in DOMAIN w : NoAttr \notin {w[i][1], w[i][2]} => w[i][1] < w[i][2]
    BY <1>4, <2>3, <2>4, <2>5, <2>6
  <2>p. PICK z : z = Answer(y, "OK", w)
    OBVIOUS
  <2>8. /\ DOMAIN z = Fields /\ z.at = "done" /\ z.stat = "OK" /\ z.wcc = w /\ z.req = r
        /\ z.own = y.own /\ z.op = y.op /\ z.set = y.set /\ z.lost = y.lost
    BY <1>4, <2>p, AnswerFields
  <2>9. Answered(z)
    BY <1>1, <1>4, <1>l, <2>2, <2>7, <2>8 DEF Answered, Honest
  <2> QED
    BY <2>1, <2>8, <2>9, <2>p DEF CallInv
<1>9. CASE r.proc \notin DirProcs \cup {"WRITE", "SETATTR", "COMMIT"}
  <2>p. PICK u : u = [y EXCEPT !.data = getattr(fs, r.id), !.post = x.pre]
    OBVIOUS
  <2>1. Result(x, res) = Answer(u, "OK", <<>>)
    BY <1>3, <1>5, <1>9, <2>p DEF Result
  <2>2. /\ DOMAIN u = Fields /\ u.data = getattr(fs, r.id) /\ u.post = x.pre /\ u.req = r
        /\ u.op = y.op /\ u.set = y.set /\ u.lost = y.lost
    BY <1>4, <2>p DEF Fields
  <2>q. PICK z : z = Answer(u, "OK", <<>>)
    OBVIOUS
  <2>3. /\ DOMAIN z = Fields /\ z.at = "done" /\ z.stat = "OK" /\ z.wcc = <<>> /\ z.req = r
        /\ z.op = y.op /\ z.set = y.set /\ z.lost = y.lost
        /\ z.post = x.pre /\ z.data = getattr(fs, r.id)
    BY <2>2, <2>q, AnswerFields
  <2>4. ASSUME r.proc = "READ" PROVE z.data >= z.post[1]
    <3>1. Live(fs, r.id)
      BY <2>4, ReadsLive
    <3>2. z.data = Age(fs, r.id) /\ Age(fs, r.id) \in Nat
      BY <1>1, <2>3, <3>1, AttrIsAge
    <3>3. Full(x) /\ ObjectsOf(r) = <<r.id>>
      BY <1>6, <2>4, <1>9 DEF Blind
    <3>4. 1 \in DOMAIN x.pre
      BY <1>1, <3>3 DEF Full
    <3>5. x.pre[1] \in Int /\ (x.pre[1] = NoAttr \/ x.pre[1] <= Age(fs, r.id))
      BY <1>1, <3>3, <3>4 DEF Ready
    <3> QED
      BY <2>3, <3>2, <3>5 DEF NoAttr
  <2>5. Answered(z)
    BY <1>1, <1>4, <1>l, <1>9, <2>3, <2>4 DEF Answered, Honest, DirProcs
  <2> QED
    BY <2>1, <2>3, <2>5, <2>q DEF CallInv
<1> QED
  BY <1>7, <1>8, <1>9

\* So it does after one that failed, with whatever it has changed.
LEMMA FailedRight ==
    ASSUME FsInv, NEW x, Ready(fs, x), Full(x) \/ x.req.proc \in Blind,
           NEW res, ~res.ok, Outcome(fs, res), Alike(fs, res.fs, ObjectsOf(x.req))
    PROVE  CallInv(res.fs, Failed(x, res))
<1> DEFINE r == x.req
<1>1. /\ DOMAIN x = Fields /\ r \in Requests /\ Askable(r, fs) /\ FileSystem(fs)
      /\ x.set = "none"
  BY DEF Ready, FsInv
<1>4. PICK y : y = Did(x, res)
  OBVIOUS
<1>5. /\ DOMAIN y = Fields /\ y.req = r /\ y.pre = x.pre /\ y.post = x.post
      /\ y.op = "failed" /\ y.set = "none" /\ y.own = Did(x, res).own
  BY <1>1, <1>4, DidRight DEF Verdict
<1>6. Handler(r).post # "no" <=> r.proc \in DirProcs \cup {"COMMIT", "FSSTAT"}
  BY <1>1, HandlerRight
<1>7. CASE r.proc \in DirProcs \cup {"COMMIT", "FSSTAT"}
  <2>p. PICK z : z = [y EXCEPT !.at = "post", !.stat = "IO"]
    OBVIOUS
  <2>1. Failed(x, res) = z
    BY <1>4, <1>6, <1>7, <2>p DEF Failed
  <2>2. /\ DOMAIN z = Fields /\ z.at = "post" /\ z.req = x.req /\ z.pre = x.pre /\ z.post = x.post
        /\ z.own = y.own /\ z.stat = "IO"
        /\ z.op = "failed" /\ z.set = "none"
    BY <1>5, <2>p DEF Fields
  <2>3. Honest(z) /\ r.proc \notin {"READ", "FSINFO"}
    BY <1>7, <2>2 DEF Honest, DirProcs
  <2>4. CallInv(res.fs, z)
    BY <1>5, <2>2, <2>3, ThenPost
  <2> QED
    BY <2>1, <2>4
<1>8. CASE r.proc \notin DirProcs \cup {"COMMIT", "FSSTAT"}
  <2>1. PICK w : Failed(x, res) = Answer(y, "IO", w) /\ (w = Default(r) \/ w = <<>>)
    BY <1>4, <1>6, <1>8 DEF Failed
  <2>p. PICK z : z = Answer(y, "IO", w)
    OBVIOUS
  <2>2. /\ DOMAIN z = Fields /\ z.at = "done" /\ z.stat = "IO" /\ z.wcc = w /\ z.req = r
        /\ z.op = "failed" /\ z.set = "none"
    BY <1>5, <2>p, AnswerFields
  <2>3. \A i \in DOMAIN w : w[i][1] = NoAttr
    BY <2>1 DEF Default
  <2>4. Answered(z)
    BY <1>1, <2>2, <2>3 DEF Answered, Honest
  <2> QED
    BY <2>1, <2>2, <2>4, <2>p DEF CallInv
<1> QED
  BY <1>7, <1>8

\* Act: the file system gets older, and only where a procedure writes.
LEMMA ActRight ==
    ASSUME Inv, NEW c \in Calls, Act(c)
    PROVE  /\ FileSystem(fs') /\ Grows(fs, fs')
           /\ \E y : Become(c, y) /\ CallInv(fs', y)
           /\ call[c].req \in Requests
           /\ call[c].req.proc \notin Writing => fs' = fs
<1>p. PICK x : x = call[c]
  OBVIOUS
<1>1. Ready(fs, x) /\ (Full(x) \/ x.req.proc \in Blind) /\ FsInv
  BY <1>p DEF Act, Step, Inv, CallInv
<1>2. x.req \in Requests /\ Askable(x.req, fs) /\ FileSystem(fs)
  BY <1>1 DEF Ready, FsInv
<1>3. PICK can, res : /\ res = handle_nfs(x.req, can).op
                      /\ \/ res.ok /\ fs' = res.fs /\ Become(c, Result(x, res))
                         \/ \E f \in {fs, res.fs} : fs' = f /\ Become(c, Failed(x, Err(f)))
  BY <1>p DEF Act
<1>4. /\ Outcome(fs, res) /\ Alike(fs, res.fs, ObjectsOf(x.req))
      /\ x.req.proc \notin Writing => res.fs = fs
  BY <1>2, <1>3, EffectRight
<1>6. CASE res.ok /\ fs' = res.fs /\ Become(c, Result(x, res))
  <2>1. CallInv(res.fs, Result(x, res))
    BY <1>1, <1>3, <1>6, ResultRight
  <2> QED
    BY <1>2, <1>4, <1>6, <1>p, <2>1 DEF Outcome
<1>8. CASE \E f \in {fs, res.fs} : fs' = f /\ Become(c, Failed(x, Err(f)))
  <2>1. PICK f : f \in {fs, res.fs} /\ fs' = f /\ Become(c, Failed(x, Err(f)))
    BY <1>8
  <2>2. Err(f).fs = f /\ ~Err(f).ok
    BY DEF Err
  <2>3. FileSystem(f) /\ Grows(fs, f) /\ Alike(fs, f, ObjectsOf(x.req))
    BY <1>2, <1>4, <2>1, GrowsReflexive, AlikeSame DEF Outcome
  <2>4. Outcome(fs, Err(f)) /\ Alike(fs, Err(f).fs, ObjectsOf(x.req))
    BY <2>2, <2>3 DEF Outcome
  <2>5. CallInv(f, Failed(x, Err(f)))
    BY <1>1, <2>2, <2>4, FailedRight
  <2> QED
    BY <1>2, <1>4, <1>p, <2>1, <2>3, <2>5
<1> QED
  BY <1>3, <1>6, <1>8

------------------------------------------------------------------------------
(* The steps after the operation.                                          *)

\* Post: what is read is newer than what was read before the operation.
LEMMA PostRight ==
    ASSUME Inv, NEW c \in Calls, Post(c)
    PROVE  fs' = fs /\ \E y : Become(c, y) /\ CallInv(fs, y)
<1>p. PICK x : x = call[c]
  OBVIOUS
<1>1. /\ fs' = fs /\ Acted(fs, x) /\ Len(x.post) < Len(ObjectsOf(x.req))
      /\ x.req.proc \notin {"READ", "FSINFO"}
      /\ x.at = "post"
  BY <1>p DEF Post, Step, Inv, CallInv
<1>2. /\ x.req \in Requests /\ Askable(x.req, fs) /\ FileSystem(fs) /\ DOMAIN x = Fields
      /\ x.pre \in Seq(Int) /\ x.post \in Seq(Int) /\ x.own \in Int
  BY <1>1 DEF Acted, Inv, FsInv
<1>3. Objects(x.req) = ObjectsOf(x.req)
  BY <1>2, HandlerRight DEF Objects
<1> DEFINE n == Len(x.post) + 1
           o == ObjectsOf(x.req)[n]
<1>4. PICK a \in Attr(o) : Become(c, AfterPost([x EXCEPT !.post = Append(@, a)]))
  BY <1>3, <1>p DEF Post, PostAttr
<1>5. a \in Int /\ (a = NoAttr \/ a = Age(fs, o)) /\ Age(fs, o) \in Nat
  <2>1. a \in {NoAttr, getattr(fs, o)}
    BY DEF Attr
  <2>2. Age(fs, o) \in Nat /\ getattr(fs, o) \in {NoAttr, Age(fs, o)}
    BY <1>2, AttrIsAge
  <2> QED
    BY <2>1, <2>2 DEF NoAttr
<1>z. PICK z : z = [x EXCEPT !.post = Append(@, a)]
  OBVIOUS
<1>6. /\ DOMAIN z = Fields /\ z.at = x.at /\ z.req = x.req /\ z.post = Append(x.post, a)
      /\ z.pre = x.pre /\ z.own = x.own /\ z.stat = x.stat
        /\ z.op = x.op /\ z.set = x.set /\ z.lost = x.lost
  BY <1>2, <1>z DEF Fields
<1>7. /\ z.post \in Seq(Int) /\ Len(z.post) = n
      /\ \A i \in DOMAIN z.post : \/ i \in DOMAIN x.post /\ z.post[i] = x.post[i]
                                  \/ i = n /\ z.post[i] = a
  BY <1>2, <1>5, <1>6, AppendProperties
<1>8. Len(x.post) \in Nat /\ Len(ObjectsOf(x.req)) \in Nat
  <2>1. Len(x.post) \in Nat
    BY <1>2
  <2>2. Len(ObjectsOf(x.req)) \in Nat
    BY ObjectsTyped
  <2> QED
    BY <2>1, <2>2
<1>9. Len(z.post) <= Len(ObjectsOf(z.req))
  BY <1>1, <1>6, <1>7, <1>8
<1>10. ASSUME z.own > 0, NEW i \in DOMAIN z.pre
       PROVE  /\ z.pre[i] = NoAttr \/ z.pre[i] < Age(fs, ObjectsOf(z.req)[i])
              /\ i \in DOMAIN z.post => NoAttr \in {z.pre[i], z.post[i]} \/ z.pre[i] < z.post[i]
  <2>1. /\ x.pre[i] = NoAttr \/ x.pre[i] < Age(fs, ObjectsOf(x.req)[i])
        /\ i \in DOMAIN x.post => NoAttr \in {x.pre[i], x.post[i]} \/ x.pre[i] < x.post[i]
    BY <1>1, <1>6, <1>10 DEF Acted
  <2> HIDE DEF n
  <2> QED
    BY <1>5, <1>6, <1>7, <2>1
<1>11. Acted(fs, z)
  <2> HIDE DEF n
  <2> QED
    BY <1>1, <1>2, <1>6, <1>7, <1>9, <1>10 DEF Acted, Honest, Full
<1>12. CASE Len(z.post) < Len(ObjectsOf(z.req))
  <2>1. AfterPost(z) = z
    BY <1>3, <1>6, <1>12 DEF AfterPost
  <2>2. CallInv(fs, z)
    BY <1>1, <1>6, <1>11, <1>12 DEF CallInv, Running
  <2> QED
    BY <1>1, <1>4, <1>z, <2>1, <2>2
<1>13. CASE ~(Len(z.post) < Len(ObjectsOf(z.req)))
  <2>1. Len(z.post) = Len(ObjectsOf(z.req))
    BY <1>6, <1>7, <1>8, <1>9, <1>13
  <2>2. CASE AfterPost(z) = [z EXCEPT !.at = "set"] /\ z.req.proc = "MKDIR" /\ z.stat = "OK"
    <3>1. PICK y : y = [z EXCEPT !.at = "set"]
      OBVIOUS
    <3>2. /\ DOMAIN y = Fields /\ y.at = "set" /\ y.req = z.req /\ y.post = z.post
          /\ y.pre = z.pre /\ y.own = z.own /\ y.stat = z.stat
          /\ y.op = z.op /\ y.set = z.set /\ y.lost = z.lost
      BY <1>6, <3>1 DEF Fields
    <3>3. Acted(fs, y)
      BY <1>11, <3>2 DEF Acted, Honest, Full
    <3>5. CallInv(fs, y)
      BY <2>1, <2>2, <3>2, <3>3 DEF CallInv, Running
    <3> QED
      BY <1>1, <1>4, <1>z, <2>2, <3>1, <3>5
  <2>3. CASE \/ AfterPost(z) = Answer(z, z.stat, <<>>)
             \/ (AfterPost(z) = Answer(z, z.stat, Wcc(z, z.post)) /\ z.req.proc # "FSSTAT")
    <3>1. PICK w : /\ AfterPost(z) = Answer(z, z.stat, w)
                   /\ w = <<>> \/ (w = Wcc(z, z.post) /\ z.req.proc # "FSSTAT")
      BY <2>3
    <3>2. PICK y : y = Answer(z, z.stat, w)
      OBVIOUS
    <3>3. /\ DOMAIN y = Fields /\ y.at = "done" /\ y.stat = z.stat /\ y.wcc = w /\ y.req = z.req
          /\ y.own = z.own /\ y.op = z.op /\ y.set = z.set /\ y.lost = z.lost
      BY <1>6, <3>2, AnswerFields
    <3>4. ASSUME z.own > 0, NEW i \in DOMAIN w, w = Wcc(z, z.post)
          PROVE  NoAttr \notin {w[i][1], w[i][2]} => w[i][1] < w[i][2]
      <4>1. i \in DOMAIN ObjectsOf(z.req) /\ w[i] = <<z.pre[i], z.post[i]>>
        BY <1>3, <1>6, <3>4 DEF Wcc
      <4>2. i \in DOMAIN z.post
        <5>1. DOMAIN z.post = 1..Len(z.post)
          BY <1>7
        <5>2. DOMAIN ObjectsOf(z.req) = 1..Len(ObjectsOf(z.req))
          BY ObjectsTyped
        <5> QED
          BY <2>1, <4>1, <5>1, <5>2
      <4>3. i \in DOMAIN z.pre
        <5>1. z.req.proc \notin Blind
          BY <1>1, <1>6, <3>1, <3>4, <4>1 DEF Blind
        <5>2. Len(z.pre) = Len(ObjectsOf(z.req)) /\ DOMAIN z.pre = 1..Len(z.pre)
          BY <1>2, <1>6, <1>11, <5>1 DEF Acted, Full
        <5>3. DOMAIN ObjectsOf(z.req) = 1..Len(ObjectsOf(z.req))
          BY ObjectsTyped
        <5> QED
          BY <4>1, <5>2, <5>3
      <4> QED
        BY <1>10, <3>4, <4>1, <4>2, <4>3
    <3>5. Answered(y)
      BY <1>1, <1>2, <1>6, <1>11, <3>1, <3>3, <3>4 DEF Answered, Acted, Honest
    <3> QED
      BY <1>1, <1>4, <1>z, <3>1, <3>2, <3>3, <3>5 DEF CallInv
  <2> QED
    BY <1>3, <1>6, <1>13, <2>2, <2>3 DEF AfterPost
<1> QED
  BY <1>12, <1>13

\* Objects only get older: what is known of a call stays so.
LEMMA ActedLater ==
    ASSUME NEW f, FileSystem(f), NEW g, FileSystem(g), Grows(f, g), NEW x, Acted(f, x)
    PROVE  Acted(g, x)
<1>1. ASSUME x.own > 0, NEW i \in DOMAIN x.pre, x.pre[i] # NoAttr
      PROVE  x.pre[i] < Age(g, ObjectsOf(x.req)[i])
  <2> DEFINE o == ObjectsOf(x.req)[i]
  <2>1. x.pre[i] < Age(f, o)
    BY <1>1 DEF Acted
  <2>2. Age(f, o) \in Nat /\ Age(g, o) \in Nat /\ Age(f, o) <= Age(g, o)
    BY AttrIsAge, AgeGrows
  <2>3. x.pre \in Seq(Int)
    BY DEF Acted
  <2>4. x.pre[i] \in Int
    BY <2>3
  <2> HIDE DEF o
  <2>5. x.pre[i] < Age(g, o)
    BY <2>1, <2>2, <2>4
  <2> QED
    BY <2>5 DEF o
<1> QED
  BY <1>1 DEF Acted

\* Other calls make nothing that was read too new.
LEMMA ReadyLater ==
    ASSUME NEW f, FileSystem(f), NEW g, FileSystem(g), Grows(f, g), NEW x, Ready(f, x)
    PROVE  Ready(g, x)
<1>1. ASSUME NEW i \in DOMAIN x.pre, x.pre[i] # NoAttr
      PROVE  x.pre[i] <= Age(g, ObjectsOf(x.req)[i])
  <2> DEFINE o == ObjectsOf(x.req)[i]
  <2>1. x.pre[i] <= Age(f, o)
    BY <1>1 DEF Ready
  <2>2. Age(f, o) \in Nat /\ Age(g, o) \in Nat /\ Age(f, o) <= Age(g, o)
    BY AttrIsAge, AgeGrows
  <2>3. x.pre \in Seq(Int)
    BY DEF Ready
  <2>4. x.pre[i] \in Int
    BY <2>3
  <2> HIDE DEF o
  <2>5. x.pre[i] <= Age(g, o)
    BY <2>1, <2>2, <2>4
  <2> QED
    BY <2>5 DEF o
<1> QED
  BY <1>1 DEF Ready

\* What is known of a call stays true while the others change the file system.
LEMMA CallLater ==
    ASSUME NEW f, FileSystem(f), NEW g, FileSystem(g), Grows(f, g), NEW x, CallInv(f, x)
    PROVE  CallInv(g, x)
<1>1. /\ Ready(f, x) => Ready(g, x)
      /\ Acted(f, x) => Acted(g, x)
  BY ReadyLater, ActedLater
<1>2. /\ Sure(f, x) => Sure(g, x)
      /\ x.id \in DOMAIN f.file => x.id \in DOMAIN g.file
  BY DEF Grows, Sure, IsDir
<1> QED
  BY <1>1, <1>2 DEF CallInv

\* With the attributes set, or not, the answer is honest.
LEMMA AfterSetRight ==
    ASSUME FsInv, NEW x, CallInv(fs, x), x.at = "set",
           NEW res, FileSystem(res.fs), Grows(fs, res.fs),
           res.ok => res.lost \subseteq {"mode"}
    PROVE  CallInv(res.fs, AfterSet(x, res))
<1>1. /\ Acted(res.fs, x) /\ x.stat = "OK" /\ Honest(x)
      /\ \/ x.req.proc = "MKDIR" /\ Len(x.post) = Len(ObjectsOf(x.req))
         \/ x.req.proc = "CREATE" /\ x.own = 0 /\ x.post = <<>> /\ x.op = "none"
  BY ActedLater DEF CallInv, FsInv, Acted
<1>2. x.req \in Requests /\ Askable(x.req, fs) /\ DOMAIN x = Fields
  BY <1>1 DEF Acted, FsInv
<1>s. PICK s : s = IF res.ok THEN "OK" ELSE "IO"
  OBVIOUS
<1>y. PICK y : y = [x EXCEPT !.set = Verdict(res), !.lost = res.lost]
  OBVIOUS
<1>3. /\ DOMAIN y = Fields /\ y.req = x.req /\ y.pre = x.pre /\ y.post = x.post /\ y.own = x.own
      /\ y.op = x.op /\ y.set = (IF res.ok THEN "ok" ELSE "failed") /\ y.lost = res.lost
  BY <1>2, <1>y DEF Fields, Verdict
<1>4. CASE x.req.proc = "MKDIR"
  <2>w. PICK w : w = Wcc(y, y.post)
    OBVIOUS
  <2>z. PICK z : z = Answer(y, s, w)
    OBVIOUS
  <2>1. AfterSet(x, res) = z
    BY <1>4, <1>s, <1>y, <2>w, <2>z DEF AfterSet
  <2>2. /\ DOMAIN z = Fields /\ z.at = "done" /\ z.stat = s /\ z.wcc = w /\ z.req = x.req
        /\ z.own = x.own /\ z.op = y.op /\ z.set = y.set /\ z.lost = y.lost
    BY <1>3, <2>z, AnswerFields
  <2>3. Honest(z)
    BY <1>1, <1>3, <1>s, <2>2 DEF Honest
  <2>4. ASSUME x.own > 0, NEW i \in DOMAIN w
        PROVE  NoAttr \notin {w[i][1], w[i][2]} => w[i][1] < w[i][2]
    <3>1. i \in DOMAIN ObjectsOf(x.req) /\ w[i] = <<x.pre[i], x.post[i]>>
      BY <1>2, <1>3, <2>4, <2>w, HandlerRight DEF Wcc, Objects
    <3>2. Full(x)
      BY <1>1, <1>4 DEF Acted, Blind
    <3>3. /\ Len(x.pre) = Len(ObjectsOf(x.req)) /\ Len(x.post) = Len(ObjectsOf(x.req))
          /\ x.pre \in Seq(Int) /\ x.post \in Seq(Int)
      BY <1>1, <1>4, <3>2 DEF Acted, Full
    <3>4. DOMAIN ObjectsOf(x.req) = 1..Len(ObjectsOf(x.req))
      BY ObjectsTyped
    <3>5. i \in DOMAIN x.pre /\ i \in DOMAIN x.post
      BY <3>1, <3>3, <3>4
    <3>6. NoAttr \in {x.pre[i], x.post[i]} \/ x.pre[i] < x.post[i]
      BY <1>1, <2>4, <3>5 DEF Acted
    <3> QED
      BY <3>1, <3>6
  <2>5. Answered(z)
    BY <1>2, <1>4, <2>2, <2>3, <2>4 DEF Answered
  <2> QED
    BY <2>1, <2>2, <2>5 DEF CallInv
<1>5. CASE x.req.proc = "CREATE"
  <2>z. PICK z : z = [y EXCEPT !.at = "post", !.stat = s]
    OBVIOUS
  <2>1. AfterSet(x, res) = z
    BY <1>5, <1>s, <1>y, <2>z DEF AfterSet
  <2>2. /\ DOMAIN z = Fields /\ z.at = "post" /\ z.stat = s /\ z.req = x.req /\ z.pre = x.pre
        /\ z.post = x.post /\ z.own = x.own
        /\ z.op = y.op /\ z.set = y.set /\ z.lost = y.lost
    BY <1>3, <2>z DEF Fields
  <2>3. Honest(z)
    BY <1>1, <1>3, <1>s, <2>2 DEF Honest
  <2>4. Acted(res.fs, z)
    BY <1>1, <2>2, <2>3 DEF Acted, Full
  <2>5. Len(z.post) < Len(ObjectsOf(z.req))
    <3>1. 0 < Len(ObjectsOf(z.req))
      BY ObjectsTyped
    <3>2. Len(z.post) = 0
      BY <1>1, <1>5, <2>2
    <3> QED
      BY <3>1, <3>2
  <2> QED
    BY <1>5, <2>1, <2>2, <2>4, <2>5 DEF CallInv, Running
<1> QED
  BY <1>1, <1>4, <1>5

\* Set: files change, no names do, and the procedure is one that writes.
LEMMA SetRight ==
    ASSUME Inv, NEW c \in Calls, Set(c)
    PROVE  /\ OnlyFiles(fs, fs')
           /\ \E y : Become(c, y) /\ CallInv(fs', y)
           /\ call[c].req.proc \in Writing
<1>p. PICK x : x = call[c]
  OBVIOUS
<1>1. CallInv(fs, x) /\ x.at = "set" /\ FsInv
  BY <1>p DEF Set, Step, Inv
<1>2. PICK can, res : /\ res = setattr(fs, x.id, x.req.set, can)
                      /\ \/ res.ok /\ fs' = res.fs /\ Become(c, AfterSet(x, res))
                         \/ \E f \in {fs, res.fs} : fs' = f /\ Become(c, AfterSet(x, Err(f)))
  BY <1>p DEF Set
<1>3. OnlyFiles(fs, res.fs) /\ OnlyFiles(fs, fs)
  BY <1>1, <1>2, SetattrRight, SameFiles DEF FsInv
<1>4. x.req.proc \in {"MKDIR", "CREATE"} /\ x.req \in Requests
  BY <1>1 DEF CallInv, Acted
<1>5. x.req.proc \in Writing /\ x.req.set \subseteq Settable
  BY <1>1, <1>4 DEF Writing, FsInv, Askable
<1>6. CASE res.ok /\ fs' = res.fs /\ Become(c, AfterSet(x, res))
  <2>1. res.lost \subseteq {"mode"}
    BY <1>2, <1>5, <1>6, SetattrLoses
  <2>2. CallInv(res.fs, AfterSet(x, res))
    BY <1>1, <1>3, <2>1, AfterSetRight DEF OnlyFiles
  <2> QED
    BY <1>3, <1>5, <1>6, <1>p, <2>2
<1>7. CASE \E f \in {fs, res.fs} : fs' = f /\ Become(c, AfterSet(x, Err(f)))
  <2>1. PICK f : f \in {fs, res.fs} /\ fs' = f /\ Become(c, AfterSet(x, Err(f)))
    BY <1>7
  <2>2. OnlyFiles(fs, f)
    BY <1>3, <2>1
  <2>3. Err(f).fs = f /\ ~Err(f).ok
    BY DEF Err
  <2>4. CallInv(f, AfterSet(x, Err(f)))
    BY <1>1, <2>2, <2>3, AfterSetRight DEF OnlyFiles
  <2> QED
    BY <1>5, <1>p, <2>1, <2>2, <2>4
<1> QED
  BY <1>2, <1>6, <1>7

------------------------------------------------------------------------------
(* The invariant.                                                          *)

\* The invariant holds at the start.
LEMMA InvInit ==
    ASSUME Init
    PROVE  Inv
<1>1. FsInv
  BY ProcsAssumption DEF Init, FsInv
<1>2. DOMAIN call = Calls /\ \A c \in Calls : call[c] = Blank
  BY DEF Init
<1>3. CallInv(fs, Blank)
  BY DEF CallInv, Blank
<1> QED
  BY <1>1, <1>2, <1>3 DEF Inv

\* A step of one call, and what it does to the file system.
LEMMA StepRight ==
    ASSUME Inv, NEW c \in Calls,
           \/ Start(c) \/ Stat(c) \/ Access(c) \/ Look(c) \/ Check(c)
           \/ Act(c) \/ Post(c) \/ Set(c)
    PROVE  /\ FileSystem(fs') /\ Grows(fs, fs')
           /\ \E y : Become(c, y) /\ CallInv(fs', y)
<1>1. FileSystem(fs) /\ Grows(fs, fs)
  BY GrowsReflexive DEF Inv, FsInv
<1>2. CASE Start(c)
  BY <1>1, <1>2, StartRight
<1>3. CASE Stat(c)
  BY <1>1, <1>3, StatRight
<1>4. CASE Access(c)
  BY <1>1, <1>4, AccessRight
<1>5. CASE Look(c)
  BY <1>1, <1>5, LookRight
<1>6. CASE Check(c)
  BY <1>1, <1>6, CheckRight
<1>7. CASE Act(c)
  BY <1>7, ActRight
<1>8. CASE Post(c)
  BY <1>1, <1>8, PostRight
<1>9. CASE Set(c)
  BY <1>9, SetRight DEF OnlyFiles
<1> QED
  BY <1>2, <1>3, <1>4, <1>5, <1>6, <1>7, <1>8, <1>9

\* The directories stay, and with them what may be asked.
LEMMA AskableLater ==
    ASSUME FsInv, FileSystem(fs'), Grows(fs, fs')
    PROVE  FsInv'
BY DEF FsInv, Askable, Grows

\* Every step keeps the invariant.
LEMMA InvNext ==
    ASSUME Inv, [Next]_vars
    PROVE  Inv'
<1>1. CASE UNCHANGED vars
  BY <1>1 DEF vars, Inv, FsInv
<1>2. CASE Next
  <2>1. PICK c \in Calls : \/ Start(c) \/ Stat(c) \/ Access(c) \/ Look(c) \/ Check(c)
                           \/ Act(c) \/ Post(c) \/ Set(c)
    BY <1>2 DEF Next
  <2>2. FileSystem(fs') /\ Grows(fs, fs')
    BY <2>1, StepRight
  <2>3. PICK y : Become(c, y) /\ CallInv(fs', y)
    BY <2>1, StepRight
  <2>4. FsInv'
    BY <2>2, AskableLater DEF Inv
  <2>5. /\ DOMAIN call' = Calls /\ call'[c] = y
        /\ \A b \in Calls : b # c => call'[b] = call[b]
    BY <2>3 DEF Become, Inv
  <2>6. \A b \in Calls : CallInv(fs', call'[b])
    <3> TAKE b \in Calls
    <3>1. CASE b = c
      BY <2>3, <2>5, <3>1
    <3>2. CASE b # c
      <4>1. CallInv(fs, call[b]) /\ FileSystem(fs)
        BY DEF Inv, FsInv
      <4>2. CallInv(fs', call[b])
        BY <2>2, <4>1, CallLater
      <4> QED
        BY <2>5, <3>2, <4>2
    <3> QED
      BY <3>1, <3>2
  <2> QED
    BY <2>4, <2>5, <2>6 DEF Inv
<1> QED
  BY <1>1, <1>2

\* The invariant holds throughout.
LEMMA Invariance == Spec => []Inv
BY InvInit, InvNext, PTL DEF Spec

(* OK is answered only if nothing failed that was asked of the file        *)
(* system, but for modes and times, and what CREATE was to set of the file *)
(* it made; and what succeeded is answered OK, but for MKDIR whose setattr *)
(* failed.  So it is whatever fails and whatever other calls do.           *)
THEOREM AnswersHonest == Spec => []ErrorsHonest
<1>1. Inv => ErrorsHonest
  BY DEF Inv, CallInv, Answered, Honest, ErrorsHonest, Done
<1> QED
  BY <1>1, Invariance, PTL

(* Whatever runs in between, a call's own change lies between the          *)
(* attributes that it answers for each of its objects.                     *)
THEOREM OwnChangeLies == Spec => []OwnChangeInWcc
<1>1. Inv => OwnChangeInWcc
  BY DEF Inv, CallInv, Answered, OwnChangeInWcc, Done
<1> QED
  BY <1>1, Invariance, PTL

(* The data of a READ is no older than the attributes answered with it.    *)
THEOREM ReadsFresh == Spec => []ReadNotStale
<1>1. Inv => ReadNotStale
  BY DEF Inv, CallInv, Answered, ReadNotStale, Done
<1> QED
  BY <1>1, Invariance, PTL

------------------------------------------------------------------------------
(* The capabilities.                                                       *)

\* While the file system is read-only, no call that writes gets past Start.
Refused ==
    /\ cap \in {"ReadOnly", "ReadWrite"}
    /\ cap = "ReadOnly" =>
           \A c \in Calls : call[c].at \in Running => call[c].req.proc \notin Writing

\* A handler deals with the request it was started for.
LEMMA RequestKept ==
    ASSUME Inv, NEW c \in Calls,
           \/ Stat(c) \/ Access(c) \/ Look(c) \/ Check(c) \/ Act(c) \/ Post(c) \/ Set(c)
    PROVE  /\ call'[c].req = call[c].req /\ call[c].at \in Running
           /\ \A b \in Calls : b # c => call'[b] = call[b]
<1>p. PICK x : x = call[c]
  OBVIOUS
<1>1. x.at \in Running
  BY <1>p DEF Stat, Access, Look, Check, Act, Post, Set, Step, Running
<1>2. DOMAIN x = Fields /\ DOMAIN call = Calls
  BY <1>1, <1>p DEF Inv, CallInv, Ready, Acted, Running
<1>3. /\ \A y, s, w : DOMAIN y = Fields => Answer(y, s, w).req = y.req
      /\ \A y, a : DOMAIN y = Fields => [y EXCEPT !.at = a].req = y.req
      /\ \A y, a, s : DOMAIN y = Fields => [y EXCEPT !.at = a, !.stat = s].req = y.req
      /\ \A y, a, i : DOMAIN y = Fields => [y EXCEPT !.at = a, !.id = i].req = y.req
  BY DEF Answer, Fields
<1>4. ASSUME NEW y, DOMAIN y = Fields PROVE Onward(y).req = y.req
  BY <1>3, <1>4 DEF Onward
<1>5. \E y : Become(c, y) /\ y.req = x.req
  <2>1. CASE Stat(c)
    <3>1. PICK a, w : \/ Become(c, Answer(x, "NOENT", w))
                      \/ Become(c, AfterStat([x EXCEPT !.pre = Append(@, a)]))
      BY <2>1, <1>p DEF Stat
    <3>2. PICK y : y = [x EXCEPT !.pre = Append(@, a)]
      OBVIOUS
    <3>3. DOMAIN y = Fields /\ y.req = x.req
      BY <1>2, <3>2 DEF Fields
    <3>4. AfterStat(y).req = x.req
      BY <1>3, <1>4, <3>3 DEF AfterStat
    <3> QED
      BY <1>2, <1>3, <3>1, <3>2, <3>4
  <2>2. CASE Access(c)
    BY <1>2, <1>3, <1>4, <1>p, <2>2 DEF Access, Denied
  <2>3. CASE Look(c)
    <3>1. PICK s, y, found :
              /\ Become(c, Looked(y, found))
              /\ \/ y = [x EXCEPT !.seen = s]
                 \/ y = [[x EXCEPT !.seen = s] EXCEPT !.missed = TRUE]
      BY <1>p, <2>3 DEF Look
    <3>2. DOMAIN y = Fields /\ y.req = x.req
      BY <1>2, <3>1 DEF Fields
    <3>3. Looked(y, found).req = x.req
      BY <1>3, <3>2 DEF Looked
    <3> QED
      BY <3>1, <3>3
  <2>4. CASE Check(c)
    <3>1. \A a : Checked(x, a).req = x.req
      BY <1>2, <1>3 DEF Checked
    <3> QED
      BY <1>p, <2>4, <3>1 DEF Check
  <2>5. CASE Act(c)
    <3>1. ASSUME NEW res PROVE DOMAIN Did(x, res) = Fields /\ Did(x, res).req = x.req
      BY <1>2 DEF Did, Fields
    <3>2. ASSUME NEW res PROVE Result(x, res).req = x.req
      <4>1. PICK y : y = Did(x, res)
        OBVIOUS
      <4>2. DOMAIN y = Fields /\ y.req = x.req
        BY <3>1, <4>1
      <4>3. PICK z : z = [y EXCEPT !.data = getattr(fs, x.req.id), !.post = x.pre]
        OBVIOUS
      <4>4. DOMAIN z = Fields /\ z.req = x.req
        BY <4>2, <4>3 DEF Fields
      <4>5. \/ Result(x, res) = [y EXCEPT !.at = "post"]
            \/ \E w : Result(x, res) = Answer(y, "OK", w)
            \/ Result(x, res) = Answer(z, "OK", <<>>)
        BY <4>1, <4>3, Zenon DEF Result
      <4>6. /\ [y EXCEPT !.at = "post"].req = x.req
            /\ \A w : Answer(y, "OK", w).req = x.req
            /\ Answer(z, "OK", <<>>).req = x.req
        BY <1>3, <4>2, <4>4
      <4> QED
        BY <4>5, <4>6, Zenon
    <3>3. ASSUME NEW res PROVE Failed(x, res).req = x.req
      <4>1. PICK y : y = Did(x, res)
        OBVIOUS
      <4>2. DOMAIN y = Fields /\ y.req = x.req
        BY <3>1, <4>1
      <4>3. \/ Failed(x, res) = [y EXCEPT !.at = "post", !.stat = "IO"]
            \/ \E w : Failed(x, res) = Answer(y, "IO", w)
        BY <4>1, Zenon DEF Failed
      <4>4. /\ [y EXCEPT !.at = "post", !.stat = "IO"].req = x.req
            /\ \A w : Answer(y, "IO", w).req = x.req
        BY <1>3, <4>2
      <4> QED
        BY <4>3, <4>4, Zenon
    <3> QED
      BY <1>p, <2>5, <3>2, <3>3 DEF Act
  <2>6. CASE Post(c)
    <3>1. PICK a : Become(c, AfterPost([x EXCEPT !.post = Append(@, a)]))
      BY <2>6, <1>p DEF Post
    <3>2. PICK y : y = [x EXCEPT !.post = Append(@, a)]
      OBVIOUS
    <3>3. DOMAIN y = Fields /\ y.req = x.req
      BY <1>2, <3>2 DEF Fields
    <3>4. AfterPost(y).req = x.req
      BY <1>3, <3>3 DEF AfterPost
    <3> QED
      BY <3>1, <3>2, <3>4
  <2>7. CASE Set(c)
    <3>1. ASSUME NEW res PROVE AfterSet(x, res).req = x.req
      <4>1. PICK y : y = [x EXCEPT !.set = Verdict(res), !.lost = res.lost]
        OBVIOUS
      <4>2. DOMAIN y = Fields /\ y.req = x.req
        BY <1>2, <4>1 DEF Fields
      <4>3. PICK s, w : \/ AfterSet(x, res) = [y EXCEPT !.at = "post", !.stat = s]
                        \/ AfterSet(x, res) = Answer(y, s, w)
        BY <4>1, Zenon DEF AfterSet
      <4>4. /\ [y EXCEPT !.at = "post", !.stat = s].req = x.req
            /\ Answer(y, s, w).req = x.req
        BY <1>3, <4>2
      <4> QED
        BY <4>3, <4>4, Zenon
    <3> QED
      BY <1>p, <2>7, <3>1 DEF Set
  <2> QED
    BY <2>1, <2>2, <2>3, <2>4, <2>5, <2>6, <2>7
<1> QED
  BY <1>1, <1>2, <1>5, <1>p DEF Become

\* No step of a read-only server starts a writing call, or changes anything.
LEMMA RefusedNext ==
    ASSUME Inv, Refused, [Next]_vars
    PROVE  Refused' /\ (cap = "ReadOnly" => UNCHANGED fs)
<1>1. CASE UNCHANGED vars
  BY <1>1 DEF vars, Refused
<1>2. CASE Next
  <2>1. PICK c \in Calls : \/ Start(c) \/ Stat(c) \/ Access(c) \/ Look(c) \/ Check(c)
                           \/ Act(c) \/ Post(c) \/ Set(c)
    BY <1>2 DEF Next
  <2>2. cap' = cap
    BY <2>1 DEF Start, Stat, Access, Look, Check, Act, Post, Set, Step
  <2>3. CASE Start(c)
    <3>1. fs' = fs
      BY <2>3 DEF Start
    <3>2. PICK r \in Requests :
              LET x == [call[c] EXCEPT !.req = r]
              IN  IF Handler(r).writes /\ cap # "ReadWrite" THEN Become(c, ReadOnly(x))
                  ELSE IF r.proc = "WRITE" /\ r.garbled = "count"
                  THEN Become(c, Answer(x, "GARBAGE_ARGS", <<>>))
                  ELSE \/ Become(c, Answer(x, "STALE", Default(r)))
                       \/ Become(c, [x EXCEPT !.at = IF Handler(r).stat = "no" THEN "act" ELSE "stat"])
      BY <2>3 DEF Start
    <3>3. call[c] = Blank /\ DOMAIN call = Calls
      BY <2>3 DEF Start, Step, Inv, CallInv
    <3>4. Handler(r).writes <=> r.proc \in Writing
      BY HandlerRight DEF Inv, FsInv
    <3>x. PICK x : x = [call[c] EXCEPT !.req = r]
      OBVIOUS
    <3>5. DOMAIN x = Fields /\ x.req = r
      BY <3>3, <3>x DEF Blank, Fields
    <3>6. \/ \E s, w : Become(c, Answer(x, s, w))
          \/ /\ ~(r.proc \in Writing /\ cap # "ReadWrite")
             /\ \E a : Become(c, [x EXCEPT !.at = a])
      BY <3>2, <3>4, <3>x DEF ReadOnly
    <3>7. cap = "ReadOnly" => (call'[c].at \in Running => call'[c].req.proc \notin Writing)
      <4>1. CASE \E s, w : Become(c, Answer(x, s, w))
        <5>1. call'[c].at = "done"
          BY <3>3, <3>5, <4>1, AnswerFields DEF Become
        <5> QED
          BY <5>1 DEF Running
      <4>2. CASE ~(r.proc \in Writing /\ cap # "ReadWrite") /\ \E a : Become(c, [x EXCEPT !.at = a])
        <5>1. call'[c].req = r
          BY <3>3, <3>5, <4>2 DEF Become, Fields
        <5> QED
          BY <4>2, <5>1
      <4> QED
        BY <3>6, <4>1, <4>2
    <3>8. \A b \in Calls : b # c => call'[b] = call[b]
      BY <3>3, <3>6 DEF Become
    <3> QED
      BY <2>2, <3>1, <3>7, <3>8 DEF Refused
  <2>4. CASE \/ Stat(c) \/ Access(c) \/ Look(c) \/ Check(c) \/ Act(c) \/ Post(c) \/ Set(c)
    <3>1. /\ call'[c].req = call[c].req /\ call[c].at \in Running
          /\ \A b \in Calls : b # c => call'[b] = call[b]
      BY <2>4, RequestKept
    <3>2. Refused'
      BY <2>2, <3>1 DEF Refused
    <3>3. ASSUME cap = "ReadOnly" PROVE UNCHANGED fs
      <4>1. call[c].req.proc \notin Writing
        BY <3>1, <3>3 DEF Refused
      <4>2. ~Set(c)
        BY <4>1, SetRight
      <4>3. Act(c) => fs' = fs
        BY <4>1, ActRight
      <4> QED
        BY <2>4, <4>2, <4>3 DEF Stat, Access, Look, Check, Post
    <3> QED
      BY <3>2, <3>3
  <2> QED
    BY <2>1, <2>3, <2>4
<1> QED
  BY <1>1, <1>2

(* A server without write capabilities changes nothing, whatever is asked  *)
(* of it, on however many connections and whatever fails.                  *)
THEOREM CapabilitiesKept == Spec => ReadOnlyKept
<1>1. Init => Refused
  BY DEF Init, Refused, Blank, Running
<1>2. Inv /\ Refused /\ [Next]_vars => Refused' /\ [cap = "ReadOnly" => UNCHANGED fs]_vars
  BY RefusedNext
<1> QED
  BY <1>1, <1>2, Invariance, PTL DEF Spec, ReadOnlyKept

------------------------------------------------------------------------------
(* What a handler has looked at before it changes anything.                *)

\* The steps that are not of the operation leave the files alone, or are setattr.
LEMMA ActsAct ==
    ASSUME Inv, [Next]_vars, NEW c \in Calls, NEW proc, Acts(c, proc)
    PROVE  Act(c) /\ CallInv(fs, call[c]) /\ call[c].at = "act" /\ call[c].req.proc = proc
<1>1. call' # call
  BY DEF Acts
<1>2. PICK b \in Calls : \/ Start(b) \/ Stat(b) \/ Access(b) \/ Look(b) \/ Check(b)
                         \/ Act(b) \/ Post(b) \/ Set(b)
  BY <1>1 DEF Next, vars
<1>3. PICK y : Become(b, y)
  BY <1>2, StepRight
<1>4. b = c
  BY <1>3 DEF Become, Acts, Inv
<1>5. call[c].at = "act" /\ call[c].req.proc = proc
  BY DEF Acts
<1> QED
  BY <1>2, <1>4, <1>5 DEF Inv, Start, Stat, Access, Look, Check, Post, Set, Step

(* CREATE drops the data of a file that exists only if the name was free   *)
(* when it looked, or the look-up failed, whatever other calls do.         *)
THEOREM NothingTruncated == Spec => CreateKeeps
<1>1. Inv /\ [Next]_vars =>
          [\A c \in Calls : Acts(c, "CREATE") =>
               \A id \in DOMAIN fs.file :
                   fs'.file[id].data # fs.file[id].data =>
                       call[c].missed \/ call[c].seen = 0]_vars
  <2> SUFFICES ASSUME Inv, [Next]_vars, NEW c \in Calls, Acts(c, "CREATE"), fs' # fs
               PROVE  call[c].missed \/ call[c].seen = 0
    OBVIOUS
  <2>1. Act(c) /\ CallInv(fs, call[c]) /\ call[c].at = "act" /\ call[c].req.proc = "CREATE"
    BY ActsAct
  <2>2. CASE call[c].req.how # "EXCLUSIVE"
    BY <2>1, <2>2 DEF CallInv, Sure
  <2>3. CASE call[c].req.how = "EXCLUSIVE"
    <3>1. \A can : handle_nfs(call[c].req, can) = nfsproc3_create(call[c].req, can)
      BY <2>1 DEF handle_nfs
    <3>2. \A can : handle_nfs(call[c].req, can).op = Err(fs)
      BY <2>3, <3>1 DEF nfsproc3_create, InDir, create_exclusive
    <3>3. fs' = fs
      BY <2>1, <3>2 DEF Act, Err
    <3> QED
      BY <3>3
  <2> QED
    BY <2>2, <2>3
<1> QED
  BY <1>1, Invariance, PTL DEF Spec, CreateKeeps

(* RMDIR takes the last name of what is no directory only if it had found  *)
(* another file under the name, which was a directory.                     *)
THEOREM DirsOnly == Spec => RmdirOnlyDirs
<1>1. Inv /\ [Next]_vars =>
          [\A c \in Calls : Acts(c, "RMDIR") =>
               \A id \in DOMAIN fs.file :
                   (~IsDir(fs, id) /\ Live(fs, id) /\ ~Live(fs', id)) =>
                       call[c].id # id /\ IsDir(fs, call[c].id)]_vars
  <2> SUFFICES ASSUME Inv, [Next]_vars, NEW c \in Calls, Acts(c, "RMDIR")
               PROVE  IsDir(fs, call[c].id)
    OBVIOUS
  <2>1. CallInv(fs, call[c]) /\ call[c].at = "act" /\ call[c].req.proc = "RMDIR"
    BY ActsAct
  <2> QED
    BY <2>1 DEF CallInv, Sure
<1> QED
  BY <1>1, Invariance, PTL DEF Spec, RmdirOnlyDirs

(* A SETATTR with a guard changes a file only while its ctime is the one   *)
(* that the client gave, or has grown since it was read.                   *)
THEOREM GuardRespected == Spec => GuardHeld
<1>1. Inv /\ [Next]_vars =>
          [\A c \in Calls :
               (Acts(c, "SETATTR") /\ call[c].req.guard # NoAttr /\ fs' # fs) =>
                   LET ctime == getattr(fs, call[c].req.id)
                   IN  ctime = call[c].req.guard \/ ctime > call[c].pre[1]]_vars
  <2> DEFINE ctime(c) == getattr(fs, call[c].req.id)
  <2> SUFFICES ASSUME Inv, [Next]_vars, NEW c \in Calls, Acts(c, "SETATTR"),
                      call[c].req.guard # NoAttr, fs' # fs
               PROVE  ctime(c) = call[c].req.guard \/ ctime(c) > call[c].pre[1]
    OBVIOUS
  <2>p. PICK x : x = call[c]
    OBVIOUS
  <2>1. Act(c) /\ CallInv(fs, x) /\ x.at = "act" /\ x.req.proc = "SETATTR"
    BY <2>p, ActsAct
  <2>2. Ready(fs, x) /\ Full(x) /\ x.req.guard = x.pre[1]
    BY <2>1, <2>p DEF CallInv, Sure, Blind
  <2>3. PICK can, res : res = handle_nfs(x.req, can).op /\ fs' \in {fs, res.fs}
    BY <2>1, <2>p DEF Act
  <2>4. handle_nfs(x.req, can) = nfsproc3_setattr(x.req, can)
    BY <2>1 DEF handle_nfs
  <2>5. res = setattr(fs, x.req.id, x.req.set, can)
    BY <2>3, <2>4 DEF nfsproc3_setattr, OnFile
  <2>6. Live(fs, x.req.id)
    BY <2>3, <2>5 DEF setattr, Err
  <2>7. getattr(fs, x.req.id) = Age(fs, x.req.id) /\ Age(fs, x.req.id) \in Nat
    BY <2>6, AttrIsAge DEF Inv, FsInv
  <2>8. ObjectsOf(x.req) = <<x.req.id>>
    BY <2>1, ObjectsTyped DEF FileProcs
  <2>9. x.pre \in Seq(Int) /\ Len(x.pre) = 1
    BY <2>2, <2>8 DEF Ready, Full
  <2>10. x.pre[1] \in Int /\ 1 \in DOMAIN x.pre
    BY <2>9
  <2>11. x.pre[1] <= Age(fs, x.req.id)
    BY <2>2, <2>8, <2>10, <2>p DEF Ready
  <2> QED
    BY <2>2, <2>7, <2>10, <2>11, <2>p
<1> QED
  BY <1>1, Invariance, PTL DEF Spec, GuardHeld
==============================================================================

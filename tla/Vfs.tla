---------------------------------- MODULE Vfs ----------------------------------
(***************************************************************************)
(* The file system the NFS procedures call (the trait NFSFileSystem of     *)
(* src/vfs.rs), as MirrorFS implements its methods (src/bin/fernfs/fs.rs): *)
(* each call is atomic, for MirrorFS holds its lock throughout; that write *)
(* lets go of the lock before it opens the file is a matter of the module  *)
(* MirrorFS.  A call that fails changes nothing, but for setattr; the      *)
(* procedures may see any call fail after its change as well.              *)
(*                                                                         *)
(* f is a file system: the names in each directory, the files by id, and   *)
(* for each directory a count of its changes, which stands for its times   *)
(* (a file's ctime is a count as well).  Ids are never used again.         *)
(* Directories made by a client stay empty, symbolic links are not         *)
(* followed, and a change of a file's names leaves its ctime alone.        *)
(***************************************************************************)
EXTENDS Integers, Sequences, Tables

AnyType == {"reg", "dir", "lnk", "node"}
\* What setattr sets: the mode stands for the times as well.
Settable == {"mode", "size"}

\* What f is: every name leads to a file.
File == [ftype : AnyType, ctime : Nat, data : BOOLEAN]
FileSystem(f) ==
    /\ DOMAIN f = {"dir", "ver", "file"}
    /\ f.dir = [d \in DOMAIN f.dir |-> f.dir[d]]
    /\ f.ver \in [DOMAIN f.dir -> Nat]
    /\ f.file \in Seq(File)
    /\ \A d \in DOMAIN f.dir : Range(f.dir[d]) \subseteq DOMAIN f.file

\* The result of a call: the file system it leaves, and a file id.  Only for the
\* properties: what was to be set and is not.
Ok(f, id) == [ok |-> TRUE, fs |-> f, id |-> id, lost |-> {}]
Err(f) == [ok |-> FALSE, fs |-> f, id |-> 0, lost |-> {}]

Has(f, d, n) == n \in DOMAIN f.dir[d]
Named(f, d, n) == f.file[f.dir[d][n]]
Live(f, id) == \E d \in DOMAIN f.dir : id \in Range(f.dir[d])
IsDir(f, id) == f.file[id].ftype = "dir"

\* The file id was changed, and now has data or none.
Changed(f, id, data) ==
    LET e == f.file[id]
    IN  [f EXCEPT !.file[id] = [e EXCEPT !.ctime = e.ctime + 1, !.data = data]]

\* The directories of S were changed.
Touched(f, S) ==
    [f EXCEPT !.ver = [d \in DOMAIN f.ver |-> IF d \in S THEN f.ver[d] + 1 ELSE f.ver[d]]]
Linked(f, d, n, id) == [f EXCEPT !.dir[d] = Override(Entry(n, id), @)]
Unlinked(f, d, n) == [f EXCEPT !.dir[d] = Without(@, {n})]
Enter(f, d, n, id) == Touched(Linked(f, d, n, id), {d})
New(f, d, n, ftype) ==
    LET id == Len(f.file) + 1
        file == [ftype |-> ftype, ctime |-> 0, data |-> FALSE]
    IN  Ok(Enter([f EXCEPT !.file = Append(@, file)], d, n, id), id)

lookup(f, d, n) == IF Has(f, d, n) THEN Ok(f, f.dir[d][n]) ELSE Err(f)

(* create opens with truncation whatever has the name, and ignores what    *)
(* cannot be set; an exclusive create is not supported.                    *)
create(f, d, n, set, can) ==
    LET id == f.dir[d][n]
        made == IF Has(f, d, n) THEN Ok(Changed(f, id, FALSE), id) ELSE New(f, d, n, "reg")
    IN  IF Has(f, d, n) /\ IsDir(f, id) THEN Err(f)
        ELSE [made EXCEPT !.lost = set \ can]
create_exclusive(f, d, n) == Err(f)
make(f, d, n, ftype) == IF Has(f, d, n) THEN Err(f) ELSE New(f, d, n, ftype)
link(f, id, d, n) ==
    IF Live(f, id) /\ ~IsDir(f, id) /\ ~Has(f, d, n) THEN Ok(Enter(f, d, n, id), id) ELSE Err(f)

remove(f, d, n) ==
    IF Has(f, d, n) THEN Ok(Touched(Unlinked(f, d, n), {d}), 0) ELSE Err(f)

(* rename replaces a target of the same kind; two names of one file stay.  *)
rename(f, d, n, to, as) ==
    LET id == f.dir[d][n]
    IN  IF ~Has(f, d, n) THEN Err(f)
        ELSE IF Has(f, to, as) /\ f.dir[to][as] = id THEN Ok(f, 0)
        ELSE IF Has(f, to, as) /\ (IsDir(f, id) # IsDir(f, f.dir[to][as])) THEN Err(f)
        ELSE Ok(Touched(Linked(Unlinked(f, d, n), to, as, id), {d, to}), 0)

(* path_setattr, where the host grants what is in can.  The mode and the   *)
(* times come first, and that they cannot be set is ignored; then the      *)
(* size, of nothing but a regular file, which drops the data.              *)
path_setattr(f, id, set, can) ==
    LET tried == IF "mode" \in set \cap can THEN Changed(f, id, f.file[id].data) ELSE f
        done == IF "size" \in set THEN Changed(f, id, FALSE) ELSE tried
    IN  IF "size" \in set /\ ("size" \notin can \/ f.file[id].ftype # "reg") THEN Err(tried)
        ELSE [Ok(done, id) EXCEPT !.lost = set \ can]
setattr(f, id, set, can) == IF Live(f, id) THEN path_setattr(f, id, set, can) ELSE Err(f)
write(f, id) ==
    IF Live(f, id) /\ f.file[id].ftype = "reg"
    THEN Ok(Changed(f, id, TRUE), id)
    ELSE Err(f)

(* read, readlink, commit, fsstat and fsinfo change nothing.               *)
consult(f, id, ftypes) ==
    IF Live(f, id) /\ f.file[id].ftype \in ftypes THEN Ok(f, id) ELSE Err(f)

NoAttr == -1
\* getattr of a directory of the export, or of a file.
getattr(f, o) ==
    IF o \in DOMAIN f.dir THEN f.ver[o]
    ELSE IF Live(f, o) THEN f.file[o].ctime ELSE NoAttr
==============================================================================

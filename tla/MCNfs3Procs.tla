------------------------------ MODULE MCNfs3Procs ------------------------------
(* Small instances of Nfs3Procs.                                           *)
EXTENDS Nfs3Procs, TLC

CONSTANTS d1, d2     \* the directories of the export

\* A file with data or a directory, or a symbolic link too, is a in the first
\* directory; the second is empty.
Old(ftype) == [ftype |-> ftype, ctime |-> 0, data |-> ftype = "reg"]
With(ftype) == [dir |-> (d1 :> ("a" :> 1)) @@ (d2 :> <<>>),
                ver |-> (d1 :> 0) @@ (d2 :> 0),
                file |-> <<Old(ftype)>>]
ThreeKinds == {With("reg"), With("dir"), With("lnk")}

D == {d1}
N == {"a", "b"}
Creates ==
    [proc : {"CREATE"}, how : {"GUARDED"}, set : {{"size"}}, d : D, n : N]
    \cup [proc : {"CREATE"}, how : {"UNCHECKED"}, set : {{"mode"}, {"size"}}, d : D, n : N]
    \cup [proc : {"CREATE"}, how : {"EXCLUSIVE"}, set : {{}}, d : D, n : N]
Makes == [proc : {"MKDIR"}, d : D, n : N, set : {{}, {"mode"}, {"mode", "size"}}]
    \cup [proc : {"SYMLINK"}, d : D, n : N]
    \cup [proc : {"MKNOD"}, d : D, n : N, known : BOOLEAN]
    \cup [proc : {"LINK"}, id : {1}, d : D, n : N]
Removes == [proc : {"REMOVE", "RMDIR"}, d : D, n : N]
    \cup [proc : {"RENAME"}, d : D, n : N, to : {d1, d2}, as : N]
Changes == [proc : {"SETATTR"}, id : {1}, set : {{"mode"}, {"size"}, {"mode", "size"}}, guard : {NoAttr, 0, 1}]
    \cup [proc : {"WRITE"}, id : {1}, garbled : {"no", "count", "stable"}]
Reads == [proc : {"READ", "READLINK", "GETATTR", "ACCESS", "COMMIT", "FSSTAT", "FSINFO", "PATHCONF"},
          id : {1}]
    \cup [proc : {"LOOKUP"}, d : D, n : N]

All == Creates \cup Makes \cup Removes \cup Changes \cup Reads
\* The calls are alike.
CallSymmetry == Permutations(Calls)
==============================================================================

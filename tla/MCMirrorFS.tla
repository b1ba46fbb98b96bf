------------------------------ MODULE MCMirrorFS ------------------------------
(* Small instances of MirrorFS.                                            *)
EXTENDS MirrorFS, TLC

CONSTANTS
    i0, i1, i2, i3, \* the inodes: the root's and three more
    a, b, third     \* names

Root == (<<>> :> [ino |-> i0, ftype |-> "dir"])
Reg(i) == [ino |-> i, ftype |-> "reg"]
Dir(i) == [ino |-> i, ftype |-> "dir"]

\* The directory at the start: empty or with two files; or with a file in a
\* subdirectory.
Flat == {Root, (<<a>> :> Reg(i1)) @@ (<<b>> :> Reg(i2)) @@ Root}
Nested == Flat \cup {(<<a>> :> Dir(i1)) @@ (<<a, b>> :> Reg(i2)) @@ Root}
Disks == <<Flat, Nested>>

\* Clients alone, with a subdirectory; one directory that other programs change,
\* the same with an operation under way without the lock; and smaller ones.
Clients == [depth : {2}, ids : {4}, shared : {FALSE}, users : {{}}]
Host == [depth : {1}, ids : {3}, shared : {TRUE}, users : {{}}]
Crowd == [depth : {1}, ids : {2}, shared : {TRUE}, users : {Users}]
OneWriter == [depth : {1}, ids : {3}, shared : {FALSE}, users : {Users}]
All == Clients \cup Host \cup Crowd \cup OneWriter
OneClient == [depth : {1}, ids : {3}, shared : {FALSE}, users : {{}}]
Subdirectory == [depth : {2}, ids : {3}, shared : {TRUE}, users : {{}}]

\* Inodes are only compared with each other, and so are names: those of the
\* files are interchangeable.
Symmetry == Permutations({i1, i2, i3} \cap Inodes) \cup Permutations(Names)
==============================================================================

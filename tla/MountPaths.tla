------------------------------ MODULE MountPaths ------------------------------
(***************************************************************************)
(* The paths of the MOUNT protocol (src/protocol/nfs/mount/mnt.rs): the    *)
(* export name, what is left of a requested path below it, and the         *)
(* components that path_to_id (src/vfs.rs) walks along.  A path is a       *)
(* sequence of characters.                                                 *)
(***************************************************************************)
EXTENDS Sequences, FiniteSets, Integers

Slash == "/"

trim_start_slashes(path) ==
    LET leading == {i \in DOMAIN path : \A j \in 1..i : path[j] = Slash}
    IN  SubSeq(path, Cardinality(leading) + 1, Len(path))

trim_end_slashes(path) ==
    LET trailing == {i \in DOMAIN path : \A j \in i..Len(path) : path[j] = Slash}
    IN  SubSeq(path, 1, Len(path) - Cardinality(trailing))

trim_slashes(path) == trim_end_slashes(trim_start_slashes(path))

with_export_name(name) == <<Slash>> \o trim_start_slashes(trim_end_slashes(name))

StartsWith(path, prefix) ==
    Len(prefix) <= Len(path) /\ SubSeq(path, 1, Len(prefix)) = prefix
After(path, prefix) == SubSeq(path, Len(prefix) + 1, Len(path))

None == [some |-> FALSE]
Some(path) == [some |-> TRUE, path |-> path]

\* Mutant: any path that begins with the export name will do.
export_subpath_prefix(requested, export) ==
    IF StartsWith(requested, export) THEN Some(After(requested, export)) ELSE None

\* The part of the requested path below the export.
export_subpath(requested, export) ==
    LET rest == After(requested, export)
    IN  IF ~StartsWith(requested, export) THEN None
        ELSE IF export = <<Slash>> \/ rest = <<>> THEN Some(rest)
        ELSE IF rest[1] = Slash THEN Some(Tail(rest))
        ELSE None

\* What lies between the slashes, empty components left out.
Components(path) ==
    LET Begins(i) == path[i] # Slash /\ (i > 1 => path[i - 1] = Slash)
        begins == {i \in DOMAIN path : Begins(i)}
        nth(k) == CHOOSE i \in begins : Cardinality({j \in begins : j <= i}) = k
        run(i) == {j \in i..Len(path) : \A l \in i..j : path[l] # Slash}
    IN  [k \in 1..Cardinality(begins) |->
            SubSeq(path, nth(k), nth(k) + Cardinality(run(nth(k))) - 1)]

\* A path that begins with a slash and has no two in a row.
Clean(path) ==
    /\ path # <<>> /\ path[1] = Slash
    /\ \A i \in 1..(Len(path) - 1) : path[i] # Slash \/ path[i + 1] # Slash
==============================================================================

-------------------------------- MODULE FSMap --------------------------------
(***************************************************************************)
(* The tables by which MirrorFS names the files of the mirrored directory  *)
(* (src/bin/fernfs/fs_map.rs, fs_entry.rs): file ids, the paths each file  *)
(* is known under, and the inodes behind them.                             *)
(*                                                                         *)
(* A map m is a record of the tables; the operations are functions from    *)
(* maps to maps.  They run under MirrorFS's lock, so nothing else touches  *)
(* the map meanwhile.  d is the disk: the files that exist, by path.       *)
(*                                                                         *)
(* Attributes are reduced to what steers the code, the file type (dir or   *)
(* not): any other difference only replaces the cached attributes.         *)
(***************************************************************************)
EXTENDS Integers, Sequences, FiniteSets, SequencesExt, Tables

(* FSMap.intern: the names the server has interned, in the order in which  *)
(* it did; a name's symbol is its number there.                            *)
Interned(m) == ToSet(m.intern)
Intern(m, s) ==
    IF s \in Interned(m) THEN m ELSE [m EXCEPT !.intern = Append(@, s)]
Symbol(m, s) == CHOOSE i \in DOMAIN m.intern : m.intern[i] = s

\* A path is a sequence of names; the root is the empty sequence.  Paths are
\* ordered by the symbols of their names (BTreeSet<Vec<Symbol>>).
Symbols(m, p) == [i \in DOMAIN p |-> Symbol(m, p[i])]
Precedes(p, q) ==
    \/ Len(p) < Len(q) /\ \A i \in DOMAIN p : p[i] = q[i]
    \/ \E i \in DOMAIN p \cap DOMAIN q :
           p[i] < q[i] /\ \A j \in 1..(i - 1) : p[j] = q[j]
First(m, S) ==
    CHOOSE p \in S : \A q \in S \ {p} : Precedes(Symbols(m, p), Symbols(m, q))

NoChildren == [listed |-> FALSE]
Children(c) == [listed |-> TRUE, ids |-> c]

(* FSEntry::new.                                                           *)
FSEntry(p, ftype) ==
    [name |-> p, aliases |-> {p}, ftype |-> ftype, children |-> NoChildren]
is_directory(e) == e.ftype = "dir"

(* FSMap::new: the root is file 0.                                         *)
NewMap(d) ==
    [next_fileid |-> 1,
     intern |-> <<>>,
     id_to_path |-> Entry(0, FSEntry(<<>>, "dir")),
     path_to_id |-> Entry(<<>>, 0),
     inode_to_id |-> Entry(d[<<>>].ino, 0),
     id_to_inode |-> Entry(0, d[<<>>].ino)]

------------------------------------------------------------------------------
(* remove_path for every path of S.  The order does not matter: a file     *)
(* that keeps an alias but loses its name ends up with the first alias     *)
(* left, and one that loses its last alias is dropped.                     *)
PathsOf(m, S, id) == {p \in S \cap DOMAIN m.path_to_id : m.path_to_id[p] = id}
Left(m, S, id) == m.id_to_path[id].aliases \ PathsOf(m, S, id)
Dropped(m, S) ==
    {id \in DOMAIN m.id_to_path : PathsOf(m, S, id) # {} /\ Left(m, S, id) = {}}
Kept(m, S, id) ==
    [m.id_to_path[id] EXCEPT
        !.aliases = Left(m, S, id),
        !.name = IF @ \in PathsOf(m, S, id) THEN First(m, Left(m, S, id)) ELSE @]
remove_paths(m, S) ==
    LET dropped == Dropped(m, S)
        inodes == {m.id_to_inode[id] : id \in dropped \cap DOMAIN m.id_to_inode}
    IN  [m EXCEPT
            !.path_to_id = Without(@, S),
            !.id_to_path = [id \in DOMAIN m.id_to_path \ dropped |-> Kept(m, S, id)],
            !.id_to_inode = Without(@, dropped),
            !.inode_to_id = Without(@, inodes)]

remove_path(m, p) == remove_paths(m, {p})

(* The entries whose children remove_path_tree visits.                     *)
Walkable(m, id) ==
    /\ id \in DOMAIN m.id_to_path
    /\ is_directory(m.id_to_path[id])
    /\ m.id_to_path[id].children.listed

(* The paths remove_path_tree walks over: p and the children listed below, *)
(* for at most as many levels as there are entries (a walk that is longer  *)
(* goes round a cycle, and the code never ends it).                        *)
TreePaths(m, p, id) ==
    LET below(q) ==
            IF Walkable(m, q[2])
            THEN LET c == m.id_to_path[q[2]].children.ids
                 IN  {<<Append(q[1], s), c[s]>> : s \in DOMAIN c}
            ELSE {}
        deep == Cardinality(DOMAIN m.id_to_path)
        level[n \in 0..deep] ==
            IF n = 0 THEN {<<p, id>>} ELSE UNION {below(q) : q \in level[n - 1]}
    IN  {q[1] : q \in UNION {level[n] : n \in 0..deep}}

remove_path_tree(m, p, id) ==
    IF id \in DOMAIN m.id_to_path THEN remove_paths(m, TreePaths(m, p, id)) ELSE m

delete_entry(m, id) ==
    IF id \in DOMAIN m.id_to_path
    THEN remove_path_tree(m, m.id_to_path[id].name, id) ELSE m

(* rename_path_prefix: every path below from moves below to.               *)
Below(S, from) == {p \in S : IsPrefix(from, p)}
Rebased(p, from, to) == to \o SubSeq(p, Len(from) + 1, Len(p))
\* The table with the keys below from moved.
MovedKeys(f, from, to) ==
    LET moves == Below(DOMAIN f, from)
    IN  Override([q \in {Rebased(p, from, to) : p \in moves} |->
                     f[CHOOSE p \in moves : Rebased(p, from, to) = q]],
                 Without(f, moves))
MovedEntry(m, from, to, id) ==
    LET of == PathsOf(m, Below(DOMAIN m.path_to_id, from), id)
    IN  [m.id_to_path[id] EXCEPT
            !.aliases = (@ \ of) \cup {Rebased(p, from, to) : p \in @ \cap of},
            !.name = IF @ \in of THEN Rebased(@, from, to) ELSE @]
\* Mutant: the table of paths is changed, and the entries are not.
rename_path_only(m, from, to) == [m EXCEPT !.path_to_id = MovedKeys(@, from, to)]
rename_path_prefix(m, from, to) ==
    IF from = to THEN m
    ELSE [m EXCEPT
            !.path_to_id = MovedKeys(@, from, to),
            !.id_to_path = [id \in DOMAIN m.id_to_path |-> MovedEntry(m, from, to, id)]]

------------------------------------------------------------------------------
Found(m, id) == id \in DOMAIN m.id_to_path

(* find_child.                                                             *)
ChildPath(m, id, s) == Append(m.id_to_path[id].name, s)
has_child(m, id, s) == Found(m, id) /\ ChildPath(m, id, s) \in DOMAIN m.path_to_id
find_child(m, id, s) == m.path_to_id[ChildPath(m, id, s)]

(* refresh_entry, for an id that has an entry: Delete, or not.             *)
Deleted(m) == [m |-> m, delete |-> TRUE]
Fresh(m) == [m |-> m, delete |-> FALSE]

\* Is the file f, found under the entry's name, the file of the entry?
Checked(m, id, f) ==
    LET known == [m EXCEPT !.inode_to_id = Override(Entry(f.ino, id), @)]
    IN  IF id \notin DOMAIN m.id_to_inode \/ m.id_to_inode[id] # f.ino
        THEN Deleted(delete_entry(m, id))
        ELSE IF m.id_to_path[id].ftype # f.ftype
        THEN Deleted(delete_entry(known, id))
        ELSE Fresh(known)
Renamed(m, id, alive) ==
    [m EXCEPT !.id_to_path[id].aliases = alive,
              !.id_to_path[id].name = First(m, alive)]
refresh_entry(m, d, id) ==
    LET aliases == m.id_to_path[id].aliases
        alive == aliases \cap DOMAIN d
        m1 == [m EXCEPT !.path_to_id = Without(@, aliases \ alive)]
    IN  IF alive = {} THEN Deleted(delete_entry(m1, id))
        ELSE Checked(Renamed(m1, id, alive), id, d[First(m1, alive)])

\* Mutant: ids are counted by the entries, and given out again.
CountedId(m) == Cardinality(DOMAIN m.id_to_path)
FreshId(m) == m.next_fileid

\* create_entry's three endings: the entry is known under the path, its inode
\* is known under another path, or the file is new.
Typed(m, id, ftype) ==
    IF Found(m, id) THEN [m EXCEPT !.id_to_path[id].ftype = ftype] ELSE m
Aliased(m, id, p, ino) ==
    [m EXCEPT !.id_to_path =
                  IF Found(m, id) THEN [m.id_to_path EXCEPT ![id].aliases = @ \cup {p}]
                  ELSE @,
              !.path_to_id = Override(Entry(p, id), @),
              !.id_to_inode = Override(@, Entry(id, ino))]
Added(m, id, p, f) ==
    [m EXCEPT !.next_fileid = @ + 1,
              !.id_to_path = Override(Entry(id, FSEntry(p, f.ftype)), @),
              !.path_to_id = Override(Entry(p, id), @),
              !.inode_to_id = Override(Entry(f.ino, id), @),
              !.id_to_inode = Override(Entry(id, f.ino), @)]
WithPath(m, p, f) ==
    IF f.ino \in DOMAIN m.inode_to_id
    THEN LET id == m.inode_to_id[f.ino]
         IN  [m |-> Aliased(Typed(m, id, f.ftype), id, p, f.ino), id |-> id]
    ELSE [m |-> Added(m, FreshId(m), p, f), id |-> FreshId(m)]

(* create_entry: the id of the file f found at path p.                     *)
create_entry(m, p, f) ==
    LET id == m.path_to_id[p]
    IN  IF p \notin DOMAIN m.path_to_id THEN WithPath(m, p, f)
        ELSE IF id \in DOMAIN m.id_to_inode /\ m.id_to_inode[id] = f.ino
        THEN [m |-> Typed(m, id, f.ftype), id |-> id]
        ELSE WithPath(remove_path(m, p), p, f)

(* refresh_dir_list, for a directory that can be read; order is the order  *)
(* in which read_dir lists the directory.                                  *)
Listing(d, p) == {s \in {Last(q) : q \in DOMAIN d \ {<<>>}} : Append(p, s) \in DOMAIN d}
\* The children are interned and entered one after the other.
Listed(r, s, ids) == [m |-> r.m, ids |-> Override(Entry(s, r.id), ids)]
EnterNext(all, d, p, s) ==
    Listed(create_entry(Intern(all.m, s), Append(p, s), d[Append(p, s)]), s, all.ids)
Entered(m, d, p, order) ==
    LET first[n \in 0..Len(order)] ==
            IF n = 0 THEN [m |-> m, ids |-> <<>>] ELSE EnterNext(first[n - 1], d, p, order[n])
    IN  first[Len(order)]
WithChildren(m, id, ids) ==
    IF Found(m, id) THEN [m EXCEPT !.id_to_path[id].children = Children(ids)] ELSE m
\* Mutant: children that are gone stay in the list.
RelistKept(all, e, id) ==
    WithChildren(all.m, id,
                 IF e.children.listed THEN Override(all.ids, e.children.ids) ELSE all.ids)
Relist(all, e, id) ==
    LET old == IF e.children.listed THEN DOMAIN e.children.ids ELSE {}
        stale == {Append(e.name, s) : s \in old \ DOMAIN all.ids}
    IN  WithChildren(remove_paths(all.m, stale), id, all.ids)
refresh_dir_list(m, d, id, order) ==
    LET e == m.id_to_path[id]
    IN  Relist(Entered(m, d, e.name, order), e, id)
==============================================================================

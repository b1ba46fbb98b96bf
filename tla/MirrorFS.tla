------------------------------- MODULE MirrorFS -------------------------------
(***************************************************************************)
(* MirrorFS (src/bin/fernfs/fs.rs): the operations of the file system that *)
(* mirrors a directory of the host, over the tables of FSMap.              *)
(*                                                                         *)
(* An operation that holds the lock from beginning to end is one action.   *)
(* write, read, readlink and check_access take the path of the file under  *)
(* the lock, release it, and open the path afterwards; write then takes    *)
(* the lock again to update the entry.  Each of these is an action, with   *)
(* anything between them.                                                  *)
(*                                                                         *)
(* The disk belongs to the host: other programs may change it behind the   *)
(* server's back, between two operations.  A freed inode may be used again *)
(* for the next file.                                                      *)
(***************************************************************************)
EXTENDS FSMap

CONSTANTS
    Names,          \* file names
    Inodes,         \* inode numbers
    Users,          \* operations that may be under way without the lock
    InitialDisks,   \* what may be in the directory at the start, by depth
    Scopes          \* what may happen in a behaviour; see scope

\* What the directory holds, by path; the root is there.
File == [ino : Inodes, ftype : {"reg", "dir"}]
Directory(d) ==
    /\ IsFiniteSet(DOMAIN d) /\ <<>> \in DOMAIN d
    /\ \A p \in DOMAIN d : p \in Seq(Names) /\ d[p] \in File

ASSUME MirrorAssumption ==
    \A s \in Scopes :
        /\ s.depth \in Nat \ {0} /\ s.ids \in Nat \ {0}
        /\ s.shared \in BOOLEAN /\ s.users \subseteq Users
        /\ \A d \in InitialDisks[s.depth] : Directory(d)

VARIABLES
    scope,      \* of this behaviour: the longest path (depth), the number of ids, the
                \* users, and whether other programs change the directory (shared)
    disk,       \* the mirrored directory: path -> [ino, ftype]
    m,          \* MirrorFS.fsmap
    reply,      \* what the last operation answered
    unlocked    \* the operations that released the lock: [id, path, written]

vars == <<scope, disk, m, reply, unlocked>>

\* What the properties ask of an answer: the file id it stands for and the path
\* of its file, where an operation found these by the map; or nothing.
Ok(op, id, p) == [op |-> op, ok |-> TRUE, id |-> id, path |-> p]
Nothing == [op |-> "none", ok |-> FALSE]
Failed == Nothing
Done == Nothing
NotUnlocked == [id |-> -1]

Ids == 0..(m.next_fileid - 1)

------------------------------------------------------------------------------
(* The host's file system (external).                                      *)

Exists(p) == p \in DOMAIN disk
DirAt(p) == Exists(p) /\ disk[p].ftype = "dir"
FreeInodes == Inodes \ {disk[p].ino : p \in DOMAIN disk}

WithNew(p, ino, ftype) == Override(Entry(p, [ino |-> ino, ftype |-> ftype]), disk)
WithLink(p, q) == Override(Entry(q, disk[p]), disk)
WithMove(p, q) == MovedKeys(disk, p, q)
IsLeaf(p) == Below(DOMAIN disk, p) = {p}

CanMove(p, q) ==
    /\ Exists(p)
    /\ DirAt(Front(q))
    /\ ~IsPrefix(p, q)
    /\ Exists(q) => disk[p].ftype = disk[q].ftype /\ IsLeaf(q)
CanRemove(p) == Exists(p) /\ IsLeaf(p)

------------------------------------------------------------------------------
Init ==
    /\ scope \in Scopes
    /\ disk \in InitialDisks[scope.depth]
    /\ m = NewMap(disk)
    /\ reply = Nothing
    /\ unlocked = [u \in Users |-> NotUnlocked]

\* An operation ends with the map x and the answer r.
Answer(x, r) ==
    /\ x.next_fileid <= scope.ids
    /\ m' = x
    /\ reply' = r
    /\ UNCHANGED <<scope, unlocked>>

\* refresh_dir_list, which leaves what is not a directory alone, and the orders
\* in which the directory may be listed.
Relisted(x, id, order) ==
    IF is_directory(x.id_to_path[id]) THEN refresh_dir_list(x, disk, id, order) ELSE x
Orders(x, id) == SetToSeqs(Listing(disk, x.id_to_path[id].name))
CanList(x, id) ==
    /\ Found(x, id)
    /\ is_directory(x.id_to_path[id]) => DirAt(x.id_to_path[id].name)

\* The directory's list of children, if it has one, is brought up to date.
WithChild(x, dir, s, id) ==
    IF x.id_to_path[dir].children.listed
    THEN [x EXCEPT !.id_to_path[dir].children.ids = Override(Entry(s, id), @)] ELSE x
WithoutChild(x, dir, s) ==
    IF Found(x, dir) /\ x.id_to_path[dir].children.listed
    THEN [x EXCEPT !.id_to_path[dir].children.ids = Without(@, {s})] ELSE x

\* refresh_entry where its result and its errors are ignored.
Refreshed(x, d, id) == IF Found(x, id) THEN refresh_entry(x, d, id).m ELSE x

------------------------------------------------------------------------------
\* The child of the directory that the map x has.
AnswerChild(x, dir, s) ==
    Answer(x, IF has_child(x, dir, s)
              THEN Ok("lookup", find_child(x, dir, s), ChildPath(x, dir, s)) ELSE Failed)

\* lookup's second half, for a name that is not in the map: the directory r
\* is refreshed, and listed.
Relook(r, dir, s) ==
    IF r.delete \/ ~CanList(r.m, dir) THEN Answer(r.m, Failed)
    ELSE \E o \in Orders(r.m, dir) : AnswerChild(Relisted(r.m, dir, o), dir, s)
Miss(x, dir, s) ==
    IF ~Found(x, dir) \/ ~Exists(ChildPath(x, dir, s)) THEN Answer(x, Failed)
    ELSE Relook(refresh_entry(x, disk, dir), dir, s)
Hit(r, id, dir, s) ==
    IF r.delete THEN Miss(r.m, dir, s)
    ELSE Answer(r.m, IF has_child(r.m, dir, s)
                     THEN Ok("lookup", id, ChildPath(r.m, dir, s)) ELSE Failed)
lookup(dir, s) ==
    /\ UNCHANGED disk
    /\ IF has_child(m, dir, s) /\ Found(m, find_child(m, dir, s))
       THEN LET id == find_child(m, dir, s) IN Hit(refresh_entry(m, disk, id), id, dir, s)
       ELSE Miss(m, dir, s)

(* getattr; commit answers with it.                                        *)
AnswerAttr(r, id) ==
    Answer(r.m, IF r.delete THEN Failed ELSE Ok("getattr", id, r.m.id_to_path[id].name))
getattr(id) ==
    /\ UNCHANGED disk
    /\ IF Found(m, id) THEN AnswerAttr(refresh_entry(m, disk, id), id)
       ELSE Answer(m, Failed)

(* readdir, the parent's and the children's attributes included.           *)
Listable(x, dir) ==
    LET e == x.id_to_path[dir]
    IN  /\ Found(x, dir)
        /\ is_directory(e)
        /\ e.children.listed
        /\ e.name # <<>> =>
               /\ Front(e.name) \in DOMAIN x.path_to_id
               /\ Found(x, x.path_to_id[Front(e.name)])
        /\ \A s \in DOMAIN e.children.ids : Found(x, e.children.ids[s])
AnswerList(x, dir) ==
    Answer(x, IF Listable(x, dir)
              THEN Ok("readdir", dir, x.id_to_path[dir].name) ELSE Failed)
List(x, dir) ==
    IF CanList(x, dir)
    THEN \E o \in Orders(x, dir) : AnswerList(Relisted(x, dir, o), dir)
    ELSE Answer(x, Failed)
readdir(dir) ==
    /\ UNCHANGED disk
    /\ IF Found(m, dir) THEN List(refresh_entry(m, disk, dir).m, dir)
       ELSE Answer(m, Failed)

(* setattr works on the path of the file.                                  *)
setattr(id) ==
    LET p == m.id_to_path[id].name
    IN  /\ UNCHANGED disk
        /\ IF ~Found(m, id) \/ ~Exists(p) THEN Answer(m, Failed)
           ELSE Answer([m EXCEPT !.id_to_path[id].ftype = disk[p].ftype], Done)

------------------------------------------------------------------------------
\* The end of an operation that made the file f at the path s of the directory:
\* create_entry, and the list of children.  The directory may have lost its entry.
AnswerEntry(r, dir, p) ==
    IF Found(r.m, dir)
    THEN Answer(WithChild(r.m, dir, Last(p), r.id), Done)
    ELSE Answer(r.m, Failed)
Recorded(x, d, p) == create_entry(Intern(x, Last(p)), p, d[p])
Enter(x, d, dir, p) == AnswerEntry(Recorded(x, d, p), dir, p)

(* create: the file is truncated if it exists.                             *)
create(dir, s) ==
    LET p == ChildPath(m, dir, s)
    IN  IF ~Found(m, dir) \/ ~DirAt(Front(p)) \/ DirAt(p)
        THEN UNCHANGED disk /\ Answer(m, Failed)
        ELSE /\ IF Exists(p) THEN UNCHANGED disk
                ELSE \E i \in FreeInodes : disk' = WithNew(p, i, "reg")
             /\ Enter(Refreshed(m, disk', dir), disk', dir, p)

(* mkdir and symlink.                                                      *)
make(dir, s, ftype) ==
    LET p == ChildPath(m, dir, s)
    IN  IF ~Found(m, dir) \/ ~DirAt(Front(p)) \/ Exists(p)
        THEN UNCHANGED disk /\ Answer(m, Failed)
        ELSE /\ \E i \in FreeInodes : disk' = WithNew(p, i, ftype)
             /\ Enter(Refreshed(m, disk', dir), disk', dir, p)

(* mknod: a regular file as placeholder; the directory is not refreshed.   *)
mknod(dir, s) ==
    LET p == ChildPath(m, dir, s)
    IN  IF ~Found(m, dir) \/ ~DirAt(Front(p)) \/ Exists(p)
        THEN UNCHANGED disk /\ Answer(m, Failed)
        ELSE /\ \E i \in FreeInodes : disk' = WithNew(p, i, "reg")
             /\ Enter(m, disk', dir, p)

\* link then updates the entry of the file that it linked.
Linked(r, id, dir, ftype) ==
    IF Found(r.m, dir) THEN [r EXCEPT !.m = Typed(@, id, ftype)] ELSE r
link(id, dir, s) ==
    LET p == m.id_to_path[id].name
        q == ChildPath(m, dir, s)
    IN  IF \/ ~Found(m, id) \/ ~Found(m, dir)
           \/ ~Exists(p) \/ DirAt(p) \/ ~DirAt(Front(q)) \/ Exists(q)
        THEN UNCHANGED disk /\ Answer(m, Failed)
        ELSE /\ disk' = WithLink(p, q)
             /\ AnswerEntry(Linked(Recorded(m, disk', q), id, dir, disk[p].ftype), dir, q)

remove(dir, s) ==
    LET p == ChildPath(m, dir, s)
        m1 == WithoutChild(remove_path(Intern(m, s), p), dir, s)
    IN  IF ~Found(m, dir) \/ ~CanRemove(p)
        THEN UNCHANGED disk /\ Answer(m, Failed)
        ELSE /\ disk' = Without(disk, {p})
             /\ Answer(Refreshed(m1, disk', dir), Done)

\* What rename does to the map: the target's entries go, the paths below p
\* move below q, and both directories' lists of children follow.
Vacated(x, q) ==
    LET target == x.path_to_id[q]
    IN  IF q \notin DOMAIN x.path_to_id THEN x
        ELSE IF Found(x, target) /\ is_directory(x.id_to_path[target])
        THEN remove_path_tree(x, q, target)
        ELSE remove_path(x, q)
Arrived(x, dir, q) ==
    IF q \in DOMAIN x.path_to_id /\ Found(x, dir)
    THEN WithChild(x, dir, Last(q), x.path_to_id[q]) ELSE x
Moved(x, p, q, from_dir, to_dir) ==
    IF p \in DOMAIN x.path_to_id
    THEN Arrived(WithoutChild(rename_path_prefix(Vacated(x, q), p, q), from_dir, Last(p)),
                 to_dir, q)
    ELSE x

rename(from_dir, s, to_dir, t) ==
    LET p == ChildPath(m, from_dir, s)
        q == ChildPath(m, to_dir, t)
        interned == Intern(Intern(m, s), t)
        moved == Refreshed(Moved(interned, p, q, from_dir, to_dir), disk', from_dir)
    IN  IF \/ ~Found(m, from_dir) \/ ~Found(m, to_dir)
           \/ ~Exists(Front(q)) \/ ~Exists(p)
        THEN UNCHANGED disk /\ Answer(m, Failed)
        ELSE IF p = q \/ (Exists(q) /\ disk[p].ino = disk[q].ino)
        THEN UNCHANGED disk /\ Answer(m, Done)
        ELSE IF ~CanMove(p, q)
        THEN UNCHANGED disk /\ Answer(m, Failed)
        ELSE /\ disk' = WithMove(p, q)
             /\ Answer(IF to_dir # from_dir THEN Refreshed(moved, disk', to_dir) ELSE moved,
                       Done)

------------------------------------------------------------------------------
(* write, read, readlink and check_access up to the release of the lock.   *)
release(u, id) ==
    /\ unlocked[u] = NotUnlocked
    /\ Found(m, id)
    /\ unlocked' = [unlocked EXCEPT ![u] =
                        [id |-> id, path |-> m.id_to_path[id].name, written |-> FALSE]]
    /\ reply' = Nothing
    /\ UNCHANGED <<scope, disk, m>>

\* Such an operation ends with the map x.
End(u, x) ==
    /\ m' = x
    /\ reply' = Nothing
    /\ unlocked' = [unlocked EXCEPT ![u] = NotUnlocked]
    /\ UNCHANGED scope
Opening(u) == unlocked[u] # NotUnlocked /\ ~unlocked[u].written

(* write opens the path, creates the file if it is not there, and writes.  *)
(* The answer says which file it was; it is sent with write_entry.         *)
write(u) ==
    LET p == unlocked[u].path
    IN  /\ Opening(u)
        /\ IF DirAt(p) \/ (~Exists(p) /\ ~DirAt(Front(p)))
           THEN UNCHANGED disk /\ End(u, m)
           ELSE /\ IF Exists(p) THEN UNCHANGED disk
                   ELSE \E i \in FreeInodes : disk' = WithNew(p, i, "reg")
                /\ reply' = Ok("write", unlocked[u].id, p)
                /\ unlocked' = [unlocked EXCEPT ![u].written = TRUE]
                /\ UNCHANGED <<scope, m>>

(* The end of write: the attributes of the entry, under the lock.          *)
write_entry(u) ==
    /\ unlocked[u] # NotUnlocked /\ unlocked[u].written
    /\ UNCHANGED disk
    /\ End(u, Typed(m, unlocked[u].id, "reg"))

(* read, readlink and check_access only look.                              *)
read(u) ==
    /\ Opening(u)
    /\ UNCHANGED disk
    /\ End(u, m)

------------------------------------------------------------------------------
(* Other programs (external).                                              *)
Behind(d) ==
    /\ scope.shared
    /\ disk' = d
    /\ reply' = Nothing
    /\ UNCHANGED <<scope, m, unlocked>>

Paths == UNION {[1..n -> Names] : n \in 1..scope.depth}

HostCreate ==
    \E p \in Paths, i \in FreeInodes, ftype \in {"reg", "dir"} :
        /\ ~Exists(p) /\ DirAt(Front(p))
        /\ ftype = "dir" => Len(p) < scope.depth
        /\ Behind(WithNew(p, i, ftype))
HostRemove == \E p \in Paths : CanRemove(p) /\ Behind(Without(disk, {p}))
HostRename ==
    \E p, q \in Paths :
        /\ CanMove(p, q)
        /\ DirAt(p) => Len(q) < scope.depth
        /\ Behind(WithMove(p, q))

------------------------------------------------------------------------------
\* The model keeps paths within its depth: what is asked of a child of id
\* stays within it, and directories have room for children.
Roomy(id) == Found(m, id) => Len(m.id_to_path[id].name) < scope.depth
Shallow(id) == Found(m, id) => Len(m.id_to_path[id].name) + 1 < scope.depth

Next ==
    \/ \E id \in Ids : getattr(id) \/ readdir(id) \/ setattr(id)
    \/ \E dir \in Ids, s \in Names :
           /\ Roomy(dir)
           /\ \/ lookup(dir, s) \/ create(dir, s) \/ make(dir, s, "reg") \/ mknod(dir, s)
              \/ remove(dir, s)
              \/ Shallow(dir) /\ make(dir, s, "dir")
              \/ \E id \in Ids : link(id, dir, s)
              \/ \E to \in Ids, t \in Names :
                     /\ Roomy(to)
                     /\ (Found(m, dir) /\ DirAt(ChildPath(m, dir, s))) => Shallow(to)
                     /\ rename(dir, s, to, t)
    \/ \E u \in scope.users : (\E id \in Ids : release(u, id)) \/ write(u) \/ write_entry(u)
                              \/ read(u)
    \/ HostCreate \/ HostRemove \/ HostRename

Spec == Init /\ [][Next]_vars

------------------------------------------------------------------------------
TypeOK ==
    LET ids == 0..(scope.ids - 1)
    IN  /\ Directory(disk)
        /\ m.next_fileid \in 1..scope.ids
        /\ \A p \in DOMAIN m.path_to_id : p \in Seq(Names) /\ m.path_to_id[p] \in ids
        /\ DOMAIN m.inode_to_id \subseteq Inodes
        /\ DOMAIN m.id_to_path \subseteq ids
        /\ \A id \in DOMAIN m.id_to_path : m.id_to_path[id].ftype \in {"reg", "dir"}

\* A path in the table leads to an entry that lists it as an alias, and the name
\* by which an operation reaches a file is one of its aliases.
PathsKnown ==
    /\ \A p \in DOMAIN m.path_to_id :
           LET id == m.path_to_id[p]
           IN  Found(m, id) /\ p \in m.id_to_path[id].aliases
    /\ \A id \in DOMAIN m.id_to_path :
           m.id_to_path[id].name \in m.id_to_path[id].aliases

\* The tables of inodes and ids are inverse to each other and cover just the ids
\* that have an entry: no inode leads to a forgotten id.
InodesAgree ==
    /\ DOMAIN m.id_to_inode = DOMAIN m.id_to_path
    /\ \A id \in DOMAIN m.id_to_inode, i \in Inodes :
           m.id_to_inode[id] = i <=> i \in DOMAIN m.inode_to_id /\ m.inode_to_id[i] = id
    /\ \A i \in DOMAIN m.inode_to_id : Found(m, m.inode_to_id[i])

(* Whatever the clients and the host do, the five tables of the map agree: *)
(* paths with the aliases of entries, and inodes with ids, both ways.      *)
TablesAgree == TypeOK /\ PathsKnown /\ InodesAgree

\* The answer's id stands for the file that is at the answer's path.
AnswersFor(ops) ==
    reply.op \in ops =>
        /\ Exists(reply.path)
        /\ reply.id \in DOMAIN m.id_to_inode
        /\ m.id_to_inode[reply.id] = disk[reply.path].ino

SameFiles ==
    \A id \in DOMAIN m'.id_to_inode :
        IF id \in DOMAIN m.id_to_inode
        THEN m'.id_to_inode[id] = m.id_to_inode[id]
        ELSE id >= m.next_fileid

(* The file that a client holds an id for never becomes another one: as    *)
(* long as the id is known it stands for the same inode, and an id that    *)
(* was forgotten is not given out again.                                   *)
IdsStable == [][SameFiles]_vars

(* readdir lists exactly the files that the directory at the entry's name  *)
(* holds, each with an id that stands for it: no stale child, none missed. *)
ReaddirTruthful ==
    reply.op = "readdir" =>
        LET c == m.id_to_path[reply.id].children.ids
        IN  /\ DOMAIN c = Listing(disk, reply.path)
            /\ \A s \in DOMAIN c : m.id_to_inode[c[s]] = disk[Append(reply.path, s)].ino

(* readdir lists the directory whose id it was given: what is at the       *)
(* entry's name is still the directory that the id was given out for.      *)
ReaddirOfItsDirectory == AnswersFor({"readdir"})

(* lookup of a name in a directory answers with the id of the file that    *)
(* has this name.                                                          *)
LookupTruthful == AnswersFor({"lookup"})

(* write changes the file whose id it was given.                           *)
WriteHitsItsFile ==
    (reply.op = "write" /\ Found(m, reply.id)) => AnswersFor({"write"})
==============================================================================

-------------------------------- MODULE Server --------------------------------
(***************************************************************************)
(* The life of a server, from its start to a crash and the next start, and *)
(* what its clients keep across it: file handles.  MOUNT hands handles out *)
(* (src/protocol/nfs/mount), a generation in each tells the instances of   *)
(* the server apart (fh_to_id, src/vfs.rs), ACCESS and WRITE use them, and *)
(* PORTMAP (src/protocol/nfs/portmap) keeps a table while the server runs. *)
(*                                                                         *)
(* An instance gives out file ids in the order in which it happens to list *)
(* directories: another instance gives out others.  The files themselves   *)
(* stay; names that change are the subject of MirrorFS.  What is written   *)
(* is in the host's memory until it is synchronised with the disk.         *)
(***************************************************************************)
EXTENDS Permissions, MountPaths, Portmap

CONSTANTS
    Clients,
    Names,          \* what with_export_name is given
    Requested,      \* paths that clients ask to mount
    Agendas,        \* what may happen in a behaviour; see agenda
    ChannelSize,    \* room in the channel of the mount signal
    MaxTime         \* the clock's last millisecond

ASSUME ServerAssumption ==
    /\ ChannelSize \in Nat \ {0}
    /\ MaxTime \in Nat

\* Names and paths are sequences of characters.
ASSUME PathsAssumption == Names \cup Requested \subseteq Seq(STRING)

\* What with_export_name makes of the names it is given.
Exports == {with_export_name(n) : n \in Names}

\* A tree has finitely many files, its root among them.  A path in it is the
\* sequence of its components.  The numbers of a mapping are not negative.
ASSUME AgendaAssumption ==
    \A a \in Agendas :
        /\ IsFiniteSet(DOMAIN a.tree) /\ <<>> \in DOMAIN a.tree
        /\ DOMAIN a.tree \subseteq Seq(Seq(STRING))
        /\ a.export \in Exports /\ a.paths \subseteq Requested
        /\ a.mappings \subseteq [prog : Nat, vers : Nat, prot : Nat, port : Nat]

VARIABLES
    agenda,         \* the calls, paths, users, modes and events of this behaviour
    clock,          \* the host's clock, in milliseconds
    up,             \* is an instance of the server running?
    generations,    \* the generation of every instance, the last one's last
    ids,            \* the file ids the instance has given out: path -> id
    mode,           \* the mode of every file
    page,           \* the version of every file in the host's memory
    disk,           \* ... and on the disk
    conn,           \* the clients that are connected
    handle,         \* the file handle each client keeps
    call,           \* the call each client waits for
    answer,         \* the answer just given
    calls,          \* number of calls made
    listener,       \* of the mount signal: "none", "receiving", "stalled", "dropped"
    mount_signal,   \* the signals in the channel
    table,          \* PortmapTable
    granted,        \* history: the SETs and UNSETs that were granted
    acknowledged    \* history: what clients were told is on the disk, of every file

host == <<clock, mode, page, disk>>
instance == <<up, generations, conn>>
portmap == <<table, granted>>
signal == <<listener, mount_signal>>
vars == <<agenda, host, instance, ids, handle, call, answer, calls, signal, portmap, acknowledged>>

Files == DOMAIN agenda.tree
Root == <<>>
NoCall == [proc |-> "none"]
NoHandle == [len |-> 0]
Nothing == [proc |-> "none"]
Handle(gen, id, path) ==
    [len |-> 16, gen |-> gen, id |-> id, path |-> path, of |-> Len(generations)]

\* MirrorFS::generation: the instance's start, which is server_id, too.
generation == generations[Len(generations)]
Attr(path, m) == [ftype |-> agenda.tree[path], uid |-> 1, gid |-> 1, mode |-> m]

Init ==
    /\ agenda \in Agendas
    /\ clock = 0
    /\ up = FALSE
    /\ generations = <<>>
    /\ ids = <<>>
    /\ \E m \in agenda.modes : mode = [f \in Files |-> m]
    /\ page = [f \in Files |-> 0]
    /\ disk = page
    /\ conn = {}
    /\ handle = [c \in Clients |-> NoHandle]
    /\ call = [c \in Clients |-> NoCall]
    /\ answer = Nothing
    /\ calls = 0
    /\ listener = "none"
    /\ mount_signal = <<>>
    /\ table = NewTable
    /\ granted = <<>>
    /\ acknowledged = [f \in Files |-> {}]

------------------------------------------------------------------------------
(* The instances of the server.                                            *)

\* MirrorFS::new, NFSTcpListener::bind and set_mount_listener.
Start ==
    /\ ~up
    /\ Len(generations) < agenda.max_starts
    /\ up' = TRUE
    /\ generations' = Append(generations, clock)
    /\ ids' = Entry(Root, 0)
    /\ table' = NewTable
    /\ granted' = <<>>
    /\ \E l \in agenda.listeners : listener' = l
    /\ mount_signal' = <<>>
    /\ answer' = Nothing
    /\ UNCHANGED <<agenda, host, conn, handle, call, calls, acknowledged>>

\* handle_forever accepts a connection, from a privileged port if it has to be.
Connect(c) ==
    /\ up
    /\ c \notin conn
    /\ \E port \in agenda.source_ports :
           ~(agenda.require_privileged_source_port /\ port >= 1024)
    /\ conn' = conn \cup {c}
    /\ answer' = Nothing
    /\ UNCHANGED <<agenda, host, up, generations, ids, handle, call, calls, signal, portmap,
                   acknowledged>>

\* The instance ends, and its connections with it.
Gone ==
    /\ up
    /\ up' = FALSE
    /\ conn' = {}
    /\ ids' = <<>>
    /\ call' = [c \in Clients |-> NoCall]
    /\ answer' = Nothing
    /\ UNCHANGED <<agenda, generations, mode, disk, handle, calls, signal, portmap, acknowledged>>

(* The process is killed, or the whole host goes down and loses what is    *)
(* not on the disk (external).                                             *)
Crash == "crash" \in agenda.events /\ Gone /\ UNCHANGED <<clock, page>>
HostCrash == "hostcrash" \in agenda.events /\ Gone /\ page' = disk /\ clock' \in 0..MaxTime

------------------------------------------------------------------------------
(* The host: time passes, memory is written back, modes are changed by     *)
(* other programs or by SETATTR (external).                                *)
Tick ==
    /\ "tick" \in agenda.events /\ clock < MaxTime
    /\ clock' = clock + 1
    /\ answer' = Nothing
    /\ UNCHANGED <<agenda, mode, page, disk, instance, ids, handle, call, calls, signal, portmap,
                   acknowledged>>

WriteBack(f) ==
    /\ disk[f] # page[f]
    /\ disk' = [disk EXCEPT ![f] = page[f]]
    /\ answer' = Nothing
    /\ UNCHANGED <<agenda, clock, mode, page, instance, ids, handle, call, calls, signal, portmap,
                   acknowledged>>

\* A call remembers the modes its file has had while it is under way.
Meets(r, f, m) == [r EXCEPT !.modes[f] = @ \cup {m}]
Chmod(f, m) ==
    /\ mode[f] # m
    /\ mode' = [mode EXCEPT ![f] = m]
    /\ call' = [c \in Clients |->
                   IF call[c].proc \in {"WRITE", "ACCESS"}
                   THEN Meets(call[c], f, m) ELSE call[c]]
    /\ answer' = Nothing
    /\ UNCHANGED <<agenda, clock, page, disk, instance, ids, handle, calls, signal, portmap,
                   acknowledged>>

------------------------------------------------------------------------------
(* Calls.                                                                  *)

\* A handle of which n bytes are sent.
Cut(fh, n) == [fh EXCEPT !.len = n]
Requests(c) ==
    [proc : {"MNT"}, path : agenda.paths, at : {"begin"}]
    \cup [proc : {"UMNT", "UMNTALL"}, at : {"signal"}]
    \cup (IF handle[c] = NoHandle THEN {}
          ELSE [proc : {"WRITE", "ACCESS"}, fh : {Cut(handle[c], n) : n \in agenda.lens},
                auth : agenda.auths, at : {"begin"}, modes : {[f \in Files |-> {mode[f]}]}])
    \cup [proc : {"SET", "UNSET", "GETPORT", "DUMP"}, mapping : agenda.mappings, at : {"begin"}]

Call(c) ==
    /\ c \in conn
    /\ call[c] = NoCall
    /\ calls < agenda.max_calls
    /\ \E r \in Requests(c) : r.proc \in agenda.calls /\ call' = [call EXCEPT ![c] = r]
    /\ calls' = calls + 1
    /\ answer' = Nothing
    /\ UNCHANGED <<agenda, host, instance, ids, handle, signal, portmap, acknowledged>>

\* The call of c is in the step at of the procedures procs.
In(c, procs, at) == call[c].proc \in procs /\ call[c].at = at

Reply(c, a) ==
    /\ answer' = [proc |-> call[c].proc, call |-> call[c], res |-> a]
    /\ call' = [call EXCEPT ![c] = NoCall]
Proceed(c, r) ==
    /\ answer' = Nothing
    /\ call' = [call EXCEPT ![c] = Override(r, @)]

------------------------------------------------------------------------------
(* MOUNT.                                                                  *)

Prefixes(path) == {SubSeq(path, 1, k) : k \in 1..Len(path)}
ParentOf(path) == SubSeq(path, 1, Len(path) - 1)

\* path_to_id looks the components up one after the other.  lookup lists the
\* directory if the file is there and has no id yet, and every file in it gets
\* one, in an order that is the host's.
Listed(path) ==
    LET unknown == (Prefixes(path) \cap Files) \ DOMAIN ids
        dirs == {ParentOf(p) : p \in unknown}
    IN  {p \in Files \ {Root} : ParentOf(p) \in dirs} \ DOMAIN ids
Numberings(new) ==
    LET next == Cardinality(DOMAIN ids)
    IN  {n \in Bijection(new, next..(next + Cardinality(new) - 1)) :
            \A p, q \in new : Len(p) < Len(q) => n[p] < n[q]}

id_to_fh(id, path) == Handle(generation, id, path)

\* What mountproc3_mnt makes of a requested path: the components of the part
\* below the export.
Resolved == [e \in Exports |-> [p \in Requested |->
    LET sub == export_subpath(p, e)
    IN  IF sub.some THEN Some(Components(<<Slash>> \o trim_slashes(sub.path))) ELSE None]]

\* mountproc3_mnt up to the signal.  The lookups of other calls in between
\* could only change the order of the ids.
mountproc3_mnt(c) ==
    LET sub == Resolved[agenda.export][call[c].path]
    IN  /\ In(c, {"MNT"}, "begin")
        /\ \/ ~sub.some /\ Reply(c, [stat |-> "NOENT"]) /\ UNCHANGED ids
           \/ /\ sub.some
              /\ \E n \in Numberings(Listed(sub.path)) : ids' = Override(n, ids)
              /\ IF sub.path \in Files
                 THEN Proceed(c, [at |-> "signal", found |-> sub.path])
                 ELSE Reply(c, [stat |-> "NOENT"])
        /\ UNCHANGED <<agenda, host, instance, handle, calls, signal, portmap, acknowledged>>

\* Mutant: a signal that nobody receives is sent again.
CanSend_again ==
    listener # "dropped" /\ (listener = "none" \/ Len(mount_signal) < ChannelSize)

\* send waits for room; it fails, which is ignored, once the receiver is dropped.
CanSend ==
    \/ listener \in {"none", "dropped"}
    \/ Len(mount_signal) < ChannelSize
Send(mounted) ==
    /\ mount_signal' = IF listener \in {"none", "dropped"} THEN mount_signal
                       ELSE Append(mount_signal, mounted)
    /\ UNCHANGED listener

\* The end of mountproc3_mnt: the signal and the handle.
Mounted(c) ==
    /\ In(c, {"MNT"}, "signal")
    /\ CanSend
    /\ Send(TRUE)
    /\ LET path == call[c].found
       IN  handle' = [handle EXCEPT ![c] = id_to_fh(ids[path], path)]
    /\ Reply(c, [stat |-> "OK", fh |-> handle'[c]])
    /\ UNCHANGED <<agenda, host, instance, ids, calls, portmap, acknowledged>>

\* mountproc3_umnt and mountproc3_umnt_all.
Unmounted(c) ==
    /\ In(c, {"UMNT", "UMNTALL"}, "signal")
    /\ CanSend
    /\ Send(FALSE)
    /\ Reply(c, [stat |-> "OK"])
    /\ UNCHANGED <<agenda, host, instance, ids, handle, calls, portmap, acknowledged>>

(* The program that asked for the signals (external): it receives them,    *)
(* stops to for good, or drops the receiver.                               *)
Receive ==
    /\ listener = "receiving"
    /\ mount_signal # <<>>
    /\ mount_signal' = Tail(mount_signal)
    /\ answer' = Nothing
    /\ UNCHANGED <<agenda, host, instance, ids, handle, call, calls, listener, portmap,
                   acknowledged>>
Stop(l) ==
    /\ listener = "receiving" \/ (listener = "stalled" /\ l = "dropped")
    /\ listener' = l
    /\ mount_signal' = IF l = "dropped" THEN <<>> ELSE mount_signal
    /\ answer' = Nothing
    /\ UNCHANGED <<agenda, host, instance, ids, handle, call, calls, portmap, acknowledged>>

------------------------------------------------------------------------------
(* ACCESS and WRITE.                                                       *)
Ok(v) == [ok |-> TRUE, v |-> v]
Err(stat) == [ok |-> FALSE, stat |-> stat]

\* Mutant: a handle of an earlier instance is as good as one of this.
fh_to_id_any(fh) ==
    IF fh.len # 16 THEN Err("BADHANDLE")
    ELSE IF fh.gen > generation THEN Err("BADHANDLE")
    ELSE Ok(fh.id)

fh_to_id(fh) ==
    IF fh.len # 16 THEN Err("BADHANDLE")
    ELSE IF fh.gen < generation THEN Err("STALE")
    ELSE IF fh.gen > generation THEN Err("BADHANDLE")
    ELSE Ok(fh.id)

\* The host lets the server, which owns the files, do what the owner may.
HostLets(path, bit) == bit \in mode[path].owner

\* MirrorFS::check_access: the file is opened for reading to see its mode.
check_access(id, auth, requested) ==
    LET path == CHOOSE p \in DOMAIN ids : ids[p] = id
    IN  IF \A p \in DOMAIN ids : ids[p] # id THEN Err("NOENT")
        ELSE IF ~HostLets(path, "r") THEN Err("ACCES")
        ELSE Ok([path |-> path,
                 rights |-> access_mask(Attr(path, mode[path]), auth, "ReadWrite", requested)])

nfsproc3_access(c) ==
    LET id == fh_to_id(call[c].fh)
        granted_access == check_access(id.v, call[c].auth, Rights)
    IN  /\ In(c, {"ACCESS"}, "begin")
        /\ IF ~id.ok THEN Reply(c, [stat |-> id.stat])
           ELSE IF ~granted_access.ok THEN Reply(c, [stat |-> granted_access.stat])
           ELSE Reply(c, [stat |-> "OK", found |-> granted_access.v.path,
                          rights |-> granted_access.v.rights])
        /\ UNCHANGED <<agenda, host, instance, ids, handle, calls, signal, portmap, acknowledged>>

\* nfsproc3_write up to MirrorFS::write.
nfsproc3_write(c) ==
    LET id == fh_to_id(call[c].fh)
        checked == check_access(id.v, call[c].auth, {"MODIFY"})
    IN  /\ In(c, {"WRITE"}, "begin")
        /\ IF ~id.ok THEN Reply(c, [stat |-> id.stat])
           ELSE IF ~checked.ok THEN Reply(c, [stat |-> checked.stat])
           ELSE IF "MODIFY" \notin checked.v.rights THEN Reply(c, [stat |-> "ACCES"])
           ELSE Proceed(c, [at |-> "write", found |-> checked.v.path])
        /\ UNCHANGED <<agenda, host, instance, ids, handle, calls, signal, portmap, acknowledged>>

\* MirrorFS::write opens the file, seeks and writes.  The host may fail after it
\* wrote a part of the data, or none: write_all sees that, or only flush does,
\* whose result is ignored.
write(c) ==
    LET path == call[c].found
        version == page[path] + 1
        Opens == HostLets(path, "w") /\ agenda.tree[path] = "NF3REG"
    IN  /\ In(c, {"WRITE"}, "write")
        /\ \/ /\ Opens
              /\ page' = [page EXCEPT ![path] = version]
              /\ Proceed(c, [at |-> "sync", version |-> version, failed |-> FALSE])
           \/ /\ Opens /\ "write" \in agenda.events
              /\ page' \in {page, [page EXCEPT ![path] = version]}
              /\ \/ Proceed(c, [at |-> "sync", version |-> version, failed |-> TRUE])
                 \/ Reply(c, [stat |-> "IO"])
           \/ /\ ~Opens
              /\ Reply(c, [stat |-> "IO"])
              /\ UNCHANGED page
        /\ UNCHANGED <<agenda, clock, mode, disk, instance, ids, handle, calls, signal, portmap,
                       acknowledged>>

\* Mutant: the data stays in memory.
sync_all_none(path) == disk

sync_all(path) == [disk EXCEPT ![path] = page[path]]

\* The end of MirrorFS::write and nfsproc3_write: sync_all, whose result is
\* ignored, the file's metadata, and the answer, which always says FILE_SYNC.
\* failed: did flush or sync_all fail?
Committed(c) ==
    LET path == call[c].found
        Told(failed) == [version |-> call[c].version, failed |-> failed]
        Synced(failed) ==
            \/ Reply(c, [stat |-> "OK", committed |-> "FILE_SYNC", verf |-> generation])
               /\ acknowledged' = [acknowledged EXCEPT ![path] = @ \cup {Told(failed)}]
            \/ "metadata" \in agenda.events
               /\ Reply(c, [stat |-> "IO"])
               /\ UNCHANGED acknowledged
    IN  /\ In(c, {"WRITE"}, "sync")
        /\ \/ disk' = sync_all(path) /\ Synced(call[c].failed)
           \/ "sync" \in agenda.events /\ UNCHANGED disk /\ Synced(TRUE)
        /\ UNCHANGED <<agenda, clock, mode, page, instance, ids, handle, calls, signal, portmap>>

------------------------------------------------------------------------------
(* PORTMAP.                                                                *)
Ports(c) ==
    LET mapping == call[c].mapping
    IN  \/ /\ In(c, {"SET"}, "begin")
           /\ LET set == pmapproc_setport(table, mapping)
              IN  /\ table' = set.table
                  /\ granted' = IF set.result THEN Append(granted, call[c]) ELSE granted
                  /\ Reply(c, [result |-> set.result])
        \/ /\ In(c, {"UNSET"}, "begin")
           /\ LET unset == pmapproc_unsetport(table, mapping)
              IN  /\ table' = unset.table
                  /\ granted' = IF unset.result THEN Append(granted, call[c]) ELSE granted
                  /\ Reply(c, [result |-> unset.result])
        \/ /\ In(c, {"GETPORT"}, "begin")
           /\ Reply(c, [result |-> pmapproc_getport(table, mapping)])
           /\ UNCHANGED portmap
        \/ /\ In(c, {"DUMP"}, "begin")
           /\ Reply(c, [result |-> pmapproc_dump(table)])
           /\ UNCHANGED portmap
PortCall(c) ==
    /\ Ports(c)
    /\ UNCHANGED <<agenda, host, instance, ids, handle, calls, signal, acknowledged>>

------------------------------------------------------------------------------
\* What the server does for the call of c.
Serve(c) ==
    \/ mountproc3_mnt(c) \/ Mounted(c) \/ Unmounted(c)
    \/ nfsproc3_access(c) \/ nfsproc3_write(c) \/ write(c) \/ Committed(c)
    \/ PortCall(c)

Next ==
    \/ Start \/ Crash \/ HostCrash \/ Tick
    \/ \E f \in Files : WriteBack(f) \/ \E m \in agenda.modes : Chmod(f, m)
    \/ \E c \in Clients : Connect(c) \/ Call(c) \/ Serve(c)
    \/ Receive
    \/ \E l \in agenda.stops : Stop(l)

(* The runtime goes on with a task that can; room in the channel is given  *)
(* in the order in which it was asked for, so that a sender that waits     *)
(* again and again gets some.  A listener that receives goes on receiving. *)
Fairness == (\A c \in Clients : SF_vars(Serve(c))) /\ WF_vars(Receive)

Spec == Init /\ [][Next]_vars /\ Fairness

------------------------------------------------------------------------------
\* Two instances that started in the same millisecond have one generation.
Confused(fh) == fh.of # Len(generations) /\ fh.gen = generation

(* After any number of crashes and restarts, with a clock that may be set  *)
(* back, ACCESS and WRITE work on the file for which the client got its    *)
(* handle, though ids are given out anew (fh_to_id), and no handle of the  *)
(* running instance is refused.  The exception is stated: two instances    *)
(* that started in the same millisecond.                                   *)
HandlesSafe ==
    /\ \A c \in Clients :
           In(c, {"WRITE"}, "write") \/ In(c, {"WRITE"}, "sync") =>
               call[c].found = call[c].fh.path \/ Confused(call[c].fh)
    /\ answer.proc = "ACCESS" /\ answer.res.stat = "OK" =>
           answer.res.found = answer.call.fh.path \/ Confused(answer.call.fh)
    /\ answer.proc \in {"ACCESS", "WRITE"} /\ answer.res.stat \in {"STALE", "BADHANDLE", "NOENT"} =>
           answer.call.fh.of # Len(generations) \/ answer.call.fh.len # 16

(* What a client was told is on the disk is there, and read back, whatever *)
(* is written meanwhile and whenever the host goes down, unless the host   *)
(* failed to write or synchronise it: WRITE answers FILE_SYNC then, too,   *)
(* as MirrorFS::write does not look at what flush and sync_all return, and *)
(* the data may be nowhere.  A failure that write_all or metadata reports  *)
(* is answered IO and promises nothing.                                    *)
DataDurable ==
    \A f \in Files : \A told \in acknowledged[f] :
        ~told.failed => disk[f] >= told.version /\ page[f] >= told.version

(* MNT answers with a handle for the file that the requested path names    *)
(* below the export, component by component, and finds every file whose    *)
(* path is written without doubled slashes, if the export's name has none  *)
(* inside: with_export_name trims its ends only (export_subpath,           *)
(* trim_slashes, path_to_id).                                              *)
MountRight ==
    answer.proc = "MNT" =>
        LET requested == Components(answer.call.path)
            export == Components(agenda.export)
        IN  IF answer.res.stat = "OK" THEN requested = export \o answer.res.fh.path
            ELSE Clean(answer.call.path) /\ Clean(agenda.export) =>
                     \A f \in Files : requested # export \o f

\* Does the mode let the user do this?  The first class he belongs to decides.
Lets(m, auth, bit) ==
    LET owner == auth.uid = 1
        member == auth.gid = 1 \/ 1 \in auth.gids
    IN  \/ auth.uid = 0
        \/ owner /\ bit \in m.owner
        \/ ~owner /\ member /\ bit \in m.group
        \/ ~owner /\ ~member /\ bit \in m.other

(* The mode may change between check_access and the write: a WRITE changes *)
(* a file only if a mode the file had since the call arrived lets its user *)
(* do so, and ACCESS tells the same.  It is refused only if such a mode    *)
(* does not let the user write, or, whoever the user is, if it takes from  *)
(* the owner the right to read: check_access opens the file for reading.   *)
PermissionHeld ==
    LET auth == answer.call.auth
        During(path, P(_)) == \E m \in answer.call.modes[path] : P(m)
    IN  /\ answer.proc = "WRITE" /\ answer.res.stat = "OK" =>
               During(answer.call.found, LAMBDA m : Lets(m, auth, "w"))
        /\ answer.proc = "ACCESS" /\ answer.res.stat = "OK"
               /\ agenda.tree[answer.res.found] = "NF3REG" =>
               During(answer.res.found, LAMBDA m :
                   /\ "MODIFY" \in answer.res.rights <=> Lets(m, auth, "w")
                   /\ "READ" \in answer.res.rights <=> Lets(m, auth, "r"))
        /\ answer.proc = "WRITE" /\ answer.res.stat = "ACCES"
               /\ agenda.tree[answer.call.fh.path] = "NF3REG" /\ ~Confused(answer.call.fh) =>
               During(answer.call.fh.path, LAMBDA m : ~Lets(m, auth, "w") \/ "r" \notin m.owner)

\* The port that was last granted to the key and not taken from it since.
Forgets(r, key) ==
    /\ r.proc = "UNSET" /\ key.prot \in {IPPROTO_TCP, IPPROTO_UDP}
    /\ r.mapping.prog = key.prog /\ r.mapping.vers = key.vers
Grants(key) ==
    {i \in DOMAIN granted :
        /\ granted[i].proc = "SET" /\ KeyOf(granted[i].mapping) = key
        /\ \A j \in (i + 1)..Len(granted) : ~Forgets(granted[j], key)}

Owners == UNION {Grants(KeyOf(granted[i].mapping)) : i \in DOMAIN granted}

\* A number below 2^16 is told as it was sent.  A larger one is no port; SET
\* accepts it all the same and keeps its low 16 bits.
Tells(port, sent) == sent < 2^16 => port = sent

(* A port belongs to who registered it until it is unregistered: no key    *)
(* has two owners, GETPORT answers with the port its owner sent, for each  *)
(* key its own, or with 0 if there is none, and DUMP lists every owner's   *)
(* port, once, and no other (pmapproc_setport, pmapproc_unsetport).        *)
PortsHeld ==
    /\ \A i \in DOMAIN granted :
           granted[i].proc = "SET" => Cardinality(Grants(KeyOf(granted[i].mapping))) <= 1
    /\ answer.proc = "GETPORT" =>
           LET owners == Grants(KeyOf(answer.call.mapping))
           IN  IF owners = {} THEN answer.res.result = 0
               ELSE \A i \in owners : Tells(answer.res.result, granted[i].mapping.port)
    /\ answer.proc = "DUMP" =>
           /\ {KeyOf(m) : m \in answer.res.result} = {KeyOf(granted[i].mapping) : i \in Owners}
           /\ \A m, n \in answer.res.result : KeyOf(m) = KeyOf(n) => m = n
           /\ \A m \in answer.res.result : \A i \in Grants(KeyOf(m)) :
                  Tells(m.port, granted[i].mapping.port)

(* Every call is answered, or its connection is lost, unless the program   *)
(* that asked for the mount signal stops to receive it and keeps the       *)
(* receiver: MNT and UMNT then wait for room in the channel.               *)
CallsAnswered ==
    \A c \in Clients : (call[c] # NoCall) ~> (call[c] = NoCall \/ listener = "stalled")
==============================================================================

# fernfs: a TLA+ model of the NFSv3 server

fernfs is an NFSv3 server library in Rust with a binary, `fernfs`, that exports a
directory of the host (MirrorFS). This directory holds TLA+ modules that model its
core, TLC configurations that check them on small instances, and TLAPS proofs for
any size. Paths below are relative to the repository root.

## 1. The system

### Parts, their state and their operations

| Part | Source | State | Operations |
|---|---|---|---|
| Listener, socket loop | `src/tcp.rs` | one task per connection, its socket, a duplex stream to the reader | accept, `process_socket` (select between socket and replies) |
| RPC pipeline | `src/protocol/rpc/wire.rs`, `command_queue.rs`, `context.rs` | per connection: reader, command queue, worker, result forwarder, and the channels between them | `SocketMessageHandler::read`, `handle_rpc`, `process_rpc_command` |
| Transaction tracker | `src/protocol/rpc/transaction_tracker.rs` | one table for all connections: (xid, address) -> in progress, or completed at a time with a response | `check` (with a sweep now and then), `record_response`, `clear` |
| NFSv3 procedures | `src/protocol/nfs/v3/*.rs` | none of their own; locals across awaits | 22 handlers behind `handle_nfs` |
| READDIR, READDIRPLUS | `readdir.rs`, `readdirplus.rs`, `readdir_index` in `src/vfs.rs` | none; the client holds cookie and verifier | one page per call |
| VFS trait, file handles | `src/vfs.rs` | generation of the server instance | the methods the procedures call, `id_to_fh`, `fh_to_id`, `path_to_id` |
| FSMap | `src/bin/fernfs/fs_map.rs`, `fs_entry.rs` | five tables: ids, paths, inodes, entries with aliases and children, and the next id | `create_entry`, `refresh_entry`, `refresh_dir_list`, `remove_path`, `remove_path_tree`, `rename_path_prefix`, `delete_entry`, `find_child` |
| MirrorFS | `src/bin/fernfs/fs.rs`, `src/fs_util.rs` | FSMap behind one lock, and the host's directory | all VFS methods |
| Permissions | `src/vfs/permissions.rs` | none | mode bits and groups to an access mask |
| Mount, Portmap | `src/protocol/nfs/mount`, `portmap` | the mount signal channel; a table of ports | MNT, UMNT, UMNTALL, EXPORT; SET, UNSET, GETPORT, DUMP |
| XDR, WriteCounter | `src/protocol/xdr`, `src/write_counter.rs` | none | encoding and decoding |

### How they interact

A client's record goes socket -> duplex stream -> reader -> command queue -> worker;
the worker consults the tracker, runs the handler, records the response, and sends
it through the forwarder back to the socket loop. The tasks of a connection know of
each other's end only through closed channels. All connections share the tracker
and the file system. A handler awaits each call of the file system: the handlers of
other connections run between two such calls, while those of one connection run one
after the other. MirrorFS takes its lock per call, and `write`, `read`, `readlink`
and `check_access` release it before they use the path they looked up. The host's
directory changes behind MirrorFS, and the system clock may be set back. Clients keep
file handles across a restart of the server, which numbers the files anew; the table
of ports and the transaction table are lost with the process.

### What is hard, and what has to hold

* **Tracker.** The clock is read before the lock is taken; sweeps run inside
  `check`; handlers fail and panic. A transaction must not be processed twice at a
  time, a failed one must not block its retries, an answer must be kept for its
  retention and not be replayed long after it.
* **Pipeline.** Retransmissions on the same or a new connection, hang-ups, bad
  records and panics at any moment. A call runs at most once, replies leave in
  order, an executed call stays answerable, every queued call is served, and the
  four tasks end.
* **FSMap and MirrorFS.** Five tables that must agree over any sequence of
  operations, files replaced behind the server, inodes used again, paths used after
  the lock is released. An id must never come to stand for another file.
* **Procedures.** Sequences of calls that look atomic to the client and are not:
  check-then-act in CREATE, RMDIR and SETATTR, attributes before and after, errors
  between the steps.
* **Directory listing.** Positions as cookies in a listing that changes, and a
  verifier that is checked before the listing is made, from a clock that may not tell
  two versions apart.
* **Bytes.** Records come in fragments of any size, cut short or altered; every
  procedure writes its reply field by field on each of its paths. A call must be read
  as it was written or be refused, and a reply be readable by the protocol's types.
* **Restart.** Ids are given out anew, so that a handle from before must be refused;
  data that was acknowledged must survive the host.
* **Mount, Portmap, Permissions.** A bounded channel that MNT and UMNT wait on, paths
  with slashes in any place, ports of 32 bits stored in 16, a mode that changes between
  the check and the write.

`PROJECT.json` lists each hazard at its line with the properties that cover it.

## 2. Modules

| Module | Models | Checked by |
|---|---|---|
| `DuplicateRequestCache` | abstract: what the tracker promises its callers, without time | refinement from `TransactionTracker` |
| `TransactionTracker` | `transaction_tracker.rs` and its callers in `wire.rs` | `tracker_*`, proofs |
| `RpcPipeline` | `tcp.rs`, `wire.rs`, `command_queue.rs` over the abstract cache | `pipeline_*`, proofs |
| `FSMap` | the operations on the five tables, as functions from maps to maps | through `MirrorFS`, proofs |
| `MirrorFS` | the VFS methods of `fs.rs` over `FSMap`, the host's directory | `mirror*`, proofs |
| `Vfs` | the file system as the procedures see it: each method a function, one atomic call | through `Nfs3Procs`, proofs |
| `Nfs3Procs` | the handlers, one file-system call per step | `procs`, proofs |
| `ReaddirPaging` | READDIR/READDIRPLUS, `readdir_index`, `MirrorFS::readdir` | `readdir_pages`, proofs |
| `XdrCodec` | `xdr/mod.rs`, `xdr/utils.rs`: types as values, `Serialize` and `Deserialize` over them | through `Wire` |
| `XdrTypes` | the message types of `xdr/rpc.rs`, `xdr/nfs3`, `xdr/mount.rs`, `xdr/portmap.rs` | through `Wire` |
| `RpcPrograms` | the three programs: what each procedure reads and writes, and how a call is routed | through `Wire` |
| `WireExchanges` | the calls a client makes, and the answers to them | through `Wire` |
| `RecordChannel` | abstract: what record marking promises | refinement from `RecordStream` |
| `RecordStream` | one connection's fragments: `read_fragment`, `SocketMessageHandler::read`, `write_fragment`, for any codec | through `Wire`, proofs |
| `Wire` | one connection from bytes to bytes: `RecordStream` with `handle_rpc` and the codecs | `wire` |
| `Permissions`, `MountPaths`, `Portmap` | `permissions.rs`; the paths of `mnt.rs`; the table of ports: operators without state | through `Server` |
| `Server` | the instances of the server, handles, MOUNT, ACCESS, WRITE and PORTMAP, crashes | `server`, proofs |
| `Tables` | a hash map as a function: an entry, an update, a removal | through `FSMap`, `Vfs`, `Portmap`, `Server` |
| `MC...` | the small instances: symmetry, initial states, sets of requests | |
| `TransactionTrackerProofs`, `RpcPipelineProofs`, `RecordStreamProofs`, `MirrorProofs`, `ReaddirProofs`, `Nfs3Proofs`, `MountProofs`, `ServerProofs` | the theorems and their proofs | `tlapm` |

Definitions keep the names of the functions they model. A definition whose comment
begins with "Mutant" is a deliberately wrong variant of the one that follows; it is
not part of any specification and serves to show that a property can fail.

**TransactionTracker.** `check` and `record_response` are two actions each: the
reading of the clock (`CheckStart`, `Execute`) and the locked section (`CheckNew`,
`CheckInProgress`, `CheckCompleted`, `record_response`). `clear` reads no clock and
is one action. `Panic` leaves the entry in progress, as the code does. `runs` and
`answered` are history variables. `MaxLockWait` bounds the time between a clock
reading and the lock; without such a bound nothing could be said about retention.

**RpcPipeline.** One action per thing a task does between two awaits on a channel.
The tracker appears as the abstract cache it implements: a lookup may forget any
completed calls. A record is taken whole and `write_fragment` is instantaneous. The
kind of a call says what its handling leads to (reply, error, garbled record, too
long, panic). Executions are counted, and a reply carries the number of the
execution it comes from.

**FSMap, MirrorFS.** A map is a record of the tables, the disk a function from paths to
inode and file type. The interned names are a sequence, in the order in which the code
interns them, for paths are ordered by it: which alias of a file comes first, and becomes
its name, depends on it. An operation that holds the lock throughout is one action;
`release` followed by `read`, or by `write` and `write_entry` (which takes the lock again),
stands for the ones that do not. A file is its inode, as it is for the code: where a file
behind the server gets the inode of one just removed, at a path of that one, the code
cannot tell them apart, and neither do the properties.
`refresh_dir_list` is given every order in which the host may list the directory.
`HostCreate`, `HostRemove` and `HostRename` are other programs. Attributes are
reduced to the file type. Symbolic links are files that are not directories.
`remove_path_tree` walks children that the map may have wrong; the model's walk ends
where the map has a cycle. Failures of `lstat` between two looks at one path under
the lock are left out. What an operation answers is recorded for lookup, getattr,
readdir and write, and for the others only that they are done. `create_exclusive` answers
NFS3ERR_NOTSUPP and touches nothing (`fs.rs:487-497`), so that the code it would share with
`create` (`fs.rs:51-67`, `:83-93`, `:108-126`) is never reached.

**Vfs, Nfs3Procs.** `handle_nfs` gives for each request what sets its handler
apart: whether it writes, the objects whose attributes it answers, whether it can go
on without them, whether it asks for permission and looks the name up, its
operation, and when it gets the attributes again. The steps `Start`, `Stat`,
`Access`, `Look`, `Check`, `Act`, `Post`, `Set` are the awaits all handlers share,
in their order. A directory's times are a count of its changes, and so is a file's
ctime. Every call of the file system may fail, and a change may fail after it took
effect. What a call is to set is a set, of the mode (which stands for the times too) and
the size; the host may be unable to set any of it, and `path_setattr` and `create` ignore
what the code ignores (`fs_util.rs:208-232`, `fs.rs:106`). What `check_access` says is a
free choice. RENAME's two
permission checks are one step, and LINK's extra getattr on failure, NULL and the
decoding of arguments are left out. A call names directories of the export where a
directory is meant (`Askable`): what a handle of a file does there is left out.

**ReaddirPaging.** `Stat` is the first await (attributes, verifier), `List` the
second (entries, page). A page is limited by `MaxResults` (dircount / 16, at least
one) and by the room in the answer. The client (`Ask`, `Take`, `Restart`,
`Enlarge`) is external: it goes on with the last cookie, begins again when it is
refused, asks again with room for an entry when none fits. A change gives the
directory any mtime: a new one, the same within the clock's resolution, an earlier one
(`utimes`, a clock set back), or 0, which is also the verifier of a client that has none.
`getattr` may fail, and the verifier is 0 then (`readdir.rs:85-87`). Refusals of
`check_access` are left out: they end the listing.

**RecordStream.** `Read` is one fragment with its header and data; `Process` is
`process_rpc_command` with the writing of its reply, and what it says of a record is a
parameter (`Handled`, `Written`), as are the client's calls (`Calls`, `Encoded`) and
what it makes of a reply (`Decoded`). The tasks in between are `RpcPipeline`'s. The
client (`Ask`, `SendFragment`, `HangUp`, `Listen`) is external: it may damage a record,
split it as it likes, and hang up at any time.

**XdrCodec, XdrTypes, RpcPrograms, Wire.** A type is a value (`Struct`, `UnionOf`,
`OptionOf` ...), and one pair of recursive operators serializes and deserializes by
it; each of the repository's message types is one definition. A byte has `ByteValues`
values, 128 in the run: all that the codecs do with a byte is to make words of four,
and the program numbers need no more than 2^28. `Serialize` fails on no value of the type;
`Deserialize` fails as the code does, with the two length limits. A procedure is what
it reads, the results it writes by status, and whether it refuses a read-only file
system first; what it answers is part of the exchange. `Wire` gives `RecordStream` the codecs
(`Record`, `handle_rpc`, `ReplyBytes`); its client decodes by the types of RFC 1813
(`DecodedReply`).

**Server.** `Start` gives the instance its generation (the clock's millisecond), an
empty table of ports and ids in which only the root has one. MNT lists directories
and gives the files in them ids in any order (`Numberings`), then waits for room in
the mount signal's channel (`CanSend`). A handle is generation and id; the model adds
the file it was given for, which only properties look at. WRITE is three steps: the
checks, the opening and writing, the synchronising with the answer, and in between
modes may change and hosts crash. A failed write may have changed the contents or not;
`write_all` reports it, or only `flush` does, whose result the code ignores, like that of
`sync_all`; `metadata` may fail after both. File contents are version numbers, in memory
(`page`) and on the disk, and `acknowledged` has for each file the versions that were
answered FILE_SYNC, and whether one of the ignored failures came before. `Crash` loses the process, `HostCrash` the memory too, and
sets the clock to any value. One variable, `agenda`, fixes at the start which calls,
paths, users, modes and events a behaviour has, so that one run covers several small
worlds rather than their product. Names do not change here: that is MirrorFS's
subject. The server is taken to own the files it exports.

## 3. Runs

| Run | Instance | Shows |
|---|---|---|
| `tracker_time` | 2 workers, 2 keys, clock 0..9, retention 3, interval 2 | answers are kept for the retention less the wait for the lock; none is replayed later than one interval past it |
| `tracker_slip` | 3 workers, 2 keys, clock that slips back, panics | exclusion, the exactness of the table, refinement of the abstract cache |
| `pipeline_faults` | 2 connections of one client, 1 call of any kind, 3 records each | at most once; replayability, and with the same reply; order of replies; drops are explained |
| `pipeline_liveness` | 2 connections, 2 records each, fair | every queued call is served; all tasks end after a hang-up |
| `mirror` | 2 names, 3 inodes, four scopes: clients alone, paths of depth 2, 4 ids; and depth 1 with other programs and 3 ids, with one operation without the lock and 3 ids, and with both and 2 ids | tables consistent, ids keep their inodes, readdir truthful, also while files change behind the server and a read or write is under way |
| `procs` | any 2 calls interleaved; any call of the file system may fail, and the host may refuse to set a mode or a size | what an answer may be taken for (`ErrorsHonest`), own changes lie within wcc data, data is not older than its attributes, read-only is kept; in which window, and in no other, CREATE, RMDIR and guarded SETATTR can be overtaken |
| `readdir_pages` | up to 2 names besides `.` and `..`, pages of any size, 2 changes, mtimes 0 to 2 in any order, 1 failing getattr, fair | pages belong together where the verifier can tell; a listing nobody disturbs is complete, and refused only after a failure; a listing ends |
| `wire` | all procedures, one field at a time off its default; a record of each procedure, and of every SETATTR, cut and altered at every byte; fragments of 0 and 7 bytes, replies in fragments of 24, records at and over the limit | calls and replies are understood, none is lost, record marking implements `RecordChannel` (`RecordStream` with the codecs) |
| `server` | 2 clients, up to 5 calls, 2 starts, channel of 1, clock 0..1; six agendas | handles, durability, mounts, permissions, ports; every call is answered |
| `mirror_lookup`, `mirror_write`, `mirror_readdir` | the smallest instances that show it | the findings of section 4 |

**Why the bounds are enough.** In the tracker and the pipeline what matters is two
workers on one key and a third party that sweeps, and one call sent on two
connections, before and after its answer. A second key makes the tracker's
independence of keys visible; three records of one call on a connection, each
answered or replayed, make the order of replies visible. Retention 3 with interval 2 lets a sweep
fall before, at and after the end of the retention. `PipeCap` 1 makes the socket loop block. In
MirrorFS two names and two spare inodes suffice for a file to be replaced, renamed over, linked, and
have its inode used again; depth 2 gives subtrees, which rename and remove must move as a whole. In
the procedures two interleaved calls are what a race needs; only RMDIR's, where a removal and a
creation come between, needs three, and the theorem `DirsOnly` has any number. Two names and two
directories give RENAME all its cases. Four entries give first, middle, exact and empty last pages,
two changes let a directory come back to what it held or to an mtime it had, and one failing getattr
comes before, between or after them. On the
wire, two calls show the reassembly of one record after another; a length, an option or a union that
is read wrongly shows with one value off its default. Of the server's agendas, `Mounting` has
exports of five names and sixteen paths, with slashes in all places, `Signalling` fills the channel
and has a listener that receives, stalls and drops it, `Restarting` has two instances under any two
clock readings, `Failing` failed writes, synchronisations and metadata before a crash of the host, `Sharing`
five users and two modes that change under a call, and `Registering` three transports and a port
beyond 16 bits.

**Symmetry** is used for workers, keys, connections of one client, calls, file names in
`MirrorFS` (ordered only by when they were interned, which is part of the state) and
spare inodes, which are only compared with each other; not in the runs that check
liveness, `pipeline_liveness`, `readdir_pages` and `server`.

**Deadlock** checking is off: every model ends when its bounded clients have sent
everything and their connections are closed, as the server then waits.

**Fairness.** In `Server`, strong fairness of each client's call (`Serve`): tokio's
bounded channel gives room to senders in the order they asked, so that a sender for
which there is room again and again gets it; and weak fairness of a listener that
receives (`Receive`). A listener that stalls is under no fairness, and `CallsAnswered`
states it as the exception. Elsewhere, weak fairness of each task of a connection (`RpcPipeline`)
and of each step of a listing (`ReaddirPaging`): tokio polls every task that can proceed, the
handlers return, and the client reads its socket and goes on with its listing. Nothing is assumed of
the client's sending or hanging up, of other programs, or of the scheduling among connections.

## 4. Findings

Three runs end in a violation, each of a sentence of the repository (quoted in
`PROJECT.json`).

| Run | What the code does |
|---|---|
| `mirror_lookup` | RENAME of a file the map has not seen leaves the map as it was (`fs.rs:577`). CREATE of `a` (which exists, and is the first name interned), LINK of it as `third`, RENAME of `b`, which the server has not seen, to `third`: LOOKUP of `third` finds the entry with the names `a` and `third`, both on the disk, checks the inode at the first of them, and answers the id of `a` |
| `mirror_write` | WRITE opens the path after it released the lock (`fs.rs:448`): the data goes to whatever file has the name by then |
| `mirror_readdir` | A directory is removed behind the server. `refresh_entry` takes its path from `path_to_id` (`fs_map.rs:206`) before `delete_entry` looks for it there, so the entry stays. After a MKDIR of the same name READDIR of the old id lists the new directory: `refresh_entry` says Delete, and `readdir` ignores it (`fs.rs:311`). The READDIR handlers get that far because they go on when getattr has failed (`readdir.rs:63-64`, `:85`) |

The following were met while modelling and have no run of their own; the modules
model the code as it is.

* Three checks and the changes they are for are separate calls, between which other
  connections run. The properties state each window as their exception and say that it is
  the only one. `CreateKeeps`: a GUARDED CREATE truncates a file made between its lookup
  and its create (`create.rs:124`; the comment at line 14 says "Creates the file only if it
  doesn't exist"), or any file if its lookup fails, which it takes for an absent name
  (`create.rs:152`). `RmdirOnlyDirs`: a file replaces the directory between RMDIR's check
  and its removal. `GuardHeld`: the file changes after SETATTR compared its guard.
* MKDIR whose setattr fails answers an error, and the directory stays (`mkdir.rs:125`).
  SETATTR answers OK when mode and times could not be set, and an error after it changed
  them if the size could not (`fs_util.rs:207-255`); CREATE ignores all of this
  (`fs.rs:106`). `ErrorsHonest` states these as its exceptions.
* The pair of attributes around an operation does not tell whether another connection
  changed the object too: they are calls of their own. `OwnChangeInWcc` is what holds.
* The key of the transaction table is (xid, the client's `ip:port`) (`wire.rs`): a client
  that reconnects from another port has its call executed again. In `pipeline_faults` the
  two connections have the same address.
* The comments at `get_port.rs:17-19` (the "same host port" for all versions and
  protocols) and `portmap/mod.rs:43-46` (UNSET and DUMP "Unimplemented") no longer describe
  the code: GETPORT looks the key up, and both procedures are there.
* REMOVE removes directories (`remove.rs:126`, `fs.rs:505`).
* RENAME's answer on a read-only server has one wcc_data where its other answers and
  RFC 1813 have two (`rename.rs:66`, `src/rfc/nfs/rfc1813.txt:3963`); `RepliesUnderstood`
  states the exception.
* An RPC version mismatch is answered with the supported range 0 to 0 (`rpc.rs:459`),
  UMNT and UMNTALL answer with a status where the protocol has no result, and the
  version of the mount program is not looked at.
* `MirrorFS::write` ignores the results of `flush`, at which tokio reports a failed
  write, and of `sync_all`, and answers FILE_SYNC (`fs.rs:466-467`): data that is
  acknowledged then may be lost. `DataDurable` excepts these failures.
* After a clock that was set back between two starts, a handle of the earlier instance
  is answered with NFS3ERR_BADHANDLE and not NFS3ERR_STALE (the comment at `vfs.rs:687`
  says STALE); two instances that start in the same millisecond share a generation, and
  a handle of the one is taken for another file by the other. `HandlesSafe` excepts this.
* SET accepts ports beyond 16 bits and keeps their low bits (`set_port.rs:37`): GETPORT
  and DUMP then tell another port, or 0, which stands for "not registered". `PortsHeld`
  excepts these numbers. UNSET removes the TCP and UDP entries only.
* A requested mount path with doubled slashes before the export name is not found, and
  below an export whose own name has doubled slashes inside only paths that spell it so
  are: `with_export_name` trims the ends of a name (`tcp.rs:248`; its comment asks for a
  name without slashes). `MountRight` says that paths are found where neither has any.
* A directory whose mtime is 0, or whose getattr fails, has the verifier that means none:
  stale cookies pass (`readdir.rs:85-91`). `PagesFit` excepts this and two versions with
  one mtime. A getattr that fails also refuses the cookies of a listing nobody disturbed.
* A removal between READDIR's check of the verifier and its listing lets the last
  page skip an entry (`readdir.rs:91`, `:113`, `vfs.rs:333`). `PagesFit` is stated of
  the pages before the last for this reason.
* READDIRPLUS refuses its cookie after every change of the directory
  (`readdirplus.rs:95`), which the comment at lines 163-164 argues against.

## 5. Proofs

All theorems hold for every value of the constants that satisfies the modules'
named assumptions: any number of workers, keys, connections, records, calls, clients
and names, any retention and any bounds. Each states a property that a run checks, and
each inductive invariant was checked by TLC on the run's instance before it was proved.

| Assumption | What it asks of the constants |
|---|---|
| `TrackerAssumption`, `PipelineAssumption` | the times and bounds are numbers, the sets of calls and connections are what their names say |
| `MirrorAssumption` | the directories at the start hold finitely many files, the root among them; a behaviour's bounds are positive numbers |
| `PagingAssumption` | the names of a directory are finitely many, numbered in the order they are listed; times and bounds are numbers |
| `ProcsAssumption` | the file system at the start is one (`FileSystem`: every name leads to a file), and requests name directories of the export and set what can be set (`Askable`) |
| `StreamAssumption` | the limit and the sizes of fragments are numbers, and the server's fragments are not empty |
| `CodecAssumption` | records and replies are bytes; a reply has some; a call with its credentials in order that arrives undamaged is answered. TLC evaluates it for every record of the run `wire` |
| `ServerAssumption`, `PathsAssumption`, `AgendaAssumption` | the channel has room for one; export names and paths are sequences of characters; a tree has finitely many files, its root among them; ports and program numbers are not negative |

**`TransactionTrackerProofs`.** `TypeCorrect` is inductive by itself. For the rest,
`OwnershipInv` conjoins the type invariant, `InProgressIsOwned`,
`NoConcurrentExecution`, `CachedIsLatest` and `RecordsLatest` (a worker about to
record holds the response of the last execution). Exclusion alone is not inductive:
that a new caller finds the key vacant only excludes a second owner because the
table is exact, and the table stays exact because a sweep touches neither vacant
entries nor those in progress (`SweepKeeps`). `Exclusion`, `TableExact` and
`ReplayIsLatest` follow. `Retained` and `ReplaysBounded` assume a clock that is not
set back; their invariant `TimeInv` adds that the last sweep is not in the future,
that the stamp of a waiting worker is at most `MaxLockWait` old (`StampsRecent`),
and that an entry's time lags at most `MaxLockWait` behind its last answer and was
not overdue at the last sweep (`EntriesRecent`). `Refinement` shows that `Spec` implements
`DuplicateRequestCache!Spec` with times hidden.

**`RpcPipelineProofs`.** `PipelineInv` says that the table has its type, that an
entry in progress is claimed by exactly one worker and by one that executes or died
executing it (`Claims`), and how the number of executions, the times forgotten and
the entry relate (`Counts`). `ExecutedAtMostOnce` and `ExecutionsReplayable` follow.
This invariant leaves out the channels: whatever they deliver, the table decides.

For the replies the channels come in. `StreamInv` says that a connection's
records lie in its stages (socket, duplex stream, queue, worker, results, replies, what
was sent) in the order they came, none in two of them: the order of replies
(`RepliesOrdered`) is that of the last stage. `ReplyInv` says that every reply on its
way is the one the table holds, unless the table has forgotten the call: `RepliesAgree`.
`PipelineTypeCorrect` is the type invariant, `DropsExplained` the action property, and
`TableUsedAsPromised` the refinement of `DuplicateRequestCache` by all the connections
together: they claim only what is vacant and record or release only what they claimed.

**`RecordStreamProofs`.** Both directions carry numbered records in fragments, and the
argument is about where fragments lead (`Leads`): from a place in one record to a place
in the same or a later one, each fragment beginning where the one before it ended and
saying whether it ends its record. This is said by the places between the fragments, so
that no induction is needed: fragments are taken from the front (`LeadsFirst`), added
(`LeadsOn`), cut off (`LeadsPart`) and put after each other (`LeadsBoth`), and what
`write_fragment` makes of a buffer leads through the whole of it (`WriteLeads`, which
needs the arithmetic of its loop, `OffsetFacts`). `StreamInv` says what is unsent
(`Sending`), that what is in transit leads from the reader's place to the client's
(`Arriving`), that records are processed in order and a closed connection has a reason
(`Processed`), and that what is on its way back leads from the client's place in the
replies to the end of the last one written (`Answered`). `RecordsArriveInOrder` is the
refinement of `RecordChannel`, `EveryCallAnswered` the property `NothingLost`, and
`RepliesArriveWhole` the part of `CallsUnderstood` and `RepliesUnderstood` that does not
depend on the codecs: each side decodes exactly the bytes the other encoded.

**`MirrorProofs`.** `Inv` says of the map (`Sound`) that an entry's name is one of its
finitely many aliases, that ids are below `next_fileid` and that ids and inodes lead to
each other, that every path of the table leads to an entry that has it as an alias, and that
no name is interned twice: `TablesSound`. What a step makes of a map is related to the map it
began with (`Continues`): no id that both know has changed its inode, and what is new was not
given out before. Each operation of `FSMap` has a lemma that it leaves a sound map sound and
continues it (`Keeps`), and these go together (`KeepsTwice`), however many an operation of
MirrorFS is made of: `IdsKept`.
`remove_paths` keeps the map sound for any set of paths, and thus whatever the walk of
`remove_path_tree` finds; `refresh_entry` keeps an entry only for its own inode; `create_entry`
leaves the other paths leading where they did. Where `refresh_dir_list` enters the children one
after another, induction is replaced by the least step that goes wrong (`Smallest`: a set of numbers
has a least one), which shows both that the recursive function is one and that it keeps the map
sound. That an entry's first alias exists needs that the order of paths is total, and thus that
names have different symbols. What `readdir` answers is then what is on the disk (`ReaddirHonest`).

**`ReaddirProofs`.** `Shape` is the type invariant with what it needs to be inductive:
the last version in the directory's past is the present one, the client's cookie is the
number of entries it has, and there is room for what a page adds (`ListingTypeCorrect`).
`PagesInv` says of a client none of whose pages came with the verifier 0 that its pages up
to the last agree with the version of that mtime, if there is but one, and that the last
belongs to such a version or a later one: mtimes may go back, so that it is the place in the
directory's past which counts, not the mtime. While the handler lies between its two awaits
`PagesInv` says so of the request too (`PagesFitTogether`).
`QuietInv` says that with no change since the listing began all entries are the
directory's in their order, that no cookie is refused but after a getattr that failed, and
that the end is told at the end (`QuietComplete`). Both rest on lemmas about `Listing`: every name once, in order.

**`Nfs3Proofs`.** It begins with lemmas on the calls of the file system (`Vfs`): each
leaves a file system, in which nothing is lost or younger than before
(`Grows`); `setattr` and `write` change no names (`OnlyFiles`). `Inv` says what is known of a call
at each step of its handler, on any number of connections and whatever fails: before the operation
nothing has happened and what was read is not newer than what there is (`Ready`); afterwards the
objects, and what was read of them since, are newer than what was read before, if the call changed
anything, and the status is honest about what came of the operation and of setattr (`Honest`, in
`Acted`). Other calls only make the file system older, which keeps both (`CallLater`).
`AnswersHonest`, `OwnChangeLies` and `ReadsFresh` follow; `CapabilitiesKept` adds that a read-only
server starts no procedure that writes (`Refused`). `Sure` says what a handler that is about to act
has made sure of, in words that stay true whatever runs meanwhile: CREATE that the name was free
when it looked or that the look-up failed, RMDIR that it found a directory, SETATTR that the guard is
the ctime it read. `NothingTruncated`, `DirsOnly` and `GuardRespected` follow for any number of
connections: they say in which window the check can be overtaken, and that there is no other.

**`ServerProofs`.** `HandlesInv` says that the ids of the running instance are those
below the number given out and no two files share one (`IdsRight`), that a handle has
the generation of the instance that gave it and, while this runs, its file's id
(`HandlesGiven`), and that a WRITE under way has found the file its handle is for
(`FilesFound`): `HandlesLead`. `DataInv` orders what was acknowledged without a failure,
what is on the disk and what is in memory, and says that a WRITE that waits for the disk and
has not failed has its version in memory (`WritesInMemory`): `DataKept`. A write that failed
and was acknowledged all the same is no part of it, as nothing is true of it. A WRITE that got past its check has met a mode
that lets its user write (`PermissionsHold`), and a key is in the table of ports just if it
has one owner, whose port is there in 16 bits (`Owned`, `PortsKept`).

**`MountProofs`, `MountRight`.** `Components` counts: the k-th component begins at the
k-th smallest place where one can. Instead of computing with this the proofs say what it
amounts to: `IsCut(path, c)` holds of components that lie in the path at places of their
own, in order, with slashes between them and nothing else. `Components` is a cut
(`ComponentsCut`), and a path has but one (`CutUnique`, where a set of numbers having a
least one replaces induction). So it is enough to show a cut: for two paths joined by a
slash (`JoinedPaths`), for a path whose ends are trimmed (`TrimmedComponents`), for the
name of an export. `SubpathComponents` and `SubpathFound` say of `export_subpath` what
it gives and when it gives something, for all paths. In `ServerProofs`, `MountInv` says
of a MNT under way that it asks for what `Resolved` has for its path (`MountsMeant`), and
of its answer that it is the file found there or there is none (`MountsAnswered`):
`MountsRight`. `Resolved` is computed once for all paths a run has, and is shown to be
`export_subpath` with its ends trimmed (`ResolvedRight`).

**Only model-checked.** Liveness (`Served`, `TasksEnd`, `ListingEnds`, `CallsAnswered`)
is outside the prover's reach. The codecs are recursive over types, and what a recursive
definition computes for every input is outside it too: `CallsUnderstood` and
`RepliesUnderstood`, `Wire` and the modules of the codecs stay with TLC.
`LookupTruthful`, `WriteHitsItsFile` and `ReaddirOfItsDirectory` of `MirrorFS` are false
(section 4). Every other
property of a run is a theorem.

## 6. Not modelled

* The reuse of response buffers (`ResponseBuffer`) and the metrics of the command
  queue; the codecs of i32, i64 and floating-point numbers, which no message uses.
* What of `create_fs_object` and `check_exclusive_existing` is for EXCLUSIVE CREATE:
  `MirrorFS::create_exclusive` answers NFS3ERR_NOTSUPP (`fs.rs:487-497`), so that it is
  never reached. `Vfs` and `Nfs3Procs` have the refusal.
* `fsstat`, `FSINFO` and `PATHCONF` values, which are constants or the host's.
* The bytes of a READDIR reply, counted by `write_counter.rs`: `ReaddirPaging` has the
  number of entries there is room for.
* The values of times that clients set; the ctime a file gets when its names change; `SETATTR` of owners,
  which the code does not implement.
* The transaction table over a restart: the code keeps none, and promises nothing.
* Start-up, address parsing, option parsing, logging; `examples/demo_fs`, an example
  file system in memory; NFSv4, which is empty.

## 7. Plan

Done, in this order: tracker and its abstract cache, pipeline, FSMap and MirrorFS,
procedures, listing; then the wire (codecs, types, programs, record marking), the
server over restarts with handles, mounts, permissions and ports, and coarse times in
the listing. Then the proofs: tracker, pipeline, replies, listing, `Server`, the
procedures with the file system under them, `MirrorFS` over `FSMap`, the paths of
mounts, and record marking. Next:

1. Handles of files where a procedure wants a directory, in `Vfs`.
2. Which entries of `FSMap` are left over when a file goes behind the server, and what
   operations besides READDIR do with them.

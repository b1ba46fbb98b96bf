------------------------------ MODULE RpcPrograms ------------------------------
(***************************************************************************)
(* The programs the server answers for (handle_rpc, handle_nfs,            *)
(* handle_mount, handle_portmap): what each procedure reads from a call,   *)
(* what it writes to the reply, and what a call that names no procedure    *)
(* gets.  Results that begin with a status are a union over the status.    *)
(***************************************************************************)
EXTENDS XdrTypes

NFS == 100003
PORTMAP == 100000
MOUNT == 100005

TupleType(types) == Struct([i \in DOMAIN types |-> Field(i, types[i])])
Result(ok, fail) == UnionOf([s \in nfsstat3.values |-> IF s = NFS3_OK THEN ok ELSE fail])

\* A procedure: the arguments it reads, the results it writes, and whether it
\* refuses a file system that cannot be written before it reads them.
Reads(args, results) == [args |-> args, results |-> results, writes |-> FALSE]
Writes(args, results) == [args |-> args, results |-> results, writes |-> TRUE]

-----------------------------------------------------------------------------
(* NFS version 3.                                                          *)
NewObject == TupleType(<<post_op_fh3, post_op_attr, wcc_data>>)

nfsproc3_null == Reads(Void, Void)
nfsproc3_getattr == Reads(nfs_fh3, Result(fattr3, Void))
nfsproc3_setattr == Writes(SETATTR3args, Result(wcc_data, wcc_data))
nfsproc3_lookup ==
    Reads(diropargs3, Result(TupleType(<<nfs_fh3, post_op_attr, post_op_attr>>), post_op_attr))
nfsproc3_access ==
    Reads(TupleType(<<nfs_fh3, U32>>), Result(TupleType(<<post_op_attr, U32>>), post_op_attr))
nfsproc3_readlink == Reads(nfs_fh3, Result(TupleType(<<post_op_attr, Opaque>>), post_op_attr))
nfsproc3_read == Reads(READ3args, Result(READ3resok, post_op_attr))
nfsproc3_write == Writes(WRITE3args, Result(WRITE3resok, wcc_data))
\* UNCHECKED and GUARDED carry attributes, EXCLUSIVE a verifier.
nfsproc3_create ==
    Writes(TupleType(<<diropargs3, UnionOf(0 :> sattr3 @@ 1 :> sattr3 @@ 2 :> FixedOpaque(8))>>),
           Result(NewObject, wcc_data))
nfsproc3_mkdir == Writes(MKDIR3args, Result(NewObject, wcc_data))
nfsproc3_symlink == Writes(SYMLINK3args, Result(NewObject, wcc_data))
nfsproc3_mknod == Writes(MKNOD3args, Result(NewObject, wcc_data))
nfsproc3_remove == Writes(diropargs3, Result(wcc_data, wcc_data))
nfsproc3_rmdir == Writes(diropargs3, Result(wcc_data, wcc_data))
\* Refusing a read-only file system, RENAME writes one wcc_data where every
\* other answer of it has two.
nfsproc3_rename ==
    LET both == TupleType(<<wcc_data, wcc_data>>)
    IN  Writes(TupleType(<<diropargs3, diropargs3>>),
               UnionOf([Result(both, both).arms EXCEPT ![NFS3ERR_ROFS] = wcc_data]))
\* Mutant: the file's attributes are left out of a refusal.
nfsproc3_link_short ==
    Writes(LINK3args, Result(TupleType(<<post_op_attr, wcc_data>>), wcc_data))
nfsproc3_link ==
    LET both == TupleType(<<post_op_attr, wcc_data>>) IN Writes(LINK3args, Result(both, both))
nfsproc3_readdir ==
    Reads(READDIR3args,
          Result(TupleType(<<post_op_attr, cookieverf3, ListOf(entry3), Bool>>), post_op_attr))
nfsproc3_readdirplus ==
    Reads(READDIRPLUS3args,
          Result(TupleType(<<post_op_attr, cookieverf3, ListOf(entryplus3), Bool>>), post_op_attr))
nfsproc3_fsstat == Reads(nfs_fh3, Result(FSSTAT3resok, post_op_attr))
nfsproc3_fsinfo == Reads(nfs_fh3, Result(fsinfo3, post_op_attr))
nfsproc3_pathconf == Reads(nfs_fh3, Result(PATHCONF3resok, post_op_attr))
nfsproc3_commit == Reads(COMMIT3args, Result(COMMIT3resok, wcc_data))

NFSProgram ==
    (0 :> nfsproc3_null) @@ (1 :> nfsproc3_getattr) @@ (2 :> nfsproc3_setattr)
    @@ (3 :> nfsproc3_lookup) @@ (4 :> nfsproc3_access) @@ (5 :> nfsproc3_readlink)
    @@ (6 :> nfsproc3_read) @@ (7 :> nfsproc3_write) @@ (8 :> nfsproc3_create)
    @@ (9 :> nfsproc3_mkdir) @@ (10 :> nfsproc3_symlink) @@ (11 :> nfsproc3_mknod)
    @@ (12 :> nfsproc3_remove) @@ (13 :> nfsproc3_rmdir) @@ (14 :> nfsproc3_rename)
    @@ (15 :> nfsproc3_link) @@ (16 :> nfsproc3_readdir) @@ (17 :> nfsproc3_readdirplus)
    @@ (18 :> nfsproc3_fsstat) @@ (19 :> nfsproc3_fsinfo) @@ (20 :> nfsproc3_pathconf)
    @@ (21 :> nfsproc3_commit)

-----------------------------------------------------------------------------
(* Mount: NULL, MNT, UMNT, UMNTALL and EXPORT.  UMNT and UMNTALL answer    *)
(* with a status where the protocol has no result.                         *)
mountproc3_mnt ==
    Reads(Opaque, UnionOf([s \in mountstat3.values |-> IF s = MNT3_OK THEN mountres3_ok ELSE Void]))
mountproc3_umnt == Reads(Opaque, mountstat3)
mountproc3_umnt_all == Reads(Void, mountstat3)
mountproc3_export ==
    Reads(Void, ListOf(Struct(<<Field("name", Opaque), Field("groups", ListOf(Opaque))>>)))

MountProgram ==
    (0 :> Reads(Void, Void)) @@ (1 :> mountproc3_mnt) @@ (3 :> mountproc3_umnt)
    @@ (4 :> mountproc3_umnt_all) @@ (5 :> mountproc3_export)

(* Portmap: NULL, SET, UNSET, GETPORT and DUMP.                            *)
PortmapProgram ==
    (0 :> Reads(Void, Void)) @@ (1 :> Reads(mapping, Bool)) @@ (2 :> Reads(mapping, Bool))
    @@ (3 :> Reads(mapping, U32)) @@ (4 :> Reads(Void, pmaplist))

-----------------------------------------------------------------------------
(* The answer to a call: a refusal, or the procedure that handles it.      *)
Message(xid, body) == [xid |-> xid, body |-> body]
NullAuth == [flavor |-> AUTH_NULL, body |-> <<>>]
Accepted(stat, body) ==
    [arm |-> REPLY,
     body |-> [arm |-> 0, body |-> [verf |-> NullAuth, reply_data |-> [arm |-> stat, body |-> body]]]]
make_success_reply(xid) == Message(xid, Accepted(SUCCESS, <<>>))
prog_unavail_reply_message(xid) == Message(xid, Accepted(PROG_UNAVAIL, <<>>))
proc_unavail_reply_message(xid) == Message(xid, Accepted(PROC_UNAVAIL, <<>>))
garbage_args_reply_message(xid) == Message(xid, Accepted(GARBAGE_ARGS, <<>>))
prog_mismatch_reply_message(xid, accepted) ==
    Message(xid, Accepted(PROG_MISMATCH, [low |-> accepted, high |-> accepted]))
rpc_vers_mismatch(xid) ==
    Message(xid, [arm |-> REPLY,
                  body |-> [arm |-> 1, body |-> [arm |-> 0, body |-> Default(mismatch_info)]]])

Refused(msg) == [handled |-> FALSE, reply |-> msg]
Procedure(procs, xid, call) ==
    IF call.proc \in DOMAIN procs THEN [handled |-> TRUE, handler |-> procs[call.proc]]
    ELSE Refused(proc_unavail_reply_message(xid))

handle_nfs(xid, call) ==
    IF call.vers # 3 THEN Refused(prog_mismatch_reply_message(xid, 3))
    ELSE Procedure(NFSProgram, xid, call)
handle_portmap(xid, call) ==
    IF call.vers # 2 THEN Refused(prog_mismatch_reply_message(xid, 2))
    ELSE Procedure(PortmapProgram, xid, call)
\* The version of the mount program is not looked at.
handle_mount(xid, call) == Procedure(MountProgram, xid, call)

\* The part of handle_rpc that routes a call.
Route(xid, call) ==
    IF call.rpcvers # 2 THEN Refused(rpc_vers_mismatch(xid))
    ELSE CASE call.prog = NFS -> handle_nfs(xid, call)
           [] call.prog = PORTMAP -> handle_portmap(xid, call)
           [] call.prog = MOUNT -> handle_mount(xid, call)
           [] OTHER -> Refused(prog_unavail_reply_message(xid))
==============================================================================

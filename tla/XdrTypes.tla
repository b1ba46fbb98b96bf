------------------------------- MODULE XdrTypes -------------------------------
(***************************************************************************)
(* The structures, unions and enumerations of the protocols, as their      *)
(* declarations and macros in src/protocol/xdr give them: ONC RPC          *)
(* (rpc.rs), NFS version 3 (nfs3/), mount (mount.rs) and portmap           *)
(* (portmap.rs).                                                           *)
(***************************************************************************)
EXTENDS XdrCodec

Field(name, t) == <<name, t>>

\* Fields of one type.
Fields(names, t) == [i \in DOMAIN names |-> Field(names[i], t)]

-----------------------------------------------------------------------------
(* ONC RPC.                                                                *)
auth_flavor == Enum(0 .. 3)
auth_stat == Enum(1 .. 5)
AUTH_NULL == 0
AUTH_UNIX == 1

auth_unix == Struct(<<Field("stamp", U32), Field("machinename", Opaque), Field("uid", U32),
                      Field("gid", U32), Field("gids", ArrayOf(U32))>>)
opaque_auth == Struct(<<Field("flavor", auth_flavor), Field("body", Opaque)>>)
call_body == Struct(Fields(<<"rpcvers", "prog", "vers", "proc">>, U32)
                    \o Fields(<<"cred", "verf">>, opaque_auth))
mismatch_info == Struct(Fields(<<"low", "high">>, U32))

SUCCESS == 0
PROG_UNAVAIL == 1
PROG_MISMATCH == 2
PROC_UNAVAIL == 3
GARBAGE_ARGS == 4
accept_body == UnionOf([a \in 0 .. 4 |-> IF a = PROG_MISMATCH THEN mismatch_info ELSE Void])
accepted_reply == Struct(<<Field("verf", opaque_auth), Field("reply_data", accept_body)>>)
rejected_reply == UnionOf(0 :> mismatch_info @@ 1 :> auth_stat)
reply_body == UnionOf(0 :> accepted_reply @@ 1 :> rejected_reply)
CALL == 0
REPLY == 1
rpc_body == UnionOf(CALL :> call_body @@ REPLY :> reply_body)
rpc_msg == Struct(<<Field("xid", U32), Field("body", rpc_body)>>)

-----------------------------------------------------------------------------
(* NFS version 3: common types (nfs3/mod.rs).                              *)
NFS3_OK == 0
NFS3ERR_NOENT == 2
NFS3ERR_ROFS == 30
nfsstat3 == Enum({0, 1, 2, 5, 6, 13, 22, 27, 28, 63, 66} \cup 17 .. 21 \cup {30, 31}
                 \cup 69 .. 71 \cup 10001 .. 10008)
ftype3 == Enum(1 .. 7)
createmode3 == Enum(0 .. 2)
stable_how == Enum(0 .. 2)
writeverf3 == FixedOpaque(8)
cookieverf3 == FixedOpaque(8)

specdata3 == Struct(Fields(<<"specdata1", "specdata2">>, U32))
nfs_fh3 == Struct(<<Field("data", Opaque)>>)
nfstime3 == Struct(Fields(<<"seconds", "nseconds">>, U32))
fattr3 == Struct(<<Field("ftype", ftype3)>> \o Fields(<<"mode", "nlink", "uid", "gid">>, U32)
                 \o Fields(<<"size", "used">>, U64) \o <<Field("rdev", specdata3)>>
                 \o Fields(<<"fsid", "fileid">>, U64)
                 \o Fields(<<"atime", "mtime", "ctime">>, nfstime3))
wcc_attr == Struct(<<Field("size", U64)>> \o Fields(<<"mtime", "ctime">>, nfstime3))
pre_op_attr == OptionOf(wcc_attr)
post_op_attr == OptionOf(fattr3)
post_op_fh3 == OptionOf(nfs_fh3)
wcc_data == Struct(<<Field("before", pre_op_attr), Field("after", post_op_attr)>>)
set_atime == UnionOf(0 :> Void @@ 1 :> Void @@ 2 :> nfstime3)
set_mtime == UnionOf(0 :> Void @@ 1 :> Void @@ 2 :> nfstime3)
sattr3 == Struct(Fields(<<"mode", "uid", "gid">>, OptionOf(U32)) \o <<Field("size", OptionOf(U64)),
                 Field("atime", set_atime), Field("mtime", set_mtime)>>)
diropargs3 == Struct(<<Field("dir", nfs_fh3), Field("name", Opaque)>>)
symlinkdata3 == Struct(<<Field("symlink_attributes", sattr3), Field("symlink_data", Opaque)>>)
SETATTR3args == Struct(<<Field("object", nfs_fh3), Field("new_attribute", sattr3),
                         Field("guard", OptionOf(nfstime3))>>)

(* Directories (nfs3/dir.rs).                                              *)
MKDIR3args == Struct(<<Field("dirops", diropargs3), Field("attributes", sattr3)>>)
SYMLINK3args == Struct(<<Field("dirops", diropargs3), Field("symlink", symlinkdata3)>>)
entry3 == Struct(<<Field("fileid", U64), Field("name", Opaque), Field("cookie", U64)>>)
READDIR3args == Struct(<<Field("dir", nfs_fh3), Field("cookie", U64),
                         Field("cookieverf", cookieverf3), Field("dircount", U32)>>)
entryplus3 == Struct(<<Field("fileid", U64), Field("name", Opaque), Field("cookie", U64),
                       Field("name_attributes", post_op_attr), Field("name_handle", post_op_fh3)>>)
READDIRPLUS3args == Struct(<<Field("dir", nfs_fh3), Field("cookie", U64),
                             Field("cookieverf", cookieverf3)>>
                           \o Fields(<<"dircount", "maxcount">>, U32))
devicedata3 == Struct(<<Field("dev_attributes", sattr3), Field("spec", specdata3)>>)
\* Block and character devices have a number, sockets and pipes attributes, and
\* the other types nothing.
mknoddata3 == UnionOf([a \in 1 .. 7 |-> CASE a \in {3, 4} -> devicedata3
                                          [] a \in {6, 7} -> sattr3
                                          [] OTHER -> Void])
MKNOD3args == Struct(<<Field("where_dir", diropargs3), Field("what", mknoddata3)>>)

(* Files (nfs3/file.rs).                                                   *)
READ3args == Struct(<<Field("file", nfs_fh3), Field("offset", U64), Field("count", U32)>>)
READ3resok == Struct(<<Field("file_attributes", post_op_attr), Field("count", U32),
                       Field("eof", Bool), Field("data", Opaque)>>)
COMMIT3args == Struct(<<Field("file", nfs_fh3), Field("offset", U64), Field("count", U32)>>)
COMMIT3resok == Struct(<<Field("file_wcc", wcc_data), Field("verf", writeverf3)>>)
LINK3args == Struct(<<Field("file", nfs_fh3), Field("link", diropargs3)>>)
WRITE3args == Struct(<<Field("file", nfs_fh3), Field("offset", U64), Field("count", U32),
                       Field("stable", U32), Field("data", Opaque)>>)
WRITE3resok == Struct(<<Field("file_wcc", wcc_data), Field("count", U32),
                        Field("committed", stable_how), Field("verf", writeverf3)>>)

(* The file system (nfs3/fs.rs).                                           *)
fsinfo3 == Struct(<<Field("obj_attributes", post_op_attr)>>
                  \o Fields(<<"rtmax", "rtpref", "rtmult", "wtmax", "wtpref", "wtmult", "dtpref">>, U32)
                  \o <<Field("maxfilesize", U64), Field("time_delta", nfstime3),
                       Field("properties", U32)>>)
FSSTAT3resok == Struct(<<Field("obj_attributes", post_op_attr)>>
                       \o Fields(<<"tbytes", "fbytes", "abytes", "tfiles", "ffiles", "afiles">>, U64)
                       \o <<Field("invarsec", U32)>>)
PATHCONF3resok == Struct(<<Field("obj_attributes", post_op_attr)>>
                         \o Fields(<<"linkmax", "name_max">>, U32)
                         \o Fields(<<"no_trunc", "chown_restricted", "case_insensitive",
                                     "case_preserving">>, Bool))

-----------------------------------------------------------------------------
(* Mount and portmap.                                                      *)
MNT3_OK == 0
MNT3ERR_NOENT == 2
mountstat3 == Enum({0, 1, 2, 5, 13, 20, 22, 63, 10004, 10006})
mountres3_ok == Struct(<<Field("fhandle", Opaque), Field("auth_flavors", ArrayOf(U32))>>)
mapping == Struct(Fields(<<"prog", "vers", "prot", "port">>, U32))
pmaplist == ListOf(mapping)
==============================================================================

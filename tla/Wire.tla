--------------------------------- MODULE Wire ---------------------------------
(***************************************************************************)
(* One connection from bytes to bytes: RecordStream with the XDR codecs.   *)
(* A record is decoded and routed (process_rpc_command, handle_rpc), and a *)
(* reply encoded; the client encodes the calls of Exchanges and decodes    *)
(* the replies by the types of the protocol.  Every call has an xid of its *)
(* own.  An exchange also says what the file system would answer: the      *)
(* procedures are the subject of other modules.                            *)
(***************************************************************************)
EXTENDS WireExchanges, RecordStream

(* The client's records.                                                   *)
\* The i-th call has an xid of its own, also when a byte of it is changed.
Xid(i) == 10 * i
Msg(i, x) == [x.msg EXCEPT !.xid = Xid(i)]
Record(i, n) ==
    LET x == Exchanges[n]
    IN  Serialize(rpc_msg, Msg(i, x)) \o Serialize(x.type, x.args)
Numbers(i) == IF i = 1 THEN DOMAIN Exchanges ELSE Split
IsCall(n) == Exchanges[n].valid
InSplit(n) == n \in Split
InDamaged(i, n) == i = 1 /\ n \in Damaged
RecordLimit == MAX_RPC_RECORD_LENGTH

-----------------------------------------------------------------------------
(* The worker.                                                             *)
\* AUTH_UNIX credentials must be well-formed; no others are looked into.
CredentialsOk(call) ==
    call.cred.flavor = AUTH_UNIX => Deserialize(auth_unix, call.cred.body).ok

\* nfsproc3_write refuses a count that is not the length of the data, and a
\* stable_how it does not know once the write is otherwise allowed.
GarbageArgs(call, args, stat) ==
    /\ call.prog = NFS /\ call.proc = 7
    /\ \/ args.count # Len(args.data)
       \/ stat = NFS3_OK /\ args.stable \notin stable_how.values

SameProcedure(call, x) ==
    x.valid /\ call.prog = x.msg.body.body.prog /\ call.proc = x.msg.body.body.proc

\* What becomes of a call: what the server made of it, and its answer: the
\* message, and the results with their type.
Answer(msg, args, reply_msg, type, v) ==
    [ok |-> TRUE, made |-> [ok |-> TRUE, msg |-> msg, args |-> args],
     means |-> [msg |-> reply_msg, results |-> v], type |-> type]

\* A procedure reads its arguments and answers what x says; one that writes first
\* refuses a read-only file system.
Perform(h, m, x) ==
    LET success == make_success_reply(m.v.xid)
        answer == IF SameProcedure(m.v.body.body, x) THEN x.answer ELSE Default(h.results)
    IN  IF h.writes /\ x.readOnly
        THEN Answer(m.v, <<>>, success, h.results,
                    [arm |-> NFS3ERR_ROFS, body |-> Default(h.results.arms[NFS3ERR_ROFS])])
        ELSE Try(Deserialize(h.args, m.rest), LAMBDA a :
                IF GarbageArgs(m.v.body.body, a.v, answer.arm)
                THEN Answer(m.v, <<a.v>>, garbage_args_reply_message(m.v.xid), Void, <<>>)
                ELSE Answer(m.v, <<a.v>>, success, h.results, answer))

\* What handle_rpc does with the record of the n-th exchange.
handle_rpc(record, n) ==
    Try(Deserialize(rpc_msg, record), LAMBDA m :
        IF m.v.body.arm # CALL \/ ~CredentialsOk(m.v.body.body) THEN Error
        ELSE LET route == Route(m.v.xid, m.v.body.body)
             IN  IF route.handled THEN Perform(route.handler, m, Exchanges[n])
                 ELSE Answer(m.v, <<>>, route.reply, Void, <<>>))
ReplyBytes(out) == Serialize(rpc_msg, out.means.msg) \o Serialize(out.type, out.means.results)

-----------------------------------------------------------------------------
(* The client reads its replies, by the types of RFC 1813.                 *)
FailureBody(proc) ==
    CASE proc = 1 -> Void
      [] proc \in {3, 4, 5, 6, 16, 17, 18, 19, 20} -> post_op_attr
      [] proc = 14 -> TupleType(<<wcc_data, wcc_data>>)
      [] proc = 15 -> TupleType(<<post_op_attr, wcc_data>>)
      [] OTHER -> wcc_data
RfcResults(call) ==
    IF call.prog = NFS /\ call.proc # 0
    THEN Result(NFSProgram[call.proc].results.arms[NFS3_OK], FailureBody(call.proc))
    ELSE IF call.prog = NFS THEN Void
    ELSE IF call.prog = MOUNT THEN MountProgram[call.proc].results
    ELSE PortmapProgram[call.proc].results

DecodedReply(n, bytes) ==
    Try(Deserialize(rpc_msg, bytes), LAMBDA m :
        LET body == m.v.body.body
        IN  IF m.v.body.arm # REPLY THEN Error
            ELSE IF body.arm = 0 /\ body.body.reply_data.arm = SUCCESS
            THEN Try(Deserialize(RfcResults(Exchanges[n].msg.body.body), m.rest), LAMBDA r :
                    [ok |-> TRUE, msg |-> m.v, results |-> r.v])
            ELSE [ok |-> TRUE, msg |-> m.v, results |-> <<>>])

-----------------------------------------------------------------------------
\* Do the bytes differ from record only in padding?  Padding is zero when it is
\* written, may be anything when it is read, and ends a word it does not begin.
UpToPadding(bytes, record) ==
    /\ Len(bytes) <= Len(record)
    /\ \A k \in DOMAIN bytes :
        bytes[k] = record[k] \/ /\ k % ALIGNMENT # 1
                                /\ \A j \in k .. k + padding_len(k) : bytes[j] = 0

(* The server decodes a call to what the client encoded.  A record cut     *)
(* short or changed is refused, or it is taken for the call whose encoding *)
(* it is: no part of it but padding is passed over.                        *)
CallsUnderstood ==
    \A i \in DOMAIN understood :
        LET u == understood[i]
            x == Exchanges[asked[i].call]
            args == IF u.args = <<>> THEN <<>>
                    ELSE Serialize(Route(0, u.msg.body.body).handler.args, u.args[1])
        IN  /\ Undamaged(asked[i].damage) =>
                   /\ u.ok = x.valid
                   /\ u.ok => u.msg = Msg(i, x) /\ (u.args # <<>> => u.args[1] = x.args)
            /\ u.ok => UpToPadding(Serialize(rpc_msg, u.msg) \o args, submitted[i])

(* A client can decode every reply to what the server meant, by the types  *)
(* of the protocol, and the replies come in the order of the calls.  The   *)
(* refusal of RENAME on a read-only file system is the exception.          *)
RepliesUnderstood ==
    \A i \in DOMAIN heard :
        LET x == Exchanges[asked[i].call]
            call == x.msg.body.body
        IN  Undamaged(asked[i].damage) /\ ~(x.readOnly /\ call.prog = NFS /\ call.proc = 14) =>
                /\ heard[i].ok
                /\ heard[i].msg = meant[i].msg
                /\ heard[i].msg.xid = Xid(i)
                /\ heard[i].results = meant[i].results

==============================================================================

----------------------------- MODULE RpcPipeline -----------------------------
(***************************************************************************)
(* The path of RPC messages through the server: accepted connections       *)
(* (tcp.rs), the four tasks each of them is served by, and the table of    *)
(* transactions they share.                                                *)
(*                                                                         *)
(*   client -net-> process_socket -pipe-> reader -queue-> worker           *)
(*   client <-out- process_socket <-replies- forwarder <-results- worker   *)
(*                                                                         *)
(* process_socket selects between the socket and the replies; the reader   *)
(* runs SocketMessageHandler::read; the worker is CommandQueue's task and  *)
(* runs process_rpc_command; the forwarder is the task spawned by          *)
(* SocketMessageHandler::new.  Each task ends when the channel it reads is *)
(* closed and drained, and closes the channel it writes.                   *)
(*                                                                         *)
(* A record is taken as a whole (RFC 5531 framing is not modelled here);   *)
(* the transaction table is the DuplicateRequestCache that                 *)
(* TransactionTracker implements, so it may forget completed calls         *)
(* whenever it is consulted.                                               *)
(***************************************************************************)
EXTENDS Integers, Sequences, FiniteSets

CONSTANTS
    Conns,      \* connections, in all the time the server runs
    AddrOf,     \* the client address (ip and port) each of them comes from
    Xids,       \* transaction ids; a client uses one for one call
    Kinds,      \* what may become of a call, a subset of AllKinds
    PipeCap,    \* capacity of the duplex stream, in records
    MaxSends,   \* bound on the records sent on one connection
    MaxForgets  \* bound on the completed calls forgotten

\* proc: a well-formed call.  badvers: rpcvers is not 2, or a program or version
\* the server does not have.  badargs: the handler cannot decode the arguments.
\* garbled: not an RPC call, or bad credentials.  oversize: longer than
\* MAX_RPC_RECORD_LENGTH.  panics: the handler panics.
AllKinds == {"proc", "badvers", "badargs", "garbled", "oversize", "panics"}

ASSUME PipelineAssumption ==
    /\ Kinds \subseteq AllKinds
    /\ PipeCap \in Nat \ {0}
    /\ MaxSends \in Nat
    /\ MaxForgets \in Nat

NoRecord == [pos |-> 0]

VARIABLES
    kindOf,     \* the kind of the call each xid stands for (never changes)
    sock,       \* process_socket: "unused", "open" or "done"
    hungup,     \* the client has closed the connection
    sent,       \* records sent so far
    net,        \* records on their way to the server
    writing,    \* the record process_socket is writing to the pipe
    pipe,       \* the duplex stream
    reader,     \* "running" or "ended"
    queue,      \* the command queue
    worker,     \* "idle", "executing", "ended", or "dead" after a panic
    cmd,        \* the command it executes
    results,    \* worker to forwarder
    forwarder,  \* "running" or "ended"
    replies,    \* forwarder to process_socket
    out,        \* replies the client received
    cache,      \* the transactions, by address and xid
    runs,       \* history: executions of each call
    forgotten,  \* history: how often each call was forgotten
    dropped     \* history: positions of the records dropped as in progress

socketVars == <<sock, hungup, sent, net, writing, out>>
readerVars == <<pipe, reader>>
workerVars == <<worker, cmd, cache, runs, forgotten, dropped>>
vars == <<kindOf, socketVars, readerVars, queue, workerVars, results, forwarder, replies>>

Keys == {AddrOf[c] : c \in Conns} \X Xids
KeyOf(c, r) == <<AddrOf[c], r.xid>>

Drc == INSTANCE DuplicateRequestCache WITH Responses <- Nat

\* A record carries its position in the stream of its connection, for the
\* properties about order.
Record == [pos : 1..MaxSends, xid : Xids]

\* CommandResult: Ok(Some(reply)), Ok(None) or Err.
ReplyTo(r, run) == [tag |-> "reply", pos |-> r.pos, xid |-> r.xid, run |-> run]
NoReply == [tag |-> "none"]
Failure == [tag |-> "err"]

Init ==
    /\ kindOf \in [Xids -> Kinds]
    /\ sock = [c \in Conns |-> "unused"]
    /\ hungup = [c \in Conns |-> FALSE]
    /\ sent = [c \in Conns |-> 0]
    /\ net = [c \in Conns |-> <<>>]
    /\ writing = [c \in Conns |-> NoRecord]
    /\ pipe = [c \in Conns |-> <<>>]
    /\ reader = [c \in Conns |-> "running"]
    /\ queue = [c \in Conns |-> <<>>]
    /\ worker = [c \in Conns |-> "idle"]
    /\ cmd = [c \in Conns |-> NoRecord]
    /\ results = [c \in Conns |-> <<>>]
    /\ forwarder = [c \in Conns |-> "running"]
    /\ replies = [c \in Conns |-> <<>>]
    /\ out = [c \in Conns |-> <<>>]
    /\ cache = [k \in Keys |-> Drc!Vacant]
    /\ runs = [k \in Keys |-> 0]
    /\ forgotten = [k \in Keys |-> 0]
    /\ dropped = [c \in Conns |-> {}]

------------------------------------------------------------------------------
(* The client and the network (external).                                  *)

(* handle_forever accepts a connection.  A client reuses its address only  *)
(* after it hung up; the tasks of the old connection may still be running. *)
Accept(c) ==
    /\ sock[c] = "unused"
    /\ \A d \in Conns \ {c} :
           AddrOf[d] = AddrOf[c] => sock[d] # "open" \/ hungup[d]
    /\ sock' = [sock EXCEPT ![c] = "open"]
    /\ UNCHANGED <<kindOf, hungup, sent, net, writing, out, readerVars, queue,
                   workerVars, results, forwarder, replies>>

(* The client sends a call, or sends it again.                             *)
Send(c, x) ==
    /\ sock[c] = "open"
    /\ ~hungup[c]
    /\ sent[c] < MaxSends
    /\ sent' = [sent EXCEPT ![c] = @ + 1]
    /\ net' = [net EXCEPT ![c] = Append(@, [pos |-> sent[c] + 1, xid |-> x])]
    /\ UNCHANGED <<kindOf, sock, hungup, writing, out, readerVars, queue,
                   workerVars, results, forwarder, replies>>

HangUp(c) ==
    /\ sock[c] = "open"
    /\ ~hungup[c]
    /\ hungup' = [hungup EXCEPT ![c] = TRUE]
    /\ UNCHANGED <<kindOf, sock, sent, net, writing, out, readerVars, queue,
                   workerVars, results, forwarder, replies>>

------------------------------------------------------------------------------
(* process_socket.                                                         *)

\* It waits in select!: it is not held up writing to the pipe.
Selecting(c) == sock[c] = "open" /\ writing[c] = NoRecord

\* It returns: socket, pipe and reply channel are closed, and what the socket
\* and the reply channel held is lost.
Close(c) ==
    /\ sock' = [sock EXCEPT ![c] = "done"]
    /\ net' = [net EXCEPT ![c] = <<>>]
    /\ replies' = [replies EXCEPT ![c] = <<>>]
    /\ UNCHANGED <<kindOf, hungup, sent, writing, out, readerVars, queue,
                   workerVars, results, forwarder>>

(* readable: Ok(n), and write_all starts.                                  *)
SocketRead(c) ==
    /\ Selecting(c)
    /\ net[c] # <<>>
    /\ writing' = [writing EXCEPT ![c] = Head(net[c])]
    /\ net' = [net EXCEPT ![c] = Tail(@)]
    /\ UNCHANGED <<kindOf, sock, hungup, sent, out, readerVars, queue,
                   workerVars, results, forwarder, replies>>

(* write_all ends: the pipe has room, or nobody reads it any more and the  *)
(* error is ignored.                                                       *)
SocketWrite(c) ==
    /\ sock[c] = "open"
    /\ writing[c] # NoRecord
    /\ \/ reader[c] = "running" /\ Len(pipe[c]) < PipeCap
          /\ pipe' = [pipe EXCEPT ![c] = Append(@, writing[c])]
       \/ reader[c] = "ended" /\ UNCHANGED pipe
    /\ writing' = [writing EXCEPT ![c] = NoRecord]
    /\ UNCHANGED <<kindOf, sock, hungup, sent, net, out, reader, queue,
                   workerVars, results, forwarder, replies>>

(* readable: Ok(0) when everything was read, an error at any time.         *)
SocketClosed(c) ==
    /\ Selecting(c)
    /\ hungup[c]
    /\ Close(c)

(* A reply: it is written to the socket; an error of the write is only     *)
(* logged.                                                                 *)
SendReply(c) ==
    /\ Selecting(c)
    /\ replies[c] # <<>>
    /\ Head(replies[c]).tag = "reply"
    /\ replies' = [replies EXCEPT ![c] = Tail(@)]
    /\ out' = [out EXCEPT ![c] = IF hungup[c] THEN @ ELSE Append(@, Head(replies[c]))]
    /\ UNCHANGED <<kindOf, sock, hungup, sent, net, writing, readerVars, queue,
                   workerVars, results, forwarder>>

(* An error, or the end of the replies: the connection is given up.        *)
GiveUp(c) ==
    /\ Selecting(c)
    /\ IF replies[c] # <<>> THEN Head(replies[c]) = Failure ELSE forwarder[c] = "ended"
    /\ Close(c)

------------------------------------------------------------------------------
(* The reader task.                                                        *)

\* The reader's loop breaks; the queue's sender and the pipe are dropped.
ReaderEnds(c) ==
    /\ reader' = [reader EXCEPT ![c] = "ended"]
    /\ pipe' = [pipe EXCEPT ![c] = <<>>]
    /\ UNCHANGED queue

(* read: a record is complete and is submitted, if it is not too long and  *)
(* the worker still receives.                                              *)
ReaderRead(c) ==
    /\ reader[c] = "running"
    /\ pipe[c] # <<>>
    /\ IF kindOf[Head(pipe[c]).xid] = "oversize" \/ worker[c] = "dead"
       THEN ReaderEnds(c)
       ELSE /\ queue' = [queue EXCEPT ![c] = Append(@, Head(pipe[c]))]
            /\ pipe' = [pipe EXCEPT ![c] = Tail(@)]
            /\ UNCHANGED reader
    /\ UNCHANGED <<kindOf, socketVars, workerVars, results, forwarder, replies>>

(* read_exact fails at the end of the stream.                              *)
ReaderEof(c) ==
    /\ reader[c] = "running"
    /\ pipe[c] = <<>>
    /\ sock[c] = "done"
    /\ ReaderEnds(c)
    /\ UNCHANGED <<kindOf, socketVars, workerVars, results, forwarder, replies>>

------------------------------------------------------------------------------
(* The worker task.                                                        *)

\* The command r is received.
Takes(c, r) ==
    /\ worker[c] = "idle"
    /\ queue[c] # <<>>
    /\ r = Head(queue[c])
    /\ queue' = [queue EXCEPT ![c] = Tail(@)]
    /\ UNCHANGED <<kindOf, socketVars, readerVars, forwarder, replies>>

\* The transaction table is consulted, and forgets the calls of S.
Consults(S) ==
    /\ S \subseteq Drc!Forgettable(cache)
    /\ \A k \in S : forgotten[k] < MaxForgets
    /\ forgotten' = [k \in Keys |-> IF k \in S THEN forgotten[k] + 1 ELSE forgotten[k]]

\* The table after a call is recorded, or cleared.
\* Mutant: the response is not kept.
NotRecorded(k, run) == [cache EXCEPT ![k] = Drc!Vacant]
Recorded(k, run) == [cache EXCEPT ![k] = Drc!Completed(run)]
\* Mutant: a failed call stays in progress.
NotCleared(k) == cache
Cleared(k) == [cache EXCEPT ![k] = Drc!Vacant]

\* Mutant: a new result overtakes the waiting ones.
SendsFirst(c, res) == results' = [results EXCEPT ![c] = <<res>> \o @]
SendsResult(c, res) == results' = [results EXCEPT ![c] = Append(@, res)]

(* handle_rpc fails before it consults the table.                          *)
TakeGarbled(c) ==
    \E r \in Record :
        /\ Takes(c, r)
        /\ kindOf[r.xid] = "garbled"
        /\ SendsResult(c, Failure)
        /\ UNCHANGED workerVars

(* handle_rpc finds the call completed: the response is sent again.        *)
TakeCompleted(c) ==
    \E r \in Record, S \in SUBSET Keys :
        /\ Takes(c, r)
        /\ kindOf[r.xid] # "garbled"
        /\ Consults(S)
        /\ KeyOf(c, r) \notin S
        /\ cache[KeyOf(c, r)].tag = "Completed"
        /\ cache' = Drc!Forget(cache, S)
        /\ SendsResult(c, ReplyTo(r, cache[KeyOf(c, r)].response))
        /\ UNCHANGED <<worker, cmd, runs, dropped>>

(* handle_rpc finds the call in progress: it is dropped.                   *)
TakeInProgress(c) ==
    \E r \in Record, S \in SUBSET Keys :
        /\ Takes(c, r)
        /\ kindOf[r.xid] # "garbled"
        /\ Consults(S)
        /\ cache[KeyOf(c, r)] = Drc!InProgress
        /\ cache' = Drc!Forget(cache, S)
        /\ SendsResult(c, NoReply)
        /\ dropped' = [dropped EXCEPT ![c] = @ \cup {r.pos}]
        /\ UNCHANGED <<worker, cmd, runs>>

(* handle_rpc finds the call new: it is claimed and dispatched.            *)
TakeNew(c) ==
    \E r \in Record, S \in SUBSET Keys :
        /\ Takes(c, r)
        /\ kindOf[r.xid] # "garbled"
        /\ Consults(S)
        /\ Drc!Forget(cache, S)[KeyOf(c, r)] = Drc!Vacant
        /\ cache' = [Drc!Forget(cache, S) EXCEPT ![KeyOf(c, r)] = Drc!InProgress]
        /\ worker' = [worker EXCEPT ![c] = "executing"]
        /\ cmd' = [cmd EXCEPT ![c] = r]
        /\ UNCHANGED <<results, runs, dropped>>

CmdKey(c) == KeyOf(c, cmd[c])
CmdKind(c) == kindOf[cmd[c].xid]

\* The worker is done with its command.
Returns(c) ==
    /\ worker' = [worker EXCEPT ![c] = "idle"]
    /\ cmd' = [cmd EXCEPT ![c] = NoRecord]
    /\ UNCHANGED <<kindOf, socketVars, readerVars, queue, forgotten, dropped,
                   forwarder, replies>>

(* The call is processed: its reply is recorded and sent.                  *)
Process(c) ==
    /\ worker[c] = "executing"
    /\ CmdKind(c) = "proc"
    /\ runs' = [runs EXCEPT ![CmdKey(c)] = @ + 1]
    /\ cache' = Recorded(CmdKey(c), runs[CmdKey(c)] + 1)
    /\ SendsResult(c, ReplyTo(cmd[c], runs[CmdKey(c)] + 1))
    /\ Returns(c)

(* The call is refused with a reply, which is recorded and sent too.       *)
Refuse(c) ==
    /\ worker[c] = "executing"
    /\ CmdKind(c) = "badvers"
    /\ cache' = Recorded(CmdKey(c), 0)
    /\ SendsResult(c, ReplyTo(cmd[c], 0))
    /\ UNCHANGED runs
    /\ Returns(c)

(* The handler fails on the arguments, before it had any effect.           *)
Fail(c) ==
    /\ worker[c] = "executing"
    /\ CmdKind(c) = "badargs"
    /\ cache' = Cleared(CmdKey(c))
    /\ SendsResult(c, Failure)
    /\ UNCHANGED runs
    /\ Returns(c)

(* The handler panics, with or without having had its effect: the task and *)
(* the commands in its queue are gone.                                     *)
Panic(c) ==
    /\ worker[c] = "executing"
    /\ CmdKind(c) = "panics"
    /\ \E e \in {0, 1} : runs' = [runs EXCEPT ![CmdKey(c)] = @ + e]
    /\ worker' = [worker EXCEPT ![c] = "dead"]
    /\ queue' = [queue EXCEPT ![c] = <<>>]
    /\ UNCHANGED <<kindOf, socketVars, readerVars, cmd, cache, forgotten, dropped,
                   results, forwarder, replies>>

(* The queue is drained and nobody can submit to it.                       *)
WorkerEnd(c) ==
    /\ worker[c] = "idle"
    /\ queue[c] = <<>>
    /\ reader[c] = "ended"
    /\ worker' = [worker EXCEPT ![c] = "ended"]
    /\ UNCHANGED <<kindOf, socketVars, readerVars, queue, cmd, cache, runs, forgotten,
                   dropped, results, forwarder, replies>>

------------------------------------------------------------------------------
(* The forwarder task.                                                     *)

\* Mutant: failures are not passed on.
PassesReplies(res) == res.tag = "reply"
\* Mutant: the absence of a reply is passed on as one.
PassesAll(res) == TRUE
PassesOn(res) == res # NoReply

(* A result is passed on; Ok(None) is nothing to send.  Nobody minds when  *)
(* process_socket is gone.                                                 *)
Forward(c) ==
    /\ forwarder[c] = "running"
    /\ results[c] # <<>>
    /\ results' = [results EXCEPT ![c] = Tail(@)]
    /\ replies' = [replies EXCEPT ![c] =
           IF PassesOn(Head(results[c])) /\ sock[c] # "done"
           THEN Append(@, Head(results[c])) ELSE @]
    /\ UNCHANGED <<kindOf, socketVars, readerVars, queue, workerVars, forwarder>>

\* Mutant: the end of the channel is not seen after a panic.
SenderGoneQuietly(c) == worker[c] = "ended"
SenderGone(c) == worker[c] \in {"ended", "dead"}

ForwarderEnd(c) ==
    /\ forwarder[c] = "running"
    /\ results[c] = <<>>
    /\ SenderGone(c)
    /\ forwarder' = [forwarder EXCEPT ![c] = "ended"]
    /\ UNCHANGED <<kindOf, socketVars, readerVars, queue, workerVars, results, replies>>

------------------------------------------------------------------------------
Socket(c) ==
    SocketRead(c) \/ SocketWrite(c) \/ SocketClosed(c) \/ SendReply(c) \/ GiveUp(c)
Reader(c) == ReaderRead(c) \/ ReaderEof(c)
Worker(c) ==
    \/ TakeGarbled(c) \/ TakeCompleted(c) \/ TakeInProgress(c) \/ TakeNew(c)
    \/ Process(c) \/ Refuse(c) \/ Fail(c) \/ Panic(c) \/ WorkerEnd(c)
Forwarder(c) == Forward(c) \/ ForwarderEnd(c)

Next ==
    \E c \in Conns :
        \/ Accept(c)
        \/ \E x \in Xids : Send(c, x)
        \/ HangUp(c)
        \/ Socket(c)
        \/ Reader(c)
        \/ Worker(c)
        \/ Forwarder(c)

Spec == Init /\ [][Next]_vars

\* The runtime polls every task that can proceed, and handlers return.
Fairness ==
    \A c \in Conns :
        WF_vars(Socket(c)) /\ WF_vars(Reader(c)) /\ WF_vars(Worker(c)) /\ WF_vars(Forwarder(c))
FairSpec == Spec /\ Fairness

------------------------------------------------------------------------------
Results == [tag : {"reply"}, pos : 1..MaxSends, xid : Xids, run : Nat]
               \cup {NoReply, Failure}

(* Every variable has its type.                                            *)
TypeOK ==
    /\ kindOf \in [Xids -> Kinds]
    /\ sock \in [Conns -> {"unused", "open", "done"}]
    /\ hungup \in [Conns -> BOOLEAN]
    /\ sent \in [Conns -> 0..MaxSends]
    /\ net \in [Conns -> Seq(Record)]
    /\ writing \in [Conns -> Record \cup {NoRecord}]
    /\ pipe \in [Conns -> Seq(Record)]
    /\ reader \in [Conns -> {"running", "ended"}]
    /\ queue \in [Conns -> Seq(Record)]
    /\ worker \in [Conns -> {"idle", "executing", "ended", "dead"}]
    /\ cmd \in [Conns -> Record \cup {NoRecord}]
    /\ results \in [Conns -> Seq(Results)]
    /\ forwarder \in [Conns -> {"running", "ended"}]
    /\ replies \in [Conns -> Seq(Results \ {NoReply})]
    /\ out \in [Conns -> Seq(Results \ {NoReply, Failure})]
    /\ cache \in [Keys -> Drc!Entries]
    /\ runs \in [Keys -> Nat]
    /\ forgotten \in [Keys -> 0..MaxForgets]
    /\ dropped \in [Conns -> SUBSET (1..MaxSends)]

(* At-most-once: however often and on whatever connections a client sends  *)
(* a call, and whatever becomes of the replies, its handler runs once, and *)
(* once more only for each time the table has forgotten the call.          *)
AtMostOnce == \A k \in Keys : runs[k] <= 1 + forgotten[k]

(* An execution is never lost: as long as the table has not forgotten it,  *)
(* a call that was executed can be answered from the table, whether or not *)
(* its connection is still there.  Only a panic leaves it unanswerable.    *)
ExecutedIsReplayable ==
    \A k \in Keys :
        runs[k] > forgotten[k] =>
            \/ cache[k] = Drc!Completed(runs[k])
            \/ kindOf[k[2]] = "panics"

(* Replies leave a connection in the order its calls arrived, and each     *)
(* call gets at most one, although three tasks and four channels lie       *)
(* between the call and the reply.                                         *)
RepliesInOrder ==
    \A c \in Conns : \A i, j \in DOMAIN out[c] : i < j => out[c][i].pos < out[c][j].pos

(* Two replies to one call, on one connection or on two, are the same      *)
(* reply unless the call was forgotten in between.                         *)
SameReply ==
    \A c, d \in Conns : \A i \in DOMAIN out[c], j \in DOMAIN out[d] :
        /\ KeyOf(c, out[c][i]) = KeyOf(d, out[d][j])
        /\ forgotten[KeyOf(c, out[c][i])] = 0
        => out[c][i].run = out[d][j].run

(* A retransmission is dropped only while another connection of the client *)
(* is executing the call (or died executing it): on one connection, where  *)
(* commands are executed one after the other, it is always answered.       *)
DropExplained ==
    \A c \in Conns :
        dropped'[c] # dropped[c] =>
            \E d \in Conns \ {c} :
                /\ worker[d] \in {"executing", "dead"}
                /\ CmdKey(d) = KeyOf(c, Head(queue[c]))
DroppedOnlyElsewhere == [][DropExplained]_vars

(* A call in the queue is replied to, unless the client hangs up, the call *)
(* is dropped as in progress on another connection, or the connection is   *)
(* closed because of a failure: no call leaves a client waiting on a       *)
(* connection that stays open.                                             *)
Served ==
    \A c \in Conns, p \in 1..MaxSends :
        (\E i \in DOMAIN queue[c] : queue[c][i].pos = p) ~>
            \/ \E i \in DOMAIN out[c] : out[c][i].pos = p
            \/ p \in dropped[c]
            \/ hungup[c]
            \/ sock[c] = "done"

(* When the client hangs up, all four tasks of its connection end: none    *)
(* waits for another for ever.                                             *)
TasksEnd ==
    \A c \in Conns :
        hungup[c] ~> /\ sock[c] = "done"
                     /\ reader[c] = "ended"
                     /\ worker[c] \in {"ended", "dead"}
                     /\ forwarder[c] = "ended"
==============================================================================

----------------------------- MODULE WireExchanges -----------------------------
(***************************************************************************)
(* Calls a client makes, each with what the file system would answer: all  *)
(* procedures of the three programs with values of their arguments and     *)
(* results that differ from the default in one place, calls that reach no  *)
(* procedure, and messages that are no calls.                              *)
(***************************************************************************)
EXTENDS RpcPrograms

NoCred == [flavor |-> AUTH_NULL, body |-> <<>>]
Unix(body) == [flavor |-> AUTH_UNIX, body |-> body]
Call(rpcvers, prog, vers, proc, cred) ==
    Message(0, [arm |-> CALL, body |-> [rpcvers |-> rpcvers, prog |-> prog, vers |-> vers,
                                        proc |-> proc, cred |-> cred, verf |-> NoCred]])

\* Results: all values for success, and the default for some errors.
SomeErrors == <<2, 13, 10004, 10006>>
AnswersOf(t) ==
    CASE t.kind = "enum" -> <<0>>
      [] t.kind = "union" ->
            Map(LAMBDA v : [arm |-> 0, body |-> v], Samples(t.arms[0]))
            \o Map(LAMBDA s : [arm |-> s, body |-> Default(t.arms[s])], SomeErrors)
      [] OTHER -> Samples(t)

Exchange(msg, type, args, answer, ro) ==
    [msg |-> msg, type |-> type, args |-> args, answer |-> answer, readOnly |-> ro, valid |-> TRUE]

ExchangesOf(prog, vers, proc, h) ==
    LET msg == Call(2, prog, vers, proc, NoCred)
        results == AnswersOf(h.results)
        args == Samples(h.args)
    IN  Map(LAMBDA a : Exchange(msg, h.args, a, results[1], FALSE), args)
        \o Map(LAMBDA r : Exchange(msg, h.args, args[1], r, FALSE), Tail(results))
        \o (IF h.writes THEN <<Exchange(msg, h.args, args[1], results[1], TRUE)>> ELSE <<>>)

RECURSIVE Concat(_)
Concat(ss) == IF ss = <<>> THEN <<>> ELSE ss[1] \o Concat(Tail(ss))

ProgramExchanges(prog, vers, procs) ==
    Concat(Map(LAMBDA p : ExchangesOf(prog, vers, p, procs[p]), Ascending(DOMAIN procs)))

Null(msg) == Exchange(msg, Void, <<>>, <<>>, FALSE)
Misdirected ==
    <<Null(Call(3, NFS, 3, 0, NoCred)), Null(Call(2, NFS, 4, 0, NoCred)),
      Null(Call(2, PORTMAP, 3, 0, NoCred)), Null(Call(2, MOUNT, 1, 0, NoCred)),
      Null(Call(2, NFS, 3, 22, NoCred)), Null(Call(2, MOUNT, 3, 2, NoCred)),
      Null(Call(2, PORTMAP, 2, 5, NoCred)), Null(Call(2, 100227, 3, 0, NoCred)),
      Null(Call(2, NFS, 3, 0, [flavor |-> 2, body |-> <<3>>]))>>
    \o Map(LAMBDA a : Null(Call(2, NFS, 3, 0, Unix(Serialize(auth_unix, a)))), Samples(auth_unix))
NotCalls ==
    <<[Null(Call(2, NFS, 3, 0, Unix(<<3>>))) EXCEPT !.valid = FALSE],
      [Null(make_success_reply(0)) EXCEPT !.valid = FALSE]>>

Exchanges ==
    NotCalls \o Misdirected \o ProgramExchanges(MOUNT, 3, MountProgram)
    \o ProgramExchanges(PORTMAP, 2, PortmapProgram) \o ProgramExchanges(NFS, 3, NFSProgram)

\* Those whose record a client may damage: the first of each kind of call, and
\* the SETATTRs, which have options and unions.
Damaged ==
    {i \in DOMAIN Exchanges :
        \/ i > Len(NotCalls \o Misdirected) /\ Exchanges[i].msg # Exchanges[i - 1].msg
        \/ /\ Exchanges[i].valid
           /\ Exchanges[i].msg.body.body.prog = NFS /\ Exchanges[i].msg.body.body.proc = 2
           /\ ~Exchanges[i].readOnly
           /\ Exchanges[i].answer = Default(nfsproc3_setattr.results)}

\* Those it may send in several fragments, and after each other: a message that
\* is no call, one with credentials, and the first of the mount program.
Split == {2, 14, 3 + Len(Misdirected)}
==============================================================================

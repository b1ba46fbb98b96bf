------------------------------- MODULE MCServer -------------------------------
(* Small instances of Server: what may happen in one behaviour.            *)
EXTENDS Server, TLC

A == <<"a">>
B == <<"b">>
D == <<"d">>
Flat == (<<>> :> "NF3DIR") @@ (<<A>> :> "NF3REG") @@ (<<B>> :> "NF3REG")
Nested == (<<>> :> "NF3DIR") @@ (<<A>> :> "NF3REG") @@ (<<D>> :> "NF3DIR") @@ (<<D, A>> :> "NF3REG")

Mode(o, g, t) == [owner |-> o, group |-> g, other |-> t]
Usual == Mode({"r", "w"}, {"r"}, {})
Others == Mode({"r"}, {}, {"r", "w"})

User(u, g, gs) == [uid |-> u, gid |-> g, gids |-> gs]
Superuser == User(0, 0, {})
Users == {Superuser, User(1, 1, {}), User(2, 1, {}), User(2, 2, {1}), User(2, 2, {})}

ManyNames == {<<>>, <<"x">>, <<"/", "x", "/">>, <<"x", "/", "d">>, <<"x", "/", "/", "d">>}
ManyPaths == {
    <<>>, <<"/">>, <<"/", "/">>, <<"x">>, <<"/", "x">>, <<"/", "x", "/">>,
    <<"/", "/", "x">>, <<"/", "x", "a">>, <<"/", "x", "/", "a">>, <<"/", "x", "/", "b">>,
    <<"/", "x", "/", "/", "d", "/", "a", "/">>, <<"/", "x", "/", "c">>,
    <<"/", "x", "/", "a", "/", "a">>, <<"/", "d", "/", "a">>, <<"/", "x", "/", "d">>,
    <<"/", "x", "/", ".", ".">>}

Mapping(prot, port) == [prog |-> 100003, vers |-> 3, prot |-> prot, port |-> port]

\* A server that nothing happens to, with one file handle of full length.
Quiet == [calls |-> {}, max_calls |-> 3, max_starts |-> 1, paths |-> {}, export |-> with_export_name(<<"x">>),
          tree |-> Flat, auths |-> {Superuser}, modes |-> {Usual}, lens |-> {16}, mappings |-> {}, events |-> {},
          listeners |-> {"none"}, stops |-> {},
          source_ports |-> {1023, 1024}, require_privileged_source_port |-> TRUE]

\* Clients mount all kinds of paths, of any export.
Mounting ==
    {[Quiet EXCEPT !.calls = {"MNT"}, !.max_calls = 2, !.tree = Nested, !.export = e,
                   !.require_privileged_source_port = FALSE, !.paths = ManyPaths] : e \in Exports}
\* The mount signal, received, dropped, or neither.
Signalling ==
    {[Quiet EXCEPT !.calls = {"MNT", "UMNT", "UMNTALL"}, !.max_calls = 5,
                   !.paths = {<<"/", "x">>, <<"x">>},
                   !.listeners = {"none", "receiving"}, !.stops = {"stalled", "dropped"}]}
\* The server, or the host, goes down and starts again.
Restarting ==
    {[Quiet EXCEPT !.calls = {"MNT", "WRITE"}, !.paths = {<<"/", "x", "/", "a">>, <<"/", "x", "/", "b">>},
                   !.events = {"tick", "crash", "hostcrash"}, !.max_starts = 2]}
\* The host fails to write.
Failing ==
    {[Quiet EXCEPT !.calls = {"MNT", "WRITE"}, !.max_calls = 4, !.max_starts = 2, !.paths = {<<"/", "x", "/", "a">>},
                   !.events = {"hostcrash", "write", "sync", "metadata"}]}
\* Users, modes that change, and handles cut short.
Sharing ==
    {[Quiet EXCEPT !.calls = {"MNT", "WRITE", "ACCESS"}, !.paths = {<<"/", "x", "/", "a">>},
                   !.tree = (<<>> :> "NF3DIR") @@ (<<A>> :> "NF3REG"),
                   !.auths = Users, !.modes = {Usual, Others}, !.lens = {8, 16}]}
\* Ports of two transports and one that is neither, and a port beyond 16 bits.
Registering ==
    {[Quiet EXCEPT !.calls = {"SET", "UNSET", "GETPORT", "DUMP"}, !.max_calls = 4, !.events = {"crash"}, !.max_starts = 2,
                   !.mappings = {Mapping(6, 2049), Mapping(17, 65537), Mapping(1, 2049)}]}

All == Mounting \cup Signalling \cup Restarting \cup Failing \cup Sharing \cup Registering
==============================================================================

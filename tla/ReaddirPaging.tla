----------------------------- MODULE ReaddirPaging -----------------------------
(***************************************************************************)
(* READDIR and READDIRPLUS (src/protocol/nfs/v3/readdir.rs and             *)
(* readdirplus.rs) over readdir_index of src/vfs.rs and MirrorFS::readdir: *)
(* a client lists a directory page by page while the directory changes.    *)
(*                                                                         *)
(* A cookie is the index of an entry in the listing; the verifier sent     *)
(* with it is the mtime of the directory, and 0 the client's first.  The   *)
(* handler awaits twice, for the attributes and for the entries: the       *)
(* directory may change in between.  getattr may fail: the handler goes on *)
(* with the verifier 0.  Two changes within the resolution of the host's   *)
(* clock leave the directory the same mtime, the mtime may be 0, and       *)
(* utimes, or a clock that is set back, brings an earlier one.  The bytes  *)
(* an answer takes are abstracted to the number of entries there is room   *)
(* for.  Calls that check_access or readdir fail are left out: they are    *)
(* answered with an error and made again.                                  *)
(***************************************************************************)
EXTENDS Integers, Sequences, FiniteSets

CONSTANTS
    Names,          \* the interned names, in the order they are listed
    DirCounts,      \* dircount of a request
    Rooms,          \* the number of entries an answer has room for
    Times,          \* the mtimes the directory may have
    MaxChanges,     \* bound on the changes to the directory
    MaxFailures     \* bound on the failures of getattr

ASSUME PagingAssumption ==
    /\ Names \subseteq Nat \ {0} /\ IsFiniteSet(Names)
    /\ DirCounts \subseteq Nat
    /\ Rooms \subseteq Nat
    /\ Times \subseteq Nat
    /\ MaxChanges \in Nat
    /\ MaxFailures \in Nat

VARIABLES
    dir,        \* the names in the directory
    past,       \* history: what the directory held, and its mtime, up to now
    client,     \* the listing: the cookie and the verifier to go on with
    server,     \* the request that is being handled
    failures    \* number of calls of getattr that failed

vars == <<dir, past, client, server, failures>>

mtime == past[Len(past)].mtime
NoVersion == 0

\* The listing of the names of S: two entries for the directory and its parent
\* come first.
Dot == -1
DotDot == 0
Before(n, S) == {x \in S : x < n}
InOrder(S) ==
    [k \in 1..Cardinality(S) |-> CHOOSE n \in S : Cardinality(Before(n, S)) = k - 1]
Listing(S) == <<Dot, DotDot>> \o InOrder(S)

\* A listing from the start: began is when it began, got has what it has, page
\* is the length of the last page, and blind says that one had no version.
Begin == [at |-> "ask", cookie |-> 0, verf |-> NoVersion, got |-> <<>>, began |-> 0, page |-> 0,
          larger |-> FALSE, blind |-> FALSE]
Idle == [at |-> "idle"]

Init ==
    /\ dir \in SUBSET Names
    /\ \E t \in Times : past = <<[dir |-> dir, mtime |-> t]>>
    /\ client = Begin
    /\ server = Idle
    /\ failures = 0

------------------------------------------------------------------------------
(* Others add and remove names (external).                                 *)
Change ==
    /\ Len(past) <= MaxChanges
    /\ \E n \in Names : dir' = (dir \ {n}) \cup ({n} \ dir)
    /\ \E t \in Times : past' = Append(past, [dir |-> dir', mtime |-> t])
    /\ UNCHANGED <<client, server, failures>>

(* The client asks for the next page, with room for at least one entry if  *)
(* the last answer had none (external).                                    *)
Ask ==
    /\ client.at = "ask"
    /\ client' = [client EXCEPT !.at = "wait", !.began = IF @ = 0 THEN Len(past) ELSE @]
    /\ \E dircount \in DirCounts, room \in IF client.larger THEN Rooms \ {0} ELSE Rooms :
           server' = [at |-> "stat", cookie |-> client.cookie, verf |-> client.verf,
                      attr |-> FALSE, dircount |-> dircount, room |-> room]
    /\ UNCHANGED <<dir, past, failures>>

------------------------------------------------------------------------------
\* The answers.  attr: does it have the directory's attributes?
Entries(entries, eof, version) ==
    [at |-> "answer", stat |-> "OK", entries |-> entries, eof |-> eof, verf |-> version]
Refusal(stat, attr) == [at |-> "answer", stat |-> stat, attr |-> attr]

(* getattr, which may fail, and the check of the verifier.                 *)
\* Mutant: a verifier of another version is accepted.
StatUnchecked ==
    /\ server.at = "stat"
    /\ server' = [server EXCEPT !.at = "list", !.verf = mtime, !.attr = TRUE]
    /\ UNCHANGED <<dir, past, client, failures>>
Checked(version, attr) ==
    IF server.verf # NoVersion /\ server.verf # version
    THEN Refusal("BAD_COOKIE", attr)
    ELSE [server EXCEPT !.at = "list", !.verf = version, !.attr = attr]
Stat ==
    /\ server.at = "stat"
    /\ \/ server' = Checked(mtime, TRUE) /\ UNCHANGED failures
       \/ /\ failures < MaxFailures
          /\ failures' = failures + 1
          /\ server' = Checked(NoVersion, FALSE)
    /\ UNCHANGED <<dir, past, client>>

(* How many entries are asked of the file system.                          *)
\* Mutant: dircount is divided, and that is all.
AtMost(dircount) == dircount \div 16
MaxResults(dircount) == IF dircount \div 16 = 0 THEN 1 ELSE dircount \div 16

(* MirrorFS::readdir from the start: at least one entry, whatever the      *)
(* limit, and whether that is all.                                         *)
readdir(all, limit) ==
    LET n == IF limit < 1 THEN 1 ELSE IF limit < Len(all) THEN limit ELSE Len(all)
    IN  [entries |-> SubSeq(all, 1, n), end |-> n = Len(all)]

(* readdir_index: the entries from start on.                               *)
OutOfRange(r, start) ==
    start > Len(r.entries) \/ (start = Len(r.entries) /\ ~r.end)
\* Mutant: the entry before is sent again.
FromLast(r, start) ==
    SubSeq(r.entries, IF start = 0 THEN 1 ELSE start, Len(r.entries))
From(r, start) == SubSeq(r.entries, start + 1, Len(r.entries))

(* The entries that fit are sent; the rest is for the next page.           *)
Fitting(entries, room) == SubSeq(entries, 1, IF room < Len(entries) THEN room ELSE Len(entries))
\* Mutant: the end of the directory is the end of what was asked for.
PageEnds(entries, end, q) ==
    IF entries # <<>> /\ q.room = 0 THEN Refusal("TOOSMALL", q.attr)
    ELSE Entries(Fitting(entries, q.room), end, q.verf)
Page(entries, end, q) ==
    IF entries # <<>> /\ q.room = 0 THEN Refusal("TOOSMALL", q.attr)
    ELSE Entries(Fitting(entries, q.room), end /\ q.room >= Len(entries), q.verf)
ListPage(all, q) ==
    LET r == readdir(all, q.cookie + MaxResults(q.dircount))
    IN  IF OutOfRange(r, q.cookie) THEN Refusal("BAD_COOKIE", q.attr)
        ELSE Page(From(r, q.cookie), r.end, q)
List ==
    /\ server.at = "list"
    /\ server' = ListPage(Listing(dir), server)
    /\ UNCHANGED <<dir, past, client, failures>>

------------------------------------------------------------------------------
(* The client takes a page, and asks for the next one with the cookie of   *)
(* the last entry; it begins again when the cookie is refused, and asks    *)
(* again when the answer had no room for an entry (external).              *)
Take ==
    /\ server.at = "answer"
    /\ server.stat = "OK"
    /\ client' = [client EXCEPT
                     !.at = IF server.eof THEN "done" ELSE "ask",
                     !.got = @ \o server.entries,
                     !.page = Len(server.entries),
                     !.cookie = @ + Len(server.entries),
                     !.verf = server.verf,
                     !.blind = @ \/ server.verf = NoVersion,
                     !.larger = FALSE]
    /\ server' = Idle
    /\ UNCHANGED <<dir, past, failures>>
Restart ==
    /\ server.at = "answer"
    /\ server.stat = "BAD_COOKIE"
    /\ client' = Begin
    /\ server' = Idle
    /\ UNCHANGED <<dir, past, failures>>
Enlarge ==
    /\ server.at = "answer"
    /\ server.stat = "TOOSMALL"
    /\ client' = [client EXCEPT !.at = "ask", !.larger = TRUE]
    /\ server' = Idle
    /\ UNCHANGED <<dir, past, failures>>

Next == Change \/ Ask \/ Stat \/ List \/ Take \/ Restart \/ Enlarge

\* The client goes on asking and taking answers, and a handler ends: tokio
\* polls every task that is ready, and the file system's calls return.
Fairness == WF_vars(Ask) /\ WF_vars(Stat) /\ WF_vars(List)
    /\ WF_vars(Take) /\ WF_vars(Restart) /\ WF_vars(Enlarge)

Spec == Init /\ [][Next]_vars
FairSpec == Spec /\ Fairness

------------------------------------------------------------------------------
Quiet == client.began = Len(past)
Finished == client.at = "done"

(* The listing and the request have their types: the client never has more *)
(* entries than the directory can hold.                                    *)
TypeOK ==
    /\ dir \subseteq Names
    /\ past[Len(past)].dir = dir
    /\ client.at \in {"ask", "wait", "done"}
    /\ client.cookie = Len(client.got)
    /\ Len(client.got) <= Cardinality(Names) + 2
    /\ client.verf \in Times \cup {NoVersion}
    /\ server.at \in {"idle", "stat", "list", "answer"}
    /\ client.at = "wait" <=> server.at # "idle"
    /\ failures \in 0..MaxFailures

(* However the directory changes under a listing, the pages before the     *)
(* last fit together: they are the beginning of the directory as it was at *)
(* one moment, the one whose verifier the client holds.  The verifier is   *)
(* an mtime: this is so only while no two versions share it, and if no     *)
(* page came with 0, which the handler takes for none, because that is the *)
(* directory's mtime or because getattr failed.                            *)
PagesFit ==
    LET before == Len(client.got) - client.page
        versions == {i \in DOMAIN past : past[i].mtime = client.verf}
    IN  ~client.blind /\ Cardinality(versions) = 1
        => \A i \in versions :
                 SubSeq(client.got, 1, before) = SubSeq(Listing(past[i].dir), 1, before)

(* A listing during which nothing changed has every entry once, in order,  *)
(* whatever the sizes of the pages, also where the directory's mtime is 0  *)
(* or getattr fails, and a cookie of it is refused only if getattr failed. *)
QuietListing ==
    Quiet => /\ Finished => client.got = Listing(dir)
             /\ server.at = "answer" /\ server.stat = "BAD_COOKIE" => ~server.attr

(* A listing ends once the directory is left alone: refused cookies and    *)
(* small pages do not keep a client going for ever.                        *)
ListingEnds == <>Finished
==============================================================================

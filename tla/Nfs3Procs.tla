------------------------------- MODULE Nfs3Procs -------------------------------
(***************************************************************************)
(* The NFSv3 procedures (src/protocol/nfs/v3): what each handler asks of   *)
(* the file system, in which order, and what it answers.                   *)
(*                                                                         *)
(* A handler awaits every call of the file system: between two of them     *)
(* the handlers of other connections run.  One step here is one such call. *)
(* The calls are those of as many connections: the handlers of one run one *)
(* after the other (CommandQueue).  Every handler has the same shape:      *)
(*                                                                         *)
(*   Start    the capabilities, the arguments, the file handles            *)
(*   Stat     the attributes of the objects before the operation           *)
(*   Access   the permissions                                              *)
(*   Look     the name, for CREATE, RMDIR and LOOKUP                       *)
(*   Check    the type of what has the name, for RMDIR                     *)
(*   Act      the operation                                                *)
(*   Post     the attributes after the operation                           *)
(*   Set      the attributes of what was made or found, for MKDIR, CREATE  *)
(*                                                                         *)
(* READDIR and READDIRPLUS have a module of their own.                     *)
(***************************************************************************)
EXTENDS Vfs

CONSTANTS
    Calls,      \* the calls, each made once
    Requests,   \* what a call may ask for
    InitialFs   \* what the file system may be at the start

\* The procedures whose argument is a directory, and those with a file.
DirProcs == {"LOOKUP", "CREATE", "MKDIR", "SYMLINK", "MKNOD", "LINK", "REMOVE", "RMDIR", "RENAME"}
FileProcs == {"GETATTR", "SETATTR", "ACCESS", "READLINK", "READ", "WRITE", "COMMIT",
              "FSSTAT", "FSINFO", "PATHCONF"}
\* What may be asked of f: the directories a call names are directories of the export.
Askable(r, f) ==
    /\ r.proc \in DirProcs \cup FileProcs
    /\ r.proc \in DirProcs => r.d \in DOMAIN f.dir
    /\ r.proc = "RENAME" => r.to \in DOMAIN f.dir
    /\ r.proc = "CREATE" => r.how \in {"UNCHECKED", "GUARDED", "EXCLUSIVE"}
    /\ r.proc \in {"SETATTR", "MKDIR", "CREATE"} => r.set \subseteq Settable

ASSUME ProcsAssumption ==
    \A f \in InitialFs : FileSystem(f) /\ \A r \in Requests : Askable(r, f)

VARIABLES
    fs,         \* the file system
    cap,        \* its capabilities
    call        \* the calls: the request, where the handler is, what it knows

vars == <<fs, cap, call>>

------------------------------------------------------------------------------
(* The procedures: what sets a handler apart from the others.              *)
(*   writes   it refuses when the file system is read-only                 *)
(*   objects  the objects whose attributes it gets and answers             *)
(*   stat     it fails without these ("must"), does not care ("may"), or   *)
(*            gets none ("no")                                             *)
(*   access   it asks for permission                                       *)
(*   look     it looks up the name first                                   *)
(*   op       its call of the file system, as it would come out now, if    *)
(*            the host grants to set what is in can                        *)
(*   post     it gets the attributes again, whatever came out ("always"),  *)
(*            if op fails ("failed"), or has them from op ("no")           *)

InDir(r, look, op) ==
    [writes |-> TRUE, objects |-> <<r.d>>, stat |-> "must", access |-> TRUE,
     look |-> look, op |-> op, post |-> "always"]
OnFile(r, writes, stat, access, op, post) ==
    [writes |-> writes, objects |-> <<r.id>>, stat |-> stat, access |-> access,
     look |-> FALSE, op |-> op, post |-> post]

\* Mutant: no CREATE looks up the name.
nfsproc3_create_blindly(r, can) ==
    InDir(r, FALSE, IF r.how = "EXCLUSIVE" THEN create_exclusive(fs, r.d, r.n)
                    ELSE create(fs, r.d, r.n, r.set, can))
nfsproc3_create(r, can) ==
    InDir(r, r.how \in {"UNCHECKED", "GUARDED"},
          IF r.how = "EXCLUSIVE" THEN create_exclusive(fs, r.d, r.n)
          ELSE create(fs, r.d, r.n, r.set, can))
nfsproc3_mkdir(r) == InDir(r, FALSE, make(fs, r.d, r.n, "dir"))
nfsproc3_symlink(r) == InDir(r, FALSE, make(fs, r.d, r.n, "lnk"))
nfsproc3_mknod(r) == InDir(r, FALSE, make(fs, r.d, r.n, "node"))
nfsproc3_link(r) == InDir(r, FALSE, link(fs, r.id, r.d, r.n))
nfsproc3_remove(r) == InDir(r, FALSE, remove(fs, r.d, r.n))
nfsproc3_rmdir(r) == InDir(r, TRUE, remove(fs, r.d, r.n))
nfsproc3_rename(r) ==
    [InDir(r, FALSE, rename(fs, r.d, r.n, r.to, r.as)) EXCEPT !.objects = <<r.d, r.to>>]
\* Mutant: SETATTR does not look at the capabilities.
nfsproc3_setattr_anyway(r, can) ==
    OnFile(r, FALSE, "must", "size" \in r.set, setattr(fs, r.id, r.set, can), "no")
nfsproc3_setattr(r, can) ==
    OnFile(r, TRUE, "must", "size" \in r.set, setattr(fs, r.id, r.set, can), "no")
nfsproc3_write(r) == OnFile(r, TRUE, "may", TRUE, write(fs, r.id), "no")
nfsproc3_read(r) == OnFile(r, FALSE, "may", TRUE, consult(fs, r.id, {"reg"}), "no")
nfsproc3_readlink(r) == OnFile(r, FALSE, "must", FALSE, consult(fs, r.id, {"lnk"}), "no")
nfsproc3_access(r) == OnFile(r, FALSE, "must", TRUE, consult(fs, r.id, AnyType), "no")
nfsproc3_getattr(r) == OnFile(r, FALSE, "must", FALSE, consult(fs, r.id, AnyType), "no")
nfsproc3_pathconf(r) == OnFile(r, FALSE, "may", FALSE, consult(fs, r.id, AnyType), "no")
nfsproc3_commit(r) == OnFile(r, FALSE, "may", FALSE, consult(fs, r.id, AnyType), "failed")
nfsproc3_fsstat(r) == OnFile(r, FALSE, "no", FALSE, Ok(fs, r.id), "failed")
nfsproc3_fsinfo(r) == OnFile(r, FALSE, "no", FALSE, Ok(fs, r.id), "no")
nfsproc3_lookup(r) ==
    [InDir(r, TRUE, lookup(fs, r.d, r.n)) EXCEPT !.writes = FALSE, !.stat = "may"]

handle_nfs(r, can) ==
    CASE r.proc = "GETATTR" -> nfsproc3_getattr(r)
      [] r.proc = "LOOKUP" -> nfsproc3_lookup(r)
      [] r.proc = "READ" -> nfsproc3_read(r)
      [] r.proc = "FSINFO" -> nfsproc3_fsinfo(r)
      [] r.proc = "ACCESS" -> nfsproc3_access(r)
      [] r.proc = "PATHCONF" -> nfsproc3_pathconf(r)
      [] r.proc = "FSSTAT" -> nfsproc3_fsstat(r)
      [] r.proc = "WRITE" -> nfsproc3_write(r)
      [] r.proc = "CREATE" -> nfsproc3_create(r, can)
      [] r.proc = "SETATTR" -> nfsproc3_setattr(r, can)
      [] r.proc = "REMOVE" -> nfsproc3_remove(r)
      [] r.proc = "RMDIR" -> nfsproc3_rmdir(r)
      [] r.proc = "RENAME" -> nfsproc3_rename(r)
      [] r.proc = "MKDIR" -> nfsproc3_mkdir(r)
      [] r.proc = "SYMLINK" -> nfsproc3_symlink(r)
      [] r.proc = "READLINK" -> nfsproc3_readlink(r)
      [] r.proc = "MKNOD" -> nfsproc3_mknod(r)
      [] r.proc = "LINK" -> nfsproc3_link(r)
      [] r.proc = "COMMIT" -> nfsproc3_commit(r)

\* A handler, but for its call of the file system.
Handler(r) == handle_nfs(r, Settable)
Objects(r) == Handler(r).objects

------------------------------------------------------------------------------
(* A call that has come to at.  pre and post are the attributes before and *)
(* after, one for each object; id is the file looked up, made or read;     *)
(* stat what is to be answered; wcc the pairs of attributes answered.      *)
(* Some fields only serve the properties:                                  *)
(*   own      the changes the call made to its first object                *)
(*   op, set  what came of the operation, and of setattr after or instead: *)
(*            "none" while it was not called, "ok" or "failed"             *)
(*   lost     what was to be set and is not                                *)
(*   seen     the file that had the name when it was looked up: none (0)   *)
(*            or not looked up (NoAttr)                                    *)
(*   missed   the look-up failed whatever had the name                     *)
(*   data     the age of the data a READ returns                           *)

Blank == [at |-> "idle", req |-> [proc |-> "NULL"], pre |-> <<>>, post |-> <<>>, id |-> 0,
          stat |-> "OK", wcc |-> <<>>, own |-> 0, op |-> "none", set |-> "none", lost |-> {},
          seen |-> NoAttr, missed |-> FALSE, data |-> NoAttr]

Become(c, x) == call' = [call EXCEPT ![c] = x]

\* The answers: the weak cache consistency data pairs up pre and post.
Default(r) == [i \in DOMAIN Objects(r) |-> <<NoAttr, NoAttr>>]
Wcc(x, after) == [i \in DOMAIN Objects(x.req) |-> <<x.pre[i], after[i]>>]
Unknown(r) == [i \in DOMAIN Objects(r) |-> NoAttr]
Answer(x, stat, wcc) == [x EXCEPT !.at = "done", !.stat = stat, !.wcc = wcc]
Step(c, at) == call[c].at = at /\ UNCHANGED cap

Init ==
    /\ fs \in InitialFs
    /\ cap \in {"ReadOnly", "ReadWrite"}
    /\ call = [c \in Calls |-> Blank]

------------------------------------------------------------------------------
(* The capabilities; the arguments that make no sense; the file handles.   *)
\* RENAME too answers a single wcc_data here.
ReadOnly(x) == Answer(x, "ROFS", <<<<NoAttr, NoAttr>>>>)
Start(c) ==
    /\ Step(c, "idle")
    /\ UNCHANGED fs
    /\ \E r \in Requests :
           LET x == [call[c] EXCEPT !.req = r]
           IN  IF Handler(r).writes /\ cap # "ReadWrite" THEN Become(c, ReadOnly(x))
               ELSE IF r.proc = "WRITE" /\ r.garbled = "count"
               THEN Become(c, Answer(x, "GARBAGE_ARGS", <<>>))
               ELSE \/ Become(c, Answer(x, "STALE", Default(r)))
                    \/ Become(c, [x EXCEPT !.at = IF Handler(r).stat = "no" THEN "act" ELSE "stat"])

\* getattr, which may fail.
Attr(o) == {getattr(fs, o), NoAttr}

\* The guard of a SETATTR is not the ctime that was read.
\* Mutant: the guard is not looked at.
NeverOutOfSync(x) == FALSE
OutOfSync(x) ==
    x.req.proc = "SETATTR" /\ x.req.guard # NoAttr /\ x.req.guard # x.pre[1]

(* Where a handler goes once it has the permission, or needs none.         *)
Onward(x) ==
    LET r == x.req
    IN  IF Handler(r).look THEN [x EXCEPT !.at = "look"]
        ELSE IF r.proc = "MKNOD" /\ ~r.known THEN [x EXCEPT !.at = "post", !.stat = "INVAL"]
        ELSE IF OutOfSync(x) THEN Answer(x, "NOT_SYNC", Default(r))
        ELSE IF r.proc = "WRITE" /\ r.garbled = "stable" THEN Answer(x, "GARBAGE_ARGS", <<>>)
        ELSE IF r.proc \in {"ACCESS", "GETATTR", "PATHCONF"} THEN Answer(x, "OK", <<>>)
        ELSE [x EXCEPT !.at = "act"]

(* The attributes before the operation, one object after the other.        *)
AfterStat(x) ==
    IF Len(x.pre) < Len(Objects(x.req)) THEN x
    ELSE IF Handler(x.req).access THEN [x EXCEPT !.at = "access"] ELSE Onward(x)
Stat(c) ==
    LET x == call[c]
        o == Objects(x.req)[Len(x.pre) + 1]
    IN  /\ Step(c, "stat")
        /\ UNCHANGED fs
        /\ \E a \in Attr(o) :
               IF a = NoAttr /\ Handler(x.req).stat = "must"
               THEN Become(c, Answer(x, "NOENT", Default(x.req)))
               ELSE Become(c, AfterStat([x EXCEPT !.pre = Append(@, a)]))

(* check_access: what the permissions say is not modelled.                 *)
Denied(x, stat) ==
    Answer(x, stat, Wcc(x, IF x.req.proc = "WRITE" THEN Unknown(x.req) ELSE x.pre))
Access(c) ==
    LET x == call[c]
    IN  /\ Step(c, "access")
        /\ UNCHANGED fs
        /\ \/ Become(c, Onward(x))
           \/ x.req.proc # "ACCESS" /\ Become(c, Denied(x, "ACCES"))
           \/ Become(c, Denied(x, "IO"))

(* lookup: CREATE takes an error for an absent name.                       *)
Looked(x, found) ==
    LET p == x.req.proc
    IN  IF p = "CREATE"
        THEN IF ~found.ok THEN [x EXCEPT !.at = "act"]
             ELSE IF x.req.how = "GUARDED" THEN [x EXCEPT !.at = "post", !.stat = "EXIST"]
             ELSE [x EXCEPT !.at = "set", !.id = found.id]
        ELSE IF found.ok THEN [x EXCEPT !.at = "check", !.id = found.id]
        ELSE IF p = "RMDIR" THEN [x EXCEPT !.at = "post", !.stat = "NOENT"]
        ELSE Answer(x, "NOENT", <<>>)
Look(c) ==
    LET r == call[c].req
        x == [call[c] EXCEPT !.seen = IF Has(fs, r.d, r.n) THEN fs.dir[r.d][r.n] ELSE 0]
    IN  /\ Step(c, "look")
        /\ UNCHANGED fs
        /\ \/ Become(c, Looked(x, lookup(fs, r.d, r.n)))
           \/ Become(c, Looked([x EXCEPT !.missed = TRUE], Err(fs)))

(* The attributes of the file found.                                       *)
\* Mutant: the type of the file is not looked at.
CheckedAny(x, a) ==
    IF x.req.proc = "LOOKUP" THEN Answer(x, "OK", <<>>)
    ELSE IF a = NoAttr THEN [x EXCEPT !.at = "post", !.stat = "NOENT"]
    ELSE [x EXCEPT !.at = "act"]
Checked(x, a) ==
    IF x.req.proc = "LOOKUP" THEN Answer(x, "OK", <<>>)
    ELSE IF a = NoAttr THEN [x EXCEPT !.at = "post", !.stat = "NOENT"]
    ELSE IF ~IsDir(fs, x.id) THEN [x EXCEPT !.at = "post", !.stat = "NOTDIR"]
    ELSE [x EXCEPT !.at = "act"]
Check(c) ==
    /\ Step(c, "check")
    /\ UNCHANGED fs
    /\ \E a \in Attr(call[c].id) : Become(c, Checked(call[c], a))

------------------------------------------------------------------------------
\* What came of the operation, and what it changed.
Verdict(res) == IF res.ok THEN "ok" ELSE "failed"
Did(x, res) ==
    LET o == Objects(x.req)[1]
    IN  [x EXCEPT !.id = res.id, !.op = Verdict(res), !.lost = res.lost,
                  !.own = getattr(res.fs, o) - getattr(fs, o)]

(* The operation has succeeded.  WRITE, SETATTR and COMMIT have the        *)
(* attributes after from the call itself; READ answers those from before.  *)
\* Mutant: READ gets the attributes after the data.
ResultThenStat(x, res) ==
    IF Handler(x.req).post = "always" THEN [Did(x, res) EXCEPT !.at = "post"]
    ELSE IF x.req.proc = "READ"
    THEN [Did(x, res) EXCEPT !.at = "post", !.data = getattr(fs, x.req.id)]
    ELSE Answer(Did(x, res), "OK", <<>>)
Result(x, res) ==
    LET r == x.req
        y == Did(x, res)
    IN  IF Handler(r).post = "always" THEN [y EXCEPT !.at = "post"]
        ELSE IF r.proc \in {"WRITE", "SETATTR", "COMMIT"}
        THEN Answer(y, "OK", Wcc(y, <<getattr(res.fs, r.id)>>))
        ELSE Answer([y EXCEPT !.data = getattr(fs, r.id), !.post = x.pre], "OK", <<>>)
(* The operation has failed, and has left the file system as res says.     *)
Failed(x, res) ==
    LET r == x.req
        y == Did(x, res)
    IN  IF Handler(r).post # "no" THEN [y EXCEPT !.at = "post", !.stat = "IO"]
        ELSE IF r.proc \in {"WRITE", "SETATTR"} THEN Answer(y, "IO", Default(r))
        ELSE Answer(y, "IO", <<>>)
Act(c) ==
    LET x == call[c]
    IN  /\ Step(c, "act")
        /\ \E can \in SUBSET Settable :
               LET res == handle_nfs(x.req, can).op
               IN  \/ res.ok /\ fs' = res.fs /\ Become(c, Result(x, res))
                   \/ \E f \in {fs, res.fs} : fs' = f /\ Become(c, Failed(x, Err(f)))

(* The attributes after the operation, one object after the other.         *)
\* Mutant: the attributes of before are sent again.
ReusedAttr(x) == {IF x.pre = <<>> THEN NoAttr ELSE x.pre[Len(x.post) + 1]}
PostAttr(x) == Attr(Objects(x.req)[Len(x.post) + 1])
\* Mutant: a getattr that fails after the operation fails the call.
AfterPostStrict(x) ==
    IF x.req.proc = "FSSTAT" THEN Answer(x, x.stat, <<>>)
    ELSE IF x.post[Len(x.post)] = NoAttr THEN Answer(x, "IO", Default(x.req))
    ELSE IF Len(x.post) < Len(Objects(x.req)) THEN x
    ELSE Answer(x, x.stat, Wcc(x, x.post))
AfterPost(x) ==
    IF Len(x.post) < Len(Objects(x.req)) THEN x
    ELSE IF x.req.proc = "MKDIR" /\ x.stat = "OK" /\ x.req.set # {} THEN [x EXCEPT !.at = "set"]
    ELSE IF x.req.proc = "FSSTAT" THEN Answer(x, x.stat, <<>>)
    ELSE Answer(x, x.stat, Wcc(x, x.post))
Post(c) ==
    LET x == call[c]
    IN  /\ Step(c, "post")
        /\ UNCHANGED fs
        /\ \E a \in PostAttr(x) : Become(c, AfterPost([x EXCEPT !.post = Append(@, a)]))

(* setattr of the directory made, or of the file that UNCHECKED found.     *)
AfterSet(x, res) ==
    LET stat == IF res.ok THEN "OK" ELSE "IO"
        y == [x EXCEPT !.set = Verdict(res), !.lost = res.lost]
    IN  IF x.req.proc = "MKDIR" THEN Answer(y, stat, Wcc(y, y.post))
        ELSE [y EXCEPT !.at = "post", !.stat = stat]
Set(c) ==
    LET x == call[c]
    IN  /\ Step(c, "set")
        /\ \E can \in SUBSET Settable :
               LET res == setattr(fs, x.id, x.req.set, can)
               IN  \/ res.ok /\ fs' = res.fs /\ Become(c, AfterSet(x, res))
                   \/ \E f \in {fs, res.fs} : fs' = f /\ Become(c, AfterSet(x, Err(f)))

Next ==
    \E c \in Calls :
        \/ Start(c) \/ Stat(c) \/ Access(c) \/ Look(c) \/ Check(c)
        \/ Act(c) \/ Post(c) \/ Set(c)

Spec == Init /\ [][Next]_vars

------------------------------------------------------------------------------
Done(c) == call[c].at = "done"

(* A server without write capabilities changes nothing, whatever is asked. *)
ReadOnlyKept == [][cap = "ReadOnly" => UNCHANGED fs]_vars

(* What a client may take an answer for.  OK means that the file system    *)
(* failed at nothing the call came to ask of it; only the mode or the      *)
(* times may not have been set, or what was to be set of a file CREATE     *)
(* made or emptied.  What succeeded is never answered as failed: a handler *)
(* finds the errors of its own before it changes anything, and one that it *)
(* finds afterwards does not count.  The one exception is MKDIR where      *)
(* setattr fails: the directory stays, and the answer is an error.  (That  *)
(* an error says nothing has changed no property claims: what failed may   *)
(* have been done, wholly or in part.)                                     *)
ErrorsHonest ==
    \A c \in Calls : Done(c) =>
        LET x == call[c]
        IN  /\ x.stat = "OK" =>
                   /\ "failed" \notin {x.op, x.set}
                   /\ x.lost \subseteq {"mode"} \/ (x.req.proc = "CREATE" /\ x.op = "ok")
            /\ "ok" \in {x.op, x.set} =>
                   \/ x.stat = "OK"
                   \/ x.req.proc = "MKDIR" /\ x.op = "ok" /\ x.set = "failed"

(* Whatever runs in between, a call's own change lies between the          *)
(* attributes it answers: a client never takes its own change for the      *)
(* state from before, or misses it in the state after.                     *)
OwnChangeInWcc ==
    \A c \in Calls : Done(c) /\ call[c].own > 0 =>
        \A i \in DOMAIN call[c].wcc :
            LET w == call[c].wcc[i]
            IN  NoAttr \notin {w[1], w[2]} => w[1] < w[2]

(* The data a READ answers is no older than the attributes it answers: a   *)
(* client that keeps the data under these attributes never keeps old data  *)
(* under new attributes.                                                   *)
ReadNotStale ==
    \A c \in Calls :
        (Done(c) /\ call[c].req.proc = "READ" /\ call[c].stat = "OK") =>
            call[c].data >= call[c].post[1]

\* A step in which c, of this procedure, calls the file system to change it.
Acts(c, proc) == call[c].at = "act" /\ call'[c].at # "act" /\ call[c].req.proc = proc

(* CREATE drops the data of a file that exists only if the name was free   *)
(* when CREATE looked it up and was given to the file since, or if that    *)
(* look-up failed, which CREATE takes for a free name.  An EXCLUSIVE one   *)
(* does not look the name up, and drops nothing.                           *)
CreateKeeps ==
    [][\A c \in Calls : Acts(c, "CREATE") =>
           \A id \in DOMAIN fs.file :
               fs'.file[id].data # fs.file[id].data => call[c].missed \/ call[c].seen = 0]_vars

(* RMDIR takes the last name of what is no directory only if it looked at  *)
(* another file, which was one, and the name has changed hands since.      *)
RmdirOnlyDirs ==
    [][\A c \in Calls : Acts(c, "RMDIR") =>
           \A id \in DOMAIN fs.file :
               (~IsDir(fs, id) /\ Live(fs, id) /\ ~Live(fs', id)) =>
                   call[c].id # id /\ IsDir(fs, call[c].id)]_vars

(* A SETATTR with a guard changes a file only while its ctime is the one   *)
(* the client gave, or has grown since the handler read it.                *)
GuardHeld ==
    [][\A c \in Calls : (Acts(c, "SETATTR") /\ call[c].req.guard # NoAttr /\ fs' # fs) =>
           LET ctime == getattr(fs, call[c].req.id)
           IN  ctime = call[c].req.guard \/ ctime > call[c].pre[1]]_vars
==============================================================================

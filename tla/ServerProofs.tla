----------------------------- MODULE ServerProofs -----------------------------
(***************************************************************************)
(* Proofs about Server, for any clients, exports, trees and agendas.       *)
(***************************************************************************)
EXTENDS Server, MountProofs

FileCalls == {"WRITE", "ACCESS"}
PortCalls == {"SET", "UNSET", "GETPORT", "DUMP"}

\* What a running server is sure of: calls exist while it is up, and a call of
\* a file procedure carries a handle, a user and the modes it has met.
Typed ==
    /\ agenda \in Agendas
    /\ clock \in Nat
    /\ up \in BOOLEAN
    /\ generations \in Seq(Nat)
    /\ up => generations # <<>>
    /\ conn # {} => up
    /\ DOMAIN handle = Clients
    /\ DOMAIN call = Clients
    /\ \A c \in Clients :
           /\ call[c] = NoCall \/ (up /\ call[c].proc # "none" /\ {"proc", "at"} \subseteq DOMAIN call[c])
           /\ call[c].proc \in FileCalls => {"fh", "auth", "modes"} \subseteq DOMAIN call[c]

\* Files have ids of their own, below the number of those given out: the next
\* numbers are free.
IdsRight ==
    /\ up => Root \in DOMAIN ids
    /\ DOMAIN ids \subseteq Files
    /\ \A p \in DOMAIN ids : ids[p] \in 0..(Cardinality(DOMAIN ids) - 1)
    /\ \A p, q \in DOMAIN ids : ids[p] = ids[q] => p = q

\* The handle has the generation of the instance that gave it out, and, while
\* that instance runs, the id of its file.
GivenOut(fh) ==
    /\ {"len", "gen", "id", "path", "of"} \subseteq DOMAIN fh
    /\ fh.of \in 1..Len(generations)
    /\ fh.gen = generations[fh.of]
    /\ (up /\ fh.of = Len(generations)) => (fh.path \in DOMAIN ids /\ ids[fh.path] = fh.id)

HandlesGiven ==
    \A c \in Clients :
        /\ handle[c] = NoHandle \/ GivenOut(handle[c])
        /\ In(c, {"MNT"}, "signal") => call[c].found \in DOMAIN ids
        /\ call[c].proc \in FileCalls => GivenOut(call[c].fh)

Writing(c) == In(c, {"WRITE"}, "write") \/ In(c, {"WRITE"}, "sync")

\* The file fh was given out for, or one that an instance with the same
\* generation gave the same id.
Meant(fh, path) == path = fh.path \/ Confused(fh)

\* A WRITE that goes on has found the file its handle is for.
FilesFound ==
    \A c \in Clients :
        Writing(c) =>
            /\ "found" \in DOMAIN call[c]
            /\ call[c].found \in DOMAIN ids
            /\ Meant(call[c].fh, call[c].found)

\* The entries of a table that overrides another.
LEMMA OverrideFacts ==
    ASSUME NEW f, NEW g
    PROVE  /\ DOMAIN Override(f, g) = DOMAIN f \cup DOMAIN g
           /\ \A x \in DOMAIN f : Override(f, g)[x] = f[x]
           /\ \A x \in DOMAIN g \ DOMAIN f : Override(f, g)[x] = g[x]
BY DEF Override

\* Typed holds at first, when no instance has started.
LEMMA TypedInit == Init => Typed
<1> SUFFICES ASSUME Init PROVE Typed
  OBVIOUS
<1>1. agenda \in Agendas /\ clock \in Nat /\ up = FALSE /\ conn = {}
  BY DEF Init
<1>2. generations \in Seq(Nat)
  BY DEF Init
<1>3. DOMAIN handle = Clients /\ call = [c \in Clients |-> NoCall]
  BY DEF Init
<1> QED
  BY <1>1, <1>2, <1>3 DEF Typed, NoCall, FileCalls

\* A cut handle keeps all but its length.
LEMMA CutFacts ==
    ASSUME NEW fh, NEW n
    PROVE  /\ DOMAIN Cut(fh, n) = DOMAIN fh
           /\ \A x \in DOMAIN fh \ {"len"} : Cut(fh, n)[x] = fh[x]
           /\ "len" \in DOMAIN fh => Cut(fh, n).len = n
BY DEF Cut

\* A call that meets a mode keeps the modes it met, and the rest of it.
LEMMA MeetsFacts ==
    ASSUME NEW r, NEW f, NEW m
    PROVE  /\ DOMAIN Meets(r, f, m) = DOMAIN r
           /\ \A x \in DOMAIN r \ {"modes"} : Meets(r, f, m)[x] = r[x]
           /\ "modes" \in DOMAIN r =>
                 /\ DOMAIN Meets(r, f, m).modes = DOMAIN r.modes
                 /\ \A x \in DOMAIN r.modes : r.modes[x] \subseteq Meets(r, f, m).modes[x]
                 /\ f \in DOMAIN r.modes => m \in Meets(r, f, m).modes[f]
BY DEF Meets

\* What a request carries.
LEMMA RequestFacts ==
    ASSUME NEW c, NEW r \in Requests(c)
    PROVE  /\ {"proc", "at"} \subseteq DOMAIN r
           /\ r.proc # "none"
           /\ r.at # "write" /\ r.at # "sync"
           /\ r.proc = "MNT" => r.at = "begin" /\ "path" \in DOMAIN r /\ r.path \in agenda.paths
           /\ r.proc \in FileCalls =>
                  /\ {"fh", "auth", "modes"} \subseteq DOMAIN r
                  /\ handle[c] # NoHandle
                  /\ \E n \in agenda.lens : r.fh = Cut(handle[c], n)
                  /\ r.modes = [f \in Files |-> {mode[f]}]
           /\ r.proc \in PortCalls =>
                  r \in [proc : PortCalls, mapping : agenda.mappings, at : {"begin"}]
<1>1. CASE r \in [proc : {"MNT"}, path : agenda.paths, at : {"begin"}]
  BY <1>1 DEF FileCalls, PortCalls
<1>2. CASE r \in [proc : {"UMNT", "UMNTALL"}, at : {"signal"}]
  BY <1>2 DEF FileCalls, PortCalls
<1>3. CASE /\ handle[c] # NoHandle
           /\ r \in [proc : {"WRITE", "ACCESS"}, fh : {Cut(handle[c], n) : n \in agenda.lens},
                     auth : agenda.auths, at : {"begin"}, modes : {[f \in Files |-> {mode[f]}]}]
  BY <1>3 DEF FileCalls, PortCalls
<1>4. CASE r \in [proc : {"SET", "UNSET", "GETPORT", "DUMP"}, mapping : agenda.mappings, at : {"begin"}]
  BY <1>4 DEF FileCalls, PortCalls
<1> QED
  BY <1>1, <1>2, <1>3, <1>4 DEF Requests

\* A call is answered, or goes on with what r adds to it.
Answered(c) == \E a : Reply(c, a)
GoesOn(c) == \E r : Proceed(c, r) /\ DOMAIN r \subseteq {"at", "found", "version", "failed"}

\* A call that goes on has what r says, and keeps the rest; other calls stay.
LEMMA ProceedFacts ==
    ASSUME NEW c \in Clients, NEW r, Proceed(c, r), DOMAIN call = Clients
    PROVE  /\ answer' = Nothing
           /\ DOMAIN call' = Clients
           /\ \A d \in Clients \ {c} : call'[d] = call[d]
           /\ DOMAIN call'[c] = DOMAIN r \cup DOMAIN call[c]
           /\ \A x \in DOMAIN call[c] \ DOMAIN r : call'[c][x] = call[c][x]
           /\ \A x \in DOMAIN r : call'[c][x] = r[x]
<1>1. DOMAIN Override(r, call[c]) = DOMAIN r \cup DOMAIN call[c]
  BY OverrideFacts, Zenon
<1>2. \A x \in DOMAIN call[c] \ DOMAIN r : Override(r, call[c])[x] = call[c][x]
  BY OverrideFacts, Zenon
<1>3. \A x \in DOMAIN r : Override(r, call[c])[x] = r[x]
  BY OverrideFacts, Zenon
<1>4. call'[c] = Override(r, call[c])
  BY DEF Proceed
<1> QED
  BY <1>1, <1>2, <1>3, <1>4 DEF Proceed

\* A step of the server for a call answers it or lets it go on.
LEMMA ServeFacts ==
    ASSUME NEW c \in Clients, Serve(c)
    PROVE  /\ call[c].proc # "none"
           /\ Answered(c) \/ GoesOn(c)
           /\ UNCHANGED <<agenda, clock, mode, instance>>
           /\ DOMAIN handle' = DOMAIN handle
<1> USE DEF Answered, host
<1>1. CASE mountproc3_mnt(c)
  <2> PICK s : s = Resolved[agenda.export][call[c].path].path
    OBVIOUS
  <2>1. DOMAIN [at |-> "signal", found |-> s] \subseteq {"at", "found", "version", "failed"}
    OBVIOUS
  <2>2. Answered(c) \/ Proceed(c, [at |-> "signal", found |-> s])
    BY <1>1 DEF mountproc3_mnt
  <2> QED
    BY <1>1, <2>1, <2>2 DEF mountproc3_mnt, In, GoesOn
<1>2. CASE Mounted(c)
  BY <1>2 DEF Mounted, In
<1>3. CASE Unmounted(c)
  BY <1>3 DEF Unmounted, In
<1>4. CASE nfsproc3_access(c)
  BY <1>4 DEF nfsproc3_access, In
<1>5. CASE nfsproc3_write(c)
  <2> PICK p : p = check_access(fh_to_id(call[c].fh).v, call[c].auth, {"MODIFY"}).v.path
    OBVIOUS
  <2>1. DOMAIN [at |-> "write", found |-> p] \subseteq {"at", "found", "version", "failed"}
    OBVIOUS
  <2>2. Answered(c) \/ Proceed(c, [at |-> "write", found |-> p])
    BY <1>5 DEF nfsproc3_write
  <2> QED
    BY <1>5, <2>1, <2>2 DEF nfsproc3_write, In, GoesOn
<1>6. CASE write(c)
  <2> PICK v : v = page[call[c].found] + 1
    OBVIOUS
  <2>1. \A f : DOMAIN [at |-> "sync", version |-> v, failed |-> f] \subseteq {"at", "found", "version", "failed"}
    OBVIOUS
  <2>2. Answered(c) \/ \E f : Proceed(c, [at |-> "sync", version |-> v, failed |-> f])
    BY <1>6 DEF write
  <2> QED
    BY <1>6, <2>1, <2>2 DEF write, In, GoesOn
<1>7. CASE Committed(c)
  BY <1>7 DEF Committed, In
<1>8. CASE PortCall(c)
  BY <1>8 DEF PortCall, Ports, In
<1> QED
  BY <1>1, <1>2, <1>3, <1>4, <1>5, <1>6, <1>7, <1>8 DEF Serve

\* Every step keeps Typed, the crash that drops all calls included.
LEMMA TypedStep == Typed /\ Next => Typed'
<1> SUFFICES ASSUME Typed, Next PROVE Typed'
  OBVIOUS
<1> USE DEF FileCalls, NoCall, host, instance
<1>1. CASE Start
  <2>1. generations' \in Seq(Nat) /\ generations' # <<>>
    BY <1>1 DEF Start, Typed
  <2> QED
    BY <1>1, <2>1 DEF Start, Typed
<1>2. CASE Crash \/ HostCrash
  <2>1. clock' \in Nat
    BY <1>2, ServerAssumption DEF Crash, HostCrash, Typed
  <2> QED
    <3>1. Gone
      BY <1>2 DEF Crash, HostCrash
    <3> QED
      BY <2>1, <3>1 DEF Gone, Typed
<1>3. CASE Tick
  BY <1>3 DEF Tick, Typed
<1>4. ASSUME NEW f \in Files, WriteBack(f) PROVE Typed'
  BY <1>4 DEF WriteBack, Typed
<1>5. ASSUME NEW f \in Files, NEW m, Chmod(f, m) PROVE Typed'
  <2>1. \A c \in Clients : DOMAIN Meets(call[c], f, m) = DOMAIN call[c]
    BY MeetsFacts
  <2>2. \A c \in Clients : call[c].proc \in FileCalls => Meets(call[c], f, m).proc = call[c].proc
    BY MeetsFacts DEF Typed
  <2>3. \A c \in Clients : call'[c] = IF call[c].proc \in FileCalls THEN Meets(call[c], f, m) ELSE call[c]
    BY <1>5 DEF Chmod
  <2> QED
    BY <1>5, <2>1, <2>2, <2>3 DEF Chmod, Typed
<1>6. ASSUME NEW c \in Clients, Connect(c) PROVE Typed'
  BY <1>6 DEF Connect, Typed
<1>7. ASSUME NEW c \in Clients, Call(c) PROVE Typed'
  <2> PICK r \in Requests(c) : call' = [call EXCEPT ![c] = r]
    BY <1>7 DEF Call
  <2>1. /\ {"proc", "at"} \subseteq DOMAIN r
        /\ r.proc # "none"
        /\ r.proc \in FileCalls => {"fh", "auth", "modes"} \subseteq DOMAIN r
    BY RequestFacts, Zenon
  <2>2. up
    BY <1>7 DEF Typed, Call
  <2> QED
    BY <1>7, <2>1, <2>2 DEF Typed, Call
<1>8. ASSUME NEW c \in Clients, Serve(c) PROVE Typed'
  <2>1. CASE Answered(c)
    BY <1>8, <2>1, ServeFacts DEF Answered, Reply, Typed
  <2>2. CASE GoesOn(c)
    <3> PICK r : Proceed(c, r) /\ DOMAIN r \subseteq {"at", "found", "version", "failed"}
      BY <2>2 DEF GoesOn
    <3>1. /\ DOMAIN call' = Clients
          /\ \A d \in Clients \ {c} : call'[d] = call[d]
          /\ DOMAIN call'[c] = DOMAIN r \cup DOMAIN call[c]
          /\ \A x \in DOMAIN call[c] \ DOMAIN r : call'[c][x] = call[c][x]
      BY ProceedFacts, Zenon DEF Typed
    <3>2. "proc" \in DOMAIN call[c] /\ call'[c].proc = call[c].proc
      BY <1>8, ServeFacts, <3>1 DEF Typed
    <3> QED
      BY <1>8, ServeFacts, <3>1, <3>2 DEF Typed
  <2> QED
    BY <1>8, <2>1, <2>2, ServeFacts
<1>9. CASE Receive
  BY <1>9 DEF Receive, Typed
<1>10. ASSUME NEW l, Stop(l) PROVE Typed'
  BY <1>10 DEF Stop, Typed
<1> QED
  BY <1>1, <1>2, <1>3, <1>4, <1>5, <1>6, <1>7, <1>8, <1>9, <1>10 DEF Next

------------------------------------------------------------------------------
\* What the agenda's tree is assumed to be.
LEMMA FilesFacts ==
    ASSUME Typed
    PROVE  IsFiniteSet(Files) /\ Root \in Files /\ Files \subseteq Seq(Seq(STRING))
BY AgendaAssumption DEF Typed, Files, Root

\* No ids are given out at first.
LEMMA IdsInit == Init => IdsRight
BY DEF Init, IdsRight

\* Numbering new files keeps the ids distinct.
LEMMA NumberedIds ==
    ASSUME Typed, IdsRight, NEW new, new \subseteq Files \ DOMAIN ids,
           NEW n \in Numberings(new), NEW next, next = Override(n, ids)
    PROVE  /\ DOMAIN next = DOMAIN ids \cup new
           /\ \A p \in DOMAIN ids : next[p] = ids[p]
           /\ \A p \in DOMAIN next : next[p] \in 0..(Cardinality(DOMAIN next) - 1)
           /\ \A p, q \in DOMAIN next : next[p] = next[q] => p = q
<1> DEFINE k == Cardinality(DOMAIN ids)
           l == Cardinality(new)
<1>1. IsFiniteSet(DOMAIN ids) /\ IsFiniteSet(new)
  BY FilesFacts, FS_Subset DEF IdsRight
<1>2. k \in Nat /\ l \in Nat
  BY <1>1, FS_CardinalityType
<1>3. DOMAIN n = new /\ (\A p \in new : n[p] \in k..(k + l - 1)) /\ \A p, q \in new : n[p] = n[q] => p = q
  BY DEF Numberings, Bijection, Injection, IsInjective
<1>4. /\ DOMAIN next = DOMAIN ids \cup new
      /\ \A p \in DOMAIN ids : next[p] = ids[p]
      /\ \A p \in new : next[p] = n[p]
  BY <1>3 DEF Override
<1>5. Cardinality(DOMAIN next) = k + l
  <2>1. DOMAIN ids \cap new = {}
    OBVIOUS
  <2>2. Cardinality(DOMAIN ids \cap new) = 0
    BY <2>1, FS_EmptySet
  <2>3. Cardinality(DOMAIN ids \cup new) = k + l - Cardinality(DOMAIN ids \cap new)
    BY <1>1, FS_Union
  <2> QED
    BY <1>2, <1>4, <2>2, <2>3
<1> HIDE DEF k, l
<1>6. \A p \in DOMAIN ids : ids[p] \in 0..(k - 1)
  BY DEF IdsRight, k
<1> QED
  BY <1>2, <1>3, <1>4, <1>5, <1>6 DEF IdsRight

\* What mountproc3_mnt does to the ids: they grow, and the file that was found has one.
LEMMA MountIds ==
    ASSUME Typed, IdsRight, NEW c \in Clients, mountproc3_mnt(c)
    PROVE  /\ IdsRight'
           /\ \A p \in DOMAIN ids : p \in DOMAIN ids' /\ ids'[p] = ids[p]
           /\ \/ Answered(c)
              \/ \E p \in DOMAIN ids' : Proceed(c, [at |-> "signal", found |-> p])
<1>0. up /\ up' = up /\ agenda' = agenda
  <2>1. call[c].proc = "MNT" /\ up' = up /\ agenda' = agenda
    BY DEF mountproc3_mnt, In, instance
  <2>2. up
    BY <2>1 DEF Typed, NoCall
  <2> QED
    BY <2>1, <2>2, Zenon
<1>p. PICK path, some :
        /\ path = Resolved[agenda.export][call[c].path].path
        /\ some = Resolved[agenda.export][call[c].path].some
  OBVIOUS
<1>1. CASE ids' = ids /\ Answered(c)
  BY <1>0, <1>1 DEF IdsRight, Files
<1>2. CASE \E n \in Numberings(Listed(path)) : ids' = Override(n, ids)
  <2> PICK n \in Numberings(Listed(path)) : ids' = Override(n, ids)
    BY <1>2
  <2> DEFINE new == Listed(path)
  <2>1. new \subseteq Files \ DOMAIN ids
    BY DEF Listed
  <2>2. \E next :
            /\ next = Override(n, ids)
            /\ DOMAIN next = DOMAIN ids \cup new
            /\ \A p \in DOMAIN ids : next[p] = ids[p]
            /\ \A p \in DOMAIN next : next[p] \in 0..(Cardinality(DOMAIN next) - 1)
            /\ \A p, q \in DOMAIN next : next[p] = next[q] => p = q
    BY <2>1, NumberedIds, Zenon
  <2>3. /\ DOMAIN ids' = DOMAIN ids \cup new
        /\ \A p \in DOMAIN ids : ids'[p] = ids[p]
        /\ \A p \in DOMAIN ids' : ids'[p] \in 0..(Cardinality(DOMAIN ids') - 1)
        /\ \A p, q \in DOMAIN ids' : ids'[p] = ids'[q] => p = q
    BY <2>2
  <2>4. IdsRight'
    BY <1>0, <2>1, <2>3 DEF IdsRight, Files
  <2>5. ASSUME path \in Files PROVE path \in DOMAIN ids'
    <3>1. CASE path \in DOMAIN ids
      BY <2>3, <3>1
    <3>2. CASE path \notin DOMAIN ids
      <4>1. path # Root /\ path \in Seq(Seq(STRING))
        BY <1>0, <2>5, <3>2, FilesFacts DEF IdsRight
      <4>2. Len(path) \in 1..Len(path) /\ SubSeq(path, 1, Len(path)) = path
        <5>1. SubSeq(path, 1, Len(path)) = path
          BY <4>1, SubSeqFull
        <5>2. Len(path) \in Nat \ {0}
          BY <4>1, EmptySeq DEF Root
        <5> QED
          BY <5>1, <5>2
      <4>3. path \in Prefixes(path)
        BY <4>2 DEF Prefixes
      <4>4. path \in new
        BY <2>5, <3>2, <4>1, <4>3 DEF Listed
      <4> QED
        BY <2>3, <4>4
    <3> QED
      BY <3>1, <3>2
  <2>6. Answered(c) \/ (path \in Files /\ Proceed(c, [at |-> "signal", found |-> path]))
    BY <1>p DEF mountproc3_mnt, Answered
  <2> QED
    BY <2>3, <2>4, <2>5, <2>6
<1> QED
  BY <1>1, <1>2, <1>p DEF mountproc3_mnt, Answered

\* Every step keeps the ids right: only a start, an end and MNT touch them.
LEMMA IdsStep == Typed /\ IdsRight /\ Next => IdsRight'
<1> SUFFICES ASSUME Typed, IdsRight, Next PROVE IdsRight'
  OBVIOUS
<1> USE DEF Files, instance
<1>1. CASE Start
  <2>1. DOMAIN ids' = {Root} /\ ids'[Root] = 0
    BY <1>1 DEF Start, Entry
  <2>2. Cardinality({Root}) = 1
    BY FS_Singleton
  <2>3. Root \in Files /\ Files' = Files
    BY <1>1, FilesFacts DEF Start
  <2> QED
    BY <2>1, <2>2, <2>3 DEF IdsRight
<1>2. CASE Gone
  BY <1>2 DEF Gone, IdsRight
<1>3. CASE \E c \in Clients : mountproc3_mnt(c)
  BY <1>3, MountIds
<1>4. CASE UNCHANGED <<agenda, up, ids>>
  BY <1>4 DEF IdsRight
<1>5. Start \/ Gone \/ (\E c \in Clients : mountproc3_mnt(c)) \/ UNCHANGED <<agenda, up, ids>>
  BY ZenonT(40) DEF Next, Crash, HostCrash, Tick, WriteBack, Chmod, Connect, Call, Serve, Mounted, Unmounted,
         nfsproc3_access, nfsproc3_write, write, Committed, PortCall, Receive, Stop
<1> QED
  BY <1>1, <1>2, <1>3, <1>4, <1>5

------------------------------------------------------------------------------
\* The ids of the running instance only grow.
Grown == UNCHANGED <<up, generations>> /\ \A p \in DOMAIN ids : p \in DOMAIN ids' /\ ids'[p] = ids[p]

\* An instance starts, ends, or goes on with its ids.
LEMMA StepKinds == Typed /\ IdsRight /\ Next => Start \/ Gone \/ Grown
<1> SUFFICES ASSUME Typed, IdsRight, Next PROVE Start \/ Gone \/ Grown
  OBVIOUS
<1>1. ASSUME NEW c \in Clients, mountproc3_mnt(c) PROVE Grown
  <2>1. UNCHANGED <<up, generations>>
    BY <1>1 DEF mountproc3_mnt, instance
  <2> QED
    BY <1>1, <2>1, MountIds DEF Grown
<1>2. CASE UNCHANGED <<up, generations, ids>>
  BY <1>2 DEF Grown
<1> QED
  BY <1>1, <1>2 DEF Next, Crash, HostCrash, Tick, WriteBack, Chmod, Connect, Call, Serve, Mounted,
         Unmounted, nfsproc3_access, nfsproc3_write, write, Committed, PortCall, Receive, Stop, instance

\* A handle that was given out stays one.
LEMMA GivenStays ==
    ASSUME Typed, IdsRight, Next, NEW fh, GivenOut(fh)
    PROVE  GivenOut(fh)'
<1>1. CASE Start
  <2>1. Len(generations') = Len(generations) + 1
    BY <1>1 DEF Start, Typed
  <2>2. \A i \in 1..Len(generations) : generations'[i] = generations[i]
    BY <1>1 DEF Start, Typed
  <2>3. Len(generations) \in Nat
    BY DEF Typed
  <2> QED
    BY <2>1, <2>2, <2>3 DEF GivenOut
<1>2. CASE Gone
  BY <1>2 DEF Gone, GivenOut
<1>3. CASE Grown
  BY <1>3 DEF Grown, GivenOut
<1> QED
  BY <1>1, <1>2, <1>3, StepKinds

\* A handle of which less is sent was given out all the same.
LEMMA GivenCut ==
    ASSUME NEW fh, NEW n, GivenOut(fh)
    PROVE  GivenOut(Cut(fh, n))
<1> PICK h : h = Cut(fh, n)
  OBVIOUS
<1>1. DOMAIN h = DOMAIN fh /\ \A x \in DOMAIN fh \ {"len"} : h[x] = fh[x]
  BY CutFacts
<1>2. h.gen = fh.gen /\ h.id = fh.id /\ h.path = fh.path /\ h.of = fh.of
  BY <1>1 DEF GivenOut
<1> QED
  BY <1>1, <1>2 DEF GivenOut

\* At first there are no handles.
LEMMA HandlesInit == Init => HandlesGiven
BY DEF Init, HandlesGiven, NoCall, In, FileCalls

\* What may become of a call in a step.
LEMMA CallKinds ==
    ASSUME Typed, Next, NEW d \in Clients
    PROVE  \/ call'[d] = call[d] \/ call'[d] = NoCall
           \/ Call(d)
           \/ Serve(d) /\ GoesOn(d)
           \/ \E f, m : Chmod(f, m)
<1>1. ASSUME NEW c \in Clients, Call(c), c # d PROVE call'[d] = call[d]
  BY <1>1 DEF Call, Typed
<1>2. ASSUME NEW c \in Clients, Serve(c) PROVE call'[d] = call[d] \/ call'[d] = NoCall \/ (Serve(d) /\ GoesOn(d))
  <2>1. CASE Answered(c)
    BY <2>1 DEF Answered, Reply, Typed
  <2>2. CASE GoesOn(c) /\ c # d
    BY <2>2 DEF GoesOn, Proceed, Typed
  <2>3. CASE GoesOn(c) /\ c = d
    BY <1>2, <2>3
  <2> QED
    BY <1>2, <2>1, <2>2, <2>3, ServeFacts
<1>3. CASE Crash \/ HostCrash
  BY <1>3 DEF Crash, HostCrash, Gone
<1>5. CASE UNCHANGED call
  BY <1>5
<1>6. \/ UNCHANGED call \/ Crash \/ HostCrash
      \/ (\E f, m : Chmod(f, m)) \/ (\E c \in Clients : Call(c) \/ Serve(c))
  BY DEF Next, Start, Tick, WriteBack, Connect, Receive, Stop
<1> QED
  BY <1>1, <1>2, <1>3, <1>5, <1>6

\* A call that meets another mode is still the call it was.
LEMMA ChmodFacts ==
    ASSUME Typed, NEW f, NEW m, Chmod(f, m), NEW d \in Clients
    PROVE  /\ DOMAIN call'[d] = DOMAIN call[d]
           /\ \A x \in DOMAIN call[d] \ {"modes"} : call'[d][x] = call[d][x]
           /\ call'[d].proc = call[d].proc
           /\ call[d].proc \in FileCalls =>
                  /\ call'[d].at = call[d].at
                  /\ call'[d].fh = call[d].fh
                  /\ call'[d].auth = call[d].auth
<1> PICK r, s : r = call[d] /\ s = Meets(r, f, m)
  OBVIOUS
<1>1. CASE call[d].proc \notin FileCalls
  <2>1. call'[d] = call[d]
    BY <1>1 DEF Chmod, FileCalls
  <2> QED
    BY <1>1, <2>1
<1>2. CASE call[d].proc \in FileCalls
  <2>1. call'[d] = s
    BY <1>2 DEF Chmod, FileCalls
  <2>2. DOMAIN s = DOMAIN r /\ \A x \in DOMAIN r \ {"modes"} : s[x] = r[x]
    BY MeetsFacts
  <2>3. {"proc", "at", "fh", "auth"} \subseteq DOMAIN r
    BY <1>2 DEF Typed, NoCall, FileCalls
  <2> QED
    BY <2>1, <2>2, <2>3
<1> QED
  BY <1>1, <1>2

\* A call that goes on is still the call it was.
LEMMA GoesOnFacts ==
    ASSUME Typed, NEW d \in Clients, Serve(d), GoesOn(d)
    PROVE  /\ call'[d].proc = call[d].proc
           /\ call[d].proc \in FileCalls =>
                  /\ call'[d].fh = call[d].fh
                  /\ call'[d].auth = call[d].auth
                  /\ call'[d].modes = call[d].modes
           /\ \A e \in Clients \ {d} : call'[e] = call[e]
           /\ answer' = Nothing
<1>0. PICK r : Proceed(d, r) /\ DOMAIN r \subseteq {"at", "found", "version", "failed"}
  BY DEF GoesOn
<1>1. /\ \A e \in Clients \ {d} : call'[e] = call[e]
      /\ \A x \in DOMAIN call[d] \ DOMAIN r : call'[d][x] = call[d][x]
      /\ answer' = Nothing
  BY <1>0, ProceedFacts, Zenon DEF Typed
<1>2. "proc" \in DOMAIN call[d] \ DOMAIN r
  BY <1>0, ServeFacts DEF Typed, NoCall
<1>3. call[d].proc \in FileCalls => {"fh", "auth", "modes"} \subseteq DOMAIN call[d] \ DOMAIN r
  BY <1>0 DEF Typed
<1> QED
  BY <1>1, <1>2, <1>3

\* MNT gives out right handles, and they stay so, across restarts too.
LEMMA HandlesStep ==
    ASSUME Typed, IdsRight, HandlesGiven, Next
    PROVE  HandlesGiven'
<1> SUFFICES ASSUME NEW d \in Clients
             PROVE  /\ (handle[d] = NoHandle \/ GivenOut(handle[d]))'
                    /\ (In(d, {"MNT"}, "signal") => call[d].found \in DOMAIN ids)'
                    /\ (call[d].proc \in FileCalls => GivenOut(call[d].fh))'
  BY DEF HandlesGiven
<1>1. (handle[d] = NoHandle \/ GivenOut(handle[d]))'
  <2>1. CASE handle'[d] = handle[d]
    <3> PICK h : h = handle[d]
      OBVIOUS
    <3>1. h = NoHandle \/ GivenOut(h)
      BY DEF HandlesGiven
    <3>2. h = NoHandle \/ GivenOut(h)'
      BY <3>1, GivenStays
    <3> QED
      BY <2>1, <3>2 DEF NoHandle
  <2>2. CASE Mounted(d)
    <3>1. handle'[d] = Handle(generation, ids[call[d].found], call[d].found)
      BY <2>2 DEF Mounted, id_to_fh, Typed
    <3>2. call[d].found \in DOMAIN ids
      BY <2>2 DEF Mounted, HandlesGiven
    <3>3. up /\ Len(generations) \in Nat \ {0}
      <4>1. call[d] # NoCall
        BY <2>2 DEF Mounted, In, NoCall
      <4>2. up /\ generations # <<>> /\ generations \in Seq(Nat)
        BY <4>1 DEF Typed
      <4> QED
        BY <4>2, EmptySeq
    <3>4. UNCHANGED <<up, generations, ids>>
      BY <2>2 DEF Mounted, instance
    <3> PICK p, i, h : p = call[d].found /\ i = ids[p] /\ h = Handle(generation, i, p)
      OBVIOUS
    <3>5. GivenOut(h)
      BY <3>2, <3>3 DEF GivenOut, Handle, generation
    <3>6. GivenOut(h)'
      BY <3>4, <3>5 DEF GivenOut
    <3> QED
      BY <3>1, <3>6
  <2>3. handle'[d] = handle[d] \/ Mounted(d)
    <3>1. ASSUME NEW c \in Clients, Mounted(c), c # d PROVE handle'[d] = handle[d]
      BY <3>1 DEF Mounted, Typed
    <3> QED
      BY <3>1 DEF Next, Start, Crash, HostCrash, Gone, Tick, WriteBack, Chmod, Connect, Call, Serve,
         mountproc3_mnt, Unmounted, nfsproc3_access, nfsproc3_write, write, Committed, PortCall, Receive, Stop
  <2> QED
    BY <2>1, <2>2, <2>3
<1>2. (In(d, {"MNT"}, "signal") => call[d].found \in DOMAIN ids)'
  <2>1. CASE call'[d] = call[d] /\ call[d] # NoCall
    <3>1. Grown
      <4>1. ~Start
        BY <2>1 DEF Start, Typed
      <4>2. ~Gone
        BY <2>1 DEF Gone
      <4> QED
        BY <4>1, <4>2, StepKinds
    <3> QED
      BY <2>1, <3>1 DEF In, Grown, HandlesGiven
  <2>2. CASE call'[d] = NoCall
    BY <2>2 DEF In, NoCall
  <2>3. CASE Call(d)
    <3> PICK r \in Requests(d) : call' = [call EXCEPT ![d] = r]
      BY <2>3 DEF Call
    <3>1. r.proc = "MNT" => r.at = "begin"
      BY RequestFacts, Zenon
    <3> QED
      BY <3>1 DEF In, Typed
  <2>4. CASE Serve(d) /\ GoesOn(d)
    <3>1. CASE mountproc3_mnt(d)
      <4>0. ~Answered(d)
        BY <2>4, GoesOnFacts DEF Answered, Reply, Nothing
      <4> PICK p \in DOMAIN ids' : Proceed(d, [at |-> "signal", found |-> p])
        BY <3>1, <4>0, MountIds
      <4> PICK r : r = [at |-> "signal", found |-> p]
        OBVIOUS
      <4>1. \A x \in DOMAIN r : call'[d][x] = r[x]
        BY ProceedFacts DEF Typed
      <4> QED
        BY <4>1
    <3>2. CASE ~mountproc3_mnt(d)
      <4>1. call[d].proc # "MNT" \/ Answered(d)
        BY <2>4, <3>2 DEF Serve, Mounted, Unmounted, nfsproc3_access, nfsproc3_write, write, Committed, PortCall, Ports, In, Answered
      <4>2. ~Answered(d)
        BY <2>4, GoesOnFacts DEF Answered, Reply, Nothing
      <4> QED
        BY <2>4, <4>1, <4>2, GoesOnFacts DEF In
    <3> QED
      BY <3>1, <3>2
  <2>5. CASE \E f, m : Chmod(f, m)
    <3>0. PICK f, m : Chmod(f, m)
      BY <2>5
    <3>2. UNCHANGED ids
      BY <3>0 DEF Chmod
    <3>3. call[d].proc \notin FileCalls => call'[d] = call[d]
      BY <3>0 DEF Chmod, FileCalls
    <3>4. call'[d].proc = call[d].proc
      BY <3>0, ChmodFacts, Zenon
    <3> QED
      BY <3>2, <3>3, <3>4 DEF In, HandlesGiven, FileCalls
  <2> QED
    BY <2>1, <2>2, <2>3, <2>4, <2>5, CallKinds
<1>3. (call[d].proc \in FileCalls => GivenOut(call[d].fh))'
  <2>1. CASE call'[d].fh = call[d].fh /\ call'[d].proc = call[d].proc
    <3> PICK h : h = call[d].fh
      OBVIOUS
    <3> SUFFICES ASSUME call[d].proc \in FileCalls PROVE GivenOut(call[d].fh)'
      BY <2>1 DEF FileCalls
    <3>1. GivenOut(h)
      BY DEF HandlesGiven
    <3>2. GivenOut(h)'
      BY <3>1, GivenStays
    <3> QED
      BY <2>1, <3>2
  <2>2. CASE call'[d] = NoCall
    BY <2>2 DEF FileCalls, NoCall
  <2>3. CASE Call(d)
    <3> PICK r \in Requests(d) : call' = [call EXCEPT ![d] = r]
      BY <2>3 DEF Call
    <3>0. call'[d] = r
      BY DEF Typed
    <3> SUFFICES ASSUME r.proc \in FileCalls PROVE GivenOut(call[d].fh)'
      BY <3>0 DEF FileCalls
    <3>1. handle[d] # NoHandle /\ \E n \in agenda.lens : r.fh = Cut(handle[d], n)
      BY RequestFacts, Zenon
    <3> PICK n : r.fh = Cut(handle[d], n)
      BY <3>1
    <3>2. GivenOut(handle[d])
      BY <3>1 DEF HandlesGiven
    <3>3. GivenOut(Cut(handle[d], n))
      BY <3>2, GivenCut
    <3> PICK h : h = Cut(handle[d], n)
      OBVIOUS
    <3>4. GivenOut(h)'
      BY <3>3, GivenStays
    <3> QED
      BY <3>0, <3>4
  <2>4. CASE Serve(d) /\ GoesOn(d)
    <3>1. call[d].proc \in FileCalls => call'[d].fh = call[d].fh
      BY <2>4, GoesOnFacts
    <3>2. call'[d].proc = call[d].proc
      BY <2>4, GoesOnFacts
    <3> QED
      BY <2>1, <3>1, <3>2
  <2>5. CASE \E f, m : Chmod(f, m)
    <3>1. call'[d].proc = call[d].proc /\ (call[d].proc \in FileCalls => call'[d].fh = call[d].fh)
      BY <2>5, ChmodFacts, Zenon
    <3> QED
      BY <2>1, <3>1
  <2> QED
    BY <2>1, <2>2, <2>3, <2>4, <2>5, CallKinds
<1> QED
  BY <1>1, <1>2, <1>3

------------------------------------------------------------------------------
Mask(path, auth, requested) ==
    access_mask(Attr(path, mode[path]), auth, "ReadWrite", requested)

\* A call is under way only while the server is up.
LEMMA UpFacts ==
    ASSUME Typed, NEW c \in Clients, call[c].proc # "none"
    PROVE  up /\ Len(generations) \in Nat \ {0} /\ generation \in Nat
<1>1. up /\ generations # <<>> /\ generations \in Seq(Nat)
  BY DEF Typed, NoCall
<1>2. Len(generations) \in Nat \ {0}
  BY <1>1, EmptySeq
<1> QED
  BY <1>1, <1>2 DEF generation

\* fh_to_id refuses a handle only if it is cut or of another instance.
LEMMA HandleRead ==
    ASSUME Typed, generation \in Nat, NEW fh, GivenOut(fh)
    PROVE  \/ fh_to_id(fh) = Ok(fh.id) /\ fh.gen = generation
           \/ /\ \E s \in {"BADHANDLE", "STALE"} : fh_to_id(fh) = Err(s)
              /\ fh.len # 16 \/ fh.of # Len(generations)
<1>1. fh.gen \in Nat
  BY DEF GivenOut, Typed
<1>2. fh.gen # generation => fh.of # Len(generations)
  BY DEF GivenOut, generation
<1> QED
  BY <1>1, <1>2 DEF fh_to_id

\* The ways check_access ends: no such file, not readable, or the rights.
LEMMA AccessChecked ==
    ASSUME NEW id, NEW auth, NEW requested, NEW a, a = check_access(id, auth, requested)
    PROVE  \/ a = Err("NOENT") /\ \A p \in DOMAIN ids : ids[p] # id
           \/ \E path \in DOMAIN ids :
                 /\ ids[path] = id
                 /\ \/ "r" \notin mode[path].owner /\ a = Err("ACCES")
                    \/ a = Ok([path |-> path, rights |-> Mask(path, auth, requested)])
<1>1. CASE \A p \in DOMAIN ids : ids[p] # id
  BY <1>1 DEF check_access
<1>2. CASE \E p \in DOMAIN ids : ids[p] = id
  <2> DEFINE path == CHOOSE p \in DOMAIN ids : ids[p] = id
  <2>1. path \in DOMAIN ids /\ ids[path] = id
    BY <1>2
  <2>2. a = IF "r" \notin mode[path].owner THEN Err("ACCES")
            ELSE Ok([path |-> path, rights |-> Mask(path, auth, requested)])
    BY <1>2 DEF check_access, HostLets, Mask
  <2> QED
    BY <2>1, <2>2
<1> QED
  BY <1>1, <1>2

\* A handle leads to the file it was given out for, or its generation is another's.
LEMMA FileMeant ==
    ASSUME IdsRight, up, NEW fh, GivenOut(fh), fh.gen = generation
    PROVE  /\ \A path \in DOMAIN ids : ids[path] = fh.id => Meant(fh, path)
           /\ (\A p \in DOMAIN ids : ids[p] # fh.id) => fh.of # Len(generations)
BY DEF IdsRight, GivenOut, Meant, Confused

\* What an access check with the handle comes to.
LEMMA Outcome ==
    ASSUME Typed, IdsRight, NEW c \in Clients, call[c].proc # "none",
           NEW fh, GivenOut(fh), NEW auth, NEW requested, NEW id, id = fh_to_id(fh),
           NEW a, a = check_access(id.v, auth, requested)
    PROVE  \/ /\ ~id.ok /\ id.stat \in {"BADHANDLE", "STALE"}
              /\ fh.len # 16 \/ fh.of # Len(generations)
           \/ id.ok /\ ~a.ok /\ a.stat = "NOENT" /\ fh.of # Len(generations)
           \/ \E path \in DOMAIN ids :
                 /\ id.ok /\ Meant(fh, path)
                 /\ \/ ~a.ok /\ a.stat = "ACCES" /\ "r" \notin mode[path].owner
                    \/ a.ok /\ a.v.path = path /\ a.v.rights = Mask(path, auth, requested)
<1>1. up /\ generation \in Nat
  BY UpFacts
<1>2. \/ id = Ok(fh.id) /\ fh.gen = generation
      \/ /\ \E s \in {"BADHANDLE", "STALE"} : id = Err(s)
         /\ fh.len # 16 \/ fh.of # Len(generations)
  BY <1>1, HandleRead
<1>3. CASE \E s \in {"BADHANDLE", "STALE"} : id = Err(s) /\ (fh.len # 16 \/ fh.of # Len(generations))
  BY <1>3 DEF Err
<1>4. CASE id = Ok(fh.id) /\ fh.gen = generation
  <2>1. id.ok /\ id.v = fh.id
    BY <1>4 DEF Ok
  <2>2. a = check_access(fh.id, auth, requested)
    BY <2>1
  <2>3. CASE a = Err("NOENT") /\ \A p \in DOMAIN ids : ids[p] # fh.id
    BY <1>1, <1>4, <2>1, <2>3, FileMeant DEF Err
  <2>4. ASSUME NEW path \in DOMAIN ids, ids[path] = fh.id,
               "r" \notin mode[path].owner, a = Err("ACCES")
        PROVE  id.ok /\ Meant(fh, path) /\ ~a.ok /\ a.stat = "ACCES"
    BY <1>1, <1>4, <2>1, <2>4, FileMeant DEF Err
  <2>5. ASSUME NEW path \in DOMAIN ids, ids[path] = fh.id,
               a = Ok([path |-> path, rights |-> Mask(path, auth, requested)])
        PROVE  id.ok /\ Meant(fh, path) /\ a.ok /\ a.v.path = path /\ a.v.rights = Mask(path, auth, requested)
    BY <1>1, <1>4, <2>1, <2>5, FileMeant DEF Ok
  <2>6. \/ a = Err("NOENT") /\ \A p \in DOMAIN ids : ids[p] # fh.id
        \/ \E path \in DOMAIN ids :
              /\ ids[path] = fh.id
              /\ \/ "r" \notin mode[path].owner /\ a = Err("ACCES")
                 \/ a = Ok([path |-> path, rights |-> Mask(path, auth, requested)])
    <3> PICK i : i = fh.id
      OBVIOUS
    <3>1. a = check_access(i, auth, requested)
      BY <2>2
    <3> QED
      BY <3>1, AccessChecked
  <2>7. CASE \E path \in DOMAIN ids :
              /\ ids[path] = fh.id
              /\ \/ "r" \notin mode[path].owner /\ a = Err("ACCES")
                 \/ a = Ok([path |-> path, rights |-> Mask(path, auth, requested)])
    <3> PICK path \in DOMAIN ids :
              /\ ids[path] = fh.id
              /\ \/ "r" \notin mode[path].owner /\ a = Err("ACCES")
                 \/ a = Ok([path |-> path, rights |-> Mask(path, auth, requested)])
      BY <2>7
    <3> QED
      BY <2>4, <2>5, Zenon
  <2> QED
    BY <2>3, <2>6, <2>7, Zenon
<1> QED
  BY <1>2, <1>3, <1>4

\* The outcomes of the beginning of WRITE.
LEMMA WriteBegins ==
    ASSUME Typed, IdsRight, HandlesGiven, NEW c \in Clients, nfsproc3_write(c)
    PROVE  \/ /\ \E s \in {"BADHANDLE", "STALE", "NOENT"} : Reply(c, [stat |-> s])
              /\ call[c].fh.len # 16 \/ call[c].fh.of # Len(generations)
           \/ \E path \in DOMAIN ids :
                 /\ Meant(call[c].fh, path)
                 /\ \/ /\ Reply(c, [stat |-> "ACCES"])
                       /\ \/ "r" \notin mode[path].owner
                          \/ "MODIFY" \notin Mask(path, call[c].auth, {"MODIFY"})
                    \/ /\ Proceed(c, [at |-> "write", found |-> path])
                       /\ "MODIFY" \in Mask(path, call[c].auth, {"MODIFY"})
<1>1. call[c].proc = "WRITE" /\ GivenOut(call[c].fh)
  BY DEF nfsproc3_write, In, HandlesGiven, FileCalls
<1>2. PICK id, a : /\ id = fh_to_id(call[c].fh)
                   /\ a = check_access(id.v, call[c].auth, {"MODIFY"})
  OBVIOUS
<1>3. IF ~id.ok THEN Reply(c, [stat |-> id.stat])
      ELSE IF ~a.ok THEN Reply(c, [stat |-> a.stat])
      ELSE IF "MODIFY" \notin a.v.rights THEN Reply(c, [stat |-> "ACCES"])
      ELSE Proceed(c, [at |-> "write", found |-> a.v.path])
  BY <1>2 DEF nfsproc3_write
<1>4. PICK fh, auth, requested : fh = call[c].fh /\ auth = call[c].auth /\ requested = {"MODIFY"}
  OBVIOUS
<1>5. \/ /\ ~id.ok /\ id.stat \in {"BADHANDLE", "STALE"}
         /\ fh.len # 16 \/ fh.of # Len(generations)
      \/ id.ok /\ ~a.ok /\ a.stat = "NOENT" /\ fh.of # Len(generations)
      \/ \E path \in DOMAIN ids :
            /\ id.ok /\ Meant(fh, path)
            /\ \/ ~a.ok /\ a.stat = "ACCES" /\ "r" \notin mode[path].owner
               \/ a.ok /\ a.v.path = path /\ a.v.rights = Mask(path, auth, requested)
  BY <1>1, <1>2, <1>4, Outcome
<1> QED
  BY <1>3, <1>4, <1>5

\* The outcomes of ACCESS.
LEMMA AccessEnds ==
    ASSUME Typed, IdsRight, HandlesGiven, NEW c \in Clients, nfsproc3_access(c)
    PROVE  \/ /\ \E s \in {"BADHANDLE", "STALE", "NOENT"} : Reply(c, [stat |-> s])
              /\ call[c].fh.len # 16 \/ call[c].fh.of # Len(generations)
           \/ Reply(c, [stat |-> "ACCES"])
           \/ \E path \in DOMAIN ids :
                 /\ Meant(call[c].fh, path)
                 /\ Reply(c, [stat |-> "OK", found |-> path,
                              rights |-> Mask(path, call[c].auth, Rights)])
<1>1. call[c].proc = "ACCESS" /\ GivenOut(call[c].fh)
  BY DEF nfsproc3_access, In, HandlesGiven, FileCalls
<1>2. PICK id, a : /\ id = fh_to_id(call[c].fh)
                   /\ a = check_access(id.v, call[c].auth, Rights)
  OBVIOUS
<1>3. IF ~id.ok THEN Reply(c, [stat |-> id.stat])
      ELSE IF ~a.ok THEN Reply(c, [stat |-> a.stat])
      ELSE Reply(c, [stat |-> "OK", found |-> a.v.path, rights |-> a.v.rights])
  BY <1>2 DEF nfsproc3_access
<1>4. PICK fh, auth : fh = call[c].fh /\ auth = call[c].auth
  OBVIOUS
<1>5. \/ /\ ~id.ok /\ id.stat \in {"BADHANDLE", "STALE"}
         /\ fh.len # 16 \/ fh.of # Len(generations)
      \/ id.ok /\ ~a.ok /\ a.stat = "NOENT" /\ fh.of # Len(generations)
      \/ \E path \in DOMAIN ids :
            /\ id.ok /\ Meant(fh, path)
            /\ \/ ~a.ok /\ a.stat = "ACCES" /\ "r" \notin mode[path].owner
               \/ a.ok /\ a.v.path = path /\ a.v.rights = Mask(path, auth, Rights)
  BY <1>1, <1>2, <1>4, Outcome
<1> QED
  BY <1>3, <1>4, <1>5

\* At first no WRITE is under way.
LEMMA FilesFoundInit == Init => FilesFound
BY DEF Init, FilesFound, Writing, In, NoCall

\* Nothing of a call changes in a step that is neither its own nor the modes'.
LEMMA QuietCall ==
    ASSUME Typed, IdsRight, Next, NEW d \in Clients, call[d].proc # "none", call'[d].proc # "none"
    PROVE  Grown
<1>1. ~Start
  BY DEF Start, Typed, NoCall
<1>2. ~Gone
  BY DEF Gone, NoCall
<1> QED
  BY <1>1, <1>2, StepKinds

\* Every step keeps FilesFound.
LEMMA FilesFoundStep ==
    ASSUME Typed, IdsRight, HandlesGiven, FilesFound, Next
    PROVE  FilesFound'
<1> SUFFICES ASSUME NEW d \in Clients, Writing(d)'
             PROVE  /\ "found" \in DOMAIN call'[d]
                    /\ call'[d].found \in DOMAIN ids'
                    /\ Meant(call[d].fh, call[d].found)'
  BY DEF FilesFound
<1>0. call'[d].proc = "WRITE" /\ call'[d].at \in {"write", "sync"}
  BY DEF Writing, In
<1>1. ASSUME Writing(d), "found" \in DOMAIN call'[d], call'[d].found = call[d].found,
             call'[d].fh = call[d].fh
      PROVE  /\ call'[d].found \in DOMAIN ids'
             /\ Meant(call[d].fh, call[d].found)'
  <2>1. call[d].found \in DOMAIN ids /\ Meant(call[d].fh, call[d].found)
    BY <1>1 DEF FilesFound
  <2>2. Grown
    BY <1>0, <1>1, QuietCall DEF Writing, In
  <2> QED
    BY <1>1, <2>1, <2>2 DEF Grown, Meant, Confused, generation
<1>2. CASE call'[d] = call[d]
  <2>1. Writing(d)
    BY <1>0, <1>2 DEF Writing, In
  <2> QED
    BY <1>1, <1>2, <2>1 DEF FilesFound
<1>3. CASE call'[d] = NoCall
  BY <1>0, <1>3 DEF NoCall
<1>4. CASE Call(d)
  <2> PICK r \in Requests(d) : call' = [call EXCEPT ![d] = r]
    BY <1>4 DEF Call
  <2>1. r.at # "write" /\ r.at # "sync"
    BY RequestFacts, Zenon
  <2> QED
    BY <1>0, <2>1 DEF Typed
<1>5. CASE \E f, m : Chmod(f, m)
  <2>0. PICK f, m : Chmod(f, m)
    BY <1>5
  <2>1. /\ DOMAIN call'[d] = DOMAIN call[d]
        /\ \A x \in DOMAIN call[d] \ {"modes"} : call'[d][x] = call[d][x]
        /\ call'[d].proc = call[d].proc
        /\ call[d].proc \in FileCalls => (call'[d].at = call[d].at /\ call'[d].fh = call[d].fh)
    BY <2>0, ChmodFacts, Zenon
  <2>2. Writing(d)
    BY <1>0, <2>1 DEF Writing, In, FileCalls
  <2>3. "found" \in DOMAIN call[d]
    BY <2>2 DEF FilesFound
  <2> QED
    BY <1>0, <1>1, <2>1, <2>2, <2>3 DEF FileCalls
<1>6. CASE Serve(d) /\ GoesOn(d)
  <2>0. ~Answered(d)
    BY <1>6, GoesOnFacts DEF Answered, Reply, Nothing
  <2>1. /\ call[d].proc = "WRITE"
        /\ call'[d].fh = call[d].fh
    BY <1>0, <1>6, GoesOnFacts DEF FileCalls
  <2>2. nfsproc3_write(d) \/ write(d)
    BY <1>6, <2>0, <2>1 DEF Serve, mountproc3_mnt, Mounted, Unmounted, nfsproc3_access, Committed,
        PortCall, Ports, In, Answered
  <2>3. CASE nfsproc3_write(d)
    <3> PICK path \in DOMAIN ids : Meant(call[d].fh, path) /\ Proceed(d, [at |-> "write", found |-> path])
      BY <2>0, <2>3, WriteBegins DEF Answered
    <3> PICK r : r = [at |-> "write", found |-> path]
      OBVIOUS
    <3>1. /\ DOMAIN call'[d] = DOMAIN r \cup DOMAIN call[d]
          /\ \A x \in DOMAIN r : call'[d][x] = r[x]
      BY ProceedFacts DEF Typed
    <3>2. "found" \in DOMAIN call'[d] /\ call'[d].found = path
      BY <3>1
    <3>3. UNCHANGED <<ids, generations>>
      BY <2>3 DEF nfsproc3_write, instance
    <3> QED
      BY <2>1, <3>2, <3>3 DEF Meant, Confused, generation
  <2>4. CASE write(d)
    <3> PICK v, b : Proceed(d, [at |-> "sync", version |-> v, failed |-> b])
      BY <2>0, <2>4 DEF write, Answered
    <3> PICK r : r = [at |-> "sync", version |-> v, failed |-> b]
      OBVIOUS
    <3>1. /\ DOMAIN call'[d] = DOMAIN r \cup DOMAIN call[d]
          /\ \A x \in DOMAIN call[d] \ DOMAIN r : call'[d][x] = call[d][x]
      BY ProceedFacts DEF Typed
    <3>2. Writing(d)
      BY <2>4 DEF write, Writing
    <3>3. "found" \in DOMAIN call[d]
      BY <3>2 DEF FilesFound
    <3>4. "found" \in DOMAIN call'[d] /\ call'[d].found = call[d].found
      BY <3>1, <3>3
    <3> QED
      BY <1>1, <2>1, <3>2, <3>4
  <2> QED
    BY <2>2, <2>3, <2>4
<1> QED
  BY <1>2, <1>3, <1>4, <1>5, <1>6, CallKinds

\* The answer of ACCESS is about the file of the handle, and no good handle is refused.
AnswersSafe ==
    /\ (answer.proc = "ACCESS" /\ answer.res.stat = "OK") =>
           Meant(answer.call.fh, answer.res.found)
    /\ (answer.proc \in {"ACCESS", "WRITE"} /\ answer.res.stat \in {"STALE", "BADHANDLE", "NOENT"}) =>
           (answer.call.fh.of # Len(generations) \/ answer.call.fh.len # 16)

\* Only the end of a call leaves an answer.
LEMMA AnswerKinds ==
    ASSUME Next
    PROVE  answer' = Nothing \/ \E c \in Clients : Serve(c) /\ Answered(c)
<1>1. ASSUME NEW c \in Clients, Serve(c) PROVE answer' = Nothing \/ Answered(c)
  BY <1>1, ServeFacts DEF GoesOn, Proceed
<1> QED
  BY <1>1 DEF Next, Start, Crash, HostCrash, Gone, Tick, WriteBack, Chmod, Connect, Call, Receive, Stop

\* The end of WRITE.
LEMMA WriteEnds ==
    ASSUME NEW c \in Clients, write(c) \/ Committed(c), Answered(c)
    PROVE  /\ \E a : Reply(c, a) /\ a.stat \in {"IO", "OK"}
           /\ UNCHANGED generations
           /\ Writing(c)
<1>1. CASE write(c)
  <2>1. Reply(c, [stat |-> "IO"])
    BY <1>1 DEF write, Answered, Reply, Proceed, Nothing
  <2> QED
    BY <1>1, <2>1 DEF write, instance, Writing
<1>2. CASE Committed(c)
  <2>1. \/ Reply(c, [stat |-> "OK", committed |-> "FILE_SYNC", verf |-> generation])
        \/ Reply(c, [stat |-> "IO"])
    BY <1>2 DEF Committed
  <2> QED
    BY <1>2, <2>1 DEF Committed, instance, Writing
<1> QED
  BY <1>1, <1>2

\* The answers of ACCESS and WRITE are safe, whatever the handle.
LEMMA AnswersSafeStep ==
    ASSUME Typed, IdsRight, HandlesGiven, Next
    PROVE  AnswersSafe'
<1>1. CASE answer' = Nothing
  BY <1>1 DEF AnswersSafe, Nothing
<1>2. ASSUME NEW c \in Clients, Serve(c), Answered(c) PROVE AnswersSafe'
  <2>0. answer'.proc = call[c].proc /\ answer'.call = call[c] /\ answer' # Nothing
    BY <1>2, ServeFacts DEF Answered, Reply, Nothing
  <2>1. CASE nfsproc3_access(c)
    <3>1. UNCHANGED generations
      BY <2>1 DEF nfsproc3_access, instance
    <3>2. CASE \/ /\ \E s \in {"BADHANDLE", "STALE", "NOENT"} : Reply(c, [stat |-> s])
                  /\ call[c].fh.len # 16 \/ call[c].fh.of # Len(generations)
               \/ Reply(c, [stat |-> "ACCES"])
      BY <2>0, <3>1, <3>2 DEF AnswersSafe, Reply
    <3>3. CASE \E path \in DOMAIN ids :
                  /\ Meant(call[c].fh, path)
                  /\ Reply(c, [stat |-> "OK", found |-> path, rights |-> Mask(path, call[c].auth, Rights)])
      BY <2>0, <3>1, <3>3 DEF AnswersSafe, Reply, Meant, Confused, generation
    <3> QED
      BY <2>1, <3>2, <3>3, AccessEnds
  <2>2. CASE nfsproc3_write(c)
    <3>1. UNCHANGED generations /\ call[c].proc = "WRITE"
      BY <2>2 DEF nfsproc3_write, instance, In
    <3>2. CASE /\ \E s \in {"BADHANDLE", "STALE", "NOENT"} : Reply(c, [stat |-> s])
               /\ call[c].fh.len # 16 \/ call[c].fh.of # Len(generations)
      BY <2>0, <3>1, <3>2 DEF AnswersSafe, Reply
    <3>3. CASE Reply(c, [stat |-> "ACCES"])
      BY <2>0, <3>1, <3>3 DEF AnswersSafe, Reply
    <3>4. ~\E r : Proceed(c, r)
      BY <2>0 DEF Proceed
    <3> QED
      BY <2>2, <3>2, <3>3, <3>4, WriteBegins
  <2>3. CASE write(c) \/ Committed(c)
    BY <1>2, <2>0, <2>3, WriteEnds DEF AnswersSafe, Reply, Writing, In
  <2>4. CASE call[c].proc \notin {"ACCESS", "WRITE"}
    BY <2>0, <2>4 DEF AnswersSafe
  <2>5. \/ nfsproc3_access(c) \/ nfsproc3_write(c) \/ write(c) \/ Committed(c)
        \/ call[c].proc \notin {"ACCESS", "WRITE"}
    BY <1>2 DEF Serve, mountproc3_mnt, Mounted, Unmounted, PortCall, Ports, In
  <2> QED
    BY <2>1, <2>2, <2>3, <2>4, <2>5
<1> QED
  BY <1>1, <1>2, AnswerKinds

HandlesInv == Typed /\ IdsRight /\ HandlesGiven /\ FilesFound /\ AnswersSafe

\* HandlesInv is inductive.
LEMMA HandlesInvariant == Spec => []HandlesInv
<1>1. Init => HandlesInv
  <2>1. Init => AnswersSafe
    BY DEF Init, Nothing, AnswersSafe
  <2> QED
    BY <2>1, TypedInit, IdsInit, HandlesInit, FilesFoundInit DEF HandlesInv
<1>2. HandlesInv /\ [Next]_vars => HandlesInv'
  <2> SUFFICES ASSUME HandlesInv, [Next]_vars PROVE HandlesInv'
    OBVIOUS
  <2>1. CASE Next
    BY <2>1, TypedStep, IdsStep, HandlesStep, FilesFoundStep, AnswersSafeStep DEF HandlesInv
  <2>2. CASE UNCHANGED vars
    BY <2>2 DEF HandlesInv, vars, host, instance, signal, portmap, Typed, IdsRight, HandlesGiven, GivenOut,
        FilesFound, AnswersSafe, Meant, Confused, generation, Writing, In, Files, NoCall
  <2> QED
    BY <2>1, <2>2
<1> QED
  BY <1>1, <1>2, PTL DEF Spec

\* ACCESS and WRITE work on the file for which the client got its handle.
THEOREM HandlesLead == Spec => []HandlesSafe
<1>1. HandlesInv => HandlesSafe
  BY DEF HandlesInv, HandlesSafe, FilesFound, AnswersSafe, Meant, Writing
<1> QED
  BY <1>1, HandlesInvariant, PTL

------------------------------------------------------------------------------
(* The data: what a client was told of a write that the host did not fail  *)
(* is not newer than the disk, which is not newer than memory; a WRITE     *)
(* that is about to be synchronised has its version in memory, unless the  *)
(* host failed to write it.                                                *)
Versions ==
    /\ DOMAIN page = Files /\ DOMAIN disk = Files /\ DOMAIN acknowledged = Files
    /\ \A f \in Files :
           /\ page[f] \in Nat /\ disk[f] \in Nat /\ disk[f] <= page[f]
           /\ \A told \in acknowledged[f] :
                  ~told.failed => told.version \in Nat /\ told.version <= disk[f]
WritesInMemory ==
    \A c \in Clients :
        In(c, {"WRITE"}, "sync") =>
            /\ {"version", "failed"} \subseteq DOMAIN call[c]
            /\ ~call[c].failed => (call[c].version \in Nat /\ call[c].version <= page[call[c].found])
DataInv == HandlesInv /\ Versions /\ WritesInMemory

\* Every step keeps the order of the versions, a host that goes down too.
LEMMA VersionsStep ==
    ASSUME DataInv, Next
    PROVE  Versions'
<1> USE DEF Files
<1>1. CASE UNCHANGED <<agenda, page, disk, acknowledged>>
  BY <1>1 DEF DataInv, Versions
<1>2. CASE HostCrash
  BY <1>2 DEF HostCrash, Gone, DataInv, Versions
<1>3. ASSUME NEW f \in Files, WriteBack(f) PROVE Versions'
  BY <1>3 DEF WriteBack, DataInv, Versions
<1>4. ASSUME NEW c \in Clients, write(c) PROVE Versions'
  <2> PICK p : p = call[c].found
    OBVIOUS
  <2>1. UNCHANGED <<agenda, disk, acknowledged>> /\ (page' = page \/ page' = [page EXCEPT ![p] = page[p] + 1])
    BY <1>4 DEF write
  <2> QED
    BY <2>1 DEF DataInv, Versions
<1>5. ASSUME NEW c \in Clients, Committed(c) PROVE Versions'
  <2> PICK p, v, b : p = call[c].found /\ v = call[c].version /\ b = call[c].failed
    OBVIOUS
  <2>1. p \in Files /\ (~b => v \in Nat /\ v <= page[p])
    BY <1>5 DEF Committed, DataInv, WritesInMemory, HandlesInv, FilesFound, IdsRight, Writing
  <2>2. UNCHANGED <<agenda, page>>
    BY <1>5 DEF Committed
  <2>3. disk' = disk \/ disk' = [disk EXCEPT ![p] = page[p]]
    BY <1>5 DEF Committed, sync_all
  <2>4. PICK told : /\ \/ acknowledged' = acknowledged
                       \/ acknowledged' = [acknowledged EXCEPT ![p] = @ \cup {told}]
                    /\ told.version = v
                    /\ ~told.failed => ~b /\ disk'[p] = page[p]
    <3> PICK whole, half : whole = [version |-> v, failed |-> b] /\ half = [version |-> v, failed |-> TRUE]
      OBVIOUS
    <3>1. CASE disk' = sync_all(p) /\ (\/ acknowledged' = acknowledged
                                       \/ acknowledged' = [acknowledged EXCEPT ![p] = @ \cup {whole}])
      BY <2>1, <3>1 DEF sync_all, DataInv, Versions
    <3>2. CASE \/ acknowledged' = acknowledged
               \/ acknowledged' = [acknowledged EXCEPT ![p] = @ \cup {half}]
      <4>1. half.version = v /\ half.failed
        OBVIOUS
      <4> QED
        BY <3>2, <4>1, Zenon
    <3> QED
      BY <1>5, <3>1, <3>2 DEF Committed
  <2>5. ASSUME NEW f \in Files
        PROVE  /\ disk'[f] \in Nat /\ disk[f] <= disk'[f] /\ disk'[f] <= page[f]
               /\ \A t \in acknowledged'[f] :
                      ~t.failed => t.version \in Nat /\ t.version <= disk'[f]
    <3>1. disk'[f] \in Nat /\ disk[f] <= disk'[f] /\ disk'[f] <= page[f]
      BY <2>3 DEF DataInv, Versions
    <3>2. ASSUME NEW t \in acknowledged[f], ~t.failed PROVE t.version \in Nat /\ t.version <= disk'[f]
      <4> PICK w : w = t.version
        OBVIOUS
      <4>1. w \in Nat /\ w <= disk[f] /\ disk[f] \in Nat
        BY <3>2 DEF DataInv, Versions
      <4> QED
        BY <3>1, <4>1
    <3>3. acknowledged'[f] \subseteq acknowledged[f] \cup (IF f = p THEN {told} ELSE {})
      BY <2>4 DEF DataInv, Versions
    <3>4. f = p /\ ~told.failed => told.version \in Nat /\ told.version <= disk'[f]
      BY <2>1, <2>4
    <3> QED
      BY <3>1, <3>2, <3>3, <3>4
  <2>6. DOMAIN disk' = Files /\ DOMAIN acknowledged' = Files
    BY <2>3, <2>4 DEF DataInv, Versions
  <2> QED
    BY <2>2, <2>5, <2>6 DEF DataInv, Versions
<1>6. \/ UNCHANGED <<agenda, page, disk, acknowledged>> \/ HostCrash
      \/ (\E f \in Files : WriteBack(f)) \/ \E c \in Clients : write(c) \/ Committed(c)
  BY ZenonT(40) DEF Next, Start, Crash, Gone, Tick, Chmod, Connect, Call, Serve, Receive, Stop, mountproc3_mnt, Mounted,
      Unmounted, nfsproc3_access, nfsproc3_write, PortCall, host
<1> QED
  BY <1>1, <1>2, <1>3, <1>4, <1>5, <1>6

\* Memory loses a version only when the host goes down.
LEMMA MemoryGrows ==
    ASSUME DataInv, Next, ~Gone, NEW f \in Files
    PROVE  page'[f] \in Nat /\ page[f] <= page'[f]
<1>1. ASSUME NEW c \in Clients, write(c) PROVE page'[f] \in Nat /\ page[f] <= page'[f]
  <2> PICK p : p = call[c].found
    OBVIOUS
  <2>1. page' = page \/ page' = [page EXCEPT ![p] = page[p] + 1]
    BY <1>1 DEF write
  <2> QED
    BY <2>1 DEF DataInv, Versions
<1>2. CASE UNCHANGED page
  BY <1>2 DEF DataInv, Versions
<1> QED
  BY <1>1, <1>2 DEF Next, Start, Crash, HostCrash, Tick, WriteBack, Chmod, Connect, Call, Serve, Receive, Stop,
      mountproc3_mnt, Mounted, Unmounted, nfsproc3_access, nfsproc3_write, Committed, PortCall, host

\* A WRITE that is not yet synchronised stays in memory, whatever others write.
LEMMA WritesStep ==
    ASSUME DataInv, Next
    PROVE  WritesInMemory'
<1> DEFINE InMemory(d) ==
        /\ {"version", "failed"} \subseteq DOMAIN call'[d]
        /\ ~call'[d].failed => (call'[d].version \in Nat /\ call'[d].version <= page'[call'[d].found])
<1> SUFFICES ASSUME NEW d \in Clients, In(d, {"WRITE"}, "sync")'
             PROVE  InMemory(d)
  BY DEF WritesInMemory
<1> USE DEF HandlesInv
<1>0. call'[d].proc = "WRITE" /\ call'[d].at = "sync"
  BY DEF In
<1>1. ASSUME In(d, {"WRITE"}, "sync"), call'[d].failed = call[d].failed, {"version", "failed"} \subseteq DOMAIN call'[d],
             call'[d].version = call[d].version, call'[d].found = call[d].found
      PROVE  InMemory(d)
  <2>1. ~Gone
    BY <1>0 DEF Gone, NoCall
  <2> PICK p, v : p = call[d].found /\ v = call[d].version
    OBVIOUS
  <2>2. p \in Files /\ (~call[d].failed => (v \in Nat /\ v <= page[p]))
    BY <1>1 DEF DataInv, WritesInMemory, FilesFound, Writing, IdsRight
  <2>3. page[p] \in Nat /\ page'[p] \in Nat /\ page[p] <= page'[p]
    BY <2>1, <2>2, MemoryGrows DEF DataInv, Versions
  <2> QED
    BY <1>1, <2>2, <2>3
<1>2. CASE call'[d] = call[d]
  BY <1>0, <1>1, <1>2 DEF In, DataInv, WritesInMemory
<1>3. CASE call'[d] = NoCall
  BY <1>0, <1>3 DEF NoCall
<1>4. CASE Call(d)
  <2> PICK r \in Requests(d) : call' = [call EXCEPT ![d] = r]
    BY <1>4 DEF Call
  <2>1. r.at # "sync"
    BY RequestFacts, Zenon
  <2> QED
    BY <1>0, <2>1 DEF Typed, DataInv
<1>5. CASE \E f, m : Chmod(f, m)
  <2>0. PICK f, m : Chmod(f, m)
    BY <1>5
  <2>1. /\ DOMAIN call'[d] = DOMAIN call[d]
        /\ \A x \in DOMAIN call[d] \ {"modes"} : call'[d][x] = call[d][x]
        /\ call'[d].proc = call[d].proc
        /\ call[d].proc \in FileCalls => (call'[d].at = call[d].at /\ call'[d].fh = call[d].fh)
    BY <2>0, ChmodFacts, Zenon DEF DataInv
  <2>2. In(d, {"WRITE"}, "sync")
    BY <1>0, <2>1 DEF In, FileCalls
  <2>3. "found" \in DOMAIN call[d]
    BY <2>2 DEF FilesFound, DataInv, Writing
  <2> QED
    BY <1>0, <1>1, <2>1, <2>2, <2>3 DEF DataInv, WritesInMemory
<1>6. CASE Serve(d) /\ GoesOn(d)
  <2>0. ~Answered(d)
    BY <1>6, GoesOnFacts DEF Answered, Reply, Nothing, DataInv
  <2>1. call[d].proc = "WRITE"
    BY <1>0, <1>6, GoesOnFacts DEF DataInv
  <2>2. nfsproc3_write(d) \/ write(d)
    BY <1>6, <2>0, <2>1 DEF Serve, mountproc3_mnt, Mounted, Unmounted, nfsproc3_access, Committed,
        PortCall, Ports, In, Answered
  <2>3. CASE nfsproc3_write(d)
    <3> PICK p : Proceed(d, [at |-> "write", found |-> p])
      BY <2>0, <2>3 DEF nfsproc3_write, Answered
    <3> PICK r : r = [at |-> "write", found |-> p]
      OBVIOUS
    <3>1. \A x \in DOMAIN r : call'[d][x] = r[x]
      BY ProceedFacts DEF Typed, DataInv
    <3> QED
      BY <1>0, <3>1
  <2>4. CASE write(d)
    <3>0. Writing(d)
      BY <2>4 DEF write, Writing
    <3> PICK p : p = call[d].found
      OBVIOUS
    <3>1. "found" \in DOMAIN call[d] /\ p \in Files
      BY <3>0 DEF FilesFound, DataInv, IdsRight
    <3> PICK v, b : /\ Proceed(d, [at |-> "sync", version |-> v, failed |-> b])
                    /\ v = page[p] + 1
                    /\ ~b => page' = [page EXCEPT ![p] = v]
      BY <2>0, <2>4 DEF write, Answered
    <3> PICK r : r = [at |-> "sync", version |-> v, failed |-> b]
      OBVIOUS
    <3>2. /\ DOMAIN call'[d] = DOMAIN r \cup DOMAIN call[d]
          /\ \A x \in DOMAIN call[d] \ DOMAIN r : call'[d][x] = call[d][x]
          /\ \A x \in DOMAIN r : call'[d][x] = r[x]
      BY ProceedFacts DEF Typed, DataInv
    <3>3. /\ {"version", "failed"} \subseteq DOMAIN call'[d]
          /\ call'[d].version = v /\ call'[d].failed = b
          /\ call'[d].found = p
      BY <3>1, <3>2
    <3>4. v \in Nat /\ (~b => v <= page'[p])
      BY <3>1 DEF DataInv, Versions
    <3> QED
      BY <3>3, <3>4
  <2> QED
    BY <2>2, <2>3, <2>4
<1> QED
  BY <1>2, <1>3, <1>4, <1>5, <1>6, CallKinds DEF DataInv

\* DataInv is inductive, given HandlesInv.
LEMMA DataInvariant == Spec => []DataInv
<1>1. Init => Versions /\ WritesInMemory
  BY DEF Init, Versions, WritesInMemory, In, NoCall
<1>2. DataInv /\ HandlesInv' /\ [Next]_vars => DataInv'
  <2> SUFFICES ASSUME DataInv, HandlesInv', [Next]_vars PROVE DataInv'
    OBVIOUS
  <2>1. CASE Next
    BY <2>1, VersionsStep, WritesStep DEF DataInv
  <2>2. CASE UNCHANGED vars
    BY <2>2 DEF DataInv, vars, host, instance, signal, portmap, Versions, WritesInMemory, In, Files
  <2> QED
    BY <2>1, <2>2
<1>3. HandlesInv /\ Versions /\ WritesInMemory <=> DataInv
  BY DEF DataInv
<1> QED
  BY <1>1, <1>2, <1>3, HandlesInvariant, PTL DEF Spec

\* What a client was told is on the disk is there, and read back, unless the
\* host failed to write or synchronise it, which the server does not tell.
THEOREM DataKept == Spec => []DataDurable
<1>1. DataInv => DataDurable
  BY DEF DataInv, DataDurable, Versions
<1> QED
  BY <1>1, DataInvariant, PTL

------------------------------------------------------------------------------
(* Permissions: a call under way has met the mode its file has, and a      *)
(* WRITE that goes on has met one that lets its user write.                *)
ModesMet ==
    /\ DOMAIN mode = Files
    /\ \A c \in Clients :
           call[c].proc \in FileCalls =>
               /\ DOMAIN call[c].modes = Files
               /\ \A f \in Files : mode[f] \in call[c].modes[f]
MayWrite ==
    \A c \in Clients :
        Writing(c) => \E m \in call[c].modes[call[c].found] : Lets(m, call[c].auth, "w")

AnswersPermitted ==
    /\ (answer.proc = "WRITE" /\ answer.res.stat = "OK") =>
           \E m \in answer.call.modes[answer.call.found] : Lets(m, answer.call.auth, "w")
    /\ (answer.proc = "ACCESS" /\ answer.res.stat = "OK" /\ agenda.tree[answer.res.found] = "NF3REG") =>
           \E m \in answer.call.modes[answer.res.found] :
               /\ "MODIFY" \in answer.res.rights <=> Lets(m, answer.call.auth, "w")
               /\ "READ" \in answer.res.rights <=> Lets(m, answer.call.auth, "r")
    /\ (/\ answer.proc = "WRITE" /\ answer.res.stat = "ACCES"
        /\ agenda.tree[answer.call.fh.path] = "NF3REG" /\ ~Confused(answer.call.fh)) =>
           \E m \in answer.call.modes[answer.call.fh.path] :
               ~Lets(m, answer.call.auth, "w") \/ "r" \notin m.owner

PermissionInv == HandlesInv /\ ModesMet /\ MayWrite /\ AnswersPermitted

\* access_mask grants what the mode lets the user do.
LEMMA MaskLets ==
    ASSUME NEW path, NEW auth, NEW requested
    PROVE  /\ "MODIFY" \in Mask(path, auth, requested) => Lets(mode[path], auth, "w")
           /\ (agenda.tree[path] = "NF3REG" /\ "MODIFY" \in requested) =>
                 ("MODIFY" \in Mask(path, auth, requested) <=> Lets(mode[path], auth, "w"))
           /\ "READ" \in requested =>
                 ("READ" \in Mask(path, auth, requested) <=> Lets(mode[path], auth, "r"))
<1> PICK attr, perms : attr = Attr(path, mode[path]) /\ perms = unix_mode_perms(attr, auth)
  OBVIOUS
<1>1. \A bit \in {"r", "w"} : bit \in perms <=> Lets(mode[path], auth, bit)
  BY DEF unix_mode_perms, auth_matches_gid, Lets, Attr, Bits
<1>2. attr.ftype = agenda.tree[path]
  BY DEF Attr
<1>3. "MODIFY" \in Mask(path, auth, requested) <=>
         /\ "MODIFY" \in requested /\ "w" \in perms
         /\ attr.ftype = "NF3REG" \/ (attr.ftype = "NF3DIR" /\ "x" \in perms)
  BY DEF Mask, access_mask
<1>4. "READ" \in Mask(path, auth, requested) <=> "READ" \in requested /\ "r" \in perms
  BY DEF Mask, access_mask
<1> QED
  BY <1>1, <1>2, <1>3, <1>4

\* A call has met a mode that its file has.
LEMMA MetStays ==
    ASSUME Typed, ModesMet, Next, NEW d \in Clients, call[d].proc \in FileCalls, ~Call(d), call'[d] # NoCall
    PROVE  /\ DOMAIN call'[d].modes = Files
           /\ \A f \in Files : call[d].modes[f] \subseteq call'[d].modes[f] /\ mode'[f] \in call'[d].modes[f]
<1>1. ASSUME NEW f, NEW m, Chmod(f, m)
      PROVE  /\ DOMAIN call'[d].modes = Files
             /\ \A g \in Files : call[d].modes[g] \subseteq call'[d].modes[g] /\ mode'[g] \in call'[d].modes[g]
  <2> PICK r, s : r = call[d] /\ s = Meets(r, f, m)
    OBVIOUS
  <2>1. call'[d] = s /\ mode' = [mode EXCEPT ![f] = m]
    BY <1>1 DEF Chmod, FileCalls
  <2>2. "modes" \in DOMAIN r /\ DOMAIN r.modes = Files /\ \A g \in Files : mode[g] \in r.modes[g]
    BY DEF Typed, ModesMet
  <2>3. /\ DOMAIN s.modes = DOMAIN r.modes
        /\ \A x \in DOMAIN r.modes : r.modes[x] \subseteq s.modes[x]
        /\ f \in DOMAIN r.modes => m \in s.modes[f]
    BY <2>2, MeetsFacts
  <2> QED
    BY <2>1, <2>2, <2>3 DEF ModesMet
<1>2. ASSUME UNCHANGED mode, call'[d].modes = call[d].modes
      PROVE  /\ DOMAIN call'[d].modes = Files
             /\ \A g \in Files : call[d].modes[g] \subseteq call'[d].modes[g] /\ mode'[g] \in call'[d].modes[g]
  BY <1>2 DEF ModesMet
<1>3. UNCHANGED mode \/ \E f, m : Chmod(f, m)
  BY DEF Next, Start, Crash, HostCrash, Gone, Tick, WriteBack, Connect, Call, Serve, mountproc3_mnt, Mounted,
      Unmounted, nfsproc3_access, nfsproc3_write, write, Committed, PortCall, Receive, Stop, host
<1>4. CASE Serve(d) /\ GoesOn(d)
  <2>1. call'[d].modes = call[d].modes /\ UNCHANGED mode
    BY <1>4, GoesOnFacts, ServeFacts
  <2> QED
    BY <1>2, <2>1
<1>5. CASE call'[d] = call[d]
  BY <1>1, <1>2, <1>3, <1>5
<1> QED
  BY <1>1, <1>4, <1>5, CallKinds

\* Every step keeps ModesMet.
LEMMA ModesStep ==
    ASSUME Typed, IdsRight, ModesMet, Next
    PROVE  ModesMet'
<1>0. DOMAIN mode' = Files' /\ Files' = Files
  BY DEF Next, Start, Crash, HostCrash, Gone, Tick, WriteBack, Chmod, Connect, Call, Serve, mountproc3_mnt, Mounted,
      Unmounted, nfsproc3_access, nfsproc3_write, write, Committed, PortCall, Receive, Stop, host, ModesMet, Files
<1> SUFFICES ASSUME NEW d \in Clients, call'[d].proc \in FileCalls
             PROVE  DOMAIN call'[d].modes = Files /\ \A f \in Files : mode'[f] \in call'[d].modes[f]
  BY <1>0 DEF ModesMet
<1>1. CASE Call(d)
  <2> PICK r \in Requests(d) : call' = [call EXCEPT ![d] = r]
    BY <1>1 DEF Call
  <2>1. r.proc \in FileCalls => r.modes = [f \in Files |-> {mode[f]}]
    BY RequestFacts, Zenon
  <2>2. call'[d] = r /\ UNCHANGED mode
    BY <1>1 DEF Typed, Call, host
  <2> QED
    BY <2>1, <2>2
<1>2. CASE ~Call(d)
  <2>1. call'[d] # NoCall
    BY DEF NoCall, FileCalls
  <2>2. call[d].proc \in FileCalls
    <3>1. CASE Serve(d) /\ GoesOn(d)
      BY <3>1, GoesOnFacts DEF FileCalls
    <3>2. CASE \E f, m : Chmod(f, m)
      <4>1. call'[d].proc = call[d].proc
        BY <3>2, ChmodFacts, Zenon
      <4> QED
        BY <4>1 DEF FileCalls
    <3> QED
      BY <1>2, <2>1, <3>1, <3>2, CallKinds
  <2> QED
    BY <1>2, <2>1, <2>2, MetStays
<1> QED
  BY <1>1, <1>2

\* A WRITE that goes on did so before, or has just been let.
LEMMA WritingKinds ==
    ASSUME HandlesInv, Next, NEW d \in Clients, Writing(d)'
    PROVE  \/ /\ Writing(d)
              /\ call'[d].found = call[d].found /\ call'[d].auth = call[d].auth
           \/ \E path \in DOMAIN ids :
                 /\ call[d].proc = "WRITE" /\ Serve(d) /\ GoesOn(d)
                 /\ "MODIFY" \in Mask(path, call[d].auth, {"MODIFY"})
                 /\ call'[d].found = path
<1> USE DEF HandlesInv
<1>0. call'[d].proc = "WRITE" /\ call'[d].at \in {"write", "sync"}
  BY DEF Writing, In
<1>2. CASE call'[d] = call[d]
  BY <1>0, <1>2 DEF Writing, In
<1>3. CASE call'[d] = NoCall
  BY <1>0, <1>3 DEF NoCall
<1>4. CASE Call(d)
  <2> PICK r \in Requests(d) : call' = [call EXCEPT ![d] = r]
    BY <1>4 DEF Call
  <2>1. r.at # "write" /\ r.at # "sync"
    BY RequestFacts, Zenon
  <2> QED
    BY <1>0, <2>1 DEF Typed
<1>5. CASE \E f, m : Chmod(f, m)
  <2>0. PICK f, m : Chmod(f, m)
    BY <1>5
  <2>1. /\ \A x \in DOMAIN call[d] \ {"modes"} : call'[d][x] = call[d][x]
        /\ call'[d].proc = call[d].proc
        /\ call[d].proc \in FileCalls => (call'[d].at = call[d].at /\ call'[d].auth = call[d].auth)
    BY <2>0, ChmodFacts, Zenon
  <2>2. Writing(d)
    BY <1>0, <2>1 DEF Writing, In, FileCalls
  <2>3. "found" \in DOMAIN call[d]
    BY <2>2 DEF FilesFound
  <2> QED
    BY <1>0, <2>1, <2>2, <2>3 DEF FileCalls
<1>6. CASE Serve(d) /\ GoesOn(d)
  <2>0. ~Answered(d)
    BY <1>6, GoesOnFacts DEF Answered, Reply, Nothing
  <2>1. call[d].proc = "WRITE" /\ call'[d].auth = call[d].auth
    BY <1>0, <1>6, GoesOnFacts DEF FileCalls
  <2>2. nfsproc3_write(d) \/ write(d)
    BY <1>6, <2>0, <2>1 DEF Serve, mountproc3_mnt, Mounted, Unmounted, nfsproc3_access, Committed,
        PortCall, Ports, In, Answered
  <2>3. CASE nfsproc3_write(d)
    <3> PICK path \in DOMAIN ids : /\ "MODIFY" \in Mask(path, call[d].auth, {"MODIFY"})
                                   /\ Proceed(d, [at |-> "write", found |-> path])
      BY <2>0, <2>3, WriteBegins DEF Answered
    <3> PICK r : r = [at |-> "write", found |-> path]
      OBVIOUS
    <3>1. \A x \in DOMAIN r : call'[d][x] = r[x]
      BY ProceedFacts DEF Typed
    <3>2. call'[d].found = path
      BY <3>1
    <3> QED
      BY <1>6, <2>1, <3>2
  <2>4. CASE write(d)
    <3> PICK v, b : Proceed(d, [at |-> "sync", version |-> v, failed |-> b])
      BY <2>0, <2>4 DEF write, Answered
    <3> PICK r : r = [at |-> "sync", version |-> v, failed |-> b]
      OBVIOUS
    <3>1. \A x \in DOMAIN call[d] \ DOMAIN r : call'[d][x] = call[d][x]
      BY ProceedFacts DEF Typed
    <3>2. Writing(d)
      BY <2>4 DEF write, Writing
    <3>3. "found" \in DOMAIN call[d]
      BY <3>2 DEF FilesFound
    <3>4. call'[d].found = call[d].found
      BY <3>1, <3>3
    <3> QED
      BY <2>1, <3>2, <3>4
  <2> QED
    BY <2>2, <2>3, <2>4
<1> QED
  BY <1>2, <1>3, <1>4, <1>5, <1>6, CallKinds

\* A WRITE goes on only after it met a mode that lets its user write.
LEMMA MayWriteStep ==
    ASSUME HandlesInv, ModesMet, MayWrite, Next
    PROVE  MayWrite'
<1> SUFFICES ASSUME NEW d \in Clients, Writing(d)'
             PROVE  \E m \in call'[d].modes[call'[d].found] : Lets(m, call'[d].auth, "w")
  BY DEF MayWrite, Lets
<1> USE DEF HandlesInv
<1>0. call'[d] # NoCall
  BY DEF Writing, In, NoCall
<1>1. CASE Writing(d) /\ call'[d].found = call[d].found /\ call'[d].auth = call[d].auth
  <2>1. PICK m \in call[d].modes[call[d].found] : Lets(m, call[d].auth, "w")
    BY <1>1 DEF MayWrite
  <2>2. call[d].found \in Files /\ call[d].proc = "WRITE"
    BY <1>1 DEF FilesFound, IdsRight, Writing, In
  <2>3. ~Call(d)
    BY <2>2 DEF Call, NoCall
  <2>4. call[d].modes[call[d].found] \subseteq call'[d].modes[call[d].found]
    BY <1>0, <2>2, <2>3, MetStays DEF FileCalls
  <2> QED
    BY <1>1, <2>1, <2>4
<1>2. ASSUME NEW path \in DOMAIN ids, call[d].proc = "WRITE", Serve(d), GoesOn(d),
             "MODIFY" \in Mask(path, call[d].auth, {"MODIFY"}), call'[d].found = path
      PROVE  \E m \in call'[d].modes[call'[d].found] : Lets(m, call'[d].auth, "w")
  <2>1. Lets(mode[path], call[d].auth, "w")
    BY <1>2, MaskLets
  <2>2. mode[path] \in call[d].modes[path]
    BY <1>2 DEF ModesMet, IdsRight, FileCalls
  <2>3. call'[d].modes = call[d].modes /\ call'[d].auth = call[d].auth
    BY <1>2, GoesOnFacts DEF FileCalls
  <2> QED
    BY <1>2, <2>1, <2>2, <2>3
<1> QED
  BY <1>1, <1>2, WritingKinds

\* The answers of ACCESS and WRITE agree with a mode that was met.
LEMMA AnswersPermittedStep ==
    ASSUME HandlesInv, ModesMet, MayWrite, Next
    PROVE  AnswersPermitted'
<1> USE DEF HandlesInv
<1>1. CASE answer' = Nothing
  BY <1>1 DEF AnswersPermitted, Nothing
<1>2. ASSUME NEW c \in Clients, Serve(c), Answered(c) PROVE AnswersPermitted'
  <2>0. answer'.proc = call[c].proc /\ answer'.call = call[c] /\ answer' # Nothing
    BY <1>2, ServeFacts DEF Answered, Reply, Nothing
  <2> PICK auth, modes, fh : auth = call[c].auth /\ modes = call[c].modes /\ fh = call[c].fh
    OBVIOUS
  <2>a. UNCHANGED <<agenda, generations>>
    BY <1>2, ServeFacts DEF instance
  <2>1. CASE nfsproc3_access(c)
    <3>0. call[c].proc = "ACCESS"
      BY <2>1 DEF nfsproc3_access, In
    <3>2. CASE (\E s \in {"BADHANDLE", "STALE", "NOENT"} : Reply(c, [stat |-> s])) \/ Reply(c, [stat |-> "ACCES"])
      BY <2>0, <3>0, <3>2 DEF AnswersPermitted, Reply
    <3>3. ASSUME NEW path \in DOMAIN ids,
                 Reply(c, [stat |-> "OK", found |-> path, rights |-> Mask(path, call[c].auth, Rights)])
          PROVE  AnswersPermitted'
      <4> PICK rights : rights = Mask(path, auth, Rights)
        OBVIOUS
      <4>1. answer'.res.found = path /\ answer'.res.rights = rights
        BY <3>3 DEF Reply
      <4>2. mode[path] \in modes[path]
        BY <3>0 DEF ModesMet, IdsRight, FileCalls
      <4>3. agenda.tree[path] = "NF3REG" =>
                /\ "MODIFY" \in rights <=> Lets(mode[path], auth, "w")
                /\ "READ" \in rights <=> Lets(mode[path], auth, "r")
        BY MaskLets DEF Rights
      <4> QED
        BY <2>0, <2>a, <3>0, <4>1, <4>2, <4>3 DEF AnswersPermitted
    <3> QED
      BY <2>1, <3>2, <3>3, AccessEnds
  <2>2. CASE nfsproc3_write(c)
    <3>0. call[c].proc = "WRITE"
      BY <2>2 DEF nfsproc3_write, In
    <3>2. CASE \E s \in {"BADHANDLE", "STALE", "NOENT"} : Reply(c, [stat |-> s])
      BY <2>0, <3>0, <3>2 DEF AnswersPermitted, Reply
    <3>3. ASSUME NEW path \in DOMAIN ids, Meant(call[c].fh, path), Reply(c, [stat |-> "ACCES"]),
                 \/ "r" \notin mode[path].owner
                 \/ "MODIFY" \notin Mask(path, call[c].auth, {"MODIFY"})
          PROVE  AnswersPermitted'
      <4>1. answer'.res.stat = "ACCES"
        BY <3>3 DEF Reply
      <4>2. mode[path] \in modes[path]
        BY <3>0 DEF ModesMet, IdsRight, FileCalls
      <4>3. agenda.tree[path] = "NF3REG" => (~Lets(mode[path], auth, "w") \/ "r" \notin mode[path].owner)
        BY <3>3, MaskLets
      <4>4. ~Confused(fh) => path = fh.path
        BY <3>3 DEF Meant
      <4>5. Confused(fh)' = Confused(fh)
        BY <2>a DEF Confused, generation
      <4> QED
        BY <2>0, <2>a, <3>0, <4>1, <4>2, <4>3, <4>4, <4>5 DEF AnswersPermitted
    <3>4. ~\E r : Proceed(c, r)
      BY <2>0 DEF Proceed
    <3> QED
      BY <2>2, <3>2, <3>3, <3>4, WriteBegins
  <2>3. CASE write(c) \/ Committed(c)
    <3>1. Writing(c) /\ answer'.res.stat \in {"IO", "OK"}
      BY <1>2, <2>3, WriteEnds DEF Reply
    <3>2. \E m \in call[c].modes[call[c].found] : Lets(m, call[c].auth, "w")
      BY <3>1 DEF MayWrite
    <3>3. call[c].proc = "WRITE"
      BY <3>1 DEF Writing, In
    <3> QED
      BY <2>0, <3>1, <3>2, <3>3 DEF AnswersPermitted
  <2>4. CASE call[c].proc \notin {"ACCESS", "WRITE"}
    BY <2>0, <2>4 DEF AnswersPermitted
  <2>5. \/ nfsproc3_access(c) \/ nfsproc3_write(c) \/ write(c) \/ Committed(c)
        \/ call[c].proc \notin {"ACCESS", "WRITE"}
    BY <1>2 DEF Serve, mountproc3_mnt, Mounted, Unmounted, PortCall, Ports, In
  <2> QED
    BY <2>1, <2>2, <2>3, <2>4, <2>5
<1> QED
  BY <1>1, <1>2, AnswerKinds

\* PermissionInv is inductive, given HandlesInv.
LEMMA PermissionInvariant == Spec => []PermissionInv
<1>1. Init => ModesMet /\ MayWrite /\ AnswersPermitted
  BY DEF Init, ModesMet, MayWrite, AnswersPermitted, Writing, In, NoCall, Nothing, FileCalls
<1>2. PermissionInv /\ HandlesInv' /\ [Next]_vars => PermissionInv'
  <2> SUFFICES ASSUME PermissionInv, HandlesInv', [Next]_vars PROVE PermissionInv'
    OBVIOUS
  <2>1. CASE Next
    BY <2>1, ModesStep, MayWriteStep, AnswersPermittedStep DEF PermissionInv, HandlesInv
  <2>2. CASE UNCHANGED vars
    BY <2>2 DEF PermissionInv, vars, host, instance, signal, portmap, ModesMet, MayWrite, AnswersPermitted,
        Writing, In, Files, Confused, generation
  <2> QED
    BY <2>1, <2>2
<1>3. HandlesInv /\ ModesMet /\ MayWrite /\ AnswersPermitted <=> PermissionInv
  BY DEF PermissionInv
<1> QED
  BY <1>1, <1>2, <1>3, HandlesInvariant, PTL DEF Spec

\* A WRITE changes a file only if a mode it had meanwhile lets its user do so.
THEOREM PermissionsHold == Spec => []PermissionHeld
<1>1. PermissionInv => PermissionHeld
  BY DEF PermissionInv, PermissionHeld, AnswersPermitted
<1> QED
  BY <1>1, PermissionInvariant, PTL

------------------------------------------------------------------------------
(* Ports: a key is in the table just if it has one owner, the last SET     *)
(* that was granted and not taken back, and its port is the owner's.       *)
Mappings == [prog : Nat, vers : Nat, prot : Nat, port : Nat]
Keys == [prog : Nat, vers : Nat, prot : Nat]
PortRequests == [proc : PortCalls, mapping : Mappings, at : {"begin"}]

Owned(key) ==
    /\ \A i, j \in Grants(key) : i = j
    /\ \A i \in Grants(key) : key \in DOMAIN table /\ table[key] = granted[i].mapping.port % 2^16
    /\ key \in DOMAIN table => Grants(key) # {}

PortsTyped ==
    /\ \A c \in Clients : call[c].proc \in PortCalls => call[c] \in PortRequests
    /\ granted \in Seq(PortRequests)
    /\ DOMAIN table \subseteq Keys
PortsOwned == \A key \in Keys : Owned(key)

\* A list of mappings tells what the owners have.
Lists(list) ==
    /\ {KeyOf(m) : m \in list} = {KeyOf(granted[i].mapping) : i \in Owners}
    /\ \A m, n \in list : KeyOf(m) = KeyOf(n) => m = n
    /\ \A m \in list : \A i \in Grants(KeyOf(m)) : Tells(m.port, granted[i].mapping.port)
PortsAnswered ==
    /\ answer.proc = "GETPORT" =>
           LET owners == Grants(KeyOf(answer.call.mapping))
           IN  IF owners = {} THEN answer.res.result = 0
               ELSE \A i \in owners : Tells(answer.res.result, granted[i].mapping.port)
    /\ answer.proc = "DUMP" => Lists(answer.res.result)

PortsInv == Typed /\ PortsTyped /\ PortsOwned /\ PortsAnswered

\* The key of a mapping; 16 bits of a port hold it.
LEMMA KeyFacts ==
    ASSUME NEW mapping \in Mappings
    PROVE  /\ KeyOf(mapping) \in Keys
           /\ KeyOf(mapping) = [prog |-> mapping.prog, vers |-> mapping.vers, prot |-> mapping.prot]
           /\ Tells(mapping.port % 2^16, mapping.port)
<1>1. KeyOf(mapping) = [prog |-> mapping.prog, vers |-> mapping.vers, prot |-> mapping.prot]
  BY DEF KeyOf, PortmapKey
<1>2. KeyOf(mapping) \in Keys
  BY <1>1 DEF Mappings, Keys
<1>3. Tells(mapping.port % 2^16, mapping.port)
  <2>1. 2^16 \in Nat \ {0}
    OBVIOUS
  <2> PICK n, port : n = 2^16 /\ port = mapping.port
    OBVIOUS
  <2>2. port \in Nat /\ (port < n => port % n = port)
    BY <2>1 DEF Mappings
  <2> QED
    BY <2>2 DEF Tells
<1> QED
  BY <1>1, <1>2, <1>3

\* What another grant, or another UNSET, does to the owners of a key.
LEMMA GrantsAppend ==
    ASSUME granted \in Seq(PortRequests), NEW r \in PortRequests, granted' = Append(granted, r), NEW key \in Keys
    PROVE  \A i : i \in Grants(key)' <=>
              \/ i \in Grants(key) /\ ~Forgets(r, key)
              \/ i = Len(granted) + 1 /\ r.proc = "SET" /\ KeyOf(r.mapping) = key
<1> DEFINE n == Len(granted)
<1>1. /\ n \in Nat /\ DOMAIN granted = 1..n /\ DOMAIN granted' = 1..(n + 1) /\ Len(granted') = n + 1
      /\ \A i \in 1..n : granted'[i] = granted[i]
      /\ granted'[n + 1] = r
  OBVIOUS
<1> HIDE DEF n
<1>2. \A i : i \in Grants(key) <=>
         /\ i \in 1..n /\ granted[i].proc = "SET" /\ KeyOf(granted[i].mapping) = key
         /\ \A j \in (i + 1)..n : ~Forgets(granted[j], key)
  BY <1>1 DEF Grants, n
<1>3. \A i : i \in Grants(key)' <=>
         /\ i \in 1..(n + 1) /\ granted'[i].proc = "SET" /\ KeyOf(granted'[i].mapping) = key
         /\ \A j \in (i + 1)..(n + 1) : ~Forgets(granted'[j], key)
  BY <1>1 DEF Grants
<1> SUFFICES ASSUME NEW i
             PROVE  i \in Grants(key)' <=>
                       \/ i \in Grants(key) /\ ~Forgets(r, key)
                       \/ i = n + 1 /\ r.proc = "SET" /\ KeyOf(r.mapping) = key
  BY DEF n
<1>4. CASE i \in 1..n
  <2>1. granted'[i] = granted[i] /\ i # n + 1 /\ i \in 1..(n + 1)
    BY <1>1, <1>4
  <2>2. (\A j \in (i + 1)..(n + 1) : ~Forgets(granted'[j], key)) <=>
           (\A j \in (i + 1)..n : ~Forgets(granted[j], key)) /\ ~Forgets(r, key)
    <3>1. (i + 1)..(n + 1) = ((i + 1)..n) \cup {n + 1}
      BY <1>1, <1>4
    <3>2. \A j \in (i + 1)..n : granted'[j] = granted[j]
      BY <1>1, <1>4
    <3> QED
      BY <1>1, <3>1, <3>2
  <2> QED
    BY <1>2, <1>3, <1>4, <2>1, <2>2
<1>5. CASE i = n + 1
  <2>1. (i + 1)..(n + 1) = {}
    BY <1>1, <1>5
  <2> QED
    BY <1>1, <1>2, <1>3, <1>5, <2>1
<1>6. CASE i \notin 1..n /\ i # n + 1
  <2>1. i \notin 1..(n + 1)
    BY <1>1, <1>6
  <2> QED
    BY <1>2, <1>3, <1>6, <2>1
<1> QED
  BY <1>4, <1>5, <1>6

\* At first the table is empty.
LEMMA PortsInit == Init => PortsInv
<1> SUFFICES ASSUME Init PROVE PortsInv
  OBVIOUS
<1>1. PortsTyped
  BY DEF Init, PortsTyped, NoCall, PortCalls, NewTable
<1>2. PortsOwned
  <2>1. \A key \in Keys : Grants(key) = {}
    BY DEF Init, Grants
  <2> QED
    BY <2>1 DEF Init, PortsOwned, Owned, NewTable
<1>3. PortsAnswered
  BY DEF Init, PortsAnswered, Nothing
<1> QED
  BY <1>1, <1>2, <1>3, TypedInit DEF PortsInv

\* What the calls of PORTMAP do.
LEMMA PortKinds ==
    ASSUME NEW c \in Clients, PortCall(c), PortsTyped, NEW r, r = call[c]
    PROVE  /\ r \in PortRequests
           /\ answer'.proc = r.proc /\ answer'.call = r
           /\ \/ /\ r.proc = "SET"
                 /\ \/ KeyOf(r.mapping) \in DOMAIN table /\ UNCHANGED portmap
                    \/ /\ KeyOf(r.mapping) \notin DOMAIN table
                       /\ table' = Override(Entry(KeyOf(r.mapping), r.mapping.port % 2^16), table)
                       /\ granted' = Append(granted, r)
              \/ /\ r.proc = "UNSET"
                 /\ table' = pmapproc_unsetport(table, r.mapping).table
                 /\ granted' = IF pmapproc_unsetport(table, r.mapping).result
                               THEN Append(granted, r) ELSE granted
              \/ /\ r.proc = "GETPORT" /\ UNCHANGED portmap
                 /\ answer'.res.result = get_port(table, KeyOf(r.mapping))
              \/ /\ r.proc = "DUMP" /\ UNCHANGED portmap
                 /\ answer'.res.result = pmapproc_dump(table)
<1>1. r \in PortRequests
  BY DEF PortCall, Ports, In, PortsTyped, PortCalls
<1>2. answer'.proc = r.proc /\ answer'.call = r
  BY DEF PortCall, Ports, Reply
<1>3. CASE In(c, {"SET"}, "begin")
  <2> PICK set : set = pmapproc_setport(table, r.mapping)
    OBVIOUS
  <2>1. /\ table' = set.table
        /\ granted' = IF set.result THEN Append(granted, r) ELSE granted
    BY <1>3 DEF PortCall, Ports, In
  <2>2. CASE KeyOf(r.mapping) \in DOMAIN table
    BY <1>1, <1>2, <1>3, <2>1, <2>2 DEF pmapproc_setport, portmap, In
  <2>3. CASE KeyOf(r.mapping) \notin DOMAIN table
    BY <1>1, <1>2, <1>3, <2>1, <2>3 DEF pmapproc_setport, In
  <2> QED
    BY <2>2, <2>3
<1>4. CASE In(c, {"UNSET"}, "begin")
  BY <1>1, <1>2, <1>4 DEF PortCall, Ports, In
<1>5. CASE In(c, {"GETPORT"}, "begin")
  BY <1>1, <1>2, <1>5 DEF PortCall, Ports, In, Reply, pmapproc_getport
<1>6. CASE In(c, {"DUMP"}, "begin")
  BY <1>1, <1>2, <1>6 DEF PortCall, Ports, In, Reply
<1> QED
  BY <1>3, <1>4, <1>5, <1>6 DEF PortCall, Ports

\* UNSET takes a key from its owner just if it forgets the key.
LEMMA UnsetFacts ==
    ASSUME NEW r \in PortRequests, r.proc = "UNSET", DOMAIN table \subseteq Keys,
           NEW unset, unset = pmapproc_unsetport(table, r.mapping)
    PROVE  /\ \A key : key \in DOMAIN unset.table <=> (key \in DOMAIN table /\ ~Forgets(r, key))
           /\ \A key \in DOMAIN unset.table : unset.table[key] = table[key]
           /\ unset.result <=> \E key \in DOMAIN table : Forgets(r, key)
<1> DEFINE gone == {PortmapKey(r.mapping.prog, r.mapping.vers, p) : p \in {IPPROTO_TCP, IPPROTO_UDP}}
<1>1. unset.table = Without(table, gone) /\ (unset.result <=> gone \cap DOMAIN table # {})
  BY DEF pmapproc_unsetport
<1>2. \A key \in Keys : key \in gone <=> Forgets(r, key)
  <2> TAKE key \in Keys
  <2>1. key = [prog |-> key.prog, vers |-> key.vers, prot |-> key.prot]
    BY DEF Keys
  <2>2. ASSUME key \in gone PROVE Forgets(r, key)
    BY <2>2 DEF PortmapKey, Forgets
  <2>3. ASSUME Forgets(r, key) PROVE key \in gone
    BY <2>1, <2>3 DEF PortmapKey, Forgets
  <2> QED
    BY <2>2, <2>3
<1> HIDE DEF gone
<1>3. DOMAIN unset.table = DOMAIN table \ gone /\ \A key \in DOMAIN table \ gone : unset.table[key] = table[key]
  BY <1>1 DEF Without, Restrict
<1> QED
  BY <1>1, <1>2, <1>3

\* SET and UNSET keep every key with at most one owner.
LEMMA OwnedStep ==
    ASSUME PortsInv, NEW c \in Clients, PortCall(c)
    PROVE  /\ granted' \in Seq(PortRequests)
           /\ DOMAIN table' \subseteq Keys
           /\ PortsOwned'
<1> USE DEF PortsInv
<1> PICK r : r = call[c]
  OBVIOUS
<1>1. r \in PortRequests /\ r.mapping \in Mappings
  BY PortKinds DEF PortRequests
<1>2. CASE UNCHANGED portmap
  BY <1>2 DEF PortsTyped, PortsOwned, Owned, Grants, portmap
<1>3. CASE /\ r.proc = "SET" /\ KeyOf(r.mapping) \notin DOMAIN table
           /\ table' = Override(Entry(KeyOf(r.mapping), r.mapping.port % 2^16), table)
           /\ granted' = Append(granted, r)
  <2> PICK k, low : k = KeyOf(r.mapping) /\ low = r.mapping.port % 2^16
    OBVIOUS
  <2>1. k \in Keys
    BY <1>1, KeyFacts
  <2>2. /\ DOMAIN table' = DOMAIN table \cup {k}
        /\ table'[k] = low
        /\ \A key \in DOMAIN table \ {k} : table'[key] = table[key]
    BY <1>3 DEF Override, Entry
  <2>3. granted' \in Seq(PortRequests)
    BY <1>1, <1>3 DEF PortsTyped
  <2>4. /\ Len(granted) \in Nat
        /\ \A i \in 1..Len(granted) : granted'[i] = granted[i]
        /\ granted'[Len(granted) + 1] = r
    BY <1>1, <1>3 DEF PortsTyped
  <2>5. ASSUME NEW key \in Keys PROVE Owned(key)'
    <3>1. \A i : i \in Grants(key)' <=>
              i \in Grants(key) \/ (i = Len(granted) + 1 /\ k = key)
      BY <1>1, <1>3, GrantsAppend DEF PortsTyped, Forgets
    <3>2. Grants(key) \subseteq 1..Len(granted)
      BY DEF Grants, PortsTyped
    <3>3. Owned(key)
      BY DEF PortsOwned
    <3>4. CASE key = k
      <4>1. Grants(key) = {}
        BY <1>3, <3>3, <3>4 DEF Owned
      <4> QED
        <5> PICK n : n = Len(granted) + 1
          OBVIOUS
        <5>1. Grants(key)' = {n}
          BY <3>1, <3>4, <4>1
        <5>2. key \in DOMAIN table' /\ table'[key] = granted'[n].mapping.port % 2^16
          BY <2>2, <2>4, <3>4
        <5> QED
          BY <5>1, <5>2 DEF Owned
    <3>5. CASE key # k
      BY <2>2, <2>4, <3>1, <3>2, <3>3, <3>5 DEF Owned
    <3> QED
      BY <3>4, <3>5
  <2> QED
    BY <2>1, <2>2, <2>3, <2>5 DEF PortsOwned, PortsTyped
<1>4. CASE /\ r.proc = "UNSET"
           /\ table' = pmapproc_unsetport(table, r.mapping).table
           /\ granted' = IF pmapproc_unsetport(table, r.mapping).result
                         THEN Append(granted, r) ELSE granted
  <2> PICK unset : unset = pmapproc_unsetport(table, r.mapping)
    OBVIOUS
  <2>1. /\ \A key : key \in DOMAIN unset.table <=> (key \in DOMAIN table /\ ~Forgets(r, key))
        /\ \A key \in DOMAIN unset.table : unset.table[key] = table[key]
        /\ unset.result <=> \E key \in DOMAIN table : Forgets(r, key)
    BY <1>1, <1>4, UnsetFacts DEF PortsTyped
  <2>2. /\ \A key : key \in DOMAIN table' <=> (key \in DOMAIN table /\ ~Forgets(r, key))
        /\ \A key \in DOMAIN table' : table'[key] = table[key]
    BY <1>4, <2>1
  <2>3. CASE unset.result
    <3>1. granted' = Append(granted, r)
      BY <1>4, <2>3
    <3>2. granted' \in Seq(PortRequests)
      BY <1>1, <3>1 DEF PortsTyped
    <3>3. \A i \in 1..Len(granted) : granted'[i] = granted[i]
      BY <1>1, <3>1 DEF PortsTyped
    <3>4. ASSUME NEW key \in Keys PROVE Owned(key)'
      <4>1. \A i : i \in Grants(key)' <=> i \in Grants(key) /\ ~Forgets(r, key)
        BY <1>1, <1>4, <3>1, GrantsAppend DEF PortsTyped
      <4>2. Grants(key) \subseteq 1..Len(granted)
        BY DEF Grants, PortsTyped
      <4>3. Owned(key)
        BY DEF PortsOwned
      <4> QED
        BY <2>2, <3>3, <4>1, <4>2, <4>3 DEF Owned
    <3> QED
      BY <2>2, <3>2, <3>4 DEF PortsOwned, PortsTyped
  <2>4. CASE ~unset.result
    <3>1. granted' = granted
      BY <1>4, <2>4
    <3>2. \A key \in DOMAIN table : ~Forgets(r, key)
      BY <2>1, <2>4
    <3>3. DOMAIN table' = DOMAIN table /\ \A key \in DOMAIN table : table'[key] = table[key]
      BY <2>2, <3>2
    <3>4. \A key \in Keys : Grants(key)' = Grants(key)
      BY <3>1 DEF Grants
    <3> QED
      BY <3>1, <3>3, <3>4 DEF PortsOwned, Owned, PortsTyped
  <2> QED
    BY <2>3, <2>4
<1> QED
  BY <1>2, <1>3, <1>4, PortKinds

\* A PORTMAP call has a mapping.
LEMMA PortsTypedStep ==
    ASSUME Typed, PortsTyped, Next, NEW d \in Clients, call'[d].proc \in PortCalls
    PROVE  call'[d] \in PortRequests
<1>1. CASE call'[d] = call[d]
  BY <1>1 DEF PortsTyped
<1>2. CASE call'[d] = NoCall
  BY <1>2 DEF NoCall, PortCalls
<1>3. CASE Call(d)
  <2> PICK r \in Requests(d) : call' = [call EXCEPT ![d] = r]
    BY <1>3 DEF Call
  <2>1. r.proc \in PortCalls => r \in [proc : PortCalls, mapping : agenda.mappings, at : {"begin"}]
    BY RequestFacts, Zenon
  <2>2. agenda.mappings \subseteq Mappings
    BY AgendaAssumption DEF Typed, Mappings
  <2>3. call'[d] = r
    BY DEF Typed
  <2> QED
    BY <2>1, <2>2, <2>3 DEF PortRequests
<1>4. CASE \E f, m : Chmod(f, m)
  <2>1. call'[d].proc = call[d].proc
    BY <1>4, ChmodFacts, Zenon
  <2>2. call'[d] = call[d]
    BY <1>4, <2>1 DEF Chmod, PortCalls
  <2> QED
    BY <1>1, <2>2
<1>5. CASE Serve(d) /\ GoesOn(d)
  <2>0. ~Answered(d)
    BY <1>5, GoesOnFacts DEF Answered, Reply, Nothing
  <2>1. call[d].proc \in {"MNT", "WRITE"}
    BY <1>5, <2>0 DEF Serve, mountproc3_mnt, Mounted, Unmounted, nfsproc3_access, nfsproc3_write, write, Committed,
        PortCall, Ports, In, Answered
  <2> QED
    BY <1>5, <2>1, GoesOnFacts DEF PortCalls
<1> QED
  BY <1>1, <1>2, <1>3, <1>4, <1>5, CallKinds

\* What was granted are PORTMAP calls.
LEMMA GrantedTyped ==
    ASSUME PortsTyped, NEW j \in DOMAIN granted
    PROVE  granted[j] \in PortRequests /\ granted[j].mapping \in Mappings
<1>1. granted[j] \in PortRequests
  BY DEF PortsTyped
<1> PICK r : r = granted[j]
  OBVIOUS
<1>2. r.mapping \in Mappings
  BY <1>1 DEF PortRequests
<1> QED
  BY <1>1, <1>2

\* The table is what DUMP says of it.
LEMMA DumpFacts ==
    ASSUME PortsTyped, PortsOwned
    PROVE  Lists(pmapproc_dump(table))
<1> DEFINE Row(key) == [prog |-> key.prog, vers |-> key.vers, prot |-> key.prot, port |-> table[key]]
<1>1. \A j \in DOMAIN granted : granted[j].mapping \in Mappings
  BY GrantedTyped
<1>2. ASSUME NEW m \in pmapproc_dump(table)
      PROVE  KeyOf(m) \in DOMAIN table /\ m = Row(KeyOf(m))
  <2> PICK key \in DOMAIN table : m = Row(key)
    BY DEF pmapproc_dump
  <2>1. key = [prog |-> key.prog, vers |-> key.vers, prot |-> key.prot]
    BY DEF PortsTyped, Keys
  <2>2. KeyOf(m) = key
    BY <2>1 DEF KeyOf, PortmapKey
  <2> QED
    BY <2>2
<1>3. ASSUME NEW key \in DOMAIN table
      PROVE  \E m \in pmapproc_dump(table) : KeyOf(m) = key
  <2>1. key = [prog |-> key.prog, vers |-> key.vers, prot |-> key.prot]
    BY DEF PortsTyped, Keys
  <2>2. Row(key) \in pmapproc_dump(table)
    BY DEF pmapproc_dump
  <2>3. KeyOf(Row(key)) = key
    BY <2>1 DEF KeyOf, PortmapKey
  <2> QED
    BY <2>2, <2>3
<1>4. ASSUME NEW key \in DOMAIN table
      PROVE  \E i \in Owners : KeyOf(granted[i].mapping) = key
  <2>1. Grants(key) # {}
    BY DEF PortsOwned, Owned, PortsTyped
  <2> PICK i \in Grants(key) : TRUE
    BY <2>1
  <2>2. i \in DOMAIN granted /\ KeyOf(granted[i].mapping) = key
    BY DEF Grants
  <2>3. i \in Owners
    BY <2>2 DEF Owners
  <2> QED
    BY <2>2, <2>3
<1>5. ASSUME NEW i \in Owners
      PROVE  KeyOf(granted[i].mapping) \in DOMAIN table
  <2> PICK j \in DOMAIN granted : i \in Grants(KeyOf(granted[j].mapping))
    BY DEF Owners
  <2> PICK key : key = KeyOf(granted[j].mapping)
    OBVIOUS
  <2>1. key \in Keys /\ i \in Grants(key)
    BY <1>1, KeyFacts
  <2>2. key \in DOMAIN table /\ KeyOf(granted[i].mapping) = key
    BY <2>1 DEF PortsOwned, Owned, Grants
  <2> QED
    BY <2>2
<1>6. ASSUME NEW m \in pmapproc_dump(table), NEW i \in Grants(KeyOf(m))
      PROVE  Tells(m.port, granted[i].mapping.port)
  <2> PICK key : key = KeyOf(m)
    OBVIOUS
  <2>1. key \in DOMAIN table /\ m = Row(key)
    BY <1>2
  <2>2. m.port = table[key]
    BY <2>1
  <2>3. table[key] = granted[i].mapping.port % 2^16 /\ i \in DOMAIN granted
    BY <2>1 DEF PortsOwned, Owned, PortsTyped, Grants
  <2> QED
    BY <1>1, <2>2, <2>3, KeyFacts
<1> HIDE DEF Row
<1>7. {KeyOf(m) : m \in pmapproc_dump(table)} = {KeyOf(granted[i].mapping) : i \in Owners}
  BY <1>2, <1>3, <1>4, <1>5
<1> QED
  BY <1>2, <1>6, <1>7 DEF Lists

\* What a list tells does not change while nothing is granted.
LEMMA ListsKept ==
    ASSUME UNCHANGED granted, NEW list, Lists(list)
    PROVE  Lists(list)'
<1>1. Owners' = Owners /\ \A key : Grants(key)' = Grants(key)
  BY DEF Owners, Grants
<1> QED
  BY <1>1 DEF Lists

\* GETPORT and DUMP answer with the owners' ports.
LEMMA PortsAnsweredStep ==
    ASSUME PortsInv, Next
    PROVE  PortsAnswered'
<1> USE DEF PortsInv
<1>1. CASE answer' = Nothing
  BY <1>1 DEF PortsAnswered, Nothing
<1>2. ASSUME NEW c \in Clients, Serve(c), Answered(c) PROVE PortsAnswered'
  <2>0. answer'.proc = call[c].proc
    BY <1>2 DEF Answered, Reply
  <2>1. CASE PortCall(c)
    <3> PICK r : r = call[c]
      OBVIOUS
    <3>0. r \in PortRequests /\ r.mapping \in Mappings /\ answer'.proc = r.proc /\ answer'.call = r
      BY <2>1, PortKinds DEF PortRequests
    <3>1. CASE r.proc = "SET" \/ r.proc = "UNSET"
      BY <3>0, <3>1 DEF PortsAnswered
    <3>2. CASE r.proc = "GETPORT"
      <4>1. UNCHANGED portmap /\ answer'.res.result = get_port(table, KeyOf(r.mapping))
        BY <2>1, <3>2, PortKinds
      <4>2. Owned(KeyOf(r.mapping))
        BY <3>0, KeyFacts DEF PortsOwned
      <4> PICK key : key = KeyOf(r.mapping)
        OBVIOUS
      <4>3. IF Grants(key) = {} THEN answer'.res.result = 0
            ELSE \A i \in Grants(key) : Tells(answer'.res.result, granted[i].mapping.port)
        <5>1. \A i \in Grants(key) : granted[i].mapping \in Mappings
          BY GrantedTyped DEF Grants
        <5> QED
          BY <4>1, <4>2, <5>1, KeyFacts DEF get_port, Owned
      <4> QED
        BY <3>0, <3>2, <4>1, <4>3 DEF PortsAnswered, portmap, Grants
    <3>3. CASE r.proc = "DUMP"
      <4>1. UNCHANGED portmap /\ answer'.res.result = pmapproc_dump(table)
        BY <2>1, <3>3, PortKinds
      <4> QED
        <5> PICK list : list = pmapproc_dump(table)
          OBVIOUS
        <5>1. Lists(list)'
          BY <4>1, DumpFacts, ListsKept DEF portmap
        <5> QED
          BY <3>0, <3>3, <4>1, <5>1 DEF PortsAnswered
    <3> QED
      BY <3>0, <3>1, <3>2, <3>3 DEF PortRequests, PortCalls
  <2>2. CASE ~PortCall(c)
    <3>1. call[c].proc \notin PortCalls
      BY <1>2, <2>2 DEF Serve, mountproc3_mnt, Mounted, Unmounted, nfsproc3_access, nfsproc3_write, write, Committed, In, PortCalls
    <3> QED
      BY <2>0, <3>1 DEF PortsAnswered, PortCalls
  <2> QED
    BY <2>1, <2>2
<1> QED
  BY <1>1, <1>2, AnswerKinds

\* PortsInv is inductive.
LEMMA PortsInvariant == Spec => []PortsInv
<1>1. PortsInv /\ [Next]_vars => PortsInv'
  <2> SUFFICES ASSUME PortsInv, [Next]_vars PROVE PortsInv'
    OBVIOUS
  <2>1. CASE Next
    <3>1. \A d \in Clients : call'[d].proc \in PortCalls => call'[d] \in PortRequests
      BY <2>1, PortsTypedStep DEF PortsInv
    <3>2. granted' \in Seq(PortRequests) /\ DOMAIN table' \subseteq Keys /\ PortsOwned'
      <4>1. CASE UNCHANGED portmap
        BY <4>1, SMTT(20) DEF PortsInv, PortsTyped, PortsOwned, Owned, Grants, portmap
      <4>2. CASE Start
        <5>1. granted' = <<>> /\ table' = <<>>
          BY <4>2 DEF Start, NewTable
        <5>2. \A key \in Keys : Grants(key)' = {}
          BY <5>1 DEF Grants
        <5> QED
          BY <5>1, <5>2 DEF PortsOwned, Owned
      <4>3. CASE \E c \in Clients : PortCall(c)
        BY <4>3, OwnedStep
      <4> QED
        BY <2>1, <4>1, <4>2, <4>3 DEF Next, Crash, HostCrash, Gone, Tick, WriteBack, Chmod, Connect, Call, Serve,
            mountproc3_mnt, Mounted, Unmounted, nfsproc3_access, nfsproc3_write, write, Committed, Receive, Stop
    <3> QED
      BY <2>1, <3>1, <3>2, TypedStep, PortsAnsweredStep DEF PortsInv, PortsTyped
  <2>2. CASE UNCHANGED vars
    <3>0. /\ UNCHANGED <<agenda, clock, up, generations, conn, handle, call>>
          /\ UNCHANGED <<answer, granted, table>>
      BY <2>2 DEF vars, host, instance, portmap
    <3>1. Typed'
      BY <3>0 DEF PortsInv, Typed
    <3>2. PortsTyped'
      BY <3>0 DEF PortsInv, PortsTyped
    <3>3. PortsOwned'
      BY <3>0 DEF PortsInv, PortsOwned, Owned, Grants
    <3>4. PortsAnswered'
      <4> PICK list : list = answer.res.result
        OBVIOUS
      <4>1. Lists(list) => Lists(list)'
        BY <3>0, ListsKept
      <4> QED
        BY <3>0, <4>1 DEF PortsInv, PortsAnswered, Grants
    <3> QED
      BY <3>1, <3>2, <3>3, <3>4 DEF PortsInv
  <2> QED
    BY <2>1, <2>2
<1> QED
  BY <1>1, PortsInit, PTL DEF Spec

\* A port belongs to who registered it until it is unregistered.
THEOREM PortsKept == Spec => []PortsHeld
<1>1. PortsInv => PortsHeld
  <2> SUFFICES ASSUME PortsInv PROVE PortsHeld
    OBVIOUS
  <2>1. ASSUME NEW i \in DOMAIN granted
        PROVE  Cardinality(Grants(KeyOf(granted[i].mapping))) <= 1
    <3> PICK key : key = KeyOf(granted[i].mapping)
      OBVIOUS
    <3>1. key \in Keys
      BY KeyFacts, GrantedTyped DEF PortsInv
    <3>2. \A j, k \in Grants(key) : j = k
      BY <3>1 DEF PortsInv, PortsOwned, Owned
    <3>3. CASE Grants(key) = {}
      BY <3>3, FS_EmptySet
    <3>4. ASSUME NEW j \in Grants(key) PROVE Cardinality(Grants(key)) <= 1
      <4>1. Grants(key) = {j}
        BY <3>2
      <4> QED
        <5>1. Cardinality({j}) = 1
          BY FS_Singleton
        <5> QED
          BY <4>1, <5>1
    <3> QED
      BY <3>3, <3>4
  <2> QED
    BY <2>1 DEF PortsInv, PortsAnswered, PortsHeld, Lists
<1> QED
  BY <1>1, PortsInvariant, PTL

------------------------------------------------------------------------------
(* What MNT answers: the names and paths of MountProofs, along the calls.  *)

\* The names and the requested paths are paths.
LEMMA GivenPaths == Seq(STRING) \subseteq Paths
BY DEF Paths, Chars

\* Sequences that begin alike and are equal end alike.
LEMMA SameEnds ==
    ASSUME NEW s \in Seq(Paths), NEW f \in Seq(Paths), NEW g \in Seq(Paths), s \o f = s \o g
    PROVE  f = g
<1>1. PICK l \in Nat, m \in Nat, n \in Nat : l = Len(s) /\ m = Len(f) /\ n = Len(g)
  BY LenProperties
<1>2. PICK y, z : y = s \o f /\ z = s \o g
  OBVIOUS
<1>3. Len(y) = l + m /\ \A i \in 1..m : y[l + i] = f[i]
  BY <1>1, <1>2
<1>4. Len(z) = l + n /\ \A i \in 1..n : z[l + i] = g[i]
  BY <1>1, <1>2
<1>5. y = z
  BY <1>2
<1>6. m = n
  BY <1>3, <1>4, <1>5
<1>7. \A i \in 1..m : f[i] = g[i]
  BY <1>3, <1>4, <1>5, <1>6
<1> QED
  BY <1>1, <1>6, <1>7, SeqEqual

\* What the paths below an export come to: Resolved finds the components that
\* follow the export's, and finds every one that is spelt without doubled slashes.
LEMMA ResolvedRight ==
    ASSUME NEW e \in Exports, NEW p \in Requested
    PROVE  LET sub == Resolved[e][p]
           IN  /\ sub.some => Components(p) = Components(e) \o sub.path
               /\ Clean(p) /\ Clean(e) =>
                      \A f \in Seq(Paths) : Components(p) = Components(e) \o f => sub.some /\ sub.path = f
<1>1. p \in Paths
  BY PathsAssumption, GivenPaths
<1>2. IsExport(e)
  <2>1. PICK n \in Names : e = with_export_name(n)
    BY DEF Exports
  <2>2. n \in Paths
    BY PathsAssumption, GivenPaths
  <2> QED
    BY <2>1, <2>2, ExportNames
<1>3. e \in Paths
  BY <1>2 DEF IsExport
<1>4. PICK sub, below : sub = Resolved[e][p] /\ below = export_subpath(p, e)
  OBVIOUS
<1>5. /\ below.some => sub.some /\ sub.path = Components(<<Slash>> \o trim_slashes(below.path))
      /\ ~below.some => ~sub.some
  <2>1. PICK path : path = Components(<<Slash>> \o trim_slashes(below.path))
    OBVIOUS
  <2>2. sub = IF below.some THEN Some(path) ELSE None
    BY <1>4, <2>1 DEF Resolved
  <2> QED
    BY <2>1, <2>2 DEF Some, None
<1>6. sub.some => /\ sub.path \in Seq(Paths)
                  /\ Components(p) = Components(e) \o sub.path
  <2> SUFFICES ASSUME sub.some
               PROVE  sub.path \in Seq(Paths) /\ Components(p) = Components(e) \o sub.path
    OBVIOUS
  <2>1. below.some
    BY <1>5
  <2>2. below.path \in Paths /\ Components(p) = Components(e) \o Components(below.path)
    BY <1>1, <1>2, <1>4, <2>1, SubpathComponents
  <2>3. sub.path = Components(below.path)
    BY <1>5, <2>1, <2>2, TrimmedComponents
  <2>4. Components(below.path) \in Seq(Paths)
    BY <2>2, ComponentsCut DEF IsCut
  <2> QED
    BY <2>2, <2>3, <2>4
<1>7. ASSUME Clean(p), Clean(e), NEW f \in Seq(Paths), Components(p) = Components(e) \o f
      PROVE  sub.some /\ sub.path = f
  <2>1. below.some
    BY <1>1, <1>2, <1>4, <1>7, SubpathFound
  <2>2. sub.some /\ sub.path \in Seq(Paths) /\ Components(p) = Components(e) \o sub.path
    BY <1>5, <1>6, <2>1
  <2>3. Components(e) \in Seq(Paths)
    BY <1>3, ComponentsCut DEF IsCut
  <2> QED
    BY <1>7, <2>2, <2>3, SameEnds
<1> QED
  BY <1>4, <1>6, <1>7

\* A MNT under way asks for one of the agenda's paths, and has found what that path
\* comes to when it waits for the signal.
MountsMeant ==
    \A c \in Clients : call[c].proc = "MNT" =>
        /\ "path" \in DOMAIN call[c] /\ call[c].path \in agenda.paths
        /\ call[c].at = "signal" =>
               /\ "found" \in DOMAIN call[c]
               /\ Resolved[agenda.export][call[c].path].some
               /\ call[c].found = Resolved[agenda.export][call[c].path].path

\* MNT was answered with what its path comes to, or with an error if there is no
\* such file.
MountsAnswered ==
    answer.proc = "MNT" =>
        LET sub == Resolved[agenda.export][answer.call.path]
        IN  /\ answer.call.path \in agenda.paths
            /\ IF answer.res.stat = "OK" THEN sub.some /\ answer.res.fh.path = sub.path
               ELSE sub.some => sub.path \notin Files

MountInv == Typed /\ MountsMeant /\ MountsAnswered

\* At first there are no calls and no answers.
LEMMA MountInit == Init => MountInv
<1> SUFFICES ASSUME Init PROVE MountInv
  OBVIOUS
<1>1. answer.proc # "MNT" /\ \A c \in Clients : call[c].proc # "MNT"
  BY DEF Init, Nothing, NoCall
<1> QED
  BY <1>1, TypedInit DEF MountInv, MountsMeant, MountsAnswered

\* mountproc3_mnt goes on with what the path comes to, or says that there is none.
LEMMA MountBegins ==
    ASSUME NEW c, mountproc3_mnt(c)
    PROVE  LET sub == Resolved[agenda.export][call[c].path]
           IN  /\ call[c].proc = "MNT"
               /\ \/ Reply(c, [stat |-> "NOENT"]) /\ (sub.some => sub.path \notin Files)
                  \/ sub.some /\ Proceed(c, [at |-> "signal", found |-> sub.path])
<1> PICK sub : sub = Resolved[agenda.export][call[c].path]
  OBVIOUS
<1>1. \/ ~sub.some /\ Reply(c, [stat |-> "NOENT"])
      \/ /\ sub.some
         /\ IF sub.path \in Files THEN Proceed(c, [at |-> "signal", found |-> sub.path])
            ELSE Reply(c, [stat |-> "NOENT"])
  BY DEF mountproc3_mnt
<1>2. call[c].proc = "MNT"
  BY DEF mountproc3_mnt, In
<1> QED
  BY <1>1, <1>2, Zenon

\* The agenda never changes.
LEMMA AgendaStays == Next => agenda' = agenda
<1>1. ASSUME NEW c \in Clients, Serve(c) PROVE agenda' = agenda
  BY <1>1, ServeFacts
<1> QED
  BY <1>1 DEF Next, Start, Crash, HostCrash, Gone, Tick, WriteBack, Chmod, Connect, Call, Receive, Stop

\* Every step keeps what a MNT under way has found.
LEMMA MountsMeantStep ==
    ASSUME Typed, MountsMeant, Next
    PROVE  MountsMeant'
<1>0. agenda' = agenda
  BY AgendaStays
<1> PICK R : R = Resolved
  OBVIOUS
<1> SUFFICES ASSUME NEW d \in Clients, call'[d].proc = "MNT"
             PROVE  /\ "path" \in DOMAIN call'[d] /\ call'[d].path \in agenda.paths
                    /\ call'[d].at = "signal" =>
                           /\ "found" \in DOMAIN call'[d]
                           /\ R[agenda.export][call'[d].path].some
                           /\ call'[d].found = R[agenda.export][call'[d].path].path
  BY <1>0 DEF MountsMeant, Resolved
<1>1. call[d].proc = "MNT" =>
          /\ "path" \in DOMAIN call[d] /\ call[d].path \in agenda.paths
          /\ call[d].at = "signal" =>
                 /\ "found" \in DOMAIN call[d]
                 /\ R[agenda.export][call[d].path].some
                 /\ call[d].found = R[agenda.export][call[d].path].path
  BY DEF MountsMeant
<1>2. CASE call'[d] = call[d]
  BY <1>1, <1>2
<1>3. CASE call'[d] = NoCall
  BY <1>3 DEF NoCall
<1>4. CASE Call(d)
  <2> PICK r \in Requests(d) : call' = [call EXCEPT ![d] = r]
    BY <1>4 DEF Call
  <2>1. r.proc = "MNT" => r.at = "begin" /\ "path" \in DOMAIN r /\ r.path \in agenda.paths
    BY RequestFacts, Zenon
  <2> QED
    BY <2>1 DEF Typed
<1>5. CASE \E f, m : Chmod(f, m)
  <2>0. PICK f, m : Chmod(f, m)
    BY <1>5
  <2>1. call'[d].proc = call[d].proc
    BY <2>0, ChmodFacts, Zenon
  <2>2. call'[d] = call[d]
    BY <2>0, <2>1 DEF Chmod
  <2> QED
    BY <1>1, <2>2
<1>6. CASE Serve(d) /\ GoesOn(d)
  <2>0. ~Answered(d)
    BY <1>6, GoesOnFacts DEF Answered, Reply, Nothing
  <2>1. call[d].proc = "MNT"
    BY <1>6, GoesOnFacts
  <2>2. mountproc3_mnt(d)
    BY <1>6, <2>0, <2>1 DEF Serve, Mounted, Unmounted, nfsproc3_access, nfsproc3_write, write, Committed,
        PortCall, Ports, In, Answered
  <2>3. PICK sub : sub = R[agenda.export][call[d].path]
    OBVIOUS
  <2>4. sub.some /\ Proceed(d, [at |-> "signal", found |-> sub.path])
    BY <2>0, <2>2, <2>3, MountBegins DEF Answered
  <2>5. PICK r : r = [at |-> "signal", found |-> sub.path]
    OBVIOUS
  <2>6. /\ DOMAIN call'[d] = DOMAIN r \cup DOMAIN call[d]
        /\ \A x \in DOMAIN call[d] \ DOMAIN r : call'[d][x] = call[d][x]
        /\ \A x \in DOMAIN r : call'[d][x] = r[x]
    BY <2>4, <2>5, ProceedFacts DEF Typed
  <2>7. "found" \in DOMAIN call'[d] /\ call'[d].found = sub.path
    BY <2>5, <2>6
  <2>8. "path" \in DOMAIN call'[d] /\ call'[d].path = call[d].path
    BY <1>1, <2>1, <2>5, <2>6
  <2> QED
    BY <1>1, <2>1, <2>3, <2>4, <2>7, <2>8
<1> QED
  BY <1>2, <1>3, <1>4, <1>5, <1>6, CallKinds

\* MNT is answered with what its path comes to.
LEMMA MountsAnsweredStep ==
    ASSUME Typed, MountsMeant, Next
    PROVE  MountsAnswered'
<1>0. agenda' = agenda /\ Files' = Files
  BY AgendaStays DEF Files
<1> PICK R : R = Resolved
  OBVIOUS
<1>1. CASE answer' = Nothing
  BY <1>1 DEF MountsAnswered, Nothing
<1>2. ASSUME NEW c \in Clients, Serve(c), Answered(c), answer'.proc = "MNT"
      PROVE  MountsAnswered'
  <2>0. call[c].proc = "MNT" /\ answer'.call = call[c] /\ answer' # Nothing
    BY <1>2, ServeFacts DEF Answered, Reply, Nothing
  <2>1. PICK sub : sub = R[agenda.export][call[c].path]
    OBVIOUS
  <2>2. SUFFICES IF answer'.res.stat = "OK" THEN sub.some /\ answer'.res.fh.path = sub.path
                 ELSE sub.some => sub.path \notin Files
    <3>1. call[c].path \in agenda.paths
      BY <2>0 DEF MountsMeant
    <3> QED
      BY <1>0, <2>0, <2>1, <3>1 DEF MountsAnswered, Resolved
  <2>3. CASE mountproc3_mnt(c)
    <3>1. ~\E r : Proceed(c, r)
      BY <2>0 DEF Proceed
    <3>2. Reply(c, [stat |-> "NOENT"]) /\ (sub.some => sub.path \notin Files)
      BY <2>1, <2>3, <3>1, MountBegins
    <3>3. answer'.res.stat = "NOENT"
      BY <3>2 DEF Reply
    <3> QED
      BY <3>2, <3>3
  <2>4. CASE Mounted(c)
    <3>1. call[c].found = sub.path /\ sub.some
      BY <2>0, <2>1, <2>4 DEF MountsMeant, Mounted, In
    <3>2. handle'[c] = id_to_fh(ids[call[c].found], call[c].found)
      BY <2>4 DEF Mounted, Typed
    <3>3. answer'.res = [stat |-> "OK", fh |-> handle'[c]]
      BY <2>4 DEF Mounted, Reply
    <3>4. answer'.res.fh.path = call[c].found /\ answer'.res.stat = "OK"
      BY <3>2, <3>3 DEF id_to_fh, Handle
    <3> QED
      BY <3>1, <3>4
  <2> QED
    BY <1>2, <2>0, <2>3, <2>4 DEF Serve, Unmounted, nfsproc3_access, nfsproc3_write, write, Committed,
        PortCall, Ports, In
<1>3. CASE answer'.proc # "MNT"
  BY <1>3 DEF MountsAnswered
<1> QED
  BY <1>1, <1>2, <1>3, AnswerKinds

\* MountInv is inductive.
LEMMA MountInvariant == Spec => []MountInv
<1>1. MountInv /\ [Next]_vars => MountInv'
  <2> SUFFICES ASSUME MountInv, [Next]_vars PROVE MountInv'
    OBVIOUS
  <2>1. CASE Next
    BY <2>1, TypedStep, MountsMeantStep, MountsAnsweredStep DEF MountInv
  <2>2. CASE UNCHANGED vars
    <3>0. UNCHANGED <<agenda, clock, up, generations, conn, handle, call, answer>>
      BY <2>2 DEF vars, host, instance
    <3>1. Typed'
      BY <3>0 DEF MountInv, Typed
    <3>2. MountsMeant' /\ MountsAnswered'
      BY <3>0 DEF MountInv, MountsMeant, MountsAnswered, Resolved, Files
    <3> QED
      BY <3>1, <3>2 DEF MountInv
  <2> QED
    BY <2>1, <2>2
<1> QED
  BY <1>1, MountInit, PTL DEF Spec

\* MNT answers with a handle for the file that the requested path names below the
\* export, and finds every file whose path is written without doubled slashes.
THEOREM MountsRight == Spec => []MountRight
<1>1. MountInv => MountRight
  <2> SUFFICES ASSUME MountInv, answer.proc = "MNT"
               PROVE  LET requested == Components(answer.call.path)
                          export == Components(agenda.export)
                      IN  IF answer.res.stat = "OK" THEN requested = export \o answer.res.fh.path
                          ELSE Clean(answer.call.path) /\ Clean(agenda.export) =>
                                   \A f \in Files : requested # export \o f
    BY DEF MountRight
  <2>1. PICK e, p : e = agenda.export /\ p = answer.call.path
    OBVIOUS
  <2>2. e \in Exports /\ p \in Requested
    BY <2>1, AgendaAssumption DEF MountInv, Typed, MountsAnswered
  <2>3. PICK sub : sub = Resolved[e][p]
    OBVIOUS
  <2>4. IF answer.res.stat = "OK" THEN sub.some /\ answer.res.fh.path = sub.path
        ELSE sub.some => sub.path \notin Files
    BY <2>1, <2>3 DEF MountInv, MountsAnswered
  <2>5. /\ sub.some => Components(p) = Components(e) \o sub.path
        /\ Clean(p) /\ Clean(e) =>
               \A f \in Seq(Paths) : Components(p) = Components(e) \o f => sub.some /\ sub.path = f
    BY <2>2, <2>3, ResolvedRight
  <2>6. \A f \in Files : f \in Seq(Paths)
    <3>1. Files \subseteq Seq(Seq(STRING))
      BY FilesFacts DEF MountInv
    <3>2. Seq(Seq(STRING)) \subseteq Seq(Paths)
      BY GivenPaths
    <3> QED
      BY <3>1, <3>2
  <2> QED
    BY <2>1, <2>4, <2>5, <2>6, Zenon
<1> QED
  BY <1>1, MountInvariant, PTL
==============================================================================

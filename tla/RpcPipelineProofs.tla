-------------------------- MODULE RpcPipelineProofs --------------------------
(***************************************************************************)
(* Proofs about RpcPipeline, for any number of connections, clients, calls *)
(* and retransmissions: at-most-once execution, types, the order of the    *)
(* replies on a connection, the agreement of the replies to one call, and  *)
(* the use the connections make of the transaction table.                  *)
(***************************************************************************)
EXTENDS RpcPipeline, SequenceTheorems, TLAPS

\* The worker has claimed its command in the table: it is executing it, or died
\* doing so.
Busy(c) == worker[c] \in {"executing", "dead"}

\* The part of TypeOK that the argument needs.
TableType ==
    /\ kindOf \in [Xids -> Kinds]
    /\ worker \in [Conns -> {"idle", "executing", "ended", "dead"}]
    /\ cmd \in [Conns -> Record \cup {NoRecord}]
    /\ \A c \in Conns : Busy(c) => cmd[c] \in Record
    /\ cache \in [Keys -> Drc!Entries]
    /\ runs \in [Keys -> Nat]
    /\ forgotten \in [Keys -> Nat]

(* The calls in progress in the table are just those of the busy workers,  *)
(* each of one worker, and only a panic kills a worker.                    *)
Claims ==
    /\ \A c \in Conns : Busy(c) => cache[CmdKey(c)] = Drc!InProgress
    /\ \A k \in Keys : cache[k] = Drc!InProgress => \E c \in Conns : Busy(c) /\ CmdKey(c) = k
    /\ \A c, d \in Conns : Busy(c) /\ Busy(d) /\ CmdKey(c) = CmdKey(d) => c = d
    /\ \A c \in Conns : worker[c] = "dead" => CmdKind(c) = "panics"

(* Executions are paid for: by a forgotten entry, or by the entry that is  *)
(* in the table.  A call that is being executed has not been counted yet.  *)
Counts ==
    /\ \A k \in Keys :
           /\ runs[k] <= 1 + forgotten[k]
           /\ cache[k] = Drc!Vacant => runs[k] <= forgotten[k]
           /\ cache[k].tag = "Completed" => cache[k].response = runs[k]
           /\ kindOf[k[2]] \notin {"proc", "panics"} => runs[k] = 0
    /\ \A c \in Conns : worker[c] = "executing" => runs[CmdKey(c)] <= forgotten[CmdKey(c)]

(* The inductive invariant behind AtMostOnce and ExecutedIsReplayable.     *)
PipelineInv == TableType /\ Claims /\ Counts

------------------------------------------------------------------------------
(* The entries of the transaction table are told apart by their tags.      *)
LEMMA TableForms ==
    /\ Drc!Vacant \in Drc!Entries
    /\ Drc!InProgress \in Drc!Entries
    /\ \A r \in Nat :
           /\ Drc!Completed(r) \in Drc!Entries
           /\ Drc!Completed(r).tag = "Completed"
           /\ Drc!Completed(r).response = r
           /\ Drc!Completed(r) # Drc!Vacant
           /\ Drc!Completed(r) # Drc!InProgress
    /\ Drc!Vacant.tag = "Vacant"
    /\ Drc!InProgress.tag = "InProgress"
BY DEF Drc!Entries, Drc!Vacant, Drc!InProgress, Drc!Completed

(* An entry of the table is vacant, in progress or completed with a        *)
(* response.                                                               *)
LEMMA TableCases ==
    ASSUME NEW e \in Drc!Entries
    PROVE  \/ e = Drc!Vacant
           \/ e = Drc!InProgress
           \/ e.tag = "Completed" /\ e.response \in Nat /\ e = Drc!Completed(e.response)
BY DEF Drc!Entries, Drc!Vacant, Drc!InProgress, Drc!Completed

(* The key of a record is a key of the table, and names the record's call. *)
LEMMA KeyFacts ==
    ASSUME NEW c \in Conns, NEW r \in Record
    PROVE  KeyOf(c, r) \in Keys /\ KeyOf(c, r)[2] = r.xid /\ r.xid \in Xids
BY DEF KeyOf, Keys, Record

(* Forgetting leaves calls in progress alone, keeps the other responses,   *)
(* and pays for the executions of what it drops.                           *)
LEMMA ForgetFacts ==
    ASSUME TableType, Counts, NEW S, Consults(S)
    PROVE  /\ Drc!Forget(cache, S) \in [Keys -> Drc!Entries]
           /\ forgotten' \in [Keys -> Nat]
           /\ \A k \in Keys :
                  /\ Drc!Forget(cache, S)[k] = Drc!InProgress <=> cache[k] = Drc!InProgress
                  /\ Drc!Forget(cache, S)[k].tag = "Completed"
                         => Drc!Forget(cache, S)[k] = cache[k]
                  /\ k \notin S => Drc!Forget(cache, S)[k] = cache[k]
                  /\ forgotten[k] <= forgotten'[k]
                  /\ Drc!Forget(cache, S)[k] = Drc!Vacant => runs[k] <= forgotten'[k]
<1>1. \A k \in Keys : Drc!Forget(cache, S)[k] = IF k \in S THEN Drc!Vacant ELSE cache[k]
  BY DEF Drc!Forget, TableType
<1>2. \A k \in S : k \in Keys /\ cache[k].tag = "Completed"
  BY DEF Consults, Drc!Forgettable, TableType
<1>3. \A k \in Keys : forgotten'[k] = IF k \in S THEN forgotten[k] + 1 ELSE forgotten[k]
  BY DEF Consults
<1>4. Drc!Forget(cache, S) \in [Keys -> Drc!Entries] /\ forgotten' \in [Keys -> Nat]
  BY TableForms DEF Drc!Forget, Consults, TableType
<1>5. ASSUME NEW k \in Keys
      PROVE  /\ Drc!Forget(cache, S)[k] = Drc!InProgress <=> cache[k] = Drc!InProgress
             /\ Drc!Forget(cache, S)[k].tag = "Completed" => Drc!Forget(cache, S)[k] = cache[k]
             /\ k \notin S => Drc!Forget(cache, S)[k] = cache[k]
  BY <1>1, <1>2, TableForms
<1>6. ASSUME NEW k \in Keys
      PROVE  /\ forgotten[k] <= forgotten'[k]
             /\ Drc!Forget(cache, S)[k] = Drc!Vacant => runs[k] <= forgotten'[k]
  <2>1. runs[k] \in Nat /\ forgotten[k] \in Nat
    BY DEF TableType
  <2>2. CASE k \in S
    BY <1>3, <2>1, <2>2 DEF Counts
  <2>3. CASE k \notin S
    BY <1>1, <1>3, <2>1, <2>3 DEF Counts
  <2> QED BY <2>2, <2>3
<1> QED BY <1>4, <1>5, <1>6

(* The invariant holds when the server starts: the table is empty and      *)
(* nothing was executed.                                                   *)
LEMMA PipelineInit == Init => PipelineInv
<1> SUFFICES ASSUME Init PROVE PipelineInv
  OBVIOUS
<1>1. TableType
  BY TableForms DEF Init, TableType, Busy
<1>2. Claims
  BY TableForms DEF Init, Claims, Busy
<1>3. Counts
  BY TableForms DEF Init, Counts
<1> QED BY <1>1, <1>2, <1>3 DEF PipelineInv

(* A retransmission, answered or dropped: the table at most forgets.       *)
LEMMA RepeatStep ==
    ASSUME PipelineInv, NEW c \in Conns, TakeCompleted(c) \/ TakeInProgress(c)
    PROVE  PipelineInv'
<1> USE DEF PipelineInv
<1>1. PICK S : Consults(S) /\ cache' = Drc!Forget(cache, S)
  BY DEF TakeCompleted, TakeInProgress
<1>2. UNCHANGED <<kindOf, worker, cmd, runs>>
  BY DEF TakeCompleted, TakeInProgress, Takes
<1>3. /\ cache' \in [Keys -> Drc!Entries]
      /\ forgotten' \in [Keys -> Nat]
      /\ \A k \in Keys :
             /\ cache'[k] = Drc!InProgress <=> cache[k] = Drc!InProgress
             /\ cache'[k].tag = "Completed" => cache'[k] = cache[k]
             /\ forgotten[k] <= forgotten'[k]
             /\ cache'[k] = Drc!Vacant => runs[k] <= forgotten'[k]
  BY <1>1, ForgetFacts
<1>4. \A d \in Conns : /\ Busy(d)' <=> Busy(d)
                       /\ CmdKey(d)' = CmdKey(d)
                       /\ CmdKind(d)' = CmdKind(d)
                       /\ Busy(d) => CmdKey(d) \in Keys
  BY <1>2, KeyFacts DEF Busy, CmdKey, CmdKind, KeyOf, TableType
<1>5. TableType'
  BY <1>2, <1>3, <1>4 DEF TableType
<1>6. Claims'
  BY <1>2, <1>3, <1>4 DEF Claims
<1>7. Counts'
  <2>1. \A k \in Keys :
            /\ runs'[k] <= 1 + forgotten'[k]
            /\ cache'[k] = Drc!Vacant => runs'[k] <= forgotten'[k]
            /\ cache'[k].tag = "Completed" => cache'[k].response = runs'[k]
            /\ kindOf'[k[2]] \notin {"proc", "panics"} => runs'[k] = 0
    BY <1>2, <1>3 DEF Counts, TableType
  <2>2. ASSUME NEW d \in Conns, worker'[d] = "executing"
        PROVE  runs'[CmdKey(d)'] <= forgotten'[CmdKey(d)']
    <3>1. CmdKey(d) \in Keys /\ runs[CmdKey(d)] <= forgotten[CmdKey(d)]
      BY <1>2, <1>4, <2>2 DEF Counts, Busy
    <3> DEFINE k == CmdKey(d)
    <3>2. runs[k] \in Nat /\ forgotten[k] \in Nat /\ forgotten'[k] \in Nat
      BY <1>3, <3>1 DEF TableType
    <3>3. runs[k] <= forgotten'[k]
      BY <1>3, <3>1, <3>2
    <3> QED BY <1>2, <1>4, <3>3
  <2> QED BY <2>1, <2>2 DEF Counts
<1> QED BY <1>5, <1>6, <1>7

(* A new call is claimed: its key was vacant, so nobody else has it, and   *)
(* its earlier executions have all been forgotten.                         *)
LEMMA ClaimStep ==
    ASSUME PipelineInv, NEW c \in Conns, TakeNew(c)
    PROVE  PipelineInv'
<1> USE DEF PipelineInv
<1>1. PICK r \in Record, S \in SUBSET Keys :
          /\ Takes(c, r)
          /\ Consults(S)
          /\ Drc!Forget(cache, S)[KeyOf(c, r)] = Drc!Vacant
          /\ cache' = [Drc!Forget(cache, S) EXCEPT ![KeyOf(c, r)] = Drc!InProgress]
          /\ worker' = [worker EXCEPT ![c] = "executing"]
          /\ cmd' = [cmd EXCEPT ![c] = r]
          /\ UNCHANGED runs
  BY DEF TakeNew
<1> DEFINE key == KeyOf(c, r)
           C == Drc!Forget(cache, S)
<1>2. UNCHANGED <<kindOf, runs>> /\ ~Busy(c)
  BY <1>1 DEF Takes, Busy
<1>3. key \in Keys /\ key[2] = r.xid
  BY KeyFacts
<1>4. /\ C \in [Keys -> Drc!Entries]
      /\ forgotten' \in [Keys -> Nat]
      /\ \A k \in Keys :
             /\ C[k] = Drc!InProgress <=> cache[k] = Drc!InProgress
             /\ C[k].tag = "Completed" => C[k] = cache[k]
             /\ forgotten[k] <= forgotten'[k]
             /\ C[k] = Drc!Vacant => runs[k] <= forgotten'[k]
  BY <1>1, ForgetFacts
<1>5. \A k \in Keys \ {key} : cache'[k] = C[k]
  BY <1>1, <1>4
<1>6. cache'[key] = Drc!InProgress
  BY <1>1, <1>3, <1>4
<1>7. cache[key] # Drc!InProgress
  BY <1>1, <1>3, <1>4, TableForms
<1>8. /\ Busy(c)' /\ worker'[c] = "executing" /\ CmdKey(c)' = key
      /\ \A d \in Conns \ {c} :
             /\ Busy(d)' <=> Busy(d)
             /\ worker'[d] = worker[d]
             /\ cmd'[d] = cmd[d]
             /\ CmdKey(d)' = CmdKey(d)
             /\ CmdKind(d)' = CmdKind(d)
  BY <1>1, <1>2 DEF Busy, CmdKey, CmdKind, KeyOf, TableType
<1>9. \A d \in Conns : Busy(d) => CmdKey(d) \in Keys /\ CmdKey(d) # key
  BY <1>7, KeyFacts DEF TableType, Claims, CmdKey
<1>10. TableType'
  <2>1. cmd' \in [Conns -> Record \cup {NoRecord}] /\ cmd'[c] = r
    BY <1>1 DEF TableType
  <2>2. \A d \in Conns : Busy(d)' => cmd'[d] \in Record
    BY <1>8, <2>1 DEF TableType
  <2>3. cache' \in [Keys -> Drc!Entries]
    BY <1>1, <1>3, <1>4, TableForms
  <2> QED BY <1>1, <1>2, <1>4, <2>1, <2>2, <2>3 DEF TableType
<1>11. Claims'
  <2>1. \A d \in Conns : Busy(d)' => cache'[CmdKey(d)'] = Drc!InProgress
    BY <1>4, <1>5, <1>6, <1>8, <1>9 DEF Claims
  <2>2. ASSUME NEW k \in Keys, cache'[k] = Drc!InProgress
        PROVE  \E d \in Conns : Busy(d)' /\ CmdKey(d)' = k
    <3>1. CASE k = key
      BY <1>8, <3>1
    <3>2. CASE k # key
      <4>1. PICK d \in Conns : Busy(d) /\ CmdKey(d) = k
        BY <1>4, <1>5, <2>2, <3>2 DEF Claims
      <4> QED BY <1>2, <1>8, <4>1
    <3> QED BY <3>1, <3>2
  <2>3. \A d, e \in Conns : Busy(d)' /\ Busy(e)' /\ CmdKey(d)' = CmdKey(e)' => d = e
    BY <1>8, <1>9 DEF Claims
  <2>4. \A d \in Conns : worker'[d] = "dead" => CmdKind(d)' = "panics"
    BY <1>8 DEF Claims
  <2> QED BY <2>1, <2>2, <2>3, <2>4 DEF Claims
<1>12. Counts'
  <2>1. ASSUME NEW k \in Keys
        PROVE  /\ runs'[k] <= 1 + forgotten'[k]
               /\ cache'[k] = Drc!Vacant => runs'[k] <= forgotten'[k]
               /\ cache'[k].tag = "Completed" => cache'[k].response = runs'[k]
               /\ kindOf'[k[2]] \notin {"proc", "panics"} => runs'[k] = 0
    <3>1. runs[k] \in Nat /\ forgotten[k] \in Nat /\ forgotten'[k] \in Nat
      BY <1>4 DEF TableType
    <3>2. CASE k = key
      BY <1>2, <1>4, <1>6, <3>1, <3>2, TableForms DEF Counts
    <3>3. CASE k # key
      BY <1>2, <1>4, <1>5, <3>1, <3>3 DEF Counts
    <3> QED BY <3>2, <3>3
  <2>2. ASSUME NEW d \in Conns, worker'[d] = "executing"
        PROVE  runs'[CmdKey(d)'] <= forgotten'[CmdKey(d)']
    <3>1. CASE d = c
      BY <1>1, <1>2, <1>3, <1>4, <1>8, <3>1
    <3>2. CASE d # c
      <4> DEFINE k == CmdKey(d)
      <4>1. k \in Keys /\ runs[k] <= forgotten[k] /\ CmdKey(d)' = k
        BY <1>8, <1>9, <2>2, <3>2 DEF Counts, Busy
      <4>2. runs[k] \in Nat /\ forgotten[k] \in Nat /\ forgotten'[k] \in Nat
        BY <1>4, <4>1 DEF TableType
      <4>3. runs[k] <= forgotten'[k]
        BY <1>4, <4>1, <4>2
      <4> QED BY <1>2, <4>1, <4>3
    <3> QED BY <3>1, <3>2
  <2> QED BY <2>1, <2>2 DEF Counts
<1> QED BY <1>10, <1>11, <1>12

(* A claimed call is finished: its claim is given up, its entry becomes e  *)
(* and its executions n.                                                   *)
LEMMA FinishStep ==
    ASSUME PipelineInv, NEW c \in Conns, NEW key \in Keys, NEW e \in Drc!Entries, NEW n \in Nat,
           worker[c] = "executing", key = CmdKey(c), Returns(c),
           cache' = [cache EXCEPT ![key] = e],
           runs' = [runs EXCEPT ![key] = n],
           e # Drc!InProgress,
           n <= 1 + forgotten[key],
           e = Drc!Vacant => n <= forgotten[key],
           e.tag = "Completed" => e.response = n,
           kindOf[key[2]] \notin {"proc", "panics"} => n = 0
    PROVE  PipelineInv'
<1> USE DEF PipelineInv
<1>1. /\ Busy(c) /\ cmd[c] \in Record
      /\ worker' = [worker EXCEPT ![c] = "idle"]
      /\ cmd' = [cmd EXCEPT ![c] = NoRecord]
      /\ UNCHANGED <<kindOf, forgotten>>
  BY DEF Returns, Busy, TableType
<1>2. /\ ~Busy(c)' /\ worker'[c] = "idle"
      /\ \A d \in Conns \ {c} :
             /\ Busy(d)' <=> Busy(d)
             /\ worker'[d] = worker[d]
             /\ cmd'[d] = cmd[d]
             /\ CmdKey(d)' = CmdKey(d)
             /\ CmdKind(d)' = CmdKind(d)
             /\ Busy(d) => CmdKey(d) \in Keys /\ CmdKey(d) # key
  BY <1>1, KeyFacts DEF Busy, CmdKey, CmdKind, KeyOf, TableType, Claims
<1>3. /\ cache'[key] = e /\ runs'[key] = n
      /\ \A k \in Keys \ {key} : cache'[k] = cache[k] /\ runs'[k] = runs[k]
  BY DEF TableType
<1>4. TableType'
  <2>1. \A d \in Conns : Busy(d)' => cmd'[d] \in Record
    BY <1>2 DEF TableType
  <2> QED BY <1>1, <2>1 DEF TableType
<1>5. Claims'
  <2>1. \A d \in Conns : Busy(d)' => cache'[CmdKey(d)'] = Drc!InProgress
    BY <1>2, <1>3 DEF Claims
  <2>2. ASSUME NEW k \in Keys, cache'[k] = Drc!InProgress
        PROVE  \E d \in Conns : Busy(d)' /\ CmdKey(d)' = k
    <3>1. k # key
      BY <1>3, <2>2
    <3>2. PICK d \in Conns : Busy(d) /\ CmdKey(d) = k
      BY <1>3, <2>2, <3>1 DEF Claims
    <3> QED BY <1>2, <3>1, <3>2
  <2>3. \A d, f \in Conns : Busy(d)' /\ Busy(f)' /\ CmdKey(d)' = CmdKey(f)' => d = f
    BY <1>2 DEF Claims
  <2>4. \A d \in Conns : worker'[d] = "dead" => CmdKind(d)' = "panics"
    BY <1>2 DEF Claims
  <2> QED BY <2>1, <2>2, <2>3, <2>4 DEF Claims
<1>6. Counts'
  <2>1. ASSUME NEW k \in Keys
        PROVE  /\ runs'[k] <= 1 + forgotten'[k]
               /\ cache'[k] = Drc!Vacant => runs'[k] <= forgotten'[k]
               /\ cache'[k].tag = "Completed" => cache'[k].response = runs'[k]
               /\ kindOf'[k[2]] \notin {"proc", "panics"} => runs'[k] = 0
    <3>1. CASE k = key
      BY <1>1, <1>3, <3>1
    <3>2. CASE k # key
      BY <1>1, <1>3, <3>2 DEF Counts
    <3> QED BY <3>1, <3>2
  <2>2. ASSUME NEW d \in Conns, worker'[d] = "executing"
        PROVE  runs'[CmdKey(d)'] <= forgotten'[CmdKey(d)']
    <3>1. d # c /\ worker[d] = "executing" /\ Busy(d)
      BY <1>2, <2>2 DEF Busy
    <3>2. CmdKey(d)' = CmdKey(d) /\ CmdKey(d) \in Keys \ {key}
      BY <1>2, <3>1
    <3>3. runs[CmdKey(d)] <= forgotten[CmdKey(d)]
      BY <3>1 DEF Counts
    <3> QED BY <1>1, <1>3, <3>2, <3>3
  <2> QED BY <2>1, <2>2 DEF Counts
<1> QED BY <1>4, <1>5, <1>6

(* Process, Refuse and Fail: one more execution is covered by the recorded *)
(* response, none by a refusal or a failure.                               *)
LEMMA ReturnStep ==
    ASSUME PipelineInv, NEW c \in Conns, Process(c) \/ Refuse(c) \/ Fail(c)
    PROVE  PipelineInv'
<1> USE DEF PipelineInv
<1>1. worker[c] = "executing" /\ Returns(c) /\ cmd[c] \in Record
  BY DEF Process, Refuse, Fail, Busy, TableType
<1>2. PICK key \in Keys : key = CmdKey(c) /\ kindOf[key[2]] = CmdKind(c)
  BY <1>1, KeyFacts DEF CmdKey, CmdKind
<1>3. runs[key] \in Nat /\ forgotten[key] \in Nat /\ runs[key] <= forgotten[key]
  BY <1>1, <1>2 DEF TableType, Counts
<1>4. CASE Process(c)
  <2> DEFINE n == runs[key] + 1
             e == Drc!Completed(n)
  <2>1. cache' = [cache EXCEPT ![key] = e] /\ runs' = [runs EXCEPT ![key] = n]
    BY <1>2, <1>4 DEF Process, Recorded
  <2>2. kindOf[key[2]] = "proc"
    BY <1>2, <1>4 DEF Process
  <2>3. n \in Nat /\ n <= 1 + forgotten[key]
    BY <1>3
  <2> HIDE DEF n
  <2>4. /\ e \in Drc!Entries /\ e # Drc!InProgress /\ e # Drc!Vacant /\ e.response = n
    BY <2>3, TableForms
  <2> HIDE DEF e
  <2> QED BY <1>1, <1>2, <2>1, <2>2, <2>3, <2>4, FinishStep
<1>5. ASSUME Refuse(c) \/ Fail(c)
      PROVE  runs[key] = 0 /\ runs' = [runs EXCEPT ![key] = 0]
  <2>1. kindOf[key[2]] \in {"badvers", "badargs"} /\ runs' = runs
    BY <1>2, <1>5 DEF Refuse, Fail
  <2> QED BY <2>1 DEF Counts, TableType
<1>6. CASE Refuse(c)
  <2> DEFINE e == Drc!Completed(0)
  <2>1. cache' = [cache EXCEPT ![key] = e]
    BY <1>2, <1>6 DEF Refuse, Recorded
  <2>2. /\ e \in Drc!Entries /\ e # Drc!InProgress /\ e # Drc!Vacant /\ e.response = 0
    BY TableForms
  <2>3. 0 \in Nat /\ 0 <= 1 + forgotten[key]
    BY <1>3
  <2> HIDE DEF e
  <2> QED BY <1>1, <1>2, <1>5, <1>6, <2>1, <2>2, <2>3, FinishStep
<1>7. CASE Fail(c)
  <2>1. cache' = [cache EXCEPT ![key] = Drc!Vacant]
    BY <1>2, <1>7 DEF Fail, Cleared
  <2>2. /\ Drc!Vacant \in Drc!Entries /\ Drc!Vacant # Drc!InProgress
        /\ Drc!Vacant.tag # "Completed"
    BY TableForms
  <2>3. 0 \in Nat /\ 0 <= 1 + forgotten[key] /\ 0 <= forgotten[key]
    BY <1>3
  <2> QED BY <1>1, <1>2, <1>5, <1>7, <2>1, <2>2, <2>3, FinishStep
<1> QED BY <1>4, <1>6, <1>7

(* A handler panics: the claim stays, and the execution that may have      *)
(* happened is the only one that is not forgotten.                         *)
LEMMA PanicStep ==
    ASSUME PipelineInv, NEW c \in Conns, Panic(c)
    PROVE  PipelineInv'
<1> USE DEF PipelineInv
<1>1. /\ worker[c] = "executing" /\ Busy(c) /\ cmd[c] \in Record /\ CmdKind(c) = "panics"
      /\ worker' = [worker EXCEPT ![c] = "dead"]
      /\ UNCHANGED <<kindOf, cmd, cache, forgotten>>
  BY DEF Panic, Busy, TableType
<1>2. PICK key \in Keys : key = CmdKey(c) /\ kindOf[key[2]] = CmdKind(c)
  BY <1>1, KeyFacts DEF CmdKey, CmdKind
<1>3. /\ runs[key] \in Nat /\ forgotten[key] \in Nat /\ runs[key] <= forgotten[key]
      /\ cache[key] = Drc!InProgress
  BY <1>1, <1>2 DEF TableType, Counts, Claims
<1>4. PICK n \in {0, 1} : runs' = [runs EXCEPT ![key] = @ + n]
  BY <1>2 DEF Panic
<1>5. /\ runs'[key] = runs[key] + n
      /\ \A k \in Keys \ {key} : runs'[k] = runs[k]
  BY <1>4 DEF TableType
<1>6. /\ worker'[c] = "dead"
      /\ \A d \in Conns : /\ Busy(d)' <=> Busy(d)
                          /\ d # c => worker'[d] = worker[d]
                          /\ CmdKey(d)' = CmdKey(d)
                          /\ CmdKind(d)' = CmdKind(d)
  BY <1>1 DEF Busy, CmdKey, CmdKind, KeyOf, TableType
<1>7. TableType'
  BY <1>1, <1>3, <1>4, <1>6 DEF TableType
<1>8. Claims'
  <2>1. \A d \in Conns : worker'[d] = "dead" => CmdKind(d)' = "panics"
    BY <1>1, <1>6 DEF Claims
  <2> QED BY <1>1, <1>6, <2>1 DEF Claims
<1>9. Counts'
  <2>1. ASSUME NEW k \in Keys
        PROVE  /\ runs'[k] <= 1 + forgotten'[k]
               /\ cache'[k] = Drc!Vacant => runs'[k] <= forgotten'[k]
               /\ cache'[k].tag = "Completed" => cache'[k].response = runs'[k]
               /\ kindOf'[k[2]] \notin {"proc", "panics"} => runs'[k] = 0
    <3>1. CASE k = key
      BY <1>1, <1>2, <1>3, <1>5, <3>1, TableForms
    <3>2. CASE k # key
      BY <1>1, <1>5, <3>2 DEF Counts
    <3> QED BY <3>1, <3>2
  <2>2. ASSUME NEW d \in Conns, worker'[d] = "executing"
        PROVE  runs'[CmdKey(d)'] <= forgotten'[CmdKey(d)']
    <3>1. d # c /\ worker[d] = "executing" /\ Busy(d)
      BY <1>6, <2>2 DEF Busy
    <3>2. CmdKey(d) \in Keys /\ CmdKey(d) # key /\ CmdKey(d)' = CmdKey(d)
      BY <1>1, <1>2, <1>6, <3>1, KeyFacts DEF Claims, TableType, CmdKey
    <3>3. runs[CmdKey(d)] <= forgotten[CmdKey(d)]
      BY <3>1 DEF Counts
    <3> QED BY <1>1, <1>5, <3>2, <3>3
  <2> QED BY <2>1, <2>2 DEF Counts
<1> QED BY <1>7, <1>8, <1>9

(* Every other step leaves the table and the claims alone.                 *)
LEMMA IdleStep ==
    ASSUME PipelineInv, UNCHANGED <<kindOf, cmd, cache, runs, forgotten>>,
           \/ UNCHANGED worker
           \/ \E c \in Conns : worker[c] = "idle" /\ worker' = [worker EXCEPT ![c] = "ended"]
    PROVE  PipelineInv'
<1> USE DEF PipelineInv
<1>1. /\ worker' \in [Conns -> {"idle", "executing", "ended", "dead"}]
      /\ \A d \in Conns : /\ Busy(d)' <=> Busy(d)
                          /\ Busy(d) => worker'[d] = worker[d]
                          /\ CmdKey(d)' = CmdKey(d)
                          /\ CmdKind(d)' = CmdKind(d)
  BY DEF Busy, CmdKey, CmdKind, KeyOf, TableType
<1>2. TableType'
  BY <1>1 DEF TableType
<1>3. \A d \in Conns : worker'[d] \in {"executing", "dead"} => worker[d] = worker'[d]
  BY <1>1 DEF Busy
<1>4. Claims'
  BY <1>1, <1>3 DEF Claims
<1>5. Counts'
  BY <1>1, <1>3 DEF Counts
<1> QED BY <1>2, <1>4, <1>5

(* Every step of every task preserves the invariant; only a worker         *)
(* touches the table.                                                      *)
LEMMA PipelineStep == PipelineInv /\ [Next]_vars => PipelineInv'
<1> SUFFICES ASSUME PipelineInv, [Next]_vars PROVE PipelineInv'
  OBVIOUS
<1>1. CASE UNCHANGED vars
  BY <1>1, IdleStep DEF vars, workerVars
<1>2. ASSUME NEW c \in Conns,
             \/ Accept(c) \/ (\E x \in Xids : Send(c, x)) \/ HangUp(c)
             \/ Socket(c) \/ Reader(c) \/ Forwarder(c)
      PROVE  PipelineInv'
  <2>1. UNCHANGED <<kindOf, workerVars>>
    BY <1>2 DEF Accept, Send, HangUp, Socket, SocketRead, SocketWrite, SocketClosed, SendReply,
                GiveUp, Close, Reader, ReaderRead, ReaderEof, Forwarder, Forward, ForwarderEnd
  <2> QED BY <2>1, IdleStep DEF workerVars
<1>3. ASSUME NEW c \in Conns, Worker(c) PROVE PipelineInv'
  <2>1. CASE TakeGarbled(c)
    <3>1. UNCHANGED <<kindOf, workerVars>>
      BY <2>1 DEF TakeGarbled, Takes
    <3> QED BY <3>1, IdleStep DEF workerVars
  <2>2. CASE TakeCompleted(c) \/ TakeInProgress(c)
    BY <2>2, RepeatStep
  <2>3. CASE TakeNew(c)
    BY <2>3, ClaimStep
  <2>4. CASE Process(c) \/ Refuse(c) \/ Fail(c)
    BY <2>4, ReturnStep
  <2>5. CASE Panic(c)
    BY <2>5, PanicStep
  <2>6. CASE WorkerEnd(c)
    BY <2>6, IdleStep DEF WorkerEnd
  <2> QED BY <1>3, <2>1, <2>2, <2>3, <2>4, <2>5, <2>6 DEF Worker
<1> QED BY <1>1, <1>2, <1>3 DEF Next

(* The invariant holds as long as the server runs.                         *)
LEMMA PipelineInvariant == Spec => []PipelineInv
BY PipelineInit, PipelineStep, PTL DEF Spec

------------------------------------------------------------------------------
(* For any number of connections and retransmissions, a call is executed   *)
(* once, and once more only for each time the table has forgotten it.      *)
THEOREM ExecutedAtMostOnce == Spec => []AtMostOnce
<1>1. PipelineInv => AtMostOnce
  BY DEF PipelineInv, Counts, AtMostOnce
<1> QED BY <1>1, PipelineInvariant, PTL

(* An execution that was not forgotten is answered from the table, unless  *)
(* its handler panicked, whatever became of the connection it came on.     *)
THEOREM ExecutionsReplayable == Spec => []ExecutedIsReplayable
<1>1. PipelineInv => ExecutedIsReplayable
  <2> SUFFICES ASSUME PipelineInv, NEW k \in Keys, runs[k] > forgotten[k]
               PROVE  cache[k] = Drc!Completed(runs[k]) \/ kindOf[k[2]] = "panics"
    BY DEF ExecutedIsReplayable
  <2>1. runs[k] \in Nat /\ forgotten[k] \in Nat /\ cache[k] \in Drc!Entries
    BY DEF PipelineInv, TableType
  <2>2. cache[k] # Drc!Vacant
    BY <2>1 DEF PipelineInv, Counts
  <2>3. CASE cache[k] = Drc!InProgress
    <3>1. PICK c \in Conns : Busy(c) /\ CmdKey(c) = k
      BY <2>3 DEF PipelineInv, Claims
    <3>2. worker[c] = "dead"
      BY <2>1, <3>1 DEF PipelineInv, Counts, Busy
    <3>3. cmd[c] \in Record
      BY <3>1 DEF PipelineInv, TableType
    <3> QED BY <3>1, <3>2, <3>3, KeyFacts DEF PipelineInv, Claims, CmdKind, CmdKey
  <2>4. CASE cache[k] # Drc!InProgress
    BY <2>1, <2>2, <2>4, TableCases DEF PipelineInv, Counts
  <2> QED BY <2>3, <2>4
<1> QED BY <1>1, PipelineInvariant, PTL

------------------------------------------------------------------------------
(* Replies and types.                                                      *)

\* The records in a channel, and the replies in one.
Records(s) == {s[i] : i \in DOMAIN s}
Answers(s) == {s[i] : i \in {j \in DOMAIN s : s[j].tag = "reply"}}
Positions(T) == {r.pos : r \in T}

\* A channel holds records, or replies, in the order of their positions.
RecordsSorted(s) == \A i, j \in DOMAIN s : i < j => s[i].pos < s[j].pos
RepliesSorted(s) ==
    \A i, j \in DOMAIN s :
        i < j /\ s[i].tag = "reply" /\ s[j].tag = "reply" => s[i].pos < s[j].pos

(* The way of a call through its connection, from the client's side of the *)
(* socket backwards: the positions that have got to each stage.            *)
Stages(c) ==
    << Positions(Answers(out[c])),
       Positions(Answers(replies[c])),
       Positions(Answers(results[c])),
       IF worker[c] = "executing" THEN {cmd[c].pos} ELSE {},
       Positions(Records(queue[c])),
       Positions(Records(pipe[c])),
       IF writing[c] = NoRecord THEN {} ELSE {writing[c].pos},
       Positions(Records(net[c])),
       (sent[c] + 1) .. MaxSends >>

\* What is ahead in the pipeline came earlier.
Ahead(A, B) == \A p \in A, q \in B : p < q
Queued(A) == \A m, n \in 1..9 : m < n => Ahead(A[m], A[n])

(* Every channel is sorted, and no call overtakes another.                 *)
Sorted(c) ==
    /\ RepliesSorted(out[c])
    /\ RepliesSorted(replies[c])
    /\ RepliesSorted(results[c])
    /\ RecordsSorted(queue[c])
    /\ RecordsSorted(pipe[c])
    /\ RecordsSorted(net[c])
StreamInv == \A c \in Conns : Sorted(c) /\ Queued(Stages(c))

\* The replies on a connection: delivered or on their way.
Given(c) == Answers(out[c]) \cup Answers(replies[c]) \cup Answers(results[c])

(* The replies to a call that was not forgotten are the one in the table.  *)
ReplyInv ==
    \A c \in Conns : \A a \in Given(c) :
        forgotten[KeyOf(c, a)] = 0 => cache[KeyOf(c, a)] = Drc!Completed(a.run)

------------------------------------------------------------------------------
(* What a channel may hold stays so when it is read and written.           *)
LEMMA ChannelType ==
    ASSUME NEW S, NEW s \in Seq(S)
    PROVE  /\ <<>> \in Seq(S)
           /\ \A e \in S : Append(s, e) \in Seq(S)
           /\ s # <<>> => Head(s) \in S /\ Tail(s) \in Seq(S)
BY EmptySeq, AppendProperties, HeadTailProperties

(* The results are told apart by their tags, and a record is not the       *)
(* absence of one.                                                         *)
LEMMA ResultForms ==
    /\ NoReply \in Results /\ Failure \in Results \ {NoReply}
    /\ NoReply.tag = "none" /\ Failure.tag = "err"
    /\ \A r \in Record, n \in Nat :
           /\ ReplyTo(r, n) \in Results \ {NoReply, Failure}
           /\ ReplyTo(r, n).tag = "reply"
           /\ ReplyTo(r, n).pos = r.pos
           /\ ReplyTo(r, n).xid = r.xid
           /\ ReplyTo(r, n).run = n
    /\ \A a \in Results : a.tag = "reply" <=> a \notin {NoReply, Failure}
    /\ \A a \in Results : a.tag = "reply" =>
           a.pos \in 1..MaxSends /\ a.xid \in Xids /\ a.run \in Nat
    /\ \A r \in Record : r # NoRecord /\ r.pos \in 1..MaxSends /\ r.xid \in Xids
<1>1. \A r \in Record : r # NoRecord /\ r.pos \in 1..MaxSends /\ r.xid \in Xids
  BY DEF Record, NoRecord
<1>2. \A r \in Record, n \in Nat :
           /\ ReplyTo(r, n) \in Results \ {NoReply, Failure}
           /\ ReplyTo(r, n).tag = "reply"
           /\ ReplyTo(r, n).pos = r.pos
           /\ ReplyTo(r, n).xid = r.xid
           /\ ReplyTo(r, n).run = n
  BY DEF Record, ReplyTo, Results, NoReply, Failure
<1> QED BY <1>1, <1>2 DEF Results, NoReply, Failure

(* A step keeps the types: what the socket, the reader, the worker and the *)
(* forwarder pass on is what the next task expects.                        *)
LEMMA TypeStep == TypeOK /\ PipelineInv /\ [Next]_vars => TypeOK'
<1> SUFFICES ASSUME TypeOK, PipelineInv, [Next]_vars PROVE TypeOK'
  OBVIOUS
<1> USE DEF TypeOK, socketVars, readerVars, workerVars
<1>1. CASE UNCHANGED vars
  BY <1>1 DEF vars
<1>2. ASSUME NEW c \in Conns, Accept(c) \/ HangUp(c) PROVE TypeOK'
  BY <1>2 DEF Accept, HangUp
<1>3. ASSUME NEW c \in Conns, NEW x \in Xids, Send(c, x) PROVE TypeOK'
  <2>1. sent[c] + 1 \in 1..MaxSends /\ sent[c] + 1 \in 0..MaxSends
    BY <1>3, PipelineAssumption DEF Send
  <2>2. [pos |-> sent[c] + 1, xid |-> x] \in Record
    BY <2>1 DEF Record
  <2>3. Append(net[c], [pos |-> sent[c] + 1, xid |-> x]) \in Seq(Record)
    BY <2>2, ChannelType
  <2> QED BY <1>3, <2>1, <2>3 DEF Send
<1>4. ASSUME NEW c \in Conns, Socket(c) PROVE TypeOK'
  <2>1. CASE SocketRead(c)
    <3>1. Head(net[c]) \in Record /\ Tail(net[c]) \in Seq(Record)
      BY <2>1, ChannelType DEF SocketRead
    <3> QED BY <2>1, <3>1 DEF SocketRead
  <2>2. CASE SocketWrite(c)
    <3>1. writing[c] \in Record
      BY <2>2 DEF SocketWrite
    <3>2. Append(pipe[c], writing[c]) \in Seq(Record)
      BY <3>1, ChannelType
    <3>3. pipe' \in [Conns -> Seq(Record)]
      BY <2>2, <3>2 DEF SocketWrite
    <3> QED BY <2>2, <3>3 DEF SocketWrite
  <2>3. CASE Close(c)
    BY <2>3, EmptySeq DEF Close
  <2>4. CASE SendReply(c)
    <3>1. /\ Head(replies[c]) \in Results \ {NoReply} /\ Head(replies[c]).tag = "reply"
          /\ Tail(replies[c]) \in Seq(Results \ {NoReply})
      BY <2>4, ChannelType DEF SendReply
    <3>2. Head(replies[c]) \in Results \ {NoReply, Failure}
      BY <3>1, ResultForms
    <3>3. Append(out[c], Head(replies[c])) \in Seq(Results \ {NoReply, Failure})
      BY <3>2, ChannelType
    <3> QED BY <2>4, <3>1, <3>3 DEF SendReply
  <2> QED BY <1>4, <2>1, <2>2, <2>3, <2>4 DEF Socket, SocketClosed, GiveUp
<1>5. ASSUME NEW c \in Conns, Reader(c) PROVE TypeOK'
  <2>1. /\ UNCHANGED <<kindOf, socketVars, workerVars, results, forwarder, replies>>
        /\ \/ ReaderEnds(c)
           \/ /\ pipe[c] # <<>>
              /\ queue' = [queue EXCEPT ![c] = Append(@, Head(pipe[c]))]
              /\ pipe' = [pipe EXCEPT ![c] = Tail(@)]
              /\ UNCHANGED reader
    BY <1>5 DEF Reader, ReaderRead, ReaderEof
  <2>2. CASE ReaderEnds(c)
    BY <2>1, <2>2, EmptySeq DEF ReaderEnds
  <2>3. CASE ~ReaderEnds(c)
    <3>1. Head(pipe[c]) \in Record /\ Tail(pipe[c]) \in Seq(Record)
      BY <2>1, <2>3, ChannelType
    <3>2. Append(queue[c], Head(pipe[c])) \in Seq(Record)
      BY <3>1, ChannelType
    <3>3. queue' \in [Conns -> Seq(Record)]
      BY <2>1, <2>3, <3>2
    <3>4. pipe' \in [Conns -> Seq(Record)]
      BY <2>1, <2>3, <3>1
    <3> QED BY <2>1, <2>3, <3>3, <3>4
  <2> QED BY <2>2, <2>3
<1>6. ASSUME NEW c \in Conns, Worker(c) PROVE TypeOK'
  <2>1. queue[c] # <<>> => Tail(queue[c]) \in Seq(Record)
    BY ChannelType
  <2>2. \A res \in Results : Append(results[c], res) \in Seq(Results)
    BY ChannelType
  <2>3. \A S \in SUBSET Keys :
            Consults(S) => /\ Drc!Forget(cache, S) \in [Keys -> Drc!Entries]
                           /\ forgotten' \in [Keys -> 0..MaxForgets]
    <3> SUFFICES ASSUME NEW S \in SUBSET Keys, Consults(S)
                 PROVE  /\ Drc!Forget(cache, S) \in [Keys -> Drc!Entries]
                        /\ forgotten' \in [Keys -> 0..MaxForgets]
      OBVIOUS
    <3>1. Drc!Forget(cache, S) \in [Keys -> Drc!Entries]
      BY ForgetFacts DEF PipelineInv
    <3>2. forgotten' \in [Keys -> 0..MaxForgets]
      BY PipelineAssumption DEF Consults
    <3> QED BY <3>1, <3>2
  <2>4. CASE TakeGarbled(c)
    <3>1. Append(results[c], Failure) \in Seq(Results)
      BY <2>2, ResultForms
    <3>2. /\ queue[c] # <<>> /\ queue' = [queue EXCEPT ![c] = Tail(@)]
          /\ results' = [results EXCEPT ![c] = Append(@, Failure)]
          /\ UNCHANGED <<kindOf, socketVars, readerVars, workerVars, forwarder, replies>>
      BY <2>4 DEF TakeGarbled, Takes, SendsResult
    <3> QED BY <2>1, <3>1, <3>2
  <2>5. CASE TakeCompleted(c)
    <3>1. PICK r \in Record, S \in SUBSET Keys :
              /\ Takes(c, r)
              /\ Consults(S)
              /\ cache[KeyOf(c, r)].tag = "Completed"
              /\ cache' = Drc!Forget(cache, S)
              /\ SendsResult(c, ReplyTo(r, cache[KeyOf(c, r)].response))
              /\ UNCHANGED <<worker, cmd, runs, dropped>>
      BY <2>5 DEF TakeCompleted
    <3>2. cache[KeyOf(c, r)].response \in Nat
      BY <3>1, KeyFacts, TableCases, TableForms
    <3>3. ReplyTo(r, cache[KeyOf(c, r)].response) \in Results
      BY <3>2, ResultForms
    <3> QED BY <2>1, <2>2, <2>3, <3>1, <3>3 DEF Takes, SendsResult
  <2>6. CASE TakeInProgress(c)
    <3>1. PICK r \in Record, S \in SUBSET Keys :
              /\ Takes(c, r)
              /\ Consults(S)
              /\ cache' = Drc!Forget(cache, S)
              /\ SendsResult(c, NoReply)
              /\ dropped' = [dropped EXCEPT ![c] = @ \cup {r.pos}]
              /\ UNCHANGED <<worker, cmd, runs>>
      BY <2>6 DEF TakeInProgress
    <3>2. NoReply \in Results /\ r.pos \in 1..MaxSends
      BY ResultForms
    <3> QED BY <2>1, <2>2, <2>3, <3>1, <3>2 DEF Takes, SendsResult
  <2>7. CASE TakeNew(c)
    <3>1. PICK r \in Record, S \in SUBSET Keys :
              /\ Takes(c, r)
              /\ Consults(S)
              /\ cache' = [Drc!Forget(cache, S) EXCEPT ![KeyOf(c, r)] = Drc!InProgress]
              /\ worker' = [worker EXCEPT ![c] = "executing"]
              /\ cmd' = [cmd EXCEPT ![c] = r]
              /\ UNCHANGED <<results, runs, dropped>>
      BY <2>7 DEF TakeNew
    <3>2. cache' \in [Keys -> Drc!Entries]
      BY <2>3, <3>1, TableForms
    <3> QED BY <2>1, <2>3, <3>1, <3>2 DEF Takes
  <2>8. CASE Process(c) \/ Refuse(c) \/ Fail(c)
    <3>1. cmd[c] \in Record /\ Returns(c)
      BY <2>8 DEF Process, Refuse, Fail, PipelineInv, TableType, Busy
    <3>2. CmdKey(c) \in Keys /\ runs[CmdKey(c)] \in Nat
      BY <3>1, KeyFacts DEF CmdKey
    <3>3. PICK res \in Results : results' = [results EXCEPT ![c] = Append(@, res)]
      <4>1. ReplyTo(cmd[c], runs[CmdKey(c)] + 1) \in Results /\ ReplyTo(cmd[c], 0) \in Results
        BY <3>1, <3>2, ResultForms
      <4> QED BY <2>8, <4>1, ResultForms DEF Process, Refuse, Fail, SendsResult
    <3>4. cache' \in [Keys -> Drc!Entries] /\ runs' \in [Keys -> Nat]
      <4>1. \A n \in {0, runs[CmdKey(c)] + 1} : n \in Nat /\ Drc!Completed(n) \in Drc!Entries
        BY <3>2, TableForms
      <4>2. PICK e \in Drc!Entries : cache' = [cache EXCEPT ![CmdKey(c)] = e]
        BY <2>8, <4>1, TableForms DEF Process, Refuse, Fail, Recorded, Cleared
      <4>3. runs' = runs \/ runs' = [runs EXCEPT ![CmdKey(c)] = @ + 1]
        BY <2>8 DEF Process, Refuse, Fail
      <4>4. ASSUME runs' = [runs EXCEPT ![CmdKey(c)] = @ + 1] PROVE runs' \in [Keys -> Nat]
        <5>1. \A k \in Keys : runs[k] + 1 \in Nat
          OBVIOUS
        <5> QED BY <4>4, <5>1
      <4>5. runs' \in [Keys -> Nat]
        BY <4>3, <4>4
      <4> QED BY <4>2, <4>5
    <3> QED BY <2>2, <3>1, <3>3, <3>4 DEF Returns
  <2>9. CASE Panic(c)
    <3>1. PICK e \in {0, 1} : runs' = [runs EXCEPT ![CmdKey(c)] = @ + e]
      BY <2>9 DEF Panic
    <3>2. \A k \in Keys : runs[k] + e \in Nat
      OBVIOUS
    <3>3. runs' \in [Keys -> Nat]
      BY <3>1, <3>2
    <3> QED BY <2>9, <3>3, EmptySeq DEF Panic
  <2>10. CASE WorkerEnd(c)
    BY <2>10 DEF WorkerEnd
  <2> QED BY <1>6, <2>4, <2>5, <2>6, <2>7, <2>8, <2>9, <2>10 DEF Worker
<1>7. ASSUME NEW c \in Conns, Forwarder(c) PROVE TypeOK'
  <2>1. CASE Forward(c)
    <3>1. Head(results[c]) \in Results /\ Tail(results[c]) \in Seq(Results)
      BY <2>1, ChannelType DEF Forward
    <3>2. PassesOn(Head(results[c])) =>
              Append(replies[c], Head(results[c])) \in Seq(Results \ {NoReply})
      BY <3>1, ChannelType DEF PassesOn
    <3> QED BY <2>1, <3>1, <3>2 DEF Forward
  <2>2. CASE ForwarderEnd(c)
    BY <2>2 DEF ForwarderEnd
  <2> QED BY <1>7, <2>1, <2>2 DEF Forwarder
<1> QED BY <1>1, <1>2, <1>3, <1>4, <1>5, <1>6, <1>7 DEF Next
------------------------------------------------------------------------------
(* Reading a channel of records gives the earliest of them.                *)
LEMMA ReadRecord ==
    ASSUME NEW S, NEW s \in Seq(S), s # <<>>, RecordsSorted(s)
    PROVE  /\ RecordsSorted(Tail(s))
           /\ Head(s).pos \in Positions(Records(s))
           /\ Positions(Records(Tail(s))) \subseteq Positions(Records(s))
           /\ \A q \in Positions(Records(Tail(s))) : Head(s).pos < q
<1>1. /\ Len(s) \in Nat \ {0} /\ DOMAIN s = 1..Len(s) /\ Head(s) = s[1]
      /\ DOMAIN Tail(s) = 1..(Len(s) - 1)
      /\ \A i \in 1..(Len(s) - 1) : Tail(s)[i] = s[i + 1] /\ i + 1 \in 1..Len(s)
  BY EmptySeq, LenProperties, HeadTailProperties
<1>2. RecordsSorted(Tail(s))
  BY <1>1 DEF RecordsSorted
<1>3. \A r \in Records(Tail(s)) : r \in Records(s) /\ Head(s).pos < r.pos
  BY <1>1 DEF RecordsSorted, Records
<1>4. Head(s) \in Records(s)
  BY <1>1 DEF Records
<1> QED BY <1>2, <1>3, <1>4 DEF Positions

(* Writing a later record to a channel keeps it sorted.                    *)
LEMMA WriteRecord ==
    ASSUME NEW S, NEW s \in Seq(S), NEW e \in S, RecordsSorted(s),
           \A p \in Positions(Records(s)) : p < e.pos
    PROVE  /\ RecordsSorted(Append(s, e))
           /\ Positions(Records(Append(s, e))) = Positions(Records(s)) \cup {e.pos}
<1>1. /\ Len(s) \in Nat /\ DOMAIN s = 1..Len(s)
      /\ DOMAIN Append(s, e) = 1..(Len(s) + 1)
      /\ \A i \in 1..Len(s) : Append(s, e)[i] = s[i]
      /\ Append(s, e)[Len(s) + 1] = e
  BY LenProperties, AppendProperties
<1>2. Records(Append(s, e)) = Records(s) \cup {e}
  BY <1>1 DEF Records
<1>3. RecordsSorted(Append(s, e))
  <2>1. \A i \in 1..Len(s) : s[i].pos < e.pos
    BY <1>1 DEF Records, Positions
  <2> QED BY <1>1, <2>1 DEF RecordsSorted
<1> QED BY <1>2, <1>3 DEF Positions

(* The same for the channels of results, in which only replies count.      *)
LEMMA ReadReply ==
    ASSUME NEW S, NEW s \in Seq(S), s # <<>>
    PROVE  /\ Answers(Tail(s)) \subseteq Answers(s)
           /\ Head(s).tag = "reply" => Head(s) \in Answers(s)
           /\ RepliesSorted(s) =>
                  /\ RepliesSorted(Tail(s))
                  /\ Head(s).tag = "reply" =>
                         \A q \in Positions(Answers(Tail(s))) : Head(s).pos < q
<1>1. /\ Len(s) \in Nat \ {0} /\ DOMAIN s = 1..Len(s) /\ Head(s) = s[1]
      /\ DOMAIN Tail(s) = 1..(Len(s) - 1)
      /\ \A i \in 1..(Len(s) - 1) : Tail(s)[i] = s[i + 1] /\ i + 1 \in 1..Len(s)
  BY EmptySeq, LenProperties, HeadTailProperties
<1>2. \A r \in Answers(Tail(s)) : r \in Answers(s)
  BY <1>1 DEF Answers
<1>3. Head(s).tag = "reply" => Head(s) \in Answers(s)
  BY <1>1 DEF Answers
<1>4. ASSUME RepliesSorted(s)
      PROVE  /\ RepliesSorted(Tail(s))
             /\ Head(s).tag = "reply" =>
                    \A q \in Positions(Answers(Tail(s))) : Head(s).pos < q
  <2>1. RepliesSorted(Tail(s))
    BY <1>1, <1>4 DEF RepliesSorted
  <2>2. Head(s).tag = "reply" => \A r \in Answers(Tail(s)) : Head(s).pos < r.pos
    BY <1>1, <1>4 DEF RepliesSorted, Answers
  <2> QED BY <2>1, <2>2 DEF Positions
<1> QED BY <1>2, <1>3, <1>4

\* Appending a reply adds it, and keeps the order if it comes last.
LEMMA WriteReply ==
    ASSUME NEW S, NEW s \in Seq(S), NEW e \in S
    PROVE  /\ Answers(Append(s, e)) = IF e.tag = "reply" THEN Answers(s) \cup {e} ELSE Answers(s)
           /\ /\ RepliesSorted(s)
              /\ e.tag = "reply" => \A p \in Positions(Answers(s)) : p < e.pos
              => RepliesSorted(Append(s, e))
<1>1. /\ Len(s) \in Nat /\ DOMAIN s = 1..Len(s)
      /\ DOMAIN Append(s, e) = 1..(Len(s) + 1)
      /\ \A i \in 1..Len(s) : Append(s, e)[i] = s[i]
      /\ Append(s, e)[Len(s) + 1] = e
  BY LenProperties, AppendProperties
<1>2. Answers(Append(s, e)) = IF e.tag = "reply" THEN Answers(s) \cup {e} ELSE Answers(s)
  BY <1>1 DEF Answers
<1>3. ASSUME RepliesSorted(s),
             e.tag = "reply" => \A p \in Positions(Answers(s)) : p < e.pos
      PROVE  RepliesSorted(Append(s, e))
  <2>1. e.tag = "reply" => \A i \in 1..Len(s) : s[i].tag = "reply" => s[i].pos < e.pos
    BY <1>1, <1>3 DEF Answers, Positions
  <2> QED BY <1>1, <1>3, <2>1 DEF RepliesSorted
<1> QED BY <1>2, <1>3

(* An empty channel holds nothing.                                         *)
LEMMA EmptyChannel ==
    /\ Records(<<>>) = {} /\ Answers(<<>>) = {} /\ Positions({}) = {}
    /\ RecordsSorted(<<>>) /\ RepliesSorted(<<>>)
BY DEF Records, Answers, Positions, RecordsSorted, RepliesSorted

\* The positions of a set, of a larger one and of one more element.
LEMMA PositionSets ==
    ASSUME NEW A, NEW B
    PROVE  /\ A \subseteq B => Positions(A) \subseteq Positions(B)
           /\ \A e : Positions(A \cup {e}) = Positions(A) \cup {e.pos}
           /\ \A e \in A : e.pos \in Positions(A)
BY DEF Positions

(* Losing what is in the pipeline leaves the rest in order.                *)
LEMMA Shrinking ==
    ASSUME NEW A, NEW B, Queued(A), \A k \in 1..9 : B[k] \subseteq A[k]
    PROVE  Queued(B)
BY DEF Queued, Ahead

(* The earliest position of a stage may move forward, past empty stages.   *)
LEMMA Moving ==
    ASSUME NEW A, NEW B, Queued(A), NEW m \in 1..9, NEW n \in 1..9, m < n, NEW x \in A[n],
           B[m] \subseteq A[m] \cup {x},
           B[n] \subseteq A[n],
           \A q \in B[n] : x < q,
           \A k \in 1..9 : m < k /\ k < n => B[k] = {},
           \A k \in (1..9) \ {m, n} : B[k] \subseteq A[k]
    PROVE  Queued(B)
<1> SUFFICES ASSUME NEW k \in 1..9, NEW l \in 1..9, k < l, NEW p \in B[k], NEW q \in B[l]
             PROVE  p < q
  BY DEF Queued, Ahead
<1>1. \A i, j \in 1..9 : i < j => \A a \in A[i], b \in A[j] : a < b
  BY DEF Queued, Ahead
<1>2. CASE k = m
  <2>1. CASE p \in A[m]
    BY <1>1, <1>2, <2>1
  <2>2. CASE p = x
    <3>1. l >= n
      BY <1>2
    <3>2. CASE l = n
      BY <2>2, <3>2
    <3>3. CASE l > n
      <4>1. q \in A[l]
        BY <3>3
      <4> QED BY <1>1, <2>2, <3>3, <4>1
    <3> QED BY <3>1, <3>2, <3>3
  <2> QED BY <1>2, <2>1, <2>2
<1>3. CASE k # m
  <2>1. p \in A[k]
    BY <1>3
  <2>2. CASE l = m
    <3>1. q \in A[m] \/ q = x
      BY <2>2
    <3> QED BY <1>1, <2>1, <2>2, <3>1
  <2>3. CASE l # m
    BY <1>1, <2>1, <2>3
  <2> QED BY <2>2, <2>3
<1> QED BY <1>2, <1>3
\* What Sorted and Stages say of a connection.
streamVars(c) ==
    << out[c], replies[c], results[c], worker[c], cmd[c], queue[c], pipe[c], writing[c],
       net[c], sent[c] >>

(* A connection is not disturbed by the steps of another.                  *)
LEMMA StreamFrame ==
    ASSUME NEW c, Sorted(c), Queued(Stages(c)), UNCHANGED streamVars(c)
    PROVE  Sorted(c)' /\ Queued(Stages(c))'
BY DEF streamVars, Sorted, Stages

\* The stages of a connection one by one, before (A) and after (B) a step.
StageTable(c, A, B) ==
    /\ A[1] = Positions(Answers(out[c])) /\ B[1] = Positions(Answers(out'[c]))
    /\ A[2] = Positions(Answers(replies[c])) /\ B[2] = Positions(Answers(replies'[c]))
    /\ A[3] = Positions(Answers(results[c])) /\ B[3] = Positions(Answers(results'[c]))
    /\ A[4] = IF worker[c] = "executing" THEN {cmd[c].pos} ELSE {}
    /\ B[4] = IF worker'[c] = "executing" THEN {cmd'[c].pos} ELSE {}
    /\ A[5] = Positions(Records(queue[c])) /\ B[5] = Positions(Records(queue'[c]))
    /\ A[6] = Positions(Records(pipe[c])) /\ B[6] = Positions(Records(pipe'[c]))
    /\ A[7] = IF writing[c] = NoRecord THEN {} ELSE {writing[c].pos}
    /\ B[7] = IF writing'[c] = NoRecord THEN {} ELSE {writing'[c].pos}
    /\ A[8] = Positions(Records(net[c])) /\ B[8] = Positions(Records(net'[c]))
    /\ A[9] = (sent[c] + 1) .. MaxSends /\ B[9] = (sent'[c] + 1) .. MaxSends

\* The stages of a connection, and of its next state, by their numbers.
LEMMA StageParts ==
    ASSUME NEW c
    PROVE  \E A, B : A = Stages(c) /\ B = Stages(c)' /\ StageTable(c, A, B)
<1>1. StageTable(c, Stages(c), Stages(c)')
  BY DEF Stages, StageTable
<1> QED BY <1>1

\* The stages are nine.
LEMMA Nine == \A k \in 1..9 : k \in {1, 2, 3, 4, 5, 6, 7, 8, 9}
OBVIOUS

(* The client and process_socket: calls go in, replies come out.           *)
LEMMA SocketStream ==
    ASSUME TypeOK, NEW c \in Conns, Sorted(c), Queued(Stages(c)),
           (\E x \in Xids : Send(c, x)) \/ Socket(c)
    PROVE  Sorted(c)' /\ Queued(Stages(c))'
<1>1. PICK A, B : A = Stages(c) /\ B = Stages(c)' /\ StageTable(c, A, B)
  BY StageParts
<1>2. Queued(A)
  BY <1>1
<1>3. ASSUME NEW x \in Xids, Send(c, x) PROVE Sorted(c)' /\ Queued(B)
  <2> DEFINE r == [pos |-> sent[c] + 1, xid |-> x]
  <2>1. /\ net'[c] = Append(net[c], r) /\ sent'[c] = sent[c] + 1
        /\ sent[c] \in 0..(MaxSends - 1) /\ net[c] \in Seq(Record)
        /\ UNCHANGED <<out, replies, results, worker, cmd, queue, pipe, writing>>
    BY <1>3, PipelineAssumption DEF Send, readerVars, workerVars, TypeOK
  <2>2. r \in Record /\ r.pos = sent[c] + 1 /\ r.pos \in (sent[c] + 1)..MaxSends
    BY <2>1, PipelineAssumption DEF Record
  <2> HIDE DEF r
  <2>3. \A p \in Positions(Records(net[c])) : p < r.pos
    <3>1. Ahead(A[8], A[9])
      BY <1>2 DEF Queued
    <3> QED BY <1>1, <2>2, <3>1 DEF StageTable, Ahead
  <2>4. /\ RecordsSorted(net'[c])
        /\ Positions(Records(net'[c])) = Positions(Records(net[c])) \cup {r.pos}
    BY <2>1, <2>2, <2>3, WriteRecord DEF Sorted
  <2>5. /\ B[1] = A[1] /\ B[2] = A[2] /\ B[3] = A[3] /\ B[4] = A[4] /\ B[5] = A[5]
        /\ B[6] = A[6] /\ B[7] = A[7]
    BY <1>1, <2>1 DEF StageTable
  <2>6. \A k \in (1..9) \ {8, 9} : B[k] \subseteq A[k]
    BY <2>5, Nine
  <2>7. /\ B[8] \subseteq A[8] \cup {r.pos} /\ r.pos \in A[9] /\ B[9] \subseteq A[9]
        /\ \A q \in B[9] : r.pos < q
    <3>1. A[9] = (sent[c] + 1)..MaxSends /\ B[9] = (sent[c] + 2)..MaxSends
      BY <1>1, <2>1 DEF StageTable
    <3>2. B[8] = A[8] \cup {r.pos}
      BY <1>1, <2>4 DEF StageTable
    <3> QED BY <2>1, <2>2, <3>1, <3>2, PipelineAssumption
  <2>8. 8 \in 1..9 /\ 9 \in 1..9 /\ 8 < 9 /\ \A k \in 1..9 : ~(8 < k /\ k < 9)
    OBVIOUS
  <2>9. Queued(B)
    BY <1>2, <2>6, <2>7, <2>8, Moving
  <2> QED BY <2>1, <2>4, <2>9 DEF Sorted
<1>4. CASE SocketRead(c)
  <2> DEFINE r == Head(net[c])
  <2>1. /\ net[c] # <<>> /\ net'[c] = Tail(net[c]) /\ writing[c] = NoRecord /\ writing'[c] = r
        /\ UNCHANGED <<out, replies, results, worker, cmd, queue, pipe, sent>>
    BY <1>4 DEF SocketRead, Selecting, readerVars, workerVars, TypeOK
  <2>2. r # NoRecord
    BY <2>1, ChannelType, ResultForms DEF TypeOK
  <2> HIDE DEF r
  <2>3. /\ RecordsSorted(net'[c])
        /\ r.pos \in Positions(Records(net[c]))
        /\ Positions(Records(net'[c])) \subseteq Positions(Records(net[c]))
        /\ \A q \in Positions(Records(net'[c])) : r.pos < q
    BY <2>1, ReadRecord DEF Sorted, r, TypeOK
  <2>4. /\ B[1] = A[1] /\ B[2] = A[2] /\ B[3] = A[3] /\ B[4] = A[4] /\ B[5] = A[5]
        /\ B[6] = A[6] /\ B[9] = A[9]
    BY <1>1, <2>1 DEF StageTable
  <2>5. \A k \in (1..9) \ {7, 8} : B[k] \subseteq A[k]
    BY <2>4, Nine
  <2>6. /\ B[7] \subseteq A[7] \cup {r.pos} /\ r.pos \in A[8] /\ B[8] \subseteq A[8]
        /\ \A q \in B[8] : r.pos < q
    BY <1>1, <2>1, <2>2, <2>3 DEF StageTable
  <2>7. 7 \in 1..9 /\ 8 \in 1..9 /\ 7 < 8 /\ \A k \in 1..9 : ~(7 < k /\ k < 8)
    OBVIOUS
  <2>8. Queued(B)
    BY <1>2, <2>5, <2>6, <2>7, Moving
  <2> QED BY <1>1, <2>1, <2>3, <2>8 DEF Sorted
<1>5. CASE SocketWrite(c)
  <2>1. /\ writing[c] # NoRecord /\ writing[c] \in Record /\ writing'[c] = NoRecord
        /\ pipe'[c] = Append(pipe[c], writing[c]) \/ pipe'[c] = pipe[c]
        /\ pipe[c] \in Seq(Record)
        /\ UNCHANGED <<out, replies, results, worker, cmd, queue, net, sent>>
    BY <1>5 DEF SocketWrite, workerVars, TypeOK
  <2>2. \A p \in Positions(Records(pipe[c])) : p < writing[c].pos
    BY <1>1, <1>2, <2>1, SMTT(20) DEF StageTable, Queued, Ahead
  <2>3. /\ RecordsSorted(pipe'[c])
        /\ Positions(Records(pipe'[c])) \subseteq Positions(Records(pipe[c])) \cup {writing[c].pos}
    <3>1. CASE pipe'[c] = pipe[c]
      BY <3>1 DEF Sorted
    <3>2. CASE pipe'[c] = Append(pipe[c], writing[c])
      BY <2>1, <2>2, <3>2, WriteRecord DEF Sorted
    <3> QED BY <2>1, <3>1, <3>2
  <2>4. /\ B[1] = A[1] /\ B[2] = A[2] /\ B[3] = A[3] /\ B[4] = A[4] /\ B[5] = A[5]
        /\ B[8] = A[8] /\ B[9] = A[9]
    BY <1>1, <2>1 DEF StageTable
  <2>5. \A k \in (1..9) \ {6, 7} : B[k] \subseteq A[k]
    BY <2>4, Nine
  <2>6. B[6] \subseteq A[6] \cup {writing[c].pos} /\ writing[c].pos \in A[7] /\ B[7] = {}
    BY <1>1, <2>1, <2>3 DEF StageTable
  <2>7. 6 \in 1..9 /\ 7 \in 1..9 /\ 6 < 7 /\ \A k \in 1..9 : ~(6 < k /\ k < 7)
    OBVIOUS
  <2>8. Queued(B)
    BY <1>2, <2>5, <2>6, <2>7, Moving
  <2> QED BY <1>1, <2>1, <2>3, <2>8 DEF Sorted
<1>6. CASE Close(c)
  <2>1. /\ net'[c] = <<>> /\ replies'[c] = <<>>
        /\ UNCHANGED <<out, results, worker, cmd, queue, pipe, writing, sent>>
    BY <1>6 DEF Close, readerVars, workerVars, TypeOK
  <2>2. /\ B[1] = A[1] /\ B[2] = {} /\ B[3] = A[3] /\ B[4] = A[4] /\ B[5] = A[5]
        /\ B[6] = A[6] /\ B[7] = A[7] /\ B[8] = {} /\ B[9] = A[9]
    BY <1>1, <2>1, EmptyChannel DEF StageTable
  <2>3. \A k \in 1..9 : B[k] \subseteq A[k]
    BY <2>2, Nine
  <2>4. Queued(B)
    BY <1>2, <2>3, Shrinking
  <2> QED BY <1>1, <2>1, <2>4, EmptyChannel DEF Sorted
<1>7. CASE SendReply(c)
  <2> DEFINE a == Head(replies[c])
  <2>1. /\ replies[c] # <<>> /\ a.tag = "reply" /\ replies'[c] = Tail(replies[c])
        /\ out'[c] = out[c] \/ out'[c] = Append(out[c], a)
        /\ out[c] \in Seq(Results \ {NoReply, Failure})
        /\ UNCHANGED <<results, worker, cmd, queue, pipe, writing, net, sent>>
    BY <1>7 DEF SendReply, readerVars, workerVars, TypeOK
  <2>2. a \in Results \ {NoReply, Failure}
    BY <2>1, ChannelType, ResultForms DEF TypeOK
  <2> HIDE DEF a
  <2>3. /\ RepliesSorted(replies'[c])
        /\ Answers(replies'[c]) \subseteq Answers(replies[c]) /\ a \in Answers(replies[c])
        /\ \A q \in Positions(Answers(replies'[c])) : a.pos < q
    BY <2>1, ReadReply DEF Sorted, a, TypeOK
  <2>4. /\ a.pos \in Positions(Answers(replies[c]))
        /\ Positions(Answers(replies'[c])) \subseteq Positions(Answers(replies[c]))
    BY <2>3, PositionSets
  <2>5. \A p \in Positions(Answers(out[c])) : p < a.pos
    BY <1>1, <1>2, <2>4 DEF StageTable, Queued, Ahead
  <2>6. /\ RepliesSorted(out'[c])
        /\ Answers(out'[c]) = Answers(out[c]) \/ Answers(out'[c]) = Answers(out[c]) \cup {a}
    BY <2>1, <2>2, <2>5, WriteReply DEF Sorted
  <2>7. Positions(Answers(out'[c])) \subseteq Positions(Answers(out[c])) \cup {a.pos}
    BY <2>6, PositionSets
  <2>8. /\ B[3] = A[3] /\ B[4] = A[4] /\ B[5] = A[5] /\ B[6] = A[6] /\ B[7] = A[7]
        /\ B[8] = A[8] /\ B[9] = A[9]
    BY <1>1, <2>1 DEF StageTable
  <2>9. \A k \in (1..9) \ {1, 2} : B[k] \subseteq A[k]
    BY <2>8, Nine
  <2>10. /\ B[1] \subseteq A[1] \cup {a.pos} /\ a.pos \in A[2] /\ B[2] \subseteq A[2]
         /\ \A q \in B[2] : a.pos < q
    BY <1>1, <2>3, <2>4, <2>7 DEF StageTable
  <2>11. 1 \in 1..9 /\ 2 \in 1..9 /\ 1 < 2 /\ \A k \in 1..9 : ~(1 < k /\ k < 2)
    OBVIOUS
  <2>12. Queued(B)
    BY <1>2, <2>9, <2>10, <2>11, Moving
  <2> QED BY <1>1, <2>1, <2>3, <2>6, <2>12 DEF Sorted
<1> QED BY <1>1, <1>3, <1>4, <1>5, <1>6, <1>7 DEF Socket, SocketClosed, GiveUp
(* The reader submits what the pipe holds, in its order.                   *)
LEMMA ReaderStream ==
    ASSUME TypeOK, NEW c \in Conns, Sorted(c), Queued(Stages(c)), Reader(c)
    PROVE  Sorted(c)' /\ Queued(Stages(c))'
<1>1. PICK A, B : A = Stages(c) /\ B = Stages(c)' /\ StageTable(c, A, B)
  BY StageParts
<1>2. Queued(A)
  BY <1>1
<1>3. /\ UNCHANGED <<out, replies, results, worker, cmd, writing, net, sent>>
      /\ pipe[c] \in Seq(Record) /\ queue[c] \in Seq(Record)
      /\ \/ pipe'[c] = <<>> /\ queue'[c] = queue[c]
         \/ /\ pipe[c] # <<>> /\ pipe'[c] = Tail(pipe[c])
            /\ queue'[c] = Append(queue[c], Head(pipe[c]))
  BY DEF Reader, ReaderRead, ReaderEof, ReaderEnds, socketVars, workerVars, TypeOK
<1>4. /\ B[1] = A[1] /\ B[2] = A[2] /\ B[3] = A[3] /\ B[4] = A[4] /\ B[7] = A[7]
      /\ B[8] = A[8] /\ B[9] = A[9]
  BY <1>1, <1>3 DEF StageTable
<1>5. CASE pipe'[c] = <<>> /\ queue'[c] = queue[c]
  <2>1. B[5] = A[5] /\ B[6] = {}
    BY <1>1, <1>5, EmptyChannel DEF StageTable
  <2>2. \A k \in 1..9 : B[k] \subseteq A[k]
    BY <1>4, <2>1, Nine
  <2>3. Queued(B)
    BY <1>2, <2>2, Shrinking
  <2> QED BY <1>1, <1>3, <1>5, <2>3, EmptyChannel DEF Sorted
<1>6. CASE /\ pipe[c] # <<>> /\ pipe'[c] = Tail(pipe[c])
           /\ queue'[c] = Append(queue[c], Head(pipe[c]))
  <2> DEFINE r == Head(pipe[c])
  <2>1. r \in Record
    BY <1>3, <1>6, ChannelType
  <2> HIDE DEF r
  <2>2. /\ RecordsSorted(pipe'[c])
        /\ r.pos \in Positions(Records(pipe[c]))
        /\ Positions(Records(pipe'[c])) \subseteq Positions(Records(pipe[c]))
        /\ \A q \in Positions(Records(pipe'[c])) : r.pos < q
    BY <1>3, <1>6, ReadRecord DEF Sorted, r
  <2>3. Ahead(A[5], A[6])
    BY <1>2 DEF Queued
  <2>4. \A p \in Positions(Records(queue[c])) : p < r.pos
    BY <1>1, <2>2, <2>3 DEF StageTable, Ahead
  <2>5. /\ RecordsSorted(queue'[c])
        /\ Positions(Records(queue'[c])) = Positions(Records(queue[c])) \cup {r.pos}
    BY <1>3, <1>6, <2>1, <2>4, WriteRecord DEF Sorted, r
  <2>6. \A k \in (1..9) \ {5, 6} : B[k] \subseteq A[k]
    BY <1>4, Nine
  <2>7. /\ B[5] \subseteq A[5] \cup {r.pos} /\ r.pos \in A[6] /\ B[6] \subseteq A[6]
        /\ \A q \in B[6] : r.pos < q
    BY <1>1, <2>2, <2>5 DEF StageTable
  <2>8. 5 \in 1..9 /\ 6 \in 1..9 /\ 5 < 6 /\ \A k \in 1..9 : ~(5 < k /\ k < 6)
    OBVIOUS
  <2>9. Queued(B)
    BY <1>2, <2>6, <2>7, <2>8, Moving
  <2> QED BY <1>1, <1>3, <2>2, <2>5, <2>9 DEF Sorted
<1> QED BY <1>3, <1>5, <1>6

(* A result e added for position p, which comes after all replies and      *)
(* before all calls that wait.                                             *)
LEMMA ResultSent ==
    ASSUME TypeOK, NEW c \in Conns, Sorted(c), NEW e \in Results,
           results'[c] = Append(results[c], e),
           e.tag = "reply" => \A p \in Positions(Answers(results[c])) : p < e.pos
    PROVE  /\ RepliesSorted(results'[c])
           /\ e.tag = "reply" =>
                  Positions(Answers(results'[c])) = Positions(Answers(results[c])) \cup {e.pos}
           /\ e.tag # "reply" => Positions(Answers(results'[c])) = Positions(Answers(results[c]))
<1>1. results[c] \in Seq(Results)
  BY DEF TypeOK
<1>2. /\ RepliesSorted(results'[c])
      /\ e.tag = "reply" => Answers(results'[c]) = Answers(results[c]) \cup {e}
      /\ e.tag # "reply" => Answers(results'[c]) = Answers(results[c])
  BY <1>1, WriteReply DEF Sorted
<1> QED BY <1>2, PositionSets

(* The worker takes the earliest call that waits, and answers it, if it    *)
(* does, before it takes another.                                          *)
LEMMA WorkerStream ==
    ASSUME TypeOK, PipelineInv, NEW c \in Conns, Sorted(c), Queued(Stages(c)), Worker(c)
    PROVE  Sorted(c)' /\ Queued(Stages(c))'
<1>1. PICK A, B : A = Stages(c) /\ B = Stages(c)' /\ StageTable(c, A, B)
  BY StageParts
<1>2. Queued(A)
  BY <1>1
<1>3. UNCHANGED <<out, replies, pipe, writing, net, sent>>
  BY DEF Worker, TakeGarbled, TakeCompleted, TakeInProgress, TakeNew, Takes, Process, Refuse,
         Fail, Returns, Panic, WorkerEnd, socketVars, readerVars
<1>4. /\ B[1] = A[1] /\ B[2] = A[2] /\ B[6] = A[6] /\ B[7] = A[7] /\ B[8] = A[8]
      /\ B[9] = A[9]
  BY <1>1, <1>3 DEF StageTable
<1>5. Ahead(A[3], A[4]) /\ Ahead(A[3], A[5])
  BY <1>2 DEF Queued
<1>6. ASSUME NEW r \in Record, Takes(c, r)
      PROVE  /\ RecordsSorted(queue'[c]) /\ worker[c] = "idle" /\ A[4] = {}
             /\ r.pos \in A[5] /\ B[5] \subseteq A[5] /\ \A q \in B[5] : r.pos < q
  <2>1. /\ queue[c] \in Seq(Record) /\ queue[c] # <<>> /\ r = Head(queue[c])
        /\ queue'[c] = Tail(queue[c]) /\ worker[c] = "idle"
    BY <1>6 DEF Takes, TypeOK
  <2>2. /\ RecordsSorted(queue'[c])
        /\ r.pos \in Positions(Records(queue[c]))
        /\ Positions(Records(queue'[c])) \subseteq Positions(Records(queue[c]))
        /\ \A q \in Positions(Records(queue'[c])) : r.pos < q
    BY <2>1, ReadRecord DEF Sorted
  <2> QED BY <1>1, <2>1, <2>2 DEF StageTable
<1>7. ASSUME NEW r \in Record, Takes(c, r), UNCHANGED <<worker, cmd>>, NEW e \in Results,
             SendsResult(c, e), e.tag = "reply" => e.pos = r.pos
      PROVE  Sorted(c)' /\ Queued(Stages(c))'
  <2>1. results'[c] = Append(results[c], e)
    BY <1>7 DEF SendsResult, TypeOK
  <2>2. e.tag = "reply" => \A p \in Positions(Answers(results[c])) : p < e.pos
    BY <1>1, <1>5, <1>6, <1>7 DEF StageTable, Ahead
  <2>3. /\ RepliesSorted(results'[c])
        /\ B[3] = A[3] \cup {r.pos} \/ B[3] = A[3]
    BY <1>1, <1>7, <2>1, <2>2, ResultSent DEF StageTable
  <2>4. B[4] = {}
    BY <1>1, <1>6, <1>7 DEF StageTable
  <2>5. \A k \in (1..9) \ {3, 5} : B[k] \subseteq A[k]
    BY <1>4, <2>4, Nine
  <2>6. 3 \in 1..9 /\ 5 \in 1..9 /\ 3 < 5 /\ \A k \in 1..9 : 3 < k /\ k < 5 => B[k] = {}
    BY <2>4, Nine
  <2>7. Queued(B)
    BY <1>2, <1>6, <1>7, <2>3, <2>5, <2>6, Moving
  <2> QED BY <1>1, <1>3, <1>6, <1>7, <2>3, <2>7 DEF Sorted
<1>8. CASE TakeGarbled(c)
  BY <1>7, <1>8, ResultForms DEF TakeGarbled, workerVars
<1>9. CASE TakeCompleted(c)
  <2>1. PICK r \in Record :
            /\ Takes(c, r)
            /\ cache[KeyOf(c, r)].tag = "Completed"
            /\ SendsResult(c, ReplyTo(r, cache[KeyOf(c, r)].response))
            /\ UNCHANGED <<worker, cmd>>
    BY <1>9 DEF TakeCompleted
  <2>2. cache[KeyOf(c, r)].response \in Nat
    BY <2>1, KeyFacts, TableCases, TableForms DEF TypeOK
  <2>3. /\ ReplyTo(r, cache[KeyOf(c, r)].response) \in Results
        /\ ReplyTo(r, cache[KeyOf(c, r)].response).pos = r.pos
    BY <2>2, ResultForms
  <2> QED BY <1>7, <2>1, <2>3
<1>10. CASE TakeInProgress(c)
  BY <1>7, <1>10, ResultForms DEF TakeInProgress
<1>11. CASE TakeNew(c)
  <2>1. PICK r \in Record :
            /\ Takes(c, r)
            /\ worker' = [worker EXCEPT ![c] = "executing"]
            /\ cmd' = [cmd EXCEPT ![c] = r]
            /\ UNCHANGED results
    BY <1>11 DEF TakeNew
  <2>2. worker'[c] = "executing" /\ cmd'[c] = r
    BY <2>1 DEF TypeOK
  <2>3. B[3] = A[3] /\ B[4] = {r.pos}
    BY <1>1, <2>1, <2>2 DEF StageTable
  <2>4. \A k \in (1..9) \ {4, 5} : B[k] \subseteq A[k]
    BY <1>4, <2>3, Nine
  <2>5. 4 \in 1..9 /\ 5 \in 1..9 /\ 4 < 5 /\ \A k \in 1..9 : ~(4 < k /\ k < 5)
    OBVIOUS
  <2>6. /\ RecordsSorted(queue'[c])
        /\ r.pos \in A[5] /\ B[5] \subseteq A[5] /\ \A q \in B[5] : r.pos < q
    BY <1>6, <2>1
  <2>7. Queued(B)
    BY <1>2, <2>3, <2>4, <2>5, <2>6, Moving
  <2> QED BY <1>1, <1>3, <2>1, <2>6, <2>7 DEF Sorted
<1>12. ASSUME worker[c] = "executing", Returns(c), NEW e \in Results, SendsResult(c, e),
              e.tag = "reply" => e.pos = cmd[c].pos
       PROVE  Sorted(c)' /\ Queued(Stages(c))'
  <2>1. results'[c] = Append(results[c], e) /\ worker'[c] = "idle" /\ UNCHANGED queue
    BY <1>12 DEF SendsResult, Returns, TypeOK
  <2>2. A[4] = {cmd[c].pos} /\ B[4] = {} /\ B[5] = A[5]
    BY <1>1, <1>12, <2>1 DEF StageTable
  <2>3. e.tag = "reply" => \A p \in Positions(Answers(results[c])) : p < e.pos
    BY <1>1, <1>5, <1>12, <2>2 DEF StageTable, Ahead
  <2>4. /\ RepliesSorted(results'[c])
        /\ B[3] = A[3] \cup {cmd[c].pos} \/ B[3] = A[3]
    BY <1>1, <1>12, <2>1, <2>3, ResultSent, ZenonT(40) DEF StageTable
  <2>5. \A k \in (1..9) \ {3, 4} : B[k] \subseteq A[k]
    BY <1>4, <2>2, Nine
  <2>6. 3 \in 1..9 /\ 4 \in 1..9 /\ 3 < 4 /\ \A k \in 1..9 : ~(3 < k /\ k < 4)
    OBVIOUS
  <2>7. Queued(B)
    BY <1>2, <2>2, <2>4, <2>5, <2>6, Moving
  <2> QED BY <1>1, <1>3, <2>1, <2>4, <2>7 DEF Sorted
<1>13. CASE Process(c) \/ Refuse(c) \/ Fail(c)
  <2>1. cmd[c] \in Record /\ Returns(c) /\ worker[c] = "executing"
    BY <1>13 DEF Process, Refuse, Fail, PipelineInv, TableType, Busy
  <2>2. runs[CmdKey(c)] + 1 \in Nat
    BY <2>1, KeyFacts DEF CmdKey, TypeOK
  <2>3. \A n \in {0, runs[CmdKey(c)] + 1} :
            ReplyTo(cmd[c], n) \in Results /\ ReplyTo(cmd[c], n).pos = cmd[c].pos
    BY <2>1, <2>2, ResultForms
  <2> QED BY <1>12, <1>13, <2>1, <2>3, ResultForms DEF Process, Refuse, Fail
<1>14. CASE Panic(c) \/ WorkerEnd(c)
  <2>1. /\ worker'[c] # "executing" /\ UNCHANGED results
        /\ queue'[c] = <<>> \/ queue'[c] = queue[c]
    BY <1>14 DEF Panic, WorkerEnd, TypeOK
  <2>2. B[3] = A[3] /\ B[4] = {} /\ B[5] \subseteq A[5]
    BY <1>1, <2>1, EmptyChannel, ZenonT(40) DEF StageTable
  <2>3. \A k \in 1..9 : B[k] \subseteq A[k]
    BY <1>4, <2>2, Nine
  <2>4. Queued(B)
    BY <1>2, <2>3, Shrinking
  <2> QED BY <1>1, <1>3, <2>1, <2>4, EmptyChannel DEF Sorted
<1> QED BY <1>8, <1>9, <1>10, <1>11, <1>13, <1>14 DEF Worker

(* The forwarder passes replies on in their order.                         *)
LEMMA ForwarderStream ==
    ASSUME TypeOK, NEW c \in Conns, Sorted(c), Queued(Stages(c)), Forward(c)
    PROVE  Sorted(c)' /\ Queued(Stages(c))'
<1>1. PICK A, B : A = Stages(c) /\ B = Stages(c)' /\ StageTable(c, A, B)
  BY StageParts
<1>2. Queued(A) /\ Ahead(A[2], A[3])
  BY <1>1 DEF Queued
<1> DEFINE a == Head(results[c])
<1>3. /\ UNCHANGED <<out, worker, cmd, queue, pipe, writing, net, sent>>
      /\ results[c] # <<>> /\ results'[c] = Tail(results[c])
      /\ \/ replies'[c] = replies[c]
         \/ PassesOn(a) /\ replies'[c] = Append(replies[c], a)
  BY DEF Forward, socketVars, readerVars, workerVars, TypeOK
<1>4. a \in Results /\ results[c] \in Seq(Results) /\ replies[c] \in Seq(Results \ {NoReply})
  BY <1>3, ChannelType DEF TypeOK
<1> HIDE DEF a
<1>5. /\ RepliesSorted(results'[c])
      /\ Answers(results'[c]) \subseteq Answers(results[c])
      /\ a.tag = "reply" => /\ a \in Answers(results[c])
                            /\ \A q \in Positions(Answers(results'[c])) : a.pos < q
  BY <1>3, <1>4, ReadReply DEF Sorted, a
<1>6. /\ Positions(Answers(results'[c])) \subseteq Positions(Answers(results[c]))
      /\ a.tag = "reply" => a.pos \in Positions(Answers(results[c]))
  BY <1>5, PositionSets
<1>7. a.tag = "reply" => \A p \in Positions(Answers(replies[c])) : p < a.pos
  BY <1>1, <1>2, <1>6 DEF StageTable, Ahead
<1>8. /\ RepliesSorted(replies'[c])
      /\ \/ Answers(replies'[c]) = Answers(replies[c])
         \/ a.tag = "reply" /\ Answers(replies'[c]) = Answers(replies[c]) \cup {a}
  <2>1. CASE replies'[c] = replies[c]
    BY <2>1 DEF Sorted
  <2>2. CASE PassesOn(a) /\ replies'[c] = Append(replies[c], a)
    <3>1. a \in Results \ {NoReply}
      BY <1>4, <2>2 DEF PassesOn
    <3> QED BY <1>4, <1>7, <2>2, <3>1, WriteReply DEF Sorted
  <2> QED BY <1>3, <2>1, <2>2
<1>9. /\ B[1] = A[1] /\ B[4] = A[4] /\ B[5] = A[5] /\ B[6] = A[6] /\ B[7] = A[7]
      /\ B[8] = A[8] /\ B[9] = A[9] /\ B[3] \subseteq A[3]
  BY <1>1, <1>3, <1>6 DEF StageTable
<1>10. CASE Answers(replies'[c]) = Answers(replies[c])
  <2>1. B[2] = A[2]
    BY <1>1, <1>10 DEF StageTable
  <2>2. \A k \in 1..9 : B[k] \subseteq A[k]
    BY <1>9, <2>1, Nine
  <2>3. Queued(B)
    BY <1>2, <2>2, Shrinking
  <2> QED BY <1>1, <1>3, <1>5, <1>8, <2>3 DEF Sorted
<1>11. CASE a.tag = "reply" /\ Answers(replies'[c]) = Answers(replies[c]) \cup {a}
  <2>1. /\ B[2] \subseteq A[2] \cup {a.pos} /\ a.pos \in A[3] /\ \A q \in B[3] : a.pos < q
    <3>1. Positions(Answers(replies'[c])) = Positions(Answers(replies[c])) \cup {a.pos}
      BY <1>11, PositionSets
    <3> QED BY <1>1, <1>5, <1>6, <1>11, <3>1 DEF StageTable
  <2>2. \A k \in (1..9) \ {2, 3} : B[k] \subseteq A[k]
    BY <1>9, Nine
  <2>3. 2 \in 1..9 /\ 3 \in 1..9 /\ 2 < 3 /\ \A k \in 1..9 : ~(2 < k /\ k < 3)
    OBVIOUS
  <2>4. Queued(B)
    BY <1>2, <1>9, <2>1, <2>2, <2>3, Moving
  <2> QED BY <1>1, <1>3, <1>5, <1>8, <2>4 DEF Sorted
<1> QED BY <1>8, <1>10, <1>11
(* A step of one connection keeps the order of its calls, and leaves the   *)
(* channels of the others alone.                                           *)
LEMMA StreamStep == TypeOK /\ PipelineInv /\ StreamInv /\ [Next]_vars => StreamInv'
<1> SUFFICES ASSUME TypeOK, PipelineInv, StreamInv, [Next]_vars,
                    NEW d \in Conns
             PROVE  Sorted(d)' /\ Queued(Stages(d))'
  BY DEF StreamInv
<1>1. Sorted(d) /\ Queued(Stages(d))
  BY DEF StreamInv
<1>2. CASE UNCHANGED vars
  <2>1. UNCHANGED streamVars(d)
    BY <1>2 DEF vars, socketVars, readerVars, workerVars, streamVars
  <2> QED BY <1>1, <2>1, StreamFrame
<1>3. ASSUME NEW c \in Conns,
             \/ Accept(c) \/ (\E x \in Xids : Send(c, x)) \/ HangUp(c)
             \/ Socket(c) \/ Reader(c) \/ Worker(c) \/ Forwarder(c)
      PROVE  Sorted(d)' /\ Queued(Stages(d))'
  <2>1. CASE c = d /\ ((\E x \in Xids : Send(c, x)) \/ Socket(c))
    BY <1>1, <2>1, SocketStream
  <2>2. CASE c = d /\ Reader(c)
    BY <1>1, <2>2, ReaderStream
  <2>3. CASE c = d /\ Worker(c)
    BY <1>1, <2>3, WorkerStream
  <2>4. CASE c = d /\ Forward(c)
    BY <1>1, <2>4, ForwarderStream
  <2>5. CASE Accept(c) \/ HangUp(c) \/ ForwarderEnd(c)
    <3>1. UNCHANGED streamVars(d)
      BY <2>5 DEF Accept, HangUp, ForwarderEnd, socketVars, readerVars, workerVars, streamVars
    <3> QED BY <1>1, <3>1, StreamFrame
  <2>6. CASE c # d
    <3>1. /\ out'[d] = out[d] /\ replies'[d] = replies[d] /\ results'[d] = results[d]
          /\ queue'[d] = queue[d] /\ pipe'[d] = pipe[d] /\ writing'[d] = writing[d]
          /\ net'[d] = net[d] /\ sent'[d] = sent[d]
          /\ worker'[d] = worker[d] /\ cmd'[d] = cmd[d]
      <4>1. CASE Accept(c) \/ (\E x \in Xids : Send(c, x)) \/ HangUp(c)
        BY <2>6, <4>1 DEF Accept, Send, HangUp, readerVars, workerVars, TypeOK
      <4>2. CASE Socket(c)
        BY <2>6, <4>2, SMTT(20) DEF Socket, SocketRead, SocketWrite, SocketClosed, SendReply, GiveUp, Close,
                          readerVars, workerVars, TypeOK
      <4>3. CASE Reader(c)
        BY <2>6, <4>3 DEF Reader, ReaderRead, ReaderEof, ReaderEnds, socketVars, workerVars, TypeOK
      <4>4. CASE Worker(c)
        <5>1. CASE TakeGarbled(c)
          BY <2>6, <5>1 DEF TakeGarbled, Takes, SendsResult, socketVars, readerVars,
                            workerVars, TypeOK
        <5>4. CASE TakeNew(c)
          <6>1. PICK r \in Record : /\ Takes(c, r)
                                    /\ worker' = [worker EXCEPT ![c] = "executing"]
                                    /\ cmd' = [cmd EXCEPT ![c] = r]
                                    /\ UNCHANGED results
            BY <5>4 DEF TakeNew
          <6> QED BY <2>6, <6>1 DEF Takes, socketVars, readerVars, TypeOK
        <5>3. CASE TakeCompleted(c) \/ TakeInProgress(c)
          BY <2>6, <5>3, SMTT(20) DEF TakeCompleted, TakeInProgress, Takes, SendsResult, socketVars,
                            readerVars, TypeOK
        <5>2. CASE Process(c) \/ Refuse(c) \/ Fail(c) \/ Panic(c) \/ WorkerEnd(c)
          BY <2>6, <5>2, SMTT(20) DEF Process, Refuse, Fail, Returns, SendsResult, Panic, WorkerEnd,
                            socketVars, readerVars, TypeOK
        <5> QED BY <4>4, <5>1, <5>2, <5>3, <5>4 DEF Worker
      <4>5. CASE Forwarder(c)
        BY <2>6, <4>5 DEF Forwarder, Forward, ForwarderEnd, socketVars, readerVars, workerVars,
                          TypeOK
      <4> QED BY <1>3, <4>1, <4>2, <4>3, <4>4, <4>5
    <3>2. UNCHANGED streamVars(d)
      BY <3>1 DEF streamVars
    <3> QED BY <1>1, <3>2, StreamFrame
  <2> QED BY <1>3, <2>1, <2>2, <2>3, <2>4, <2>5, <2>6 DEF Forwarder
<1> QED BY <1>2, <1>3 DEF Next

(* Nothing was sent when the server starts.                                *)
LEMMA StreamInit == Init => TypeOK /\ StreamInv
<1> SUFFICES ASSUME Init PROVE TypeOK /\ StreamInv
  OBVIOUS
<1>1. TypeOK
  BY EmptySeq, TableForms, PipelineAssumption DEF Init, TypeOK
<1>2. ASSUME NEW c \in Conns PROVE Sorted(c) /\ Queued(Stages(c))
  <2>1. Sorted(c)
    BY EmptyChannel DEF Init, Sorted
  <2>2. PICK A : A = Stages(c)
    OBVIOUS
  <2>3. /\ A[1] = {} /\ A[2] = {} /\ A[3] = {} /\ A[4] = {} /\ A[5] = {} /\ A[6] = {}
        /\ A[7] = {} /\ A[8] = {}
    BY <2>2, EmptyChannel DEF Init, Stages
  <2>4. \A m \in 1..9 : m < 9 => A[m] = {}
    BY <2>3, Nine
  <2>5. Queued(A)
    BY <2>4 DEF Queued, Ahead
  <2> QED BY <2>1, <2>2, <2>5
<1> QED BY <1>1, <1>2 DEF StreamInv

------------------------------------------------------------------------------
(* Every variable has its type, for any number of connections and calls.   *)
THEOREM PipelineTypeCorrect == Spec => []TypeOK
BY StreamInit, TypeStep, PipelineInvariant, PTL DEF Spec

(* Whatever fails and whatever is retransmitted, the replies of a          *)
(* connection leave it in the order of its calls, none of them twice.      *)
THEOREM RepliesOrdered == Spec => []RepliesInOrder
<1>1. TypeOK /\ StreamInv => RepliesInOrder
  <2> SUFFICES ASSUME TypeOK, StreamInv, NEW c \in Conns,
                      NEW i \in DOMAIN out[c], NEW j \in DOMAIN out[c], i < j
               PROVE  out[c][i].pos < out[c][j].pos
    BY DEF RepliesInOrder
  <2>1. out[c] \in Seq(Results \ {NoReply, Failure}) /\ RepliesSorted(out[c])
    BY DEF TypeOK, StreamInv, Sorted
  <2>2. \A k \in DOMAIN out[c] : out[c][k] \in Results \ {NoReply, Failure}
    BY <2>1, ElementOfSeq, LenProperties
  <2>3. out[c][i].tag = "reply" /\ out[c][j].tag = "reply"
    BY <2>2, ResultForms
  <2> QED BY <2>1, <2>3 DEF RepliesSorted
<1>2. TypeOK /\ PipelineInv /\ StreamInv /\ [Next]_vars => StreamInv'
  BY StreamStep
<1> QED BY <1>1, <1>2, StreamInit, PipelineTypeCorrect, PipelineInvariant, PTL DEF Spec

------------------------------------------------------------------------------
(* A reply on its way belongs to a call of the table.                      *)
LEMMA GivenFacts ==
    ASSUME TypeOK, NEW c \in Conns, NEW a \in Given(c)
    PROVE  KeyOf(c, a) \in Keys
<1>1. /\ out[c] \in Seq(Results) /\ replies[c] \in Seq(Results) /\ results[c] \in Seq(Results)
  <2>1. \A T \in SUBSET Results : Seq(T) \subseteq Seq(Results)
    OBVIOUS
  <2> QED BY <2>1 DEF TypeOK
<1>2. ASSUME NEW s \in Seq(Results), a \in Answers(s) PROVE a \in Results /\ a.tag = "reply"
  BY <1>2, ElementOfSeq, LenProperties DEF Answers
<1>3. a \in Results /\ a.tag = "reply"
  BY <1>1, <1>2 DEF Given
<1> QED BY <1>3, ResultForms DEF KeyOf, Keys

(* Only a worker adds a reply, the one it sends; the other tasks move or   *)
(* lose replies.                                                           *)
LEMMA GivenMoves ==
    ASSUME TypeOK, NEW c \in Conns, NEW d \in Conns,
           Accept(c) \/ (\E x \in Xids : Send(c, x)) \/ HangUp(c)
           \/ Socket(c) \/ Reader(c) \/ Forwarder(c)
    PROVE  Given(d)' \subseteq Given(d)
<1>1. CASE UNCHANGED <<out, replies, results>>
  BY <1>1 DEF Given
<1>2. CASE Close(c)
  <2>1. UNCHANGED <<out, results>> /\ (replies'[d] = replies[d] \/ replies'[d] = <<>>)
    BY <1>2 DEF Close, TypeOK
  <2> QED BY <2>1, EmptyChannel DEF Given
<1>3. CASE SendReply(c)
  <2>1. CASE c = d
    <3> DEFINE a == Head(replies[c])
    <3>1. /\ replies[c] # <<>> /\ a.tag = "reply" /\ replies'[c] = Tail(replies[c])
          /\ out'[c] = out[c] \/ out'[c] = Append(out[c], a)
          /\ replies[c] \in Seq(Results \ {NoReply})
          /\ out[c] \in Seq(Results \ {NoReply, Failure})
          /\ UNCHANGED results
      BY <1>3 DEF SendReply, TypeOK
    <3>2. a \in Results \ {NoReply, Failure}
      BY <3>1, ChannelType, ResultForms
    <3>3. Answers(replies'[c]) \subseteq Answers(replies[c]) /\ a \in Answers(replies[c])
      BY <3>1, ReadReply
    <3> HIDE DEF a
    <3>4. Answers(out'[c]) = Answers(out[c]) \/ Answers(out'[c]) = Answers(out[c]) \cup {a}
      BY <3>1, <3>2, WriteReply
    <3> QED BY <2>1, <3>1, <3>3, <3>4 DEF Given
  <2>2. CASE c # d
    BY <1>3, <2>2 DEF SendReply, TypeOK, Given
  <2> QED BY <2>1, <2>2
<1>4. CASE Forward(c)
  <2>1. CASE c = d
    <3> DEFINE a == Head(results[c])
    <3>1. /\ results[c] # <<>> /\ results'[c] = Tail(results[c])
          /\ \/ replies'[c] = replies[c]
             \/ PassesOn(a) /\ replies'[c] = Append(replies[c], a)
          /\ results[c] \in Seq(Results) /\ replies[c] \in Seq(Results \ {NoReply})
          /\ UNCHANGED out
      BY <1>4 DEF Forward, socketVars, TypeOK
    <3>2. a \in Results
      BY <3>1, ChannelType
    <3>3. /\ Answers(results'[c]) \subseteq Answers(results[c])
          /\ a.tag = "reply" => a \in Answers(results[c])
      BY <3>1, ReadReply
    <3> HIDE DEF a
    <3>4. \/ Answers(replies'[c]) = Answers(replies[c])
          \/ a.tag = "reply" /\ Answers(replies'[c]) = Answers(replies[c]) \cup {a}
      <4>1. CASE replies'[c] = replies[c]
        BY <4>1
      <4>2. CASE PassesOn(a) /\ replies'[c] = Append(replies[c], a)
        <5>1. a \in Results \ {NoReply}
          BY <3>2, <4>2 DEF PassesOn
        <5> QED BY <3>1, <4>2, <5>1, WriteReply
      <4> QED BY <3>1, <4>1, <4>2
    <3> QED BY <2>1, <3>1, <3>3, <3>4 DEF Given
  <2>2. CASE c # d
    BY <1>4, <2>2 DEF Forward, socketVars, TypeOK, Given
  <2> QED BY <2>1, <2>2
<1> QED BY <1>1, <1>2, <1>3, <1>4 DEF Accept, Send, HangUp, Socket, SocketRead, SocketWrite,
           SocketClosed, GiveUp, Reader, ReaderRead, ReaderEof, Forwarder, ForwarderEnd,
           socketVars, readerVars, workerVars

\* Sending a result gives this connection its reply, and no other anything.
LEMMA GivenSent ==
    ASSUME TypeOK, NEW c \in Conns, NEW e \in Results, SendsResult(c, e), UNCHANGED <<out, replies>>
    PROVE  \A d \in Conns : \A a \in Given(d)' :
               a \in Given(d) \/ (d = c /\ a = e /\ e.tag = "reply")
<1> SUFFICES ASSUME NEW d \in Conns, NEW a, a \in Given(d)'
             PROVE  a \in Given(d) \/ (d = c /\ a = e /\ e.tag = "reply")
  OBVIOUS
<1>1. CASE c = d
  <2>1. results'[c] = Append(results[c], e) /\ results[c] \in Seq(Results)
    BY DEF SendsResult, TypeOK
  <2>2. /\ e.tag = "reply" => Answers(results'[c]) = Answers(results[c]) \cup {e}
        /\ e.tag # "reply" => Answers(results'[c]) = Answers(results[c])
    BY <2>1, WriteReply
  <2>3. Answers(out'[c]) = Answers(out[c]) /\ Answers(replies'[c]) = Answers(replies[c])
    OBVIOUS
  <2> QED BY <1>1, <2>2, <2>3 DEF Given
<1>2. CASE c # d
  <2>1. results'[d] = results[d]
    BY <1>2 DEF SendsResult, TypeOK
  <2>2. Given(d)' = Given(d)
    BY <2>1 DEF Given
  <2> QED BY <2>2
<1> QED BY <1>1, <1>2

(* Consulting the table: an entry that is not forgotten stays as it is.    *)
LEMMA NeverForgotten ==
    ASSUME TypeOK, NEW S, Consults(S), NEW k \in Keys, forgotten'[k] = 0
    PROVE  /\ forgotten[k] = 0
           /\ k \notin S
           /\ Drc!Forget(cache, S)[k] = cache[k]
<1>1. forgotten'[k] = IF k \in S THEN forgotten[k] + 1 ELSE forgotten[k]
  BY DEF Consults
<1>2. forgotten[k] \in Nat
  BY PipelineAssumption DEF TypeOK
<1>3. k \notin S /\ forgotten[k] = 0
  BY <1>1, <1>2
<1> QED BY <1>3 DEF Drc!Forget, TypeOK

(* The worker sends the reply that the table has, or records the reply it  *)
(* sends for a call that, never forgotten, was not replied to before.      *)
LEMMA ReplyStep == TypeOK /\ PipelineInv /\ ReplyInv /\ [Next]_vars => ReplyInv'
<1> SUFFICES ASSUME TypeOK, PipelineInv, ReplyInv, [Next]_vars,
                    NEW d \in Conns, NEW a \in Given(d)', forgotten'[KeyOf(d, a)] = 0
             PROVE  cache'[KeyOf(d, a)] = Drc!Completed(a.run)
  BY DEF ReplyInv, KeyOf
<1> DEFINE k == KeyOf(d, a)
<1>1. ASSUME a \in Given(d)
      PROVE  k \in Keys /\ (forgotten[k] = 0 => cache[k] = Drc!Completed(a.run))
  BY <1>1, GivenFacts DEF ReplyInv
<1> HIDE DEF k
<1>2. forgotten'[k] = 0
  BY DEF k
<1>3. CASE UNCHANGED vars
  <2>1. a \in Given(d) /\ UNCHANGED <<cache, forgotten>>
    BY <1>3 DEF vars, socketVars, workerVars, Given
  <2> QED BY <1>1, <1>2, <2>1 DEF k
<1>4. ASSUME NEW c \in Conns,
             Accept(c) \/ (\E x \in Xids : Send(c, x)) \/ HangUp(c)
             \/ Socket(c) \/ Reader(c) \/ Forwarder(c)
      PROVE  cache'[k] = Drc!Completed(a.run)
  <2>1. UNCHANGED <<cache, forgotten>>
    BY <1>4 DEF Accept, Send, HangUp, Socket, SocketRead, SocketWrite, SocketClosed, SendReply,
                GiveUp, Close, Reader, ReaderRead, ReaderEof, Forwarder, Forward, ForwarderEnd,
                workerVars
  <2>2. a \in Given(d)
    BY <1>4, GivenMoves
  <2> QED BY <1>1, <1>2, <2>1, <2>2
<1>5. ASSUME NEW c \in Conns, Worker(c) PROVE cache'[k] = Drc!Completed(a.run)
  <2>0. UNCHANGED <<out, replies>>
    BY <1>5 DEF Worker, TakeGarbled, TakeCompleted, TakeInProgress, TakeNew, Takes, Process,
                Refuse, Fail, Returns, Panic, WorkerEnd, socketVars
  <2>1. CASE TakeGarbled(c)
    <3>1. SendsResult(c, Failure) /\ UNCHANGED <<cache, forgotten>>
      BY <2>1 DEF TakeGarbled, workerVars
    <3>2. a \in Given(d)
      BY <2>0, <3>1, GivenSent, ResultForms
    <3> QED BY <1>1, <1>2, <3>1, <3>2
  <2>2. CASE TakeCompleted(c)
    <3>1. PICK r \in Record, S \in SUBSET Keys :
              /\ Consults(S)
              /\ cache[KeyOf(c, r)].tag = "Completed"
              /\ cache' = Drc!Forget(cache, S)
              /\ SendsResult(c, ReplyTo(r, cache[KeyOf(c, r)].response))
      BY <2>2 DEF TakeCompleted
    <3> DEFINE run == cache[KeyOf(c, r)].response
    <3>2. KeyOf(c, r) \in Keys /\ run \in Nat /\ cache[KeyOf(c, r)] = Drc!Completed(run)
      BY <3>1, KeyFacts, TableCases, TableForms DEF TypeOK
    <3> HIDE DEF run
    <3>3. /\ ReplyTo(r, run) \in Results
          /\ ReplyTo(r, run).run = run /\ ReplyTo(r, run).xid = r.xid
      BY <3>2, ResultForms
    <3>4. a \in Given(d) \/ (d = c /\ a = ReplyTo(r, run))
      BY <2>0, <3>1, <3>3, GivenSent DEF run
    <3>5. CASE a \in Given(d)
      BY <1>1, <1>2, <3>1, <3>5, NeverForgotten
    <3>6. CASE d = c /\ a = ReplyTo(r, run)
      <4>1. k = KeyOf(c, r) /\ a.run = run
        BY <3>3, <3>6 DEF k, KeyOf
      <4> QED BY <1>2, <3>1, <3>2, <4>1, NeverForgotten
    <3> QED BY <3>4, <3>5, <3>6
  <2>3. CASE TakeInProgress(c)
    <3>1. PICK S : /\ Consults(S)
                   /\ cache' = Drc!Forget(cache, S)
                   /\ SendsResult(c, NoReply)
      BY <2>3 DEF TakeInProgress
    <3>2. a \in Given(d)
      BY <2>0, <3>1, GivenSent, ResultForms
    <3> QED BY <1>1, <1>2, <3>1, <3>2, NeverForgotten
  <2>4. CASE TakeNew(c)
    <3>1. PICK r \in Record, S \in SUBSET Keys :
              /\ Consults(S)
              /\ Drc!Forget(cache, S)[KeyOf(c, r)] = Drc!Vacant
              /\ cache' = [Drc!Forget(cache, S) EXCEPT ![KeyOf(c, r)] = Drc!InProgress]
              /\ UNCHANGED results
      BY <2>4 DEF TakeNew
    <3>2. a \in Given(d)
      BY <2>0, <3>1 DEF Given
    <3>3. k \in Keys /\ Drc!Forget(cache, S)[k] = cache[k] /\ cache[k] = Drc!Completed(a.run)
      BY <1>1, <1>2, <3>1, <3>2, NeverForgotten
    <3>4. k # KeyOf(c, r)
      <4>1. Drc!Completed(a.run) # Drc!Vacant
        BY DEF Drc!Completed, Drc!Vacant
      <4> QED BY <3>1, <3>3, <4>1
    <3>5. cache'[k] = Drc!Forget(cache, S)[k]
      BY <3>1, <3>3, <3>4 DEF Drc!Forget, TypeOK
    <3> QED BY <3>3, <3>5
  <2>5. CASE Process(c) \/ Refuse(c) \/ Fail(c)
    <3>1. /\ cmd[c] \in Record /\ Busy(c) /\ UNCHANGED forgotten
          /\ cache[CmdKey(c)] = Drc!InProgress
      BY <2>5 DEF Process, Refuse, Fail, Returns, PipelineInv, TableType, Claims, Busy
    <3>2. CmdKey(c) \in Keys /\ runs[CmdKey(c)] \in Nat
      BY <3>1, KeyFacts DEF CmdKey, TypeOK
    <3>3. PICK e \in Results :
              /\ SendsResult(c, e)
              /\ \A j \in Keys \ {CmdKey(c)} : cache'[j] = cache[j]
              /\ e.tag = "reply" =>
                     cache'[CmdKey(c)] = Drc!Completed(e.run) /\ KeyOf(c, e) = CmdKey(c)
      <4>1. \A n \in Nat : /\ ReplyTo(cmd[c], n) \in Results /\ ReplyTo(cmd[c], n).run = n
                           /\ KeyOf(c, ReplyTo(cmd[c], n)) = CmdKey(c)
        BY <3>1, ResultForms DEF KeyOf, CmdKey
      <4>2. CASE Process(c)
        <5> DEFINE n == runs[CmdKey(c)] + 1
        <5>1. n \in Nat
          BY <3>2
        <5>2. SendsResult(c, ReplyTo(cmd[c], n)) /\ cache' = Recorded(CmdKey(c), n)
          BY <4>2 DEF Process
        <5> HIDE DEF n
        <5>3. /\ cache'[CmdKey(c)] = Drc!Completed(n)
              /\ \A j \in Keys \ {CmdKey(c)} : cache'[j] = cache[j]
          BY <3>2, <5>2 DEF Recorded, TypeOK
        <5> QED BY <4>1, <5>1, <5>2, <5>3
      <4>3. CASE Refuse(c)
        <5>1. SendsResult(c, ReplyTo(cmd[c], 0)) /\ cache' = Recorded(CmdKey(c), 0)
          BY <4>3 DEF Refuse
        <5>2. /\ cache'[CmdKey(c)] = Drc!Completed(0)
              /\ \A j \in Keys \ {CmdKey(c)} : cache'[j] = cache[j]
          BY <3>2, <5>1 DEF Recorded, TypeOK
        <5> QED BY <4>1, <5>1, <5>2
      <4>4. CASE Fail(c)
        <5>1. SendsResult(c, Failure) /\ cache' = Cleared(CmdKey(c))
          BY <4>4 DEF Fail
        <5>2. \A j \in Keys \ {CmdKey(c)} : cache'[j] = cache[j]
          BY <3>2, <5>1 DEF Cleared, TypeOK
        <5> QED BY <5>1, <5>2, ResultForms
      <4> QED BY <2>5, <4>2, <4>3, <4>4
    <3>4. CASE a \in Given(d)
      <4>1. k \in Keys /\ cache[k] = Drc!Completed(a.run)
        BY <1>1, <1>2, <3>1, <3>4
      <4>2. Drc!Completed(a.run) # Drc!InProgress
        BY DEF Drc!Completed, Drc!InProgress
      <4> QED BY <3>1, <3>3, <4>1, <4>2
    <3>5. CASE a \notin Given(d)
      <4>1. d = c /\ a = e /\ e.tag = "reply"
        BY <2>0, <3>3, <3>5, GivenSent
      <4> QED BY <3>3, <4>1 DEF k
    <3> QED BY <3>4, <3>5
  <2>6. CASE Panic(c) \/ WorkerEnd(c)
    <3>1. UNCHANGED <<cache, forgotten, results>>
      BY <2>6 DEF Panic, WorkerEnd
    <3>2. a \in Given(d)
      BY <2>0, <3>1 DEF Given
    <3> QED BY <1>1, <1>2, <3>1, <3>2
  <2> QED BY <1>5, <2>1, <2>2, <2>3, <2>4, <2>5, <2>6 DEF Worker
<1> QED BY <1>3, <1>4, <1>5 DEF Next, k

(* However often and wherever a call is sent, its replies agree, unless    *)
(* the table has forgotten it.                                             *)
THEOREM RepliesAgree == Spec => []SameReply
<1>1. Init => ReplyInv
  BY EmptyChannel DEF Init, ReplyInv, Given
<1>2. TypeOK /\ ReplyInv => SameReply
  <2> SUFFICES ASSUME TypeOK, ReplyInv, NEW c \in Conns, NEW d \in Conns,
                      NEW i \in DOMAIN out[c], NEW j \in DOMAIN out[d],
                      KeyOf(c, out[c][i]) = KeyOf(d, out[d][j]),
                      forgotten[KeyOf(c, out[c][i])] = 0
               PROVE  out[c][i].run = out[d][j].run
    BY ZenonT(30) DEF SameReply
  <2>1. \A e \in Conns : \A n \in DOMAIN out[e] :
            out[e][n] \in Results \ {NoReply, Failure} /\ out[e][n].tag = "reply"
    <3> SUFFICES ASSUME NEW e \in Conns, NEW n \in DOMAIN out[e]
                 PROVE  out[e][n] \in Results \ {NoReply, Failure} /\ out[e][n].tag = "reply"
      OBVIOUS
    <3>1. out[e] \in Seq(Results \ {NoReply, Failure})
      BY DEF TypeOK
    <3>2. out[e][n] \in Results \ {NoReply, Failure}
      BY <3>1, ElementOfSeq, LenProperties
    <3> QED BY <3>2, ResultForms
  <2>2. out[c][i] \in Given(c) /\ out[d][j] \in Given(d)
    BY <2>1 DEF Given, Answers
  <2>3. /\ cache[KeyOf(c, out[c][i])] = Drc!Completed(out[c][i].run)
        /\ cache[KeyOf(c, out[c][i])] = Drc!Completed(out[d][j].run)
    BY <2>2 DEF ReplyInv
  <2>4. Drc!Completed(out[c][i].run) = Drc!Completed(out[d][j].run)
    BY <2>3
  <2> QED BY <2>4 DEF Drc!Completed
<1>3. TypeOK /\ PipelineInv /\ ReplyInv /\ [Next]_vars => ReplyInv'
  BY ReplyStep
<1> QED BY <1>1, <1>2, <1>3, PipelineTypeCorrect, PipelineInvariant, PTL DEF Spec

(* Nothing but a worker that finds its call in progress drops a record,    *)
(* and the call is in progress on another connection: its own worker is    *)
(* not executing anything.                                                 *)
THEOREM DropsExplained == Spec => DroppedOnlyElsewhere
<1>1. ASSUME TypeOK, PipelineInv, [Next]_vars PROVE [DropExplained]_vars
  <2> SUFFICES ASSUME NEW c \in Conns, dropped'[c] # dropped[c]
               PROVE  \E d \in Conns \ {c} :
                          /\ worker[d] \in {"executing", "dead"}
                          /\ CmdKey(d) = KeyOf(c, Head(queue[c]))
    BY DEF DropExplained
  <2>1. PICK b \in Conns : TakeInProgress(b)
    <3>1. CASE UNCHANGED vars
      BY <3>1 DEF vars, workerVars
    <3>2. ASSUME NEW b \in Conns, ~TakeInProgress(b),
                 \/ Accept(b) \/ (\E x \in Xids : Send(b, x)) \/ HangUp(b)
                 \/ Socket(b) \/ Reader(b) \/ Worker(b) \/ Forwarder(b)
          PROVE  UNCHANGED dropped
      BY <3>2 DEF Accept, Send, HangUp, Socket, SocketRead, SocketWrite, SocketClosed, SendReply,
                  GiveUp, Close, Reader, ReaderRead, ReaderEof, Forwarder, Forward, ForwarderEnd,
                  Worker, TakeGarbled, TakeCompleted, TakeNew, Process, Refuse, Fail, Returns,
                  Panic, WorkerEnd, workerVars
    <3> QED BY <1>1, <3>1, <3>2 DEF Next
  <2>2. PICK r \in Record :
            /\ worker[b] = "idle" /\ r = Head(queue[b])
            /\ cache[KeyOf(b, r)] = Drc!InProgress
            /\ dropped' = [dropped EXCEPT ![b] = @ \cup {r.pos}]
    BY <2>1 DEF TakeInProgress, Takes
  <2>3. b = c
    BY <1>1, <2>2 DEF TypeOK
  <2>4. PICK d \in Conns : Busy(d) /\ CmdKey(d) = KeyOf(b, r)
    BY <1>1, <2>2, KeyFacts DEF PipelineInv, Claims
  <2> QED BY <2>2, <2>3, <2>4 DEF Busy
<1> QED BY <1>1, PipelineTypeCorrect, PipelineInvariant, PTL DEF Spec, DroppedOnlyElsewhere

------------------------------------------------------------------------------
(* The connections use the transaction table as it is meant to be used:    *)
(* together they implement the DuplicateRequestCache that the tracker is   *)
(* shown to be.  A response is recorded, and a call is released, only      *)
(* while the call is claimed, and a claim is made only on a vacant key.    *)
THEOREM TableUsedAsPromised == Spec => Drc!Spec
<1>1. Init => Drc!Init
  BY DEF Init, Drc!Init
<1>2. ASSUME TypeOK, PipelineInv, [Next]_vars PROVE [Drc!Next]_cache
  <2>1. CASE UNCHANGED cache
    BY <2>1
  <2>2. ASSUME NEW c \in Conns, NEW r \in Record, NEW S, Consults(S),
               \/ /\ Drc!Forget(cache, S)[KeyOf(c, r)] = Drc!Vacant
                  /\ cache' = [Drc!Forget(cache, S) EXCEPT ![KeyOf(c, r)] = Drc!InProgress]
               \/ /\ Drc!Forget(cache, S)[KeyOf(c, r)] # Drc!Vacant
                  /\ cache' = Drc!Forget(cache, S)
        PROVE  Drc!Next
    <3>1. KeyOf(c, r) \in Keys /\ S \in SUBSET Drc!Forgettable(cache)
      BY <2>2, KeyFacts DEF Consults
    <3>2. Drc!Claim(KeyOf(c, r), S) \/ Drc!Repeat(KeyOf(c, r), S)
      BY <2>2 DEF Drc!Claim, Drc!Repeat
    <3> QED BY <3>1, <3>2 DEF Drc!Next
  <2>3. ASSUME NEW c \in Conns, TakeCompleted(c) \/ TakeInProgress(c) PROVE Drc!Next
    <3>1. PICK r \in Record, S \in SUBSET Keys :
              /\ Consults(S)
              /\ cache' = Drc!Forget(cache, S)
              /\ \/ KeyOf(c, r) \notin S /\ cache[KeyOf(c, r)].tag = "Completed"
                 \/ cache[KeyOf(c, r)] = Drc!InProgress
      BY <2>3 DEF TakeCompleted, TakeInProgress
    <3>2. KeyOf(c, r) \in Keys
      BY KeyFacts
    <3>3. Drc!Forget(cache, S)[KeyOf(c, r)] # Drc!Vacant
      BY <1>2, <3>1, <3>2, ForgetFacts, TableForms DEF PipelineInv
    <3> QED BY <2>2, <3>1, <3>3
  <2>4. ASSUME NEW c \in Conns, TakeNew(c) PROVE Drc!Next
    BY <2>2, <2>4 DEF TakeNew
  <2>5. ASSUME NEW c \in Conns, Process(c) \/ Refuse(c) \/ Fail(c) PROVE Drc!Next
    <3>1. cmd[c] \in Record /\ cache[CmdKey(c)] = Drc!InProgress
      BY <1>2, <2>5 DEF Process, Refuse, Fail, PipelineInv, TableType, Claims, Busy
    <3>2. CmdKey(c) \in Keys /\ runs[CmdKey(c)] + 1 \in Nat
      BY <1>2, <3>1, KeyFacts DEF CmdKey, TypeOK
    <3>3. Drc!Complete(CmdKey(c)) \/ Drc!Release(CmdKey(c))
      BY <2>5, <3>1, <3>2 DEF Process, Refuse, Fail, Recorded, Cleared, Drc!Complete, Drc!Release
    <3> QED BY <3>2, <3>3 DEF Drc!Next
  <2>6. ASSUME NEW c \in Conns,
               \/ Accept(c) \/ (\E x \in Xids : Send(c, x)) \/ HangUp(c)
               \/ Socket(c) \/ Reader(c) \/ Forwarder(c)
               \/ TakeGarbled(c) \/ Panic(c) \/ WorkerEnd(c)
        PROVE  UNCHANGED cache
    BY <2>6 DEF Accept, Send, HangUp, Socket, SocketRead, SocketWrite, SocketClosed, SendReply,
                GiveUp, Close, Reader, ReaderRead, ReaderEof, Forwarder, Forward, ForwarderEnd,
                TakeGarbled, Panic, WorkerEnd, workerVars
  <2>7. CASE UNCHANGED vars
    BY <2>7 DEF vars, workerVars
  <2> QED BY <1>2, <2>3, <2>4, <2>5, <2>6, <2>7 DEF Next, Worker
<1> QED BY <1>1, <1>2, PipelineTypeCorrect, PipelineInvariant, PTL DEF Spec, Drc!Spec
==============================================================================

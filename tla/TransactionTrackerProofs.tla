---------------------- MODULE TransactionTrackerProofs ----------------------
(***************************************************************************)
(* Proofs about TransactionTracker: the exclusion of concurrent execution, *)
(* the retention of answers, and the refinement of the abstract cache, for *)
(* any number of workers and transactions.                                 *)
(***************************************************************************)
EXTENDS TransactionTracker, TLAPS

(* The entries of the table are told apart by their tags.                  *)
LEMMA EntryForms ==
    /\ Vacant \in TransactionState /\ Vacant.tag = "Vacant"
    /\ InProgress \in TransactionState /\ InProgress.tag = "InProgress"
    /\ \A n \in 0 .. MaxTime, r \in 0 .. MaxRuns :
           /\ Completed(n, r) \in TransactionState
           /\ Completed(n, r).tag = "Completed"
           /\ Completed(n, r).completion_time = n
           /\ Completed(n, r).response = r
BY DEF TransactionState, Vacant, InProgress, Completed

(* An entry is vacant, in progress, or completed at a time with a          *)
(* response.                                                               *)
LEMMA EntryCases ==
    ASSUME NEW e \in TransactionState
    PROVE  \/ e = Vacant
           \/ e = InProgress
           \/ /\ e.tag = "Completed" /\ e # Vacant /\ e # InProgress
              /\ e.completion_time \in 0 .. MaxTime
              /\ e.response \in 0 .. MaxRuns
BY DEF TransactionState, Vacant, InProgress

(* The interval between two sweeps is a number of clock units.             *)
LEMMA IntervalType == HousekeepingInterval \in Nat
<1>1. Retention \in Nat /\ Second \in Nat
  BY TrackerAssumption
<1>2. Retention \div 4 \in Nat
  BY <1>1, SMT
<1> QED BY <1>1, <1>2 DEF HousekeepingInterval

(* A sweep drops completed entries past their retention and touches        *)
(* nothing else.                                                           *)
LEMMA SweepKeeps ==
    ASSUME TypeOK, NEW now \in 0 .. MaxTime
    PROVE  /\ Swept(now) \in [Keys -> TransactionState]
           /\ SweepTime(now) \in 0 .. MaxTime
           /\ \A k \in Keys :
                  /\ Swept(now)[k] = InProgress <=> transactions[k] = InProgress
                  /\ Swept(now)[k] # Vacant => Swept(now)[k] = transactions[k]
                  /\ Swept(now)[k] # transactions[k] =>
                         /\ Swept(now)[k] = Vacant
                         /\ transactions[k].tag = "Completed"
                         /\ transactions[k].completion_time < now - Retention
<1>1. transactions \in [Keys -> TransactionState] /\ last_housekeeping \in 0 .. MaxTime
  BY DEF TypeOK
<1> DEFINE H == housekeeping(transactions, now)
<1>2. H = [k \in Keys |->
              IF /\ transactions[k].tag = "Completed"
                 /\ transactions[k].completion_time < now - Retention
              THEN Vacant ELSE transactions[k]]
  BY DEF housekeeping
<1>3. H \in [Keys -> TransactionState]
  BY <1>1, <1>2, EntryForms
<1>4. Swept(now) = H \/ Swept(now) = transactions
  BY DEF Swept
<1> HIDE DEF H
<1>5. ASSUME NEW k \in Keys
      PROVE  /\ H[k] = InProgress <=> transactions[k] = InProgress
             /\ H[k] # Vacant => H[k] = transactions[k]
             /\ H[k] # transactions[k] =>
                    /\ H[k] = Vacant
                    /\ transactions[k].tag = "Completed"
                    /\ transactions[k].completion_time < now - Retention
  BY <1>2, <1>5, EntryForms
<1>6. SweepTime(now) \in 0 .. MaxTime
  BY <1>1 DEF SweepTime
<1> QED BY <1>1, <1>3, <1>4, <1>5, <1>6

------------------------------------------------------------------------------
(* The types hold at the start and every step keeps them.                  *)
LEMMA TypeInit == Init => TypeOK
<1> SUFFICES ASSUME Init PROVE TypeOK
  OBVIOUS
<1>1. 0 \in 0 .. MaxTime /\ 0 \in 0 .. MaxRuns
  BY TrackerAssumption
<1> QED BY <1>1, EntryForms DEF Init, TypeOK

\* Every step keeps the types.
LEMMA TypeStep == TypeOK /\ [Next]_vars => TypeOK'
<1> SUFFICES ASSUME TypeOK, [Next]_vars PROVE TypeOK'
  OBVIOUS
<1>0. 0 \in 0 .. MaxTime /\ 0 \in 0 .. MaxRuns
  BY TrackerAssumption
<1>1. CASE UNCHANGED vars
  BY <1>1 DEF TypeOK, vars
<1>2. ASSUME NEW t \in Callers, NEW k \in Keys, CheckStart(t, k) PROVE TypeOK'
  BY <1>2 DEF TypeOK, CheckStart
<1>3. ASSUME NEW t \in Callers, CheckNew(t) PROVE TypeOK'
  <2>1. stamp[t] \in 0 .. MaxTime /\ key[t] \in Keys
    BY DEF TypeOK
  <2>2. transactions' \in [Keys -> TransactionState] /\ last_housekeeping' \in 0 .. MaxTime
    BY <1>3, <2>1, SweepKeeps, EntryForms DEF CheckNew, Claimed
  <2> QED BY <1>3, <2>2 DEF TypeOK, CheckNew
<1>4. ASSUME NEW t \in Callers, CheckInProgress(t) PROVE TypeOK'
  <2>1. stamp[t] \in 0 .. MaxTime
    BY DEF TypeOK
  <2>2. transactions' \in [Keys -> TransactionState] /\ last_housekeeping' \in 0 .. MaxTime
    BY <1>4, <2>1, SweepKeeps DEF CheckInProgress
  <2> QED BY <1>0, <1>4, <2>2 DEF TypeOK, CheckInProgress, Return
<1>5. ASSUME NEW t \in Callers, CheckCompleted(t) PROVE TypeOK'
  <2>1. stamp[t] \in 0 .. MaxTime /\ key[t] \in Keys
    BY DEF TypeOK
  <2> DEFINE S == Swept(stamp[t])
  <2>2. S \in [Keys -> TransactionState] /\ SweepTime(stamp[t]) \in 0 .. MaxTime
    BY <2>1, SweepKeeps
  <2>3. S[key[t]].tag = "Completed" /\ transactions' = Refreshed(S, key[t], stamp[t])
    BY <1>5 DEF CheckCompleted
  <2> HIDE DEF S
  <2>4. S[key[t]].response \in 0 .. MaxRuns
    BY <2>1, <2>2, <2>3, EntryCases, EntryForms
  <2>5. Completed(stamp[t], S[key[t]].response) \in TransactionState
    BY <2>1, <2>4, EntryForms
  <2>6. transactions' \in [Keys -> TransactionState]
    BY <2>1, <2>2, <2>3, <2>5 DEF Refreshed
  <2> QED BY <1>0, <1>5, <2>2, <2>6 DEF TypeOK, CheckCompleted, Return
<1>6. ASSUME NEW t \in Callers, Execute(t) PROVE TypeOK'
  <2>1. key[t] \in Keys /\ runs[key[t]] \in 0 .. MaxRuns /\ runs[key[t]] < MaxRuns
    BY <1>6 DEF TypeOK, Execute
  <2>2. runs[key[t]] + 1 \in 0 .. MaxRuns
    BY <2>1, TrackerAssumption
  <2> QED BY <1>6, <2>1, <2>2 DEF TypeOK, Execute
<1>7. ASSUME NEW t \in Callers, record_response(t) PROVE TypeOK'
  <2>1. key[t] \in Keys /\ stamp[t] \in 0 .. MaxTime /\ response[t] \in 0 .. MaxRuns
    BY DEF TypeOK
  <2>2. transactions' \in [Keys -> TransactionState]
    BY <1>7, <2>1, EntryForms DEF TypeOK, record_response, Recorded
  <2> QED BY <1>0, <1>7, <2>2 DEF TypeOK, record_response, Return
<1>8. ASSUME NEW t \in Callers, clear(t) PROVE TypeOK'
  <2>1. transactions' \in [Keys -> TransactionState]
    BY <1>8, EntryForms DEF TypeOK, clear, Cleared
  <2> QED BY <1>0, <1>8, <2>1 DEF TypeOK, clear, Return
<1>9. ASSUME NEW t \in Callers, Panic(t) PROVE TypeOK'
  BY <1>9 DEF TypeOK, Panic
<1>10. CASE Tick
  BY <1>10, TrackerAssumption DEF TypeOK, Tick
<1>11. CASE SlipBack
  BY <1>11, TrackerAssumption DEF TypeOK, SlipBack
<1> QED BY <1>1, <1>2, <1>3, <1>4, <1>5, <1>6, <1>7, <1>8, <1>9, <1>10, <1>11 DEF Next

(* The table, the clock readings and the workers' locals have their types  *)
(* whatever the workers do.                                                *)
THEOREM TypeCorrect == Spec => []TypeOK
BY TypeInit, TypeStep, PTL DEF Spec

------------------------------------------------------------------------------
(* A worker about to record holds the response of the last execution.      *)
RecordsLatest ==
    \A t \in Callers : pc[t] = "recording" => response[t] = runs[key[t]]

(* The inductive invariant behind Exclusion, TableExact and ReplayIsLatest.*)
OwnershipInv ==
    TypeOK /\ InProgressIsOwned /\ NoConcurrentExecution /\ CachedIsLatest /\ RecordsLatest

(* Nobody owns anything at the start, and the table is empty.              *)
LEMMA OwnershipInit == Init => OwnershipInv
<1> SUFFICES ASSUME Init PROVE OwnershipInv
  OBVIOUS
<1>1. TypeOK
  BY TypeInit
<1>2. \A k \in Keys : transactions[k] = Vacant
  BY DEF Init
<1>3. \A t \in Callers : pc[t] = "idle"
  BY DEF Init
<1>4. InProgressIsOwned /\ NoConcurrentExecution
  BY <1>2, <1>3, EntryForms DEF InProgressIsOwned, NoConcurrentExecution, Owns
<1>5. CachedIsLatest /\ RecordsLatest
  BY <1>2, <1>3, EntryForms DEF CachedIsLatest, RecordsLatest
<1> QED BY <1>1, <1>4, <1>5 DEF OwnershipInv

(* A retransmission, dropped or replayed: the caller leaves, nobody else's *)
(* claim changes, and the table keeps the responses it does not forget.    *)
LEMMA RepeatKeeps ==
    ASSUME OwnershipInv, TypeOK', NEW t \in Callers, CheckInProgress(t) \/ CheckCompleted(t)
    PROVE  OwnershipInv'
<1> USE DEF OwnershipInv
<1> DEFINE S == Swept(stamp[t])
<1>1. stamp[t] \in 0 .. MaxTime /\ key[t] \in Keys /\ pc[t] = "checking"
  BY DEF TypeOK, CheckInProgress, CheckCompleted
<1>2. /\ S \in [Keys -> TransactionState]
      /\ \A k \in Keys : /\ S[k] = InProgress <=> transactions[k] = InProgress
                         /\ S[k] # Vacant => S[k] = transactions[k]
  BY <1>1, SweepKeeps
<1>3. /\ pc' = [pc EXCEPT ![t] = "idle"]
      /\ response' = [response EXCEPT ![t] = 0]
      /\ UNCHANGED <<key, runs>>
  BY DEF CheckInProgress, CheckCompleted, Return
<1>4. \A u \in Callers, k \in Keys : Owns(u, k)' <=> Owns(u, k)
  BY <1>1, <1>3 DEF Owns, TypeOK
<1>5. ASSUME NEW k \in Keys
      PROVE  /\ transactions'[k] = InProgress <=> transactions[k] = InProgress
             /\ transactions'[k].tag = "Completed" =>
                    transactions[k].tag = "Completed" /\ transactions'[k].response = transactions[k].response
  <2>1. CASE CheckInProgress(t)
    <3>1. transactions' = S
      BY <2>1 DEF CheckInProgress
    <3> HIDE DEF S
    <3> QED BY <1>2, <3>1, EntryForms
  <2>2. CASE CheckCompleted(t)
    <3>1. S[key[t]].tag = "Completed" /\ transactions' = Refreshed(S, key[t], stamp[t])
      BY <2>2 DEF CheckCompleted
    <3> HIDE DEF S
    <3>2. S[key[t]] = transactions[key[t]] /\ S[key[t]].response \in 0 .. MaxRuns
      BY <1>1, <1>2, <3>1, EntryForms, EntryCases
    <3>3. transactions'[k] = IF k = key[t] THEN Completed(stamp[t], S[k].response) ELSE S[k]
      BY <1>2, <3>1 DEF Refreshed
    <3>4. CASE k = key[t]
      <4>1. transactions'[k].tag = "Completed" /\ transactions'[k].response = S[k].response
        BY <1>1, <3>2, <3>3, <3>4, EntryForms
      <4> QED BY <1>1, <3>1, <3>2, <3>4, <4>1, EntryForms
    <3>5. CASE k # key[t]
      BY <1>2, <3>3, <3>5, EntryForms
    <3> QED BY <3>4, <3>5
  <2> QED BY <2>1, <2>2
<1>6. InProgressIsOwned' /\ NoConcurrentExecution'
  BY <1>4, <1>5 DEF InProgressIsOwned, NoConcurrentExecution
<1>7. CachedIsLatest'
  BY <1>3, <1>5 DEF CachedIsLatest
<1>8. RecordsLatest'
  BY <1>1, <1>3 DEF RecordsLatest, TypeOK
<1> QED BY <1>6, <1>7, <1>8

(* A new call is claimed: the key was vacant, so nobody owned it.          *)
LEMMA ClaimKeeps ==
    ASSUME OwnershipInv, TypeOK', NEW t \in Callers, CheckNew(t)
    PROVE  OwnershipInv'
<1> USE DEF OwnershipInv
<1> DEFINE S == Swept(stamp[t])
<1>1. stamp[t] \in 0 .. MaxTime /\ key[t] \in Keys /\ pc[t] = "checking"
  BY DEF TypeOK, CheckNew
<1>2. /\ S \in [Keys -> TransactionState]
      /\ \A k \in Keys : /\ S[k] = InProgress <=> transactions[k] = InProgress
                         /\ S[k] # Vacant => S[k] = transactions[k]
  BY <1>1, SweepKeeps
<1>3. /\ S[key[t]] = Vacant
      /\ transactions' = [S EXCEPT ![key[t]] = InProgress]
      /\ pc' = [pc EXCEPT ![t] = "executing"]
      /\ UNCHANGED <<key, response, runs>>
  BY DEF CheckNew, Claimed
<1> HIDE DEF S
<1>4. transactions[key[t]] # InProgress
  BY <1>1, <1>2, <1>3, EntryForms
<1>5. \A u \in Callers : ~Owns(u, key[t])
  BY <1>1, <1>4 DEF InProgressIsOwned
<1>6. \A u \in Callers, k \in Keys : Owns(u, k)' <=> Owns(u, k) \/ (u = t /\ k = key[t])
  BY <1>1, <1>3 DEF Owns, TypeOK
<1>7. \A k \in Keys : transactions'[k] = IF k = key[t] THEN InProgress ELSE S[k]
  BY <1>2, <1>3
<1>8. InProgressIsOwned'
  BY <1>1, <1>2, <1>6, <1>7 DEF InProgressIsOwned
<1>9. NoConcurrentExecution'
  BY <1>5, <1>6 DEF NoConcurrentExecution
<1>10. CachedIsLatest'
  BY <1>2, <1>3, <1>7, EntryForms DEF CachedIsLatest
<1>11. RecordsLatest'
  BY <1>1, <1>3 DEF RecordsLatest, TypeOK
<1> QED BY <1>8, <1>9, <1>10, <1>11

(* The handler runs: its caller still owns the transaction, the entry is   *)
(* still in progress, and no other caller is about to record for it.       *)
LEMMA ExecuteKeeps ==
    ASSUME OwnershipInv, TypeOK', NEW t \in Callers, Execute(t)
    PROVE  OwnershipInv'
<1> USE DEF OwnershipInv
<1>1. /\ key[t] \in Keys /\ pc[t] = "executing" /\ Owns(t, key[t])
      /\ pc' = [pc EXCEPT ![t] = "recording"]
      /\ response' = [response EXCEPT ![t] = runs[key[t]] + 1]
      /\ runs' = [runs EXCEPT ![key[t]] = @ + 1]
      /\ UNCHANGED <<key, transactions>>
  BY DEF TypeOK, Execute, Owns
<1>2. \A u \in Callers, k \in Keys : Owns(u, k)' <=> Owns(u, k)
  BY <1>1 DEF Owns, TypeOK
<1>3. InProgressIsOwned' /\ NoConcurrentExecution'
  BY <1>1, <1>2 DEF InProgressIsOwned, NoConcurrentExecution
<1>4. transactions[key[t]].tag # "Completed"
  BY <1>1, EntryForms DEF InProgressIsOwned
<1>5. CachedIsLatest'
  BY <1>1, <1>4 DEF CachedIsLatest, TypeOK
<1>6. ASSUME NEW u \in Callers, pc'[u] = "recording"
      PROVE  response'[u] = runs'[key'[u]]
  <2>1. CASE u = t
    BY <1>1, <2>1 DEF TypeOK
  <2>2. CASE u # t
    <3>1. pc[u] = "recording" /\ key[u] \in Keys /\ Owns(u, key[u])
      BY <1>1, <1>6, <2>2 DEF TypeOK, Owns
    <3>2. key[u] # key[t]
      BY <1>1, <2>2, <3>1 DEF NoConcurrentExecution
    <3> QED BY <1>1, <2>2, <3>1, <3>2 DEF TypeOK, RecordsLatest
  <2> QED BY <2>1, <2>2
<1>7. RecordsLatest'
  BY <1>6 DEF RecordsLatest
<1> QED BY <1>3, <1>5, <1>7

(* An owner finishes: its entry becomes e, and only it owned the entry.    *)
LEMMA FinishKeeps ==
    ASSUME OwnershipInv, TypeOK', NEW t \in Callers, NEW e,
           Owns(t, key[t]), Return(t), UNCHANGED <<key, runs>>,
           transactions' = [transactions EXCEPT ![key[t]] = e],
           e # InProgress,
           e.tag = "Completed" => e.response = runs[key[t]]
    PROVE  OwnershipInv'
<1> USE DEF OwnershipInv
<1>1. /\ key[t] \in Keys
      /\ pc' = [pc EXCEPT ![t] = "idle"]
      /\ response' = [response EXCEPT ![t] = 0]
  BY DEF TypeOK, Return
<1>2. \A u \in Callers, k \in Keys : Owns(u, k)' <=> Owns(u, k) /\ u # t
  BY <1>1 DEF Owns, TypeOK
<1>3. \A k \in Keys : transactions'[k] = IF k = key[t] THEN e ELSE transactions[k]
  BY DEF TypeOK
<1>4. \A k \in Keys : Owns(t, k) => k = key[t]
  BY DEF Owns
<1>5. InProgressIsOwned'
  <2>1. ASSUME NEW k \in Keys
        PROVE  transactions'[k] = InProgress <=> \E u \in Callers : Owns(u, k)'
    <3>1. CASE k = key[t]
      BY <1>1, <1>2, <1>3, <3>1 DEF NoConcurrentExecution
    <3>2. CASE k # key[t]
      BY <1>2, <1>3, <1>4, <3>2 DEF InProgressIsOwned
    <3> QED BY <3>1, <3>2
  <2> QED BY <2>1 DEF InProgressIsOwned
<1>6. NoConcurrentExecution'
  BY <1>2 DEF NoConcurrentExecution
<1>7. CachedIsLatest'
  BY <1>1, <1>3 DEF CachedIsLatest
<1>8. RecordsLatest'
  BY <1>1 DEF RecordsLatest, TypeOK
<1> QED BY <1>5, <1>6, <1>7, <1>8

(* Steps that leave the table, the responses and the claims alone.         *)
LEMMA OthersKeep ==
    ASSUME OwnershipInv, TypeOK', UNCHANGED <<transactions, response, runs>>,
           \A u \in Callers, k \in Keys : Owns(u, k)' <=> Owns(u, k),
           \A u \in Callers : pc'[u] = "recording" => pc[u] = "recording" /\ key'[u] = key[u]
    PROVE  OwnershipInv'
<1> USE DEF OwnershipInv
<1>1. InProgressIsOwned' /\ NoConcurrentExecution'
  BY DEF InProgressIsOwned, NoConcurrentExecution
<1>2. CachedIsLatest' /\ RecordsLatest'
  BY DEF CachedIsLatest, RecordsLatest
<1> QED BY <1>1, <1>2

(* Every step keeps the table exact.                                       *)
LEMMA OwnershipStep == OwnershipInv /\ [Next]_vars => OwnershipInv'
<1> SUFFICES ASSUME OwnershipInv, [Next]_vars PROVE OwnershipInv'
  OBVIOUS
<1>0. TypeOK /\ TypeOK'
  BY TypeStep DEF OwnershipInv
<1>1. CASE UNCHANGED vars
  BY <1>0, <1>1, OthersKeep DEF vars, Owns
<1>2. ASSUME NEW t \in Callers, NEW k \in Keys, CheckStart(t, k) PROVE OwnershipInv'
  <2>1. /\ pc[t] = "idle"
        /\ pc' = [pc EXCEPT ![t] = "checking"]
        /\ key' = [key EXCEPT ![t] = k]
        /\ UNCHANGED <<transactions, response, runs>>
    BY <1>2 DEF CheckStart
  <2>2. \A u \in Callers, l \in Keys : Owns(u, l)' <=> Owns(u, l)
    BY <1>0, <2>1 DEF TypeOK, Owns
  <2>3. \A u \in Callers : pc'[u] = "recording" => pc[u] = "recording" /\ key'[u] = key[u]
    BY <1>0, <2>1 DEF TypeOK
  <2> QED BY <1>0, <2>1, <2>2, <2>3, OthersKeep
<1>3. ASSUME NEW t \in Callers, CheckNew(t) PROVE OwnershipInv'
  BY <1>0, <1>3, ClaimKeeps
<1>4. ASSUME NEW t \in Callers, CheckInProgress(t) \/ CheckCompleted(t) PROVE OwnershipInv'
  BY <1>0, <1>4, RepeatKeeps
<1>5. ASSUME NEW t \in Callers, Execute(t) PROVE OwnershipInv'
  BY <1>0, <1>5, ExecuteKeeps
<1>6. ASSUME NEW t \in Callers, record_response(t) PROVE OwnershipInv'
  <2> DEFINE e == Completed(stamp[t], response[t])
  <2>1. Owns(t, key[t]) /\ Return(t) /\ UNCHANGED <<key, runs>>
    BY <1>6 DEF record_response, Owns
  <2>2. transactions' = [transactions EXCEPT ![key[t]] = e]
    BY <1>6 DEF record_response, Recorded
  <2>3. response[t] = runs[key[t]]
    BY <1>6 DEF record_response, OwnershipInv, RecordsLatest
  <2>4. e # InProgress /\ e.response = runs[key[t]]
    BY <1>0, <2>3, EntryForms DEF TypeOK
  <2> HIDE DEF e
  <2> QED BY <1>0, <2>1, <2>2, <2>4, FinishKeeps
<1>7. ASSUME NEW t \in Callers, clear(t) PROVE OwnershipInv'
  <2>1. Owns(t, key[t]) /\ Return(t) /\ UNCHANGED <<key, runs>>
    BY <1>7 DEF clear, Owns
  <2>2. transactions' = [transactions EXCEPT ![key[t]] = Vacant]
    BY <1>7 DEF clear, Cleared
  <2> QED BY <1>0, <2>1, <2>2, EntryForms, FinishKeeps
<1>8. ASSUME NEW t \in Callers, Panic(t) PROVE OwnershipInv'
  <2>1. /\ pc[t] = "executing"
        /\ pc' = [pc EXCEPT ![t] = "dead"]
        /\ UNCHANGED <<key, transactions, response, runs>>
    BY <1>8 DEF Panic
  <2>2. \A u \in Callers, k \in Keys : Owns(u, k)' <=> Owns(u, k)
    BY <1>0, <2>1 DEF TypeOK, Owns
  <2>3. \A u \in Callers : pc'[u] = "recording" => pc[u] = "recording" /\ key'[u] = key[u]
    BY <1>0, <2>1 DEF TypeOK
  <2> QED BY <1>0, <2>1, <2>2, <2>3, OthersKeep
<1>9. CASE Tick \/ SlipBack
  <2>1. UNCHANGED <<transactions, pc, key, response, runs>>
    BY <1>9 DEF Tick, SlipBack
  <2> QED BY <1>0, <2>1, OthersKeep DEF Owns
<1> QED BY <1>1, <1>2, <1>3, <1>4, <1>5, <1>6, <1>7, <1>8, <1>9 DEF Next

\* OwnershipInv is inductive.
LEMMA OwnershipInvariant == Spec => []OwnershipInv
BY OwnershipInit, OwnershipStep, PTL DEF Spec

(* No transaction is ever processed by two workers at a time, for any      *)
(* number of workers, sweeps, failures, panics and clock changes.          *)
THEOREM Exclusion == Spec => []NoConcurrentExecution
<1>1. OwnershipInv => NoConcurrentExecution
  BY DEF OwnershipInv
<1> QED BY <1>1, OwnershipInvariant, PTL

(* An entry is in progress exactly when a worker has claimed it and not    *)
(* finished: no failed call blocks its retries.                            *)
THEOREM TableExact == Spec => []InProgressIsOwned
<1>1. OwnershipInv => InProgressIsOwned
  BY DEF OwnershipInv
<1> QED BY <1>1, OwnershipInvariant, PTL

(* What is replayed is the response of the last execution.                 *)
THEOREM ReplayIsLatest == Spec => []CachedIsLatest
<1>1. OwnershipInv => CachedIsLatest
  BY DEF OwnershipInv
<1> QED BY <1>1, OwnershipInvariant, PTL

------------------------------------------------------------------------------
(* The stamp of a caller that waits for the lock is at most MaxLockWait    *)
(* old.                                                                    *)
StampsRecent ==
    \A t \in Callers : pc[t] \in {"checking", "recording"} =>
        stamp[t] <= clock /\ clock <= stamp[t] + MaxLockWait

(* The time of an entry lags at most MaxLockWait behind its last answer,   *)
(* and the entry was not overdue at the last sweep.                        *)
EntriesRecent ==
    \A k \in Keys : transactions[k].tag = "Completed" =>
        /\ answered[k] - MaxLockWait <= transactions[k].completion_time
        /\ last_housekeeping - Retention <= transactions[k].completion_time

(* The invariant behind Retained and ReplaysBounded, while the clock is    *)
(* not set back.                                                           *)
TimeInv == OwnershipInv /\ last_housekeeping <= clock /\ StampsRecent /\ EntriesRecent

(* After a sweep at the time now, no entry is overdue; the entries left    *)
(* keep the bound of the last sweep.                                       *)
LEMMA SweepTimes ==
    ASSUME TypeOK, EntriesRecent, NEW now \in 0 .. MaxTime, NEW k \in Keys,
           Swept(now)[k].tag = "Completed"
    PROVE  /\ transactions[k] = Swept(now)[k]
           /\ answered[k] - MaxLockWait <= Swept(now)[k].completion_time
           /\ SweepTime(now) - Retention <= Swept(now)[k].completion_time
           /\ ~Due(now) => now - last_housekeeping < HousekeepingInterval
           /\ Due(now) => now - Retention <= Swept(now)[k].completion_time
<1>1. transactions[k] = Swept(now)[k]
  BY SweepKeeps, EntryForms
<1>2. transactions[k] \in TransactionState /\ transactions[k].tag = "Completed"
  BY <1>1 DEF TypeOK
<1>3. transactions[k].completion_time \in 0 .. MaxTime
  BY <1>2, EntryCases, EntryForms
<1>4. CASE Due(now)
  <2>1. Swept(now)[k] = IF /\ transactions[k].tag = "Completed"
                           /\ transactions[k].completion_time < now - Retention
                        THEN Vacant ELSE transactions[k]
    BY <1>4 DEF Swept, housekeeping
  <2>2. ~(transactions[k].completion_time < now - Retention)
    BY <1>2, <2>1, EntryForms
  <2>3. now - Retention <= transactions[k].completion_time
    BY <1>3, <2>2, TrackerAssumption
  <2> QED BY <1>1, <1>2, <1>4, <2>3 DEF SweepTime, EntriesRecent
<1>5. CASE ~Due(now)
  <2>1. transactions[k] # Vacant
    BY <1>2, EntryForms
  <2>2. ~should_housekeep(last_housekeeping, now)
    BY <1>5, <2>1 DEF Due
  <2>3. now - last_housekeeping < HousekeepingInterval
    BY <2>2, IntervalType DEF should_housekeep, TypeOK
  <2> QED BY <1>1, <1>2, <1>5, <2>3 DEF SweepTime, EntriesRecent
<1> QED BY <1>4, <1>5

(* At the start there are no entries and nobody waits.                     *)
LEMMA TimeInit == Init => TimeInv
<1> SUFFICES ASSUME Init PROVE TimeInv
  OBVIOUS
<1>1. OwnershipInv
  BY OwnershipInit
<1>2. last_housekeeping <= clock /\ StampsRecent
  BY DEF Init, StampsRecent
<1>3. EntriesRecent
  BY EntryForms DEF Init, EntriesRecent
<1> QED BY <1>1, <1>2, <1>3 DEF TimeInv

(* The locked section of check, whatever it finds.                         *)
LEMMA CheckTimes ==
    ASSUME TimeInv, OwnershipInv', NEW t \in Callers,
           CheckNew(t) \/ CheckInProgress(t) \/ CheckCompleted(t)
    PROVE  TimeInv'
<1>1. /\ TypeOK /\ TypeOK' /\ EntriesRecent /\ StampsRecent /\ last_housekeeping <= clock
      /\ clock \in 0 .. MaxTime /\ last_housekeeping \in 0 .. MaxTime
      /\ stamp[t] \in 0 .. MaxTime /\ key[t] \in Keys
  BY DEF TimeInv, OwnershipInv, TypeOK
<1>2. /\ pc[t] = "checking" /\ UNCHANGED clock
      /\ last_housekeeping' = SweepTime(stamp[t])
      /\ \/ pc' = [pc EXCEPT ![t] = "executing"] /\ stamp' = stamp
         \/ pc' = [pc EXCEPT ![t] = "idle"] /\ stamp' = [stamp EXCEPT ![t] = 0]
  BY DEF CheckNew, CheckInProgress, CheckCompleted, Return
<1>3. stamp[t] <= clock /\ clock <= stamp[t] + MaxLockWait
  BY <1>1, <1>2 DEF StampsRecent
<1>4. last_housekeeping' <= clock'
  BY <1>1, <1>2, <1>3 DEF SweepTime
<1>5. StampsRecent'
  BY <1>1, <1>2 DEF StampsRecent, TypeOK
<1>6. EntriesRecent'
  <2> SUFFICES ASSUME NEW k \in Keys, transactions'[k].tag = "Completed"
               PROVE  /\ answered'[k] - MaxLockWait <= transactions'[k].completion_time
                      /\ last_housekeeping' - Retention <= transactions'[k].completion_time
    BY DEF EntriesRecent
  <2> DEFINE S == Swept(stamp[t])
  <2>1. S \in [Keys -> TransactionState]
    BY <1>1, SweepKeeps
  <2>2. CASE transactions'[k] = S[k] /\ answered'[k] = answered[k]
    BY <1>1, <1>2, <2>2, SweepTimes
  <2>3. CASE CheckNew(t)
    <3>1. transactions'[k] = IF k = key[t] THEN InProgress ELSE S[k]
      BY <2>1, <2>3 DEF CheckNew, Claimed
    <3>2. transactions'[k] = S[k]
      BY <3>1, EntryForms
    <3> QED BY <2>2, <2>3, <3>2 DEF CheckNew
  <2>4. CASE CheckInProgress(t)
    BY <2>2, <2>4 DEF CheckInProgress
  <2>5. CASE CheckCompleted(t)
    <3>1. /\ transactions' = Refreshed(S, key[t], stamp[t])
          /\ answered' = [answered EXCEPT ![key[t]] = clock]
          /\ S[key[t]].tag = "Completed"
      BY <2>5 DEF CheckCompleted
    <3> HIDE DEF S
    <3>2. CASE k # key[t]
      <4>1. transactions'[k] = S[k] /\ answered'[k] = answered[k]
        BY <1>1, <2>1, <3>1, <3>2 DEF Refreshed, TypeOK
      <4> QED BY <2>2, <4>1
    <3>3. CASE k = key[t]
      <4>1. transactions'[k] = Completed(stamp[t], S[k].response) /\ answered'[k] = clock
        BY <1>1, <2>1, <3>1, <3>3 DEF Refreshed, TypeOK
      <4>2. S[k].response \in 0 .. MaxRuns
        BY <2>1, <3>1, <3>3, EntryCases, EntryForms
      <4>3. transactions'[k].completion_time = stamp[t]
        BY <1>1, <4>1, <4>2, EntryForms
      <4>4. last_housekeeping' - Retention <= stamp[t]
        BY <1>1, <1>2, <1>3, TrackerAssumption DEF SweepTime
      <4>5. clock - MaxLockWait <= stamp[t]
        BY <1>1, <1>3, TrackerAssumption
      <4> QED BY <4>1, <4>3, <4>4, <4>5
    <3> QED BY <3>2, <3>3
  <2> QED BY <2>3, <2>4, <2>5
<1> QED BY <1>4, <1>5, <1>6 DEF TimeInv

(* A response is recorded with a stamp that is at most MaxLockWait old.    *)
LEMMA RecordTimes ==
    ASSUME TimeInv, OwnershipInv', NEW t \in Callers, record_response(t)
    PROVE  TimeInv'
<1>1. /\ TypeOK /\ TypeOK' /\ EntriesRecent /\ StampsRecent /\ last_housekeeping <= clock
      /\ clock \in 0 .. MaxTime /\ last_housekeeping \in 0 .. MaxTime
      /\ stamp[t] \in 0 .. MaxTime /\ key[t] \in Keys /\ response[t] \in 0 .. MaxRuns
  BY DEF TimeInv, OwnershipInv, TypeOK
<1>2. /\ pc[t] = "recording" /\ UNCHANGED <<clock, last_housekeeping>>
      /\ pc' = [pc EXCEPT ![t] = "idle"] /\ stamp' = [stamp EXCEPT ![t] = 0]
      /\ transactions' = [transactions EXCEPT ![key[t]] = Completed(stamp[t], response[t])]
      /\ answered' = [answered EXCEPT ![key[t]] = clock]
  BY DEF record_response, Return, Recorded
<1>3. stamp[t] <= clock /\ clock <= stamp[t] + MaxLockWait
  BY <1>1, <1>2 DEF StampsRecent
<1>4. StampsRecent'
  BY <1>1, <1>2 DEF StampsRecent, TypeOK
<1>5. ASSUME NEW k \in Keys, transactions'[k].tag = "Completed"
      PROVE  /\ answered'[k] - MaxLockWait <= transactions'[k].completion_time
             /\ last_housekeeping' - Retention <= transactions'[k].completion_time
  <2>1. CASE k # key[t]
    BY <1>1, <1>2, <1>5, <2>1 DEF EntriesRecent, TypeOK
  <2>2. CASE k = key[t]
    <3>1. transactions'[k] = Completed(stamp[t], response[t]) /\ answered'[k] = clock
      BY <1>1, <1>2, <2>2 DEF TypeOK
    <3>2. transactions'[k].completion_time = stamp[t]
      BY <1>1, <3>1, EntryForms
    <3> QED BY <1>1, <1>2, <1>3, <3>1, <3>2, TrackerAssumption
  <2> QED BY <2>1, <2>2
<1>6. EntriesRecent'
  BY <1>5 DEF EntriesRecent
<1> QED BY <1>1, <1>2, <1>4, <1>6 DEF TimeInv

(* Every step of a clock that is not set back keeps the times in order.    *)
LEMMA TimeStep ==
    ASSUME ~ClockMaySlip
    PROVE  TimeInv /\ [Next]_vars => TimeInv'
<1> SUFFICES ASSUME TimeInv, [Next]_vars PROVE TimeInv'
  OBVIOUS
<1>0. OwnershipInv /\ OwnershipInv' /\ TypeOK /\ TypeOK'
  BY OwnershipStep DEF TimeInv, OwnershipInv
<1>1. CASE UNCHANGED vars
  BY <1>0, <1>1 DEF vars, TimeInv, StampsRecent, EntriesRecent
<1>2. ASSUME NEW t \in Callers, NEW k \in Keys, CheckStart(t, k) PROVE TimeInv'
  <2>1. StampsRecent'
    BY <1>0, <1>2, TrackerAssumption DEF CheckStart, TimeInv, StampsRecent, TypeOK
  <2> QED BY <1>0, <1>2, <2>1 DEF CheckStart, TimeInv, EntriesRecent
<1>3. ASSUME NEW t \in Callers, CheckNew(t) \/ CheckInProgress(t) \/ CheckCompleted(t)
      PROVE  TimeInv'
  BY <1>0, <1>3, CheckTimes
<1>4. ASSUME NEW t \in Callers, Execute(t) PROVE TimeInv'
  <2>1. StampsRecent'
    BY <1>0, <1>4, TrackerAssumption DEF Execute, TimeInv, StampsRecent, TypeOK
  <2> QED BY <1>0, <1>4, <2>1 DEF Execute, TimeInv, EntriesRecent
<1>5. ASSUME NEW t \in Callers, record_response(t) PROVE TimeInv'
  BY <1>0, <1>5, RecordTimes
<1>6. ASSUME NEW t \in Callers, clear(t) PROVE TimeInv'
  <2>1. StampsRecent'
    BY <1>0, <1>6 DEF clear, Return, TimeInv, StampsRecent, TypeOK
  <2>2. EntriesRecent'
    BY <1>0, <1>6, EntryForms DEF clear, Cleared, TimeInv, EntriesRecent, TypeOK
  <2> QED BY <1>0, <1>6, <2>1, <2>2 DEF clear, TimeInv
<1>7. ASSUME NEW t \in Callers, Panic(t) PROVE TimeInv'
  <2>1. StampsRecent'
    BY <1>0, <1>7 DEF Panic, TimeInv, StampsRecent, TypeOK
  <2> QED BY <1>0, <1>7, <2>1 DEF Panic, TimeInv, EntriesRecent
<1>8. CASE Tick
  <2>1. /\ clock' = clock + 1 /\ clock \in 0 .. MaxTime /\ last_housekeeping \in 0 .. MaxTime
        /\ UNCHANGED <<transactions, last_housekeeping, pc, stamp, answered>>
    BY <1>0, <1>8 DEF Tick, TypeOK
  <2>2. StampsRecent'
    BY <1>0, <1>8, <2>1, TrackerAssumption DEF Tick, TimeInv, StampsRecent, TypeOK
  <2>3. last_housekeeping' <= clock'
    BY <2>1 DEF TimeInv
  <2> QED BY <1>0, <2>1, <2>2, <2>3 DEF TimeInv, EntriesRecent
<1>9. CASE SlipBack
  BY <1>9 DEF SlipBack
<1> QED BY <1>1, <1>2, <1>3, <1>4, <1>5, <1>6, <1>7, <1>8, <1>9 DEF Next

\* TimeInv is inductive, if the clock does not slip.
LEMMA TimeInvariant ==
    ASSUME ~ClockMaySlip
    PROVE  Spec => []TimeInv
<1>1. TimeInv /\ [Next]_vars => TimeInv'
  BY TimeStep
<1> QED BY <1>1, TimeInit, PTL DEF Spec

(* Only a sweep forgets an answer, and only past its retention.            *)
LEMMA ForgetsLate == TimeInv /\ [Next]_vars => [ForgottenLate]_vars
<1> SUFFICES ASSUME TimeInv, [Next]_vars, NEW k \in Keys, Forgets(k)
             PROVE  clock - answered[k] > Retention - MaxLockWait
  BY DEF ForgottenLate
<1>0. /\ TypeOK /\ EntriesRecent /\ StampsRecent /\ InProgressIsOwned
      /\ transactions[k].tag = "Completed" /\ transactions'[k].tag # "Completed"
  BY DEF TimeInv, OwnershipInv, Forgets
<1>1. ASSUME NEW t \in Callers, CheckNew(t) \/ CheckInProgress(t) \/ CheckCompleted(t)
      PROVE  clock - answered[k] > Retention - MaxLockWait
  <2> DEFINE S == Swept(stamp[t])
  <2>1. /\ stamp[t] \in 0 .. MaxTime /\ clock \in 0 .. MaxTime /\ answered[k] \in 0 .. MaxTime
        /\ key[t] \in Keys
    BY <1>0 DEF TypeOK
  <2>2. stamp[t] <= clock
    BY <1>0, <1>1 DEF CheckNew, CheckInProgress, CheckCompleted, StampsRecent
  <2>3. S \in [Keys -> TransactionState]
    BY <1>0, <2>1, SweepKeeps
  <2>4. S[k] # transactions[k]
    <3>1. CASE CheckNew(t)
      BY <1>0, <2>3, <3>1, EntryForms DEF CheckNew, Claimed
    <3>2. CASE CheckInProgress(t)
      BY <1>0, <3>2 DEF CheckInProgress
    <3>3. CASE CheckCompleted(t)
      <4>1. /\ transactions' = Refreshed(S, key[t], stamp[t])
            /\ S[key[t]].tag = "Completed"
        BY <3>3 DEF CheckCompleted
      <4> HIDE DEF S
      <4>2. CASE k = key[t]
        BY <1>0, <2>1, <2>3, <4>1, <4>2, EntryCases, EntryForms DEF Refreshed
      <4>3. CASE k # key[t]
        BY <1>0, <2>3, <4>1, <4>3 DEF Refreshed
      <4> QED BY <4>2, <4>3
    <3> QED BY <1>1, <3>1, <3>2, <3>3
  <2>5. transactions[k].completion_time < stamp[t] - Retention
    BY <1>0, <2>1, <2>4, SweepKeeps
  <2>6. transactions[k].completion_time \in 0 .. MaxTime
    BY <1>0, EntryCases, EntryForms DEF TypeOK
  <2>7. answered[k] - MaxLockWait <= transactions[k].completion_time
    BY <1>0 DEF EntriesRecent
  <2> QED BY <2>1, <2>2, <2>5, <2>6, <2>7, TrackerAssumption
<1>2. ASSUME NEW t \in Callers, record_response(t) PROVE FALSE
  <2>1. transactions'[k] = IF k = key[t] THEN Completed(stamp[t], response[t]) ELSE transactions[k]
    BY <1>0, <1>2 DEF record_response, Recorded, TypeOK
  <2> QED BY <1>0, <2>1, EntryForms DEF TypeOK
<1>3. ASSUME NEW t \in Callers, clear(t) PROVE FALSE
  <2>1. transactions'[k] = IF k = key[t] THEN Vacant ELSE transactions[k]
    BY <1>0, <1>3 DEF clear, Cleared, TypeOK
  <2>2. transactions[key[t]] = InProgress
    BY <1>0, <1>3 DEF clear, InProgressIsOwned, Owns, TypeOK
  <2> QED BY <1>0, <2>1, <2>2, EntryForms
<1>4. CASE UNCHANGED transactions
  BY <1>0, <1>4
<1> QED BY <1>1, <1>2, <1>3, <1>4
    DEF Next, vars, CheckStart, Execute, Panic, Tick, SlipBack

(* If the clock is not set back, no answer is forgotten before its         *)
(* retention, less the wait for the lock, is over.                         *)
THEOREM Retained ==
    ASSUME ~ClockMaySlip
    PROVE  Spec => RetentionHonoured
<1>1. Spec => []TimeInv
  BY TimeInvariant
<1> QED BY <1>1, ForgetsLate, PTL DEF Spec, RetentionHonoured

(* An entry that is replayed was not overdue at the last sweep, and that   *)
(* was less than one interval ago.                                         *)
LEMMA ReplaysYoung == TimeInv /\ [Next]_vars => [ReplayedYoung]_vars
<1> SUFFICES ASSUME TimeInv, [Next]_vars, NEW t \in Callers, Replays(t)
             PROVE  LET age == stamp[t] - transactions[key[t]].completion_time
                    IN  age <= Retention \/ age < Retention + HousekeepingInterval
  BY DEF ReplayedYoung
<1> DEFINE S == Swept(stamp[t])
           e == transactions[key[t]]
<1>0. /\ TypeOK /\ EntriesRecent
      /\ stamp[t] \in 0 .. MaxTime /\ last_housekeeping \in 0 .. MaxTime /\ key[t] \in Keys
      /\ pc[t] = "checking" /\ pc'[t] = "idle" /\ transactions'[key[t]].tag = "Completed"
  BY DEF TimeInv, OwnershipInv, TypeOK, Replays
<1>1. CheckInProgress(t) \/ CheckCompleted(t)
  <2>1. ASSUME NEW u \in Callers, u # t,
               \/ \E k \in Keys : CheckStart(u, k)
               \/ CheckNew(u) \/ CheckInProgress(u) \/ CheckCompleted(u) \/ Execute(u)
               \/ record_response(u) \/ clear(u) \/ Panic(u)
        PROVE  pc'[t] = pc[t]
    BY <1>0, <2>1 DEF TypeOK, CheckStart, CheckNew, CheckInProgress, CheckCompleted, Execute,
                      record_response, clear, Panic, Return
  <2>2. ~(\/ \E k \in Keys : CheckStart(t, k)
          \/ CheckNew(t) \/ Execute(t) \/ record_response(t) \/ clear(t) \/ Panic(t))
    BY <1>0 DEF TypeOK, CheckStart, CheckNew, Execute, record_response, clear, Panic
  <2>3. ~(Tick \/ SlipBack \/ UNCHANGED vars)
    BY <1>0 DEF Tick, SlipBack, vars
  <2> QED BY <1>0, <2>1, <2>2, <2>3 DEF Next
<1>2. S[key[t]].tag = "Completed"
  BY <1>0, <1>1, EntryForms DEF CheckInProgress, CheckCompleted
<1>3. /\ e = S[key[t]]
      /\ SweepTime(stamp[t]) - Retention <= e.completion_time
      /\ ~Due(stamp[t]) => stamp[t] - last_housekeeping < HousekeepingInterval
      /\ Due(stamp[t]) => stamp[t] - Retention <= e.completion_time
  BY <1>0, <1>2, SweepTimes
<1>4. e.completion_time \in 0 .. MaxTime
  BY <1>0, <1>2, <1>3, EntryCases, EntryForms DEF TypeOK
<1> HIDE DEF e
<1>5. \/ stamp[t] - e.completion_time <= Retention
      \/ stamp[t] - e.completion_time < Retention + HousekeepingInterval
  <2>1. CASE Due(stamp[t])
    BY <1>0, <1>3, <1>4, <2>1, TrackerAssumption
  <2>2. CASE ~Due(stamp[t])
    <3>1. last_housekeeping - Retention <= e.completion_time
      BY <1>3, <2>2 DEF SweepTime
    <3> QED BY <1>0, <1>3, <1>4, <2>2, <3>1, IntervalType, TrackerAssumption
  <2> QED BY <2>1, <2>2
<1> QED BY <1>5 DEF e

(* If the clock is not set back, no answer is replayed later than one      *)
(* sweep interval past its retention.                                      *)
THEOREM ReplaysBounded ==
    ASSUME ~ClockMaySlip
    PROVE  Spec => NoStaleReplay
<1>1. Spec => []TimeInv
  BY TimeInvariant
<1> QED BY <1>1, ReplaysYoung, PTL DEF Spec, NoStaleReplay

------------------------------------------------------------------------------
(* The cache that the table stands for: its entries without their times.   *)
Bar == [k \in Keys |-> IF transactions[k].tag = "Completed"
                       THEN [tag |-> "Completed", response |-> transactions[k].response]
                       ELSE transactions[k]]
Untimed(e) == IF e.tag = "Completed" THEN Cache!Completed(e.response) ELSE e

\* The abstract table, entry by entry.
LEMMA BarFacts ==
    /\ \A k \in Keys : Bar[k] = Untimed(transactions[k]) /\ Bar'[k] = Untimed(transactions'[k])
    /\ Bar = [k \in Keys |-> Bar[k]] /\ Bar' = [k \in Keys |-> Bar'[k]]
    /\ Cache!Vacant = Vacant /\ Cache!InProgress = InProgress
    /\ Untimed(Vacant) = Vacant /\ Untimed(InProgress) = InProgress
    /\ \A r : Cache!Completed(r).tag = "Completed"
BY DEF Bar, Untimed, Cache!Completed, Cache!Vacant, Cache!InProgress, Vacant, InProgress

(* Forgetting the keys that a sweep drops does to the cache what the sweep *)
(* does to the table.                                                      *)
LEMMA SweepForgets ==
    ASSUME TypeOK, NEW now \in 0 .. MaxTime
    PROVE  \E S \in SUBSET Cache!Forgettable(Bar) :
               Cache!Forget(Bar, S) = [k \in Keys |-> Untimed(Swept(now)[k])]
<1> DEFINE S == {k \in Keys : Swept(now)[k] # transactions[k]}
<1>1. \A k \in S : k \in Keys /\ transactions[k].tag = "Completed" /\ Swept(now)[k] = Vacant
  BY SweepKeeps
<1>2. \A k \in S : Bar[k].tag = "Completed"
  BY <1>1, BarFacts DEF Untimed
<1>3. DOMAIN Bar = Keys
  BY DEF Bar
<1>4. S \in SUBSET Cache!Forgettable(Bar)
  BY <1>2, <1>3 DEF Cache!Forgettable
<1>5. \A k \in Keys : (IF k \in S THEN Cache!Vacant ELSE Bar[k]) = Untimed(Swept(now)[k])
  BY <1>1, BarFacts
<1>6. Cache!Forget(Bar, S) = [k \in Keys |-> IF k \in S THEN Cache!Vacant ELSE Bar[k]]
  BY <1>3 DEF Cache!Forget
<1> QED BY <1>4, <1>5, <1>6

(* Every step of the tracker is a step of the cache, or leaves it          *)
(* unchanged.                                                              *)
LEMMA RefinementStep == OwnershipInv /\ [Next]_vars => [Cache!Next]_Bar
<1> SUFFICES ASSUME OwnershipInv, [Next]_vars PROVE Cache!Next \/ Bar' = Bar
  OBVIOUS
<1>0. TypeOK /\ InProgressIsOwned /\ transactions \in [Keys -> TransactionState]
  BY DEF OwnershipInv, TypeOK
<1>1. CASE UNCHANGED transactions
  BY <1>1 DEF Bar
<1>2. ASSUME NEW t \in Callers, CheckNew(t) \/ CheckInProgress(t) \/ CheckCompleted(t)
      PROVE  Cache!Next
  <2> DEFINE T == Swept(stamp[t])
             key_t == key[t]
  <2>1. stamp[t] \in 0 .. MaxTime /\ key_t \in Keys
    BY <1>0 DEF TypeOK
  <2>2. T \in [Keys -> TransactionState]
    BY <1>0, <2>1, SweepKeeps
  <2>3. PICK S \in SUBSET Cache!Forgettable(Bar) :
            Cache!Forget(Bar, S) = [k \in Keys |-> Untimed(T[k])]
    BY <1>0, <2>1, SweepForgets
  <2> DEFINE C == Cache!Forget(Bar, S)
  <2>4. \A k \in Keys : C[k] = Untimed(T[k])
    BY <2>3
  <2>5. CASE CheckNew(t)
    <3>1. T[key_t] = Vacant /\ transactions' = [T EXCEPT ![key_t] = InProgress]
      BY <2>5 DEF CheckNew, Claimed
    <3> HIDE DEF T
    <3>2. C[key_t] = Cache!Vacant
      BY <2>1, <2>4, <3>1, BarFacts
    <3>3. \A k \in Keys : Bar'[k] = IF k = key_t THEN Cache!InProgress ELSE C[k]
      BY <2>1, <2>2, <2>4, <3>1, BarFacts
    <3>4. Bar' = [C EXCEPT ![key_t] = Cache!InProgress]
      BY <2>3, <3>3, BarFacts
    <3>5. Cache!Claim(key_t, S)
      BY <3>2, <3>4 DEF Cache!Claim, Bar
    <3> QED BY <2>1, <2>3, <3>5 DEF Cache!Next, Bar
  <2>6. ASSUME C[key_t] # Cache!Vacant, \A k \in Keys : Untimed(transactions'[k]) = Untimed(T[k])
        PROVE  Cache!Next
    <3>1. Bar' = C
      BY <2>3, <2>6, BarFacts
    <3>2. Cache!Repeat(key_t, S)
      BY <2>6, <3>1 DEF Cache!Repeat, Bar
    <3> QED BY <2>1, <2>3, <3>2 DEF Cache!Next, Bar
  <2>7. CASE CheckInProgress(t)
    <3>1. transactions' = T /\ T[key_t] = InProgress
      BY <2>7 DEF CheckInProgress
    <3> HIDE DEF T
    <3>2. C[key_t] # Cache!Vacant
      BY <2>1, <2>4, <3>1, BarFacts, EntryForms
    <3> QED BY <2>6, <3>1, <3>2
  <2>8. CASE CheckCompleted(t)
    <3>1. T[key_t].tag = "Completed" /\ transactions' = Refreshed(T, key_t, stamp[t])
      BY <2>8 DEF CheckCompleted
    <3> HIDE DEF T
    <3>2. C[key_t] # Cache!Vacant
      BY <2>1, <2>4, <3>1, BarFacts, EntryForms DEF Untimed
    <3>3. ASSUME NEW k \in Keys PROVE Untimed(transactions'[k]) = Untimed(T[k])
      <4>1. CASE k = key_t
        <5>1. transactions'[k] = Completed(stamp[t], T[k].response)
          BY <2>1, <2>2, <3>1, <4>1 DEF Refreshed
        <5>2. T[k].response \in 0 .. MaxRuns
          BY <2>2, <3>1, <4>1, EntryCases, EntryForms
        <5>3. transactions'[k].tag = "Completed" /\ transactions'[k].response = T[k].response
          BY <2>1, <5>1, <5>2, EntryForms
        <5> QED BY <3>1, <4>1, <5>3 DEF Untimed
      <4>2. CASE k # key_t
        BY <2>2, <3>1, <4>2 DEF Refreshed
      <4> QED BY <4>1, <4>2
    <3> QED BY <2>6, <3>2, <3>3
  <2> QED BY <1>2, <2>5, <2>7, <2>8
<1>3. ASSUME NEW t \in Callers, Owns(t, key[t]), NEW e, NEW a,
             transactions' = [transactions EXCEPT ![key[t]] = e], a = Untimed(e)
      PROVE  \E k \in Keys : Bar[k] = Cache!InProgress /\ Bar' = [Bar EXCEPT ![k] = a]
  <2>1. PICK k \in Keys : k = key[t] /\ transactions[k] = InProgress
    BY <1>0, <1>3 DEF TypeOK, InProgressIsOwned
  <2>2. \A l \in Keys : Bar'[l] = IF l = k THEN a ELSE Bar[l]
    BY <1>0, <1>3, <2>1, BarFacts
  <2> QED BY <2>1, <2>2, BarFacts
<1>4. ASSUME NEW t \in Callers, record_response(t) PROVE Cache!Next
  <2> DEFINE e == Completed(stamp[t], response[t])
  <2>1. response[t] \in 0 .. MaxRuns /\ stamp[t] \in 0 .. MaxTime
    BY <1>0 DEF TypeOK
  <2>2. Owns(t, key[t]) /\ transactions' = [transactions EXCEPT ![key[t]] = e]
    BY <1>4 DEF record_response, Recorded, Owns
  <2>3. Cache!Completed(response[t]) = Untimed(e)
    BY <2>1, EntryForms DEF Untimed
  <2> HIDE DEF e
  <2>4. PICK k \in Keys : /\ Bar[k] = Cache!InProgress
                         /\ Bar' = [Bar EXCEPT ![k] = Cache!Completed(response[t])]
    BY <1>3, <2>2, <2>3
  <2>5. Cache!Complete(k)
    BY <2>1, <2>4 DEF Cache!Complete, Bar
  <2> QED BY <2>5 DEF Cache!Next
<1>5. ASSUME NEW t \in Callers, clear(t) PROVE Cache!Next
  <2>1. Owns(t, key[t]) /\ transactions' = [transactions EXCEPT ![key[t]] = Vacant]
    BY <1>5 DEF clear, Cleared, Owns
  <2>2. Cache!Vacant = Untimed(Vacant)
    BY BarFacts
  <2>3. PICK k \in Keys : Bar[k] = Cache!InProgress /\ Bar' = [Bar EXCEPT ![k] = Cache!Vacant]
    BY <1>3, <2>1, <2>2
  <2>4. Cache!Release(k)
    BY <2>3 DEF Cache!Release, Bar
  <2> QED BY <2>4 DEF Cache!Next
<1> QED BY <1>1, <1>2, <1>4, <1>5 DEF Next, vars, CheckStart, Execute, Panic, Tick, SlipBack

(* The tracker implements the abstract duplicate request cache: its sweeps *)
(* and clock readings only decide which completed calls are forgotten.     *)
THEOREM Refinement == Spec => ImplementsCache
<1>1. Init => Cache!Init
  BY EntryForms DEF Init, Cache!Init, Cache!Vacant, Vacant
<1>2. OwnershipInv /\ [Next]_vars => [Cache!Next]_Bar
  BY RefinementStep
<1> QED BY <1>1, <1>2, OwnershipInvariant, PTL DEF Spec, ImplementsCache, Cache!Spec, Bar
==============================================================================

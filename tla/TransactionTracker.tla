------------------------- MODULE TransactionTracker -------------------------
(***************************************************************************)
(* The table of recent RPC transactions (src/protocol/rpc/                 *)
(* transaction_tracker.rs) and the worker tasks that call it around the    *)
(* processing of one RPC message (handle_rpc and process_rpc_command of    *)
(* wire.rs).                                                               *)
(*                                                                         *)
(* check and record_response read the system clock BEFORE they take the    *)
(* mutex, so the time a caller works with may be older than the table it   *)
(* finds.  Reading the clock and the locked section are two actions here.  *)
(***************************************************************************)
EXTENDS Integers

CONSTANTS
    Callers,        \* worker tasks, one per connection
    Keys,           \* (xid, client address) pairs
    Retention,      \* retention_period, in clock units
    Second,         \* one second, in clock units
    MaxLockWait,    \* longest time between a clock reading and the lock
    MaxTime,        \* bound on the clock
    MaxRuns,        \* bound on the executions of one key
    ClockMaySlip,   \* may the system clock be set back?
    MayPanic        \* may a handler panic?

ASSUME TrackerAssumption ==
    /\ Retention \in Nat
    /\ Second \in Nat \ {0}
    /\ MaxLockWait \in 0..Retention
    /\ MaxTime \in Nat
    /\ MaxRuns \in Nat
    /\ ClockMaySlip \in BOOLEAN
    /\ MayPanic \in BOOLEAN

VARIABLES
    clock,              \* SystemTime::now()
    transactions,       \* TransactionStore.transactions
    last_housekeeping,  \* TransactionStore.last_housekeeping
    pc,                 \* where each caller is
    key,                \* the key of the message it processes
    stamp,              \* its reading of the clock
    response,           \* what it wrote to its output buffer (0: nothing)
    runs,               \* history: how often the handler ran for a key
    answered            \* history: when a key was last recorded or replayed

vars == <<clock, transactions, last_housekeeping, pc, key, stamp, response, runs, answered>>

------------------------------------------------------------------------------
(* TransactionState; Vacant stands for the absence of an entry.            *)

Vacant == [tag |-> "Vacant"]
InProgress == [tag |-> "InProgress"]
Completed(t, r) == [tag |-> "Completed", completion_time |-> t, response |-> r]

TransactionState ==
    {Vacant, InProgress}
        \cup [tag : {"Completed"}, completion_time : 0..MaxTime, response : 0..MaxRuns]

(* TransactionTracker::new: the least time between two sweeps.             *)
HousekeepingInterval ==
    IF Retention < Second THEN Retention
    ELSE IF Retention \div 4 < Second THEN Second ELSE Retention \div 4

(* A clock that went backwards since the last sweep asks for a sweep.      *)
\* Mutant: the table is never swept.
NeverHousekeep(last, now) == FALSE
should_housekeep(last, now) ==
    now >= last => now - last >= HousekeepingInterval

\* Mutant: a sweep empties the table, calls in progress included.
SweepAll(txs, now) == [k \in Keys |-> Vacant]
\* Mutant: entries are dropped one interval too early.
SweepEarly(txs, now) ==
    [k \in Keys |->
        IF txs[k].tag = "Completed" /\ txs[k].completion_time < now - Retention + Second
        THEN Vacant ELSE txs[k]]
housekeeping(txs, now) ==
    [k \in Keys |->
        IF txs[k].tag = "Completed" /\ txs[k].completion_time < now - Retention
        THEN Vacant ELSE txs[k]]

(* The first half of check's locked section: sweep when due.               *)
Due(now) ==
    /\ \E k \in Keys : transactions[k] # Vacant
    /\ should_housekeep(last_housekeeping, now)
Swept(now) == IF Due(now) THEN housekeeping(transactions, now) ELSE transactions
SweepTime(now) == IF Due(now) THEN now ELSE last_housekeeping

(* The second half, on the entry of the caller's key: a vacant one is      *)
(* claimed, a completed one has its retention start over.                  *)
\* Mutant: the new call is not entered in the table.
NotClaimed(txs, k) == txs
Claimed(txs, k) == [txs EXCEPT ![k] = InProgress]

\* Mutant: a replay does not prolong the retention.
NotRefreshed(txs, k, now) == txs
Refreshed(txs, k, now) == [txs EXCEPT ![k] = Completed(now, @.response)]

(* The insertion of record_response and the removal of clear.              *)
\* Mutant: the time of expiry is recorded instead of the time of completion.
RecordedExpiry(txs, k, now, r) == [txs EXCEPT ![k] = Completed(now + Retention, r)]
Recorded(txs, k, now, r) == [txs EXCEPT ![k] = Completed(now, r)]

\* Mutant: a failed call leaves its entry behind.
NotCleared(txs, k) == txs
Cleared(txs, k) == [txs EXCEPT ![k] = Vacant]

------------------------------------------------------------------------------
Init ==
    /\ clock = 0
    /\ transactions = [k \in Keys |-> Vacant]
    /\ last_housekeeping = 0
    /\ pc = [t \in Callers |-> "idle"]
    /\ key \in [Callers -> Keys]
    /\ stamp = [t \in Callers |-> 0]
    /\ response = [t \in Callers |-> 0]
    /\ runs = [k \in Keys |-> 0]
    /\ answered = [k \in Keys |-> 0]

(* A caller is done with its message, and its locals are gone.             *)
Return(t) ==
    /\ pc' = [pc EXCEPT ![t] = "idle"]
    /\ stamp' = [stamp EXCEPT ![t] = 0]
    /\ response' = [response EXCEPT ![t] = 0]

(* check, up to the lock.                                                  *)
CheckStart(t, k) ==
    /\ pc[t] = "idle"
    /\ pc' = [pc EXCEPT ![t] = "checking"]
    /\ key' = [key EXCEPT ![t] = k]
    /\ stamp' = [stamp EXCEPT ![t] = clock]
    /\ UNCHANGED <<clock, transactions, last_housekeeping, response, runs, answered>>

(* check under the lock, TransactionStatus::New: the entry is made and the *)
(* message goes on to its handler.                                         *)
CheckNew(t) ==
    /\ pc[t] = "checking"
    /\ Swept(stamp[t])[key[t]] = Vacant
    /\ transactions' = Claimed(Swept(stamp[t]), key[t])
    /\ last_housekeeping' = SweepTime(stamp[t])
    /\ pc' = [pc EXCEPT ![t] = "executing"]
    /\ UNCHANGED <<clock, key, stamp, response, runs, answered>>

(* TransactionStatus::InProgress: the message is dropped.                  *)
CheckInProgress(t) ==
    /\ pc[t] = "checking"
    /\ Swept(stamp[t])[key[t]] = InProgress
    /\ transactions' = Swept(stamp[t])
    /\ last_housekeeping' = SweepTime(stamp[t])
    /\ Return(t)
    /\ UNCHANGED <<clock, key, runs, answered>>

(* TransactionStatus::Completed: the cached response is sent again.        *)
CheckCompleted(t) ==
    /\ pc[t] = "checking"
    /\ Swept(stamp[t])[key[t]].tag = "Completed"
    /\ transactions' = Refreshed(Swept(stamp[t]), key[t], stamp[t])
    /\ last_housekeeping' = SweepTime(stamp[t])
    /\ answered' = [answered EXCEPT ![key[t]] = clock]
    /\ Return(t)
    /\ UNCHANGED <<clock, key, runs>>

(* The handler returns Ok; record_response up to the lock.  The response   *)
(* of a key's n-th execution is n.                                         *)
Execute(t) ==
    /\ pc[t] = "executing"
    /\ runs[key[t]] < MaxRuns
    /\ runs' = [runs EXCEPT ![key[t]] = @ + 1]
    /\ response' = [response EXCEPT ![t] = runs[key[t]] + 1]
    /\ stamp' = [stamp EXCEPT ![t] = clock]
    /\ pc' = [pc EXCEPT ![t] = "recording"]
    /\ UNCHANGED <<clock, transactions, last_housekeeping, key, answered>>

(* record_response under the lock.                                         *)
record_response(t) ==
    /\ pc[t] = "recording"
    /\ transactions' = Recorded(transactions, key[t], stamp[t], response[t])
    /\ answered' = [answered EXCEPT ![key[t]] = clock]
    /\ Return(t)
    /\ UNCHANGED <<clock, last_housekeeping, key, runs>>

(* The handler returns Err, before it had any effect: clear.               *)
clear(t) ==
    /\ pc[t] = "executing"
    /\ transactions' = Cleared(transactions, key[t])
    /\ Return(t)
    /\ UNCHANGED <<clock, last_housekeeping, key, runs, answered>>

(* The handler panics: the task is gone and nobody clears the entry.       *)
Panic(t) ==
    /\ MayPanic
    /\ pc[t] = "executing"
    /\ pc' = [pc EXCEPT ![t] = "dead"]
    /\ UNCHANGED <<clock, transactions, last_housekeeping, key, stamp, response, runs, answered>>

(* Time passes, but no caller waits longer than MaxLockWait for the lock.  *)
Tick ==
    /\ clock < MaxTime
    /\ \A t \in Callers :
           pc[t] \in {"checking", "recording"} => clock < stamp[t] + MaxLockWait
    /\ clock' = clock + 1
    /\ UNCHANGED <<transactions, last_housekeeping, pc, key, stamp, response, runs, answered>>

(* SystemTime is not monotonic: the clock is set back.                     *)
SlipBack ==
    /\ ClockMaySlip
    /\ clock > 0
    /\ clock' = clock - 1
    /\ UNCHANGED <<transactions, last_housekeeping, pc, key, stamp, response, runs, answered>>

Next ==
    \/ \E t \in Callers :
           \/ \E k \in Keys : CheckStart(t, k)
           \/ CheckNew(t)
           \/ CheckInProgress(t)
           \/ CheckCompleted(t)
           \/ Execute(t)
           \/ record_response(t)
           \/ clear(t)
           \/ Panic(t)
    \/ Tick
    \/ SlipBack

Spec == Init /\ [][Next]_vars

------------------------------------------------------------------------------
(* Every variable has its type: TransactionState for the table, small      *)
(* integers for the clock readings.                                        *)
TypeOK ==
    /\ clock \in 0..MaxTime
    /\ transactions \in [Keys -> TransactionState]
    /\ last_housekeeping \in 0..MaxTime
    /\ pc \in [Callers -> {"idle", "checking", "executing", "recording", "dead"}]
    /\ key \in [Callers -> Keys]
    /\ stamp \in [Callers -> 0..MaxTime]
    /\ response \in [Callers -> 0..MaxRuns]
    /\ runs \in [Keys -> 0..MaxRuns]
    /\ answered \in [Keys -> 0..MaxTime]

(* The callers whose message passed check as New and is not finished.      *)
Owns(t, k) == pc[t] \in {"executing", "recording", "dead"} /\ key[t] = k

(* Only one instance of a request is processed at a time: whatever sweeps, *)
(* replays, failures and clock changes happen meanwhile, no two workers    *)
(* are ever past check with the same transaction.                          *)
NoConcurrentExecution ==
    \A t, u \in Callers : \A k \in Keys : Owns(t, k) /\ Owns(u, k) => t = u

(* The table is exact: an entry is in progress just when some worker has   *)
(* it, so a failed call never blocks its retries and a running call is     *)
(* never forgotten.  A worker that panicked keeps its entry for ever.      *)
InProgressIsOwned ==
    \A k \in Keys : transactions[k] = InProgress <=> \E t \in Callers : Owns(t, k)

(* A completed entry holds the response of the last execution of its call. *)
CachedIsLatest ==
    \A k \in Keys : transactions[k].tag = "Completed" => transactions[k].response = runs[k]

(* An answer is kept for the retention period, counted from the last time  *)
(* it was given, less the time a caller spent waiting for the lock: no     *)
(* step forgets it (and so lets the call run again) earlier.               *)
Forgets(k) == transactions[k].tag = "Completed" /\ transactions'[k].tag # "Completed"
ForgottenLate ==
    \A k \in Keys : Forgets(k) => clock - answered[k] > Retention - MaxLockWait
RetentionHonoured == [][ForgottenLate]_vars

(* Sweeps happen only now and then, inside check: an entry past its        *)
(* retention may still be replayed, but only for less than one sweep       *)
(* interval more.                                                          *)
Replays(t) ==
    /\ pc[t] = "checking"
    /\ pc'[t] = "idle"
    /\ transactions'[key[t]].tag = "Completed"
ReplayedYoung ==
    \A t \in Callers : Replays(t) =>
        LET age == stamp[t] - transactions[key[t]].completion_time
        IN  age <= Retention \/ age < Retention + HousekeepingInterval
NoStaleReplay == [][ReplayedYoung]_vars

(* The tracker implements the cache its callers rely on.                   *)
Cache == INSTANCE DuplicateRequestCache WITH
    Responses <- 0..MaxRuns,
    cache <- [k \in Keys |->
                 IF transactions[k].tag = "Completed"
                 THEN [tag |-> "Completed", response |-> transactions[k].response]
                 ELSE transactions[k]]
ImplementsCache == Cache!Spec
==============================================================================

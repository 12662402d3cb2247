-------------------------- MODULE IdempotencyStore --------------------------
(***************************************************************************)
(* MemoryCommandIdempotencyStore of aep-service                            *)
(* (crates/aep-service/src/store.rs): every enroll, grant and revoke runs  *)
(* inside execute(), which must run the command once per                   *)
(* (agent DID, idempotency key) and replay its answer for the retention.   *)
(*                                                                         *)
(* A task is one call of execute().  It advances through the points where  *)
(* other calls can run: the std mutex sections and the awaits.  The two    *)
(* records sections read the clock immediately before they lock; no        *)
(* property depends on a tick between, so each is one step.  The call's    *)
(* future can be dropped (client gone, handler timed out) while it is      *)
(* suspended at an await.                                                  *)
(***************************************************************************)
EXTENDS KeyedLock

CONSTANTS
    Inputs,         \* what a call asks for: (command, request hash)
    Cancellable,    \* tasks whose caller may drop the future
    Restored,       \* the records new() starts from: key -> input or None
    FromRestore,    \* the producer of a restored response
    Retention,      \* IDEMPOTENCY_RETENTION, in ticks
    MaxTime         \* bound on the clock

ASSUME CancellableAreTasks == Cancellable \subseteq Tasks
ASSUME NoneIsNoInput == None \notin Inputs
ASSUME RestoredAreInputs == Restored \in [Keys -> Inputs \cup {None}]
ASSUME RestoreIsNoTask == FromRestore \notin Tasks
ASSUME RetentionIsNat == Retention \in Nat
ASSUME MaxTimeIsNat == MaxTime \in Nat

VARIABLES
    records,    \* key -> the stored record, or None
    clock,      \* what Clock::now() returns; it never goes back
    pc,         \* where each call is
    key,        \* the key of each call that has started
    input,      \* the input of each call that has started
    result      \* the answer a call will return, once it is determined

vars == <<locks, arc, owner, records, clock, pc, key, input, result>>
callVars == <<key, input>>

Steps == {"idle", "waiting", "locked", "running", "performed",
          "unlocking", "releasing", "returning", "done"}

\* A stored response is named by the call whose operation produced it.
Records == [input : Inputs, response : Tasks \cup {FromRestore}, created_at : 0..MaxTime]
Results ==
    [kind : {"created", "replayed"}, response : Tasks \cup {FromRestore}, at : 0..MaxTime]
        \cup [kind : {"conflict", "failed", "cancelled"}, at : 0..MaxTime]

Requests == [key : Keys, input : Inputs]

ASSUME NoneIsNoRequest == None \notin Requests
ASSUME NoneIsNoRecord == None \notin Records /\ None \notin Results

TypeOK ==
    /\ LockTypeOK
    /\ records \in [Keys -> Records \cup {None}]
    /\ clock \in 0..MaxTime
    /\ pc \in [Tasks -> Steps]
    /\ key \in [Tasks -> Keys \cup {None}]
    /\ input \in [Tasks -> Inputs \cup {None}]
    /\ result \in [Tasks -> Results \cup {None}]
    /\ \A t \in Tasks : pc[t] # "idle" => key[t] # None /\ input[t] # None

Init ==
    /\ LockInit
    /\ records = [k \in Keys |->
                    IF Restored[k] = None THEN None
                    ELSE [input |-> Restored[k], response |-> FromRestore, created_at |-> 0]]
    /\ clock = 0
    /\ pc = [t \in Tasks |-> "idle"]
    /\ key = [t \in Tasks |-> None]
    /\ input = [t \in Tasks |-> None]
    /\ result = [t \in Tasks |-> None]

----------------------------------------------------------------------------
Goto(t, from, to) == pc[t] \in from /\ pc' = [pc EXCEPT ![t] = to]

Answer(t, r) == result' = [result EXCEPT ![t] = r]

\* A record is still replayable at exactly the age of the retention.
Retained(record, now) == record.created_at + Retention >= now

\* records.retain(..)
Swept(now) ==
    [k \in Keys |->
        IF records[k] # None /\ Retained(records[k], now) THEN records[k] ELSE None]

\* same command and same request hash
Matches(record, t) == record.input = input[t]

----------------------------------------------------------------------------
\* command_lock(&key)
Start(t) ==
    /\ Goto(t, {"idle"}, "waiting")
    /\ \E k \in Keys, i \in Inputs :
        /\ CloneLock(t, k)
        /\ key' = [key EXCEPT ![t] = k]
        /\ input' = [input EXCEPT ![t] = i]
    /\ UNCHANGED <<records, clock, result>>

\* command_lock.lock().await
Acquire(t) ==
    /\ Goto(t, {"waiting"}, "locked")
    /\ LockGuard(t)
    /\ UNCHANGED <<records, clock, result, callVars>>

\* sweep, then look the key up: replay, conflict, or run the operation
Lookup(t) ==
    LET existing == Swept(clock)[key[t]] IN
    /\ pc[t] = "locked"
    /\ records' = Swept(clock)
    /\ \/ /\ existing = None
          /\ Goto(t, {"locked"}, "running")
          /\ UNCHANGED result
       \/ /\ existing # None
          /\ Goto(t, {"locked"}, "unlocking")
          /\ Answer(t, IF Matches(existing, t)
                       THEN [kind |-> "replayed", response |-> existing.response, at |-> clock]
                       ELSE [kind |-> "conflict", at |-> clock])
    /\ UNCHANGED <<lockVars, clock, callVars>>

\* The operation's change to the service's own stores takes effect.
Perform(t) ==
    /\ Goto(t, {"running"}, "performed")
    /\ UNCHANGED <<lockVars, records, clock, result, callVars>>

\* Fault: the record carries the time it expires.
SucceedUntil(t) ==
    /\ Goto(t, {"running", "performed"}, "unlocking")
    /\ records' = [records EXCEPT ![key[t]] =
                    [input |-> input[t], response |-> t, created_at |-> clock + Retention]]
    /\ Answer(t, [kind |-> "created", response |-> t, at |-> clock])
    /\ UNCHANGED <<lockVars, clock, callVars>>

\* operation() returned Ok: the response is stored as of now
Succeed(t) ==
    /\ Goto(t, {"running", "performed"}, "unlocking")
    /\ records' = [records EXCEPT ![key[t]] =
                    [input |-> input[t], response |-> t, created_at |-> clock]]
    /\ Answer(t, [kind |-> "created", response |-> t, at |-> clock])
    /\ UNCHANGED <<lockVars, clock, callVars>>

\* Fault: a failure is stored like a response.
FailStored(t) ==
    /\ Goto(t, {"running", "performed"}, "unlocking")
    /\ records' = [records EXCEPT ![key[t]] =
                    [input |-> input[t], response |-> t, created_at |-> clock]]
    /\ Answer(t, [kind |-> "failed", at |-> clock])
    /\ UNCHANGED <<lockVars, clock, callVars>>

\* operation() returned Err: nothing is stored
Fail(t) ==
    /\ Goto(t, {"running", "performed"}, "unlocking")
    /\ Answer(t, [kind |-> "failed", at |-> clock])
    /\ UNCHANGED <<lockVars, records, clock, callVars>>

\* Fault: the guard outlives its block.
UnlockNothing(t) ==
    /\ Goto(t, {"unlocking"}, "releasing")
    /\ UNCHANGED <<lockVars, records, clock, result, callVars>>

\* end of the block that holds the guard
Unlock(t) ==
    /\ Goto(t, {"unlocking"}, "releasing")
    /\ DropGuard(t)
    /\ UNCHANGED <<records, clock, result, callVars>>

\* release_command_lock(&key, &command_lock)
Release(t) ==
    /\ Goto(t, {"releasing"}, "returning")
    /\ ReleaseLock(t, key[t])
    /\ UNCHANGED <<records, clock, result, callVars>>

\* the frame of execute() is dropped
Return(t) ==
    /\ Goto(t, {"returning"}, "done")
    /\ DropClone(t)
    /\ UNCHANGED <<records, clock, result, callVars>>

\* The future is dropped at an await.  Its locals go in reverse order: the
\* guard here, the clone in Return; release_command_lock never runs.
Cancel(t) ==
    /\ t \in Cancellable
    /\ Goto(t, {"waiting", "running", "performed"}, "returning")
    /\ DropGuard(t)
    /\ Answer(t, [kind |-> "cancelled", at |-> clock])
    /\ UNCHANGED <<records, clock, callVars>>

Tick ==
    /\ clock < MaxTime
    /\ clock' = clock + 1
    /\ UNCHANGED <<lockVars, records, pc, result, callVars>>

\* Everything the executor drives once the call has been made
Progress(t) ==
    \/ Acquire(t) \/ Lookup(t) \/ Perform(t) \/ Succeed(t) \/ Fail(t)
    \/ Unlock(t) \/ Release(t) \/ Return(t)

Next ==
    \/ Tick
    \/ \E t \in Tasks : Start(t) \/ Progress(t) \/ Cancel(t)

Spec == Init /\ [][Next]_vars

\* An unlocked futures mutex wakes a waiter and the executor polls whatever
\* was woken; the operations a command runs terminate.
FairSpec == Spec /\ \A t \in Tasks : WF_vars(Progress(t))

----------------------------------------------------------------------------
InOperation(t) == pc[t] \in {"running", "performed"}
Holding(t)     == pc[t] \in {"locked", "running", "performed", "unlocking"}
\* has its clone and has not yet decided whether the entry may go
Committed(t)   == pc[t] = "waiting" \/ Holding(t) \/ pc[t] = "releasing"

Created(t)  == result[t] # None /\ result[t].kind = "created"
Replayed(t) == result[t] # None /\ result[t].kind = "replayed"

\* Two calls with one key are never both inside their operation, however the
\* lock entries are removed and re-created around them (store.rs:177-202).
OneOperationPerKey ==
    \A t, u \in Tasks :
        InOperation(t) /\ InOperation(u) /\ key[t] = key[u] => t = u

\* Two operations of one key that both completed did so more than a retention
\* apart: within it the second call must have been replayed or refused.
CreatedOncePerRetention ==
    \A t, u \in Tasks :
        Created(t) /\ Created(u) /\ key[t] = key[u] /\ t # u =>
            \/ result[t].at > result[u].at + Retention
            \/ result[u].at > result[t].at + Retention

\* A replayed response was produced for the same key and input, by a call that
\* completed at most a retention before.
ReplaysAreFaithful ==
    \A t \in Tasks : Replayed(t) =>
        LET p == result[t].response IN
        IF p = FromRestore
        THEN Restored[key[t]] = input[t] /\ result[t].at <= Retention
        ELSE /\ Created(p)
             /\ key[p] = key[t] /\ input[p] = input[t]
             /\ result[t].at - result[p].at \in 0..Retention

\* A conflict is only reported to a call whose key was used, within the
\* retention, for another input that completed.
ConflictsAreJustified ==
    \A t \in Tasks : result[t] # None /\ result[t].kind = "conflict" =>
        \/ /\ Restored[key[t]] \notin {None, input[t]}
           /\ result[t].at <= Retention
        \/ \E p \in Tasks :
            /\ Created(p) /\ key[p] = key[t] /\ input[p] # input[t]
            /\ result[t].at - result[p].at \in 0..Retention

\* A stored response is neither replaced nor dropped during its retention.
RetainedRecordsKept ==
    [][\A k \in Keys :
        records[k] # None /\ Retained(records[k], clock) => records'[k] = records[k]]_vars

\* Every call returns, whoever else uses its key, fails or is cancelled.
CallsReturn == \A t \in Tasks : (pc[t] = "waiting") ~> (pc[t] = "done")

\* The claim of the store's unit test: once the last call of a key has released
\* its lock, the table has no entry for the key.
NoAbandonedLock ==
    (\A t \in Tasks : pc[t] \in {"idle", "done"}) => (\A k \in Keys : locks[k] = None)

----------------------------------------------------------------------------
(***************************************************************************)
(* The inductive invariant behind the properties above.                    *)
(***************************************************************************)

\* A call has its clone from the moment it starts until it returns, and no
\* answer until one is determined.
FrameOK ==
    \A t \in Tasks :
        /\ Committed(t) => arc[t] # None
        /\ pc[t] = "idle" => key[t] = None
        /\ (pc[t] \in {"idle", "waiting", "locked"} \/ InOperation(t)) <=> result[t] = None

\* The entry of its key is the mutex of every call that still counts on it.
EntryAgrees == \A t \in Tasks : Committed(t) => locks[key[t]] = arc[t]

HolderOwns == \A t \in Tasks : Holding(t) => owner[arc[t]] = t

\* Nothing is on record for a key while its operation runs.
NoRecordDuringOperation ==
    \A t \in Tasks : InOperation(t) => records[key[t]] = None

\* A completed call is on record until the sweep finds it too old.
CreatedIsRecorded ==
    \A t \in Tasks : Created(t) =>
        /\ result[t].response = t
        /\ result[t].at <= clock
        /\ result[t].at + Retention >= clock =>
            records[key[t]] = [input |-> input[t], response |-> t, created_at |-> result[t].at]

\* Every record is the answer of the call it names, or was restored.
RecordIsAnswer ==
    \A k \in Keys : records[k] # None =>
        LET p == records[k].response IN
        /\ records[k].created_at <= clock
        /\ IF p = FromRestore
           THEN Restored[k] = records[k].input /\ records[k].created_at = 0
           ELSE /\ Created(p) /\ key[p] = k /\ input[p] = records[k].input
                /\ result[p].at = records[k].created_at

LockInv == FrameOK /\ EntryAgrees /\ HolderOwns

StoreInv ==
    /\ NoRecordDuringOperation /\ CreatedIsRecorded /\ RecordIsAnswer
    /\ CreatedOncePerRetention /\ ReplaysAreFaithful /\ ConflictsAreJustified

\* The lock discipline and the bookkeeping of records, taken together: every
\* step preserves it (store.rs:206-249).
IInv == TypeOK /\ LockInv /\ StoreInv

----------------------------------------------------------------------------
\* Sweeping late is invisible: the store behaves as if a record disappeared the
\* moment it outlives its retention, and as if a call were answered in one step.
Commands == INSTANCE IdempotentCommands WITH
    memo <- Swept(clock),
    now <- clock,
    request <- [t \in Tasks |->
                 IF key[t] = None THEN None ELSE [key |-> key[t], input |-> input[t]]],
    answer <- result

\* Every behaviour of the store is one of IdempotentCommands.
AnswersAtomically == Commands!Spec

============================================================================

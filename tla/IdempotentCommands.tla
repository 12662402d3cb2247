------------------------- MODULE IdempotentCommands -------------------------
(***************************************************************************)
(* What the command idempotency store promises its callers, with no locks, *)
(* no table and no sweeping: a call is answered in one step, by running    *)
(* its operation when its key has no answer on record, and from the record *)
(* otherwise; a record disappears exactly when it outlives its retention.  *)
(***************************************************************************)
EXTENDS Naturals

CONSTANTS Tasks, Keys, Inputs, None, Restored, FromRestore, Retention, MaxTime

VARIABLES
    memo,       \* key -> the answer on record, or None
    now,        \* the time
    request,    \* task -> [key, input], or None before it asked
    answer      \* task -> its answer, or None

avars == <<memo, now, request, answer>>

Init ==
    /\ memo = [k \in Keys |->
                 IF Restored[k] = None THEN None
                 ELSE [input |-> Restored[k], response |-> FromRestore, created_at |-> 0]]
    /\ now = 0
    /\ request = [t \in Tasks |-> None]
    /\ answer = [t \in Tasks |-> None]

Pending(t) == request[t] # None /\ answer[t] = None

Ask(t) ==
    /\ request[t] = None
    /\ \E k \in Keys, i \in Inputs :
        request' = [request EXCEPT ![t] = [key |-> k, input |-> i]]
    /\ UNCHANGED <<memo, now, answer>>

\* no answer on record: run the operation and record its answer
Execute(t) ==
    /\ Pending(t)
    /\ memo[request[t].key] = None
    /\ memo' = [memo EXCEPT ![request[t].key] =
                 [input |-> request[t].input, response |-> t, created_at |-> now]]
    /\ answer' = [answer EXCEPT ![t] = [kind |-> "created", response |-> t, at |-> now]]
    /\ UNCHANGED <<now, request>>

Replay(t) ==
    /\ Pending(t)
    /\ memo[request[t].key] # None
    /\ memo[request[t].key].input = request[t].input
    /\ answer' = [answer EXCEPT ![t] =
                    [kind |-> "replayed", response |-> memo[request[t].key].response,
                     at |-> now]]
    /\ UNCHANGED <<memo, now, request>>

Refuse(t) ==
    /\ Pending(t)
    /\ memo[request[t].key] # None
    /\ memo[request[t].key].input # request[t].input
    /\ answer' = [answer EXCEPT ![t] = [kind |-> "conflict", at |-> now]]
    /\ UNCHANGED <<memo, now, request>>

\* the operation fails, or its caller goes away: nothing is recorded
GiveUp(t) ==
    /\ Pending(t)
    /\ \E k \in {"failed", "cancelled"} :
        answer' = [answer EXCEPT ![t] = [kind |-> k, at |-> now]]
    /\ UNCHANGED <<memo, now, request>>

Advance ==
    /\ now < MaxTime
    /\ now' = now + 1
    /\ memo' = [k \in Keys |->
                 IF memo[k] # None /\ memo[k].created_at + Retention >= now + 1
                 THEN memo[k] ELSE None]
    /\ UNCHANGED <<request, answer>>

Next ==
    \/ Advance
    \/ \E t \in Tasks : Ask(t) \/ Execute(t) \/ Replay(t) \/ Refuse(t) \/ GiveUp(t)

Spec == Init /\ [][Next]_avars

============================================================================

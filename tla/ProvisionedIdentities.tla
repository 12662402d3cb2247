----------------------- MODULE ProvisionedIdentities -----------------------
(***************************************************************************)
(* What a Platform promises those who provision, with no locks, no indexes *)
(* and no calls that overlap: a scope has no identity or one that stays,   *)
(* made of material that is nobody else's and has a key; a call is         *)
(* answered in one step, with the identity of its scope or a refusal when  *)
(* its key has no answer on record, and from the record otherwise.         *)
(***************************************************************************)

CONSTANTS Tasks, Keys, IdempotencyKeys, Materials, None

VARIABLES
    identity,   \* scope -> material or None
    keyed,      \* the materials that have a key
    memo,       \* idempotency key -> [scope, answer] on record, or None
    request,    \* task -> [scope, key], or None before it asked
    answer      \* task -> its answer, or None

pvars == <<identity, keyed, memo, request, answer>>

Init ==
    /\ identity = [s \in Keys |-> None]
    /\ keyed = {}
    /\ memo = [k \in IdempotencyKeys |-> None]
    /\ request = [t \in Tasks |-> None]
    /\ answer = [t \in Tasks |-> None]

Ask(t) ==
    /\ request[t] = None
    /\ \E s \in Keys, k \in IdempotencyKeys :
        request' = [request EXCEPT ![t] = [scope |-> s, key |-> k]]
    /\ UNCHANGED <<identity, keyed, memo, answer>>

\* has asked, and nothing is on record for its key
Asking(t) == request[t] # None /\ answer[t] = None /\ memo[request[t].key] = None

\* a key is made for a scope without an identity, whether or not it becomes one
MakeKey(t) ==
    /\ Asking(t)
    /\ identity[request[t].scope] = None
    /\ \E m \in Materials : keyed' = keyed \cup {m}
    /\ UNCHANGED <<identity, memo, request, answer>>

\* the scope gets its identity
Create(t) ==
    /\ Asking(t)
    /\ identity[request[t].scope] = None
    /\ \E m \in keyed :
        /\ \A s \in Keys : identity[s] # m
        /\ identity' = [identity EXCEPT ![request[t].scope] = m]
    /\ UNCHANGED <<keyed, memo, request, answer>>

Answered(t, a) == answer' = [answer EXCEPT ![t] = a]

\* the answer is recorded: the identity of the scope, or that its Service is not one
Provision(t) ==
    /\ Asking(t)
    /\ \E a \in {identity[request[t].scope], "invalid"} \ {None} :
        /\ Answered(t, a)
        /\ memo' = [memo EXCEPT ![request[t].key] = [scope |-> request[t].scope, answer |-> a]]
    /\ UNCHANGED <<identity, keyed, request>>

\* what is on record is repeated, and for another scope refused
Repeat(t) ==
    /\ request[t] # None /\ answer[t] = None
    /\ LET stored == memo[request[t].key] IN
        /\ stored # None
        /\ Answered(t, IF stored.scope = request[t].scope THEN stored.answer ELSE "conflict")
    /\ UNCHANGED <<identity, keyed, memo, request>>

\* something fails, or the caller goes away: nothing is recorded
GiveUp(t) ==
    /\ request[t] # None /\ answer[t] = None
    /\ \E a \in {"failed", "cancelled"} : Answered(t, a)
    /\ UNCHANGED <<identity, keyed, memo, request>>

Next ==
    \E t \in Tasks :
        Ask(t) \/ MakeKey(t) \/ Create(t) \/ Provision(t) \/ Repeat(t) \/ GiveUp(t)

Spec == Init /\ [][Next]_pvars

=============================================================================

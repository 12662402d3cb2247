--------------------------- MODULE MCCallsReturn ---------------------------
(***************************************************************************)
(* Everything that is to return, side by side, for TLC: the wait of an     *)
(* Agent, and the calls of the two users of KeyedLock, the Service's       *)
(* idempotency store and those that provision at the Platform.  They share *)
(* nothing, so one of them runs.                                           *)
(***************************************************************************)
EXTENDS AgentWait, TLC

CONSTANTS Tasks, Mutexes, Cancellable, FromRestore, k1, i1, Scopes, IdempotencyKeys, Materials

VARIABLES locks, arc, owner, records, clock, sPc, sKey, input, result

sVars == <<locks, arc, owner, records, clock, sPc, sKey, input, result>>

\* whether a call returns does not depend on how old the records are: no time passes
Service == INSTANCE IdempotencyStore
    WITH Keys <- {k1}, Inputs <- {i1}, Restored <- [k \in {k1} |-> None],
         Retention <- 1, MaxTime <- 0, pc <- sPc, key <- sKey

VARIABLES pLocks, pArc, pOwner, byScope, identities, created, memo, pPc, scope, ikey, made, answer

pVars == <<pLocks, pArc, pOwner, byScope, identities, created, memo, pPc, scope, ikey, made, answer>>

Platform == INSTANCE PlatformProvisioning
    WITH Keys <- Scopes, locks <- pLocks, arc <- pArc, owner <- pOwner, pc <- pPc

Idle(at) == \A t \in Tasks : at[t] = "idle"

NoWait == pc = "idle" /\ now = 0 /\ ~resolves /\ context = CHOOSE x \in Contexts : TRUE

NoCall == Idle(sPc) /\ clock = 0

MCInit == Init /\ Service!Init /\ Platform!Init

MCNext ==
    \/ NoCall /\ Idle(pPc) /\ Next /\ UNCHANGED <<sVars, pVars>>
    \/ NoWait /\ Idle(pPc) /\ Service!Next /\ UNCHANGED <<vars, pVars>>
    \/ NoWait /\ NoCall /\ Platform!Next /\ UNCHANGED <<vars, sVars>>

MCSpec ==
    /\ MCInit
    /\ [][MCNext]_<<vars, sVars, pVars>>
    /\ WF_vars(Progress)
    /\ \A t \in Tasks : WF_sVars(Service!Progress(t)) /\ WF_pVars(Platform!Progress(t))

\* Every call of the Service's store returns, and every provision.

CallsReturn == Service!CallsReturn
ProvisionsReturn == Platform!ProvisionsReturn
=============================================================================

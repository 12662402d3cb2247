------------------------ MODULE PlatformProvisioning ------------------------
(***************************************************************************)
(* Provisioning in aep-platform: provision and create_identity             *)
(* (crates/aep-platform/src/platform.rs) inside the idempotency store, and *)
(* MemoryIdentityStore::find_or_create (store.rs), which must create one   *)
(* identity per scope (principal, service DID) whatever calls run at once. *)
(*                                                                         *)
(* The keys of the lock table are the scopes.  A call holds its scope lock *)
(* inside the lock of its idempotency key; that outer lock is the same     *)
(* code as IdempotencyStore's, and is reduced here to what is proved of it *)
(* there: one call per key at a time.  Records outlive the run.            *)
(*                                                                         *)
(* A material stands for the generated identifiers of an identity, which   *)
(* the store requires to be new one by one, and for its signing key.       *)
(***************************************************************************)
EXTENDS KeyedLock

CONSTANTS
    IdempotencyKeys,
    Materials,      \* what the generators can come up with
    Cancellable     \* calls whose caller may drop the future

ASSUME CancellableAreTasks == Cancellable \subseteq Tasks
ASSUME NoneIsNoMaterial == None \notin Materials

VARIABLES
    byScope,    \* the by_scope index: scope -> material or None
    identities, \* the records: material -> its scope, or None
    created,    \* the materials the key store has a key for
    memo,       \* idempotency key -> [scope, answer] of the stored response, or None
    pc,         \* where each call is
    scope,      \* the scope each call provisions, or None
    ikey,       \* its idempotency key, or None
    made,       \* the material it has generated, or None
    answer      \* what it answers, once that is determined, or None

vars == <<locks, arc, owner, byScope, identities, created, memo, pc, scope, ikey, made, answer>>
storeVars == <<byScope, identities, created, memo>>

Steps == {"idle", "queued", "resolving", "waiting", "locked", "creating", "created",
          "unlocking", "releasing", "returning", "answered", "dropping", "done"}

\* A success is named by the material of the identity it returns.
Answers == Materials \cup {"invalid", "failed", "conflict", "cancelled"}
Memos == [scope : Keys, answer : Materials \cup {"invalid"}]

ASSUME MaterialsAreNames == Materials \cap {"invalid", "failed", "conflict", "cancelled"} = {}
ASSUME NoneIsNoAnswer == None \notin Answers \cup Memos
ASSUME NoneIsNoRequest == None \notin [scope : Keys, key : IdempotencyKeys]

TypeOK ==
    /\ LockTypeOK
    /\ byScope \in [Keys -> Materials \cup {None}]
    /\ identities \in [Materials -> Keys \cup {None}]
    /\ created \subseteq Materials
    /\ memo \in [IdempotencyKeys -> Memos \cup {None}]
    /\ pc \in [Tasks -> Steps]
    /\ scope \in [Tasks -> Keys \cup {None}]
    /\ ikey \in [Tasks -> IdempotencyKeys \cup {None}]
    /\ made \in [Tasks -> Materials \cup {None}]
    /\ answer \in [Tasks -> Answers \cup {None}]

Init ==
    /\ LockInit
    /\ byScope = [s \in Keys |-> None]
    /\ identities = [m \in Materials |-> None]
    /\ created = {}
    /\ memo = [k \in IdempotencyKeys |-> None]
    /\ pc = [t \in Tasks |-> "idle"]
    /\ scope = [t \in Tasks |-> None]
    /\ ikey = [t \in Tasks |-> None]
    /\ made = [t \in Tasks |-> None]
    /\ answer = [t \in Tasks |-> None]

----------------------------------------------------------------------------
Goto(t, from, to) == pc[t] \in from /\ pc' = [pc EXCEPT ![t] = to]

Answer(t, a) == answer' = [answer EXCEPT ![t] = a]

Inside(t) == pc[t] \notin {"idle", "queued", "done"}

\* validated and authorized
Start(t) ==
    /\ Goto(t, {"idle"}, "queued")
    /\ \E s \in Keys : scope' = [scope EXCEPT ![t] = s]
    /\ \E k \in IdempotencyKeys : ikey' = [ikey EXCEPT ![t] = k]
    /\ UNCHANGED <<lockVars, storeVars, made, answer>>

\* the idempotency store runs the operation, replays or refuses
Enter(t) ==
    LET stored == memo[ikey[t]] IN
    /\ pc[t] = "queued"
    /\ ~\E u \in Tasks : Inside(u) /\ ikey[u] = ikey[t]
    /\ \/ /\ stored = None
          /\ Goto(t, {"queued"}, "resolving")
          /\ UNCHANGED answer
       \/ /\ stored # None
          /\ Goto(t, {"queued"}, "done")
          /\ Answer(t, IF stored.scope = scope[t] THEN stored.answer ELSE "conflict")
    /\ UNCHANGED <<lockVars, storeVars, scope, ikey, made>>

\* the service DID resolves; scope_lock(&key)
Resolve(t) ==
    /\ Goto(t, {"resolving"}, "waiting")
    /\ CloneLock(t, scope[t])
    /\ UNCHANGED <<storeVars, scope, ikey, made, answer>>

\* it does not, or the resolver fails
Unresolved(t) ==
    /\ Goto(t, {"resolving"}, "answered")
    /\ \E a \in {"invalid", "failed"} : Answer(t, a)
    /\ UNCHANGED <<lockVars, storeVars, scope, ikey, made>>

\* scope_lock.lock().await
Acquire(t) ==
    /\ Goto(t, {"waiting"}, "locked")
    /\ LockGuard(t)
    /\ UNCHANGED <<storeVars, scope, ikey, made, answer>>

\* by_scope is looked up
Find(t) ==
    /\ \/ /\ Goto(t, {"locked"}, "unlocking")
          /\ byScope[scope[t]] # None
          /\ Answer(t, byScope[scope[t]])
       \/ /\ Goto(t, {"locked"}, "creating")
          /\ byScope[scope[t]] = None
          /\ UNCHANGED answer
    /\ UNCHANGED <<lockVars, storeVars, scope, ikey, made>>

\* create_identity: identifiers are generated, then the key store makes a key
CreateKey(t) ==
    /\ Goto(t, {"creating"}, "created")
    /\ \E m \in Materials :
        /\ made' = [made EXCEPT ![t] = m]
        /\ created' = created \cup {m}
    /\ UNCHANGED <<lockVars, byScope, identities, memo, scope, ikey, answer>>

\* a generator fails, or the key store does, which may have made the key
CreateFails(t) ==
    /\ Goto(t, {"creating"}, "unlocking")
    /\ Answer(t, "failed")
    /\ \/ UNCHANGED created
       \/ \E m \in Materials : created' = created \cup {m}
    /\ UNCHANGED <<lockVars, byScope, identities, memo, scope, ikey, made>>

\* Fault: material in use is not refused.
InsertOver(t) ==
    /\ Goto(t, {"created"}, "unlocking")
    /\ byScope' = [byScope EXCEPT ![scope[t]] = made[t]]
    /\ identities' = [identities EXCEPT ![made[t]] = scope[t]]
    /\ Answer(t, made[t])
    /\ UNCHANGED <<lockVars, created, memo, scope, ikey, made>>

\* the records and their indexes, in one critical section
Insert(t) ==
    /\ Goto(t, {"created"}, "unlocking")
    /\ \/ /\ identities[made[t]] # None
          /\ Answer(t, "failed")
          /\ UNCHANGED <<byScope, identities>>
       \/ /\ identities[made[t]] = None
          /\ byScope' = [byScope EXCEPT ![scope[t]] = made[t]]
          /\ identities' = [identities EXCEPT ![made[t]] = scope[t]]
          /\ Answer(t, made[t])
    /\ UNCHANGED <<lockVars, created, memo, scope, ikey, made>>

\* Fault: the guard is kept until the response is stored.
UnlockNothing(t) ==
    /\ Goto(t, {"unlocking"}, "releasing")
    /\ UNCHANGED <<lockVars, storeVars, scope, ikey, made, answer>>

Unlock(t) ==
    /\ Goto(t, {"unlocking"}, "releasing")
    /\ DropGuard(t)
    /\ UNCHANGED <<storeVars, scope, ikey, made, answer>>

\* release_scope_lock(&key, &scope_lock)
Release(t) ==
    /\ Goto(t, {"releasing"}, "returning")
    /\ ReleaseLock(t, scope[t])
    /\ UNCHANGED <<storeVars, scope, ikey, made, answer>>

\* find_or_create returns
Return(t) ==
    /\ Goto(t, {"returning"}, "answered")
    /\ DropClone(t)
    /\ UNCHANGED <<storeVars, scope, ikey, made, answer>>

\* a response, a problem included, is stored under the idempotency key
Store(t) ==
    /\ Goto(t, {"answered"}, "done")
    /\ memo' = IF answer[t] = "failed" THEN memo
               ELSE [memo EXCEPT ![ikey[t]] = [scope |-> scope[t], answer |-> answer[t]]]
    /\ UNCHANGED <<lockVars, byScope, identities, created, scope, ikey, made, answer>>

\* The future is dropped at an await: before the scope lock ...
CancelEarly(t) ==
    /\ t \in Cancellable
    /\ Goto(t, {"queued", "resolving"}, "done")
    /\ Answer(t, "cancelled")
    /\ UNCHANGED <<lockVars, storeVars, scope, ikey, made>>

\* ... or after: the guard goes, then the clone, and release_scope_lock never runs
Cancel(t) ==
    /\ t \in Cancellable
    /\ Goto(t, {"waiting", "creating", "created"}, "dropping")
    /\ Answer(t, "cancelled")
    /\ DropGuard(t)
    /\ UNCHANGED <<storeVars, scope, ikey, made>>

Drop(t) ==
    /\ Goto(t, {"dropping"}, "done")
    /\ DropClone(t)
    /\ UNCHANGED <<storeVars, scope, ikey, made, answer>>

Progress(t) ==
    \/ Enter(t) \/ Resolve(t) \/ Unresolved(t) \/ Acquire(t) \/ Find(t)
    \/ CreateKey(t) \/ CreateFails(t) \/ Insert(t)
    \/ Unlock(t) \/ Release(t) \/ Return(t) \/ Store(t) \/ Drop(t)

Next == \E t \in Tasks : Start(t) \/ Progress(t) \/ CancelEarly(t) \/ Cancel(t)

Spec == Init /\ [][Next]_vars

\* Unlocked mutexes wake a waiter; resolver, generators and key store answer.
FairSpec == Spec /\ \A t \in Tasks : WF_vars(Progress(t))

----------------------------------------------------------------------------
Provisioned(t) == answer[t] \in Materials

\* The records and the scope index agree: a scope has one identity and an identity
\* one scope, whatever calls, keys and cancellations run into each other
\* (store.rs:79-141).
OneIdentityPerScope ==
    /\ \A m \in Materials : identities[m] # None => byScope[identities[m]] = m
    /\ \A s \in Keys : byScope[s] # None => identities[byScope[s]] = s

\* Provisions that succeed, first, repeated or replayed, return the same identity
\* exactly when they are of the same scope, and one that has a key
\* (platform.rs:240-298, 582-615).
ProvisionsAgree ==
    \A t, u \in Tasks : Provisioned(t) /\ Provisioned(u) =>
        /\ (answer[t] = answer[u]) <=> (scope[t] = scope[u])
        /\ answer[t] \in created

\* A key is refused only when another call of it has answered for another scope:
\* one that failed or was cancelled is free again (platform.rs:670-717).
ConflictsAreReal ==
    \A t \in Tasks : answer[t] = "conflict" =>
        \E u \in Tasks : /\ ikey[u] = ikey[t] /\ scope[u] # scope[t]
                         /\ pc[u] = "done" /\ answer[u] \in Materials \cup {"invalid"}

\* Every provision returns, though it waits for two locks (platform.rs:279,
\* store.rs:93).
ProvisionsReturn == \A t \in Tasks : (pc[t] = "queued") ~> (pc[t] = "done")

----------------------------------------------------------------------------
\* What the calls promise together: a scope gets its identity where its record is
\* inserted, and a call is answered where its response is stored, or where it is given up.
Promise == INSTANCE ProvisionedIdentities WITH
    identity <- byScope,
    keyed    <- created,
    request  <- [t \in Tasks |->
                    IF pc[t] = "idle" THEN None ELSE [scope |-> scope[t], key |-> ikey[t]]],
    answer   <- [t \in Tasks |-> IF pc[t] \in {"dropping", "done"} THEN answer[t] ELSE None]

\* Every behaviour of these calls, with their locks, records and cancellations, is one of
\* ProvisionedIdentities, where each takes effect in one step (platform.rs:240-298,
\* 582-615; store.rs:79-141).
ProvisionsAtomically == Promise!Spec

=============================================================================

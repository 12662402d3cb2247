--------------------- MODULE PlatformProvisioningProofs ---------------------
(***************************************************************************)
(* Proofs about PlatformProvisioning, for every number of calls, scopes,   *)
(* idempotency keys and materials, and whichever calls may be dropped; and *)
(* about PlatformExchange, for any configurations and any bounds.          *)
(***************************************************************************)
EXTENDS PlatformIdentities, FiniteSetTheorems, TLAPS

USE DEF lockVars, storeVars, Goto, Answer

----------------------------------------------------------------------------
(***************************************************************************)
(* Type correctness.                                                       *)
(***************************************************************************)

\* waits for the lock of its scope, holds it, or has still to release it
Relying(t) == pc[t] \in {"waiting", "locked", "creating", "created", "unlocking", "releasing"}

Holding(t) == pc[t] \in {"locked", "creating", "created", "unlocking"}

Undetermined == {"idle", "queued", "resolving", "waiting", "locked", "creating", "created"}

\* what a call has when it has got so far
FrameOf(t) ==
    /\ pc[t] # "idle" => scope[t] \in Keys /\ ikey[t] \in IdempotencyKeys
    /\ Relying(t) => arc[t] # None
    /\ pc[t] = "created" => made[t] \in created
    /\ pc[t] \in Undetermined => answer[t] = None
    /\ pc[t] \in {"unlocking", "releasing", "returning", "answered"} =>
        answer[t] \in Materials \cup {"invalid", "failed"}

Frames == TypeOK /\ \A t \in Tasks : FrameOf(t)

\* The initial state is well typed.
LEMMA InitFrames == Init => Frames
BY DEF Init, LockInit, TypeOK, LockTypeOK, Steps, Frames, FrameOf, Relying

\* Every step keeps the types.
LEMMA NextType == Frames /\ [Next]_vars => TypeOK'
<1> SUFFICES ASSUME Frames, [Next]_vars PROVE TypeOK'
  OBVIOUS
<1> USE DEF TypeOK, LockTypeOK, Steps, Frames, FrameOf
<1>1. ASSUME NEW t \in Tasks, Start(t) PROVE TypeOK'
  BY <1>1 DEF Start
<1>2. ASSUME NEW t \in Tasks, Enter(t) PROVE TypeOK'
  <2>1. CASE UNCHANGED answer
    BY <1>2, <2>1 DEF Enter
  <2>2. CASE /\ memo[ikey[t]] # None
             /\ answer' = [answer EXCEPT ![t] =
                  IF memo[ikey[t]].scope = scope[t] THEN memo[ikey[t]].answer ELSE "conflict"]
    <3>1. memo[ikey[t]] \in Memos
      BY <1>2, <2>2 DEF Enter
    <3>2. memo[ikey[t]].answer \in Answers
      BY <3>1 DEF Memos, Answers
    <3>3. QED
      BY <1>2, <2>2, <3>2 DEF Enter, Answers
  <2>3. QED
    BY <1>2, <2>1, <2>2 DEF Enter
<1>3. ASSUME NEW t \in Tasks, Resolve(t) PROVE TypeOK'
  BY <1>3 DEF Resolve, CloneLock
<1>4. ASSUME NEW t \in Tasks, Unresolved(t) PROVE TypeOK'
  BY <1>4 DEF Unresolved, Answers
<1>5. ASSUME NEW t \in Tasks, Acquire(t) PROVE TypeOK'
  BY <1>5 DEF Acquire, LockGuard
<1>6. ASSUME NEW t \in Tasks, Find(t) PROVE TypeOK'
  BY <1>6 DEF Find, Answers
<1>7. ASSUME NEW t \in Tasks, CreateKey(t) PROVE TypeOK'
  BY <1>7 DEF CreateKey
<1>8. ASSUME NEW t \in Tasks, CreateFails(t) PROVE TypeOK'
  BY <1>8 DEF CreateFails, Answers
<1>9. ASSUME NEW t \in Tasks, Insert(t) PROVE TypeOK'
  BY <1>9 DEF Insert, Answers
<1>10. ASSUME NEW t \in Tasks, Unlock(t) \/ Release(t) \/ Return(t) \/ Drop(t) PROVE TypeOK'
  BY <1>10 DEF Unlock, DropGuard, Release, ReleaseLock, Return, DropClone, Drop
<1>11. ASSUME NEW t \in Tasks, Store(t) PROVE TypeOK'
  BY <1>11 DEF Store, Memos, Answers
<1>12. ASSUME NEW t \in Tasks, CancelEarly(t) \/ Cancel(t) PROVE TypeOK'
  BY <1>12 DEF CancelEarly, Cancel, DropGuard, Answers
<1>13. CASE UNCHANGED vars
  BY <1>13 DEF vars
<1>14. QED
  BY <1>1, <1>2, <1>3, <1>4, <1>5, <1>6, <1>7, <1>8, <1>9, <1>10, <1>11, <1>12, <1>13
  DEF Next, Progress

\* What one call has is changed by no other.
LEMMA NextFrames == Frames /\ [Next]_vars => Frames'
<1> SUFFICES ASSUME Frames, [Next]_vars PROVE Frames'
  OBVIOUS
<1>0. TypeOK'
  BY NextType
<1> SUFFICES \A u \in Tasks : FrameOf(u)'
  BY <1>0 DEF Frames
<1> USE DEF TypeOK, LockTypeOK, Steps, Frames, FrameOf, Relying, Undetermined
<1>1. ASSUME NEW t \in Tasks, Start(t) PROVE \A u \in Tasks : FrameOf(u)'
  BY <1>1 DEF Start
<1>2. ASSUME NEW t \in Tasks, Enter(t) PROVE \A u \in Tasks : FrameOf(u)'
  BY <1>2 DEF Enter
<1>3. ASSUME NEW t \in Tasks, Resolve(t) PROVE \A u \in Tasks : FrameOf(u)'
  BY <1>3, NoneIsNoMutex DEF Resolve, CloneLock
<1>4. ASSUME NEW t \in Tasks, Unresolved(t) PROVE \A u \in Tasks : FrameOf(u)'
  BY <1>4 DEF Unresolved
<1>5. ASSUME NEW t \in Tasks, Acquire(t) PROVE \A u \in Tasks : FrameOf(u)'
  BY <1>5 DEF Acquire, LockGuard
<1>6. ASSUME NEW t \in Tasks, Find(t) PROVE \A u \in Tasks : FrameOf(u)'
  BY <1>6 DEF Find
<1>7. ASSUME NEW t \in Tasks, CreateKey(t) PROVE \A u \in Tasks : FrameOf(u)'
  BY <1>7 DEF CreateKey
<1>8. ASSUME NEW t \in Tasks, CreateFails(t) PROVE \A u \in Tasks : FrameOf(u)'
  BY <1>8 DEF CreateFails
<1>9. ASSUME NEW t \in Tasks, Insert(t) PROVE \A u \in Tasks : FrameOf(u)'
  BY <1>9 DEF Insert
<1>10. ASSUME NEW t \in Tasks, Unlock(t) \/ Release(t) PROVE \A u \in Tasks : FrameOf(u)'
  BY <1>10 DEF Unlock, DropGuard, Release, ReleaseLock
<1>11. ASSUME NEW t \in Tasks, Return(t) \/ Drop(t) PROVE \A u \in Tasks : FrameOf(u)'
  BY <1>11 DEF Return, DropClone, Drop
<1>12. ASSUME NEW t \in Tasks, Store(t) PROVE \A u \in Tasks : FrameOf(u)'
  BY <1>12 DEF Store
<1>13. ASSUME NEW t \in Tasks, CancelEarly(t) \/ Cancel(t) PROVE \A u \in Tasks : FrameOf(u)'
  BY <1>13 DEF CancelEarly, Cancel, DropGuard
<1>14. CASE UNCHANGED vars
  BY <1>14 DEF vars
<1>15. QED
  BY <1>1, <1>2, <1>3, <1>4, <1>5, <1>6, <1>7, <1>8, <1>9, <1>10, <1>11, <1>12, <1>13, <1>14
  DEF Next, Progress

\* Every state of the Platform is well typed.
THEOREM TypeCorrect == Spec => []TypeOK
<1>1. Frames => TypeOK
  BY DEF Frames
<1>2. QED
  BY <1>1, InitFrames, NextFrames, PTL DEF Spec

----------------------------------------------------------------------------
(***************************************************************************)
(* The lock of a scope.  Its entry is removed only by the one call that    *)
(* still has a clone, so all calls that rely on it have the same mutex.    *)
(***************************************************************************)

\* strong_count = 2 with the entry in the table leaves no other clone.
LEMMA SoleUser ==
    ASSUME NEW t \in Tasks, NEW k \in Keys, LastUser(t, k), NEW u \in Tasks, u # t
    PROVE  arc[u] # arc[t]
<1> SUFFICES ASSUME arc[u] = arc[t] PROVE FALSE
  OBVIOUS
<1> DEFINE E == EntriesOf(arc[t])
           C == ClonesOf(arc[t])
<1>1. IsFiniteSet(E) /\ IsFiniteSet(C)
  BY TasksFinite, KeysFinite, FS_Subset DEF EntriesOf, ClonesOf
<1>2. k \in E /\ t \in C /\ u \in C
  BY DEF EntriesOf, ClonesOf, LastUser
<1>3. Cardinality(E) \in Nat \ {0} /\ Cardinality(C) \in Nat \ {0}
  BY <1>1, <1>2, FS_CardinalityType, FS_EmptySet
<1>4. ~ \E x : C = {x}
  BY <1>2
<1>5. Cardinality(C) # 1
  BY <1>1, <1>4, FS_Singleton
<1>6. Cardinality(E) + Cardinality(C) = 2
  BY DEF LastUser, StrongCount
<1>7. QED
  BY <1>3, <1>5, <1>6

EntryAgrees == \A t \in Tasks : Relying(t) => locks[scope[t]] = arc[t]

HolderOwns == \A t \in Tasks : Holding(t) => owner[arc[t]] = t

LockInv == EntryAgrees /\ HolderOwns

\* A call that holds the lock of a scope is the only one.
LEMMA OneHolder ==
    ASSUME LockInv, NEW t \in Tasks, NEW u \in Tasks,
           Holding(t), Holding(u), scope[t] = scope[u]
    PROVE  t = u
BY DEF LockInv, EntryAgrees, HolderOwns, Holding, Relying

\* Nobody relies on a lock at first.
LEMMA InitLock == Init => LockInv
BY DEF Init, LockInit, LockInv, EntryAgrees, HolderOwns, Relying, Holding

\* Every step keeps the lock discipline.
LEMMA NextLock == Frames /\ LockInv /\ [Next]_vars => LockInv'
<1> SUFFICES ASSUME Frames, LockInv, [Next]_vars PROVE LockInv'
  OBVIOUS
<1>t. TypeOK /\ LockTypeOK
  BY DEF Frames, TypeOK
<1>k. \A t \in Tasks : pc[t] # "idle" => scope[t] \in Keys
  BY DEF Frames, FrameOf
<1>a. \A t \in Tasks : Relying(t) => arc[t] # None /\ arc[t] \in Mutexes
  BY <1>t DEF Frames, FrameOf, LockTypeOK
<1> USE DEF LockInv, EntryAgrees, HolderOwns, Relying, Holding
<1>1. ASSUME NEW t \in Tasks, Resolve(t) PROVE LockInv'
  <2>1. PICK m \in Mutexes :
            /\ IF locks[scope[t]] = None THEN ~Allocated(m) ELSE m = locks[scope[t]]
            /\ locks' = [locks EXCEPT ![scope[t]] = m]
            /\ arc' = [arc EXCEPT ![t] = m]
            /\ UNCHANGED owner
    BY <1>1 DEF Resolve, CloneLock
  <2>2. pc[t] = "resolving" /\ pc' = [pc EXCEPT ![t] = "waiting"] /\ scope' = scope
    BY <1>1 DEF Resolve
  <2>3. ASSUME NEW u \in Tasks, Relying(u)' PROVE locks'[scope[u]] = arc'[u]
    <3>1. CASE u = t
      BY <1>t, <1>k, <2>1, <2>2, <3>1 DEF LockTypeOK
    <3>2. CASE u # t
      <4>1. Relying(u) /\ arc'[u] = arc[u]
        BY <1>t, <2>1, <2>2, <2>3, <3>2 DEF TypeOK, LockTypeOK
      <4>2. locks'[scope[u]] = locks[scope[u]]
        BY <1>t, <1>a, <1>k, <2>1, <2>2, <4>1 DEF LockTypeOK
      <4>3. QED
        BY <4>1, <4>2
    <3>3. QED
      BY <3>1, <3>2
  <2>4. HolderOwns'
    BY <1>t, <2>1, <2>2 DEF TypeOK, LockTypeOK
  <2>5. QED
    BY <2>2, <2>3, <2>4
<1>2. ASSUME NEW t \in Tasks, Acquire(t) PROVE LockInv'
  <2>1. owner[arc[t]] = None /\ owner' = [owner EXCEPT ![arc[t]] = t]
        /\ UNCHANGED <<locks, arc, scope>>
        /\ pc[t] = "waiting" /\ pc' = [pc EXCEPT ![t] = "locked"]
    BY <1>2 DEF Acquire, LockGuard
  <2>2. HolderOwns'
    BY <1>t, <1>a, <2>1, NoneIsNoTask DEF TypeOK, LockTypeOK
  <2>3. QED
    BY <1>t, <2>1, <2>2 DEF TypeOK
<1>3. ASSUME NEW t \in Tasks, Unlock(t) \/ Cancel(t) PROVE LockInv'
  <2>1. /\ owner' = [m \in Mutexes |-> IF owner[m] = t THEN None ELSE owner[m]]
        /\ UNCHANGED <<locks, arc, scope>>
        /\ \/ pc[t] = "unlocking" /\ pc' = [pc EXCEPT ![t] = "releasing"]
           \/ pc' = [pc EXCEPT ![t] = "dropping"]
    BY <1>3 DEF Unlock, Cancel, DropGuard
  <2>2. QED
    BY <1>t, <1>a, <2>1 DEF TypeOK, LockTypeOK
<1>4. ASSUME NEW t \in Tasks, Release(t) PROVE LockInv'
  <2>1. /\ locks' = IF LastUser(t, scope[t]) THEN [locks EXCEPT ![scope[t]] = None] ELSE locks
        /\ UNCHANGED <<arc, owner, scope>>
        /\ pc[t] = "releasing" /\ pc' = [pc EXCEPT ![t] = "returning"]
    BY <1>4 DEF Release, ReleaseLock
  <2>2. ASSUME NEW u \in Tasks, Relying(u)' PROVE locks'[scope[u]] = arc[u]
    <3>1. u # t /\ Relying(u)
      BY <1>t, <2>1, <2>2 DEF TypeOK
    <3>2. CASE LastUser(t, scope[t])
      <4>1. arc[u] # arc[t]
        BY <1>k, <2>1, <3>1, <3>2, SoleUser
      <4>2. scope[u] # scope[t]
        BY <2>1, <3>1, <4>1
      <4>3. QED
        BY <1>t, <1>k, <2>1, <3>1, <4>2 DEF LockTypeOK
    <3>3. CASE ~LastUser(t, scope[t])
      BY <2>1, <3>1, <3>3
    <3>4. QED
      BY <3>2, <3>3
  <2>3. QED
    BY <1>t, <2>1, <2>2 DEF TypeOK
<1>5. ASSUME NEW t \in Tasks, Return(t) \/ Drop(t) PROVE LockInv'
  BY <1>t, <1>5 DEF Return, Drop, DropClone, TypeOK, LockTypeOK
<1>6. ASSUME NEW t \in Tasks, Start(t) PROVE LockInv'
  BY <1>t, <1>6 DEF Start, TypeOK
<1>7. ASSUME NEW t \in Tasks, Enter(t) \/ Unresolved(t) \/ Store(t) \/ CancelEarly(t)
      PROVE  LockInv'
  BY <1>t, <1>7 DEF Enter, Unresolved, Store, CancelEarly, TypeOK
<1>8. ASSUME NEW t \in Tasks, Find(t) \/ CreateKey(t) \/ CreateFails(t) \/ Insert(t)
      PROVE  LockInv'
  BY <1>t, <1>8 DEF Find, CreateKey, CreateFails, Insert, TypeOK
<1>9. CASE UNCHANGED vars
  BY <1>9 DEF vars
<1>10. QED
  BY <1>1, <1>2, <1>3, <1>4, <1>5, <1>6, <1>7, <1>8, <1>9 DEF Next, Progress

----------------------------------------------------------------------------
(***************************************************************************)
(* Identities.  Whoever is past the lookup of a scope holds its lock, so   *)
(* the scope is still vacant when its identity is inserted, and an index   *)
(* entry never changes: what a call answers and what the idempotency store *)
(* keeps stays true.                                                       *)
(***************************************************************************)

\* Whoever creates an identity finds its scope still vacant.
Vacant == \A t \in Tasks : pc[t] \in {"creating", "created"} => byScope[scope[t]] = None

KeysMade == \A m \in Materials : identities[m] # None => m \in created

AnswersIndexed == \A t \in Tasks : Provisioned(t) => byScope[scope[t]] = answer[t]

\* A stored response is the answer of a call that has returned.
MemoReal ==
    \A k \in IdempotencyKeys : memo[k] # None =>
        \E u \in Tasks : /\ ikey[u] = k /\ scope[u] = memo[k].scope
                         /\ pc[u] = "done" /\ answer[u] = memo[k].answer

StoreInv == Vacant /\ OneIdentityPerScope /\ KeysMade /\ AnswersIndexed /\ MemoReal /\ ConflictsAreReal

\* No identity at first.
LEMMA InitStore == Init => StoreInv
BY NoneIsNoAnswer DEF Init, StoreInv, Vacant, OneIdentityPerScope, KeysMade, AnswersIndexed, MemoReal,
   ConflictsAreReal, Provisioned, Answers

\* A step that changes no index, record or stored response, and at most reports a
\* failure, keeps what is known of identities.
LEMMA QuietStep ==
    ASSUME Frames, StoreInv,
           UNCHANGED <<byScope, identities, memo>>, created \subseteq created',
           \A t \in Tasks : pc[t] # "idle" => scope'[t] = scope[t] /\ ikey'[t] = ikey[t],
           \A t \in Tasks : \/ answer'[t] = answer[t]
                            \/ pc[t] # "done" /\ answer'[t] \in {"invalid", "failed", "cancelled"},
           \A t \in Tasks : pc[t] = "done" => pc'[t] = "done",
           \A t \in Tasks : pc'[t] \in {"creating", "created"} => pc[t] \in {"creating", "created"}
    PROVE  StoreInv'
<1>1. \A t \in Tasks : pc[t] = "idle" => answer[t] = None
  BY DEF Frames, FrameOf, Undetermined
<1>2. None \notin Materials \cup {"conflict", "invalid"}
  BY NoneIsNoAnswer DEF Answers
<1>3. Vacant' /\ OneIdentityPerScope' /\ KeysMade'
  BY DEF StoreInv, Vacant, OneIdentityPerScope, KeysMade
<1>4. AnswersIndexed'
  BY <1>1, <1>2, MaterialsAreNames DEF StoreInv, AnswersIndexed, Provisioned
<1>5. MemoReal'
  BY DEF StoreInv, MemoReal
<1>6. ConflictsAreReal'
  <2> SUFFICES ASSUME NEW t \in Tasks, answer'[t] = "conflict"
               PROVE  \E u \in Tasks : /\ ikey'[u] = ikey'[t] /\ scope'[u] # scope'[t]
                                       /\ pc'[u] = "done" /\ answer'[u] \in Materials \cup {"invalid"}
    BY DEF ConflictsAreReal
  <2>1. answer[t] = "conflict" /\ pc[t] # "idle"
    BY <1>1, <1>2
  <2>2. PICK u \in Tasks : /\ ikey[u] = ikey[t] /\ scope[u] # scope[t]
                           /\ pc[u] = "done" /\ answer[u] \in Materials \cup {"invalid"}
    BY <2>1 DEF StoreInv, ConflictsAreReal
  <2>3. QED
    BY <2>1, <2>2
<1>7. QED
  BY <1>3, <1>4, <1>5, <1>6 DEF StoreInv

\* A response from memory names the identity the scope has.
LEMMA MemoIndexed ==
    ASSUME StoreInv, NEW k \in IdempotencyKeys, memo[k] # None, memo[k].answer \in Materials
    PROVE  byScope[memo[k].scope] = memo[k].answer
BY DEF StoreInv, MemoReal, AnswersIndexed, Provisioned

\* A call that is answered from memory, or refused.
LEMMA EnterStep ==
    ASSUME Frames, StoreInv, NEW t \in Tasks, Enter(t)
    PROVE  StoreInv'
<1>t. /\ pc \in [Tasks -> Steps] /\ answer \in [Tasks -> Answers \cup {None}]
      /\ memo \in [IdempotencyKeys -> Memos \cup {None}]
  BY DEF Frames, TypeOK
<1>1. /\ pc[t] = "queued" /\ ikey[t] \in IdempotencyKeys
      /\ UNCHANGED <<byScope, identities, created, memo, scope, ikey>>
  BY DEF Enter, Frames, FrameOf
<1>2. CASE memo[ikey[t]] = None
  BY <1>t, <1>1, <1>2, QuietStep DEF Enter
<1>3. CASE memo[ikey[t]] # None
  <2> DEFINE stored == memo[ikey[t]]
             a == IF stored.scope = scope[t] THEN stored.answer ELSE "conflict"
  <2>1. pc' = [pc EXCEPT ![t] = "done"] /\ answer' = [answer EXCEPT ![t] = a]
    BY <1>3 DEF Enter
  <2>2. stored.answer \in Materials \cup {"invalid"}
    BY <1>t, <1>1, <1>3 DEF Memos
  <2>3. Vacant' /\ OneIdentityPerScope' /\ KeysMade'
    BY <1>t, <1>1, <2>1 DEF StoreInv, Vacant, OneIdentityPerScope, KeysMade
  <2>4. AnswersIndexed'
    <3>1. a \in Materials => byScope[scope[t]] = a
      BY <1>1, <1>3, MemoIndexed, MaterialsAreNames
    <3>2. QED
      BY <1>t, <1>1, <2>1, <3>1 DEF StoreInv, AnswersIndexed, Provisioned
  <2>o. \A u \in Tasks : pc[u] = "done" => pc'[u] = "done" /\ answer'[u] = answer[u]
    BY <1>t, <1>1, <2>1
  <2>5. MemoReal'
    BY <1>1, <2>o DEF StoreInv, MemoReal
  <2>6. ConflictsAreReal'
    <3> SUFFICES ASSUME NEW v \in Tasks, answer'[v] = "conflict"
                 PROVE  \E u \in Tasks : /\ ikey[u] = ikey[v] /\ scope[u] # scope[v]
                                         /\ pc'[u] = "done" /\ answer'[u] \in Materials \cup {"invalid"}
      BY <1>1 DEF ConflictsAreReal
    <3>1. CASE v = t
      <4>1. stored.scope # scope[t]
        BY <1>t, <2>1, <2>2, <3>1, MaterialsAreNames
      <4>2. QED
        BY <1>1, <1>3, <2>2, <2>o, <3>1, <4>1 DEF StoreInv, MemoReal
    <3>2. CASE v # t
      BY <1>t, <2>1, <2>o, <3>2 DEF StoreInv, ConflictsAreReal
    <3>3. QED
      BY <3>1, <3>2
  <2>7. QED
    BY <2>3, <2>4, <2>5, <2>6 DEF StoreInv
<1>4. QED
  BY <1>2, <1>3

\* A lookup of the scope, under its lock.
LEMMA FindStep ==
    ASSUME Frames, StoreInv, NEW t \in Tasks, Find(t)
    PROVE  StoreInv'
<1>t. /\ pc \in [Tasks -> Steps] /\ answer \in [Tasks -> Answers \cup {None}]
      /\ byScope \in [Keys -> Materials \cup {None}]
  BY DEF Frames, TypeOK
<1>1. /\ pc[t] = "locked" /\ scope[t] \in Keys /\ answer[t] = None
      /\ UNCHANGED <<byScope, identities, created, memo, scope, ikey>>
  BY DEF Find, Frames, FrameOf, Undetermined
<1>2. /\ pc' = [pc EXCEPT ![t] = pc'[t]] /\ pc'[t] \in {"unlocking", "creating"}
      /\ pc'[t] = "creating" => byScope[scope[t]] = None
      /\ \A u \in Tasks : u # t => answer'[u] = answer[u]
      /\ answer'[t] \in Materials => byScope[scope[t]] = answer'[t]
      /\ answer'[t] \in Materials \cup {None}
  BY <1>t, <1>1, NoneIsNoMaterial DEF Find
<1>o. \A u \in Tasks : pc[u] = "done" => pc'[u] = "done" /\ answer'[u] = answer[u]
  BY <1>t, <1>1, <1>2
<1>3. Vacant' /\ OneIdentityPerScope' /\ KeysMade'
  BY <1>t, <1>1, <1>2 DEF StoreInv, Vacant, OneIdentityPerScope, KeysMade
<1>4. AnswersIndexed'
  BY <1>1, <1>2 DEF StoreInv, AnswersIndexed, Provisioned
<1>5. MemoReal'
  BY <1>1, <1>o DEF StoreInv, MemoReal
<1>6. ConflictsAreReal'
  <2>1. answer'[t] # "conflict"
    BY <1>2, NoneIsNoAnswer, MaterialsAreNames DEF Answers
  <2>2. QED
    BY <1>1, <1>2, <1>o, <2>1 DEF StoreInv, ConflictsAreReal
<1>7. QED
  BY <1>3, <1>4, <1>5, <1>6 DEF StoreInv

\* The insertion, into a scope nobody else is creating an identity for.
LEMMA InsertStep ==
    ASSUME Frames, LockInv, StoreInv, NEW t \in Tasks, Insert(t)
    PROVE  StoreInv'
<1>t. /\ pc \in [Tasks -> Steps] /\ answer \in [Tasks -> Answers \cup {None}]
      /\ byScope \in [Keys -> Materials \cup {None}]
      /\ identities \in [Materials -> Keys \cup {None}] /\ created \subseteq Materials
  BY DEF Frames, TypeOK
<1>1. /\ pc[t] = "created" /\ scope[t] \in Keys /\ made[t] \in created /\ answer[t] = None
      /\ pc' = [pc EXCEPT ![t] = "unlocking"]
      /\ UNCHANGED <<created, memo, scope, ikey, made>>
  BY DEF Insert, Frames, FrameOf, Undetermined
<1>2. CASE identities[made[t]] # None
  <2>1. answer' = [answer EXCEPT ![t] = "failed"] /\ UNCHANGED <<byScope, identities>>
    BY <1>2 DEF Insert
  <2>2. QED
    BY <1>t, <1>1, <2>1, QuietStep
<1>3. CASE identities[made[t]] = None
  <2>1. /\ byScope' = [byScope EXCEPT ![scope[t]] = made[t]]
        /\ identities' = [identities EXCEPT ![made[t]] = scope[t]]
        /\ answer' = [answer EXCEPT ![t] = made[t]]
    BY <1>3 DEF Insert
  <2>2. byScope[scope[t]] = None
    BY <1>1 DEF StoreInv, Vacant
  <2>3. Vacant'
    <3> SUFFICES ASSUME NEW u \in Tasks, pc'[u] \in {"creating", "created"}
                 PROVE  byScope'[scope[u]] = None
      BY <1>1 DEF Vacant
    <3>1. u # t /\ pc[u] \in {"creating", "created"}
      BY <1>t, <1>1
    <3>2. scope[u] # scope[t]
      BY <1>1, <3>1, OneHolder DEF Holding
    <3>3. QED
      BY <1>t, <2>1, <3>1, <3>2 DEF StoreInv, Vacant, Frames, FrameOf
  <2>4. OneIdentityPerScope'
    <3>1. \A m \in Materials : identities[m] # None => identities[m] # scope[t]
      BY <2>2, NoneIsNoMaterial DEF StoreInv, OneIdentityPerScope
    <3>2. \A s \in Keys : byScope[s] # None => byScope[s] # made[t]
      BY <1>3, NoneIsNoKey DEF StoreInv, OneIdentityPerScope
    <3>3. QED
      BY <1>t, <1>1, <2>1, <3>1, <3>2 DEF StoreInv, OneIdentityPerScope
  <2>5. KeysMade'
    BY <1>t, <1>1, <2>1 DEF StoreInv, KeysMade
  <2>6. AnswersIndexed'
    <3> SUFFICES ASSUME NEW u \in Tasks, answer'[u] \in Materials
                 PROVE  byScope'[scope[u]] = answer'[u]
      BY <1>1 DEF AnswersIndexed, Provisioned
    <3>1. CASE u = t
      BY <1>t, <1>1, <2>1, <3>1
    <3>2. CASE u # t
      <4>1. answer'[u] = answer[u] /\ byScope[scope[u]] = answer[u]
        BY <1>t, <2>1, <3>2 DEF StoreInv, AnswersIndexed, Provisioned
      <4>2. scope[u] # scope[t]
        BY <2>2, <4>1, NoneIsNoMaterial
      <4>3. QED
        BY <1>t, <2>1, <4>1, <4>2
    <3>3. QED
      BY <3>1, <3>2
  <2>o. \A u \in Tasks : pc[u] = "done" => pc'[u] = "done" /\ answer'[u] = answer[u]
    BY <1>t, <1>1, <2>1
  <2>7. MemoReal'
    BY <1>1, <2>o DEF StoreInv, MemoReal
  <2>8. ConflictsAreReal'
    <3>1. made[t] # "conflict"
      BY <1>t, <1>1, MaterialsAreNames
    <3>2. QED
      BY <1>t, <1>1, <2>1, <2>o, <3>1 DEF StoreInv, ConflictsAreReal
  <2>9. QED
    BY <2>3, <2>4, <2>5, <2>6, <2>7, <2>8 DEF StoreInv
<1>4. QED
  BY <1>2, <1>3

\* A response is stored under the key.
LEMMA StoreStep ==
    ASSUME Frames, StoreInv, NEW t \in Tasks, Store(t)
    PROVE  StoreInv'
<1>t. /\ pc \in [Tasks -> Steps] /\ memo \in [IdempotencyKeys -> Memos \cup {None}]
  BY DEF Frames, TypeOK
<1>1. /\ pc[t] = "answered" /\ pc' = [pc EXCEPT ![t] = "done"]
      /\ memo' = IF answer[t] = "failed" THEN memo
                 ELSE [memo EXCEPT ![ikey[t]] = [scope |-> scope[t], answer |-> answer[t]]]
      /\ UNCHANGED <<byScope, identities, created, scope, ikey, made, answer>>
  BY DEF Store
<1>2. Vacant' /\ OneIdentityPerScope' /\ KeysMade' /\ AnswersIndexed' /\ ConflictsAreReal'
  BY <1>t, <1>1 DEF StoreInv, Vacant, OneIdentityPerScope, KeysMade, AnswersIndexed, Provisioned,
     ConflictsAreReal
<1>3. MemoReal'
  <2> SUFFICES ASSUME NEW k \in IdempotencyKeys, memo'[k] # None
               PROVE  \E u \in Tasks : /\ ikey[u] = k /\ scope[u] = memo'[k].scope
                                       /\ pc'[u] = "done" /\ answer[u] = memo'[k].answer
    BY <1>1 DEF MemoReal
  <2>1. CASE memo'[k] = memo[k]
    BY <1>t, <1>1, <2>1 DEF StoreInv, MemoReal
  <2>2. CASE k = ikey[t] /\ memo'[k] = [scope |-> scope[t], answer |-> answer[t]]
    BY <1>t, <1>1, <2>2
  <2>3. QED
    BY <1>t, <1>1, <2>1, <2>2
<1>4. QED
  BY <1>2, <1>3 DEF StoreInv

\* Every step keeps what is known of identities.
LEMMA NextStore == Frames /\ LockInv /\ StoreInv /\ [Next]_vars => StoreInv'
<1> SUFFICES ASSUME Frames, LockInv, StoreInv, [Next]_vars PROVE StoreInv'
  OBVIOUS
<1>t. /\ pc \in [Tasks -> Steps] /\ answer \in [Tasks -> Answers \cup {None}]
      /\ scope \in [Tasks -> Keys \cup {None}] /\ ikey \in [Tasks -> IdempotencyKeys \cup {None}]
  BY DEF Frames, TypeOK
<1>1. ASSUME NEW t \in Tasks, Start(t) PROVE StoreInv'
  BY <1>t, <1>1, QuietStep DEF Start
<1>2. ASSUME NEW t \in Tasks,
             Resolve(t) \/ Acquire(t) \/ Unlock(t) \/ Release(t) \/ Return(t) \/ Drop(t)
      PROVE  StoreInv'
  BY <1>t, <1>2, QuietStep DEF Resolve, Acquire, Unlock, Release, Return, Drop
<1>3. ASSUME NEW t \in Tasks, Unresolved(t) \/ CancelEarly(t) \/ Cancel(t)
      PROVE  StoreInv'
  BY <1>t, <1>3, QuietStep DEF Unresolved, CancelEarly, Cancel
<1>4. ASSUME NEW t \in Tasks, CreateKey(t) \/ CreateFails(t) PROVE StoreInv'
  BY <1>t, <1>4, QuietStep DEF CreateKey, CreateFails
<1>5. CASE UNCHANGED vars
  BY <1>5, QuietStep DEF vars
<1>6. QED
  BY <1>1, <1>2, <1>3, <1>4, <1>5, EnterStep, FindStep, InsertStep, StoreStep DEF Next, Progress

\* The lock discipline and what is known of identities hold in every state.
THEOREM InductiveInvariant == Spec => [](Frames /\ LockInv /\ StoreInv)
<1>1. Init => Frames /\ LockInv /\ StoreInv
  BY InitFrames, InitLock, InitStore
<1>2. Frames /\ LockInv /\ StoreInv /\ [Next]_vars => (Frames /\ LockInv /\ StoreInv)'
  BY NextFrames, NextLock, NextStore
<1>3. QED
  BY <1>1, <1>2, PTL DEF Spec

\* The records and the scope index agree, whatever calls, keys and cancellations run
\* into each other.
THEOREM OneIdentity == Spec => []OneIdentityPerScope
<1>1. StoreInv => OneIdentityPerScope
  BY DEF StoreInv
<1>2. QED
  BY <1>1, InductiveInvariant, PTL

\* Provisions that succeed return the same identity exactly when they are of the same
\* scope, and one that has a key.
THEOREM Agreement == Spec => []ProvisionsAgree
<1>1. Frames /\ StoreInv => ProvisionsAgree
  <2> SUFFICES ASSUME Frames, StoreInv, NEW t \in Tasks, NEW u \in Tasks,
                      Provisioned(t), Provisioned(u)
               PROVE  /\ (answer[t] = answer[u]) <=> (scope[t] = scope[u])
                      /\ answer[t] \in created
    BY DEF ProvisionsAgree
  <2>1. \A v \in Tasks : Provisioned(v) => scope[v] \in Keys
    BY NoneIsNoMaterial DEF Frames, FrameOf, Undetermined, Provisioned
  <2>2. \A v \in Tasks : Provisioned(v) =>
            byScope[scope[v]] = answer[v] /\ identities[answer[v]] = scope[v]
    BY <2>1, NoneIsNoMaterial DEF StoreInv, AnswersIndexed, OneIdentityPerScope, Provisioned
  <2>3. answer[t] \in created
    BY <2>1, <2>2, NoneIsNoKey DEF StoreInv, KeysMade, Provisioned
  <2>4. QED
    BY <2>2, <2>3
<1>2. QED
  BY <1>1, InductiveInvariant, PTL

\* A key is refused only when a call of it has answered for another scope.
THEOREM Conflicts == Spec => []ConflictsAreReal
<1>1. StoreInv => ConflictsAreReal
  BY DEF StoreInv
<1>2. QED
  BY <1>1, InductiveInvariant, PTL

----------------------------------------------------------------------------
(***************************************************************************)
(* The calls implement ProvisionedIdentities.  A call that the idempotency *)
(* store lets in is the only one of its key, and nothing is on record for  *)
(* that key until the call stores its answer; every step about locks and   *)
(* lookups is a stuttering step.                                           *)
(***************************************************************************)

\* The idempotency store lets one call of a key in, and only while it has no answer.
Alone ==
    \A t \in Tasks : Inside(t) =>
        /\ memo[ikey[t]] = None
        /\ \A u \in Tasks : Inside(u) /\ ikey[u] = ikey[t] => u = t

\* Nobody is in at first.
LEMMA InitAlone == Init => Alone
BY DEF Init, Alone, Inside

\* Every step keeps the calls of one key apart.
LEMMA NextAlone == Frames /\ Alone /\ [Next]_vars => Alone'
<1> SUFFICES ASSUME Frames, Alone, [Next]_vars PROVE Alone'
  OBVIOUS
<1>t. pc \in [Tasks -> Steps] /\ ikey \in [Tasks -> IdempotencyKeys \cup {None}]
      /\ memo \in [IdempotencyKeys -> Memos \cup {None}]
  BY DEF Frames, TypeOK
<1>k. \A u \in Tasks : Inside(u) => ikey[u] \in IdempotencyKeys
  BY DEF Frames, FrameOf, Inside
<1>q. ASSUME UNCHANGED <<memo, ikey>>, \A u \in Tasks : Inside(u)' => Inside(u) PROVE Alone'
  BY <1>q DEF Alone
<1>1. ASSUME NEW t \in Tasks, Start(t) PROVE Alone'
  <2>1. /\ pc' = [pc EXCEPT ![t] = "queued"] /\ UNCHANGED memo
        /\ \A u \in Tasks \ {t} : ikey'[u] = ikey[u]
    BY <1>t, <1>1 DEF Start
  <2>2. \A u \in Tasks : Inside(u)' => u # t /\ Inside(u)
    BY <1>t, <2>1 DEF Inside
  <2>3. QED
    BY <2>1, <2>2 DEF Alone
<1>2. ASSUME NEW t \in Tasks, Enter(t) PROVE Alone'
  <2>1. /\ UNCHANGED <<memo, ikey>>
        /\ \A u \in Tasks : Inside(u) => ikey[u] # ikey[t]
        /\ \/ memo[ikey[t]] = None /\ pc' = [pc EXCEPT ![t] = "resolving"]
           \/ pc' = [pc EXCEPT ![t] = "done"]
    BY <1>2 DEF Enter
  <2>2. \A u \in Tasks : Inside(u)' => Inside(u) \/ (u = t /\ memo[ikey[t]] = None)
    BY <1>t, <2>1 DEF Inside
  <2>3. QED
    BY <2>1, <2>2 DEF Alone
<1>3. ASSUME NEW t \in Tasks, Store(t) PROVE Alone'
  <2>1. /\ pc[t] = "answered" /\ pc' = [pc EXCEPT ![t] = "done"] /\ UNCHANGED ikey
        /\ \A k \in IdempotencyKeys : k # ikey[t] => memo'[k] = memo[k]
    BY <1>t, <1>3 DEF Store
  <2>2. Inside(t) /\ \A u \in Tasks : Inside(u)' => u # t /\ Inside(u)
    BY <1>t, <2>1 DEF Inside
  <2>3. \A u \in Tasks : Inside(u)' => ikey[u] # ikey[t] /\ memo'[ikey[u]] = None
    BY <1>k, <2>1, <2>2 DEF Alone
  <2>4. QED
    BY <2>1, <2>2, <2>3 DEF Alone
<1>4. ASSUME NEW t \in Tasks,
             Resolve(t) \/ Unresolved(t) \/ Acquire(t) \/ Find(t) \/ CreateKey(t) \/ CreateFails(t)
             \/ Insert(t)
      PROVE  Alone'
  <2>1. /\ pc[t] \notin {"idle", "queued", "done"} /\ UNCHANGED <<memo, ikey>>
        /\ pc' = [pc EXCEPT ![t] = pc'[t]]
    BY <1>t, <1>4 DEF Resolve, Unresolved, Acquire, Find, CreateKey, CreateFails, Insert
  <2>2. \A u \in Tasks : Inside(u)' => Inside(u)
    BY <1>t, <2>1 DEF Inside
  <2>3. QED
    BY <1>q, <2>1, <2>2
<1>5. ASSUME NEW t \in Tasks,
             Unlock(t) \/ Release(t) \/ Return(t) \/ Drop(t) \/ CancelEarly(t) \/ Cancel(t)
      PROVE  Alone'
  <2>1. /\ UNCHANGED <<memo, ikey>>
        /\ \/ pc[t] \notin {"idle", "queued", "done"} /\ pc' = [pc EXCEPT ![t] = pc'[t]]
           \/ pc' = [pc EXCEPT ![t] = "done"]
    BY <1>t, <1>5 DEF Unlock, Release, Return, Drop, CancelEarly, Cancel
  <2>2. \A u \in Tasks : Inside(u)' => Inside(u)
    BY <1>t, <2>1 DEF Inside
  <2>3. QED
    BY <1>q, <2>1, <2>2
<1>6. CASE UNCHANGED vars
  BY <1>6 DEF vars, Alone, Inside
<1>7. QED
  BY <1>1, <1>2, <1>3, <1>4, <1>5, <1>6 DEF Next, Progress

\* What ProvisionedIdentities sees of the calls.
Requested ==
    [t \in Tasks |-> IF pc[t] = "idle" THEN None ELSE [scope |-> scope[t], key |-> ikey[t]]]
Shown == [t \in Tasks |-> IF pc[t] \in {"dropping", "done"} THEN answer[t] ELSE None]

\* A call that has started has asked for its scope under its key.
LEMMA StartedAsked ==
    ASSUME Frames, NEW t \in Tasks, pc[t] # "idle"
    PROVE  /\ Requested[t] # None
           /\ Requested[t].scope = scope[t] /\ Requested[t].key = ikey[t]
           /\ scope[t] \in Keys /\ ikey[t] \in IdempotencyKeys
<1>1. scope[t] \in Keys /\ ikey[t] \in IdempotencyKeys
  BY DEF Frames, FrameOf
<1>2. Requested[t] = [scope |-> scope[t], key |-> ikey[t]]
  BY DEF Requested
<1>3. Requested[t] # None
  BY <1>1, <1>2, NoneIsNoRequest
<1>4. QED
  BY <1>1, <1>2, <1>3

\* A call that is in may still make a key, an identity or an answer.
LEMMA InsideAsks ==
    ASSUME Frames, Alone, NEW t \in Tasks, Inside(t), pc[t] # "dropping"
    PROVE  Promise!Asking(t)
<1>1. pc[t] # "idle" /\ Shown[t] = None /\ memo[ikey[t]] = None
  BY DEF Inside, Shown, Alone
<1>2. QED
  BY <1>1, StartedAsked DEF Promise!Asking, Requested, Shown

\* While a call goes on nothing is seen of what it will answer ...
LEMMA GoesOn ==
    ASSUME Frames, NEW t \in Tasks, pc[t] \notin {"idle", "dropping", "done"},
           pc' = [pc EXCEPT ![t] = pc'[t]], pc'[t] \notin {"idle", "dropping", "done"},
           UNCHANGED <<scope, ikey>>, \A u \in Tasks \ {t} : answer'[u] = answer[u]
    PROVE  Requested' = Requested /\ Shown' = Shown
<1>1. pc \in [Tasks -> Steps]
  BY DEF Frames, TypeOK
<1>2. \A u \in Tasks \ {t} : pc'[u] = pc[u]
  BY <1>1
<1>3. \A u \in Tasks : Requested'[u] = Requested[u] /\ Shown'[u] = Shown[u]
  BY <1>2 DEF Requested, Shown
<1>4. QED
  BY <1>3 DEF Requested, Shown

\* ... and when it ends its answer is.
LEMMA Ends ==
    ASSUME Frames, NEW t \in Tasks, pc[t] \notin {"idle", "dropping", "done"},
           pc' = [pc EXCEPT ![t] = pc'[t]], pc'[t] \in {"dropping", "done"},
           UNCHANGED <<scope, ikey>>, \A u \in Tasks \ {t} : answer'[u] = answer[u]
    PROVE  /\ Requested' = Requested
           /\ Shown[t] = None /\ Shown' = [Shown EXCEPT ![t] = answer'[t]]
<1>1. pc \in [Tasks -> Steps]
  BY DEF Frames, TypeOK
<1>2. \A u \in Tasks \ {t} : pc'[u] = pc[u]
  BY <1>1
<1>3. \A u \in Tasks : Requested'[u] = Requested[u]
  BY <1>2 DEF Requested
<1>4. \A u \in Tasks : Shown'[u] = IF u = t THEN answer'[t] ELSE Shown[u]
  BY <1>2 DEF Shown
<1>5. QED
  BY <1>3, <1>4 DEF Requested, Shown

\* Nothing is promised yet at first.
LEMMA InitProvides == Init => Promise!Init
BY DEF Init, Promise!Init

\* A call enters, or is answered from the record.
LEMMA EnterProvides ==
    ASSUME Frames, NEW t \in Tasks, Enter(t)
    PROVE  Promise!Repeat(t) \/ UNCHANGED Promise!pvars
<1>t. pc \in [Tasks -> Steps] /\ answer \in [Tasks -> Answers \cup {None}]
  BY DEF Frames, TypeOK
<1>1. pc[t] = "queued" /\ UNCHANGED <<byScope, created, memo, scope, ikey>>
  BY DEF Enter
<1>2. CASE memo[ikey[t]] = None
  <2>1. pc' = [pc EXCEPT ![t] = "resolving"] /\ UNCHANGED answer
    BY <1>2 DEF Enter
  <2>2. Requested' = Requested /\ Shown' = Shown
    BY <1>t, <1>1, <2>1, GoesOn
  <2>3. QED
    BY <1>1, <2>2 DEF Promise!pvars, Requested, Shown
<1>3. CASE memo[ikey[t]] # None
  <2> DEFINE stored == memo[ikey[t]]
             a == IF stored.scope = scope[t] THEN stored.answer ELSE "conflict"
  <2>1. pc' = [pc EXCEPT ![t] = "done"] /\ answer' = [answer EXCEPT ![t] = a]
    BY <1>3 DEF Enter
  <2>2. pc'[t] = "done" /\ answer'[t] = a /\ \A u \in Tasks \ {t} : answer'[u] = answer[u]
    BY <1>t, <2>1
  <2>3. Requested' = Requested /\ Shown[t] = None /\ Shown' = [Shown EXCEPT ![t] = a]
    BY <1>1, <2>1, <2>2, Ends
  <2>4. /\ Requested[t] # None
        /\ Requested[t].scope = scope[t] /\ Requested[t].key = ikey[t]
    BY <1>1, StartedAsked
  <2>5. QED
    BY <1>1, <1>3, <2>3, <2>4 DEF Promise!Repeat, Promise!Answered, Requested, Shown
<1>4. QED
  BY <1>2, <1>3

\* The key store makes a key, whether or not the call learns of it.
LEMMA KeyProvides ==
    ASSUME Frames, StoreInv, Alone, NEW t \in Tasks, CreateKey(t) \/ CreateFails(t)
    PROVE  Promise!MakeKey(t) \/ UNCHANGED Promise!pvars
<1>t. pc \in [Tasks -> Steps] /\ answer \in [Tasks -> Answers \cup {None}]
  BY DEF Frames, TypeOK
<1>1. /\ pc[t] = "creating" /\ UNCHANGED <<byScope, memo, scope, ikey>>
      /\ UNCHANGED created \/ \E m \in Materials : created' = created \cup {m}
      /\ pc' = [pc EXCEPT ![t] = pc'[t]] /\ pc'[t] \in {"created", "unlocking"}
      /\ \A u \in Tasks \ {t} : answer'[u] = answer[u]
  BY <1>t DEF CreateKey, CreateFails
<1>2. Requested' = Requested /\ Shown' = Shown
  BY <1>1, GoesOn
<1>3. Promise!Asking(t) /\ Requested[t].scope = scope[t]
  BY <1>1, InsideAsks, StartedAsked DEF Inside
<1>4. byScope[scope[t]] = None
  BY <1>1 DEF StoreInv, Vacant
<1>5. QED
  BY <1>1, <1>2, <1>3, <1>4 DEF Promise!MakeKey, Promise!pvars, Requested, Shown

\* The scope gets its identity where the records are inserted, of material nobody has.
LEMMA InsertProvides ==
    ASSUME Frames, StoreInv, Alone, NEW t \in Tasks, Insert(t)
    PROVE  Promise!Create(t) \/ UNCHANGED Promise!pvars
<1>t. pc \in [Tasks -> Steps] /\ answer \in [Tasks -> Answers \cup {None}]
      /\ created \subseteq Materials
  BY DEF Frames, TypeOK
<1>1. /\ pc[t] = "created" /\ pc' = [pc EXCEPT ![t] = "unlocking"]
      /\ UNCHANGED <<created, memo, scope, ikey>>
      /\ \A u \in Tasks \ {t} : answer'[u] = answer[u]
  BY <1>t DEF Insert
<1>2. Requested' = Requested /\ Shown' = Shown
  BY <1>t, <1>1, GoesOn
<1>3. CASE identities[made[t]] # None
  <2>1. UNCHANGED byScope
    BY <1>3 DEF Insert
  <2>2. QED
    BY <1>1, <1>2, <2>1 DEF Promise!pvars, Requested, Shown
<1>4. CASE identities[made[t]] = None
  <2>1. byScope' = [byScope EXCEPT ![scope[t]] = made[t]]
    BY <1>4 DEF Insert
  <2>2. made[t] \in created /\ made[t] # None
    BY <1>t, <1>1, NoneIsNoMaterial DEF Frames, FrameOf
  <2>3. \A s \in Keys : byScope[s] # made[t]
    BY <1>4, <2>2, NoneIsNoKey DEF StoreInv, OneIdentityPerScope
  <2>4. Promise!Asking(t) /\ Requested[t].scope = scope[t]
    BY <1>1, InsideAsks, StartedAsked DEF Inside
  <2>5. byScope[scope[t]] = None
    BY <1>1 DEF StoreInv, Vacant
  <2>6. QED
    BY <1>1, <1>2, <2>1, <2>2, <2>3, <2>4, <2>5 DEF Promise!Create, Requested, Shown
<1>5. QED
  BY <1>3, <1>4

\* A call takes effect where its response is stored.
LEMMA StoreProvides ==
    ASSUME Frames, StoreInv, Alone, NEW t \in Tasks, Store(t)
    PROVE  Promise!Provision(t) \/ Promise!GiveUp(t)
<1>t. pc \in [Tasks -> Steps] /\ answer \in [Tasks -> Answers \cup {None}]
  BY DEF Frames, TypeOK
<1>1. /\ pc[t] = "answered" /\ pc' = [pc EXCEPT ![t] = "done"]
      /\ UNCHANGED <<byScope, created, scope, ikey, answer>>
      /\ answer[t] \in Materials \cup {"invalid", "failed"}
  BY DEF Store, Frames, FrameOf
<1>2. Requested' = Requested /\ Shown[t] = None /\ Shown' = [Shown EXCEPT ![t] = answer[t]]
  BY <1>t, <1>1, Ends
<1>3. /\ Promise!Asking(t) /\ Requested[t] # None
      /\ Requested[t].scope = scope[t] /\ Requested[t].key = ikey[t]
  BY <1>1, InsideAsks, StartedAsked DEF Inside
<1>4. CASE answer[t] = "failed"
  <2>1. UNCHANGED memo
    BY <1>4 DEF Store
  <2>2. QED
    BY <1>1, <1>2, <1>3, <1>4, <2>1 DEF Promise!GiveUp, Promise!Answered, Requested, Shown
<1>5. CASE answer[t] # "failed"
  <2>1. memo' = [memo EXCEPT ![ikey[t]] = [scope |-> scope[t], answer |-> answer[t]]]
    BY <1>5 DEF Store
  <2>2. answer[t] \in {byScope[scope[t]], "invalid"}
    BY <1>1, <1>5 DEF StoreInv, AnswersIndexed, Provisioned
  <2>3. answer[t] # None
    BY <1>1, NoneIsNoAnswer DEF Answers
  <2>4. QED
    BY <1>1, <1>2, <1>3, <2>1, <2>2, <2>3
    DEF Promise!Provision, Promise!Answered, Requested, Shown
<1>6. QED
  BY <1>4, <1>5

\* A caller that drops the future has given up.
LEMMA CancelProvides ==
    ASSUME Frames, NEW t \in Tasks, CancelEarly(t) \/ Cancel(t)
    PROVE  Promise!GiveUp(t)
<1>t. pc \in [Tasks -> Steps] /\ answer \in [Tasks -> Answers \cup {None}]
  BY DEF Frames, TypeOK
<1>1. /\ pc[t] \notin {"idle", "dropping", "done"} /\ pc' = [pc EXCEPT ![t] = pc'[t]]
      /\ pc'[t] \in {"dropping", "done"} /\ answer'[t] = "cancelled"
      /\ \A u \in Tasks \ {t} : answer'[u] = answer[u]
      /\ UNCHANGED <<byScope, created, memo, scope, ikey>>
  BY <1>t DEF CancelEarly, Cancel
<1>2. Requested' = Requested /\ Shown[t] = None /\ Shown' = [Shown EXCEPT ![t] = "cancelled"]
  BY <1>1, Ends
<1>3. Requested[t] # None
  BY <1>1, StartedAsked
<1>4. QED
  BY <1>1, <1>2, <1>3 DEF Promise!GiveUp, Promise!Answered, Requested, Shown

\* Every step of a call is a step of ProvisionedIdentities or a stutter.
LEMMA NextProvides ==
    Frames /\ StoreInv /\ Alone /\ [Next]_vars => [Promise!Next]_(Promise!pvars)
<1> SUFFICES ASSUME Frames, StoreInv, Alone, [Next]_vars PROVE [Promise!Next]_(Promise!pvars)
  OBVIOUS
<1>t. pc \in [Tasks -> Steps] /\ answer \in [Tasks -> Answers \cup {None}]
      /\ scope \in [Tasks -> Keys \cup {None}] /\ ikey \in [Tasks -> IdempotencyKeys \cup {None}]
  BY DEF Frames, TypeOK
<1>1. ASSUME NEW t \in Tasks, Start(t) PROVE Promise!Ask(t)
  <2>1. PICK s \in Keys, k \in IdempotencyKeys :
            scope' = [scope EXCEPT ![t] = s] /\ ikey' = [ikey EXCEPT ![t] = k]
    BY <1>1 DEF Start
  <2>2. pc[t] = "idle" /\ pc' = [pc EXCEPT ![t] = "queued"]
        /\ UNCHANGED <<byScope, created, memo, answer>>
    BY <1>1 DEF Start
  <2>3. Requested[t] = None
    BY <2>2 DEF Requested
  <2>4. \A u \in Tasks :
            Requested'[u] = IF u = t THEN [scope |-> s, key |-> k] ELSE Requested[u]
    BY <1>t, <2>1, <2>2 DEF Requested
  <2>5. Requested' = [Requested EXCEPT ![t] = [scope |-> s, key |-> k]]
    BY <2>4 DEF Requested
  <2>6. \A u \in Tasks : Shown'[u] = Shown[u]
    BY <1>t, <2>2 DEF Shown
  <2>7. Shown' = Shown
    BY <2>6 DEF Shown
  <2>8. QED
    BY <2>2, <2>3, <2>5, <2>7 DEF Promise!Ask, Requested, Shown
<1>2. ASSUME NEW t \in Tasks, Drop(t) PROVE UNCHANGED Promise!pvars
  <2>1. pc[t] = "dropping" /\ pc' = [pc EXCEPT ![t] = "done"]
        /\ UNCHANGED <<byScope, created, memo, scope, ikey, answer>>
    BY <1>2 DEF Drop
  <2>2. \A u \in Tasks : Requested'[u] = Requested[u] /\ Shown'[u] = Shown[u]
    BY <1>t, <2>1 DEF Requested, Shown
  <2>3. Requested' = Requested /\ Shown' = Shown
    BY <2>2 DEF Requested, Shown
  <2>4. QED
    BY <2>1, <2>3 DEF Promise!pvars, Requested, Shown
<1>3. ASSUME NEW t \in Tasks,
             Resolve(t) \/ Unresolved(t) \/ Acquire(t) \/ Find(t) \/ Unlock(t) \/ Release(t)
             \/ Return(t)
      PROVE  UNCHANGED Promise!pvars
  <2>1. /\ pc[t] \notin {"idle", "dropping", "done"} /\ pc' = [pc EXCEPT ![t] = pc'[t]]
        /\ pc'[t] \notin {"idle", "dropping", "done"}
        /\ \A u \in Tasks \ {t} : answer'[u] = answer[u]
        /\ UNCHANGED <<byScope, created, memo, scope, ikey>>
    BY <1>t, <1>3 DEF Resolve, Unresolved, Acquire, Find, Unlock, Release, Return
  <2>2. Requested' = Requested /\ Shown' = Shown
    BY <2>1, GoesOn
  <2>3. QED
    BY <2>1, <2>2 DEF Promise!pvars, Requested, Shown
<1>4. CASE UNCHANGED vars
  BY <1>4 DEF vars, Promise!pvars
<1>5. QED
  BY <1>1, <1>2, <1>3, <1>4, EnterProvides, KeyProvides, InsertProvides, StoreProvides,
     CancelProvides
  DEF Next, Progress, Promise!Next

\* Provisioning does what ProvisionedIdentities promises: whatever calls run at once or are
\* dropped, each takes effect in one step, and a scope keeps the identity it gets.
THEOREM Implementation == Spec => ProvisionsAtomically
<1>1. Init => Frames /\ StoreInv /\ LockInv /\ Alone
  BY InitFrames, InitLock, InitStore, InitAlone
<1>2. Frames /\ StoreInv /\ LockInv /\ Alone /\ [Next]_vars => (Frames /\ StoreInv /\ LockInv /\ Alone)'
  BY NextFrames, NextLock, NextStore, NextAlone
<1>3. QED
  BY <1>1, <1>2, InitProvides, NextProvides, PTL DEF Spec, ProvisionsAtomically, Promise!Spec

----------------------------------------------------------------------------
(***************************************************************************)
(* PlatformExchange.  Platform::new leaves only options with which the URL *)
(* of an identity is the one did:web looks at, so an identity that is made *)
(* is one to read but for what its generator and the loopback decide;      *)
(* PlatformInvariant says of whatever a party holds - a document, an       *)
(* answer, an identity - which of the other's acts it comes from.          *)
(***************************************************************************)

LEMMA SameCardinality == \A S : Exchange!Cardinality(S) = Cardinality(S)
BY DEF Exchange!Cardinality, Cardinality

\* What Platform::new has made sure of: the DIDs it makes are proper up to their identifier,
\* the URL it renders is the one did:web looks at, and the rest is what an Agent asks for.
LEMMA AcceptedOptions ==
    ASSUME NEW o \in Options, Exchange!Accepts(o)
    PROVE  /\ Exchange!ProperHost(o.host) /\ Exchange!ProperSegment(o.prefix)
           /\ \A id \in Ids : /\ Exchange!RenderedUrl(o, id) =
                                    [scheme |-> "https", of |-> Exchange!Did(o.host, o.prefix, id)]
           /\ o.template.holes = 1 /\ o.template.scheme = "https"
           /\ o.algorithms # <<>> /\ Exchange!Elements(o.algorithms) \subseteq Exchange!Supported
           /\ o.default > 0 /\ o.default <= MaxLifetime /\ o.maximum <= MaxLifetime
<1> DEFINE did == Exchange!Did(o.host, o.prefix, "plain")
           url == Exchange!DocumentUrl(did, FALSE)
           rendered == Exchange!RenderedUrl(o, "plain")
<1>1. /\ Exchange!AgentDid(o, "plain") # None
      /\ Exchange!DocumentUrl(Exchange!AgentDid(o, "plain"), FALSE) # None
      /\ rendered = Exchange!DocumentUrl(Exchange!AgentDid(o, "plain"), FALSE)
  BY DEF Exchange!Accepts
<1>2. Exchange!AgentDid(o, "plain") = did
  BY <1>1 DEF Exchange!AgentDid
<1>3. url # None /\ rendered = url
  BY <1>1, <1>2
<1>4. /\ Exchange!ProperHost(did.host) /\ Exchange!ProperSegment(did.prefix)
      /\ url = [scheme |-> "https", of |-> did]
  BY <1>3 DEF Exchange!DocumentUrl
<1>5. Exchange!ProperHost(o.host) /\ Exchange!ProperSegment(o.prefix)
  BY <1>4 DEF Exchange!Did
<1>6. /\ o.template.holes = 1 /\ o.template.scheme = "https"
      /\ rendered = [scheme |-> "https", of |-> IF o.template.follows THEN did ELSE None]
  BY <1>3 DEF Exchange!RenderedUrl
<1>7. o.template.follows
  <2>1. did \in Dids
    BY DEF Dids
  <2>2. did # None
    BY <2>1, NoneIsNothing
  <2>3. ASSUME ~o.template.follows PROVE FALSE
    <3>1. rendered = [scheme |-> "https", of |-> None]
      BY <1>6, <2>3
    <3>2. [scheme |-> "https", of |-> None] = [scheme |-> "https", of |-> did]
      BY <1>3, <1>4, <3>1
    <3>3. [scheme |-> "https", of |-> None].of = [scheme |-> "https", of |-> did].of
      BY <3>2
    <3>4. QED
      BY <2>2, <3>3
  <2>4. QED
    BY <2>3
<1>8. \A id \in Ids : Exchange!RenderedUrl(o, id) = [scheme |-> "https", of |-> Exchange!Did(o.host, o.prefix, id)]
  BY <1>6, <1>7 DEF Exchange!RenderedUrl
<1>9. o.default > 0 /\ o.default <= MaxLifetime /\ o.maximum <= MaxLifetime
  BY DEF Exchange!Accepts, Exchange!ValidLifetime
<1>10. o.algorithms # <<>> /\ Exchange!Elements(o.algorithms) \subseteq Exchange!Supported
  BY DEF Exchange!Accepts, Exchange!ValidAlgorithms
<1>11. QED
  BY <1>5, <1>6, <1>8, <1>9, <1>10

\* What it makes of an identifier is an identity of its own, if it makes any.
LEMMA IdentityMade ==
    ASSUME Exchange!Configured, NEW id \in Ids, NEW m \in Methods,
           Exchange!Identity(options, id, provider.service, m) # None
    PROVE  /\ Exchange!Made(Exchange!Identity(options, id, provider.service, m))
           /\ Exchange!Identity(options, id, provider.service, m).status = "active"
<1> DEFINE did == Exchange!Did(options.host, options.prefix, id)
           new == Exchange!Identity(options, id, provider.service, m)
<1>1. options \in Options /\ Exchange!Accepts(options)
  BY DEF Exchange!Configured
<1>2. Exchange!AgentDid(options, id) # None
  BY DEF Exchange!Identity
<1>3. Exchange!AgentDid(options, id) = did
  BY <1>2 DEF Exchange!AgentDid
<1>4. Exchange!RenderedUrl(options, id) = [scheme |-> "https", of |-> did]
  BY <1>1, AcceptedOptions
<1>5. new = [did |-> did, key |-> did, url |-> [scheme |-> "https", of |-> did],
             service |-> provider.service, algorithms |-> options.algorithms,
             status |-> "active", method |-> m]
  BY <1>2, <1>3, <1>4 DEF Exchange!Identity
<1>6. /\ DOMAIN new = {"did", "key", "url", "service", "algorithms", "status", "method"}
      /\ new.did = did /\ new.key = did /\ new.url = [scheme |-> "https", of |-> did]
      /\ new.service = provider.service /\ new.algorithms = options.algorithms
      /\ new.status = "active" /\ new.method = m
  BY <1>5
<1> HIDE DEF new
<1>8. QED
  <2>1. Exchange!Made(new) /\ new.status = "active"
    BY <1>1, <1>6 DEF Exchange!Made
  <2>2. QED
    BY <2>1 DEF new

\* An Agent refuses such an identity only on loopback or for an identifier that did:web does
\* not take.
LEMMA IdentityRead ==
    ASSUME Exchange!Configured, NEW i, Exchange!Made(i),
           ~Exchange!ValidIdentity(i, provider.loopback)
    PROVE  \/ provider.loopback /\ options.host = "loopback"
           \/ i.did.id = "odd"
<1>1. PICK id \in Ids : i.did = Exchange!Did(options.host, options.prefix, id)
  BY DEF Exchange!Made
<1>2. i.did.host = options.host /\ i.did.prefix = options.prefix
  BY <1>1 DEF Exchange!Did
<1>3. Exchange!ProperHost(i.did.host) /\ Exchange!ProperSegment(i.did.prefix)
  BY <1>2, AcceptedOptions DEF Exchange!Configured
<1>4. /\ i.key = i.did
      /\ i.algorithms # <<>> /\ Exchange!Elements(i.algorithms) \subseteq Exchange!Supported
      /\ i.status \in {"active", "revoked", "suspended", "terminated"}
      /\ i.url = [scheme |-> "https", of |-> i.did]
  BY AcceptedOptions DEF Exchange!Made
<1>5. SUFFICES ASSUME ~(provider.loopback /\ options.host = "loopback"), i.did.id # "odd"
               PROVE  FALSE
  OBVIOUS
<1>6. Exchange!DocumentUrl(i.did, provider.loopback) = [scheme |-> "https", of |-> i.did]
  BY <1>2, <1>3, <1>5 DEF Exchange!DocumentUrl, Exchange!ProperSegment
<1>7. [scheme |-> "https", of |-> i.did] # None
  <2>1. i.did \in Dids
    BY <1>1 DEF Dids, Exchange!Configured
  <2>2. QED
    BY <2>1, NoneIsNothing DEF Urls
<1>8. QED
  BY <1>4, <1>6, <1>7 DEF Exchange!ValidIdentity

\* An Agent refuses a discovery document of its Platform only for its paths.
LEMMA DiscoveryRead ==
    ASSUME Exchange!Configured, ~Exchange!ValidDiscovery(Exchange!Published, provider.loopback)
    PROVE  Exchange!OddPaths(Exchange!Published)
<1> DEFINE d == Exchange!Published
<1>1. options \in Options /\ Exchange!Accepts(options)
  BY DEF Exchange!Configured
<1>2. Exchange!Discovery(options) # None
  BY <1>1 DEF Exchange!Accepts
<1>3. d = [paths |-> options.paths, verification |-> options.verification, base |-> options.base,
           template |-> options.template, host |-> options.host, name |-> options.name,
           did |-> options.did, hosted |-> options.hosted, algorithms |-> options.algorithms,
           lifetime |-> options.default]
  BY <1>2 DEF Exchange!Published, Exchange!Discovery
<1>4. /\ Exchange!ValidPath(options.base) /\ \A r \in Exchange!Routes : Exchange!ValidPath(options.paths[r])
      /\ options.hosted = (options.verification # None)
      /\ options.verification # None => Exchange!ValidPath(options.verification)
      /\ options.name # "empty" /\ options.did # "other"
  BY <1>2, NoneIsNothing DEF Exchange!Discovery
<1>5. /\ d.paths = options.paths /\ d.verification = options.verification /\ d.base = options.base
      /\ d.template = options.template /\ d.host = options.host /\ d.name = options.name
      /\ d.did = options.did /\ d.hosted = options.hosted /\ d.algorithms = options.algorithms
      /\ d.lifetime = options.default
  BY <1>3
<1> HIDE DEF d
<1>6. /\ d.name # "empty" /\ d.did # "other" /\ d.hosted = (d.verification # None)
      /\ d.algorithms # <<>> /\ Exchange!Elements(d.algorithms) \subseteq Exchange!Supported
      /\ d.lifetime > 0 /\ d.lifetime <= MaxLifetime
      /\ d.template.holes = 1 /\ d.template.scheme = "https"
  BY <1>1, <1>4, <1>5, AcceptedOptions
<1> DEFINE fixed == {d.paths["list"], d.paths["provision"], d.base}
                        \cup (IF d.verification = None THEN {} ELSE {d.verification})
<1>7. \A p \in fixed \cup {d.paths[r] : r \in Exchange!Routes} : Exchange!ValidPath(p)
  BY <1>4, <1>5 DEF Exchange!Routes
<1>8. SUFFICES ASSUME ~Exchange!OddPaths(d) PROVE Exchange!ValidDiscovery(d, provider.loopback)
  BY DEF d
<1>9. /\ d.paths["lifecycle"].holes = 1 /\ d.paths["sign"].holes = 1
      /\ \A p \in fixed : p.holes = 0 /\ ~p.braces
  BY <1>8 DEF Exchange!OddPaths, Exchange!Sloppy
<1> HIDE DEF fixed
<1>10. QED
  BY <1>6, <1>7, <1>9 DEF Exchange!ValidDiscovery, fixed

\* Of a document it has read, it goes by no endpoint for its paths only.
LEMMA EndpointRead ==
    ASSUME NEW d, NEW loopback, Exchange!ValidDiscovery(d, loopback),
           NEW verb \in {"list", "provision", "sign"},
           ~Exchange!ValidEndpoint(d.paths[verb], verb = "sign")
    PROVE  Exchange!OddPaths(d)
<1>1. verb \in Exchange!Routes
  BY DEF Exchange!Routes
<1>2. Exchange!ValidPath(d.paths[verb])
  BY <1>1 DEF Exchange!ValidDiscovery
<1>3. QED
  BY <1>1, <1>2 DEF Exchange!ValidEndpoint, Exchange!OddPaths, Exchange!Sloppy

\* The list of the one identity, or of none, is refused for the identity only.
LEMMA ListRead ==
    ASSUME NEW a, a.count = Exchange!Cardinality(a.data), a.total >= a.count,
           NEW loopback, ~Exchange!ValidList(a, loopback)
    PROVE  \E i \in a.data : ~Exchange!ValidIdentity(i, loopback)
BY DEF Exchange!ValidList

\* A Service that has got an assertion of the Agent's finds the key that its identity signs
\* with, if it looks where the Platform has it and is told what the key is.
LEMMA KeyFound ==
    ASSUME Exchange!Configured, Exchange!RecordMade, Exchange!OnRecord(saved),
           Exchange!ValidIdentity(saved, provider.loopback),
           record.status = "active", Exchange!WellDescribed(record.method, record.algorithms),
           NEW loopback, ~(loopback /\ record.did.host = "loopback")
    PROVE  LET url == Exchange!DocumentUrl(saved.did, loopback) IN
           /\ url # None
           /\ Exchange!Resolves(saved.did, saved.key, record.method.jwk.type, Exchange!PublishedAt(url))
<1> DEFINE url == Exchange!DocumentUrl(saved.did, loopback)
           jwk == record.method.jwk
<1>1. /\ Exchange!Made(saved) /\ Exchange!Made(record) /\ saved.did = record.did
      /\ record.url = [scheme |-> "https", of |-> record.did]
      /\ saved.key = saved.did /\ record.key = record.did /\ record.method \in Methods
  BY DEF Exchange!OnRecord, Exchange!RecordMade, Exchange!Made
<1>2. record.did \in Dids
  BY <1>1 DEF Dids, Exchange!Made, Exchange!Configured
<1>3. record.url # None
  BY <1>1, <1>2, NoneIsNothing DEF Urls
<1>4. Exchange!ProperHost(saved.did.host) /\ Exchange!ProperSegment(saved.did.prefix)
      /\ Exchange!ProperSegment(saved.did.id)
  BY DEF Exchange!ValidIdentity, Exchange!DocumentUrl
<1>5. url = record.url
  BY <1>1, <1>4 DEF Exchange!DocumentUrl
<1> HIDE DEF url
<1>6. Exchange!PublishedAt(url) = Exchange!DidDocument(record)
  BY <1>5 DEF Exchange!PublishedAt
<1>7. /\ jwk.private = {} /\ jwk.kid # "other" /\ jwk.use \in {None, "sig"}
      /\ jwk.type \in Exchange!Elements(record.algorithms) /\ jwk.alg \in {None, jwk.type}
      /\ jwk.ops # None => "verify" \in jwk.ops
  BY DEF Exchange!WellDescribed
<1>8. Exchange!Publishable(jwk, record)
  BY <1>7 DEF Exchange!Publishable
<1>9. Exchange!PublishedAt(url) = [id |-> record.did, methods |-> {[id |-> record.key, jwk |-> jwk]}]
  BY <1>6, <1>8 DEF Exchange!DidDocument, Exchange!WellDescribed
<1> DEFINE document == [id |-> record.did, methods |-> {[id |-> record.key, jwk |-> jwk]}]
<1>10. document # None
  <2>1. [id |-> record.key, jwk |-> jwk] \in [id : Dids, jwk : {m.jwk : m \in Methods}]
    BY <1>1, <1>2
  <2>2. document \in DidDocuments
    BY <1>2, <2>1 DEF DidDocuments
  <2>3. QED
    BY <2>2, NoneIsNothing
<1>11. document.id = saved.did /\ [id |-> record.key, jwk |-> jwk] \in document.methods
  BY <1>1
<1> HIDE DEF document
<1> DEFINE entry == [id |-> record.key, jwk |-> jwk]
<1>12. entry.id = saved.key /\ entry.jwk = jwk
  BY <1>1
<1> HIDE DEF entry
<1>13. Exchange!ValidKey(jwk, jwk.type)
  BY <1>7 DEF Exchange!ValidKey
<1>14. entry \in document.methods
  BY <1>11 DEF entry
<1>15. Exchange!Resolves(saved.did, saved.key, jwk.type, document)
  BY <1>1, <1>10, <1>11, <1>12, <1>13, <1>14 DEF Exchange!Resolves
<1>16. QED
  BY <1>3, <1>5, <1>9, <1>15 DEF url, document

----------------------------------------------------------------------------
\* One lemma for each kind of step

LEMMA InitExchange == Exchange!Init => Exchange!PlatformInvariant
BY DEF Exchange!Init, Exchange!PlatformInvariant, Exchange!Configured, Exchange!RecordMade,
       Exchange!SavedRead, Exchange!CacheRead, Exchange!CallMade, Exchange!ExchangesExplained,
       Exchange!AnswersRead, Exchange!RequestsServed, Exchange!KeysResolved, Exchange!At

\* Whatever changes neither the parties nor what they have of each other keeps the first part.
LEMMA HeldStep ==
    ASSUME Exchange!PlatformInvariant, UNCHANGED <<options, record, provider, saved, cache>>
    PROVE  /\ Exchange!Configured' /\ Exchange!RecordMade' /\ Exchange!SavedRead'
           /\ Exchange!CacheRead'
BY DEF Exchange!PlatformInvariant, Exchange!Configured, Exchange!RecordMade, Exchange!SavedRead,
       Exchange!CacheRead, Exchange!OnRecord, Exchange!Made

LEMMA BeginStep ==
    ASSUME Exchange!PlatformInvariant, Exchange!Resolve \/ Exchange!Sign
    PROVE  Exchange!PlatformInvariant'
<1>1. UNCHANGED <<options, record, provider, saved, cache>>
  BY DEF Exchange!Resolve, Exchange!Sign, Exchange!Begin, Exchange!platformVars
<1>2. /\ DOMAIN call' = {"op", "step", "verb", "claims", "loopback", "document", "answer",
                         "stages", "outcome", "moved", "inactive"}
      /\ call'.step = "discover"
      /\ call'.inactive = (record # None /\ record.status # "active")
      /\ \/ call'.verb = "list"
         \/ call'.verb = "sign" /\ call'.claims \in Claims /\ saved # None
  <2>1. CASE Exchange!Resolve
    BY <2>1 DEF Exchange!Resolve, Exchange!Begin, Exchange!NewCall
  <2>2. CASE Exchange!Sign
    BY <2>2 DEF Exchange!Sign, Exchange!Owned, Exchange!Begin, Exchange!NewCall
  <2>3. QED
    BY <2>1, <2>2
<1>3. Exchange!CallMade'
  BY <1>1, <1>2 DEF Exchange!CallMade
<1>4. (Exchange!ExchangesExplained /\ Exchange!KeysResolved)'
  BY <1>2 DEF Exchange!ExchangesExplained, Exchange!AnswersRead, Exchange!RequestsServed,
              Exchange!KeysResolved, Exchange!At
<1>5. QED
  BY <1>1, <1>3, <1>4, HeldStep DEF Exchange!PlatformInvariant

\* A discovery document that the Agent has read
LEMMA GoByStep ==
    ASSUME Exchange!PlatformInvariant, UNCHANGED <<options, record, provider, saved>>,
           Exchange!At("discover"), NEW d, Exchange!ValidDiscovery(d, provider.loopback),
           Exchange!GoBy(d), Exchange!CacheRead'
    PROVE  Exchange!PlatformInvariant'
<1>1. /\ call # None /\ call.step = "discover"
      /\ DOMAIN call = {"op", "step", "verb", "claims", "loopback", "document", "answer",
                        "stages", "outcome", "moved", "inactive"}
      /\ call.verb \in {"list", "provision", "sign"}
      /\ call.verb = "sign" => saved # None /\ call.claims \in Claims
      /\ record # None /\ record.status # "active" => call.inactive
  BY DEF Exchange!PlatformInvariant, Exchange!CallMade, Exchange!At
<1> DEFINE ok == Exchange!ValidEndpoint(d.paths[call.verb], call.verb = "sign")
<1>2. /\ DOMAIN call' = DOMAIN call /\ call'.verb = call.verb /\ call'.claims = call.claims
      /\ call'.inactive = call.inactive /\ call'.document = d
      /\ call'.step = IF ok THEN "command" ELSE "ended"
      /\ call'.outcome = IF ok THEN None ELSE "unread"
  BY <1>1 DEF Exchange!GoBy
<1>3. ~ok => Exchange!OddPaths(d)
  BY <1>1, EndpointRead
<1> HIDE DEF ok
<1>4. Exchange!CallMade'
  BY <1>1, <1>2 DEF Exchange!CallMade
<1>5. (Exchange!ExchangesExplained /\ Exchange!KeysResolved)'
  <2>1. Exchange!AnswersRead'
    <3>1. CASE ok
      BY <1>2, <3>1 DEF Exchange!AnswersRead, Exchange!At
    <3>2. CASE ~ok
      <4>1. Exchange!UnreadExplained'
        BY <1>2, <1>3, <3>2 DEF Exchange!UnreadExplained, Exchange!OddPaths
      <4>2. QED
        BY <4>1 DEF Exchange!AnswersRead
    <3>3. QED
      BY <3>1, <3>2
  <2>2. (Exchange!RequestsServed /\ Exchange!KeysResolved)'
    BY <1>2 DEF Exchange!RequestsServed, Exchange!KeysResolved, Exchange!At
  <2>3. QED
    BY <2>1, <2>2 DEF Exchange!ExchangesExplained
<1>6. (Exchange!Configured /\ Exchange!RecordMade /\ Exchange!SavedRead)'
  BY DEF Exchange!PlatformInvariant, Exchange!Configured, Exchange!RecordMade,
         Exchange!SavedRead, Exchange!OnRecord, Exchange!Made
<1>7. QED
  BY <1>4, <1>5, <1>6 DEF Exchange!PlatformInvariant

LEMMA DiscoverStep ==
    ASSUME Exchange!PlatformInvariant, Exchange!DiscoverCached \/ Exchange!Discover
    PROVE  Exchange!PlatformInvariant'
<1>1. CASE Exchange!DiscoverCached
  <2>1. /\ UNCHANGED <<options, record, provider, cache, saved>>
        /\ Exchange!At("discover") /\ cache # None /\ Exchange!GoBy(cache.document)
    BY <1>1 DEF Exchange!DiscoverCached, Exchange!Fresh, Exchange!platformVars
  <2>2. Exchange!CacheRead' /\ Exchange!ValidDiscovery(cache.document, provider.loopback)
    BY <2>1, HeldStep DEF Exchange!PlatformInvariant, Exchange!CacheRead
  <2>3. QED
    BY <2>1, <2>2, GoByStep
<1>2. CASE Exchange!Discover
  <2> DEFINE d == Exchange!Published
  <2>1. /\ UNCHANGED <<options, record, provider, saved>> /\ Exchange!At("discover")
    BY <1>2 DEF Exchange!Discover, Exchange!platformVars
  <2>2. CASE Exchange!ValidDiscovery(d, provider.loopback)
    <3>1. Exchange!GoBy(d) /\ cache' = [document |-> d, fresh |-> TRUE]
      BY <1>2, <2>2 DEF Exchange!Discover
    <3> HIDE DEF d
    <3>2. DOMAIN cache' = {"document", "fresh"} /\ cache'.document = d
      BY <3>1
    <3>3. Exchange!CacheRead'
      BY <2>1, <2>2, <3>2 DEF Exchange!CacheRead
    <3>4. QED
      BY <2>1, <2>2, <3>1, <3>3, GoByStep
  <2>3. CASE ~Exchange!ValidDiscovery(d, provider.loopback)
    <3>1. /\ call' = [call EXCEPT !.document = d, !.step = "ended", !.outcome = "unread"]
          /\ UNCHANGED cache
      BY <1>2, <2>3 DEF Exchange!Discover
    <3>2. Exchange!OddPaths(d)
      BY <2>3, DiscoveryRead DEF Exchange!PlatformInvariant
    <3> HIDE DEF d
    <3>3. /\ call # None /\ call.step = "discover"
          /\ DOMAIN call = {"op", "step", "verb", "claims", "loopback", "document", "answer",
                            "stages", "outcome", "moved", "inactive"}
          /\ call.verb \in {"list", "provision", "sign"}
          /\ call.verb = "sign" => saved # None /\ call.claims \in Claims
          /\ record # None /\ record.status # "active" => call.inactive
      BY <2>1 DEF Exchange!PlatformInvariant, Exchange!CallMade, Exchange!At
    <3>4. /\ DOMAIN call' = DOMAIN call /\ call'.verb = call.verb /\ call'.claims = call.claims
          /\ call'.inactive = call.inactive /\ call'.document = d
          /\ call'.step = "ended" /\ call'.outcome = "unread"
      BY <3>1, <3>3
    <3>5. Exchange!CallMade'
      BY <2>1, <3>3, <3>4 DEF Exchange!CallMade
    <3>6. Exchange!AnswersRead'
      BY <3>2, <3>4 DEF Exchange!AnswersRead, Exchange!UnreadExplained, Exchange!OddPaths
    <3>7. (Exchange!RequestsServed /\ Exchange!KeysResolved)'
      BY <3>4 DEF Exchange!RequestsServed, Exchange!KeysResolved
    <3>8. QED
      BY <2>1, <3>1, <3>5, <3>6, <3>7, HeldStep
      DEF Exchange!PlatformInvariant, Exchange!ExchangesExplained
  <2>4. QED
    BY <2>2, <2>3
<1>3. QED
  BY <1>1, <1>2

\* The end of a call of the Agent, which has read whatever was answered
LEMMA EndStep ==
    ASSUME Exchange!PlatformInvariant, UNCHANGED <<options, record, provider, cache>>,
           call # None, call.step \in {"discover", "read"},
           NEW outcome, outcome # "unresolved", Exchange!End(outcome),
           outcome = "unread" => Exchange!UnreadExplained,
           outcome = "refused" => Exchange!RefusalExplained(call.answer),
           Exchange!SavedRead', call.verb = "sign" /\ saved # None => saved' # None
    PROVE  Exchange!PlatformInvariant'
<1>1. /\ DOMAIN call = {"op", "step", "verb", "claims", "loopback", "document", "answer",
                        "stages", "outcome", "moved", "inactive"}
      /\ call.verb \in {"list", "provision", "sign"}
      /\ call.verb = "sign" => saved # None /\ call.claims \in Claims
      /\ record # None /\ record.status # "active" => call.inactive
  BY DEF Exchange!PlatformInvariant, Exchange!CallMade
<1>2. /\ DOMAIN call' = DOMAIN call /\ call'.verb = call.verb /\ call'.claims = call.claims
      /\ call'.inactive = call.inactive /\ call'.document = call.document
      /\ call'.answer = call.answer /\ call'.moved = call.moved
      /\ call'.step = "ended" /\ call'.outcome = outcome
  BY <1>1 DEF Exchange!End
<1>3. Exchange!CallMade'
  BY <1>1, <1>2 DEF Exchange!CallMade
<1>4. Exchange!AnswersRead'
  <2>1. SUFFICES ASSUME outcome = "unread" PROVE Exchange!UnreadExplained'
    BY <1>2 DEF Exchange!AnswersRead
  <2>2. Exchange!UnreadExplained
    BY <2>1
  <2>3. QED
    BY <1>2, <2>2 DEF Exchange!UnreadExplained, Exchange!OddPaths
<1>5. Exchange!RequestsServed'
  <2>1. SUFFICES ASSUME outcome = "refused" PROVE Exchange!RefusalExplained(call.answer)'
    BY <1>2 DEF Exchange!RequestsServed
  <2>2. Exchange!RefusalExplained(call.answer)
    BY <2>1
  <2>3. Exchange!Published' = Exchange!Published
    BY DEF Exchange!Published
  <2>4. QED
    BY <1>2, <2>2, <2>3 DEF Exchange!RefusalExplained, Exchange!IsDid
<1>6. Exchange!KeysResolved'
  BY <1>2 DEF Exchange!KeysResolved
<1>7. (Exchange!Configured /\ Exchange!RecordMade /\ Exchange!CacheRead)'
  BY DEF Exchange!PlatformInvariant, Exchange!Configured, Exchange!RecordMade,
         Exchange!CacheRead, Exchange!Made
<1>8. QED
  BY <1>3, <1>4, <1>5, <1>6, <1>7 DEF Exchange!PlatformInvariant, Exchange!ExchangesExplained

LEMMA LoseStep ==
    ASSUME Exchange!PlatformInvariant, Exchange!Lose
    PROVE  Exchange!PlatformInvariant'
<1>1. /\ UNCHANGED <<options, record, provider, cache, saved>>
      /\ call # None /\ call.step \in {"discover", "read"} /\ Exchange!End("lost")
  BY DEF Exchange!Lose, Exchange!At, Exchange!platformVars
<1>2. QED
  BY <1>1, HeldStep, EndStep

\* The Platform answers a, and has the identity made or leaves it as it is.
LEMMA SaysStep ==
    ASSUME Exchange!PlatformInvariant, Exchange!At("command"), NEW a, Exchange!Says(a),
           \/ record' = record
           \/ record = None /\ Exchange!RecordMade' /\ record'.status = "active",
           call.verb = "list" /\ a.status \in 200..299 =>
               /\ a.type = "aep"
               /\ a.count = Exchange!Cardinality(a.data) /\ a.total >= a.count
               /\ \A i \in a.data : Exchange!OnRecord(i)',
           call.verb = "provision" /\ a.status \in 200..299 =>
               /\ a.type = "aep"
               /\ \A i \in a.data : Exchange!OnRecord(i)' /\ (i.status # "active" => call.inactive),
           call.verb = "sign" /\ a.status \in 200..299 =>
               \/ a.type = "aep" /\ a.body = "completed" /\ Exchange!ReadCompleted(a, call.claims.lifetime)
               \/ a.type = "aep" /\ a.body = "pending" /\ Exchange!ReadPending(a)
               \/ a.type # "aep" /\ a \in Handled,
           a.status \notin 200..299 /\ a.status # 500 => Exchange!RefusalExplained(a)
    PROVE  Exchange!PlatformInvariant'
<1>1. /\ call # None /\ call.step = "command"
      /\ DOMAIN call = {"op", "step", "verb", "claims", "loopback", "document", "answer",
                        "stages", "outcome", "moved", "inactive"}
      /\ call.verb \in {"list", "provision", "sign"}
      /\ call.verb = "sign" => saved # None /\ call.claims \in Claims
      /\ record # None /\ record.status # "active" => call.inactive
  BY DEF Exchange!PlatformInvariant, Exchange!CallMade, Exchange!At
<1>2. /\ call' = [call EXCEPT !.step = "read", !.answer = a]
      /\ UNCHANGED <<options, provider, cache, saved>>
  BY DEF Exchange!Says
<1>3. /\ DOMAIN call' = DOMAIN call /\ call'.verb = call.verb /\ call'.claims = call.claims
      /\ call'.inactive = call.inactive /\ call'.document = call.document
      /\ call'.moved = call.moved /\ call'.step = "read" /\ call'.answer = a
  BY <1>1, <1>2
<1>4. Exchange!RecordMade'
  BY <1>2 DEF Exchange!PlatformInvariant, Exchange!RecordMade, Exchange!Made
<1>5. Exchange!SavedRead'
  <2>1. saved # None => Exchange!OnRecord(saved) /\ Exchange!ValidIdentity(saved, provider.loopback)
    BY DEF Exchange!PlatformInvariant, Exchange!SavedRead
  <2>2. saved # None => record' = record
    BY <2>1 DEF Exchange!OnRecord
  <2>3. QED
    BY <1>2, <2>1, <2>2 DEF Exchange!SavedRead, Exchange!OnRecord, Exchange!Made
<1>6. (Exchange!Configured /\ Exchange!CacheRead)'
  BY <1>2 DEF Exchange!PlatformInvariant, Exchange!Configured, Exchange!CacheRead
<1>7. Exchange!RefusalExplained(a) => Exchange!RefusalExplained(call.answer)'
  <2>1. Exchange!Published' = Exchange!Published
    BY <1>2 DEF Exchange!Published
  <2>2. QED
    BY <1>2, <1>3, <2>1 DEF Exchange!RefusalExplained, Exchange!IsDid
<1>8. Exchange!AnswerMade(call.answer)'
  BY <1>3, <1>7 DEF Exchange!AnswerMade, Exchange!ReadCompleted, Exchange!ReadPending
<1>9. record' # None /\ record'.status # "active" => call'.inactive
  BY <1>1, <1>3
<1>10. Exchange!CallMade'
  BY <1>1, <1>2, <1>3, <1>8, <1>9 DEF Exchange!CallMade
<1>11. (Exchange!ExchangesExplained /\ Exchange!KeysResolved)'
  BY <1>3 DEF Exchange!ExchangesExplained, Exchange!AnswersRead, Exchange!RequestsServed,
              Exchange!KeysResolved, Exchange!At
<1>12. QED
  BY <1>4, <1>5, <1>6, <1>10, <1>11 DEF Exchange!PlatformInvariant

\* What a refusal, a failure and a success of the Platform look like
LEMMA AnswersLookLike ==
    /\ \A status : Exchange!Problem(status).status = status
    /\ Exchange!Broken.status = 500
    /\ \A body : LET a == Exchange!Success(body) IN
         a.status = 200 /\ a.type = "aep" /\ a.body = body
BY DEF Exchange!Problem, Exchange!Broken, Exchange!Success, Exchange!Answer

\* The Platform refuses what it has to.
LEMMA RefuseStep ==
    ASSUME Exchange!PlatformInvariant, Exchange!At("command"), UNCHANGED record,
           NEW status \in {400, 403, 404}, NEW a, a.status = status, Exchange!Says(a),
           Exchange!RefusalExplained(a)
    PROVE  Exchange!PlatformInvariant'
BY SaysStep

\* It fails.
LEMMA FailStep ==
    ASSUME Exchange!PlatformInvariant, Exchange!At("command"), UNCHANGED record,
           Exchange!Says(Exchange!Broken)
    PROVE  Exchange!PlatformInvariant'
<1> DEFINE a == Exchange!Broken
<1>1. a.status = 500 /\ Exchange!Says(a)
  BY AnswersLookLike
<1> HIDE DEF a
<1>2. a.status \notin 200..299
  BY <1>1
<1>3. QED
  BY <1>1, <1>2, SaysStep

LEMMA ElsewhereStep ==
    ASSUME Exchange!PlatformInvariant, Exchange!Elsewhere
    PROVE  Exchange!PlatformInvariant'
<1> DEFINE a == Exchange!Answer(404, None, "error")
<1>1. Exchange!At("command") /\ ~Exchange!Serving(call.verb) /\ Exchange!Says(a) /\ UNCHANGED record
  BY DEF Exchange!Elsewhere
<1>2. a.status = 404
  BY DEF Exchange!Answer
<1> HIDE DEF a
<1>3. call.document.paths[call.verb] # options.paths[call.verb]
  BY <1>1 DEF Exchange!Serving
<1>4. Exchange!Published.paths = options.paths
  BY DEF Exchange!PlatformInvariant, Exchange!Configured, Exchange!Accepts, Exchange!Published,
         Exchange!Discovery
<1>5. Exchange!RefusalExplained(a)
  BY <1>3, <1>4 DEF Exchange!RefusalExplained
<1>6. QED
  BY <1>1, <1>2, <1>5, RefuseStep

\* The identity on record is one to answer with.
LEMMA RecordAnswers ==
    ASSUME Exchange!PlatformInvariant, UNCHANGED <<options, record, provider>>, record # None
    PROVE  Exchange!OnRecord(record)'
BY DEF Exchange!PlatformInvariant, Exchange!RecordMade, Exchange!OnRecord, Exchange!Made

LEMMA ListStep ==
    ASSUME Exchange!PlatformInvariant, Exchange!List
    PROVE  Exchange!PlatformInvariant'
<1> DEFINE found == IF record = None THEN {} ELSE {record}
           n == Exchange!Cardinality(found)
           a == [Exchange!Success("list") EXCEPT !.data = found, !.count = n, !.total = n]
<1>1. /\ Exchange!At("command") /\ call.verb = "list" /\ UNCHANGED record
      /\ Exchange!Says(IF ~Exchange!IsDid THEN Exchange!Problem(400)
                       ELSE IF ~options.authorizes THEN Exchange!Problem(404) ELSE a)
  BY DEF Exchange!List, Exchange!Serving
<1>2. CASE ~Exchange!IsDid
  <2>1. Exchange!Says(Exchange!Problem(400)) /\ Exchange!RefusalExplained(Exchange!Problem(400))
    BY <1>1, <1>2 DEF Exchange!RefusalExplained
  <2>2. QED
    BY <1>1, <2>1, AnswersLookLike, RefuseStep
<1>3. CASE Exchange!IsDid /\ ~options.authorizes
  <2>1. Exchange!Says(Exchange!Problem(404)) /\ Exchange!RefusalExplained(Exchange!Problem(404))
    BY <1>1, <1>3 DEF Exchange!RefusalExplained
  <2>2. QED
    BY <1>1, <2>1, AnswersLookLike, RefuseStep
<1>4. CASE Exchange!IsDid /\ options.authorizes
  <2>1. Exchange!Says(a)
    BY <1>1, <1>4
  <2>2. a.status = 200 /\ a.type = "aep" /\ a.data = found /\ a.count = n /\ a.total = n
    BY DEF Exchange!Success, Exchange!Answer
  <2>3. n \in Nat
    BY SameCardinality, FS_EmptySet, FS_Singleton
  <2>4. \A i \in found : Exchange!OnRecord(i)'
    <3>1. UNCHANGED <<options, provider>>
      BY <2>1 DEF Exchange!Says
    <3>2. QED
      BY <1>1, <3>1, RecordAnswers
  <2> HIDE DEF a
  <2>5. a.count = Exchange!Cardinality(a.data) /\ a.total >= a.count
    BY <2>2, <2>3
  <2>6. \A i \in a.data : Exchange!OnRecord(i)'
    BY <2>2, <2>4
  <2> HIDE DEF n, found
  <2>7. a.status \in 200..299
    BY <2>2
  <2>8. QED
    BY <1>1, <2>1, <2>2, <2>5, <2>6, <2>7, SaysStep
<1>5. QED
  BY <1>2, <1>3, <1>4

LEMMA ProvisionStep ==
    ASSUME Exchange!PlatformInvariant, Exchange!Provision
    PROVE  Exchange!PlatformInvariant'
<1>1. /\ Exchange!At("command") /\ call.verb = "provision"
      /\ IF ~Exchange!IsDid THEN Exchange!Refuse(400)
         ELSE IF ~options.authorizes THEN Exchange!Refuse(404)
         ELSE IF ~options.resolves THEN Exchange!Refuse(400)
         ELSE Exchange!Provide
  BY DEF Exchange!Provision, Exchange!Serving
<1>2. ASSUME NEW status \in {400, 404}, Exchange!Refuse(status),
             ~Exchange!IsDid \/ ~options.authorizes \/ ~options.resolves
      PROVE  Exchange!PlatformInvariant'
  <2>1. /\ Exchange!Says(Exchange!Problem(status)) /\ UNCHANGED record
        /\ Exchange!RefusalExplained(Exchange!Problem(status))
    BY <1>1, <1>2 DEF Exchange!Refuse, Exchange!RefusalExplained
  <2>2. QED
    BY <1>1, <2>1, AnswersLookLike, RefuseStep
<1>3. CASE record # None /\ UNCHANGED record
           /\ Exchange!Says([Exchange!Success("identity") EXCEPT !.data = {record}])
  <2> DEFINE a == [Exchange!Success("identity") EXCEPT !.data = {record}]
  <2>1. a.status = 200 /\ a.type = "aep" /\ a.data = {record} /\ Exchange!Says(a)
    BY <1>3 DEF Exchange!Success, Exchange!Answer
  <2> HIDE DEF a
  <2>2. UNCHANGED <<options, provider>>
    BY <2>1 DEF Exchange!Says
  <2>3. Exchange!OnRecord(record)'
    BY <1>3, <2>2, RecordAnswers
  <2>4. record.status # "active" => call.inactive
    BY <1>1, <1>3 DEF Exchange!PlatformInvariant, Exchange!CallMade, Exchange!At
  <2>5. \A i \in a.data : Exchange!OnRecord(i)' /\ (i.status # "active" => call.inactive)
    BY <1>3, <2>1, <2>3, <2>4 DEF Exchange!OnRecord
  <2>6. a.status \in 200..299
    BY <2>1
  <2>7. QED
    BY <1>1, <1>3, <2>1, <2>5, <2>6, SaysStep
<1>4. CASE Exchange!Says(Exchange!Broken) /\ UNCHANGED record
  BY <1>1, <1>4, FailStep
<1>5. ASSUME record = None, NEW id \in Ids, NEW m \in Methods,
             LET new == Exchange!Identity(options, id, provider.service, m) IN
             /\ record' = new
             /\ Exchange!Says(IF new = None THEN Exchange!Broken
                              ELSE [Exchange!Success("identity") EXCEPT !.data = {new}])
      PROVE  Exchange!PlatformInvariant'
  <2> DEFINE new == Exchange!Identity(options, id, provider.service, m)
             a == [Exchange!Success("identity") EXCEPT !.data = {new}]
  <2>1. CASE new = None
    BY <1>1, <1>5, <2>1, FailStep
  <2>2. CASE new # None
    <3>1. Exchange!Made(new) /\ new.status = "active"
      BY <2>2, IdentityMade DEF Exchange!PlatformInvariant
    <3>2. a.status = 200 /\ a.type = "aep" /\ a.data = {new} /\ Exchange!Says(a) /\ record' = new
      BY <1>5, <2>2 DEF Exchange!Success, Exchange!Answer
    <3> HIDE DEF a
    <3>3. UNCHANGED <<options, provider>>
      BY <3>2 DEF Exchange!Says
    <3>4. record'.status = "active" /\ record' # None
      BY <2>2, <3>1, <3>2
    <3> HIDE DEF new
    <3>5. Exchange!Made(record)'
      BY <3>1, <3>2, <3>3 DEF Exchange!Made
    <3>6. Exchange!RecordMade' /\ Exchange!OnRecord(record)'
      BY <3>4, <3>5 DEF Exchange!RecordMade, Exchange!OnRecord
    <3>7. \A i \in a.data : Exchange!OnRecord(i)' /\ (i.status # "active" => call.inactive)
      BY <3>2, <3>4, <3>6 DEF Exchange!OnRecord
    <3>8. a.status \in 200..299
      BY <3>2
    <3>9. QED
      BY <1>1, <1>5, <3>2, <3>4, <3>6, <3>7, <3>8, SaysStep
  <2>3. QED
    BY <2>1, <2>2
<1>6. CASE Exchange!Provide
  <2>1. CASE record = None /\ \E id \in Ids, m \in Methods :
               LET new == Exchange!Identity(options, id, provider.service, m) IN
               /\ record' = new
               /\ Exchange!Says(IF new = None THEN Exchange!Broken
                                ELSE [Exchange!Success("identity") EXCEPT !.data = {new}])
    BY <1>5, <2>1
  <2>2. QED
    BY <1>3, <1>4, <1>6, <2>1 DEF Exchange!Provide
<1>7. QED
  BY <1>1, <1>2, <1>6

LEMMA SignStep ==
    ASSUME Exchange!PlatformInvariant, Exchange!SignAssertion
    PROVE  Exchange!PlatformInvariant'
<1>1. /\ Exchange!At("command") /\ call.verb = "sign" /\ UNCHANGED record
      /\ saved # None /\ call.claims \in Claims /\ options \in Options
  BY DEF Exchange!SignAssertion, Exchange!Serving, Exchange!PlatformInvariant, Exchange!CallMade,
         Exchange!At, Exchange!Configured
<1>2. /\ call.claims.lifetime \in Nat \ {0} /\ options.maximum \in Nat /\ MaxLifetime \in Nat
      /\ options.maximum <= MaxLifetime
  BY <1>1, LifetimesAreNumbers, AcceptedOptions DEF Exchange!PlatformInvariant, Exchange!Configured
<1>3. ASSUME NEW status \in {400, 403, 404}, Exchange!Says(Exchange!Problem(status)),
             Exchange!RefusalExplained(Exchange!Problem(status))
      PROVE  Exchange!PlatformInvariant'
  BY <1>1, <1>3, AnswersLookLike, RefuseStep
<1>4. CASE ~Exchange!ServableClaims(call.claims) /\ Exchange!Says(Exchange!Problem(400))
  <2>1. call.claims.resource = "http" \/ call.claims.lifetime > options.maximum
    BY <1>2, <1>4 DEF Exchange!ServableClaims, Exchange!ValidLifetime
  <2>2. QED
    BY <1>1, <1>3, <1>4, <2>1 DEF Exchange!RefusalExplained
<1>5. CASE ~options.authorizes /\ Exchange!Says(Exchange!Problem(404))
  BY <1>3, <1>5 DEF Exchange!RefusalExplained
<1>6. CASE record.status # "active" /\ Exchange!Says(Exchange!Problem(403))
  <2>1. record # None
    BY <1>1 DEF Exchange!PlatformInvariant, Exchange!SavedRead, Exchange!OnRecord
  <2>2. call.inactive
    BY <1>1, <1>6, <2>1 DEF Exchange!PlatformInvariant, Exchange!CallMade, Exchange!At
  <2>3. QED
    BY <1>1, <1>3, <1>6, <2>2 DEF Exchange!RefusalExplained
<1>7. CASE Exchange!Says(Exchange!Broken)
  BY <1>1, <1>7, FailStep
<1>8. CASE Exchange!Says(Exchange!Completed(call.claims.lifetime))
  <2> DEFINE l == call.claims.lifetime
             a == Exchange!Completed(l)
  <2>1. /\ a.status = 200 /\ a.type = "aep" /\ a.body = "completed" /\ a.assertion
        /\ a.names = "own" /\ a.lifetime = l /\ Exchange!Says(a)
    BY <1>8 DEF Exchange!Completed, Exchange!Success, Exchange!Answer
  <2> HIDE DEF a
  <2>2. Exchange!ReadCompleted(a, call.claims.lifetime)
    BY <1>2, <2>1 DEF Exchange!ReadCompleted
  <2>3. a.status \in 200..299
    BY <2>1
  <2>4. QED
    BY <1>1, <2>1, <2>2, <2>3, SaysStep
<1>9. ASSUME NEW h \in Handled, options.handles, Exchange!Says(Exchange!FromHandler(h))
      PROVE  Exchange!PlatformInvariant'
  <2>1. CASE ~(Exchange!ValidHandled(h, call.claims.lifetime) /\ Exchange!Restorable(h))
    BY <1>1, <1>7, <1>9, <2>1 DEF Exchange!FromHandler
  <2>2. CASE Exchange!ValidHandled(h, call.claims.lifetime) /\ Exchange!Restorable(h)
    <3>1. Exchange!Says(h)
      BY <1>9, <2>2 DEF Exchange!FromHandler
    <3>2. Exchange!RefusalExplained(h)
      BY <1>9 DEF Exchange!RefusalExplained
    <3>3. \/ h.type = "aep" /\ h.body = "completed" /\ Exchange!ReadCompleted(h, call.claims.lifetime)
          \/ h.type = "aep" /\ h.body = "pending" /\ Exchange!ReadPending(h)
          \/ h.type # "aep"
      BY <1>2, <2>2 DEF Exchange!ValidHandled, Exchange!Restorable, Exchange!ReadCompleted,
                        Exchange!ReadPending
    <3>4. QED
      BY <1>1, <1>9, <3>1, <3>2, <3>3, SaysStep
  <2>3. QED
    BY <2>1, <2>2
<1>10. QED
  BY <1>4, <1>5, <1>6, <1>7, <1>8, <1>9 DEF Exchange!SignAssertion

\* What the Agent has before it when it reads
LEMMA ReadingState ==
    ASSUME Exchange!PlatformInvariant, Exchange!At("read")
    PROVE  /\ call # None /\ call.step = "read"
           /\ DOMAIN call = {"op", "step", "verb", "claims", "loopback", "document", "answer",
                             "stages", "outcome", "moved", "inactive"}
           /\ call.verb \in {"list", "provision", "sign"}
           /\ call.verb = "sign" => saved # None /\ call.claims \in Claims
           /\ record # None /\ record.status # "active" => call.inactive
           /\ Exchange!AnswerMade(call.answer)
BY DEF Exchange!PlatformInvariant, Exchange!CallMade, Exchange!At

LEMMA ReadOtherStep ==
    ASSUME Exchange!PlatformInvariant, Exchange!ReadProblem \/ Exchange!ReadOther
    PROVE  Exchange!PlatformInvariant'
<1>1. Exchange!At("read") /\ UNCHANGED <<options, record, provider, cache, saved>>
  BY DEF Exchange!ReadProblem, Exchange!ReadOther, Exchange!platformVars
<1>2. /\ call # None /\ call.step = "read" /\ call.verb \in {"list", "provision", "sign"}
      /\ Exchange!AnswerMade(call.answer)
  BY <1>1, ReadingState
<1>3. Exchange!SavedRead' /\ (saved # None => saved' # None)
  BY <1>1, HeldStep
<1>4. CASE Exchange!ReadProblem
  <2>1. call.answer.status \notin 200..299
    BY <1>4 DEF Exchange!ReadProblem, Exchange!Served
  <2>2. CASE call.answer.status = 500
    <3>1. Exchange!End("failed")
      BY <1>4, <2>2 DEF Exchange!ReadProblem
    <3>2. QED
      BY <1>1, <1>2, <1>3, <3>1, EndStep
  <2>3. CASE call.answer.status # 500
    <3>1. Exchange!End("refused") /\ Exchange!RefusalExplained(call.answer)
      BY <1>2, <1>4, <2>1, <2>3 DEF Exchange!ReadProblem, Exchange!AnswerMade
    <3>2. QED
      BY <1>1, <1>2, <1>3, <3>1, EndStep
  <2>4. QED
    BY <2>2, <2>3
<1>5. CASE Exchange!ReadOther
  <2>1. call.answer.status \in 200..299 /\ call.answer.type # "aep" /\ Exchange!End("unread")
    BY <1>5 DEF Exchange!ReadOther, Exchange!Served
  <2>2. Exchange!UnreadExplained
    BY <1>2, <2>1 DEF Exchange!AnswerMade, Exchange!UnreadExplained
  <2>3. QED
    BY <1>1, <1>2, <1>3, <2>1, <2>2, EndStep
<1>6. QED
  BY <1>4, <1>5

\* An identity that the Agent has read is kept.
LEMMA KeepStep ==
    ASSUME Exchange!PlatformInvariant, Exchange!At("read"),
           UNCHANGED <<options, record, provider, cache>>,
           call.verb # "sign", NEW i, Exchange!OnRecord(i),
           Exchange!ValidIdentity(i, provider.loopback), Exchange!Keep(i)
    PROVE  Exchange!PlatformInvariant'
<1>1. /\ call # None /\ call.step = "read"
      /\ Exchange!End("identity") /\ saved' = i
  BY ReadingState DEF Exchange!Keep
<1>2. Exchange!SavedRead'
  BY <1>1 DEF Exchange!SavedRead, Exchange!OnRecord, Exchange!Made
<1>3. QED
  BY <1>1, <1>2, EndStep

\* It reads on, in another request of the same call.
LEMMA AgainStep ==
    ASSUME Exchange!PlatformInvariant, Exchange!At("read"),
           UNCHANGED <<options, record, provider, cache, saved>>,
           \/ call' = [call EXCEPT !.step = "discover", !.verb = "provision"]
           \/ call' = [call EXCEPT !.step = "discover", !.stages = @ + 1]
    PROVE  Exchange!PlatformInvariant'
<1>1. /\ DOMAIN call = {"op", "step", "verb", "claims", "loopback", "document", "answer",
                        "stages", "outcome", "moved", "inactive"}
      /\ call # None /\ call.verb \in {"list", "provision", "sign"}
      /\ call.verb = "sign" => saved # None /\ call.claims \in Claims
      /\ record # None /\ record.status # "active" => call.inactive
  BY ReadingState
<1>2. /\ DOMAIN call' = DOMAIN call /\ call'.verb \in {call.verb, "provision"}
      /\ call'.claims = call.claims /\ call'.inactive = call.inactive /\ call'.step = "discover"
  BY <1>1
<1>3. Exchange!CallMade'
  BY <1>1, <1>2 DEF Exchange!CallMade
<1>4. (Exchange!ExchangesExplained /\ Exchange!KeysResolved)'
  BY <1>2 DEF Exchange!ExchangesExplained, Exchange!AnswersRead, Exchange!RequestsServed,
              Exchange!KeysResolved, Exchange!At
<1>5. QED
  BY <1>3, <1>4, HeldStep DEF Exchange!PlatformInvariant

\* What the identity on record is not read for
LEMMA UnreadIdentity ==
    ASSUME Exchange!PlatformInvariant, NEW i, Exchange!OnRecord(i),
           ~Exchange!ValidIdentity(i, provider.loopback)
    PROVE  Exchange!UnreadExplained
<1>1. \/ provider.loopback /\ options.host = "loopback"
      \/ i.did.id = "odd"
  BY IdentityRead DEF Exchange!OnRecord, Exchange!PlatformInvariant
<1>2. QED
  BY <1>1 DEF Exchange!OnRecord, Exchange!UnreadExplained

LEMMA ReadListStep ==
    ASSUME Exchange!PlatformInvariant, Exchange!ReadList
    PROVE  Exchange!PlatformInvariant'
<1> DEFINE a == call.answer
           usable == {i \in a.data : i.service = provider.service /\ i.status = "active"}
<1>1. /\ Exchange!At("read") /\ call.verb = "list" /\ a.status \in 200..299
      /\ UNCHANGED <<options, record, provider, cache>>
      /\ \/ ~Exchange!ValidList(a, provider.loopback) /\ Exchange!End("unread") /\ UNCHANGED saved
         \/ /\ Exchange!ValidList(a, provider.loopback)
            /\ \/ \E i \in usable : Exchange!Keep(i)
               \/ /\ call' = [call EXCEPT !.step = "discover", !.verb = "provision"]
                  /\ UNCHANGED saved
  BY DEF Exchange!ReadList, Exchange!Reading, Exchange!Served, Exchange!platformVars
<1>2. /\ call # None /\ call.step = "read" /\ a.count = Exchange!Cardinality(a.data)
      /\ a.total >= a.count /\ \A i \in a.data : Exchange!OnRecord(i)
  BY <1>1, ReadingState DEF Exchange!AnswerMade
<1>3. CASE ~Exchange!ValidList(a, provider.loopback) /\ Exchange!End("unread") /\ UNCHANGED saved
  <2>1. PICK i \in a.data : ~Exchange!ValidIdentity(i, provider.loopback)
    BY <1>2, <1>3, ListRead
  <2>2. Exchange!UnreadExplained
    BY <1>2, <2>1, UnreadIdentity
  <2>3. Exchange!SavedRead' /\ (saved # None => saved' # None)
    BY <1>1, <1>3, HeldStep
  <2>4. QED
    BY <1>1, <1>2, <1>3, <2>2, <2>3, EndStep
<1>4. ASSUME Exchange!ValidList(a, provider.loopback), NEW i \in usable, Exchange!Keep(i)
      PROVE  Exchange!PlatformInvariant'
  <2>1. i \in a.data /\ Exchange!OnRecord(i) /\ Exchange!ValidIdentity(i, provider.loopback)
    BY <1>2, <1>4 DEF Exchange!ValidList
  <2>2. QED
    BY <1>1, <1>4, <2>1, KeepStep
<1>5. CASE call' = [call EXCEPT !.step = "discover", !.verb = "provision"] /\ UNCHANGED saved
  BY <1>1, <1>5, AgainStep
<1> HIDE DEF usable, a
<1>6. QED
  BY <1>1, <1>3, <1>4, <1>5

LEMMA ReadProvisionedStep ==
    ASSUME Exchange!PlatformInvariant, Exchange!ReadProvisioned
    PROVE  Exchange!PlatformInvariant'
<1>1. /\ Exchange!At("read") /\ call.verb = "provision" /\ call.answer.status \in 200..299
      /\ UNCHANGED <<options, record, provider, cache>>
  BY DEF Exchange!ReadProvisioned, Exchange!Reading, Exchange!Served, Exchange!platformVars
<1>2. PICK i \in call.answer.data :
        IF i.service = provider.service /\ i.status = "active" /\ Exchange!ValidIdentity(i, provider.loopback)
        THEN Exchange!Keep(i) ELSE Exchange!End("unread") /\ UNCHANGED saved
  BY DEF Exchange!ReadProvisioned
<1>3. /\ call # None /\ call.step = "read"
      /\ Exchange!OnRecord(i) /\ (i.status # "active" => call.inactive)
  BY <1>1, ReadingState DEF Exchange!AnswerMade
<1>4. i.service = provider.service
  BY <1>3 DEF Exchange!OnRecord, Exchange!Made
<1>5. CASE i.status = "active" /\ Exchange!ValidIdentity(i, provider.loopback)
  BY <1>1, <1>2, <1>3, <1>4, <1>5, KeepStep
<1>6. CASE ~(i.status = "active" /\ Exchange!ValidIdentity(i, provider.loopback))
  <2>1. Exchange!End("unread") /\ UNCHANGED saved
    BY <1>2, <1>6
  <2>2. Exchange!UnreadExplained
    BY <1>1, <1>3, <1>6, UnreadIdentity DEF Exchange!UnreadExplained
  <2>3. Exchange!SavedRead' /\ (saved # None => saved' # None)
    BY <1>1, <2>1, HeldStep
  <2>4. QED
    BY <1>1, <1>3, <2>1, <2>2, <2>3, EndStep
<1>7. QED
  BY <1>5, <1>6

LEMMA ReadSignedStep ==
    ASSUME Exchange!PlatformInvariant, Exchange!ReadSigned
    PROVE  Exchange!PlatformInvariant'
<1> DEFINE a == call.answer
<1>1. /\ Exchange!At("read") /\ call.verb = "sign" /\ a.status \in 200..299 /\ a.type = "aep"
      /\ UNCHANGED <<options, record, provider, cache, saved>>
  BY DEF Exchange!ReadSigned, Exchange!Reading, Exchange!Served, Exchange!platformVars
<1>2. /\ call # None /\ call.step = "read"
      /\ \/ a.body = "completed" /\ Exchange!ReadCompleted(a, call.claims.lifetime)
         \/ a.body = "pending" /\ Exchange!ReadPending(a)
  BY <1>1, ReadingState DEF Exchange!AnswerMade
<1>3. Exchange!SavedRead' /\ (saved # None => saved' # None)
  BY <1>1, HeldStep
<1>4. \/ \E o \in {"assertion", "pending", "unfinished"} : Exchange!End(o)
      \/ call' = [call EXCEPT !.step = "discover", !.stages = @ + 1]
  BY <1>2 DEF Exchange!ReadSigned
<1>5. ASSUME NEW o \in {"assertion", "pending", "unfinished"}, Exchange!End(o)
      PROVE  Exchange!PlatformInvariant'
  <2>1. o \notin {"unresolved", "unread", "refused"}
    BY <1>5
  <2>2. QED
    BY <1>1, <1>2, <1>3, <1>5, <2>1, EndStep
<1>6. QED
  BY <1>1, <1>4, <1>5, AgainStep

----------------------------------------------------------------------------
LEMMA ResolveKeyStep ==
    ASSUME Exchange!PlatformInvariant, Exchange!ResolveKey
    PROVE  Exchange!PlatformInvariant'
<1>1. /\ UNCHANGED <<options, record, provider, cache, saved>> /\ saved # None
  BY DEF Exchange!ResolveKey, Exchange!platformVars
<1>2. PICK loopback \in BOOLEAN :
        LET url == Exchange!DocumentUrl(saved.did, loopback)
            found == url # None /\ Exchange!Resolves(saved.did, saved.key, record.method.jwk.type,
                                                     Exchange!PublishedAt(url))
        IN call' = [Exchange!NewCall("key", "key") EXCEPT
                        !.step = "ended", !.loopback = loopback,
                        !.outcome = IF found THEN "resolved" ELSE "unresolved"]
  BY DEF Exchange!ResolveKey
<1> DEFINE url == Exchange!DocumentUrl(saved.did, loopback)
           found == url # None /\ Exchange!Resolves(saved.did, saved.key, record.method.jwk.type,
                                                    Exchange!PublishedAt(url))
           outcome == IF found THEN "resolved" ELSE "unresolved"
<1>3. call' = [Exchange!NewCall("key", "key") EXCEPT
                   !.step = "ended", !.loopback = loopback, !.outcome = outcome]
  BY <1>2
<1>4. /\ Exchange!Configured /\ Exchange!RecordMade /\ Exchange!OnRecord(saved)
      /\ Exchange!ValidIdentity(saved, provider.loopback)
  BY <1>1 DEF Exchange!PlatformInvariant, Exchange!SavedRead
<1>5. \/ found
      \/ record.status # "active"
      \/ ~Exchange!WellDescribed(record.method, record.algorithms)
      \/ loopback /\ record.did.host = "loopback"
  BY <1>4, KeyFound
<1> HIDE DEF outcome
<1>6. /\ DOMAIN call' = {"op", "step", "verb", "claims", "loopback", "document", "answer",
                         "stages", "outcome", "moved", "inactive"}
      /\ call'.step = "ended" /\ call'.verb = "key" /\ call'.outcome = outcome
      /\ call'.loopback = loopback
      /\ call'.inactive = (record # None /\ record.status # "active")
  BY <1>3 DEF Exchange!NewCall
<1> HIDE DEF found
<1>7. /\ outcome \notin {"unread", "refused"} /\ (outcome = "unresolved" => ~found)
  BY DEF outcome
<1>8. record # None
  BY <1>4 DEF Exchange!OnRecord
<1>9. Exchange!CallMade'
  BY <1>1, <1>6 DEF Exchange!CallMade
<1>10. Exchange!KeysResolved'
  BY <1>1, <1>5, <1>6, <1>7, <1>8 DEF Exchange!KeysResolved, Exchange!WellDescribed
<1>11. Exchange!ExchangesExplained'
  BY <1>6, <1>7 DEF Exchange!ExchangesExplained, Exchange!AnswersRead, Exchange!RequestsServed
<1>12. QED
  BY <1>1, <1>9, <1>10, <1>11, HeldStep DEF Exchange!PlatformInvariant

LEMMA ReturnStep ==
    ASSUME Exchange!PlatformInvariant, Exchange!Return
    PROVE  Exchange!PlatformInvariant'
<1>1. call' = None /\ UNCHANGED <<options, record, provider, cache, saved>>
  BY DEF Exchange!Return, Exchange!platformVars
<1>2. QED
  BY <1>1, HeldStep
  DEF Exchange!PlatformInvariant, Exchange!CallMade, Exchange!ExchangesExplained,
      Exchange!AnswersRead, Exchange!RequestsServed, Exchange!KeysResolved, Exchange!At

----------------------------------------------------------------------------
\* What happens to the parties

\* The properties are about a call that has ended, and nothing happens to one.
LEMMA NotEnded ==
    ASSUME call' # None => call'.step # "ended"
    PROVE  (Exchange!ExchangesExplained /\ Exchange!KeysResolved)'
BY DEF Exchange!ExchangesExplained, Exchange!AnswersRead, Exchange!RequestsServed,
       Exchange!KeysResolved, Exchange!At

LEMMA ExpireStep ==
    ASSUME Exchange!PlatformInvariant, Exchange!Expire
    PROVE  Exchange!PlatformInvariant'
<1>1. /\ UNCHANGED <<options, record, provider, saved, call>>
      /\ cache # None /\ cache' = [cache EXCEPT !.fresh = FALSE]
      /\ call # None => call.step # "ended"
  BY DEF Exchange!Expire, Exchange!Event, Exchange!Fresh, Exchange!At, Exchange!platformVars
<1>2. /\ DOMAIN cache = {"document", "fresh"}
      /\ Exchange!ValidDiscovery(cache.document, provider.loopback)
  BY <1>1 DEF Exchange!PlatformInvariant, Exchange!CacheRead
<1>3. DOMAIN cache' = {"document", "fresh"} /\ cache'.document = cache.document
  BY <1>1, <1>2
<1>4. Exchange!CacheRead'
  BY <1>1, <1>2, <1>3 DEF Exchange!CacheRead
<1>5. (Exchange!ExchangesExplained /\ Exchange!KeysResolved)'
  BY <1>1, NotEnded
<1>6. (Exchange!Configured /\ Exchange!RecordMade /\ Exchange!SavedRead)'
  BY <1>1 DEF Exchange!PlatformInvariant, Exchange!Configured, Exchange!RecordMade,
              Exchange!SavedRead, Exchange!OnRecord, Exchange!Made
<1>7. Exchange!Published' = Exchange!Published
  BY <1>1 DEF Exchange!Published
<1>8. Exchange!CallMade'
  BY <1>1, <1>7 DEF Exchange!PlatformInvariant, Exchange!CallMade, Exchange!AnswerMade,
              Exchange!RefusalExplained, Exchange!OnRecord, Exchange!Made, Exchange!IsDid,
              Exchange!ReadCompleted, Exchange!ReadPending
<1>9. QED
  BY <1>4, <1>5, <1>6, <1>8 DEF Exchange!PlatformInvariant

LEMMA ReconfigureStep ==
    ASSUME Exchange!PlatformInvariant, Exchange!Reconfigure
    PROVE  Exchange!PlatformInvariant'
<1>1. /\ UNCHANGED <<record, provider, saved, cache>>
      /\ options' \in Options /\ Exchange!Accepts(options')
      /\ options'.host = options.host /\ options'.prefix = options.prefix
      /\ call' = IF call = None THEN None ELSE [call EXCEPT !.moved = TRUE]
      /\ call # None => call.step # "ended"
  BY DEF Exchange!Reconfigure, Exchange!Event, Exchange!At
<1>2. Exchange!Configured'
  BY <1>1 DEF Exchange!PlatformInvariant, Exchange!Configured, Exchange!Accepts, Exchange!Discovery
<1>3. \A i : Exchange!Made(i) => Exchange!Made(i)'
  BY <1>1 DEF Exchange!Made
<1>4. Exchange!RecordMade'
  BY <1>1 DEF Exchange!PlatformInvariant, Exchange!RecordMade, Exchange!Made
<1>5. \A i : Exchange!OnRecord(i) => Exchange!OnRecord(i)'
  BY <1>1, <1>3 DEF Exchange!OnRecord
<1>6. Exchange!SavedRead' /\ Exchange!CacheRead'
  BY <1>1 DEF Exchange!PlatformInvariant, Exchange!SavedRead, Exchange!CacheRead,
              Exchange!OnRecord, Exchange!Made
<1>7. CASE call = None
  BY <1>1, <1>2, <1>4, <1>6, <1>7, NotEnded DEF Exchange!PlatformInvariant, Exchange!CallMade
<1>8. CASE call # None
  <2>1. /\ DOMAIN call = {"op", "step", "verb", "claims", "loopback", "document", "answer",
                          "stages", "outcome", "moved", "inactive"}
        /\ call.verb \in {"list", "provision", "sign", "key"}
        /\ call.verb = "key" => call.step = "ended"
        /\ call.verb = "sign" => saved # None /\ call.claims \in Claims
        /\ record # None /\ record.status # "active" => call.inactive
        /\ call.step = "read" => Exchange!AnswerMade(call.answer)
    BY <1>8 DEF Exchange!PlatformInvariant, Exchange!CallMade
  <2>2. /\ DOMAIN call' = DOMAIN call /\ call'.verb = call.verb /\ call'.step = call.step
        /\ call'.claims = call.claims /\ call'.inactive = call.inactive
        /\ call'.answer = call.answer /\ call'.moved
    BY <1>1, <1>8, <2>1
  <2>3. Exchange!RefusalExplained(call.answer)'
    BY <2>2 DEF Exchange!RefusalExplained
  <2>4. call.step = "read" => Exchange!AnswerMade(call.answer)'
    BY <1>5, <2>1, <2>2, <2>3
    DEF Exchange!AnswerMade, Exchange!ReadCompleted, Exchange!ReadPending
  <2>5. Exchange!CallMade'
    BY <1>1, <2>1, <2>2, <2>4 DEF Exchange!CallMade
  <2>6. QED
    BY <1>1, <1>2, <1>4, <1>6, <2>2, <2>5, NotEnded DEF Exchange!PlatformInvariant
<1>9. QED
  BY <1>7, <1>8

\* An identity with a status is not none.
LEMMA RestatusedMade ==
    ASSUME Exchange!Configured, Exchange!Made(record), NEW s \in {"active", "suspended"}
    PROVE  LET r == [record EXCEPT !.status = s] IN
           r # None /\ Exchange!Made(r) /\ r.did = record.did /\ r.status = s
<1> DEFINE r == [record EXCEPT !.status = s]
<1>1. /\ DOMAIN record = {"did", "key", "url", "service", "algorithms", "status", "method"}
      /\ record.did \in Dids /\ record.key = record.did
      /\ record.url = [scheme |-> "https", of |-> record.did]
      /\ record.service \in {p.service : p \in Providers}
      /\ record.algorithms \in {o.algorithms : o \in Options} /\ record.method \in Methods
  BY DEF Exchange!Configured, Exchange!Made, Dids
<1>2. /\ DOMAIN r = DOMAIN record /\ r.did = record.did /\ r.key = record.key /\ r.url = record.url
      /\ r.service = record.service /\ r.algorithms = record.algorithms
      /\ r.status = s /\ r.method = record.method
  BY <1>1
<1>3. r = [did |-> r.did, key |-> r.key, url |-> r.url, service |-> r.service,
           algorithms |-> r.algorithms, status |-> r.status, method |-> r.method]
  BY <1>1
<1>4. Exchange!Made(r)
  <2> HIDE DEF r
  <2>1. QED
    BY <1>2 DEF Exchange!Made
<1>5. r \in Identities
  <2> HIDE DEF r
  <2>1. r.url \in Urls
    BY <1>1, <1>2 DEF Urls
  <2>2. QED
    BY <1>1, <1>2, <1>3, <2>1 DEF Identities
<1>6. QED
  BY <1>2, <1>4, <1>5, NoneIsNothing

\* The identity on record may get another status; everybody's identity stays what it is.
LEMMA StatusStep ==
    ASSUME Exchange!PlatformInvariant, Exchange!SetStatus
    PROVE  Exchange!PlatformInvariant'
<1>1. PICK s \in {"active", "suspended"} :
        /\ record # None /\ record' = [record EXCEPT !.status = s]
        /\ call' = IF call = None THEN None
                   ELSE [call EXCEPT !.inactive = call.inactive \/ s # "active"]
        /\ UNCHANGED <<options, provider, cache, saved>>
        /\ call # None => call.step # "ended"
  BY DEF Exchange!SetStatus, Exchange!Event, Exchange!At
<1>2. Exchange!Configured /\ Exchange!Made(record)
  BY <1>1 DEF Exchange!PlatformInvariant, Exchange!RecordMade
<1>3. record' # None /\ Exchange!Made(record') /\ record'.did = record.did /\ record'.status = s
  BY <1>1, <1>2, RestatusedMade
<1>4. \A i : Exchange!Made(i) => Exchange!Made(i)'
  BY <1>1 DEF Exchange!Made
<1>5. Exchange!RecordMade'
  BY <1>1, <1>3 DEF Exchange!RecordMade, Exchange!Made
<1>6. \A i : Exchange!OnRecord(i) => Exchange!OnRecord(i)'
  BY <1>3, <1>4 DEF Exchange!OnRecord
<1>7. Exchange!Configured' /\ Exchange!CacheRead'
  BY <1>1 DEF Exchange!PlatformInvariant, Exchange!Configured, Exchange!CacheRead
<1>8. Exchange!SavedRead'
  BY <1>1, <1>3 DEF Exchange!PlatformInvariant, Exchange!SavedRead, Exchange!OnRecord, Exchange!Made
<1>9. CASE call = None
  BY <1>1, <1>5, <1>7, <1>8, <1>9, NotEnded DEF Exchange!PlatformInvariant, Exchange!CallMade
<1>10. CASE call # None
  <2>1. /\ DOMAIN call = {"op", "step", "verb", "claims", "loopback", "document", "answer",
                          "stages", "outcome", "moved", "inactive"}
        /\ call.verb \in {"list", "provision", "sign", "key"}
        /\ call.verb = "key" => call.step = "ended"
        /\ call.verb = "sign" => saved # None /\ call.claims \in Claims
        /\ call.step = "read" => Exchange!AnswerMade(call.answer)
    BY <1>10 DEF Exchange!PlatformInvariant, Exchange!CallMade
  <2>2. /\ DOMAIN call' = DOMAIN call /\ call'.verb = call.verb /\ call'.step = call.step
        /\ call'.claims = call.claims /\ call'.document = call.document
        /\ call'.answer = call.answer /\ call'.moved = call.moved
        /\ call'.inactive = (call.inactive \/ s # "active")
    BY <1>1, <1>10, <2>1
  <2>3. Exchange!Published' = Exchange!Published
    BY <1>1 DEF Exchange!Published
  <2>4. Exchange!RefusalExplained(call.answer) => Exchange!RefusalExplained(call.answer)'
    BY <1>1, <2>2, <2>3 DEF Exchange!RefusalExplained, Exchange!IsDid
  <2>5. call.step = "read" => Exchange!AnswerMade(call.answer)'
    <3>1. SUFFICES ASSUME Exchange!AnswerMade(call.answer) PROVE Exchange!AnswerMade(call.answer)'
      BY <2>1
    <3>2. (call.inactive => call'.inactive) /\ call'.verb = call.verb
          /\ call'.claims = call.claims /\ call'.answer = call.answer
      BY <2>2
    <3>3. QED
      BY <1>6, <2>4, <3>1, <3>2
      DEF Exchange!AnswerMade, Exchange!ReadCompleted, Exchange!ReadPending
  <2>6. Exchange!CallMade'
    BY <1>1, <1>3, <2>1, <2>2, <2>5 DEF Exchange!CallMade
  <2>7. QED
    BY <1>1, <1>5, <1>7, <1>8, <2>2, <2>6, NotEnded DEF Exchange!PlatformInvariant
<1>11. QED
  BY <1>9, <1>10

LEMMA ProvidedStep ==
    ASSUME Exchange!PlatformInvariant, Exchange!ProvidedElsewhere
    PROVE  Exchange!PlatformInvariant'
<1>1. PICK id \in Ids, m \in Methods :
        /\ record = None /\ record' # None
        /\ record' = Exchange!Identity(options, id, provider.service, m)
        /\ UNCHANGED <<options, provider, cache, saved, call>>
        /\ call # None => call.step # "ended"
  BY DEF Exchange!ProvidedElsewhere, Exchange!Event, Exchange!At
<1>2. Exchange!Made(record') /\ record'.status = "active"
  BY <1>1, IdentityMade DEF Exchange!PlatformInvariant
<1>3. Exchange!RecordMade'
  BY <1>1, <1>2 DEF Exchange!RecordMade, Exchange!Made
<1>4. saved = None
  BY <1>1 DEF Exchange!PlatformInvariant, Exchange!SavedRead, Exchange!OnRecord
<1>5. Exchange!Configured' /\ Exchange!CacheRead' /\ Exchange!SavedRead'
  BY <1>1, <1>4
  DEF Exchange!PlatformInvariant, Exchange!Configured, Exchange!CacheRead, Exchange!SavedRead
<1>6. Exchange!Published' = Exchange!Published
  BY <1>1 DEF Exchange!Published
<1>7. \A i : ~Exchange!OnRecord(i)
  BY <1>1 DEF Exchange!OnRecord
<1>8. Exchange!CallMade'
  BY <1>1, <1>2, <1>6, <1>7
  DEF Exchange!PlatformInvariant, Exchange!CallMade, Exchange!AnswerMade,
      Exchange!RefusalExplained, Exchange!IsDid, Exchange!ReadCompleted, Exchange!ReadPending
<1>9. (Exchange!ExchangesExplained /\ Exchange!KeysResolved)'
  BY <1>1, NotEnded
<1>10. QED
  BY <1>3, <1>5, <1>8, <1>9 DEF Exchange!PlatformInvariant

----------------------------------------------------------------------------
LEMMA NextExchange ==
    Exchange!PlatformInvariant /\ [Exchange!Next]_(Exchange!vars) => Exchange!PlatformInvariant'
<1> SUFFICES ASSUME Exchange!PlatformInvariant, [Exchange!Next]_(Exchange!vars)
             PROVE  Exchange!PlatformInvariant'
  OBVIOUS
<1>1. CASE Exchange!Next
  BY <1>1, BeginStep, DiscoverStep, LoseStep, ElsewhereStep, ListStep, ProvisionStep, SignStep,
     ReadOtherStep, ReadListStep, ReadProvisionedStep, ReadSignedStep, ResolveKeyStep, ReturnStep,
     ExpireStep, ReconfigureStep, StatusStep, ProvidedStep
  DEF Exchange!Next
<1>2. CASE UNCHANGED Exchange!vars
  <2>1. UNCHANGED <<options, record, provider, cache, saved, call>>
    BY <1>2 DEF Exchange!vars
  <2>2. Exchange!Published' = Exchange!Published
    BY <2>1 DEF Exchange!Published
  <2>3. Exchange!CallMade'
    BY <2>1, <2>2
    DEF Exchange!PlatformInvariant, Exchange!CallMade, Exchange!AnswerMade, Exchange!OnRecord,
        Exchange!Made, Exchange!RefusalExplained, Exchange!IsDid, Exchange!ReadCompleted,
        Exchange!ReadPending
  <2>4. Exchange!AnswersRead' /\ Exchange!RequestsServed' /\ Exchange!KeysResolved'
    BY <2>1, <2>2
    DEF Exchange!PlatformInvariant, Exchange!ExchangesExplained, Exchange!AnswersRead,
        Exchange!RequestsServed, Exchange!KeysResolved, Exchange!At, Exchange!UnreadExplained,
        Exchange!OddPaths, Exchange!RefusalExplained, Exchange!IsDid, Exchange!WellDescribed
  <2>5. QED
    BY <2>1, <2>3, <2>4, HeldStep DEF Exchange!PlatformInvariant, Exchange!ExchangesExplained
<1>3. QED
  BY <1>1, <1>2

\* PlatformExchange, for any configurations, identifiers, keys and sign handlers: what an
\* Agent and its Platform refuse of each other, and whether a Service finds the key.
THEOREM PlatformExchangeCorrect == Exchange!Spec => []Exchange!PlatformInvariant
BY InitExchange, NextExchange, PTL DEF Exchange!Spec

\* An Agent and its Platform refuse what the other has made by the rules of its own only for
\* the reasons that the property lists.
THEOREM RefusalsAreExplained == Exchange!Spec => []ExchangesExplained
<1>1. Exchange!PlatformInvariant => ExchangesExplained
  BY DEF Exchange!PlatformInvariant, ExchangesExplained
<1>2. QED
  BY <1>1, PlatformExchangeCorrect, PTL

\* Once an Agent has accepted an identity, a Service finds the key it signs with.
THEOREM KeysAreFound == Exchange!Spec => []KeysResolved
<1>1. Exchange!PlatformInvariant => KeysResolved
  BY DEF Exchange!PlatformInvariant, KeysResolved
<1>2. QED
  BY <1>1, PlatformExchangeCorrect, PTL

=============================================================================

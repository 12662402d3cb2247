----------------------- MODULE IdempotencyStoreProofs -----------------------
(***************************************************************************)
(* Proofs about IdempotencyStore, for every number of calls, keys, inputs, *)
(* every retention and every set of restored records.                      *)
(***************************************************************************)
EXTENDS IdempotencyStore, FiniteSetTheorems, TLAPS

----------------------------------------------------------------------------
(***************************************************************************)
(* Type correctness.                                                       *)
(***************************************************************************)

USE DEF lockVars, callVars, Goto, Answer, Matches

\* Sweeping only drops records: the map keeps its type.
LEMMA SweptType ==
    ASSUME TypeOK
    PROVE  Swept(clock) \in [Keys -> Records \cup {None}]
BY DEF TypeOK, Swept

\* Cloning a lock keeps the types of the lock table.
LEMMA CloneLockType ==
    ASSUME LockTypeOK, NEW t \in Tasks, NEW k \in Keys, CloneLock(t, k)
    PROVE  LockTypeOK'
BY DEF LockTypeOK, CloneLock

\* The initial state, with the records of an earlier process, is well typed.
LEMMA InitType == Init => TypeOK
<1> SUFFICES ASSUME Init PROVE TypeOK
  OBVIOUS
<1>1. LockTypeOK
  BY DEF Init, LockInit, LockTypeOK
<1>2. records \in [Keys -> Records \cup {None}]
  BY RestoredAreInputs, MaxTimeIsNat DEF Init, Records
<1>3. QED
  BY <1>1, <1>2, MaxTimeIsNat DEF Init, TypeOK, Steps

\* Every step keeps the types.
LEMMA NextType == TypeOK /\ [Next]_vars => TypeOK'
<1> SUFFICES ASSUME TypeOK, [Next]_vars PROVE TypeOK'
  OBVIOUS
<1> USE MaxTimeIsNat
<1>1. CASE Tick
  BY <1>1 DEF Tick, TypeOK, LockTypeOK
<1>2. ASSUME NEW t \in Tasks, Start(t) PROVE TypeOK'
  <2>1. PICK k \in Keys, i \in Inputs :
            /\ CloneLock(t, k)
            /\ key' = [key EXCEPT ![t] = k]
            /\ input' = [input EXCEPT ![t] = i]
    BY <1>2 DEF Start
  <2>2. LockTypeOK'
    BY <2>1, CloneLockType DEF TypeOK
  <2>3. QED
    BY <1>2, <2>1, <2>2, NoneIsNoKey, NoneIsNoInput DEF Start, TypeOK, Steps
<1>3. ASSUME NEW t \in Tasks, Acquire(t) PROVE TypeOK'
  BY <1>3 DEF Acquire, LockGuard, TypeOK, LockTypeOK, Steps
<1>4. ASSUME NEW t \in Tasks, Lookup(t) PROVE TypeOK'
  <2>1. records' \in [Keys -> Records \cup {None}]
    BY <1>4, SweptType DEF Lookup
  <2>2. Swept(clock)[key[t]] \in Records \cup {None}
    BY <1>4, SweptType DEF TypeOK, Lookup
  <2>3. result' \in [Tasks -> Results \cup {None}]
    <3> DEFINE existing == Swept(clock)[key[t]]
    <3>1. CASE UNCHANGED result
      BY <3>1 DEF TypeOK
    <3>2. CASE existing # None /\ result' = [result EXCEPT ![t] =
                  IF existing.input = input[t]
                  THEN [kind |-> "replayed", response |-> existing.response, at |-> clock]
                  ELSE [kind |-> "conflict", at |-> clock]]
      <4>1. existing \in Records
        BY <2>2, <3>2
      <4>2. QED
        BY <3>2, <4>1 DEF TypeOK, Results, Records
    <3>3. QED
      BY <1>4, <3>1, <3>2 DEF Lookup
  <2>4. QED
    BY <1>4, <2>1, <2>3 DEF Lookup, TypeOK, LockTypeOK, Steps
<1>5. ASSUME NEW t \in Tasks, Perform(t) PROVE TypeOK'
  BY <1>5 DEF Perform, TypeOK, LockTypeOK, Steps
<1>6. ASSUME NEW t \in Tasks, Succeed(t) PROVE TypeOK'
  BY <1>6 DEF Succeed, TypeOK, LockTypeOK, Steps, Records, Results
<1>7. ASSUME NEW t \in Tasks, Fail(t) PROVE TypeOK'
  BY <1>7 DEF Fail, TypeOK, LockTypeOK, Steps, Results
<1>8. ASSUME NEW t \in Tasks, Unlock(t) PROVE TypeOK'
  BY <1>8 DEF Unlock, DropGuard, TypeOK, LockTypeOK, Steps
<1>9. ASSUME NEW t \in Tasks, Release(t) PROVE TypeOK'
  BY <1>9 DEF Release, ReleaseLock, TypeOK, LockTypeOK, Steps
<1>10. ASSUME NEW t \in Tasks, Return(t) PROVE TypeOK'
  BY <1>10 DEF Return, DropClone, TypeOK, LockTypeOK, Steps
<1>11. ASSUME NEW t \in Tasks, Cancel(t) PROVE TypeOK'
  BY <1>11 DEF Cancel, DropGuard, TypeOK, LockTypeOK, Steps, Results
<1>12. CASE UNCHANGED vars
  BY <1>12 DEF vars, TypeOK, LockTypeOK
<1>13. QED
  BY <1>1, <1>2, <1>3, <1>4, <1>5, <1>6, <1>7, <1>8, <1>9, <1>10, <1>11, <1>12
  DEF Next, Progress

\* Every state of the store is well typed.
THEOREM TypeCorrect == Spec => []TypeOK
BY InitType, NextType, PTL DEF Spec

----------------------------------------------------------------------------
(***************************************************************************)
(* Mutual exclusion.  The entry of a key is removed by a call only when    *)
(* that call has the one remaining clone, so every other call that counts  *)
(* on the key's lock keeps finding its own mutex in the table.             *)
(***************************************************************************)

\* strong_count = 2 with the entry in the table leaves no other clone.
LEMMA SoleUser ==
    ASSUME NEW t \in Tasks, NEW k \in Keys, LastUser(t, k),
           NEW u \in Tasks, arc[u] = arc[t]
    PROVE  u = t
<1> SUFFICES ASSUME u # t PROVE FALSE
  OBVIOUS
<1> DEFINE m == arc[t]
<1>1. IsFiniteSet(EntriesOf(m)) /\ IsFiniteSet(ClonesOf(m))
  BY TasksFinite, KeysFinite, FS_Subset DEF EntriesOf, ClonesOf
<1>2. Cardinality(EntriesOf(m)) \in Nat /\ Cardinality(EntriesOf(m)) # 0
  <2>1. k \in EntriesOf(m)
    BY DEF EntriesOf, LastUser
  <2>2. QED
    BY <1>1, <2>1, FS_CardinalityType, FS_EmptySet
<1>3. Cardinality(ClonesOf(m)) \in Nat /\ Cardinality(ClonesOf(m)) \notin {0, 1}
  <2>1. t \in ClonesOf(m) /\ u \in ClonesOf(m)
    BY DEF ClonesOf
  <2>2. Cardinality(ClonesOf(m)) \in Nat /\ Cardinality(ClonesOf(m)) # 0
    BY <1>1, <2>1, FS_CardinalityType, FS_EmptySet
  <2>3. Cardinality(ClonesOf(m)) # 1
    <3>1. ~ \E x : ClonesOf(m) = {x}
      BY <2>1
    <3>2. QED
      BY <1>1, <3>1, FS_Singleton
  <2>4. QED
    BY <2>2, <2>3
<1>4. Cardinality(EntriesOf(m)) + Cardinality(ClonesOf(m)) = 2
  BY DEF LastUser, StrongCount
<1>5. QED
  BY <1>2, <1>3, <1>4

\* The lock invariant holds before any call starts.
LEMMA InitLock == Init => LockInv
BY DEF Init, LockInit, LockInv, FrameOK, EntryAgrees, HolderOwns,
       Committed, Holding, InOperation

\* Every step keeps the lock invariant.
LEMMA NextLock == TypeOK /\ LockInv /\ [Next]_vars => LockInv'
<1> SUFFICES ASSUME TypeOK, LockInv, [Next]_vars PROVE LockInv'
  OBVIOUS
<1>0. LockTypeOK
  BY DEF TypeOK
<1> USE DEF LockInv, Committed, Holding, InOperation
<1>1. CASE Tick
  BY <1>1 DEF Tick, FrameOK, EntryAgrees, HolderOwns
<1>2. ASSUME NEW t \in Tasks, Start(t) PROVE LockInv'
  <2>1. PICK k \in Keys, i \in Inputs :
            /\ CloneLock(t, k)
            /\ key' = [key EXCEPT ![t] = k]
            /\ input' = [input EXCEPT ![t] = i]
    BY <1>2 DEF Start
  <2>2. PICK m \in Mutexes :
            /\ IF locks[k] = None THEN ~Allocated(m) ELSE m = locks[k]
            /\ locks' = [locks EXCEPT ![k] = m]
            /\ arc' = [arc EXCEPT ![t] = m]
            /\ UNCHANGED owner
    BY <2>1 DEF CloneLock
  <2>3. FrameOK'
    BY <1>2, <2>1, <2>2, NoneIsNoMutex, NoneIsNoKey DEF Start, FrameOK, TypeOK, LockTypeOK, Steps
  <2>4. EntryAgrees'
    <3> SUFFICES ASSUME NEW u \in Tasks, Committed(u)' PROVE (locks[key[u]] = arc[u])'
      BY DEF EntryAgrees
    <3>1. CASE u = t
      BY <2>1, <2>2, <3>1 DEF TypeOK, LockTypeOK
    <3>2. CASE u # t
      <4>1. Committed(u) /\ arc'[u] = arc[u] /\ key'[u] = key[u]
        BY <1>2, <2>1, <2>2, <3>2 DEF Start, TypeOK, LockTypeOK
      <4>2. locks[key[u]] = arc[u] /\ arc[u] # None
        BY <4>1 DEF EntryAgrees, FrameOK
      <4>3. locks'[key[u]] = locks[key[u]]
        BY <1>0, <2>2, <4>2 DEF LockTypeOK
      <4>4. QED
        BY <4>1, <4>2, <4>3
    <3>3. QED
      BY <3>1, <3>2
  <2>5. HolderOwns'
    BY <1>2, <2>1, <2>2 DEF Start, HolderOwns, TypeOK, LockTypeOK
  <2>6. QED
    BY <2>3, <2>4, <2>5
<1>3. ASSUME NEW t \in Tasks, Acquire(t) PROVE LockInv'
  <2>1. FrameOK' /\ EntryAgrees'
    BY <1>3 DEF Acquire, LockGuard, FrameOK, EntryAgrees, TypeOK, LockTypeOK
  <2>2. arc[t] \in Mutexes
    BY <1>3 DEF Acquire, FrameOK, TypeOK, LockTypeOK
  <2>3. HolderOwns'
    BY <1>3, <2>2, NoneIsNoTask DEF Acquire, LockGuard, HolderOwns, TypeOK, LockTypeOK
  <2>4. QED
    BY <2>1, <2>3
<1>4. ASSUME NEW t \in Tasks, Lookup(t) PROVE LockInv'
  <2>1. \/ pc'[t] = "running" /\ result' = result
        \/ pc'[t] = "unlocking" /\ result'[t] # None
    <3> DEFINE existing == Swept(clock)[key[t]]
               answer ==  IF existing.input = input[t]
                  THEN [kind |-> "replayed", response |-> existing.response, at |-> clock]
                  ELSE [kind |-> "conflict", at |-> clock]
    <3>1. CASE existing = None
      BY <1>4, <3>1 DEF Lookup, TypeOK
    <3>2. CASE existing # None
      <4>1. existing \in Records
        BY <1>4, <3>2, SweptType DEF TypeOK, Lookup
      <4>2. answer \in Results
        BY <4>1 DEF Records, Results, TypeOK
      <4>3. pc'[t] = "unlocking" /\ result'[t] = answer
        BY <1>4, <3>2 DEF Lookup, TypeOK
      <4>4. QED
        BY <4>2, <4>3, NoneIsNoRecord
    <3>3. QED
      BY <3>1, <3>2
  <2>2. FrameOK'
    BY <1>4, <2>1 DEF Lookup, FrameOK, TypeOK
  <2>3. EntryAgrees' /\ HolderOwns'
    BY <1>4 DEF Lookup, EntryAgrees, HolderOwns, TypeOK
  <2>4. QED
    BY <2>2, <2>3
<1>5. ASSUME NEW t \in Tasks, Perform(t) PROVE LockInv'
  BY <1>5 DEF Perform, FrameOK, EntryAgrees, HolderOwns, TypeOK
<1>6. ASSUME NEW t \in Tasks, Succeed(t) PROVE LockInv'
  <2>1. [kind |-> "created", response |-> t, at |-> clock] # None
    BY NoneIsNoRecord DEF Results, TypeOK
  <2>2. QED
    BY <1>6, <2>1 DEF Succeed, FrameOK, EntryAgrees, HolderOwns, TypeOK
<1>7. ASSUME NEW t \in Tasks, Fail(t) PROVE LockInv'
  <2>1. [kind |-> "failed", at |-> clock] # None
    BY NoneIsNoRecord DEF Results, TypeOK
  <2>2. QED
    BY <1>7, <2>1 DEF Fail, FrameOK, EntryAgrees, HolderOwns, TypeOK
<1>8. ASSUME NEW t \in Tasks, Unlock(t) PROVE LockInv'
  <2>1. FrameOK' /\ EntryAgrees'
    BY <1>8 DEF Unlock, DropGuard, FrameOK, EntryAgrees, TypeOK
  <2>2. HolderOwns'
    BY <1>8 DEF Unlock, DropGuard, HolderOwns, FrameOK, TypeOK, LockTypeOK
  <2>3. QED
    BY <2>1, <2>2
<1>9. ASSUME NEW t \in Tasks, Release(t) PROVE LockInv'
  <2>1. FrameOK' /\ HolderOwns'
    BY <1>9 DEF Release, ReleaseLock, FrameOK, HolderOwns, TypeOK
  <2>2. EntryAgrees'
    <3> SUFFICES ASSUME NEW u \in Tasks, Committed(u)' PROVE (locks[key[u]] = arc[u])'
      BY DEF EntryAgrees
    <3>1. u # t /\ Committed(u) /\ UNCHANGED <<arc, key>>
      BY <1>9 DEF Release, ReleaseLock, TypeOK
    <3>2. locks[key[u]] = arc[u]
      BY <3>1 DEF EntryAgrees
    <3>3. CASE LastUser(t, key[t])
      <4>1. key[t] \in Keys
        BY <1>9 DEF Release, TypeOK
      <4>2. arc[u] # arc[t]
        BY <3>1, <3>3, <4>1, SoleUser
      <4>3. key[u] # key[t]
        BY <3>2, <3>3, <4>2 DEF LastUser
      <4>4. QED
        BY <1>9, <3>1, <3>2, <3>3, <4>3 DEF Release, ReleaseLock, TypeOK, LockTypeOK
    <3>4. CASE ~LastUser(t, key[t])
      BY <1>9, <3>1, <3>2, <3>4 DEF Release, ReleaseLock
    <3>5. QED
      BY <3>3, <3>4
  <2>3. QED
    BY <2>1, <2>2
<1>10. ASSUME NEW t \in Tasks, Return(t) PROVE LockInv'
  BY <1>10 DEF Return, DropClone, FrameOK, EntryAgrees, HolderOwns, TypeOK, LockTypeOK
<1>11. ASSUME NEW t \in Tasks, Cancel(t) PROVE LockInv'
  <2>0. [kind |-> "cancelled", at |-> clock] # None
    BY NoneIsNoRecord DEF Results, TypeOK
  <2>1. FrameOK' /\ EntryAgrees'
    BY <1>11, <2>0 DEF Cancel, DropGuard, FrameOK, EntryAgrees, TypeOK
  <2>2. HolderOwns'
    BY <1>11 DEF Cancel, DropGuard, HolderOwns, FrameOK, TypeOK, LockTypeOK
  <2>3. QED
    BY <2>1, <2>2
<1>12. CASE UNCHANGED vars
  BY <1>12 DEF vars, FrameOK, EntryAgrees, HolderOwns
<1>13. QED
  BY <1>1, <1>2, <1>3, <1>4, <1>5, <1>6, <1>7, <1>8, <1>9, <1>10, <1>11, <1>12
  DEF Next, Progress

\* The lock invariant implies mutual exclusion per key: calls of one key share
\* its mutex, and a mutex has one owner.
LEMMA LockExcludes == LockInv => OneOperationPerKey
BY DEF LockInv, EntryAgrees, HolderOwns, OneOperationPerKey, InOperation, Committed, Holding

\* However the entries of the lock table are removed and re-created, two calls
\* with the same key are never both inside their operation.
THEOREM MutualExclusion == Spec => []OneOperationPerKey
<1>1. Init => TypeOK /\ LockInv
  BY InitType, InitLock
<1>2. TypeOK /\ LockInv /\ [Next]_vars => (TypeOK /\ LockInv)'
  BY NextType, NextLock
<1>3. QED
  BY <1>1, <1>2, LockExcludes, PTL DEF Spec

----------------------------------------------------------------------------
(***************************************************************************)
(* Records.  With mutual exclusion, nobody stores under a key while its    *)
(* operation runs, so a completed operation finds the key vacant and what  *)
(* the answers say about records is never invalidated within a retention.  *)
(***************************************************************************)

\* Initially the only records are the restored ones.
LEMMA InitStore == Init => StoreInv
<1> SUFFICES ASSUME Init PROVE StoreInv
  OBVIOUS
<1>1. \A t \in Tasks : result[t] = None /\ pc[t] = "idle"
  BY DEF Init
<1>2. RecordIsAnswer
  BY RestoredAreInputs DEF Init, RecordIsAnswer
<1>3. QED
  BY <1>1, <1>2 DEF StoreInv, NoRecordDuringOperation, CreatedIsRecorded, InOperation,
     CreatedOncePerRetention, ReplaysAreFaithful, ConflictsAreJustified, Created, Replayed

\* A step that changes no record, no answer and no argument of an answered call,
\* lets no call into its operation and at most reports a failure keeps what is
\* known of records.
LEMMA QuietStep ==
    ASSUME TypeOK, LockInv, StoreInv,
           UNCHANGED records,
           \A t \in Tasks :
             \/ result'[t] = result[t]
             \/ result[t] = None /\ result'[t].kind \in {"failed", "cancelled"},
           clock' \in Nat, clock <= clock',
           \A t \in Tasks : result[t] # None => key'[t] = key[t] /\ input'[t] = input[t],
           \A t \in Tasks : InOperation(t)' => InOperation(t) /\ key'[t] = key[t]
    PROVE  StoreInv'
<1> USE DEF Created, Replayed
<1>0. clock \in Nat
  BY MaxTimeIsNat DEF TypeOK
<1>t. \A t \in Tasks : Created(t) => result[t].at \in Nat
  BY MaxTimeIsNat DEF TypeOK, Results
<1>r. \A k \in Keys : records[k] # None => records[k].created_at \in Nat
  BY MaxTimeIsNat DEF TypeOK, Records
<1>1. NoRecordDuringOperation'
  BY DEF StoreInv, NoRecordDuringOperation
<1>2. CreatedIsRecorded'
  BY <1>0, <1>t, RetentionIsNat DEF StoreInv, CreatedIsRecorded
<1>3. RecordIsAnswer'
  <2> SUFFICES ASSUME NEW k \in Keys, records[k] # None
               PROVE  (LET p == records[k].response IN
                         /\ records[k].created_at <= clock
                         /\ IF p = FromRestore
                            THEN Restored[k] = records[k].input /\ records[k].created_at = 0
                            ELSE /\ Created(p) /\ key[p] = k /\ input[p] = records[k].input
                                 /\ result[p].at = records[k].created_at)'
    BY DEF RecordIsAnswer
  <2>1. records[k].response \in Tasks \cup {FromRestore}
    BY DEF TypeOK, Records
  <2>2. QED
    BY <1>0, <1>r, <2>1 DEF StoreInv, RecordIsAnswer
<1>4. CreatedOncePerRetention'
  BY DEF StoreInv, CreatedOncePerRetention
<1>5. ReplaysAreFaithful'
  <2> SUFFICES ASSUME NEW t \in Tasks, Replayed(t)
               PROVE  (LET p == result[t].response IN
                         IF p = FromRestore
                         THEN Restored[key[t]] = input[t] /\ result[t].at <= Retention
                         ELSE /\ Created(p)
                              /\ key[p] = key[t] /\ input[p] = input[t]
                              /\ result[t].at - result[p].at \in 0..Retention)'
    BY DEF ReplaysAreFaithful
  <2>1. result[t].response \in Tasks \cup {FromRestore}
    BY DEF TypeOK, Results
  <2>2. QED
    BY <2>1 DEF StoreInv, ReplaysAreFaithful
<1>6. ConflictsAreJustified'
  BY DEF StoreInv, ConflictsAreJustified
<1>7. QED
  BY <1>1, <1>2, <1>3, <1>4, <1>5, <1>6 DEF StoreInv

\* Finding or missing a record, the lookup answers from records that hold.
LEMMA LookupStep ==
    ASSUME TypeOK, LockInv, StoreInv, NEW t \in Tasks, Lookup(t)
    PROVE  StoreInv'
<1> DEFINE existing == Swept(clock)[key[t]]
<1>0. clock \in Nat /\ key[t] \in Keys /\ UNCHANGED <<clock, key, input>>
  BY MaxTimeIsNat DEF TypeOK, Lookup
<1>k. \A k \in Keys : records'[k] # None =>
        records'[k] = records[k] /\ Retained(records[k], clock)
  BY DEF Lookup, Swept
<1>s. \A k \in Keys : records[k] # None /\ Retained(records[k], clock) =>
        records'[k] = records[k]
  BY DEF Lookup, Swept
<1>e. existing # None =>
        /\ existing = records[key[t]]
        /\ existing \in Records
        /\ Retained(existing, clock)
  BY <1>0 DEF Swept, TypeOK
<1>r. \A u \in Tasks : u # t => result'[u] = result[u]
  BY DEF Lookup, TypeOK
<1>n. result[t] = None
  BY DEF Lookup, LockInv, FrameOK
<1>a. \/ existing = None /\ result' = result
      \/ /\ existing # None /\ existing.input = input[t]
         /\ result'[t] = [kind |-> "replayed", response |-> existing.response, at |-> clock]
      \/ /\ existing # None /\ existing.input # input[t]
         /\ result'[t] = [kind |-> "conflict", at |-> clock]
  BY DEF Lookup, TypeOK
<1>c. \A u \in Tasks : Created(u)' <=> Created(u)
  BY <1>r, <1>n, <1>a DEF Created
<1>d. \A u \in Tasks : Created(u) => result'[u] = result[u]
  BY <1>r, <1>n DEF Created
<1>o. RecordIsAnswer /\ CreatedIsRecorded
  BY DEF StoreInv
<1>f. existing # None =>
        LET p == existing.response IN
        /\ existing.created_at \in Nat
        /\ existing.created_at <= clock
        /\ existing.created_at + Retention >= clock
        /\ p \in Tasks \cup {FromRestore}
        /\ p = FromRestore => Restored[key[t]] = existing.input /\ existing.created_at = 0
        /\ p # FromRestore => /\ Created(p) /\ key[p] = key[t] /\ input[p] = existing.input
                              /\ result[p].at = existing.created_at
  BY <1>0, <1>e, <1>o, MaxTimeIsNat DEF RecordIsAnswer, Records, Retained
<1>1. NoRecordDuringOperation'
  <2> SUFFICES ASSUME NEW u \in Tasks, InOperation(u)' PROVE records'[key[u]] = None
    BY <1>0 DEF NoRecordDuringOperation
  <2>1. CASE u = t
    <3>1. pc'[t] # "unlocking"
      BY <2>1 DEF InOperation
    <3>2. existing = None
      BY <3>1 DEF Lookup, TypeOK
    <3>3. QED
      BY <2>1, <3>2 DEF Lookup
  <2>2. CASE u # t
    <3>1. InOperation(u) /\ key[u] \in Keys
      BY <2>2 DEF Lookup, InOperation, TypeOK
    <3>2. records[key[u]] = None
      BY <3>1 DEF StoreInv, NoRecordDuringOperation
    <3>3. QED
      BY <1>k, <3>1, <3>2
  <2>3. QED
    BY <2>1, <2>2
<1>2. CreatedIsRecorded'
  <2> SUFFICES ASSUME NEW u \in Tasks, Created(u)
               PROVE  /\ result[u].response = u
                      /\ result[u].at <= clock
                      /\ result[u].at + Retention >= clock =>
                           records'[key[u]] =
                             [input |-> input[u], response |-> u, created_at |-> result[u].at]
    BY <1>0, <1>c, <1>d DEF CreatedIsRecorded
  <2>1. key[u] \in Keys
    BY DEF TypeOK, LockInv, FrameOK, Created
  <2>2. ASSUME result[u].at + Retention >= clock
        PROVE  records'[key[u]] =
                 [input |-> input[u], response |-> u, created_at |-> result[u].at]
    <3>1. records[key[u]] =
            [input |-> input[u], response |-> u, created_at |-> result[u].at]
      BY <1>o, <2>2 DEF CreatedIsRecorded
    <3>2. input[u] \in Inputs /\ result[u].at \in 0..MaxTime
      BY DEF TypeOK, LockInv, FrameOK, Created, Results
    <3>3. records[key[u]] # None /\ Retained(records[key[u]], clock)
      BY <2>2, <3>1, <3>2, NoneIsNoRecord DEF Records, Retained
    <3>4. QED
      BY <1>s, <2>1, <3>1, <3>3
  <2>3. QED
    BY <1>o, <2>2 DEF CreatedIsRecorded
<1>3. RecordIsAnswer'
  <2> SUFFICES ASSUME NEW k \in Keys, records'[k] # None
               PROVE  (LET p == records[k].response IN
                         /\ records[k].created_at <= clock
                         /\ IF p = FromRestore
                            THEN Restored[k] = records[k].input /\ records[k].created_at = 0
                            ELSE /\ Created(p) /\ key[p] = k /\ input[p] = records[k].input
                                 /\ result[p].at = records[k].created_at)'
    BY DEF RecordIsAnswer
  <2>1. records[k].response \in Tasks \cup {FromRestore} /\ records'[k] = records[k]
    BY <1>k DEF TypeOK, Records
  <2>2. QED
    BY <1>0, <1>c, <1>d, <1>o, <2>1 DEF RecordIsAnswer
<1>4. CreatedOncePerRetention'
  BY <1>0, <1>c, <1>d DEF StoreInv, CreatedOncePerRetention
<1>5. ReplaysAreFaithful'
  <2> SUFFICES ASSUME NEW u \in Tasks, Replayed(u)'
               PROVE  (LET p == result[u].response IN
                         IF p = FromRestore
                         THEN Restored[key[u]] = input[u] /\ result[u].at <= Retention
                         ELSE /\ Created(p)
                              /\ key[p] = key[u] /\ input[p] = input[u]
                              /\ result[u].at - result[p].at \in 0..Retention)'
    BY DEF ReplaysAreFaithful
  <2>1. CASE u = t
    <3>1. existing # None /\ existing.input = input[t] /\ result'[t].at = clock
          /\ result'[t].response = existing.response
      BY <1>a, <1>n, <2>1 DEF Replayed
    <3>2. QED
      BY <1>0, <1>c, <1>d, <1>f, <2>1, <3>1, RetentionIsNat
  <2>2. CASE u # t
    <3>1. Replayed(u) /\ result'[u] = result[u]
      BY <1>r, <2>2 DEF Replayed
    <3>2. result[u].response \in Tasks \cup {FromRestore}
      BY <3>1 DEF TypeOK, Results, Replayed
    <3>3. QED
      BY <1>0, <1>c, <1>d, <3>1, <3>2 DEF StoreInv, ReplaysAreFaithful
  <2>3. QED
    BY <2>1, <2>2
<1>6. ConflictsAreJustified'
  <2> SUFFICES ASSUME NEW u \in Tasks, result'[u] # None, result'[u].kind = "conflict"
               PROVE  \/ /\ Restored[key[u]] \notin {None, input[u]}
                         /\ result'[u].at <= Retention
                      \/ \E p \in Tasks :
                          /\ Created(p)' /\ key[p] = key[u] /\ input[p] # input[u]
                          /\ result'[u].at - result'[p].at \in 0..Retention
    BY <1>0 DEF ConflictsAreJustified
  <2>1. CASE u = t
    <3>1. existing # None /\ existing.input # input[t] /\ result'[t].at = clock
      BY <1>a, <1>n, <2>1
    <3>2. existing.input # None
      BY <1>e, <3>1, NoneIsNoInput DEF Records
    <3>3. QED
      BY <1>0, <1>c, <1>d, <1>f, <2>1, <3>1, <3>2, RetentionIsNat
  <2>2. CASE u # t
    BY <1>c, <1>d, <1>r, <2>2 DEF StoreInv, ConflictsAreJustified
  <2>3. QED
    BY <2>1, <2>2
<1>7. QED
  BY <1>1, <1>2, <1>3, <1>4, <1>5, <1>6 DEF StoreInv

\* A completed operation stores into a vacant key, so earlier completions of
\* that key are older than the retention.
LEMMA SucceedStep ==
    ASSUME TypeOK, LockInv, StoreInv, NEW t \in Tasks, Succeed(t)
    PROVE  StoreInv'
<1> DEFINE record == [input |-> input[t], response |-> t, created_at |-> clock]
           answer == [kind |-> "created", response |-> t, at |-> clock]
<1>0. clock \in Nat /\ key[t] \in Keys /\ InOperation(t) /\ UNCHANGED <<clock, key, input>>
  BY MaxTimeIsNat DEF TypeOK, Succeed, InOperation
<1>v. records[key[t]] = None
  BY <1>0 DEF StoreInv, NoRecordDuringOperation
<1>n. result[t] = None
  BY <1>0 DEF LockInv, FrameOK
<1>a. answer # None
  BY NoneIsNoRecord DEF TypeOK, Results
<1>p. /\ records'[key[t]] = record
      /\ \A k \in Keys : k # key[t] => records'[k] = records[k]
      /\ result'[t] = answer
      /\ \A u \in Tasks : u # t => result'[u] = result[u]
  BY <1>0 DEF Succeed, TypeOK
<1>c. \A u \in Tasks : Created(u)' <=> Created(u) \/ u = t
  BY <1>p, <1>a DEF Created
<1>d. \A u \in Tasks : Created(u) => u # t /\ result'[u] = result[u]
  BY <1>n, <1>p DEF Created
<1>o. RecordIsAnswer /\ CreatedIsRecorded
  BY DEF StoreInv
\* within the retention the vacant key would hold the earlier answer
<1>u. \A u \in Tasks : Created(u) /\ key[u] = key[t] => clock > result[u].at + Retention
  <2> SUFFICES ASSUME NEW u \in Tasks, Created(u), key[u] = key[t]
               PROVE  clock > result[u].at + Retention
    OBVIOUS
  <2>1. result[u].at \in Nat /\ input[u] \in Inputs /\ result[u].at \in 0..MaxTime
    BY MaxTimeIsNat DEF TypeOK, Results, Created, LockInv, FrameOK
  <2>2. [input |-> input[u], response |-> u, created_at |-> result[u].at] # None
    BY <2>1, NoneIsNoRecord DEF Records
  <2>3. ~ (result[u].at + Retention >= clock)
    BY <1>o, <1>v, <2>2 DEF CreatedIsRecorded
  <2>4. QED
    BY <1>0, <2>1, <2>3, RetentionIsNat
<1>1. NoRecordDuringOperation'
  <2> SUFFICES ASSUME NEW u \in Tasks, InOperation(u)' PROVE records'[key[u]] = None
    BY <1>0 DEF NoRecordDuringOperation
  <2>1. u # t /\ InOperation(u)
    BY DEF Succeed, InOperation, TypeOK
  <2>2. key[u] # key[t]
    BY <1>0, <2>1, LockExcludes DEF OneOperationPerKey
  <2>3. QED
    BY <1>p, <2>1, <2>2 DEF StoreInv, NoRecordDuringOperation, TypeOK, InOperation
<1>2. CreatedIsRecorded'
  <2> SUFFICES ASSUME NEW u \in Tasks, Created(u)'
               PROVE  /\ result'[u].response = u
                      /\ result'[u].at <= clock
                      /\ result'[u].at + Retention >= clock =>
                           records'[key[u]] =
                             [input |-> input[u], response |-> u, created_at |-> result'[u].at]
    BY <1>0 DEF CreatedIsRecorded
  <2>1. CASE u = t
    BY <1>0, <1>p, <2>1
  <2>2. CASE u # t
    <3>1. Created(u) /\ result'[u] = result[u] /\ result[u].at \in Nat /\ key[u] \in Keys
      BY <1>c, <1>d, <2>2, MaxTimeIsNat DEF TypeOK, Results, Created, LockInv, FrameOK
    <3>2. CASE key[u] = key[t]
      BY <1>0, <1>o, <1>u, <3>1, <3>2, RetentionIsNat DEF CreatedIsRecorded
    <3>3. CASE key[u] # key[t]
      BY <1>o, <1>p, <3>1, <3>3 DEF CreatedIsRecorded
    <3>4. QED
      BY <3>2, <3>3
  <2>3. QED
    BY <2>1, <2>2
<1>3. RecordIsAnswer'
  <2> SUFFICES ASSUME NEW k \in Keys, records'[k] # None
               PROVE  (LET p == records[k].response IN
                         /\ records[k].created_at <= clock
                         /\ IF p = FromRestore
                            THEN Restored[k] = records[k].input /\ records[k].created_at = 0
                            ELSE /\ Created(p) /\ key[p] = k /\ input[p] = records[k].input
                                 /\ result[p].at = records[k].created_at)'
    BY DEF RecordIsAnswer
  <2>1. CASE k = key[t]
    BY <1>0, <1>c, <1>p, <2>1, RestoreIsNoTask
  <2>2. CASE k # key[t]
    <3>1. records'[k] = records[k] /\ records[k].response \in Tasks \cup {FromRestore}
      BY <1>p, <2>2 DEF TypeOK, Records
    <3>2. QED
      BY <1>0, <1>c, <1>d, <1>o, <3>1 DEF RecordIsAnswer
  <2>3. QED
    BY <2>1, <2>2
<1>4. CreatedOncePerRetention'
  BY <1>0, <1>c, <1>d, <1>p, <1>u DEF StoreInv, CreatedOncePerRetention
<1>5. ReplaysAreFaithful'
  <2> SUFFICES ASSUME NEW u \in Tasks, Replayed(u)'
               PROVE  (LET p == result[u].response IN
                         IF p = FromRestore
                         THEN Restored[key[u]] = input[u] /\ result[u].at <= Retention
                         ELSE /\ Created(p)
                              /\ key[p] = key[u] /\ input[p] = input[u]
                              /\ result[u].at - result[p].at \in 0..Retention)'
    BY DEF ReplaysAreFaithful
  <2>1. u # t /\ Replayed(u) /\ result'[u] = result[u]
    BY <1>p DEF Replayed
  <2>2. result[u].response \in Tasks \cup {FromRestore}
    BY <2>1 DEF TypeOK, Results, Replayed
  <2>3. QED
    BY <1>0, <1>c, <1>d, <2>1, <2>2 DEF StoreInv, ReplaysAreFaithful
<1>6. ConflictsAreJustified'
  BY <1>0, <1>c, <1>d, <1>p DEF StoreInv, ConflictsAreJustified
<1>7. QED
  BY <1>1, <1>2, <1>3, <1>4, <1>5, <1>6 DEF StoreInv

\* Every step keeps what is known of records.
LEMMA NextStore == TypeOK /\ LockInv /\ StoreInv /\ [Next]_vars => StoreInv'
<1> SUFFICES ASSUME TypeOK, LockInv, StoreInv, [Next]_vars PROVE StoreInv'
  OBVIOUS
<1>0. clock \in Nat
  BY MaxTimeIsNat DEF TypeOK
<1>1. CASE Tick
  BY <1>0, <1>1, QuietStep DEF Tick, InOperation
<1>2. ASSUME NEW t \in Tasks, Start(t) PROVE StoreInv'
  <2>1. \A u \in Tasks : InOperation(u)' => InOperation(u) /\ u # t
    BY <1>2 DEF Start, InOperation, TypeOK
  <2>2. \A u \in Tasks : u # t => key'[u] = key[u] /\ input'[u] = input[u]
    BY <1>2 DEF Start, TypeOK
  <2>3. result[t] = None
    BY <1>2 DEF Start, LockInv, FrameOK
  <2>4. QED
    BY <1>0, <1>2, <2>1, <2>2, <2>3, QuietStep DEF Start
<1>3. ASSUME NEW t \in Tasks, Acquire(t) PROVE StoreInv'
  BY <1>0, <1>3, QuietStep DEF Acquire, InOperation, TypeOK
<1>4. ASSUME NEW t \in Tasks, Lookup(t) PROVE StoreInv'
  BY <1>4, LookupStep
<1>5. ASSUME NEW t \in Tasks, Perform(t) PROVE StoreInv'
  BY <1>0, <1>5, QuietStep DEF Perform, InOperation, TypeOK
<1>6. ASSUME NEW t \in Tasks, Succeed(t) PROVE StoreInv'
  BY <1>6, SucceedStep
<1>7. ASSUME NEW t \in Tasks, Fail(t) \/ Cancel(t) PROVE StoreInv'
  <2>1. /\ UNCHANGED <<records, clock, key, input>>
        /\ \A u \in Tasks : InOperation(u)' => InOperation(u)
    BY <1>7 DEF Fail, Cancel, InOperation, TypeOK
  <2>2. result[t] = None /\ result'[t].kind \in {"failed", "cancelled"}
    BY <1>7 DEF Fail, Cancel, LockInv, FrameOK, TypeOK, InOperation
  <2>3. \A u \in Tasks : u # t => result'[u] = result[u]
    BY <1>7 DEF Fail, Cancel, TypeOK
  <2>4. QED
    BY <1>0, <2>1, <2>2, <2>3, QuietStep
<1>8. ASSUME NEW t \in Tasks, Unlock(t) \/ Release(t) \/ Return(t) PROVE StoreInv'
  BY <1>0, <1>8, QuietStep DEF Unlock, Release, Return, InOperation, TypeOK
<1>9. CASE UNCHANGED vars
  BY <1>0, <1>9, QuietStep DEF vars, InOperation
<1>10. QED
  BY <1>1, <1>2, <1>3, <1>4, <1>5, <1>6, <1>7, <1>8, <1>9 DEF Next, Progress

\* The lock discipline and the bookkeeping of records hold in every state.
THEOREM InductiveInvariant == Spec => []IInv
<1>1. Init => IInv
  BY InitType, InitLock, InitStore DEF IInv
<1>2. IInv /\ [Next]_vars => IInv'
  BY NextType, NextLock, NextStore DEF IInv
<1>3. QED
  BY <1>1, <1>2, PTL DEF Spec

\* Within a retention one operation per key completes: a second call is replayed or
\* refused.
THEOREM CreatedOnce == Spec => []CreatedOncePerRetention
<1>1. IInv => CreatedOncePerRetention
  BY DEF IInv, StoreInv
<1>2. QED
  BY <1>1, InductiveInvariant, PTL

\* Replayed answers belong to the same key and input.
THEOREM ReplaysFaithful == Spec => []ReplaysAreFaithful
<1>1. IInv => ReplaysAreFaithful
  BY DEF IInv, StoreInv
<1>2. QED
  BY <1>1, InductiveInvariant, PTL

\* Conflicts are reported only where one exists.
THEOREM ConflictsJustified == Spec => []ConflictsAreJustified
<1>1. IInv => ConflictsAreJustified
  BY DEF IInv, StoreInv
<1>2. QED
  BY <1>1, InductiveInvariant, PTL

\* A record within its retention is neither replaced nor dropped.
THEOREM RecordsAreKept == Spec => RetainedRecordsKept
<1>1. IInv /\ [Next]_vars =>
        [\A k \in Keys :
            records[k] # None /\ Retained(records[k], clock) => records'[k] = records[k]]_vars
  <2> SUFFICES ASSUME IInv, [Next]_vars, NEW k \in Keys,
                      records[k] # None, Retained(records[k], clock)
               PROVE  records'[k] = records[k]
    OBVIOUS
  <2>1. ASSUME NEW t \in Tasks, Succeed(t) PROVE records'[k] = records[k]
    <3>1. records[key[t]] = None
      BY <2>1 DEF Succeed, InOperation, IInv, StoreInv, NoRecordDuringOperation
    <3>2. QED
      BY <2>1, <3>1 DEF Succeed, IInv, TypeOK
  <2>2. ASSUME NEW t \in Tasks, Lookup(t) PROVE records'[k] = records[k]
    BY <2>2 DEF Lookup, Swept
  <2>3. CASE UNCHANGED records
    BY <2>3
  <2>4. QED
    BY <2>1, <2>2, <2>3 DEF Next, Progress, Tick, Start, Acquire, Perform, Fail, Unlock,
       Release, Return, Cancel, vars
<1>2. QED
  BY <1>1, InductiveInvariant, PTL DEF Spec, RetainedRecordsKept

----------------------------------------------------------------------------
(***************************************************************************)
(* The store implements IdempotentCommands.  Its memo is what a sweep      *)
(* would keep now; a call is answered in the step that determines its      *)
(* result, and every step about locks is a stuttering step.                *)
(***************************************************************************)

Memo == Swept(clock)
Request == [t \in Tasks |->
              IF key[t] = None THEN None ELSE [key |-> key[t], input |-> input[t]]]

\* A call that is past its start and has no answer is pending.
LEMMA PendingCall ==
    ASSUME IInv, NEW t \in Tasks, pc[t] # "idle", result[t] = None
    PROVE  /\ Commands!Pending(t)
           /\ Request[t] = [key |-> key[t], input |-> input[t]]
           /\ key[t] \in Keys /\ input[t] \in Inputs
<1>1. key[t] \in Keys /\ input[t] \in Inputs
  BY DEF IInv, TypeOK
<1>2. Request[t] = [key |-> key[t], input |-> input[t]]
  BY <1>1, NoneIsNoKey DEF Request
<1>3. Request[t] # None
  BY <1>1, <1>2, NoneIsNoRequest DEF Requests
<1>4. QED
  BY <1>1, <1>2, <1>3 DEF Commands!Pending, Request

\* The restored records are the memo the atomic specification starts from.
LEMMA InitImplements == Init => Commands!Init
<1> SUFFICES ASSUME Init PROVE Commands!Init
  OBVIOUS
<1>1. \A k \in Keys : records[k] # None => Retained(records[k], clock)
  BY RetentionIsNat DEF Init, Retained
<1>2. Swept(clock) = records
  BY <1>1 DEF Swept, Init
<1>3. QED
  BY <1>2 DEF Init, Commands!Init

\* Time passing drops from the memo what has outlived its retention.
LEMMA TickImplements == IInv /\ Tick => Commands!Advance
<1> SUFFICES ASSUME IInv, Tick PROVE Commands!Advance
  OBVIOUS
<1>0. clock \in Nat /\ clock' = clock + 1
  BY MaxTimeIsNat DEF IInv, TypeOK, Tick
<1>1. \A k \in Keys : records[k] # None => records[k].created_at \in Nat
  BY MaxTimeIsNat DEF IInv, TypeOK, Records
<1>2. \A k \in Keys : records[k] # None =>
        (Retained(records[k], clock + 1) => Retained(records[k], clock))
  BY <1>0, <1>1, RetentionIsNat DEF Retained
<1>3. Swept(clock)' = [k \in Keys |->
        IF Memo[k] # None /\ Memo[k].created_at + Retention >= clock + 1
        THEN Memo[k] ELSE None]
  BY <1>0, <1>2 DEF Tick, Swept, Memo, Retained
<1>4. QED
  BY <1>0, <1>3 DEF Tick, Commands!Advance, Memo

\* The lookup changes nothing of the memo: what it drops was not there.
LEMMA LookupImplements ==
    ASSUME IInv, NEW t \in Tasks, Lookup(t)
    PROVE  Commands!Replay(t) \/ Commands!Refuse(t) \/ UNCHANGED Commands!avars
<1> DEFINE existing == Memo[key[t]]
<1>1. Swept(clock)' = Swept(clock)
  BY DEF Lookup, Swept
<1>2. UNCHANGED <<clock, key, input>>
  BY DEF Lookup
<1>3. result[t] = None /\ pc[t] # "idle"
  BY DEF Lookup, IInv, LockInv, FrameOK
<1>4. /\ Commands!Pending(t)
      /\ Request[t] = [key |-> key[t], input |-> input[t]]
      /\ key[t] \in Keys
  BY <1>3, PendingCall
<1>r. Request[t].key = key[t] /\ Request[t].input = input[t] /\ Request' = Request
  BY <1>2, <1>4 DEF Request
<1>5. CASE existing = None
  <2>1. UNCHANGED result
    BY <1>5 DEF Lookup, Memo
  <2>2. QED
    BY <1>1, <1>2, <2>1 DEF Commands!avars
<1>6. CASE existing # None /\ existing.input = input[t]
  <2>1. result' = [result EXCEPT ![t] =
          [kind |-> "replayed", response |-> existing.response, at |-> clock]]
    BY <1>6 DEF Lookup, Memo
  <2>2. QED
    BY <1>1, <1>2, <1>4, <1>6, <1>r, <2>1 DEF Commands!Replay, Memo, Request
<1>7. CASE existing # None /\ existing.input # input[t]
  <2>1. result' = [result EXCEPT ![t] = [kind |-> "conflict", at |-> clock]]
    BY <1>7 DEF Lookup, Memo
  <2>2. QED
    BY <1>1, <1>2, <1>4, <1>7, <1>r, <2>1 DEF Commands!Refuse, Memo, Request
<1>8. QED
  BY <1>5, <1>6, <1>7

\* Storing a response is the atomic execution of the call.
LEMMA SucceedImplements ==
    ASSUME IInv, NEW t \in Tasks, Succeed(t)
    PROVE  Commands!Execute(t)
<1> DEFINE record == [input |-> input[t], response |-> t, created_at |-> clock]
<1>1. clock \in Nat /\ clock \in 0..MaxTime /\ InOperation(t) /\ UNCHANGED <<clock, key, input>>
  BY MaxTimeIsNat DEF IInv, TypeOK, Succeed, InOperation
<1>2. result[t] = None /\ pc[t] # "idle" /\ records[key[t]] = None
  BY <1>1 DEF IInv, LockInv, StoreInv, FrameOK, NoRecordDuringOperation, InOperation
<1>3. /\ Commands!Pending(t)
      /\ Request[t] = [key |-> key[t], input |-> input[t]]
      /\ key[t] \in Keys /\ input[t] \in Inputs
  BY <1>2, PendingCall
<1>4. Memo[key[t]] = None
  BY <1>2, <1>3 DEF Memo, Swept
<1>5. record # None /\ Retained(record, clock)
  BY <1>1, <1>3, NoneIsNoRecord, RetentionIsNat DEF Records, Retained
<1>6. records' = [records EXCEPT ![key[t]] = record]
  BY DEF Succeed
<1>7. Swept(clock)' = [Memo EXCEPT ![key[t]] = record]
  BY <1>1, <1>3, <1>5, <1>6 DEF Memo, Swept, IInv, TypeOK
<1>8. result' = [result EXCEPT ![t] = [kind |-> "created", response |-> t, at |-> clock]]
  BY DEF Succeed
<1>9. Request[t].key = key[t] /\ Request[t].input = input[t] /\ Request' = Request
  BY <1>1, <1>3 DEF Request
<1>10. QED
  BY <1>1, <1>3, <1>4, <1>7, <1>8, <1>9 DEF Commands!Execute, Memo, Request

\* Every step of the store is a step of IdempotentCommands or a stutter.
LEMMA NextImplements == IInv /\ [Next]_vars => [Commands!Next]_(Commands!avars)
<1> SUFFICES ASSUME IInv, [Next]_vars PROVE [Commands!Next]_(Commands!avars)
  OBVIOUS
<1>1. CASE Tick
  BY <1>1, TickImplements DEF Commands!Next
<1>2. ASSUME NEW t \in Tasks, Start(t) PROVE Commands!Ask(t)
  <2>1. PICK k \in Keys, i \in Inputs :
            key' = [key EXCEPT ![t] = k] /\ input' = [input EXCEPT ![t] = i]
    BY <1>2 DEF Start
  <2>2. key[t] = None /\ UNCHANGED <<records, clock, result>>
    BY <1>2 DEF Start, IInv, LockInv, FrameOK
  <2>3. Request' = [Request EXCEPT ![t] = [key |-> k, input |-> i]]
    BY <2>1, NoneIsNoKey DEF Request, IInv, TypeOK
  <2>4. Request[t] = None
    BY <2>2 DEF Request
  <2>5. Swept(clock)' = Swept(clock)
    BY <2>2 DEF Swept
  <2>6. QED
    BY <2>2, <2>3, <2>4, <2>5 DEF Commands!Ask, Request
<1>3. ASSUME NEW t \in Tasks, Lookup(t)
      PROVE  Commands!Replay(t) \/ Commands!Refuse(t) \/ UNCHANGED Commands!avars
  BY <1>3, LookupImplements
<1>4. ASSUME NEW t \in Tasks, Succeed(t) PROVE Commands!Execute(t)
  BY <1>4, SucceedImplements
<1>5. ASSUME NEW t \in Tasks, Fail(t) \/ Cancel(t) PROVE Commands!GiveUp(t)
  <2>1. result[t] = None /\ pc[t] # "idle" /\ UNCHANGED <<records, clock, key, input>>
    BY <1>5 DEF Fail, Cancel, IInv, LockInv, FrameOK, InOperation
  <2>2. \E k \in {"failed", "cancelled"} :
          result' = [result EXCEPT ![t] = [kind |-> k, at |-> clock]]
    BY <1>5 DEF Fail, Cancel
  <2>3. Swept(clock)' = Swept(clock)
    BY <2>1 DEF Swept
  <2>4. Commands!Pending(t)
    BY <2>1, PendingCall
  <2>5. QED
    BY <2>1, <2>2, <2>3, <2>4 DEF Commands!GiveUp
<1>6. CASE UNCHANGED <<records, clock, key, input, result>>
  BY <1>6 DEF Commands!avars, Swept
<1>7. QED
  BY <1>1, <1>2, <1>3, <1>4, <1>5, <1>6 DEF Next, Progress, Acquire, Perform, Unlock,
     Release, Return, vars, Commands!Next

\* The lock table, the sweep and the interleaving of calls are invisible: every
\* behaviour of the store answers its calls as the atomic specification does.
THEOREM Implementation == Spec => AnswersAtomically
BY InitImplements, NextImplements, InductiveInvariant, PTL
DEF Spec, AnswersAtomically, Commands!Spec

============================================================================

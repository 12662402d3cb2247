----------------------------- MODULE KeyedLock -----------------------------
(***************************************************************************)
(* The keyed-lock table that the in-memory stores of aep-service and       *)
(* aep-platform share: a map from a key to an Arc<futures::lock::Mutex>,   *)
(* itself behind a std Mutex.  A call clones the Arc of its key (creating  *)
(* it when the key has none), awaits the async mutex, drops the guard,     *)
(* removes the map entry when only the map and itself still refer to the   *)
(* mutex, and drops its clone when the function returns.                   *)
(*                                                                         *)
(* Mutexes are the identities of the allocated mutexes: one that nothing   *)
(* refers to has been freed, and its identity may be allocated again.      *)
(***************************************************************************)
EXTENDS Naturals, FiniteSets

CONSTANTS
    Tasks,      \* calls in flight
    Keys,       \* keys of the table
    Mutexes,    \* identities a mutex can have
    None        \* no entry, no clone, nobody

ASSUME TasksFinite == IsFiniteSet(Tasks)
ASSUME KeysFinite  == IsFiniteSet(Keys)
ASSUME NoneIsNoMutex == None \notin Mutexes
ASSUME NoneIsNoTask  == None \notin Tasks
ASSUME NoneIsNoKey   == None \notin Keys

VARIABLES
    locks,      \* the map: key -> mutex or None
    arc,        \* the clone a call keeps in its frame: task -> mutex or None
    owner       \* who holds the guard: mutex -> task or None

lockVars == <<locks, arc, owner>>

LockTypeOK ==
    /\ locks \in [Keys -> Mutexes \cup {None}]
    /\ arc \in [Tasks -> Mutexes \cup {None}]
    /\ owner \in [Mutexes -> Tasks \cup {None}]

LockInit ==
    /\ locks = [k \in Keys |-> None]
    /\ arc = [t \in Tasks |-> None]
    /\ owner = [m \in Mutexes |-> None]

----------------------------------------------------------------------------
EntriesOf(m) == {k \in Keys : locks[k] = m}
ClonesOf(m)  == {t \in Tasks : arc[t] = m}

\* Arc::strong_count
StrongCount(m) == Cardinality(EntriesOf(m)) + Cardinality(ClonesOf(m))

Allocated(m) == EntriesOf(m) # {} \/ ClonesOf(m) # {}

\* locks.entry(key).or_default().clone(): one critical section of the std mutex
CloneLock(t, k) ==
    \E m \in Mutexes :
        /\ IF locks[k] = None THEN ~Allocated(m) ELSE m = locks[k]
        /\ locks' = [locks EXCEPT ![k] = m]
        /\ arc' = [arc EXCEPT ![t] = m]
        /\ UNCHANGED owner

\* lock().await resolves
LockGuard(t) ==
    /\ owner[arc[t]] = None
    /\ owner' = [owner EXCEPT ![arc[t]] = t]
    /\ UNCHANGED <<locks, arc>>

\* the guard, or the pending lock() future, goes out of scope
DropGuard(t) ==
    /\ owner' = [m \in Mutexes |-> IF owner[m] = t THEN None ELSE owner[m]]
    /\ UNCHANGED <<locks, arc>>

\* Fault: the entry goes with whoever finishes.
LastUserByIdentity(t, k) == locks[k] = arc[t]

\* the entry is the caller's mutex and nobody but the map and the caller has it
LastUser(t, k) == locks[k] = arc[t] /\ StrongCount(arc[t]) = 2

\* release_*_lock: one critical section of the std mutex
ReleaseLock(t, k) ==
    /\ locks' = IF LastUser(t, k) THEN [locks EXCEPT ![k] = None] ELSE locks
    /\ UNCHANGED <<arc, owner>>

\* the clone goes out of scope
DropClone(t) ==
    /\ arc' = [arc EXCEPT ![t] = None]
    /\ UNCHANGED <<locks, owner>>

============================================================================

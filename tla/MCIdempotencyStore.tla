------------------------ MODULE MCIdempotencyStore ------------------------
(***************************************************************************)
(* Instances of IdempotencyStore for TLC.                                  *)
(***************************************************************************)
EXTENDS IdempotencyStore, TLC

CONSTANTS k1, k2, i1

\* k1 comes with a record of an earlier process, when there is a second key.
MCRestored == [k \in Keys |-> IF k = k2 THEN i1 ELSE None]
MCNothingRestored == [k \in Keys |-> None]

\* Mutex identities are interchangeable; so are tasks when all are cancellable.
MutexSymmetry == Permutations(Mutexes)
TaskMutexSymmetry == Permutations(Tasks) \cup Permutations(Mutexes)
============================================================================

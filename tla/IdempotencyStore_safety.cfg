\* Three calls, all cancellable, of two keys, one with a record of an earlier
\* process, and a clock that outlives the retention.  Three calls start at most
\* three mutexes, so a fourth identity would add nothing.
CONSTANTS
    Tasks = {t1, t2, t3}
    Keys = {k1, k2}
    k1 = k1
    k2 = k2
    i1 = i1
    Mutexes = {m1, m2, m3}
    None = None
    Inputs = {i1, i2}
    Cancellable = {t1, t2, t3}
    Restored <- MCRestored
    FromRestore = FromRestore
    Retention = 1
    MaxTime = 2
SYMMETRY TaskMutexSymmetry
SPECIFICATION Spec
INVARIANTS
    OneOperationPerKey
PROPERTIES
    AnswersAtomically
\* every call done and the clock at its bound: nothing more to do
CHECK_DEADLOCK FALSE

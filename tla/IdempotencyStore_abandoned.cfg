\* Two calls of one key that both run to the end: the lock entry can stay.
CONSTANTS
    Tasks = {t1, t2}
    Keys = {k1}
    k1 = k1
    k2 = k2
    i1 = i1
    Mutexes = {m1, m2}
    None = None
    Inputs = {i1, i2}
    Cancellable = {}
    Restored <- MCNothingRestored
    FromRestore = FromRestore
    Retention = 1
    MaxTime = 1
SPECIFICATION Spec
INVARIANTS
    NoAbandonedLock
\* every call done and the clock at its bound: nothing more to do
CHECK_DEADLOCK FALSE

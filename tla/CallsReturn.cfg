\* Two polls of two stages, a key more than polls, with an interval that does not divide the
\* timeout; or three calls of one key, or of one scope, one of them cancellable.
CONSTANTS
    Keys = {k1, k2, k3}
    Contexts = {x1, x2}
    MaxStages = 2
    Interval = 2
    Timeout = 3
    MaxTime = 3
    None = None
    Tasks = {t1, t2, t3}
    Mutexes = {m1, m2, m3}
    Cancellable = {t3}
    FromRestore = FromRestore
    k1 = k1
    i1 = i1
    Scopes = {s1}
    IdempotencyKeys = {k1, k2}
    Materials = {x1}
SPECIFICATION MCSpec
INVARIANTS
    RequestsBounded
    AnswersAreNew
    TimeoutJustified
PROPERTIES
    WaitReturns
    CallsReturn
    ProvisionsReturn
\* everything has returned and the clocks are at their bounds: nothing more to do
CHECK_DEADLOCK FALSE

\* Three calls under two keys, two assertions of one jti, a clock that passes both.
CONSTANTS
    Tasks = {t1, t2, t3}
    IdempotencyKeys = {k1, k2}
    Statuses = {active, suspended, revoked}
    active = active
    suspended = suspended
    revoked = revoked
    Active = active
    Allowed <- MCAllowed
    Jtis = {j1}
    j1 = j1
    Issued <- MCIssued
    Lifetime = 1
    Tolerance = 1
    MaxTime = 2
    None = None
SYMMETRY CallSymmetry
SPECIFICATION Spec
INVARIANTS
    KeysUsedWhileActive
    KeyDecidesOnce
    VerifiedOncePerLifetime
PROPERTIES
    ForbiddenNeedsOverlap
\* every call done and the clock at its bound: nothing more to do
CHECK_DEADLOCK FALSE

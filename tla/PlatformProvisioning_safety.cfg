\* Three calls, one of them cancellable, of two scopes of one principal; or one Agent in
\* two calls, with one change to the parties.
CONSTANTS
    Tasks = {t1, t2, t3}
    Keys = {s1, s2}
    Mutexes = {x1, x2, x3}
    IdempotencyKeys = {k1, k2}
    Materials = {m1, m2}
    Cancellable = {t3}
    None = None
    MaxLifetime = 2
    MaxRetryAfter = 2
    MaxStages = 2
    MaxCalls = 2
    MaxEvents = 1
    Options <- MCOptions
    Providers <- MCProviders
    Claims <- MCClaims
    Ids <- MCIds
    Methods <- MCMethods
    Handled <- MCHandled
SYMMETRY ProvisionSymmetry
SPECIFICATION MCSpec
INVARIANTS
    OneIdentityPerScope
    ExchangesExplained
    KeysResolved
PROPERTIES
    ProvisionsAtomically
\* every call done: nothing more to do
CHECK_DEADLOCK FALSE

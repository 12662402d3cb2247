\* Three requests, four tokens, two of them with one jti; two ticks to a second,
\* a skew of a second and a half and a clock that passes the first two expiries; or one
\* assertion in two requests, with one change to the parties and a tolerance of a second.
CONSTANTS
    Requests = {r1, r2, r3}
    Tokens = {a1, a2, a3, a4}
    Jtis = {j1, j2}
    a1 = a1
    a2 = a2
    a3 = a3
    a4 = a4
    j1 = j1
    j2 = j2
    Claims <- MCClaims
    TicksPerSecond = 2
    Skew = 3
    LastInstant = 7
    MaxTime = 5
    None = None
    s1 = s1
    s2 = s2
    ed = ed
    es = es
    rs = rs
    Resources = {p1, p2}
    Services <- MCServices
    Algorithms <- MCAlgorithms
    Agents <- MCAgents
    MaxLifetime = 2
    Tolerance = 1
    MaxRequests = 2
    MaxAge = 3
    MaxEvents = 1
SYMMETRY RequestSymmetry
SPECIFICATION MCSpec
INVARIANTS
    AcceptedOncePerLifetime
    SecondUseNeedsPurge
    ReplaysAreReplays
    AcceptedAsMade
    RefusalsExplained
    InactiveWasVerified
\* every request decided and the clock at its bound: nothing more to do
CHECK_DEADLOCK FALSE

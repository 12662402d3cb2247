\* Three requests are enough for one assertion to authenticate twice.
CONSTANTS
    Requests = {r1, r2, r3}
    Tokens = {a1, a2, a3, a4}
    Jtis = {j1, j2}
    a1 = a1
    a2 = a2
    a3 = a3
    a4 = a4
    j1 = j1
    j2 = j2
    Claims <- MCClaims
    TicksPerSecond = 2
    Skew = 3
    LastInstant = 7
    MaxTime = 5
    None = None
    s1 = s1
    s2 = s2
    ed = ed
    es = es
    rs = rs
    Resources = {p1, p2}
    Services <- MCServices
    Algorithms <- MCAlgorithms
    Agents <- MCAgents
    MaxLifetime = 2
    Tolerance = 1
    MaxRequests = 1
    MaxAge = 3
    MaxEvents = 0
SYMMETRY RequestSymmetry
SPECIFICATION MCSpec
INVARIANTS
    AcceptedOnce
\* every request decided and the clock at its bound: nothing more to do
CHECK_DEADLOCK FALSE

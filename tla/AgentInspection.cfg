CONSTANTS
    Sessions = {s1, s2}
    Urls = {u1, u2}
    u1 = u1
    u2 = u2
    InspectUrl = u1
    Elsewhere = elsewhere
    MaxRedirects = 1
    Redirects <- MCRedirects
    Policies <- MCPolicies
    Restored <- MCRestored
    TicksPerSecond = 2
    DefaultLifetime = 1
    MaxAge = 1
    LastVersion = 1
    LastInstant = 4
    LongestLifetime = 1
    Absent = Absent
    Malformed = Malformed
SYMMETRY SessionSymmetry
SPECIFICATION InspectSpec
INVARIANTS
    FreshAnswers
CHECK_DEADLOCK FALSE

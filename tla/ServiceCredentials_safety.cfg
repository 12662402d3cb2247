\* Three calls of any kind over two grant types and two credentials.
CONSTANTS
    Tasks = {t1, t2, t3}
    Agents = {a1}
    GrantTypes = {g1, g2}
    Ids = {i1, i2}
    Secrets = {s1, s2}
    MaxTime = 1
    None = None
SYMMETRY MCSymmetry
SPECIFICATION Spec
INVARIANTS
    RevokesComplete
    RevokedNeverAuthenticates
    NoStrayCredential
\* every call done and the clock at its bound; enrollments keep changing
CHECK_DEADLOCK FALSE

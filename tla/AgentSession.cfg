\* Three calls on two clients, two credentials of a kept and an unkept type.
CONSTANTS
    Tasks = {t1, t2, t3}
    Clients = {c1, c2}
    Dids = {d1, d2}
    Ids = {i1, i2}
    GrantTypes = {g1, g2}
    BuiltIn = {g1}
    Lifetimes = {1}
    MaxTime = 1
    None = None
SYMMETRY SessionSymmetry
SPECIFICATION Spec
INVARIANTS
    OneIdentity
    LeftoversExplained
    PresentedUsable
PROPERTIES
    LossesExplained
\* every call done and the clock at its bound: nothing more to do
CHECK_DEADLOCK FALSE

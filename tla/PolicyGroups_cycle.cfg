CONSTANTS
    g1 = g1
    g2 = g2
    q1 = q1
    q2 = q2
    Proxy = PROXY
    Custom = {g1, g2}
    Pools = {c1}
    Rules = {r1}
    Requests = {q1}
    Nobody = Nobody
    Ops <- Sequential
    MayDie = FALSE
    GoesOn = FALSE
SPECIFICATION Spec
INVARIANTS ReferencesAcyclic
CHECK_DEADLOCK FALSE

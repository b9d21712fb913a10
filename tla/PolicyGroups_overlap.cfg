CONSTANTS
    g1 = g1
    g2 = g2
    q1 = q1
    q2 = q2
    Proxy = PROXY
    Custom = {g1, g2}
    Pools = {c1}
    Rules = {r1}
    Requests = {q1, q2}
    Nobody = Nobody
    Ops <- Overlapping
    MayDie = TRUE
    GoesOn = FALSE
SYMMETRY Symmetry
SPECIFICATION Spec
INVARIANTS TypeOK RuleTargetsExist ListsStaySound
CHECK_DEADLOCK FALSE

CONSTANTS
    r1 = r1
    r2 = r2
    g1 = g1
    g2 = g2
    g3 = g3
    Runs = {r1}
    Requests = {q1, q2}
    Rules = {k1}
    Groups = {g1, g2}
    Nobody = Nobody
    Wants <- WantsValue
    NodeRuns = {r1}
    NewOnly = {}
    Faults = FALSE
    SlowRequests = FALSE
    UndoAnytime = FALSE
SPECIFICATION Spec
SYMMETRY Symmetry
INVARIANTS PartialNamesItsError
CHECK_DEADLOCK FALSE

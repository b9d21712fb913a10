CONSTANTS
    a = a
    b = b
    x = x
    y = y
    Sources = {1}
    Requests = {q1}
    Nobody = Nobody
    Contents <- Mixed
    Ids = {1, 2, 3, 4}
    Concurrency = 1
    MaxDeaths = 0
    MaxEdits = 1
SPECIFICATION Spec
INVARIANT TypeOK
PROPERTIES LoneRefreshSettles DisabledStaysDisabled
CHECK_DEADLOCK FALSE

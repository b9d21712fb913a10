CONSTANTS
    a = a
    b = b
    x = x
    y = y
    Sources = {1}
    Requests = {q1}
    Nobody = Nobody
    Contents <- Served
    Ids = {1, 2, 3, 4}
    Concurrency = 1
    MaxDeaths = 0
    MaxEdits = 0
SPECIFICATION Spec
PROPERTIES ServedNodesStay
CHECK_DEADLOCK FALSE

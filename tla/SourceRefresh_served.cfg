CONSTANTS
    a = a
    b = b
    x = x
    y = y
    Sources = {1, 2}
    Requests = {q1}
    Nobody = Nobody
    Contents <- Constant
    Ids = {1, 2, 3, 4}
    Concurrency = 1
    MaxDeaths = 1
    MaxEdits = 0
SPECIFICATION FairSpec
PROPERTIES DueIsServed
CHECK_DEADLOCK FALSE

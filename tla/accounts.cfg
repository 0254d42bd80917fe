SPECIFICATION Spec
CONSTANTS
    p1 = p1  e1 = e1  e2 = e2  i1 = i1  i2 = i2  r1 = r1  r2 = r2
    None = None
    People = {p1}
    Emails = {e1, e2}
    Instances = {i1, i2}
    Requests = {r1, r2}
    Traffic <- MCTraffic
    MaxCodes = 3
    MaxLinks = 2
    TTL = 2
    Patience = 1
    Horizon = 5
SYMMETRY Symmetric
INVARIANTS  LinkUsedOnce SuspensionBites
PROPERTY SpentStaysSpent
CHECK_DEADLOCK FALSE

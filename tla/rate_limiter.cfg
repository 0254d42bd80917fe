SPECIFICATION Spec
CONSTANTS
    account = account  connection = connection  mail = mail  visitor = visitor
    r1 = r1  r2 = r2
    None = None
    Keys <- MCKeys
    Subjects <- MCSubjects
    Traffic <- MCTraffic
    Max <- MCMax
    Window <- MCWindow
    Requests = {r1, r2}
    SweepAfter = 2
    Patience = 1
    Horizon = 4
SYMMETRY Symmetric
INVARIANTS CountBounded NoBurst CountsOnce
CHECK_DEADLOCK FALSE

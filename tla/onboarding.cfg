SPECIFICATION Spec
CONSTANTS
    a1 = a1  a2 = a2  m1 = m1  r1 = r1  r2 = r2
    None = None  Inline = Inline
    Ids = {a1, a2}
    Emails = {m1}
    Ticks <- MCTicks
    Requests = {r1, r2}
    Traffic <- MCTraffic
    Crowds <- MCCrowds
    MaxUploads = 3
SYMMETRY Symmetric
INVARIANTS AnsweredIsComplete CompleteAtRest PhotoKeptWhileNeeded NoStrayPhotos GoneForGood
PROPERTY BadgeKept
CHECK_DEADLOCK FALSE

SPECIFICATION Spec
CONSTANTS
    b1 = b1  b2 = b2  n1 = n1  n2 = n2  t1 = t1  d1 = d1  d2 = d2  i1 = i1  r1 = r1  r2 = r2
    None = None  Prepared = Prepared  Default = Default
    Businesses = {b1, b2}
    Names = {n1, n2}
    Known = {n1}
    Sent <- MCSent
    Texts = {t1}
    Designs = {d1, d2}
    Invitations = {i1}
    Requests = {r1, r2}
    Traffic <- MCTraffic
    Crowds <- MCCrowds
    Population <- MCPopulation
    TrialDays = 1
    Horizon = 1
SYMMETRY Symmetric
INVARIANTS  LinksKeepWorking OneBusinessPerInvitation
PROPERTY DesignFrozen
CHECK_DEADLOCK FALSE

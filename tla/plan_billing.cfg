SPECIFICATION Spec
CONSTANTS
    b1 = b1  r1 = r1  r2 = r2
    x1 = x1  c1 = c1
    None = None
    Businesses = {b1}
    Checkouts = {x1}
    Codes = {c1}
    Periods = {2}
    Requests = {r1, r2}
    Endpoints = {"checkout", "settle", "redeem", "plan", "edit"}
    MaxUses = 2
    MaxTime = 3
    MaxGrants = 2
SYMMETRY Symmetric
INVARIANTS RecordedWasGranted VipIsPaidFor CodesWithinUses  
PROPERTY PaidTimeAddsUp
CHECK_DEADLOCK FALSE

SPECIFICATION Spec
CONSTANTS
    o1 = o1  o2 = o2  w1 = w1  v1 = v1  k1 = k1  r1 = r1  r2 = r2
    None = None
    Owners = {o1, o2}
    Businesses = {w1, v1}
    Bookings = {k1}
    OwnerOf <- MCOwnerOf
    BusinessOf <- MCBusinessOf
    Bookable = {w1}
    Rates = {5}
    Reviews = {1, 2, 3}
    Recurrences <- MCRecurrences
    Requests = {r1, r2}
    Traffic <- MCTraffic
    Crowds <- MCCrowds
    MaxLog = 2
    MaxAttempts = 3
    Horizon = 4
    Guard = 30
SYMMETRY Symmetric
INVARIANTS OneReviewEach SeriesAsAsked
 
CHECK_DEADLOCK FALSE

SPECIFICATION Spec
CONSTANTS
    b1 = b1  b2 = b2  b3 = b3  k1 = k1  k2 = k2  r1 = r1  r2 = r2  r3 = r3
    NoRow = NoRow
    NoBooking = NoBooking
    Bookings = {b1}
    Keys = {k1}
    Slots <- OneSlot
    Requests = {r1, r2, r3}
    Endpoints = {"create", "accept", "cancel", "start", "complete", "list"}
    Failures = TRUE
    OneAtATime = FALSE
    MaxMessages = 0
    MaxRecords = 1
SYMMETRY RequestsSymmetric
INVARIANTS PaymentOrder  OutboxMatchesRow
PROPERTY ReachedOrRestored
CHECK_DEADLOCK FALSE

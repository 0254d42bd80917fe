SPECIFICATION Spec
CONSTANTS
    b1 = b1  b2 = b2  b3 = b3  k1 = k1  k2 = k2  r1 = r1  r2 = r2  r3 = r3
    NoRow = NoRow
    NoBooking = NoBooking
    Bookings = {b1, b2}
    Keys = {k1, k2}
    Slots <- TwoSlots
    Requests = {r1}
    Endpoints = {"create", "accept"}
    Failures = FALSE
    OneAtATime = FALSE
    MaxMessages = 0
    MaxRecords = 0
INVARIANT NoDoubleBooking
CHECK_DEADLOCK FALSE

SPECIFICATION Spec
CONSTANTS
    b1 = b1  b2 = b2  b3 = b3  k1 = k1  k2 = k2  r1 = r1  r2 = r2  r3 = r3
    NoRow = NoRow
    NoBooking = NoBooking
    Bookings = {b1}
    Keys = {k1, k2}
    Slots <- OneSlot
    Requests = {r1, r2}
    Endpoints = {"create", "accept", "cancel", "start", "complete", "send", "list"}
    Failures = FALSE
    OneAtATime = TRUE
    MaxMessages = 2
    MaxRecords = 2
SYMMETRY Symmetric
INVARIANTS CancelledOnce UnreadIsFlagged
PROPERTY FollowsLifecycle
CHECK_DEADLOCK FALSE

----------------------------- MODULE BookingStatus -----------------------------
(***************************************************************************)
(* The status of a booking and the transitions the aggregate allows, from  *)
(* booking-status.ts.  Constant-level: every module about bookings uses it.*)
(***************************************************************************)

Requested  == "requested"
Accepted   == "accepted"
Confirmed  == "confirmed"
InProgress == "in_progress"
Completed  == "completed"
Cancelled  == "cancelled"
Disputed   == "disputed"

Statuses == {Requested, Accepted, Confirmed, InProgress, Completed, Cancelled,
             Disputed}

ALLOWED_TRANSITIONS ==
    { <<Requested, Accepted>>, <<Requested, Confirmed>>, <<Requested, Cancelled>>,
      <<Accepted, Confirmed>>, <<Accepted, Cancelled>>,
      <<Confirmed, InProgress>>, <<Confirmed, Cancelled>>,
      <<InProgress, Completed>>,
      <<Completed, Disputed>> }

canTransition(from, to) == <<from, to>> \in ALLOWED_TRANSITIONS

\* The statuses that hold the business's time (no-double-booking.policy.ts).
ACTIVE_STATUSES == {Accepted, Confirmed, InProgress}
================================================================================

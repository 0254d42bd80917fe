--------------------------- MODULE BookingLifecycle ----------------------------
(***************************************************************************)
(* What the booking context promises of one booking, whoever acts on it:   *)
(* it is requested once and then only moves along ALLOWED_TRANSITIONS.     *)
(***************************************************************************)
EXTENDS BookingStatus

CONSTANTS Bookings,  \* the bookings that can exist
          NoStatus   \* the status of a booking that has not been requested

VARIABLE status

Init == status = [b \in Bookings |-> NoStatus]

Request(b) ==
    /\ status[b] = NoStatus
    /\ status' = [status EXCEPT ![b] = Requested]

transitionTo(b, next) ==
    /\ status[b] # NoStatus
    /\ canTransition(status[b], next)
    /\ status' = [status EXCEPT ![b] = next]

Next == \E b \in Bookings :
            \/ Request(b)
            \/ \E next \in Statuses : transitionTo(b, next)

Spec == Init /\ [][Next]_status
================================================================================

------------------------------- MODULE MCBooking -------------------------------
(***************************************************************************)
(* Small instances of Booking.                                             *)
(***************************************************************************)
EXTENDS Booking, TLC

CONSTANTS b1, b2, b3, k1, k2, r1, r2, r3

\* One hour asked of one business.
OneSlot == {[provider |-> "p", at |-> 1, len |-> 2]}

\* Two that overlap, one inside the other, one that starts as the first ends,
\* and one of another business.
ManySlots == {[provider |-> "p", at |-> 1, len |-> 2],
              [provider |-> "p", at |-> 0, len |-> 4],
              [provider |-> "p", at |-> 3, len |-> 1],
              [provider |-> "q", at |-> 1, len |-> 2]}

TwoSlots == {[provider |-> "p", at |-> 1, len |-> 2],
             [provider |-> "p", at |-> 2, len |-> 2]}

Symmetric == Permutations({r1, r2}) \cup Permutations({b1, b2, b3})
             \cup Permutations({k1, k2})
RequestsSymmetric == Permutations({r1, r2, r3})
================================================================================

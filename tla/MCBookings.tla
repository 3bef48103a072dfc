---------------------------- MODULE MCBookings ----------------------------
(* Small instances of Bookings for TLC.                                    *)
EXTENDS Bookings, TLC

CONSTANTS r1, r2, r3, u1, u2, k1, b1, b2, b3, d1, d2

Sched(startAt, endAt, deadline) ==
  [startAt |-> startAt, endAt |-> endAt, bookingDeadline |-> deadline]

(* One schedule; deadline before the start, then the departure is over.    *)
OneSchedule == {Sched(2, 3, 1)}

(* An early one with no deadline and a later one, to move a departure to.  *)
TwoSchedules == {Sched(1, 2, None), Sched(2, 3, 1)}

(* Under the early one everybody books at 0.  The later one can be booked   *)
(* at 0 and at 1, so that a schedule moved from the later to the early one *)
(* can come after a booking, and a booking after one that was cancelled.   *)
MovedSchedules == {Sched(1, 2, None), Sched(3, 4, 2)}

BookingOps == {"offer", "create", "cancel", "approve", "reject", "expire"}
SeatOps == BookingOps \cup {"withdraw"}
DepartureOps == {"offer", "create", "cancel", "update", "withdraw", "close", "complete"}
LiveOps == {"offer", "create", "cancel", "approve", "expire", "close"}

Symmetry == Permutations(Requests) \cup Permutations(Users)
              \cup Permutations(BookingIds) \cup Permutations(DepartureIds)
=============================================================================

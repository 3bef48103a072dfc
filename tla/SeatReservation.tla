-------------------------- MODULE SeatReservation --------------------------
(***************************************************************************)
(* What the booking tables promise their users, with no counter, no row    *)
(* lock and no clock: every operation is one step, and the seats held on a *)
(* departure are counted afresh from the bookings that hold them.          *)
(*                                                                         *)
(* Bookings, the module that follows BookingsService, AdminBookingsService,*)
(* DeparturesService and SchedulerService statement by statement, is       *)
(* checked to implement this one.                                          *)
(***************************************************************************)
EXTENDS Integers, FiniteSets

CONSTANTS
  BookingIds,     \* ids a booking may get
  DepartureIds,   \* ids a departure may get
  Quantities,     \* seats a booking may ask for
  Capacities,     \* seats a departure may offer
  Schedules       \* schedules a departure may have, opaque here

VARIABLES
  reservation,    \* the bookings table: departure, quantity, status of each
  plan            \* the departures: status, capacity, schedule of each

vars == <<reservation, plan>>

Reservation == [departure : DepartureIds,
                status : {"PENDING", "APPROVED", "REJECTED", "CANCELLED"},
                quantity : Quantities]

Plan == [status : {"OPEN", "CLOSED", "CANCELLED", "COMPLETED"},
         schedule : Schedules, capacity : Capacities]

(* One element for every seat that a pending or approved booking holds.    *)
HeldSeats(d) ==
  UNION {{b} \X (1 .. reservation[b].quantity) :
           b \in {x \in DOMAIN reservation :
                    /\ reservation[x].departure = d
                    /\ reservation[x].status \in {"PENDING", "APPROVED"}}}

Held(d) == Cardinality(HeldSeats(d))

With(table, id, row) ==
  [x \in DOMAIN table \cup {id} |-> IF x = id THEN row ELSE table[x]]

-----------------------------------------------------------------------------

Init ==
  /\ reservation = [b \in {} |-> {}]
  /\ plan = [d \in {} |-> {}]

(* A new departure is offered for booking.                                 *)
Offer(d, s, c) ==
  /\ d \notin DOMAIN plan
  /\ plan' = With(plan, d, [status |-> "OPEN", schedule |-> s, capacity |-> c])
  /\ UNCHANGED reservation

(* A booking takes seats that are free at that very moment.                *)
Reserve(b, d, q) ==
  /\ b \notin DOMAIN reservation
  /\ d \in DOMAIN plan
  /\ plan[d].status = "OPEN"
  /\ Held(d) + q <= plan[d].capacity
  /\ reservation' = With(reservation, b,
                         [departure |-> d, status |-> "PENDING", quantity |-> q])
  /\ UNCHANGED plan

(* A pending booking is decided, once.                                     *)
Decide(b, s) ==
  /\ reservation[b].status = "PENDING"
  /\ reservation' = [reservation EXCEPT ![b].status = s]
  /\ UNCHANGED plan

(* An administrator edits a departure that is neither cancelled nor over:  *)
(* its schedule only while nobody holds a seat, its capacity never below   *)
(* what is held, and booking reopens only when a seat is left.             *)
Replan(d, next) ==
  /\ plan[d].status \in {"OPEN", "CLOSED"}
  /\ next.status \in {"OPEN", "CLOSED"}
  /\ Held(d) <= next.capacity
  /\ next.schedule # plan[d].schedule => Held(d) = 0
  /\ plan[d].status = "CLOSED" /\ next.status = "OPEN" => Held(d) < next.capacity
  /\ plan' = [plan EXCEPT ![d] = next]
  /\ UNCHANGED reservation

(* A departure is withdrawn only while nobody holds a seat on it.          *)
Withdraw(d) ==
  /\ plan[d].status \in {"OPEN", "CLOSED"}
  /\ Held(d) = 0
  /\ plan' = [plan EXCEPT ![d].status = "CANCELLED"]
  /\ UNCHANGED reservation

(* Time closes a set of departures, or completes it.                       *)
Advance(ds, s) ==
  /\ \A d \in ds : plan[d].status \in
       (IF s = "CLOSED" THEN {"OPEN"} ELSE {"OPEN", "CLOSED"})
  /\ plan' = [d \in DOMAIN plan |-> IF d \in ds THEN [plan[d] EXCEPT !.status = s]
                                               ELSE plan[d]]
  /\ UNCHANGED reservation

Next ==
  \/ \E d \in DepartureIds, s \in Schedules, c \in Capacities : Offer(d, s, c)
  \/ \E b \in BookingIds, d \in DepartureIds, q \in Quantities : Reserve(b, d, q)
  \/ \E b \in DOMAIN reservation, s \in {"APPROVED", "REJECTED", "CANCELLED"} :
       Decide(b, s)
  \/ \E d \in DOMAIN plan, next \in Plan : Replan(d, next)
  \/ \E d \in DOMAIN plan : Withdraw(d)
  \/ \E ds \in SUBSET DOMAIN plan, s \in {"CLOSED", "COMPLETED"} : Advance(ds, s)

Spec == Init /\ [][Next]_vars
=============================================================================

----------------------------- MODULE Bookings -----------------------------
(***************************************************************************)
(* The booking tables of the service and every transaction that writes     *)
(* them: BookingsService (create, cancel), AdminBookingsService (approve,  *)
(* reject), DeparturesService (create, update, cancel) and the jobs of     *)
(* SchedulerService (expire, close, complete).                             *)
(*                                                                         *)
(* A transaction is a record in tx.  Its steps are the statements at which *)
(* it can wait or see what others wrote: SELECT ... FOR UPDATE of a booking*)
(* or a departure, the INSERT that meets the unique index on (user, key),  *)
(* and COMMIT.  PostgreSQL runs READ COMMITTED: a statement sees what is   *)
(* committed when it starts, a row lock is held to the end of the          *)
(* transaction, and what a transaction writes appears at its COMMIT.  The  *)
(* reads and checks that follow a lock on rows the lock protects are one   *)
(* step with it.  A lost connection or a crash rolls back a transaction at *)
(* any point (Abort).                                                      *)
(*                                                                         *)
(* The CHECK constraints of the tables are not guards here: the properties *)
(* show that they never fire.                                              *)
(***************************************************************************)
EXTENDS Integers, FiniteSets, Sequences

CONSTANTS
  Requests,       \* requests the API serves at the same time
  Scheduler,      \* the one scheduler replica (it runs one job at a time)
  Users, Keys,    \* customers and their idempotency keys
  BookingIds,     \* supply of booking ids
  DepartureIds,   \* supply of departure ids
  MaxQuantity,    \* BOOKING_MAX_QUANTITY
  Quantities,     \* seats a request may ask for (DTO: 1 to the maximum)
  Capacities,     \* capacities an administrator may set (DTO: >= 1)
  Schedules,      \* schedules an administrator may send, valid or not
  PendingTtl,     \* BOOKING_PENDING_TTL_HOURS, in clock units
  MaxTime,        \* bound of the clock
  Operations,     \* the operations this instance submits
  None            \* null, and "the field was not sent"

Time == 0 .. MaxTime
Processes == Requests \cup {Scheduler}

CustomerOps  == {"create", "cancel"}
AdminOps     == {"approve", "reject", "update", "withdraw"}
SchedulerOps == {"expire", "close", "complete"}
ReleaseOps   == {"cancel", "reject", "expire"}
AllOps       == CustomerOps \cup AdminOps \cup SchedulerOps

ASSUME ConstantsAssumption ==
  /\ Scheduler \notin Requests
  /\ IsFiniteSet(Requests)
  /\ IsFiniteSet(BookingIds)
  /\ BookingIds \cap DepartureIds = {}
  /\ MaxQuantity \in Nat
  /\ Quantities \subseteq 1 .. MaxQuantity
  /\ Capacities \subseteq Nat \ {0}
  /\ Schedules \subseteq [startAt : Nat, endAt : Nat, bookingDeadline : Nat \cup {None}]
  /\ PendingTtl \in Nat
  /\ MaxTime \in Nat
  /\ Operations \subseteq AllOps \cup {"offer"}

ASSUME NoneAssumption ==
  /\ None \notin Nat
  /\ None \notin Schedules
  /\ None \notin {"OPEN", "CLOSED"}

BookingStatus   == {"PENDING", "APPROVED", "REJECTED", "CANCELLED"}
DepartureStatus == {"OPEN", "CLOSED", "CANCELLED", "COMPLETED"}

VARIABLES
  now,         \* the clock that the service and the database share
  departure,   \* tour_departures: id -> row
  booking,     \* bookings: id -> row
  history,     \* booking_status_histories: the rows of each booking, in order
  outbox,      \* status rows of booking_notification_outbox: a set of rows
  tx,          \* what each process is doing
  answered     \* history variable: the bookings that create answered with

vars == <<now, departure, booking, history, outbox, tx, answered>>
tables == <<departure, booking, history, outbox>>

Departure == [status : DepartureStatus, schedule : Schedules,
              capacity : Capacities, bookedSeats : Nat]
Booking == [departure : DepartureIds, status : BookingStatus, user : Users,
            key : Keys, quantity : Quantities, createdAt : Time]
HistoryRow == [from : BookingStatus \cup {None}, to : BookingStatus,
               actor : {"customer", "admin", "scheduler"}]
OutboxRow == [booking : BookingIds, status : {"APPROVED", "REJECTED"}]
Answer == [departure : DepartureIds, booking : BookingIds, user : Users,
           key : Keys, quantity : Quantities]

(* What a request asks for: one shape per operation.                       *)
CreateInput   == [departure : DepartureIds, booking : BookingIds, user : Users,
                  key : Keys, quantity : Quantities]
CancelInput   == [booking : BookingIds, user : Users]
DecisionInput == [booking : BookingIds]
UpdateInput   == [departure : DepartureIds, status : {"OPEN", "CLOSED", None},
                  schedule : Schedules \cup {None}, capacity : Capacities \cup {None}]
WithdrawInput == [departure : DepartureIds]
BatchInput    == [departures : SUBSET DepartureIds]

Inputs(op) ==
  IF op = "create" THEN CreateInput
  ELSE IF op = "cancel" THEN CancelInput
  ELSE IF op \in {"approve", "reject", "expire"} THEN DecisionInput
  ELSE IF op = "update" THEN UpdateInput
  ELSE IF op = "withdraw" THEN WithdrawInput
  ELSE BatchInput

(* The statements an operation goes through.                               *)
Stages(op) ==
  IF op = "create" THEN {"lockDeparture", "insert", "reread", "commit"}
  ELSE IF op \in {"update", "withdraw"} THEN {"lockDeparture", "commit"}
  ELSE IF op \in {"close", "complete"} THEN {"visit", "commit"}
  ELSE IF op = "approve" THEN {"lockBooking", "commit"}
  ELSE {"lockBooking", "lockDeparture", "commit"}

Idle == [op |-> "none", stage |-> "idle", input |-> None, row |-> None,
         locks |-> {}, began |-> 0]

(* A transaction of operation op.                                          *)
TxOf(op) ==
  [op : {op}, stage : Stages(op), input : Inputs(op), row : Departure \cup {None},
   locks : SUBSET (BookingIds \cup DepartureIds), began : Time]

-----------------------------------------------------------------------------
(* Locks and the order in which each operation takes them.                 *)

(* Mutant: the row is read without FOR UPDATE.                             *)
ReadUnlocked(p, id) == TRUE

(* p may lock row id: no other transaction holds it.                       *)
Free(p, id) == \A s \in Processes \ {p} : id \notin tx[s].locks

(* Mutant: the expiry locks the departure before the booking.              *)
DepartureFirst(op, stage) ==
  IF stage = "begin"
    THEN IF op \in {"create", "update", "withdraw", "expire"} THEN "lockDeparture"
                                                             ELSE "lockBooking"
  ELSE IF stage = "lockBooking"
    THEN IF op \in {"approve", "expire"} THEN "commit" ELSE "lockDeparture"
  ELSE IF stage = "lockDeparture" /\ op = "expire" THEN "lockBooking"
  ELSE IF stage = "lockDeparture" /\ op = "create" THEN "insert" ELSE "commit"

(* What an operation does next.  Whoever needs both rows takes the booking *)
(* first; create needs only the departure, approve only the booking.       *)
After(op, stage) ==
  IF stage = "begin"
    THEN IF op \in {"create", "update", "withdraw"} THEN "lockDeparture" ELSE "lockBooking"
  ELSE IF stage = "lockBooking"
    THEN IF op = "approve" THEN "commit" ELSE "lockDeparture"
  ELSE IF stage = "lockDeparture" /\ op = "create" THEN "insert" ELSE "commit"

At(p, ops, stage) == tx[p].op \in ops /\ tx[p].stage = stage

(* An insert that has met the unique index on (user, key) and holds the    *)
(* entry until it commits or rolls back.                                   *)
HoldsKey(p, u, k) ==
  /\ At(p, {"create"}, "commit")
  /\ tx[p].input.user = u
  /\ tx[p].input.key = k

(* The booking with this key, if one is committed.                         *)
WithKey(u, k) == {b \in DOMAIN booking : booking[b].user = u /\ booking[b].key = k}

(* The departure row that a transaction locks.                             *)
DepartureOf(p) ==
  IF tx[p].op \in {"create", "update", "withdraw"} THEN tx[p].input.departure
                                                   ELSE booking[tx[p].input.booking].departure

With(table, id, row) ==
  [x \in DOMAIN table \cup {id} |-> IF x = id THEN row ELSE table[x]]

Begin(p, op, input, stage, t) ==
  tx' = [tx EXCEPT ![p] = [op |-> op, stage |-> stage, input |-> input,
                           row |-> None, locks |-> {}, began |-> t]]

(* COMMIT and ROLLBACK both give up every lock.                            *)
End(p) == tx' = [tx EXCEPT ![p] = Idle]

Rollback(p) == End(p) /\ UNCHANGED <<now, tables, answered>>

(* p locks a row and goes on to its next stage.                            *)
Lock(p, id, row) ==
  /\ tx' = [tx EXCEPT ![p] = [tx[p] EXCEPT !.stage = After(tx[p].op, tx[p].stage),
                                           !.locks = tx[p].locks \cup {id},
                                           !.row   = row]]
  /\ UNCHANGED <<now, tables, answered>>

-----------------------------------------------------------------------------
(* Conditions of the services.                                             *)

Active(b) == booking[b].status \in {"PENDING", "APPROVED"}

ActiveOn(d) == {b \in DOMAIN booking : booking[b].departure = d /\ Active(b)}

InFuture(t) == t # None => t > now

(* Mutant: is there a seat at all, instead of enough of them.              *)
AnySeatLeft(row, quantity) ==
  /\ row.status = "OPEN"
  /\ row.schedule.startAt > now
  /\ InFuture(row.schedule.bookingDeadline)
  /\ row.bookedSeats < row.capacity

(* BookingsService.ensureDepartureIsBookable                               *)
Bookable(row, quantity) ==
  /\ row.status = "OPEN"
  /\ row.schedule.startAt > now
  /\ InFuture(row.schedule.bookingDeadline)
  /\ row.bookedSeats + quantity <= row.capacity

(* DeparturesService.validateSchedule, with requireFutureStart             *)
ValidSchedule(s) ==
  /\ s.endAt > s.startAt
  /\ s.bookingDeadline # None => s.bookingDeadline <= s.startAt
  /\ InFuture(s.bookingDeadline)
  /\ s.startAt > now

(* Mutant: only approved bookings count as reservations.                   *)
ApprovedReservations(d, row) == \E b \in ActiveOn(d) : booking[b].status = "APPROVED"

(* DeparturesService.hasReservations                                       *)
HasReservations(d, row) == row.bookedSeats > 0 \/ ActiveOn(d) # {}

(* The row that DeparturesService.update saves.                            *)
Updated(row, input) ==
  [row EXCEPT !.schedule = IF input.schedule = None THEN @ ELSE input.schedule,
              !.capacity = IF input.capacity = None THEN @ ELSE input.capacity,
              !.status   = IF input.status = None THEN @ ELSE input.status]

(* Mutant: reopening does not look at the seats that are taken.            *)
CanOpenWhenFull(row) ==
  row.schedule.startAt > now /\ InFuture(row.schedule.bookingDeadline)

(* DeparturesService.ensureScheduleCanOpen                                 *)
CanOpen(row) ==
  /\ row.schedule.startAt > now
  /\ InFuture(row.schedule.bookingDeadline)
  /\ row.bookedSeats < row.capacity

(* Mutant: the capacity is not compared with the seats that are booked.    *)
CapacityUnchecked(d, row, input) ==
  /\ row.status \notin {"CANCELLED", "COMPLETED"}
  /\ row.schedule.startAt > now
  /\ input.schedule # None => ValidSchedule(input.schedule) /\ ~HasReservations(d, row)
  /\ input.status = "OPEN" => CanOpen(Updated(row, input))

(* The checks of DeparturesService.update, on the row it has locked.       *)
CanUpdate(d, row, input) ==
  /\ row.status \notin {"CANCELLED", "COMPLETED"}
  /\ row.schedule.startAt > now
  /\ input.schedule # None => ValidSchedule(input.schedule) /\ ~HasReservations(d, row)
  /\ Updated(row, input).capacity >= row.bookedSeats
  /\ input.status = "OPEN" => CanOpen(Updated(row, input))

(* The checks of DeparturesService.cancel, on the row it has locked; a     *)
(* departure that is already cancelled is answered as it is.               *)
CanWithdraw(d, row) ==
  /\ row.status \notin {"CANCELLED", "COMPLETED"}
  /\ row.schedule.startAt > now
  /\ ~HasReservations(d, row)

(* A row that a job of the scheduler, started at t, is about.              *)
Due(op, row, t) ==
  IF op = "close"
    THEN /\ row.status = "OPEN"
         /\ \/ row.schedule.bookingDeadline # None /\ row.schedule.bookingDeadline <= t
            \/ row.schedule.startAt <= t
    ELSE row.status \in {"OPEN", "CLOSED"} /\ row.schedule.endAt <= t

(* Mutant: the UPDATE trusts the ids that the SELECT returned.             *)
SelectedOnce(op, row, t) == TRUE

(* The WHERE clause of the UPDATE that follows the SELECT of a batch, which*)
(* PostgreSQL evaluates again on a row that it had to wait for.            *)
StillDue(op, row, t) == Due(op, row, t)

(* A pending booking that is older than its time to live at t.             *)
Expired(b, t) == booking[b].createdAt + PendingTtl <= t

(* Mutant: the status is not looked at again under the lock.               *)
StatusUnchecked(p, b) ==
  /\ b \in DOMAIN booking
  /\ tx[p].op = "cancel" => booking[b].user = tx[p].input.user
  /\ tx[p].op = "expire" => Expired(b, tx[p].began)

(* The checks on a booking row once it is locked.                          *)
Transitionable(p, b) ==
  /\ b \in DOMAIN booking
  /\ booking[b].status = "PENDING"
  /\ tx[p].op = "cancel" => booking[b].user = tx[p].input.user
  /\ tx[p].op = "expire" => Expired(b, tx[p].began)

(* The checks on a departure row once it is locked.                        *)
DepartureAccepts(p, d) ==
  /\ d \in DOMAIN departure
  /\ \/ tx[p].op = "create" /\ Bookable(departure[d], tx[p].input.quantity)
     \/ tx[p].op \in ReleaseOps
          /\ departure[d].bookedSeats >= booking[tx[p].input.booking].quantity
     \/ tx[p].op = "update" /\ CanUpdate(d, departure[d], tx[p].input)
     \/ tx[p].op = "withdraw" /\ CanWithdraw(d, departure[d])

(* The status an operation gives a booking, and who its history row names. *)
Target(op) == IF op = "approve" THEN "APPROVED"
              ELSE IF op = "reject" THEN "REJECTED" ELSE "CANCELLED"

Actor(op) == IF op = "cancel" THEN "customer"
             ELSE IF op = "expire" THEN "scheduler" ELSE "admin"

(* Mutant: only approvals are notified.                                    *)
NotifyApprovals(op, b) ==
  IF op = "approve" THEN {[booking |-> b, status |-> Target(op)]} ELSE {}

(* createStatusNotificationOutbox: only the administrators' decisions are  *)
(* notified, and a row with the same deduplication key is ignored.         *)
OutboxRows(op, b) ==
  IF op \in {"approve", "reject"} THEN {[booking |-> b, status |-> Target(op)]} ELSE {}

(* Mutant: the departure of the repeated request is not compared.          *)
SameQuantity(b, d, q) == booking[b].quantity = q

(* BookingsService.getIdempotentResponse                                   *)
SameRequest(b, d, q) == booking[b].departure = d /\ booking[b].quantity = q

(* create answers a key that is taken: the booking if it is the same       *)
(* request, a conflict if it is not.                                       *)
Replay(u, k, d, q) ==
  answered' = answered \cup
    {[departure |-> d, booking |-> b, user |-> u, key |-> k, quantity |-> q] :
       b \in {x \in WithKey(u, k) : SameRequest(x, d, q)}}

-----------------------------------------------------------------------------
Init ==
  /\ now = 0
  /\ departure = [d \in {} |-> {}]
  /\ booking = [b \in {} |-> {}]
  /\ history = [b \in {} |-> <<>>]
  /\ outbox = {}
  /\ tx = [p \in Processes |-> Idle]
  /\ answered = {}

Tick ==
  /\ now < MaxTime
  /\ now' = now + 1
  /\ UNCHANGED <<tables, tx, answered>>

(* Requests arrive.  Of the time, only create keeps when it began.         *)
Submit(p, op, input) ==
  /\ op \in Operations
  /\ tx[p] = Idle
  /\ Begin(p, op, input, After(op, "begin"), IF op = "create" THEN now ELSE 0)
  /\ UNCHANGED <<now, tables, answered>>

(* BookingsService.create: BEGIN and the lookup of the key.  The id that   *)
(* the database will generate is drawn here, so that the bounded supply of *)
(* ids limits how many requests begin and never stops one half-way.        *)
BeginCreate(p, u, k, d, q) ==
  /\ WithKey(u, k) = {}
  /\ \E b \in BookingIds \ DOMAIN booking :
       /\ \A s \in Processes : tx[s].op = "create" => tx[s].input.booking # b
       /\ Submit(p, "create", [departure |-> d, booking |-> b, user |-> u,
                               key |-> k, quantity |-> q])

(* The lookup finds the key: no lock is taken.                             *)
AnswerRepeat(p, u, k, d, q) ==
  /\ "create" \in Operations
  /\ tx[p] = Idle
  /\ WithKey(u, k) # {}
  /\ Replay(u, k, d, q)
  /\ UNCHANGED <<now, tables, tx>>

BeginCancel(p, u, b) == Submit(p, "cancel", [booking |-> b, user |-> u])

BeginDecision(p, op, b) == Submit(p, op, [booking |-> b])

BeginUpdate(p, d, s, c, status) ==
  Submit(p, "update", [departure |-> d, status |-> status, schedule |-> s, capacity |-> c])

BeginWithdraw(p, d) == Submit(p, "withdraw", [departure |-> d])

(* DeparturesService.create: one INSERT, no lock.  The tour it reads first *)
(* is not a part of this module: a missing or archived one leaves no trace.*)
OfferDeparture(d, s, c) ==
  /\ "offer" \in Operations
  /\ d \notin DOMAIN departure
  /\ ValidSchedule(s)
  /\ departure' = With(departure, d, [status |-> "OPEN", schedule |-> s,
                                      capacity |-> c, bookedSeats |-> 0])
  /\ UNCHANGED <<now, booking, history, outbox, tx, answered>>

-----------------------------------------------------------------------------
(* Row locks.                                                              *)

(* The booking row is locked and still allows the transition.              *)
LockBooking(p) ==
  /\ At(p, AllOps, "lockBooking")
  /\ LET b == tx[p].input.booking IN
       /\ Free(p, b)
       /\ Transitionable(p, b)
       /\ Lock(p, b, tx[p].row)

(* It is missing, another customer's, or decided meanwhile: 404, 409, or   *)
(* for a cancelled booking the row as it is.                               *)
RefuseBooking(p) ==
  /\ At(p, AllOps, "lockBooking")
  /\ Free(p, tx[p].input.booking)
  /\ ~Transitionable(p, tx[p].input.booking)
  /\ Rollback(p)

LockDeparture(p) ==
  /\ At(p, AllOps, "lockDeparture")
  /\ LET d == DepartureOf(p) IN
       /\ Free(p, d)
       /\ DepartureAccepts(p, d)
       /\ Lock(p, d, departure[d])

RefuseDeparture(p) ==
  /\ At(p, AllOps, "lockDeparture")
  /\ Free(p, DepartureOf(p))
  /\ ~DepartureAccepts(p, DepartureOf(p))
  /\ Rollback(p)

-----------------------------------------------------------------------------
(* BookingsService.create, below the departure lock.                       *)

(* The tour is not published (any more): a read without a lock.            *)
RefuseTour(p) == At(p, {"create"}, "insert") /\ Rollback(p)

(* The INSERT waits while another transaction has inserted the same key.   *)
InsertBooking(p) ==
  /\ At(p, {"create"}, "insert")
  /\ LET i == tx[p].input IN
       /\ WithKey(i.user, i.key) = {}
       /\ \A s \in Processes \ {p} : ~HoldsKey(s, i.user, i.key)
  /\ tx' = [tx EXCEPT ![p].stage = "commit"]
  /\ UNCHANGED <<now, tables, answered>>

(* 23505: the transaction is rolled back and the key is looked up again.   *)
UniqueViolation(p) ==
  /\ At(p, {"create"}, "insert")
  /\ WithKey(tx[p].input.user, tx[p].input.key) # {}
  /\ tx' = [tx EXCEPT ![p] = [tx[p] EXCEPT !.stage = "reread", !.locks = {}, !.row = None]]
  /\ UNCHANGED <<now, tables, answered>>

(* findIdempotentResponse, outside any transaction.                        *)
AnswerAfterViolation(p) ==
  /\ At(p, {"create"}, "reread")
  /\ LET i == tx[p].input IN Replay(i.user, i.key, i.departure, i.quantity)
  /\ End(p)
  /\ UNCHANGED <<now, tables>>

CommitCreate(p) ==
  /\ At(p, {"create"}, "commit")
  /\ LET i == tx[p].input
         b == i.booking IN
       /\ departure' = [departure EXCEPT ![i.departure].bookedSeats =
                                           tx[p].row.bookedSeats + i.quantity]
       /\ booking' = With(booking, b,
            [departure |-> i.departure, status |-> "PENDING", user |-> i.user,
             key |-> i.key, quantity |-> i.quantity, createdAt |-> tx[p].began])
       /\ history' = With(history, b,
            <<[from |-> None, to |-> "PENDING", actor |-> "customer"]>>)
       /\ answered' = answered \cup {i}
  /\ End(p)
  /\ UNCHANGED <<now, outbox>>

-----------------------------------------------------------------------------
(* The other commits.                                                      *)

(* The history row and the outbox row are written with the booking.        *)
SaveTransition(p) ==
  LET b == tx[p].input.booking
      s == Target(tx[p].op) IN
    /\ booking' = [booking EXCEPT ![b].status = s]
    /\ history' = [history EXCEPT ![b] =
         Append(@, [from |-> "PENDING", to |-> s, actor |-> Actor(tx[p].op)])]
    /\ outbox' = outbox \cup OutboxRows(tx[p].op, b)

(* AdminBookingsService.approve: the seats stay held, the departure is not *)
(* touched.                                                                *)
CommitApproval(p) ==
  /\ At(p, {"approve"}, "commit")
  /\ SaveTransition(p)
  /\ End(p)
  /\ UNCHANGED <<now, departure, answered>>

(* cancel, reject and expirePendingBooking give the seats back.            *)
CommitRelease(p) ==
  /\ At(p, ReleaseOps, "commit")
  /\ LET b == tx[p].input.booking IN
       departure' = [departure EXCEPT ![booking[b].departure].bookedSeats =
                                        tx[p].row.bookedSeats - booking[b].quantity]
  /\ SaveTransition(p)
  /\ End(p)
  /\ UNCHANGED <<now, answered>>

CommitUpdate(p) ==
  /\ At(p, {"update"}, "commit")
  /\ departure' = [departure EXCEPT ![tx[p].input.departure] =
                                      Updated(tx[p].row, tx[p].input)]
  /\ End(p)
  /\ UNCHANGED <<now, booking, history, outbox, answered>>

CommitWithdraw(p) ==
  /\ At(p, {"withdraw"}, "commit")
  /\ departure' = [departure EXCEPT ![tx[p].input.departure].status = "CANCELLED"]
  /\ End(p)
  /\ UNCHANGED <<now, booking, history, outbox, answered>>

-----------------------------------------------------------------------------
(* SchedulerService.  runDueJobs captures its time once; a job works with  *)
(* that time t however late it runs.                                       *)

(* The SELECT of closeDueDepartures or completeDepartedTrips: some of the  *)
(* departures that are due (the batch size decides how many).              *)
SelectBatch(op, ids, t) ==
  /\ op \in Operations
  /\ tx[Scheduler] = Idle
  /\ ids # {}
  /\ \A d \in ids : Due(op, departure[d], t)
  /\ Begin(Scheduler, op, [departures |-> ids], "visit", t)
  /\ UNCHANGED <<now, tables, answered>>

(* The UPDATE locks the rows of the batch one after the other, in an order *)
(* of the database's choice.                                               *)
VisitRow(d) ==
  /\ At(Scheduler, {"close", "complete"}, "visit")
  /\ d \in tx[Scheduler].input.departures
  /\ Free(Scheduler, d)
  /\ LET rest == tx[Scheduler].input.departures \ {d} IN
       tx' = [tx EXCEPT ![Scheduler] =
                [tx[Scheduler] EXCEPT
                   !.input = [departures |-> rest],
                   !.locks = tx[Scheduler].locks \cup {d},
                   !.stage = IF rest = {} THEN "commit" ELSE "visit"]]
  /\ UNCHANGED <<now, tables, answered>>

CommitBatch ==
  /\ At(Scheduler, {"close", "complete"}, "commit")
  /\ LET job == tx[Scheduler]
         next == IF job.op = "close" THEN "CLOSED" ELSE "COMPLETED" IN
       departure' = [d \in DOMAIN departure |->
         IF d \in job.locks /\ StillDue(job.op, departure[d], job.began)
           THEN [departure[d] EXCEPT !.status = next] ELSE departure[d]]
  /\ End(Scheduler)
  /\ UNCHANGED <<now, booking, history, outbox, answered>>

(* findPendingExpiryBookings has returned b: its own transaction begins.   *)
BeginExpiry(b, t) ==
  /\ "expire" \in Operations
  /\ tx[Scheduler] = Idle
  /\ booking[b].status = "PENDING"
  /\ Expired(b, t)
  /\ Begin(Scheduler, "expire", [booking |-> b], After("expire", "begin"), t)
  /\ UNCHANGED <<now, tables, answered>>

(* The connection or the process is lost: the database rolls back.         *)
Abort(p) == tx[p] # Idle /\ Rollback(p)

-----------------------------------------------------------------------------
(* A step that may have to wait for another transaction.                   *)
WaitingStep(p) ==
  \/ LockBooking(p) \/ RefuseBooking(p)
  \/ LockDeparture(p) \/ RefuseDeparture(p)
  \/ InsertBooking(p) \/ UniqueViolation(p)

Commit(p) ==
  \/ CommitCreate(p) \/ CommitApproval(p) \/ CommitRelease(p)
  \/ CommitUpdate(p) \/ CommitWithdraw(p)

Request(p) ==
  \/ \E u \in Users, k \in Keys, d \in DepartureIds, q \in Quantities :
       BeginCreate(p, u, k, d, q) \/ AnswerRepeat(p, u, k, d, q)
  \/ \E u \in Users, b \in BookingIds : BeginCancel(p, u, b)
  \/ \E op \in {"approve", "reject"}, b \in BookingIds : BeginDecision(p, op, b)
  \/ \E d \in DepartureIds, s \in Schedules \cup {None},
        c \in Capacities \cup {None}, status \in {"OPEN", "CLOSED", None} :
       BeginUpdate(p, d, s, c, status)
  \/ \E d \in DepartureIds : BeginWithdraw(p, d)
  \/ RefuseTour(p) \/ AnswerAfterViolation(p)

Job ==
  \/ \E op \in {"close", "complete"}, ids \in SUBSET DOMAIN departure, t \in 0 .. now :
       SelectBatch(op, ids, t)
  \/ \E d \in DepartureIds : VisitRow(d)
  \/ \E b \in DOMAIN booking, t \in 0 .. now : BeginExpiry(b, t)
  \/ CommitBatch

Next ==
  \/ Tick
  \/ \E d \in DepartureIds, s \in Schedules, c \in Capacities : OfferDeparture(d, s, c)
  \/ \E p \in Requests : Request(p)
  \/ \E p \in Processes : WaitingStep(p) \/ Commit(p) \/ Abort(p)
  \/ Job

(* A client or the scheduler drives its transaction forward, and the queue *)
(* of a PostgreSQL lock is served in order of arrival: a lock that is free *)
(* again and again is granted in the end.                                  *)
Fairness ==
  /\ \A p \in Processes :
       SF_vars(WaitingStep(p)) /\ WF_vars(Commit(p) \/ AnswerAfterViolation(p))
  /\ SF_vars(\E d \in DepartureIds : VisitRow(d))
  /\ WF_vars(CommitBatch)

Spec == Init /\ [][Next]_vars
FairSpec == Spec /\ Fairness

-----------------------------------------------------------------------------
(* Properties.                                                             *)

(* Every variable has its type: in particular booked_seats never becomes   *)
(* negative, whatever the order of the transactions that return seats.     *)
TypeOK ==
  /\ now \in Time
  /\ DOMAIN departure \subseteq DepartureIds
  /\ departure \in [DOMAIN departure -> Departure]
  /\ DOMAIN booking \subseteq BookingIds
  /\ booking \in [DOMAIN booking -> Booking]
  /\ history \in [DOMAIN booking -> Seq(HistoryRow)]
  /\ outbox \subseteq OutboxRow
  /\ DOMAIN tx = Processes
  /\ \A p \in Processes : tx[p] = Idle \/ \E op \in AllOps : tx[p] \in TxOf(op)
  /\ answered \subseteq Answer

(* One element for every seat a pending or approved booking of d holds.    *)
SeatUnits(d) ==
  {u \in ActiveOn(d) \X (1 .. MaxQuantity) : u[2] <= booking[u[1]].quantity}

(* The counter booked_seats, which create increments and cancel, reject    *)
(* and the expiry decrement from a value they read earlier, is at every    *)
(* moment the number of seats that pending and approved bookings hold.     *)
SeatBalance ==
  \A d \in DOMAIN departure : departure[d].bookedSeats = Cardinality(SeatUnits(d))

(* No departure is overbooked, although capacity is edited while customers *)
(* book: the CHECK constraint on booked_seats never fires.                 *)
WithinCapacity ==
  \A d \in DOMAIN departure : departure[d].bookedSeats <= departure[d].capacity

(* One key of one customer stands for one booking: every answer create gave*)
(* to that key names it, and it is the booking that was asked for.         *)
OneBookingPerKey ==
  /\ \A u \in Users, k \in Keys : Cardinality(WithKey(u, k)) <= 1
  /\ \A a \in answered :
       /\ a.booking \in WithKey(a.user, a.key)
       /\ booking[a.booking].departure = a.departure
       /\ booking[a.booking].quantity = a.quantity

(* The history of a booking is a chain that starts with its creation, has  *)
(* at most one decision, and ends in the status the booking row has.       *)
HistoryExplainsStatus ==
  \A b \in DOMAIN booking :
    /\ Len(history[b]) = (IF booking[b].status = "PENDING" THEN 1 ELSE 2)
    /\ history[b][1].from = None
    /\ \A i \in 2 .. Len(history[b]) : history[b][i].from = history[b][i-1].to
    /\ history[b][Len(history[b])].to = booking[b].status

(* A customer is to be told of a decision exactly when the booking has it: *)
(* no notification row without the decision, no decision without the row,  *)
(* and never both decisions for one booking.                               *)
OutboxMatchesDecision ==
  outbox = {[booking |-> b, status |-> booking[b].status] :
              b \in {x \in DOMAIN booking : booking[x].status \in {"APPROVED", "REJECTED"}}}

(* DeparturesService.cancel never leaves a customer with a pending or      *)
(* approved booking on a cancelled departure.                              *)
NobodyStranded ==
  \A d \in DOMAIN departure : departure[d].status = "CANCELLED" => ActiveOn(d) = {}

(* A booking that holds seats began before its departure started and before*)
(* its deadline, also after administrators have edited the schedule.       *)
BookedInTime ==
  \A b \in DOMAIN booking : Active(b) =>
    LET s == departure[booking[b].departure].schedule IN
      /\ booking[b].createdAt < s.startAt
      /\ s.bookingDeadline # None => booking[b].createdAt < s.bookingDeadline

(* A departure is only completed when it is over, by the schedule it has,  *)
(* not by the one the scheduler selected it for.                           *)
CompletedAfterEnd ==
  \A d \in DOMAIN departure :
    departure[d].status = "COMPLETED" => departure[d].schedule.endAt <= now

(* Two transactions never hold the same row.                               *)
LocksExclusive ==
  \A p, s \in Processes : p # s => tx[p].locks \cap tx[s].locks = {}

(* A transaction that is past the check of its booking holds that row, and *)
(* it is still pending.                                                    *)
BookingIsPending(p) ==
  \/ At(p, ReleaseOps, "lockDeparture")
  \/ At(p, ReleaseOps \cup {"approve"}, "commit")
  => LET b == tx[p].input.booking IN
       /\ b \in DOMAIN booking
       /\ b \in tx[p].locks
       /\ booking[b].status = "PENDING"

(* A transaction that is past the check of its departure holds that row,   *)
(* and the copy it will write from is still what the table holds.          *)
DepartureIsCurrent(p) ==
  \/ At(p, {"create"}, "insert")
  \/ At(p, {"create", "update", "withdraw"} \cup ReleaseOps, "commit")
  => LET d == DepartureOf(p) IN
       /\ d \in DOMAIN departure
       /\ d \in tx[p].locks
       /\ tx[p].row = departure[d]

(* What the check established about that row still holds at the commit.    *)
CheckStillHolds(p) ==
  LET i == tx[p].input
      row == tx[p].row IN
    /\ At(p, {"create"}, "insert") \/ At(p, {"create"}, "commit")
         => row.status = "OPEN" /\ row.bookedSeats + i.quantity <= row.capacity
    /\ At(p, ReleaseOps, "commit") => row.bookedSeats >= booking[i.booking].quantity
    /\ At(p, {"update"}, "commit") =>
         /\ row.status # "CANCELLED"
         /\ row.bookedSeats <= Updated(row, i).capacity
    /\ At(p, {"withdraw"}, "commit") => ActiveOn(i.departure) = {}

(* The id that a create will insert is nobody else's.                      *)
FreshId(p) ==
  tx[p].op = "create" =>
    /\ tx[p].input.booking \notin DOMAIN booking
    /\ \A s \in Processes \ {p} :
         tx[s].op = "create" => tx[s].input.booking # tx[p].input.booking

(* FK_bookings_departure                                                   *)
BookedDepartureExists ==
  \A b \in DOMAIN booking : booking[b].departure \in DOMAIN departure

(* The inductive invariant: what each transaction may rely on between its  *)
(* statements is what the row locks protect, and no statement of another   *)
(* transaction takes it away.                                              *)
IndInv ==
  /\ TypeOK
  /\ LocksExclusive
  /\ \A p \in Processes : /\ BookingIsPending(p)
                          /\ DepartureIsCurrent(p)
                          /\ CheckStillHolds(p)
                          /\ FreshId(p)
  /\ BookedDepartureExists
  /\ SeatBalance
  /\ WithinCapacity
  /\ NobodyStranded

(* No transaction began in the future.                                     *)
BeganInPast(p) == tx[p].began <= now

(* What else the checks established still holds when the row is saved: a   *)
(* create began before the start and the deadline of its departure, an     *)
(* update or a withdrawal meets a departure that has not ended, a schedule *)
(* is replaced while nobody holds a seat, and booking reopens with a seat  *)
(* left.                                                                   *)
ScheduleStillAllows(p) ==
  LET i == tx[p].input
      row == tx[p].row IN
    /\ At(p, {"create"}, "insert") \/ At(p, {"create"}, "commit") =>
         /\ tx[p].began < row.schedule.startAt
         /\ row.schedule.bookingDeadline # None => tx[p].began < row.schedule.bookingDeadline
    /\ At(p, {"update", "withdraw"}, "commit") => row.status \in {"OPEN", "CLOSED"}
    /\ At(p, {"update"}, "commit") =>
         /\ i.schedule # None => ActiveOn(i.departure) = {}
         /\ i.status = "OPEN" => row.bookedSeats < Updated(row, i).capacity

(* The unique index on (user, key): an insert that has passed it meets no  *)
(* committed booking and no other insert with the same key.                *)
KeyIsFree(p) ==
  At(p, {"create"}, "commit") =>
    /\ WithKey(tx[p].input.user, tx[p].input.key) = {}
    /\ \A s \in Processes \ {p} : ~HoldsKey(s, tx[p].input.user, tx[p].input.key)

(* A booking is locked before a departure, only the batches of the         *)
(* scheduler lock several departures, and whoever still waits for a row    *)
(* holds none of its kind.                                                 *)
LocksFollowStage(p) ==
  /\ tx[p].locks \cap BookingIds # {} => \/ At(p, ReleaseOps, "lockDeparture")
                                          \/ At(p, ReleaseOps \cup {"approve"}, "commit")
  /\ tx[p].locks \cap DepartureIds # {} => tx[p].stage \in {"insert", "visit", "commit"}
  /\ tx[p].stage = "visit" => p = Scheduler

(* The inductive invariant together with what the transactions know of     *)
(* times, keys and the order of the locks.                                 *)
WorkInv ==
  /\ IndInv
  /\ \A p \in Processes : /\ BeganInPast(p)
                          /\ ScheduleStillAllows(p)
                          /\ KeyIsFree(p)
                          /\ LocksFollowStage(p)

(* p waits for s.                                                          *)
Blocks(s, p) ==
  /\ s # p
  /\ \/ At(p, AllOps, "lockBooking") /\ tx[p].input.booking \in tx[s].locks
     \/ At(p, AllOps, "lockDeparture") /\ DepartureOf(p) \in tx[s].locks
     \/ At(p, AllOps, "visit") /\ tx[p].input.departures \cap tx[s].locks # {}
     \/ At(p, AllOps, "insert") /\ HoldsKey(s, tx[p].input.user, tx[p].input.key)

(* Row locks and the unique index never make transactions wait in a circle:*)
(* in every group of them there is one that waits for nobody in the group. *)
NoDeadlock ==
  \A S \in (SUBSET Processes) \ {{}} : \E p \in S : \A s \in S : ~Blocks(s, p)

(* A booking is never deleted, keeps what was booked, and leaves PENDING   *)
(* once: a decided booking is not decided again by a transaction that read *)
(* it as pending.                                                          *)
DecidedOnce ==
  [][\A b \in DOMAIN booking :
       /\ b \in DOMAIN booking'
       /\ booking'[b] = [booking[b] EXCEPT !.status = booking'[b].status]
       /\ booking[b].status # "PENDING" => booking'[b].status = booking[b].status]_vars

(* A cancelled or completed departure keeps its status, schedule and       *)
(* capacity: no update, and no batch that selected it earlier, revives or  *)
(* relabels it.                                                            *)
DepartureEndsOnce ==
  [][\A d \in DOMAIN departure :
       departure[d].status \in {"CANCELLED", "COMPLETED"}
         => departure'[d] = [departure[d] EXCEPT !.bookedSeats = departure'[d].bookedSeats]]_vars

(* Every request that begins comes to an end without the help of the       *)
(* database's deadlock detector: it is answered or rolled back.            *)
RequestEnds == \A p \in Processes : tx[p] # Idle ~> tx[p] = Idle

(* "Unique key used to safely retry the same booking request": a request is*)
(* not refused for its departure when the booking with its key exists.     *)
RetryIsSafe ==
  [][\A p \in Requests : RefuseDeparture(p) /\ tx[p].op = "create" =>
       LET i == tx[p].input IN
         ~ \E b \in WithKey(i.user, i.key) : SameRequest(b, i.departure, i.quantity)]_vars

(* The promise of SeatReservation, the counter and the locks hidden.       *)
Promise == INSTANCE SeatReservation WITH
  reservation <- [b \in DOMAIN booking |-> [departure |-> booking[b].departure,
                                            status    |-> booking[b].status,
                                            quantity  |-> booking[b].quantity]],
  plan <- [d \in DOMAIN departure |-> [status   |-> departure[d].status,
                                       schedule |-> departure[d].schedule,
                                       capacity |-> departure[d].capacity]]

(* Every step of every transaction is a step of the promise or changes     *)
(* nothing it speaks of: seats are taken only when free at the commit,     *)
(* schedules change and departures are withdrawn only when nobody holds a  *)
(* seat, and a departure reopens only with a seat left.                    *)
KeepsPromise == Promise!Spec
=============================================================================

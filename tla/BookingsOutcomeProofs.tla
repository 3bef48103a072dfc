----------------------- MODULE BookingsOutcomeProofs -----------------------
(***************************************************************************)
(* What customers and administrators may rely on: the history, the         *)
(* notifications, the idempotency keys, the times and the locks of         *)
(* Bookings, and that it implements SeatReservation.  All of it rests on   *)
(* the invariant of BookingsProofs and on WorkInv, which adds what the     *)
(* transactions know of times, keys and the order of the locks.            *)
(***************************************************************************)
EXTENDS BookingsProofs, SequenceTheorems

-----------------------------------------------------------------------------
(* The tables change at a commit, when a departure is offered, and when a  *)
(* batch is written; every other step leaves them alone.                   *)

(* A step that writes no table; a repeated request may be answered.        *)
Quiet ==
  /\ UNCHANGED tables
  /\ \/ answered' = answered
     \/ \E u \in Users, k \in Keys, d \in DepartureIds, q \in Quantities : Replay(u, k, d, q)

Offers == \E d \in DepartureIds, s \in Schedules, c \in Capacities : OfferDeparture(d, s, c)

Commits == \E p \in Processes : Commit(p)

(* Every step is of one of these kinds.                                    *)
LEMMA StepKinds ==
  ASSUME TypeOK, [Next]_vars
  PROVE  Quiet \/ Offers \/ Commits \/ CommitBatch
<1>1. CASE Tick
  BY <1>1 DEF Tick, Quiet
<1>2. CASE Offers
  BY <1>2
<1>3. ASSUME NEW p \in Requests, Request(p)
      PROVE  Quiet
  <2>1. CASE AnswerAfterViolation(p)
    <3> DEFINE i == tx[p].input
    <3>1. p \in Processes /\ tx[p].op = "create" /\ tx[p] # Idle
      BY <2>1 DEF AnswerAfterViolation, At, Idle, Processes
    <3>2. i.user \in Users /\ i.key \in Keys /\ i.departure \in DepartureIds /\ i.quantity \in Quantities
      BY <3>1, UnderWay DEF Inputs, CreateInput
    <3> QED
      BY <2>1, <3>2 DEF AnswerAfterViolation, Quiet
  <2>2. ASSUME NEW u \in Users, NEW k \in Keys, NEW d \in DepartureIds, NEW q \in Quantities,
               AnswerRepeat(p, u, k, d, q)
        PROVE  Quiet
    BY <2>2 DEF AnswerRepeat, Quiet
  <2> QED
    BY <1>3, <2>1, <2>2
    DEF Request, BeginCreate, BeginCancel, BeginDecision, BeginUpdate, BeginWithdraw,
        Submit, RefuseTour, Rollback, Quiet
<1>4. ASSUME NEW p \in Processes, WaitingStep(p) \/ Abort(p)
      PROVE  Quiet
  BY <1>4 DEF WaitingStep, LockBooking, RefuseBooking, LockDeparture, RefuseDeparture,
              InsertBooking, UniqueViolation, Abort, Lock, Rollback, Quiet
<1>5. CASE Job
  BY <1>5 DEF Job, SelectBatch, VisitRow, BeginExpiry, Quiet
<1>6. CASE UNCHANGED vars
  BY <1>6 DEF vars, tables, Quiet
<1> QED
  BY <1>1, <1>2, <1>3, <1>4, <1>5, <1>6 DEF Next, Offers, Commits

-----------------------------------------------------------------------------
(* WorkInv.                                                                *)

Facts(p) == BeganInPast(p) /\ ScheduleStillAllows(p) /\ KeyIsFree(p) /\ LocksFollowStage(p)

(* A step of p that writes nothing leaves the others what they know.       *)
LEMMA LocalFacts ==
  ASSUME WorkInv, NEW p \in Processes, NEW e, tx' = [tx EXCEPT ![p] = e],
         UNCHANGED <<now, tables>>, Facts(p)'
  PROVE  \A s \in Processes : Facts(s)'
<1>1. DOMAIN tx' = Processes /\ \A s \in Processes \ {p} : tx'[s] = tx[s]
  BY DEF WorkInv, IndInv, TypeOK
<1>2. SUFFICES ASSUME NEW s \in Processes, s # p
               PROVE  Facts(s)'
  OBVIOUS
<1>3. tx'[s] = tx[s]
  BY <1>1, <1>2
<1>4. BeganInPast(s)' /\ LocksFollowStage(s)'
  BY <1>3 DEF WorkInv, BeganInPast, LocksFollowStage, At
<1>5. ScheduleStillAllows(s)'
  BY <1>3 DEF WorkInv, ScheduleStillAllows, At, Updated, ActiveOn, Active, tables
<1>6. KeyIsFree(s)'
  <2> SUFFICES ASSUME At(s, {"create"}, "commit")
               PROVE  /\ WithKey(tx[s].input.user, tx[s].input.key)' = {}
                      /\ \A x \in Processes \ {s} :
                           ~HoldsKey(x, tx[s].input.user, tx[s].input.key)'
    BY <1>3 DEF KeyIsFree, At, HoldsKey, WithKey
  <2>1. KeyIsFree(s)
    BY DEF WorkInv
  <2>2. WithKey(tx[s].input.user, tx[s].input.key)' = {}
    BY <2>1, <1>3 DEF KeyIsFree, WithKey, tables
  <2>3. ASSUME NEW x \in Processes \ {s, p}
        PROVE  ~HoldsKey(x, tx[s].input.user, tx[s].input.key)'
    BY <2>1, <2>3, <1>1, <1>3 DEF KeyIsFree, HoldsKey, At
  <2>4. ~HoldsKey(p, tx[s].input.user, tx[s].input.key)'
    BY <1>2, <1>3 DEF Facts, KeyIsFree, HoldsKey, At
  <2> QED
    BY <2>2, <2>3, <2>4
<1> QED
  BY <1>4, <1>5, <1>6 DEF Facts

(* What is known of a transaction that has ended: nothing is needed.       *)
LEMMA IdleFacts ==
  ASSUME TypeOK, NEW p \in Processes, now' = now, tx'[p] = Idle
  PROVE  Facts(p)'
<1>1. now \in Nat
  BY ConstantsAssumption DEF TypeOK, Time
<1> QED
  BY <1>1 DEF Facts, BeganInPast, ScheduleStillAllows, KeyIsFree, LocksFollowStage, At, Idle

(* A refusal, a lost connection and an answer without a transaction.       *)
LEMMA EndFacts ==
  ASSUME WorkInv, NEW p \in Processes, End(p), UNCHANGED <<now, tables>>
  PROVE  \A s \in Processes : Facts(s)'
<1>1. TypeOK /\ tx'[p] = Idle
  BY DEF WorkInv, IndInv, TypeOK, End
<1>2. Facts(p)'
  BY <1>1, IdleFacts
<1> QED
  BY <1>2, LocalFacts DEF End

(* A transaction begins, now or with the time its job captured.            *)
LEMMA BeginFacts ==
  ASSUME WorkInv, NEW p \in Processes, NEW op, NEW input, NEW stage, NEW t \in 0 .. now,
         stage \in {"lockBooking", "lockDeparture", "visit"},
         stage = "visit" => p = Scheduler,
         Begin(p, op, input, stage, t), UNCHANGED <<now, tables>>
  PROVE  \A s \in Processes : Facts(s)'
<1> DEFINE e == [op |-> op, stage |-> stage, input |-> input,
                 row |-> None, locks |-> {}, began |-> t]
<1>1. tx' = [tx EXCEPT ![p] = e] /\ tx'[p] = e
  BY DEF WorkInv, IndInv, TypeOK, Begin
<1>2. /\ tx'[p].began = t /\ tx'[p].stage = stage /\ tx'[p].locks = {}
  BY <1>1
<1>3. BeganInPast(p)'
  BY <1>2 DEF BeganInPast
<1>4. ScheduleStillAllows(p)' /\ KeyIsFree(p)'
  BY <1>2 DEF ScheduleStillAllows, KeyIsFree, At
<1>5. LocksFollowStage(p)'
  BY <1>2 DEF LocksFollowStage
<1> QED
  BY <1>1, <1>3, <1>4, <1>5, LocalFacts DEF Facts

(* LockBooking                                                             *)
LEMMA LockBookingFacts ==
  ASSUME WorkInv, NEW p \in Processes, LockBooking(p)
  PROVE  \A s \in Processes : Facts(s)'
<1> DEFINE b == tx[p].input.booking
           stage == After(tx[p].op, tx[p].stage)
<1>1. TypeOK /\ tx[p].stage = "lockBooking" /\ tx[p] # Idle /\ Facts(p)
  BY DEF WorkInv, IndInv, LockBooking, At, Idle, Facts
<1>2. tx[p].op \in ReleaseOps \cup {"approve"}
  BY <1>1, UnderWay DEF Stages, AllOps, CustomerOps, AdminOps, SchedulerOps, ReleaseOps
<1>3. /\ stage \in Stages(tx[p].op) /\ stage \in {"lockDeparture", "commit"}
      /\ stage = "lockDeparture" <=> tx[p].op # "approve"
  BY <1>1, <1>2 DEF After, Stages, ReleaseOps
<1>4. b \in BookingIds /\ b \in DOMAIN booking
  BY <1>1 DEF LockBooking, Transitionable, TypeOK
<1>5. tx[p].row \in Departure \cup {None}
  BY <1>1, UnderWay
<1>6. /\ tx'[p].op = tx[p].op /\ tx'[p].stage = stage
      /\ tx'[p].locks = tx[p].locks \cup {b}
      /\ tx' = [tx EXCEPT ![p] = tx'[p]]
  BY <1>1, <1>3, <1>4, <1>5, AfterLock DEF LockBooking
<1>7. tx'[p].began = tx[p].began
  <2>1. tx'[p] = [tx[p] EXCEPT !.stage = stage, !.locks = tx[p].locks \cup {b}, !.row = tx[p].row]
    BY <1>1 DEF LockBooking, Lock, TypeOK
  <2> QED
    BY <2>1, <1>1, UnderWay DEF TxOf
<1>8. UNCHANGED <<now, tables>>
  BY DEF LockBooking, Lock
<1>9. BeganInPast(p)'
  BY <1>1, <1>7, <1>8 DEF Facts, BeganInPast
<1>10. ScheduleStillAllows(p)' /\ KeyIsFree(p)'
  BY <1>2, <1>6 DEF ScheduleStillAllows, KeyIsFree, At, ReleaseOps
<1>11. LocksFollowStage(p)'
  <2>1. tx[p].locks \cap DepartureIds = {}
    BY <1>1 DEF Facts, LocksFollowStage
  <2>2. tx'[p].locks \cap DepartureIds = {}
    BY <2>1, <1>4, <1>6, ConstantsAssumption
  <2> QED
    BY <2>2, <1>2, <1>3, <1>6 DEF LocksFollowStage, At
<1> QED
  BY <1>6, <1>8, <1>9, <1>10, <1>11, LocalFacts DEF Facts

(* LockDeparture: the checks have just been made on the row that is locked. *)
LEMMA LockDepartureFacts ==
  ASSUME WorkInv, NEW p \in Processes, LockDeparture(p)
  PROVE  \A s \in Processes : Facts(s)'
<1> DEFINE d == DepartureOf(p)
           i == tx[p].input
           stage == After(tx[p].op, tx[p].stage)
<1>1. TypeOK /\ tx[p].stage = "lockDeparture" /\ tx[p] # Idle /\ Facts(p)
  BY DEF WorkInv, IndInv, LockDeparture, At, Idle, Facts
<1>2. /\ DepartureAccepts(p, d)
      /\ d \in DOMAIN departure /\ d \in DepartureIds
      /\ tx[p].op \in {"create", "update", "withdraw"} \cup ReleaseOps
  BY <1>1 DEF LockDeparture, DepartureAccepts, TypeOK
<1>3. stage = IF tx[p].op = "create" THEN "insert" ELSE "commit"
  BY <1>1 DEF After
<1>4. stage \in Stages(tx[p].op)
  BY <1>2, <1>3 DEF Stages, ReleaseOps
<1>5. departure[d] \in Departure
  BY <1>1, <1>2 DEF TypeOK
<1>6. /\ tx'[p].op = tx[p].op /\ tx'[p].input = i
      /\ tx'[p].stage = stage /\ tx'[p].locks = tx[p].locks \cup {d}
      /\ tx'[p].row = departure[d]
      /\ tx' = [tx EXCEPT ![p] = tx'[p]]
  BY <1>1, <1>2, <1>4, <1>5, AfterLock DEF LockDeparture
<1>7. tx'[p].began = tx[p].began
  <2>1. tx'[p] = [tx[p] EXCEPT !.stage = stage, !.locks = tx[p].locks \cup {d}, !.row = departure[d]]
    BY <1>1 DEF LockDeparture, Lock, TypeOK
  <2> QED
    BY <2>1, <1>1, UnderWay DEF TxOf
<1>8. UNCHANGED <<now, tables>>
  BY DEF LockDeparture, Lock
<1>9. BeganInPast(p)' /\ tx[p].began <= now /\ tx[p].began \in Nat /\ now \in Nat
  BY <1>1, <1>7, <1>8, UnderWay, ConstantsAssumption DEF Facts, BeganInPast, TypeOK, Time
<1>10. ScheduleStillAllows(p)'
  <2>1. CASE tx[p].op = "create"
    <3>1. departure[d].schedule.startAt > now /\ InFuture(departure[d].schedule.bookingDeadline)
      BY <2>1, <1>2 DEF DepartureAccepts, Bookable, ReleaseOps
    <3>2. departure[d].schedule \in [startAt : Nat, endAt : Nat, bookingDeadline : Nat \cup {None}]
      BY <1>5, ConstantsAssumption DEF Departure
    <3>3. /\ tx[p].began < departure[d].schedule.startAt
          /\ departure[d].schedule.bookingDeadline # None
               => tx[p].began < departure[d].schedule.bookingDeadline
      BY <3>1, <3>2, <1>9, NoneAssumption DEF InFuture
    <3> QED
      BY <2>1, <3>3, <1>6, <1>7 DEF ScheduleStillAllows, At
  <2>2. CASE tx[p].op = "update"
    <3>1. CanUpdate(d, departure[d], i) /\ d = i.departure
      BY <2>2, <1>2 DEF DepartureAccepts, ReleaseOps, DepartureOf
    <3>2. departure[d].status \in {"OPEN", "CLOSED"}
      BY <3>1, <1>5 DEF CanUpdate, Departure, DepartureStatus
    <3>3. i.schedule # None => ActiveOn(d) = {}
      BY <3>1 DEF CanUpdate, HasReservations
    <3>4. i.status = "OPEN" => Updated(departure[d], i).bookedSeats < Updated(departure[d], i).capacity
      BY <3>1 DEF CanUpdate, CanOpen
    <3>5. Updated(departure[d], i).bookedSeats = departure[d].bookedSeats
      BY <1>5 DEF Updated, Departure
    <3>6. ASSUME i.schedule # None
          PROVE  ActiveOn(tx[p].input.departure)' = {}
      <4>1. {b \in DOMAIN booking : /\ booking[b].departure = tx[p].input.departure
                                    /\ booking[b].status \in {"PENDING", "APPROVED"}} = {}
        BY <3>1, <3>3, <3>6 DEF ActiveOn, Active
      <4> QED
        BY <4>1, <1>6, <1>8 DEF ActiveOn, Active, tables
    <3> QED
      BY <2>2, <3>2, <3>4, <3>5, <3>6, <1>6 DEF ScheduleStillAllows, At
  <2>3. CASE tx[p].op = "withdraw"
    <3>1. departure[d].status \in {"OPEN", "CLOSED"}
      BY <2>3, <1>2, <1>5
      DEF DepartureAccepts, CanWithdraw, ReleaseOps, Departure, DepartureStatus
    <3> QED
      BY <2>3, <3>1, <1>6 DEF ScheduleStillAllows, At
  <2>4. CASE tx[p].op \in ReleaseOps
    BY <2>4, <1>6 DEF ScheduleStillAllows, At, ReleaseOps
  <2> QED
    BY <2>1, <2>2, <2>3, <2>4, <1>2
<1>11. KeyIsFree(p)'
  BY <1>3, <1>6 DEF KeyIsFree, At
<1>12. LocksFollowStage(p)'
  <2>1. CASE tx[p].op \in ReleaseOps
    BY <2>1, <1>3, <1>6 DEF LocksFollowStage, At, ReleaseOps
  <2>2. CASE tx[p].op \in {"create", "update", "withdraw"}
    <3>1. tx[p].locks \cap BookingIds = {}
      BY <2>2, <1>1 DEF Facts, LocksFollowStage, At, ReleaseOps
    <3>2. tx'[p].locks \cap BookingIds = {}
      BY <3>1, <1>2, <1>6, ConstantsAssumption
    <3> QED
      BY <2>2, <3>2, <1>3, <1>6 DEF LocksFollowStage
  <2> QED
    BY <2>1, <2>2, <1>2
<1> QED
  BY <1>6, <1>8, <1>9, <1>10, <1>11, <1>12, LocalFacts DEF Facts

(* InsertBooking: the index has no entry for the key.                      *)
LEMMA InsertBookingFacts ==
  ASSUME WorkInv, NEW p \in Processes, InsertBooking(p)
  PROVE  \A s \in Processes : Facts(s)'
<1> DEFINE i == tx[p].input
<1>1. TypeOK /\ tx[p].stage = "insert" /\ tx[p].op = "create" /\ tx[p] # Idle /\ Facts(p)
  BY DEF WorkInv, IndInv, InsertBooking, At, Idle, Facts
<1>2. tx'[p] = [tx[p] EXCEPT !.stage = "commit"] /\ tx' = [tx EXCEPT ![p] = tx'[p]]
  BY <1>1 DEF TypeOK, InsertBooking
<1>3. \A s \in Processes \ {p} : tx'[s] = tx[s]
  BY DEF InsertBooking
<1>4. /\ tx'[p].op = "create" /\ tx'[p].input = i /\ tx'[p].row = tx[p].row
      /\ tx'[p].stage = "commit" /\ tx'[p].locks = tx[p].locks
      /\ tx'[p].began = tx[p].began
  BY <1>1, <1>2, UnderWay DEF TxOf
<1>5. UNCHANGED <<now, tables>>
  BY DEF InsertBooking
<1>6. BeganInPast(p)'
  BY <1>1, <1>4, <1>5 DEF Facts, BeganInPast
<1>7. ScheduleStillAllows(p)'
  BY <1>1, <1>4 DEF Facts, ScheduleStillAllows, At
<1>8. KeyIsFree(p)'
  <2>1. WithKey(i.user, i.key) = {}
    BY DEF InsertBooking
  <2>2. WithKey(tx[p].input.user, tx[p].input.key)' = {}
    BY <2>1, <1>4, <1>5 DEF WithKey, tables
  <2>3. \A s \in Processes \ {p} : ~HoldsKey(s, i.user, i.key)
    BY DEF InsertBooking
  <2>4. \A s \in Processes \ {p} : ~HoldsKey(s, tx[p].input.user, tx[p].input.key)'
    BY <2>3, <1>3, <1>4 DEF HoldsKey, At
  <2> QED
    BY <2>2, <2>4 DEF KeyIsFree
<1>9. LocksFollowStage(p)'
  BY <1>1, <1>4 DEF Facts, LocksFollowStage, At, ReleaseOps
<1> QED
  BY <1>2, <1>5, <1>6, <1>7, <1>8, <1>9, LocalFacts DEF Facts

(* UniqueViolation: everything is given up.                                *)
LEMMA UniqueViolationFacts ==
  ASSUME WorkInv, NEW p \in Processes, UniqueViolation(p)
  PROVE  \A s \in Processes : Facts(s)'
<1>1. TypeOK /\ tx[p].stage = "insert" /\ tx[p].op = "create" /\ tx[p] # Idle /\ Facts(p)
  BY DEF WorkInv, IndInv, UniqueViolation, At, Idle, Facts
<1>2. /\ tx'[p] = [tx[p] EXCEPT !.stage = "reread", !.locks = {}, !.row = None]
      /\ tx' = [tx EXCEPT ![p] = tx'[p]]
  BY <1>1 DEF TypeOK, UniqueViolation
<1>3. tx'[p].stage = "reread" /\ tx'[p].locks = {} /\ tx'[p].began = tx[p].began
  BY <1>1, <1>2, UnderWay DEF TxOf
<1>4. UNCHANGED <<now, tables>>
  BY DEF UniqueViolation
<1>5. Facts(p)'
  BY <1>1, <1>3, <1>4
  DEF Facts, BeganInPast, ScheduleStillAllows, KeyIsFree, LocksFollowStage, At
<1> QED
  BY <1>2, <1>4, <1>5, LocalFacts

(* VisitRow: only the scheduler holds several departures.                  *)
LEMMA VisitRowFacts ==
  ASSUME WorkInv, NEW d \in DepartureIds, VisitRow(d)
  PROVE  \A s \in Processes : Facts(s)'
<1> DEFINE p == Scheduler
           rest == tx[p].input.departures \ {d}
<1>1. /\ TypeOK /\ tx[p] # Idle /\ Facts(p) /\ p \in Processes
      /\ tx[p].op \in {"close", "complete"} /\ tx[p].stage = "visit"
  BY DEF WorkInv, IndInv, VisitRow, At, Idle, Processes, Facts
<1>2. /\ tx'[p] = [tx[p] EXCEPT !.input = [departures |-> rest],
                               !.locks = tx[p].locks \cup {d},
                               !.stage = IF rest = {} THEN "commit" ELSE "visit"]
      /\ tx' = [tx EXCEPT ![p] = tx'[p]]
  BY <1>1 DEF TypeOK, VisitRow
<1>3. /\ tx'[p].op = tx[p].op /\ tx'[p].stage \in {"visit", "commit"}
      /\ tx'[p].locks = tx[p].locks \cup {d} /\ tx'[p].began = tx[p].began
  BY <1>1, <1>2, UnderWay DEF TxOf
<1>4. UNCHANGED <<now, tables>>
  BY DEF VisitRow
<1>5. tx'[p].locks \cap BookingIds = {}
  <2>1. tx[p].locks \cap BookingIds = {}
    BY <1>1 DEF Facts, LocksFollowStage, At
  <2> QED
    BY <2>1, <1>3, ConstantsAssumption
<1>6. LocksFollowStage(p)'
  BY <1>3, <1>5 DEF LocksFollowStage
<1>7. BeganInPast(p)' /\ ScheduleStillAllows(p)' /\ KeyIsFree(p)'
  BY <1>1, <1>3, <1>4 DEF Facts, BeganInPast, ScheduleStillAllows, KeyIsFree, At
<1> QED
  BY <1>1, <1>2, <1>4, <1>6, <1>7, LocalFacts DEF Facts

(* What the COMMIT of p leaves of keys: bookings keep theirs, and a new one*)
(* has the key whose index entry p holds.                                  *)
WritesOwnKey(p) ==
  /\ \A b \in DOMAIN booking : booking'[b].user = booking[b].user
                               /\ booking'[b].key = booking[b].key
  /\ \A b \in DOMAIN booking' \ DOMAIN booking :
       HoldsKey(p, booking'[b].user, booking'[b].key)

(* A commit that writes only its own rows leaves the others what they know.*)
LEMMA CommitFacts ==
  ASSUME WorkInv, NEW p \in Processes, End(p), now' = now, WritesOwnRows(p), WritesOwnKey(p)
  PROVE  \A s \in Processes : Facts(s)'
<1>1. /\ TypeOK /\ tx'[p] = Idle /\ DOMAIN tx' = Processes
      /\ \A s \in Processes \ {p} : tx'[s] = tx[s]
  BY DEF WorkInv, IndInv, TypeOK, End
<1>2. Facts(p)'
  BY <1>1, IdleFacts
<1>3. ASSUME NEW s \in Processes, s # p
      PROVE  Facts(s)'
  <2>1. tx'[s] = tx[s] /\ tx[s].locks \cap tx[p].locks = {} /\ Facts(s)
    BY <1>1, <1>3 DEF WorkInv, IndInv, LocksExclusive, Facts
  <2>2. BeganInPast(s)' /\ LocksFollowStage(s)'
    BY <2>1 DEF Facts, BeganInPast, LocksFollowStage, At
  <2>3. ScheduleStillAllows(s)'
    <3>1. ASSUME At(s, {"update"}, "commit"), tx[s].input.schedule # None
          PROVE  ActiveOn(tx[s].input.departure)' = {}
      <4> DEFINE d == tx[s].input.departure
      <4>1. d \in tx[s].locks
        BY <3>1 DEF WorkInv, IndInv, DepartureIsCurrent, At, DepartureOf
      <4>2. ActiveOn(d) = {}
        BY <3>1, <2>1 DEF Facts, ScheduleStillAllows
      <4>3. {b \in DOMAIN booking' : /\ booking'[b].departure = d
                                     /\ booking'[b].status \in {"PENDING", "APPROVED"}} = {}
        BY <4>1, <4>2, <2>1 DEF ActiveOn, Active, WritesOwnRows
      <4> QED
        BY <4>3, <2>1 DEF ActiveOn, Active
    <3> QED
      BY <3>1, <2>1 DEF Facts, ScheduleStillAllows, At, Updated
  <2>4. KeyIsFree(s)'
    <3> SUFFICES ASSUME At(s, {"create"}, "commit")
                 PROVE  /\ WithKey(tx[s].input.user, tx[s].input.key)' = {}
                        /\ \A x \in Processes \ {s} :
                             ~HoldsKey(x, tx[s].input.user, tx[s].input.key)'
      BY <2>1 DEF KeyIsFree, At, HoldsKey, WithKey
    <3> DEFINE u == tx[s].input.user
               k == tx[s].input.key
    <3>1. WithKey(u, k) = {} /\ ~HoldsKey(p, u, k)
          /\ \A x \in Processes \ {s} : ~HoldsKey(x, u, k)
      BY <1>3, <2>1 DEF Facts, KeyIsFree
    <3>2. {b \in DOMAIN booking' : booking'[b].user = u /\ booking'[b].key = k} = {}
      BY <3>1 DEF WritesOwnKey, WithKey
    <3>3. \A x \in Processes \ {s} : ~HoldsKey(x, tx[s].input.user, tx[s].input.key)'
      BY <3>1, <1>1, <2>1 DEF HoldsKey, At, Idle
    <3> QED
      BY <3>2, <3>3, <2>1 DEF WithKey
  <2> QED
    BY <2>2, <2>3, <2>4 DEF Facts
<1> QED
  BY <1>2, <1>3

-----------------------------------------------------------------------------
(* What the commits write.                                                 *)

(* CommitCreate writes one new booking and the counter of the departure    *)
(* that its transaction has locked.                                        *)
LEMMA CreateEffect ==
  ASSUME IndInv, NEW p \in Processes, CommitCreate(p)
  PROVE  LET i == tx[p].input
             b == i.booking
             d == i.departure IN
           /\ End(p) /\ UNCHANGED <<now, outbox>>
           /\ i \in CreateInput /\ i \in Answer /\ tx[p].began \in Time
           /\ d \in DOMAIN departure /\ d \in tx[p].locks
           /\ tx[p].row = departure[d] /\ departure[d] \in Departure
           /\ departure[d].status = "OPEN"
           /\ departure[d].bookedSeats + i.quantity <= departure[d].capacity
           /\ DOMAIN departure' = DOMAIN departure
           /\ departure'[d] = [departure[d] EXCEPT !.bookedSeats =
                                 departure[d].bookedSeats + i.quantity]
           /\ \A x \in DOMAIN departure \ {d} : departure'[x] = departure[x]
           /\ b \notin DOMAIN booking
           /\ DOMAIN booking' = DOMAIN booking \cup {b}
           /\ booking'[b] = [departure |-> d, status |-> "PENDING", user |-> i.user,
                             key |-> i.key, quantity |-> i.quantity,
                             createdAt |-> tx[p].began]
           /\ booking'[b].status = "PENDING"
           /\ \A x \in DOMAIN booking : booking'[x] = booking[x]
           /\ history'[b] = <<[from |-> None, to |-> "PENDING", actor |-> "customer"]>>
           /\ \A x \in DOMAIN booking : history'[x] = history[x]
           /\ answered' = answered \cup {i}
<1> DEFINE i == tx[p].input
           b == i.booking
           d == i.departure
<1>1. TypeOK /\ tx[p].op = "create" /\ tx[p].stage = "commit" /\ tx[p] # Idle
  BY DEF IndInv, CommitCreate, At, Idle
<1>2. i \in CreateInput /\ i \in Answer /\ tx[p].began \in Time
  BY <1>1, UnderWay DEF Inputs, CreateInput, Answer
<1>3. DepartureOf(p) = d
  BY <1>1 DEF DepartureOf
<1>4. /\ d \in DOMAIN departure /\ d \in tx[p].locks
      /\ tx[p].row = departure[d] /\ departure[d] \in Departure
  BY <1>1, <1>3, CommitKnows DEF At
<1>5. /\ departure[d].status = "OPEN"
      /\ departure[d].bookedSeats + i.quantity <= departure[d].capacity
  BY <1>1, <1>4 DEF IndInv, CheckStillHolds, At
<1>6. b \notin DOMAIN booking
  BY <1>1 DEF IndInv, FreshId
<1>7. DOMAIN history = DOMAIN booking
  BY <1>1 DEF TypeOK
<1>8. /\ departure' = [departure EXCEPT ![d].bookedSeats = tx[p].row.bookedSeats + i.quantity]
      /\ booking' = With(booking, b,
           [departure |-> d, status |-> "PENDING", user |-> i.user,
            key |-> i.key, quantity |-> i.quantity, createdAt |-> tx[p].began])
      /\ history' = With(history, b, <<[from |-> None, to |-> "PENDING", actor |-> "customer"]>>)
      /\ answered' = answered \cup {i}
      /\ End(p) /\ UNCHANGED <<now, outbox>>
  BY DEF CommitCreate
<1> HIDE DEF i, b, d
<1>9. /\ DOMAIN departure' = DOMAIN departure
      /\ departure'[d] = [departure[d] EXCEPT !.bookedSeats = departure[d].bookedSeats + i.quantity]
      /\ \A x \in DOMAIN departure \ {d} : departure'[x] = departure[x]
  BY <1>4, <1>8
<1>10. /\ DOMAIN booking' = DOMAIN booking \cup {b}
       /\ booking'[b] = [departure |-> d, status |-> "PENDING", user |-> i.user,
                         key |-> i.key, quantity |-> i.quantity, createdAt |-> tx[p].began]
       /\ \A x \in DOMAIN booking : booking'[x] = booking[x]
  BY <1>6, <1>8 DEF With
<1>11. booking'[b].status = "PENDING"
  BY <1>10
<1>12. /\ history'[b] = <<[from |-> None, to |-> "PENDING", actor |-> "customer"]>>
       /\ \A x \in DOMAIN booking : history'[x] = history[x]
  BY <1>6, <1>7, <1>8 DEF With
<1> QED
  BY <1>2, <1>4, <1>5, <1>6, <1>8, <1>9, <1>10, <1>11, <1>12 DEF i, b, d

(* An approval, a rejection, a cancellation and an expiry write the status *)
(* of one booking that was pending, its history and its notification.      *)
LEMMA DecisionEffect ==
  ASSUME IndInv, NEW p \in Processes, CommitApproval(p) \/ CommitRelease(p)
  PROVE  LET b == tx[p].input.booking
             op == tx[p].op IN
           /\ End(p) /\ UNCHANGED <<now, answered>>
           /\ op \in ReleaseOps \cup {"approve"} /\ tx[p].stage = "commit"
           /\ b \in DOMAIN booking /\ b \in tx[p].locks /\ booking[b].status = "PENDING"
           /\ DOMAIN booking' = DOMAIN booking
           /\ booking'[b] = [booking[b] EXCEPT !.status = Target(op)]
           /\ booking'[b].status = Target(op)
           /\ \A x \in DOMAIN booking \ {b} : booking'[x] = booking[x]
           /\ history'[b] = Append(history[b],
                [from |-> "PENDING", to |-> Target(op), actor |-> Actor(op)])
           /\ \A x \in DOMAIN booking \ {b} : history'[x] = history[x]
           /\ outbox' = outbox \cup OutboxRows(op, b)
           /\ DOMAIN departure' = DOMAIN departure
           /\ \A x \in DOMAIN departure :
                /\ x \notin tx[p].locks => departure'[x] = departure[x]
                /\ departure'[x] = [departure[x] EXCEPT !.bookedSeats = departure'[x].bookedSeats]
                /\ departure'[x].status = departure[x].status
                /\ departure'[x].schedule = departure[x].schedule
                /\ departure'[x].capacity = departure[x].capacity
<1> DEFINE b == tx[p].input.booking
           op == tx[p].op
           h == [from |-> "PENDING", to |-> Target(op), actor |-> Actor(op)]
<1>1. /\ TypeOK /\ op \in ReleaseOps \cup {"approve"} /\ tx[p].stage = "commit"
      /\ At(p, ReleaseOps \cup {"approve"}, "commit")
      /\ SaveTransition(p) /\ End(p) /\ UNCHANGED <<now, answered>>
  BY DEF IndInv, CommitApproval, CommitRelease, At
<1>2. /\ b \in DOMAIN booking /\ b \in tx[p].locks /\ booking[b].status = "PENDING"
      /\ booking[b] \in Booking /\ DOMAIN history = DOMAIN booking
      /\ booking[b].departure \in DOMAIN departure
  BY <1>1 DEF IndInv, BookingIsPending, BookedDepartureExists, At, TypeOK
<1>3. /\ booking' = [booking EXCEPT ![b].status = Target(op)]
      /\ history' = [history EXCEPT ![b] = Append(@, h)]
      /\ outbox' = outbox \cup OutboxRows(op, b)
  BY <1>1 DEF SaveTransition
<1>4. /\ DOMAIN departure' = DOMAIN departure
      /\ \A x \in DOMAIN departure :
           /\ x \notin tx[p].locks => departure'[x] = departure[x]
           /\ departure'[x] = [departure[x] EXCEPT !.bookedSeats = departure'[x].bookedSeats]
           /\ departure'[x].status = departure[x].status
           /\ departure'[x].schedule = departure[x].schedule
           /\ departure'[x].capacity = departure[x].capacity
  <2>1. \A x \in DOMAIN departure : departure[x] \in Departure
    BY <1>1 DEF TypeOK
  <2>2. CASE CommitApproval(p)
    BY <2>1, <2>2 DEF CommitApproval, Departure
  <2>3. CASE CommitRelease(p)
    <3> DEFINE d == booking[b].departure
               n == tx[p].row.bookedSeats - booking[b].quantity
    <3>1. departure' = [departure EXCEPT ![d].bookedSeats = n]
      BY <2>3 DEF CommitRelease
    <3>2. op \in ReleaseOps
      BY <2>3 DEF CommitRelease, At
    <3>3. d \in tx[p].locks /\ d \in DOMAIN departure
      BY <1>1, <1>2, <3>2, CommitKnows DEF At, DepartureOf, ReleaseOps
    <3> HIDE DEF d, n
    <3>4. /\ DOMAIN departure' = DOMAIN departure
          /\ departure'[d] = [departure[d] EXCEPT !.bookedSeats = n]
          /\ \A x \in DOMAIN departure \ {d} : departure'[x] = departure[x]
      BY <3>1, <3>3
    <3> QED
      BY <2>1, <3>3, <3>4 DEF Departure
  <2> QED
    BY <2>2, <2>3
<1> HIDE DEF b, h, op
<1>5. /\ DOMAIN booking' = DOMAIN booking
      /\ booking'[b] = [booking[b] EXCEPT !.status = Target(op)]
      /\ \A x \in DOMAIN booking \ {b} : booking'[x] = booking[x]
  BY <1>2, <1>3
<1>6. booking'[b].status = Target(op)
  BY <1>2, <1>5 DEF Booking
<1>7. /\ history'[b] = Append(history[b], h)
      /\ \A x \in DOMAIN booking \ {b} : history'[x] = history[x]
  BY <1>2, <1>3
<1> QED
  BY <1>1, <1>2, <1>3, <1>4, <1>5, <1>6, <1>7 DEF b, h, op

(* An update and a withdrawal write the departure they have locked.        *)
LEMMA DepartureEffect ==
  ASSUME IndInv, NEW p \in Processes, CommitUpdate(p) \/ CommitWithdraw(p)
  PROVE  LET d == tx[p].input.departure IN
           /\ End(p) /\ UNCHANGED <<now, booking, history, outbox, answered>>
           /\ At(p, {"update", "withdraw"}, "commit")
           /\ d \in DOMAIN departure /\ d \in tx[p].locks
           /\ tx[p].row = departure[d] /\ departure[d] \in Departure
           /\ DOMAIN departure' = DOMAIN departure
           /\ \A x \in DOMAIN departure \ {d} : departure'[x] = departure[x]
           /\ CommitUpdate(p) => /\ tx[p].input \in UpdateInput
                                 /\ departure'[d] = Updated(departure[d], tx[p].input)
           /\ CommitWithdraw(p) => departure'[d] = [departure[d] EXCEPT !.status = "CANCELLED"]
<1> DEFINE d == tx[p].input.departure
<1>1. /\ TypeOK /\ At(p, {"update", "withdraw"}, "commit") /\ tx[p] # Idle
      /\ End(p) /\ UNCHANGED <<now, booking, history, outbox, answered>>
  BY DEF IndInv, CommitUpdate, CommitWithdraw, At, Idle
<1>2. DepartureOf(p) = d
  BY <1>1 DEF DepartureOf, At
<1>3. /\ d \in DOMAIN departure /\ d \in tx[p].locks
      /\ tx[p].row = departure[d] /\ departure[d] \in Departure
  BY <1>1, <1>2, CommitKnows DEF At
<1>4. CommitUpdate(p) =>
        /\ tx[p].input \in UpdateInput
        /\ departure' = [departure EXCEPT ![d] = Updated(tx[p].row, tx[p].input)]
  BY <1>1, UnderWay DEF CommitUpdate, At, Inputs
<1>5. CommitWithdraw(p) => departure' = [departure EXCEPT ![d] =
                                           [departure[d] EXCEPT !.status = "CANCELLED"]]
  BY DEF CommitWithdraw
<1> HIDE DEF d
<1>6. /\ DOMAIN departure' = DOMAIN departure
      /\ \A x \in DOMAIN departure \ {d} : departure'[x] = departure[x]
  BY <1>3, <1>4, <1>5
<1> QED
  BY <1>1, <1>3, <1>4, <1>5, <1>6 DEF d

(* A batch changes the status of rows it has locked and that are still due.*)
LEMMA BatchEffect ==
  ASSUME IndInv, CommitBatch
  PROVE  LET p == Scheduler
             job == tx[p]
             next == IF job.op = "close" THEN "CLOSED" ELSE "COMPLETED" IN
           /\ p \in Processes /\ End(p)
           /\ UNCHANGED <<now, booking, history, outbox, answered>>
           /\ job.op \in {"close", "complete"}
           /\ DOMAIN departure' = DOMAIN departure
           /\ \A x \in DOMAIN departure :
                IF x \in job.locks /\ StillDue(job.op, departure[x], job.began)
                  THEN departure'[x] = [departure[x] EXCEPT !.status = next]
                  ELSE departure'[x] = departure[x]
BY DEF CommitBatch, Processes, At

(* Whoever commits writes only rows it has locked and the key it holds.    *)
LEMMA CommitWrites ==
  ASSUME WorkInv, NEW p \in Processes, Commit(p)
  PROVE  End(p) /\ now' = now /\ WritesOwnRows(p) /\ WritesOwnKey(p)
<1>1. IndInv
  BY DEF WorkInv
<1>2. CASE CommitCreate(p)
  <2> DEFINE i == tx[p].input
             new == [departure |-> i.departure, status |-> "PENDING", user |-> i.user,
                     key |-> i.key, quantity |-> i.quantity, createdAt |-> tx[p].began]
  <2>1. /\ End(p) /\ now' = now
        /\ i.departure \in tx[p].locks
        /\ DOMAIN departure' = DOMAIN departure
        /\ \A x \in DOMAIN departure \ {i.departure} : departure'[x] = departure[x]
        /\ i.booking \notin DOMAIN booking
        /\ DOMAIN booking' = DOMAIN booking \cup {i.booking}
        /\ booking'[i.booking] = new
        /\ \A x \in DOMAIN booking : booking'[x] = booking[x]
    BY <1>1, <1>2, CreateEffect
  <2>2. new.departure = i.departure /\ new.user = i.user /\ new.key = i.key
    OBVIOUS
  <2>3. tx[p].op = "create" /\ tx[p].stage = "commit"
    BY <1>2 DEF CommitCreate, At
  <2> HIDE DEF new
  <2>4. WritesOwnRows(p)
    BY <2>1, <2>2, <2>3 DEF WritesOwnRows
  <2>5. WritesOwnKey(p)
    BY <2>1, <2>2, <2>3 DEF WritesOwnKey, HoldsKey, At
  <2> QED
    BY <2>1, <2>4, <2>5
<1>3. CASE CommitApproval(p) \/ CommitRelease(p)
  <2> DEFINE b == tx[p].input.booking
             row == [booking[b] EXCEPT !.status = Target(tx[p].op)]
  <2>1. /\ End(p) /\ now' = now
        /\ b \in DOMAIN booking /\ b \in tx[p].locks /\ booking[b].status = "PENDING"
        /\ DOMAIN booking' = DOMAIN booking
        /\ booking'[b] = row
        /\ \A x \in DOMAIN booking \ {b} : booking'[x] = booking[x]
        /\ DOMAIN departure' = DOMAIN departure
        /\ \A x \in DOMAIN departure : x \notin tx[p].locks => departure'[x] = departure[x]
    BY <1>1, <1>3, DecisionEffect
  <2>2. booking[b] \in Booking
    BY <1>1, <2>1 DEF IndInv, TypeOK
  <2>3. /\ row.departure = booking[b].departure /\ row.quantity = booking[b].quantity
        /\ row.user = booking[b].user /\ row.key = booking[b].key
    BY <2>2 DEF Booking
  <2> HIDE DEF b, row
  <2>4. WritesOwnRows(p)
    BY <2>1, <2>3 DEF WritesOwnRows
  <2>5. WritesOwnKey(p)
    BY <2>1, <2>3 DEF WritesOwnKey
  <2> QED
    BY <2>1, <2>4, <2>5
<1>4. CASE CommitUpdate(p) \/ CommitWithdraw(p)
  <2>1. /\ End(p) /\ now' = now /\ booking' = booking
        /\ tx[p].input.departure \in tx[p].locks
        /\ DOMAIN departure' = DOMAIN departure
        /\ \A x \in DOMAIN departure \ {tx[p].input.departure} : departure'[x] = departure[x]
    BY <1>1, <1>4, DepartureEffect
  <2> QED
    BY <2>1 DEF WritesOwnRows, WritesOwnKey
<1> QED
  BY <1>2, <1>3, <1>4 DEF Commit

(* So does the UPDATE of a batch.                                          *)
LEMMA BatchWrites ==
  ASSUME WorkInv, CommitBatch
  PROVE  /\ Scheduler \in Processes /\ End(Scheduler) /\ now' = now
         /\ WritesOwnRows(Scheduler) /\ WritesOwnKey(Scheduler)
<1>1. /\ Scheduler \in Processes /\ End(Scheduler) /\ now' = now /\ booking' = booking
      /\ DOMAIN departure' = DOMAIN departure
      /\ \A x \in DOMAIN departure : x \notin tx[Scheduler].locks => departure'[x] = departure[x]
  BY BatchEffect DEF WorkInv
<1> QED
  BY <1>1 DEF WritesOwnRows, WritesOwnKey

(* The clock moves, an answer is repeated or a departure is offered: no    *)
(* transaction changes, and none forgets what it knows.                    *)
LEMMA OutsideFacts ==
  ASSUME WorkInv, tx' = tx, booking' = booking, now' \in Nat, now' >= now
  PROVE  \A s \in Processes : Facts(s)'
<1> TAKE s \in Processes
<1>1. tx[s].began \in Nat /\ now \in Nat
  BY ConstantsAssumption, UnderWay DEF WorkInv, IndInv, TypeOK, Time, Idle
<1>2. BeganInPast(s)'
  BY <1>1 DEF WorkInv, BeganInPast
<1>3. ScheduleStillAllows(s)'
  BY DEF WorkInv, ScheduleStillAllows, At, Updated, ActiveOn, Active
<1>4. KeyIsFree(s)' /\ LocksFollowStage(s)'
  BY DEF WorkInv, KeyIsFree, LocksFollowStage, At, HoldsKey, WithKey
<1> QED
  BY <1>2, <1>3, <1>4 DEF Facts

(* Every step keeps WorkInv.                                               *)
LEMMA NextWork ==
  ASSUME WorkInv, [Next]_vars
  PROVE  WorkInv'
<1>1. IndInv /\ TypeOK /\ now \in Nat /\ \A t \in 0 .. now : t \in Time
  BY ConstantsAssumption DEF WorkInv, IndInv, TypeOK, Time
<1>2. IndInv'
  BY <1>1, NextInv
<1>3. \A s \in Processes : Facts(s)'
  <2>1. CASE Tick
    BY <2>1, <1>1, OutsideFacts DEF Tick, tables
  <2>2. CASE \E d \in DepartureIds, s \in Schedules, c \in Capacities : OfferDeparture(d, s, c)
    BY <2>2, <1>1, OutsideFacts DEF OfferDeparture
  <2>3. ASSUME NEW p \in Requests, Request(p)
        PROVE  \A s \in Processes : Facts(s)'
    <3>1. p \in Processes /\ now \in 0 .. now
      BY <1>1 DEF Processes
    <3>2. ASSUME NEW op, NEW input, Submit(p, op, input)
          PROVE  \A s \in Processes : Facts(s)'
      <4>1. After(op, "begin") \in {"lockBooking", "lockDeparture"}
        BY DEF After
      <4> QED
        BY <4>1, <3>1, <3>2, BeginFacts DEF Submit
    <3>3. CASE AnswerAfterViolation(p)
      BY <3>1, <3>3, EndFacts DEF AnswerAfterViolation, tables
    <3>4. CASE RefuseTour(p)
      BY <3>1, <3>4, EndFacts DEF RefuseTour, Rollback
    <3>5. ASSUME NEW u \in Users, NEW k \in Keys, NEW d \in DepartureIds, NEW q \in Quantities,
                 AnswerRepeat(p, u, k, d, q)
          PROVE  \A s \in Processes : Facts(s)'
      BY <3>5, <1>1, OutsideFacts DEF AnswerRepeat, tables
    <3> QED
      BY <2>3, <3>2, <3>3, <3>4, <3>5
      DEF Request, BeginCreate, BeginCancel, BeginDecision, BeginUpdate, BeginWithdraw
  <2>4. ASSUME NEW p \in Processes, WaitingStep(p)
        PROVE  \A s \in Processes : Facts(s)'
    <3>1. CASE RefuseBooking(p) \/ RefuseDeparture(p)
      BY <3>1, EndFacts DEF RefuseBooking, RefuseDeparture, Rollback
    <3> QED
      BY <2>4, <3>1, LockBookingFacts, LockDepartureFacts, InsertBookingFacts, UniqueViolationFacts
      DEF WaitingStep
  <2>5. ASSUME NEW p \in Processes, Commit(p)
        PROVE  \A s \in Processes : Facts(s)'
    BY <2>5, CommitWrites, CommitFacts
  <2>6. ASSUME NEW p \in Processes, Abort(p)
        PROVE  \A s \in Processes : Facts(s)'
    BY <2>6, EndFacts DEF Abort, Rollback
  <2>7. CASE Job
    <3>1. Scheduler \in Processes
      BY DEF Processes
    <3>2. ASSUME NEW op, NEW ids, NEW t \in 0 .. now, SelectBatch(op, ids, t)
          PROVE  \A s \in Processes : Facts(s)'
      BY <3>1, <3>2, BeginFacts DEF SelectBatch
    <3>3. ASSUME NEW b, NEW t \in 0 .. now, BeginExpiry(b, t)
          PROVE  \A s \in Processes : Facts(s)'
      BY <3>1, <3>3, BeginFacts DEF BeginExpiry, After
    <3>4. CASE CommitBatch
      BY <3>4, BatchWrites, CommitFacts
    <3> QED
      BY <2>7, <3>2, <3>3, <3>4, VisitRowFacts DEF Job
  <2>8. CASE UNCHANGED vars
    BY <2>8, <1>1, OutsideFacts DEF vars
  <2>9. CASE \E p \in Processes : WaitingStep(p) \/ Commit(p) \/ Abort(p)
    <3>1. PICK p \in Processes : WaitingStep(p) \/ Commit(p) \/ Abort(p)
      BY <2>9
    <3>2. CASE WaitingStep(p)
      BY <3>2, <2>4
    <3>3. CASE Commit(p)
      BY <3>3, <2>5
    <3>4. CASE Abort(p)
      BY <3>4, <2>6
    <3> QED
      BY <3>1, <3>2, <3>3, <3>4
  <2>10. CASE \E p \in Requests : Request(p)
    BY <2>10, <2>3
  <2> QED
    BY <2>1, <2>2, <2>7, <2>8, <2>9, <2>10, Zenon DEF Next
<1> QED
  BY <1>2, <1>3 DEF WorkInv, Facts

(* What every transaction knows of times, keys and locks stays true while  *)
(* it works, in every interleaving with the others.                        *)
THEOREM WorkInductive == Spec => []WorkInv
<1>1. Init => WorkInv
  <2> SUFFICES ASSUME Init
               PROVE  WorkInv
    OBVIOUS
  <2>1. IndInv /\ now = 0 /\ \A p \in Processes : tx[p] = Idle
    BY InitInv DEF Init
  <2> QED
    BY <2>1 DEF WorkInv, BeganInPast, ScheduleStillAllows, KeyIsFree, LocksFollowStage, At, Idle
<1>2. WorkInv /\ [Next]_vars => WorkInv'
  BY NextWork
<1> QED
  BY <1>1, <1>2, PTL DEF Spec

-----------------------------------------------------------------------------
(* Histories and notifications.                                            *)

(* The history of one booking, as HistoryExplainsStatus wants it.          *)
Explains(h, status) ==
  /\ Len(h) = (IF status = "PENDING" THEN 1 ELSE 2)
  /\ h[1].from = None
  /\ \A i \in 2 .. Len(h) : h[i].from = h[i-1].to
  /\ h[Len(h)].to = status

(* A pending booking whose history explains that has, once it is decided,  *)
(* a history that explains the decision.                                   *)
LEMMA OneMoreLine ==
  ASSUME NEW h \in Seq(HistoryRow), Explains(h, "PENDING"),
         NEW status \in BookingStatus \ {"PENDING"},
         NEW actor \in {"customer", "admin", "scheduler"}
  PROVE  Explains(Append(h, [from |-> "PENDING", to |-> status, actor |-> actor]), status)
<1> DEFINE row == [from |-> "PENDING", to |-> status, actor |-> actor]
           g == Append(h, row)
<1>1. Len(h) = 1 /\ h[1].from = None /\ h[1].to = "PENDING"
  BY DEF Explains
<1>2. row.from = "PENDING" /\ row.to = status /\ row \in HistoryRow
  BY DEF HistoryRow, BookingStatus
<1> HIDE DEF row
<1>3. Len(g) = 2 /\ g[1] = h[1] /\ g[2] = row
  <2>1. /\ Len(g) = Len(h) + 1
        /\ \A i \in 1 .. Len(h) : g[i] = h[i]
        /\ g[Len(h) + 1] = row
    BY <1>2, AppendProperties
  <2> HIDE DEF g
  <2> QED
    BY <1>1, <2>1
<1> HIDE DEF g
<1>4. \A i \in 2 .. Len(g) : g[i].from = g[i-1].to
  <2> SUFFICES ASSUME NEW i \in 2 .. Len(g)
               PROVE  g[i].from = g[i-1].to
    OBVIOUS
  <2>1. i = 2 /\ i - 1 = 1
    BY <1>3
  <2> QED
    BY <2>1, <1>1, <1>2, <1>3
<1> QED
  BY <1>1, <1>2, <1>3, <1>4 DEF Explains, g, row

(* Every step keeps the histories explained.                               *)
LEMMA HistoryStep ==
  ASSUME IndInv, HistoryExplainsStatus, [Next]_vars
  PROVE  HistoryExplainsStatus'
<1>1. \A b \in DOMAIN booking : Explains(history[b], booking[b].status)
  BY DEF HistoryExplainsStatus, Explains
<1>2. SUFFICES \A b \in DOMAIN booking' : Explains(history'[b], booking'[b].status)
  BY DEF HistoryExplainsStatus, Explains
<1>3. TypeOK
  BY DEF IndInv
<1>4. CASE UNCHANGED <<booking, history>>
  BY <1>1, <1>4
<1>5. ASSUME NEW p \in Processes, CommitCreate(p)
      PROVE  \A b \in DOMAIN booking' : Explains(history'[b], booking'[b].status)
  <2> DEFINE b == tx[p].input.booking
             row == [from |-> None, to |-> "PENDING", actor |-> "customer"]
  <2>1. /\ DOMAIN booking' = DOMAIN booking \cup {b}
        /\ booking'[b].status = "PENDING"
        /\ \A x \in DOMAIN booking : booking'[x] = booking[x]
        /\ history'[b] = <<row>>
        /\ \A x \in DOMAIN booking : history'[x] = history[x]
    BY <1>5, CreateEffect
  <2>2. Explains(<<row>>, "PENDING")
    BY DEF Explains
  <2> HIDE DEF b, row
  <2> QED
    BY <1>1, <2>1, <2>2
<1>6. ASSUME NEW p \in Processes, CommitApproval(p) \/ CommitRelease(p)
      PROVE  \A b \in DOMAIN booking' : Explains(history'[b], booking'[b].status)
  <2> DEFINE b == tx[p].input.booking
             s == Target(tx[p].op)
  <2>1. /\ b \in DOMAIN booking /\ booking[b].status = "PENDING"
        /\ DOMAIN booking' = DOMAIN booking
        /\ booking'[b].status = s
        /\ \A x \in DOMAIN booking \ {b} : booking'[x] = booking[x]
        /\ history'[b] = Append(history[b], [from |-> "PENDING", to |-> s,
                                             actor |-> Actor(tx[p].op)])
        /\ \A x \in DOMAIN booking \ {b} : history'[x] = history[x]
    BY <1>6, DecisionEffect
  <2>2. /\ s \in BookingStatus \ {"PENDING"}
        /\ Actor(tx[p].op) \in {"customer", "admin", "scheduler"}
    BY DEF Target, BookingStatus, Actor
  <2>3. history[b] \in Seq(HistoryRow)
    BY <1>3, <2>1 DEF TypeOK
  <2> HIDE DEF b, s
  <2>4. Explains(history'[b], s)
    BY <1>1, <2>1, <2>2, <2>3, OneMoreLine
  <2> QED
    BY <1>1, <2>1, <2>4
<1>7. ASSUME NEW p \in Processes, CommitUpdate(p) \/ CommitWithdraw(p)
      PROVE  UNCHANGED <<booking, history>>
  BY <1>7 DEF CommitUpdate, CommitWithdraw
<1>8. (Quiet \/ Offers \/ CommitBatch) => UNCHANGED <<booking, history>>
  BY DEF Quiet, Offers, OfferDeparture, CommitBatch, tables
<1> QED
  BY <1>3, <1>4, <1>5, <1>6, <1>7, <1>8, StepKinds DEF Commits, Commit

(* The history of a booking is a chain from its creation to its status with*)
(* at most one decision, whoever races to decide it.                       *)
THEOREM HistoryExplains == Spec => []HistoryExplainsStatus
<1>1. Init => HistoryExplainsStatus
  BY DEF Init, HistoryExplainsStatus
<1>2. IndInv /\ HistoryExplainsStatus /\ [Next]_vars => HistoryExplainsStatus'
  BY HistoryStep
<1> QED
  BY <1>1, <1>2, Inductive, PTL DEF Spec

(* The notification rows of the bookings in B.                             *)
Notices(B) == {[booking |-> b, status |-> booking[b].status] :
                 b \in {x \in B : booking[x].status \in {"APPROVED", "REJECTED"}}}

(* Every step keeps the notifications in line with the decisions.          *)
LEMMA OutboxStep ==
  ASSUME IndInv, OutboxMatchesDecision, [Next]_vars
  PROVE  OutboxMatchesDecision'
<1>1. outbox = Notices(DOMAIN booking)
  BY DEF OutboxMatchesDecision, Notices
<1>2. SUFFICES outbox' = {[booking |-> b, status |-> booking'[b].status] :
                 b \in {x \in DOMAIN booking' : booking'[x].status \in {"APPROVED", "REJECTED"}}}
  BY DEF OutboxMatchesDecision
<1>3. TypeOK
  BY DEF IndInv
<1>4. CASE UNCHANGED <<booking, outbox>>
  BY <1>1, <1>4 DEF Notices
<1>5. ASSUME NEW p \in Processes, CommitCreate(p)
      PROVE  outbox' = {[booking |-> b, status |-> booking'[b].status] :
               b \in {x \in DOMAIN booking' : booking'[x].status \in {"APPROVED", "REJECTED"}}}
  <2> DEFINE b == tx[p].input.booking
  <2>1. /\ outbox' = outbox
        /\ DOMAIN booking' = DOMAIN booking \cup {b}
        /\ booking'[b].status = "PENDING"
        /\ \A x \in DOMAIN booking : booking'[x] = booking[x]
    BY <1>5, CreateEffect
  <2> HIDE DEF b
  <2> QED
    BY <1>1, <2>1 DEF Notices
<1>6. ASSUME NEW p \in Processes, CommitApproval(p) \/ CommitRelease(p)
      PROVE  outbox' = {[booking |-> b, status |-> booking'[b].status] :
               b \in {x \in DOMAIN booking' : booking'[x].status \in {"APPROVED", "REJECTED"}}}
  <2> DEFINE b == tx[p].input.booking
             s == Target(tx[p].op)
  <2>1. /\ b \in DOMAIN booking /\ booking[b].status = "PENDING"
        /\ DOMAIN booking' = DOMAIN booking
        /\ booking'[b].status = s
        /\ \A x \in DOMAIN booking \ {b} : booking'[x] = booking[x]
        /\ outbox' = outbox \cup OutboxRows(tx[p].op, b)
        /\ tx[p].op \in ReleaseOps \cup {"approve"}
    BY <1>6, DecisionEffect
  <2>2. OutboxRows(tx[p].op, b) = IF s \in {"APPROVED", "REJECTED"}
                                    THEN {[booking |-> b, status |-> s]} ELSE {}
    BY <2>1 DEF OutboxRows, Target, ReleaseOps
  <2> HIDE DEF b, s
  <2>3. CASE s \in {"APPROVED", "REJECTED"}
    BY <1>1, <2>1, <2>2, <2>3 DEF Notices
  <2>4. CASE s \notin {"APPROVED", "REJECTED"}
    BY <1>1, <2>1, <2>2, <2>4 DEF Notices
  <2> QED
    BY <2>3, <2>4
<1>7. ASSUME NEW p \in Processes, CommitUpdate(p) \/ CommitWithdraw(p)
      PROVE  UNCHANGED <<booking, outbox>>
  BY <1>7 DEF CommitUpdate, CommitWithdraw
<1>8. (Quiet \/ Offers \/ CommitBatch) => UNCHANGED <<booking, outbox>>
  BY DEF Quiet, Offers, OfferDeparture, CommitBatch, tables
<1> QED
  BY <1>3, <1>4, <1>5, <1>6, <1>7, <1>8, StepKinds DEF Commits, Commit

(* A customer is told of a decision exactly when the booking has it, and   *)
(* never of two.                                                           *)
THEOREM NoticesMatch == Spec => []OutboxMatchesDecision
<1>1. Init => OutboxMatchesDecision
  BY DEF Init, OutboxMatchesDecision
<1>2. IndInv /\ OutboxMatchesDecision /\ [Next]_vars => OutboxMatchesDecision'
  BY OutboxStep
<1> QED
  BY <1>1, <1>2, Inductive, PTL DEF Spec

(* What a step leaves of a booking that exists.                            *)
Keeps(b) ==
  /\ b \in DOMAIN booking'
  /\ booking'[b] = [booking[b] EXCEPT !.status = booking'[b].status]
  /\ booking[b].status # "PENDING" => booking'[b].status = booking[b].status

(* Every step keeps every booking.                                         *)
LEMMA BookingsKept ==
  ASSUME IndInv, [Next]_vars
  PROVE  \A b \in DOMAIN booking : Keeps(b)
<1>1. TypeOK /\ \A b \in DOMAIN booking : booking[b] \in Booking
  BY DEF IndInv, TypeOK
<1>2. \A b \in DOMAIN booking : booking[b] = [booking[b] EXCEPT !.status = booking[b].status]
  BY <1>1 DEF Booking
<1>3. CASE booking' = booking
  BY <1>2, <1>3 DEF Keeps
<1>4. ASSUME NEW p \in Processes, CommitCreate(p)
      PROVE  \A b \in DOMAIN booking : Keeps(b)
  <2>1. /\ DOMAIN booking \subseteq DOMAIN booking'
        /\ \A x \in DOMAIN booking : booking'[x] = booking[x]
    BY <1>4, CreateEffect
  <2> QED
    BY <2>1, <1>2 DEF Keeps
<1>5. ASSUME NEW p \in Processes, CommitApproval(p) \/ CommitRelease(p)
      PROVE  \A b \in DOMAIN booking : Keeps(b)
  <2> DEFINE b == tx[p].input.booking
             s == Target(tx[p].op)
  <2>1. /\ b \in DOMAIN booking /\ booking[b].status = "PENDING"
        /\ DOMAIN booking' = DOMAIN booking
        /\ booking'[b] = [booking[b] EXCEPT !.status = s]
        /\ booking'[b].status = s
        /\ \A x \in DOMAIN booking \ {b} : booking'[x] = booking[x]
    BY <1>5, DecisionEffect
  <2> HIDE DEF b, s
  <2> QED
    BY <2>1, <1>2 DEF Keeps
<1>6. ASSUME NEW p \in Processes, CommitUpdate(p) \/ CommitWithdraw(p)
      PROVE  booking' = booking
  BY <1>6 DEF CommitUpdate, CommitWithdraw
<1>7. (Quiet \/ Offers \/ CommitBatch) => booking' = booking
  BY DEF Quiet, Offers, OfferDeparture, CommitBatch, tables
<1> QED
  BY <1>1, <1>3, <1>4, <1>5, <1>6, <1>7, StepKinds DEF Commits, Commit

(* A booking leaves PENDING once and keeps what was booked, whatever the   *)
(* order in which transactions that read it as pending commit.             *)
THEOREM DecidesOnce == Spec => DecidedOnce
<1>1. IndInv /\ [Next]_vars =>
        [\A b \in DOMAIN booking :
           /\ b \in DOMAIN booking'
           /\ booking'[b] = [booking[b] EXCEPT !.status = booking'[b].status]
           /\ booking[b].status # "PENDING" => booking'[b].status = booking[b].status]_vars
  BY BookingsKept DEF Keeps
<1> QED
  BY <1>1, Inductive, PTL DEF Spec, DecidedOnce

-----------------------------------------------------------------------------
(* Idempotency keys.                                                       *)

(* The booking that an answer names is the one that was asked for.         *)
Names(a) ==
  /\ a.booking \in DOMAIN booking
  /\ booking[a.booking].user = a.user
  /\ booking[a.booking].key = a.key
  /\ booking[a.booking].departure = a.departure
  /\ booking[a.booking].quantity = a.quantity

(* An answer stays right.                                                  *)
LEMMA AnswersStay ==
  ASSUME IndInv, [Next]_vars, NEW a, Names(a)
  PROVE  Names(a)'
<1> DEFINE b == a.booking
<1>1. b \in DOMAIN booking /\ Keeps(b) /\ booking[b] \in Booking
  BY BookingsKept DEF Names, IndInv, TypeOK
<1>2. /\ booking'[b].user = booking[b].user /\ booking'[b].key = booking[b].key
      /\ booking'[b].departure = booking[b].departure
      /\ booking'[b].quantity = booking[b].quantity
  BY <1>1 DEF Keeps, Booking
<1> QED
  BY <1>1, <1>2 DEF Names, Keeps

(* What is answered in a step is right: the booking that has just been     *)
(* inserted, or the committed one with the same key, departure and         *)
(* quantity.                                                               *)
LEMMA NewAnswers ==
  ASSUME IndInv, [Next]_vars, NEW a \in answered' \ answered
  PROVE  Names(a)'
<1>1. TypeOK
  BY DEF IndInv
<1>2. CASE Quiet
  <2>1. PICK u \in Users, k \in Keys, d \in DepartureIds, q \in Quantities : Replay(u, k, d, q)
    BY <1>2 DEF Quiet
  <2>2. PICK b \in WithKey(u, k) :
          /\ SameRequest(b, d, q)
          /\ a = [departure |-> d, booking |-> b, user |-> u, key |-> k, quantity |-> q]
    BY <2>1 DEF Replay
  <2>3. booking' = booking
    BY <1>2 DEF Quiet, tables
  <2> QED
    BY <2>2, <2>3 DEF Names, WithKey, SameRequest
<1>3. ASSUME NEW p \in Processes, CommitCreate(p)
      PROVE  Names(a)'
  <2> DEFINE i == tx[p].input
             new == [departure |-> i.departure, status |-> "PENDING", user |-> i.user,
                     key |-> i.key, quantity |-> i.quantity, createdAt |-> tx[p].began]
  <2>1. /\ answered' = answered \cup {i}
        /\ DOMAIN booking' = DOMAIN booking \cup {i.booking}
        /\ booking'[i.booking] = new
    BY <1>3, CreateEffect
  <2>2. /\ new.departure = i.departure /\ new.user = i.user
        /\ new.key = i.key /\ new.quantity = i.quantity
    OBVIOUS
  <2>3. a = i
    BY <2>1
  <2> HIDE DEF new
  <2> QED
    BY <2>1, <2>2, <2>3 DEF Names
<1>4. (Offers \/ CommitBatch) => answered' = answered
  BY DEF Offers, OfferDeparture, CommitBatch
<1>5. ASSUME NEW p \in Processes,
             CommitApproval(p) \/ CommitRelease(p) \/ CommitUpdate(p) \/ CommitWithdraw(p)
      PROVE  answered' = answered
  BY <1>5 DEF CommitApproval, CommitRelease, CommitUpdate, CommitWithdraw
<1> QED
  BY <1>1, <1>2, <1>3, <1>4, <1>5, StepKinds DEF Commits, Commit

(* The bookings with a key change only when an insert of this key commits, *)
(* and then there was none.                                                *)
LEMMA KeysStay ==
  ASSUME WorkInv, [Next]_vars, NEW u, NEW k
  PROVE  WithKey(u, k)' = WithKey(u, k) \/ \E b : WithKey(u, k)' = {b}
<1>1. IndInv /\ TypeOK
  BY DEF WorkInv, IndInv
<1>2. CASE booking' = booking
  BY <1>2 DEF WithKey
<1>3. ASSUME NEW p \in Processes, CommitCreate(p)
      PROVE  WithKey(u, k)' = WithKey(u, k) \/ \E b : WithKey(u, k)' = {b}
  <2> DEFINE i == tx[p].input
             b == i.booking
  <2>1. /\ b \notin DOMAIN booking
        /\ DOMAIN booking' = DOMAIN booking \cup {b}
        /\ \A x \in DOMAIN booking : booking'[x] = booking[x]
    BY <1>1, <1>3, CreateEffect
  <2>2. HoldsKey(p, booking'[b].user, booking'[b].key)
    <3>1. WritesOwnKey(p)
      BY <1>3, CommitWrites DEF Commit
    <3> QED
      BY <2>1, <3>1 DEF WritesOwnKey
  <2>3. WithKey(i.user, i.key) = {}
    BY <1>3 DEF WorkInv, KeyIsFree, CommitCreate
  <2> HIDE DEF b
  <2>4. CASE u = i.user /\ k = i.key
    BY <2>1, <2>2, <2>3, <2>4 DEF WithKey, HoldsKey
  <2>5. CASE ~(u = i.user /\ k = i.key)
    BY <2>1, <2>2, <2>5 DEF WithKey, HoldsKey
  <2> QED
    BY <2>4, <2>5
<1>4. ASSUME NEW p \in Processes, CommitApproval(p) \/ CommitRelease(p)
      PROVE  WithKey(u, k)' = WithKey(u, k)
  <2>1. DOMAIN booking' = DOMAIN booking
    BY <1>1, <1>4, DecisionEffect
  <2>2. WritesOwnKey(p)
    BY <1>4, CommitWrites DEF Commit
  <2> QED
    BY <2>1, <2>2 DEF WritesOwnKey, WithKey
<1>5. ASSUME NEW p \in Processes, CommitUpdate(p) \/ CommitWithdraw(p)
      PROVE  booking' = booking
  BY <1>5 DEF CommitUpdate, CommitWithdraw
<1>6. (Quiet \/ Offers \/ CommitBatch) => booking' = booking
  BY DEF Quiet, Offers, OfferDeparture, CommitBatch, tables
<1> QED
  BY <1>1, <1>2, <1>3, <1>4, <1>5, <1>6, StepKinds DEF Commits, Commit

(* One key of one customer stands for one booking, and every answer that   *)
(* create has given to the key names it.                                   *)
THEOREM KeysAreIdempotent == Spec => []OneBookingPerKey
<1>1. Init => OneBookingPerKey
  <2> SUFFICES ASSUME Init, NEW u \in Users, NEW k \in Keys
               PROVE  Cardinality(WithKey(u, k)) <= 1
    BY DEF Init, OneBookingPerKey
  <2>1. WithKey(u, k) = {}
    BY DEF Init, WithKey
  <2> QED
    BY <2>1, FS_EmptySet
<1>2. WorkInv /\ OneBookingPerKey /\ [Next]_vars => OneBookingPerKey'
  <2> SUFFICES ASSUME WorkInv, OneBookingPerKey, [Next]_vars
               PROVE  OneBookingPerKey'
    OBVIOUS
  <2>1. ASSUME NEW u \in Users, NEW k \in Keys
        PROVE  Cardinality(WithKey(u, k)') <= 1
    <3>1. CASE WithKey(u, k)' = WithKey(u, k)
      BY <3>1 DEF OneBookingPerKey
    <3>2. ASSUME NEW b, WithKey(u, k)' = {b}
          PROVE  Cardinality(WithKey(u, k)') <= 1
      <4>1. Cardinality({b}) = 1
        BY FS_Singleton
      <4> QED
        BY <3>2, <4>1
    <3> QED
      BY <3>1, <3>2, KeysStay
  <2>2. ASSUME NEW a \in answered'
        PROVE  Names(a)'
    <3>1. CASE a \in answered
      <4>1. Names(a)
        BY <3>1 DEF OneBookingPerKey, Names, WithKey
      <4> QED
        BY <4>1, AnswersStay DEF WorkInv
    <3> QED
      BY <3>1, NewAnswers DEF WorkInv
  <2> QED
    BY <2>1, <2>2 DEF OneBookingPerKey, Names, WithKey
<1> QED
  BY <1>1, <1>2, WorkInductive, PTL DEF Spec

-----------------------------------------------------------------------------
(* Times.                                                                  *)

(* What a step other than an update or a batch leaves of a departure: all  *)
(* but the counter and, when it is withdrawn, the status.                  *)
LEMMA SchedulesStay ==
  ASSUME IndInv, NEW p \in Processes, NEW d \in DOMAIN departure,
         CommitCreate(p) \/ CommitApproval(p) \/ CommitRelease(p) \/ CommitWithdraw(p)
  PROVE  /\ d \in DOMAIN departure'
         /\ departure'[d].schedule = departure[d].schedule
         /\ departure'[d].capacity = departure[d].capacity
         /\ \/ departure'[d].status = departure[d].status
            \/ CommitWithdraw(p) /\ departure'[d].status = "CANCELLED"
<1>1. departure[d] \in Departure
  BY DEF IndInv, TypeOK
<1>2. CASE CommitCreate(p)
  <2> DEFINE x == tx[p].input.departure
             n == departure[x].bookedSeats + tx[p].input.quantity
  <2>1. /\ DOMAIN departure' = DOMAIN departure
        /\ departure'[x] = [departure[x] EXCEPT !.bookedSeats = n]
        /\ \A y \in DOMAIN departure \ {x} : departure'[y] = departure[y]
    BY <1>2, CreateEffect
  <2> HIDE DEF x, n
  <2> QED
    BY <1>1, <2>1 DEF Departure
<1>3. CASE CommitApproval(p) \/ CommitRelease(p)
  BY <1>3, DecisionEffect
<1>4. CASE CommitWithdraw(p)
  <2> DEFINE x == tx[p].input.departure
  <2>1. /\ DOMAIN departure' = DOMAIN departure
        /\ departure'[x] = [departure[x] EXCEPT !.status = "CANCELLED"]
        /\ \A y \in DOMAIN departure \ {x} : departure'[y] = departure[y]
    BY <1>4, DepartureEffect
  <2> HIDE DEF x
  <2> QED
    BY <1>1, <1>4, <2>1 DEF Departure
<1> QED
  BY <1>2, <1>3, <1>4

(* A batch changes nothing but statuses, and only of rows that are due.    *)
LEMMA BatchStatus ==
  ASSUME WorkInv, CommitBatch, NEW d \in DOMAIN departure
  PROVE  /\ d \in DOMAIN departure'
         /\ departure'[d].schedule = departure[d].schedule
         /\ departure'[d].capacity = departure[d].capacity
         /\ \/ departure'[d] = departure[d]
            \/ departure'[d].status = "CLOSED" /\ departure[d].status = "OPEN"
            \/ /\ departure'[d].status = "COMPLETED"
               /\ departure[d].status \in {"OPEN", "CLOSED"}
               /\ departure[d].schedule.endAt <= now
<1> DEFINE job == tx[Scheduler]
           next == IF job.op = "close" THEN "CLOSED" ELSE "COMPLETED"
<1>1. /\ IndInv /\ departure[d] \in Departure
      /\ departure[d].schedule.endAt \in Nat /\ now \in Nat
  BY ConstantsAssumption DEF WorkInv, IndInv, TypeOK, Departure, Time
<1>2. /\ DOMAIN departure' = DOMAIN departure
      /\ job.op \in {"close", "complete"} /\ Scheduler \in Processes
      /\ IF d \in job.locks /\ StillDue(job.op, departure[d], job.began)
           THEN departure'[d] = [departure[d] EXCEPT !.status = next]
           ELSE departure'[d] = departure[d]
  BY <1>1, BatchEffect
<1>3. job.began <= now /\ job.began \in Nat
  <2>1. job # Idle
    BY <1>2 DEF Idle
  <2>2. job.began \in Nat
    BY <1>1, <1>2, <2>1, UnderWay, ConstantsAssumption DEF IndInv, Time
  <2> QED
    BY <1>2, <2>2 DEF WorkInv, BeganInPast
<1>4. CASE departure'[d] = departure[d]
  BY <1>2, <1>4
<1>5. CASE /\ StillDue(job.op, departure[d], job.began)
           /\ departure'[d] = [departure[d] EXCEPT !.status = next]
  <2>1. /\ departure'[d].schedule = departure[d].schedule
        /\ departure'[d].capacity = departure[d].capacity
        /\ departure'[d].status = next
    BY <1>1, <1>5 DEF Departure
  <2>2. CASE job.op = "close"
    BY <2>1, <2>2, <1>2, <1>5 DEF StillDue, Due
  <2>3. CASE job.op = "complete"
    <3>1. departure[d].status \in {"OPEN", "CLOSED"} /\ departure[d].schedule.endAt <= job.began
      BY <2>3, <1>5 DEF StillDue, Due
    <3>2. departure[d].schedule.endAt <= now
      BY <3>1, <1>1, <1>3
    <3> QED
      BY <2>1, <2>3, <3>1, <3>2, <1>2
  <2> QED
    BY <2>2, <2>3, <1>2
<1> QED
  BY <1>2, <1>4, <1>5

(* An update meets a departure that has not ended, leaves it open or       *)
(* closed, and replaces the schedule only when nobody holds a seat.        *)
LEMMA UpdateStatus ==
  ASSUME WorkInv, NEW p \in Processes, CommitUpdate(p), NEW d \in DOMAIN departure
  PROVE  /\ d \in DOMAIN departure'
         /\ \/ departure'[d] = departure[d]
            \/ /\ d = tx[p].input.departure
               /\ departure[d].status \in {"OPEN", "CLOSED"}
               /\ departure'[d].status \in {"OPEN", "CLOSED"}
         /\ departure'[d].schedule = departure[d].schedule \/ ActiveOn(d) = {}
<1> DEFINE x == tx[p].input.departure
<1>1. /\ DOMAIN departure' = DOMAIN departure
      /\ At(p, {"update", "withdraw"}, "commit")
      /\ \A y \in DOMAIN departure \ {x} : departure'[y] = departure[y]
      /\ tx[p].input \in UpdateInput
      /\ tx[p].row = departure[x] /\ departure[x] \in Departure
      /\ departure'[x] = Updated(departure[x], tx[p].input)
  BY DepartureEffect DEF WorkInv
<1>2. departure[x].status \in {"OPEN", "CLOSED"}
  BY <1>1 DEF WorkInv, ScheduleStillAllows
<1>3. /\ departure'[x].status \in {"OPEN", "CLOSED"}
      /\ tx[p].input.schedule = None => departure'[x].schedule = departure[x].schedule
  BY <1>1, <1>2 DEF Updated, UpdateInput, Departure
<1>4. tx[p].input.schedule # None => ActiveOn(x) = {}
  BY DEF WorkInv, ScheduleStillAllows, CommitUpdate
<1> QED
  BY <1>1, <1>2, <1>3, <1>4

(* The departures of a step that offers one.                               *)
LEMMA OfferEffect ==
  ASSUME Offers
  PROVE  /\ UNCHANGED <<now, booking>>
         /\ \A d \in DOMAIN departure : d \in DOMAIN departure' /\ departure'[d] = departure[d]
         /\ \A d \in DOMAIN departure' \ DOMAIN departure : departure'[d].status = "OPEN"
<1>1. PICK d \in DepartureIds, s \in Schedules, c \in Capacities : OfferDeparture(d, s, c)
  BY DEF Offers
<1> DEFINE row == [status |-> "OPEN", schedule |-> s, capacity |-> c, bookedSeats |-> 0]
<1>2. row.status = "OPEN"
  OBVIOUS
<1>3. d \notin DOMAIN departure /\ departure' = With(departure, d, row) /\ UNCHANGED <<now, booking>>
  BY <1>1 DEF OfferDeparture
<1> HIDE DEF row
<1> QED
  BY <1>2, <1>3 DEF With

(* The clock does not go back.                                             *)
LEMMA ClockForward ==
  ASSUME TypeOK, [Next]_vars
  PROVE  now \in Nat /\ now' \in Nat /\ now <= now'
<1>1. now \in Nat
  BY ConstantsAssumption DEF TypeOK, Time
<1>2. now' = now \/ now' = now + 1
  <2>1. ASSUME NEW p \in Processes, WaitingStep(p) \/ Commit(p) \/ Abort(p)
        PROVE  now' = now
    BY <2>1 DEF WaitingStep, LockBooking, RefuseBooking, LockDeparture, RefuseDeparture,
                InsertBooking, UniqueViolation, Abort, Lock, Rollback, Commit, CommitCreate,
                CommitApproval, CommitRelease, CommitUpdate, CommitWithdraw
  <2>2. ASSUME NEW p \in Requests, Request(p)
        PROVE  now' = now
    BY <2>2 DEF Request, BeginCreate, BeginCancel, BeginDecision, BeginUpdate, BeginWithdraw,
                Submit, RefuseTour, Rollback, AnswerRepeat, AnswerAfterViolation
  <2>3. CASE Job
    BY <2>3 DEF Job, SelectBatch, VisitRow, BeginExpiry, CommitBatch
  <2> QED
    BY <2>1, <2>2, <2>3 DEF Next, Tick, OfferDeparture, vars
<1> QED
  BY <1>1, <1>2

(* A booking that holds seats began before the start and the deadline of   *)
(* its departure, although administrators edit schedules meanwhile.        *)
THEOREM BookingsInTime == Spec => []BookedInTime
<1> DEFINE InTime(t, s) == /\ t < s.startAt
                           /\ s.bookingDeadline # None => t < s.bookingDeadline
<1>1. Init => BookedInTime
  BY DEF Init, BookedInTime
<1>2. WorkInv /\ BookedInTime /\ [Next]_vars => BookedInTime'
  <2> SUFFICES ASSUME WorkInv, BookedInTime, [Next]_vars, NEW b \in DOMAIN booking',
                      booking'[b].status \in {"PENDING", "APPROVED"}
               PROVE  InTime(booking'[b].createdAt, departure'[booking'[b].departure].schedule)
    BY DEF BookedInTime, Active
  <2>1. IndInv /\ TypeOK
    BY DEF WorkInv, IndInv
  <2>2. CASE b \in DOMAIN booking
    <3> DEFINE d == booking[b].departure
    <3>1. d \in DOMAIN departure /\ booking[b] \in Booking
      BY <2>1, <2>2 DEF IndInv, BookedDepartureExists, TypeOK
    <3>2. /\ booking'[b].departure = d /\ booking'[b].createdAt = booking[b].createdAt
          /\ booking[b].status \in {"PENDING", "APPROVED"}
      <4>1. Keeps(b)
        BY <2>1, <2>2, BookingsKept
      <4> QED
        BY <4>1, <3>1 DEF Keeps, Booking, BookingStatus
    <3>3. InTime(booking[b].createdAt, departure[d].schedule)
      BY <2>2, <3>2 DEF BookedInTime, Active
    <3>4. b \in ActiveOn(d)
      BY <2>2, <3>2 DEF ActiveOn, Active
    <3> HIDE DEF d
    <3>5. departure'[d].schedule = departure[d].schedule
      <4>1. CASE Quiet
        BY <4>1 DEF Quiet, tables
      <4>2. CASE Offers
        BY <4>2, <3>1, OfferEffect
      <4>3. CASE CommitBatch
        BY <4>3, <3>1, BatchStatus
      <4>4. ASSUME NEW p \in Processes, CommitUpdate(p)
            PROVE  departure'[d].schedule = departure[d].schedule
        BY <4>4, <3>1, <3>4, UpdateStatus
      <4>5. ASSUME NEW p \in Processes,
                   CommitCreate(p) \/ CommitApproval(p) \/ CommitRelease(p) \/ CommitWithdraw(p)
            PROVE  departure'[d].schedule = departure[d].schedule
        BY <4>5, <2>1, <3>1, SchedulesStay
      <4> QED
        BY <2>1, <4>1, <4>2, <4>3, <4>4, <4>5, StepKinds DEF Commits, Commit
    <3> QED
      BY <3>2, <3>3, <3>5
  <2>3. CASE b \notin DOMAIN booking
    <3>1. PICK p \in Processes : CommitCreate(p)
      <4>1. (Quiet \/ Offers \/ CommitBatch) => booking' = booking
        BY DEF Quiet, Offers, OfferDeparture, CommitBatch, tables
      <4>2. ASSUME NEW p \in Processes, CommitApproval(p) \/ CommitRelease(p)
            PROVE  DOMAIN booking' = DOMAIN booking
        BY <4>2, <2>1, DecisionEffect
      <4>3. ASSUME NEW p \in Processes, CommitUpdate(p) \/ CommitWithdraw(p)
            PROVE  booking' = booking
        BY <4>3 DEF CommitUpdate, CommitWithdraw
      <4> QED
        BY <2>1, <2>3, <4>1, <4>2, <4>3, StepKinds DEF Commits, Commit
    <3> DEFINE i == tx[p].input
               d == i.departure
               new == [departure |-> d, status |-> "PENDING", user |-> i.user,
                       key |-> i.key, quantity |-> i.quantity, createdAt |-> tx[p].began]
    <3>2. /\ DOMAIN booking' = DOMAIN booking \cup {i.booking}
          /\ booking'[i.booking] = new
          /\ d \in DOMAIN departure /\ tx[p].row = departure[d]
      BY <2>1, <3>1, CreateEffect
    <3>3. new.departure = d /\ new.createdAt = tx[p].began
      OBVIOUS
    <3>4. InTime(tx[p].began, departure[d].schedule)
      BY <3>1, <3>2 DEF WorkInv, ScheduleStillAllows, CommitCreate
    <3>5. departure'[d].schedule = departure[d].schedule
      BY <2>1, <3>1, <3>2, SchedulesStay
    <3> HIDE DEF new
    <3> QED
      BY <2>3, <3>2, <3>3, <3>4, <3>5
  <2> QED
    BY <2>2, <2>3
<1> QED
  BY <1>1, <1>2, WorkInductive, PTL DEF Spec

(* A completed departure is over by the schedule it has.                   *)
THEOREM CompletedWhenOver == Spec => []CompletedAfterEnd
<1>1. Init => CompletedAfterEnd
  BY DEF Init, CompletedAfterEnd
<1>2. WorkInv /\ CompletedAfterEnd /\ [Next]_vars => CompletedAfterEnd'
  <2> SUFFICES ASSUME WorkInv, CompletedAfterEnd, [Next]_vars, NEW d \in DOMAIN departure',
                      departure'[d].status = "COMPLETED"
               PROVE  departure'[d].schedule.endAt <= now'
    BY DEF CompletedAfterEnd
  <2>1. IndInv /\ TypeOK
    BY DEF WorkInv, IndInv
  <2>2. now \in Nat /\ now' \in Nat /\ now <= now'
    BY <2>1, ClockForward
  <2>3. /\ d \in DOMAIN departure
        /\ departure'[d].schedule = departure[d].schedule
        /\ departure[d].status = "COMPLETED" \/ departure[d].schedule.endAt <= now
    <3>1. CASE Quiet
      BY <3>1 DEF Quiet, tables
    <3>2. CASE Offers
      BY <3>2, OfferEffect
    <3>3. CASE CommitBatch
      <4>1. d \in DOMAIN departure
        BY <2>1, <3>3, BatchEffect
      <4> QED
        BY <3>3, <4>1, BatchStatus
    <3>4. ASSUME NEW p \in Processes, CommitUpdate(p)
          PROVE  d \in DOMAIN departure /\ departure'[d] = departure[d]
      <4>1. d \in DOMAIN departure
        BY <2>1, <3>4, DepartureEffect
      <4> QED
        BY <3>4, <4>1, UpdateStatus
    <3>5. ASSUME NEW p \in Processes,
                 CommitCreate(p) \/ CommitApproval(p) \/ CommitRelease(p) \/ CommitWithdraw(p)
          PROVE  /\ d \in DOMAIN departure
                 /\ departure'[d].schedule = departure[d].schedule
                 /\ departure[d].status = "COMPLETED"
      <4>1. d \in DOMAIN departure
        <5>1. CASE CommitCreate(p)
          BY <2>1, <5>1, CreateEffect
        <5>2. CASE CommitApproval(p) \/ CommitRelease(p)
          BY <2>1, <5>2, DecisionEffect
        <5>3. CASE CommitWithdraw(p)
          BY <2>1, <5>3, DepartureEffect
        <5> QED
          BY <3>5, <5>1, <5>2, <5>3
      <4> QED
        BY <2>1, <3>5, <4>1, SchedulesStay
    <3> QED
      BY <2>1, <3>1, <3>2, <3>3, <3>4, <3>5, StepKinds DEF Commits, Commit
  <2>4. departure[d].schedule.endAt \in Nat
    BY <2>1, <2>3, ConstantsAssumption DEF TypeOK, Departure
  <2>5. departure[d].schedule.endAt <= now
    BY <2>3 DEF CompletedAfterEnd
  <2> QED
    BY <2>2, <2>3, <2>4, <2>5
<1> QED
  BY <1>1, <1>2, WorkInductive, PTL DEF Spec

(* A cancelled or completed departure changes in nothing but its counter,  *)
(* whatever updates and batches had selected it before it ended.           *)
LEMMA EndedStays ==
  ASSUME WorkInv, [Next]_vars, NEW d \in DOMAIN departure,
         departure[d].status \in {"CANCELLED", "COMPLETED"}
  PROVE  departure'[d] = [departure[d] EXCEPT !.bookedSeats = departure'[d].bookedSeats]
<1>1. IndInv /\ TypeOK /\ departure[d] \in Departure
  BY DEF WorkInv, IndInv, TypeOK
<1>2. CASE departure'[d] = departure[d]
  BY <1>1, <1>2 DEF Departure
<1>3. Quiet => departure'[d] = departure[d]
  BY DEF Quiet, tables
<1>4. Offers => departure'[d] = departure[d]
  BY OfferEffect
<1>5. CommitBatch => departure'[d] = departure[d]
  BY BatchStatus
<1>6. ASSUME NEW p \in Processes, CommitUpdate(p)
      PROVE  departure'[d] = departure[d]
  BY <1>6, UpdateStatus
<1>7. ASSUME NEW p \in Processes, CommitWithdraw(p)
      PROVE  departure'[d] = departure[d]
  <2>1. /\ At(p, {"update", "withdraw"}, "commit")
        /\ tx[p].row = departure[tx[p].input.departure]
        /\ \A x \in DOMAIN departure \ {tx[p].input.departure} : departure'[x] = departure[x]
    BY <1>1, <1>7, DepartureEffect
  <2>2. tx[p].row.status \in {"OPEN", "CLOSED"}
    BY <2>1 DEF WorkInv, ScheduleStillAllows
  <2> QED
    BY <2>1, <2>2
<1>8. ASSUME NEW p \in Processes, CommitApproval(p) \/ CommitRelease(p)
      PROVE  departure'[d] = [departure[d] EXCEPT !.bookedSeats = departure'[d].bookedSeats]
  BY <1>1, <1>8, DecisionEffect
<1>9. ASSUME NEW p \in Processes, CommitCreate(p)
      PROVE  departure'[d] = departure[d]
  <2>1. /\ departure[tx[p].input.departure].status = "OPEN"
        /\ \A x \in DOMAIN departure \ {tx[p].input.departure} : departure'[x] = departure[x]
    BY <1>1, <1>9, CreateEffect
  <2> QED
    BY <2>1
<1> QED
  BY <1>1, <1>2, <1>3, <1>4, <1>5, <1>6, <1>7, <1>8, <1>9, StepKinds DEF Commits, Commit

(* No update and no batch revives or relabels a departure that has ended.  *)
THEOREM DepartureStaysEnded == Spec => DepartureEndsOnce
<1>1. WorkInv /\ [Next]_vars =>
        [\A d \in DOMAIN departure :
           departure[d].status \in {"CANCELLED", "COMPLETED"}
             => departure'[d] = [departure[d] EXCEPT !.bookedSeats = departure'[d].bookedSeats]]_vars
  BY EndedStays
<1> QED
  BY <1>1, WorkInductive, PTL DEF Spec, DepartureEndsOnce

-----------------------------------------------------------------------------
(* Locks.                                                                  *)

(* Where a transaction waits decides where those may be that it waits for. *)
LEMMA WaitsForward ==
  ASSUME WorkInv, NEW p \in Processes, NEW s \in Processes, Blocks(s, p)
  PROVE  \/ tx[p].stage = "lockBooking" /\ tx[s].stage \in {"lockDeparture", "commit"}
         \/ tx[p].stage = "lockDeparture" /\ tx[s].stage \in {"insert", "visit", "commit"}
         \/ tx[p].stage = "visit" /\ tx[s].stage \in {"insert", "commit"}
         \/ tx[p].stage = "insert" /\ tx[s].stage = "commit"
<1>1. TypeOK /\ tx[p] # Idle /\ s # p /\ LocksFollowStage(s) /\ LocksFollowStage(p)
  BY DEF WorkInv, IndInv, Blocks, At, AllOps, Idle, CustomerOps, AdminOps, SchedulerOps
<1>2. CASE At(p, AllOps, "lockBooking") /\ tx[p].input.booking \in tx[s].locks
  <2>1. tx[p].op \in {"cancel", "approve", "reject", "expire"}
    BY <1>1, <1>2, UnderWay DEF At, Stages, AllOps, CustomerOps, AdminOps, SchedulerOps
  <2>2. tx[p].input.booking \in BookingIds
    BY <1>1, <2>1, UnderWay DEF Inputs, CancelInput, DecisionInput
  <2> QED
    BY <1>1, <1>2, <2>2 DEF LocksFollowStage, At
<1>3. CASE At(p, AllOps, "lockDeparture") /\ DepartureOf(p) \in tx[s].locks
  <2>1. DepartureOf(p) \in DepartureIds
    <3>1. CASE tx[p].op \in {"create", "update", "withdraw"}
      BY <1>1, <3>1, UnderWay DEF DepartureOf, Inputs, CreateInput, UpdateInput, WithdrawInput
    <3>2. CASE tx[p].op \notin {"create", "update", "withdraw"}
      <4>1. tx[p].op \in ReleaseOps
        BY <1>1, <1>3, <3>2, UnderWay
        DEF At, Stages, AllOps, CustomerOps, AdminOps, SchedulerOps, ReleaseOps
      <4>2. tx[p].input.booking \in DOMAIN booking
        BY <1>3, <4>1 DEF WorkInv, IndInv, BookingIsPending, At
      <4> QED
        BY <1>1, <3>2, <4>2 DEF DepartureOf, TypeOK, Booking
    <3> QED
      BY <3>1, <3>2
  <2> QED
    BY <1>1, <1>3, <2>1 DEF LocksFollowStage, At
<1>4. CASE At(p, AllOps, "visit") /\ tx[p].input.departures \cap tx[s].locks # {}
  <2>1. tx[p].op \in {"close", "complete"}
    BY <1>1, <1>4, UnderWay DEF At, Stages, AllOps, CustomerOps, AdminOps, SchedulerOps
  <2>2. tx[p].input.departures \subseteq DepartureIds
    BY <1>1, <2>1, UnderWay DEF Inputs, BatchInput
  <2>3. tx[s].stage # "visit"
    BY <1>1, <1>4 DEF LocksFollowStage, At
  <2> QED
    BY <1>1, <1>4, <2>2, <2>3 DEF LocksFollowStage, At
<1>5. CASE At(p, AllOps, "insert") /\ HoldsKey(s, tx[p].input.user, tx[p].input.key)
  BY <1>5 DEF HoldsKey, At
<1> QED
  BY <1>2, <1>3, <1>4, <1>5 DEF Blocks

(* Row locks and the unique index never make transactions wait in a        *)
(* circle, for any number of them: of every group, one that is as far as   *)
(* possible waits for nobody in the group.                                 *)
THEOREM NobodyDeadlocks == Spec => []NoDeadlock
<1>1. ASSUME WorkInv, NEW S \in (SUBSET Processes) \ {{}}
      PROVE  \E p \in S : \A s \in S : ~Blocks(s, p)
  <2>1. \A p, s \in S : Blocks(s, p) =>
          \/ tx[p].stage = "lockBooking" /\ tx[s].stage \in {"lockDeparture", "commit"}
          \/ tx[p].stage = "lockDeparture" /\ tx[s].stage \in {"insert", "visit", "commit"}
          \/ tx[p].stage = "visit" /\ tx[s].stage \in {"insert", "commit"}
          \/ tx[p].stage = "insert" /\ tx[s].stage = "commit"
    BY <1>1, WaitsForward
  <2>2. CASE \E p \in S : tx[p].stage \notin {"insert", "visit", "lockDeparture", "lockBooking"}
    BY <2>1, <2>2
  <2>3. CASE /\ \A p \in S : tx[p].stage \in {"insert", "visit", "lockDeparture", "lockBooking"}
             /\ \E p \in S : tx[p].stage = "insert"
    BY <2>1, <2>3
  <2>4. CASE /\ \A p \in S : tx[p].stage \in {"visit", "lockDeparture", "lockBooking"}
             /\ \E p \in S : tx[p].stage = "visit"
    BY <2>1, <2>4
  <2>5. CASE /\ \A p \in S : tx[p].stage \in {"lockDeparture", "lockBooking"}
             /\ \E p \in S : tx[p].stage = "lockDeparture"
    BY <2>1, <2>5
  <2>6. CASE \A p \in S : tx[p].stage = "lockBooking"
    <3>1. S # {}
      BY <1>1
    <3> QED
      BY <2>1, <2>6, <3>1
  <2> QED
    BY <2>2, <2>3, <2>4, <2>5, <2>6
<1>2. WorkInv => NoDeadlock
  BY <1>1 DEF NoDeadlock
<1> QED
  BY <1>2, WorkInductive, PTL

-----------------------------------------------------------------------------
(* Bookings implements SeatReservation.                                    *)

(* The state of the promise: reservation and plan in the instance Promise. *)
Reservations == [b \in DOMAIN booking |-> [departure |-> booking[b].departure,
                                           status    |-> booking[b].status,
                                           quantity  |-> booking[b].quantity]]
Plans == [d \in DOMAIN departure |-> [status   |-> departure[d].status,
                                      schedule |-> departure[d].schedule,
                                      capacity |-> departure[d].capacity]]

(* The seats that the promise counts are those of SeatUnits.               *)
LEMMA SameSeats ==
  ASSUME IndInv, NEW d
  PROVE  Promise!HeldSeats(d) = SeatUnits(d)
<1> DEFINE On == {x \in DOMAIN booking : /\ booking[x].departure = d
                                         /\ booking[x].status \in {"PENDING", "APPROVED"}}
<1>1. \A b \in DOMAIN booking : booking[b].quantity \in 1 .. MaxQuantity
  BY ConstantsAssumption DEF IndInv, TypeOK, Booking
<1>2. Promise!HeldSeats(d) = UNION {{b} \X (1 .. booking[b].quantity) : b \in On}
  BY DEF Promise!HeldSeats
<1>3. SeatUnits(d) = {u \in On \X (1 .. MaxQuantity) : u[2] <= booking[u[1]].quantity}
  BY DEF SeatUnits, ActiveOn, Active
<1>4. On \subseteq DOMAIN booking
  OBVIOUS
<1> HIDE DEF On
<1>5. ASSUME NEW u \in UNION {{b} \X (1 .. booking[b].quantity) : b \in On}
      PROVE  u \in {v \in On \X (1 .. MaxQuantity) : v[2] <= booking[v[1]].quantity}
  <2>1. PICK b \in On : u \in {b} \X (1 .. booking[b].quantity)
    BY <1>5
  <2>2. PICK i \in 1 .. booking[b].quantity : u = <<b, i>>
    BY <2>1
  <2>3. i \in 1 .. MaxQuantity /\ i <= booking[b].quantity
    BY <1>1, <1>4, <2>2, SeatNumbers
  <2> QED
    BY <2>2, <2>3
<1>6. ASSUME NEW u \in {v \in On \X (1 .. MaxQuantity) : v[2] <= booking[v[1]].quantity}
      PROVE  u \in UNION {{b} \X (1 .. booking[b].quantity) : b \in On}
  <2>1. PICK b \in On, i \in 1 .. MaxQuantity : u = <<b, i>>
    BY <1>6
  <2>2. i \in 1 .. booking[b].quantity
    BY <1>1, <1>4, <1>6, <2>1, SeatNumbers
  <2>3. u \in {b} \X (1 .. booking[b].quantity)
    BY <2>1, <2>2
  <2> QED
    BY <2>3
<1>7. Promise!HeldSeats(d) \subseteq SeatUnits(d)
  BY <1>2, <1>3, <1>5
<1>8. SeatUnits(d) \subseteq Promise!HeldSeats(d)
  BY <1>2, <1>3, <1>6
<1> QED
  BY <1>7, <1>8

(* How many there are: SeatReservation has its own instance of FiniteSets. *)
LEMMA HeldIsCardinality ==
  ASSUME IndInv, NEW d
  PROVE  Promise!Held(d) = Cardinality(SeatUnits(d))
<1>1. ASSUME NEW S
      PROVE  Promise!Cardinality(S) = Cardinality(S)
  BY Zenon DEF Promise!Cardinality, Cardinality
<1> QED
  BY <1>1, SameSeats DEF Promise!Held

(* So what the promise counts afresh is what the counter says.             *)
LEMMA HeldIsCounted ==
  ASSUME IndInv, NEW d \in DOMAIN departure
  PROVE  Promise!Held(d) = departure[d].bookedSeats /\ departure[d].bookedSeats \in Nat
<1>1. Promise!Held(d) = Cardinality(SeatUnits(d))
  BY HeldIsCardinality
<1>2. departure[d].bookedSeats = Cardinality(SeatUnits(d))
  BY DEF IndInv, SeatBalance
<1>3. departure[d] \in Departure
  BY DEF IndInv, TypeOK
<1> QED
  BY <1>1, <1>2, <1>3 DEF Departure

(* Nobody on the list, no seat held.                                       *)
LEMMA NobodyHolds ==
  ASSUME IndInv, NEW d, ActiveOn(d) = {}
  PROVE  Promise!Held(d) = 0
<1>1. SeatUnits(d) = {}
  BY DEF SeatUnits
<1> QED
  BY <1>1, HeldIsCardinality, FS_EmptySet

(* CommitCreate reserves seats that are free when it commits.              *)
LEMMA CreateReserves ==
  ASSUME IndInv, NEW p \in Processes, CommitCreate(p)
  PROVE  Promise!Next
<1> DEFINE i == tx[p].input
<1>0. PICK b, d, q : b = i.booking /\ d = i.departure /\ q = i.quantity
  OBVIOUS
<1> DEFINE new == [departure |-> d, status |-> "PENDING", user |-> i.user,
                   key |-> i.key, quantity |-> q, createdAt |-> tx[p].began]
<1>1. /\ i \in CreateInput
      /\ d \in DOMAIN departure
      /\ departure[d].status = "OPEN"
      /\ departure[d].bookedSeats + q <= departure[d].capacity
      /\ DOMAIN departure' = DOMAIN departure
      /\ b \notin DOMAIN booking
      /\ DOMAIN booking' = DOMAIN booking \cup {b}
      /\ booking'[b] = new
      /\ \A x \in DOMAIN booking : booking'[x] = booking[x]
  BY <1>0, CreateEffect
<1>2. new.departure = d /\ new.status = "PENDING" /\ new.quantity = q
  OBVIOUS
<1>3. b \in BookingIds /\ d \in DepartureIds /\ q \in Quantities
  BY <1>0, <1>1 DEF CreateInput
<1>4. \A x \in DOMAIN departure : /\ departure'[x].status = departure[x].status
                                  /\ departure'[x].schedule = departure[x].schedule
                                  /\ departure'[x].capacity = departure[x].capacity
  <2>1. ~CommitWithdraw(p)
    BY DEF CommitCreate, CommitWithdraw, At
  <2>2. TAKE x \in DOMAIN departure
  <2>3. /\ departure'[x].schedule = departure[x].schedule
        /\ departure'[x].capacity = departure[x].capacity
        /\ \/ departure'[x].status = departure[x].status
           \/ CommitWithdraw(p) /\ departure'[x].status = "CANCELLED"
    BY SchedulesStay
  <2> QED
    BY <2>1, <2>3
<1>5. Promise!Held(d) = departure[d].bookedSeats
  BY <1>1, HeldIsCounted
<1> HIDE DEF new
<1>6. Plans' = Plans
  BY <1>1, <1>4 DEF Plans
<1>7. Reservations' = Promise!With(Reservations, b,
                        [departure |-> d, status |-> "PENDING", quantity |-> q])
  BY <1>1, <1>2 DEF Reservations, Promise!With
<1>8. /\ b \notin DOMAIN Reservations /\ d \in DOMAIN Plans
      /\ Plans[d].status = "OPEN" /\ Plans[d].capacity = departure[d].capacity
  BY <1>1 DEF Reservations, Plans
<1>9. Promise!Reserve(b, d, q)
  BY <1>1, <1>5, <1>6, <1>7, <1>8 DEF Promise!Reserve, Reservations, Plans
<1> QED
  BY <1>3, <1>9 DEF Promise!Next

(* A decision of a customer, an administrator or the expiry is one Decide. *)
LEMMA DecisionDecides ==
  ASSUME IndInv, NEW p \in Processes, CommitApproval(p) \/ CommitRelease(p)
  PROVE  Promise!Next
<1>0. PICK b, s : b = tx[p].input.booking /\ s = Target(tx[p].op)
  OBVIOUS
<1>1. /\ tx[p].op \in ReleaseOps \cup {"approve"}
      /\ b \in DOMAIN booking
      /\ booking[b].status = "PENDING"
      /\ DOMAIN booking' = DOMAIN booking
      /\ booking'[b] = [booking[b] EXCEPT !.status = s]
      /\ \A x \in DOMAIN booking \ {b} : booking'[x] = booking[x]
      /\ DOMAIN departure' = DOMAIN departure
      /\ \A x \in DOMAIN departure : /\ departure'[x].status = departure[x].status
                                     /\ departure'[x].schedule = departure[x].schedule
                                     /\ departure'[x].capacity = departure[x].capacity
  BY <1>0, DecisionEffect
<1>2. s \in {"APPROVED", "REJECTED", "CANCELLED"}
  BY <1>0 DEF Target
<1>3. booking[b] \in Booking
  BY <1>1 DEF IndInv, TypeOK
<1>4. /\ booking'[b].departure = booking[b].departure
      /\ booking'[b].quantity = booking[b].quantity
      /\ booking'[b].status = s
  BY <1>1, <1>3 DEF Booking
<1>5. Plans' = Plans
  BY <1>1 DEF Plans
<1>6. Reservations' = [Reservations EXCEPT ![b].status = s]
  BY <1>1, <1>4 DEF Reservations
<1>7. b \in DOMAIN Reservations /\ Reservations[b].status = "PENDING"
  BY <1>1 DEF Reservations
<1>8. Promise!Decide(b, s)
  BY <1>5, <1>6, <1>7 DEF Promise!Decide, Reservations, Plans
<1> QED
  BY <1>2, <1>7, <1>8 DEF Promise!Next, Reservations

(* CommitUpdate replans one departure within the rules of the promise.     *)
LEMMA UpdateReplans ==
  ASSUME WorkInv, NEW p \in Processes, CommitUpdate(p)
  PROVE  Promise!Next
<1> DEFINE i == tx[p].input
<1>0. PICK d : d = i.departure
  OBVIOUS
<1>1. /\ IndInv
      /\ booking' = booking
      /\ tx[p].op = "update" /\ tx[p].stage = "commit"
      /\ d \in DOMAIN departure
      /\ tx[p].row = departure[d] /\ departure[d] \in Departure
      /\ DOMAIN departure' = DOMAIN departure
      /\ \A x \in DOMAIN departure \ {d} : departure'[x] = departure[x]
      /\ i \in UpdateInput
      /\ departure'[d] = Updated(departure[d], i)
  BY <1>0, DepartureEffect DEF WorkInv, CommitUpdate, At
<1>2. departure'[d] \in Departure
  BY <1>1, NextWork DEF WorkInv, IndInv, TypeOK, Next, Commit
<1>3. departure[d].status \in {"OPEN", "CLOSED"}
  BY <1>1 DEF WorkInv, ScheduleStillAllows, At
<1>4. /\ i.status = None \/ i.status \in {"OPEN", "CLOSED"}
      /\ departure'[d].status = IF i.status = None THEN departure[d].status ELSE i.status
  BY <1>1 DEF Updated, Departure, UpdateInput
<1>5. Promise!Held(d) = departure[d].bookedSeats /\ departure[d].bookedSeats \in Nat
  BY <1>1, HeldIsCounted
<1>6. departure[d].bookedSeats <= departure'[d].capacity
  BY <1>0, <1>1 DEF IndInv, CheckStillHolds, At
<1>7. departure'[d].schedule # departure[d].schedule => Promise!Held(d) = 0
  BY <1>1, UpdateStatus, NobodyHolds
<1>8. departure[d].status = "CLOSED" /\ departure'[d].status = "OPEN"
        => departure[d].bookedSeats < departure'[d].capacity
  BY <1>1, <1>4 DEF WorkInv, ScheduleStillAllows, At
<1>9. PICK next : next = [status   |-> departure'[d].status,
                          schedule |-> departure'[d].schedule,
                          capacity |-> departure'[d].capacity]
  OBVIOUS
<1>10. /\ next.status = departure'[d].status
       /\ next.schedule = departure'[d].schedule
       /\ next.capacity = departure'[d].capacity
       /\ next \in Promise!Plan
  BY <1>2, <1>9 DEF Promise!Plan, Departure, DepartureStatus
<1> HIDE DEF i
<1>11. Plans' = [Plans EXCEPT ![d] = next] /\ Reservations' = Reservations
  BY <1>1, <1>9 DEF Plans, Reservations
<1>12. /\ d \in DOMAIN Plans
       /\ Plans[d].status = departure[d].status
       /\ Plans[d].schedule = departure[d].schedule
  BY <1>1 DEF Plans
<1>13. next.status \in {"OPEN", "CLOSED"}
  BY <1>3, <1>4, <1>10
<1>14. Promise!Replan(d, next)
  BY <1>3, <1>5, <1>6, <1>7, <1>8, <1>10, <1>11, <1>12, <1>13
     DEF Promise!Replan, Plans, Reservations
<1> QED
  BY <1>10, <1>12, <1>14 DEF Promise!Next, Plans

(* CommitWithdraw withdraws a departure that nobody holds a seat on.       *)
LEMMA WithdrawWithdraws ==
  ASSUME WorkInv, NEW p \in Processes, CommitWithdraw(p)
  PROVE  Promise!Next
<1>0. PICK d : d = tx[p].input.departure
  OBVIOUS
<1>1. /\ IndInv
      /\ booking' = booking
      /\ tx[p].op = "withdraw" /\ tx[p].stage = "commit"
      /\ d \in DOMAIN departure
      /\ tx[p].row = departure[d] /\ departure[d] \in Departure
      /\ DOMAIN departure' = DOMAIN departure
      /\ \A x \in DOMAIN departure \ {d} : departure'[x] = departure[x]
      /\ departure'[d] = [departure[d] EXCEPT !.status = "CANCELLED"]
  BY <1>0, DepartureEffect DEF WorkInv, CommitWithdraw, At
<1>2. departure[d].status \in {"OPEN", "CLOSED"}
  BY <1>1 DEF WorkInv, ScheduleStillAllows, At
<1>3. ActiveOn(d) = {}
  BY <1>0, <1>1 DEF IndInv, CheckStillHolds, At
<1>4. Promise!Held(d) = 0
  BY <1>1, <1>3, NobodyHolds
<1>5. /\ departure'[d].status = "CANCELLED"
      /\ departure'[d].schedule = departure[d].schedule
      /\ departure'[d].capacity = departure[d].capacity
  BY <1>1 DEF Departure
<1>6. Plans' = [Plans EXCEPT ![d].status = "CANCELLED"] /\ Reservations' = Reservations
  BY <1>1, <1>5 DEF Plans, Reservations
<1>7. d \in DOMAIN Plans /\ Plans[d].status \in {"OPEN", "CLOSED"}
  BY <1>1, <1>2 DEF Plans
<1>8. Promise!Withdraw(d)
  BY <1>4, <1>6, <1>7 DEF Promise!Withdraw, Plans, Reservations
<1> QED
  BY <1>7, <1>8 DEF Promise!Next, Plans

(* The batch of the scheduler advances the departures that are still due,  *)
(* all of them at once.                                                    *)
LEMMA BatchAdvances ==
  ASSUME WorkInv, CommitBatch
  PROVE  Promise!Next
<1> DEFINE job == tx[Scheduler]
<1>0. PICK s, ds :
        /\ s = IF job.op = "close" THEN "CLOSED" ELSE "COMPLETED"
        /\ ds = {x \in DOMAIN departure : /\ x \in job.locks
                                          /\ StillDue(job.op, departure[x], job.began)}
  OBVIOUS
<1>1. /\ booking' = booking
      /\ job.op \in {"close", "complete"}
      /\ DOMAIN departure' = DOMAIN departure
      /\ \A x \in DOMAIN departure :
           IF x \in job.locks /\ StillDue(job.op, departure[x], job.began)
             THEN departure'[x] = [departure[x] EXCEPT !.status = s]
             ELSE departure'[x] = departure[x]
  BY <1>0, BatchEffect DEF WorkInv
<1>2. \A x \in DOMAIN departure : departure[x] \in Departure
  BY DEF WorkInv, IndInv, TypeOK
<1>3. s \in {"CLOSED", "COMPLETED"} /\ (s = "CLOSED" <=> job.op = "close")
  BY <1>0
<1>4. \A x \in ds : departure[x].status \in (IF s = "CLOSED" THEN {"OPEN"} ELSE {"OPEN", "CLOSED"})
  BY <1>0, <1>1, <1>3 DEF StillDue, Due
<1>5. \A x \in ds : /\ departure'[x].status = s
                    /\ departure'[x].schedule = departure[x].schedule
                    /\ departure'[x].capacity = departure[x].capacity
  BY <1>0, <1>1, <1>2 DEF Departure
<1>6. \A x \in DOMAIN departure \ ds : departure'[x] = departure[x]
  BY <1>0, <1>1
<1>7. ds \subseteq DOMAIN departure
  BY <1>0
<1>8. /\ DOMAIN Plans = DOMAIN departure
      /\ \A x \in DOMAIN Plans : Plans[x].status = departure[x].status
  BY DEF Plans
<1>9. /\ Plans' = [x \in DOMAIN Plans |-> IF x \in ds THEN [Plans[x] EXCEPT !.status = s]
                                                     ELSE Plans[x]]
      /\ Reservations' = Reservations
  BY <1>1, <1>5, <1>6, <1>7 DEF Plans, Reservations
<1>10. \A x \in ds : Plans[x].status \in (IF s = "CLOSED" THEN {"OPEN"} ELSE {"OPEN", "CLOSED"})
  BY <1>4, <1>7, <1>8
<1>11. Promise!Advance(ds, s)
  BY <1>9, <1>10 DEF Promise!Advance, Plans, Reservations
<1>12. ds \in SUBSET DOMAIN Plans
  BY <1>7, <1>8
<1> QED
  BY <1>3, <1>11, <1>12 DEF Promise!Next, Plans

(* A departure is offered with the schedule and capacity it was given.     *)
LEMMA OffersOffer ==
  ASSUME Offers
  PROVE  Promise!Next
<1>1. PICK d \in DepartureIds, s \in Schedules, c \in Capacities : OfferDeparture(d, s, c)
  BY DEF Offers
<1> DEFINE row == [status |-> "OPEN", schedule |-> s, capacity |-> c, bookedSeats |-> 0]
<1>2. row.status = "OPEN" /\ row.schedule = s /\ row.capacity = c
  OBVIOUS
<1>3. d \notin DOMAIN departure /\ departure' = With(departure, d, row) /\ booking' = booking
  BY <1>1 DEF OfferDeparture
<1> HIDE DEF row
<1>4. /\ d \notin DOMAIN Plans
      /\ Plans' = Promise!With(Plans, d, [status |-> "OPEN", schedule |-> s, capacity |-> c])
      /\ Reservations' = Reservations
  BY <1>2, <1>3 DEF With, Promise!With, Plans, Reservations
<1>5. Promise!Offer(d, s, c)
  BY <1>4 DEF Promise!Offer, Plans, Reservations
<1> QED
  BY <1>5 DEF Promise!Next

(* Bookings implements SeatReservation: every commit of every transaction, *)
(* every batch and every offer is one step of the promise, and no other    *)
(* step changes what the promise speaks of.                                *)
THEOREM ImplementsPromise == Spec => KeepsPromise
<1>1. Init => Promise!Init
  BY DEF Init, Promise!Init
<1>2. WorkInv /\ [Next]_vars => [Promise!Next]_(Promise!vars)
  <2> SUFFICES ASSUME WorkInv, [Next]_vars
               PROVE  Promise!Next \/ UNCHANGED Promise!vars
    OBVIOUS
  <2>1. IndInv /\ TypeOK
    BY DEF WorkInv, IndInv
  <2>2. CASE Quiet
    BY <2>2 DEF Quiet, tables, Promise!vars
  <2>3. CASE Offers
    BY <2>3, OffersOffer
  <2>4. CASE Commits
    <3>1. PICK p \in Processes : Commit(p)
      BY <2>4 DEF Commits
    <3>2. CASE CommitCreate(p)
      BY <2>1, <3>2, CreateReserves
    <3>3. CASE CommitApproval(p)
      BY <2>1, <3>3, DecisionDecides
    <3>4. CASE CommitRelease(p)
      BY <2>1, <3>4, DecisionDecides
    <3>5. CASE CommitUpdate(p)
      BY <3>5, UpdateReplans
    <3>6. CASE CommitWithdraw(p)
      BY <3>6, WithdrawWithdraws
    <3> QED
      BY <3>1, <3>2, <3>3, <3>4, <3>5, <3>6 DEF Commit
  <2>5. CASE CommitBatch
    BY <2>5, BatchAdvances
  <2> QED
    BY <2>1, <2>2, <2>3, <2>4, <2>5, StepKinds
<1> QED
  BY <1>1, <1>2, WorkInductive, PTL DEF Spec, KeepsPromise, Promise!Spec
=============================================================================

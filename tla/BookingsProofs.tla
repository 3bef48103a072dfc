-------------------------- MODULE BookingsProofs --------------------------
(***************************************************************************)
(* Proofs about Bookings, for every set of requests, ids, users, quantities*)
(* and schedules and every bound of the clock.                             *)
(***************************************************************************)
EXTENDS Bookings, FiniteSetTheorems, TLAPS

-----------------------------------------------------------------------------
(* Counting seats.                                                         *)

(* The seats of one booking are as many as its quantity.                   *)
LEMMA BlockSize ==
  ASSUME NEW b, NEW q \in Nat
  PROVE  IsFiniteSet({b} \X (1 .. q)) /\ Cardinality({b} \X (1 .. q)) = q
<1>1. IsFiniteSet({b}) /\ Cardinality({b}) = 1
  BY FS_Singleton
<1>2. IsFiniteSet(1 .. q) /\ Cardinality(1 .. q) = q
  BY FS_Interval
<1>3. /\ IsFiniteSet({b} \X (1 .. q))
      /\ Cardinality({b} \X (1 .. q)) = Cardinality({b}) * Cardinality(1 .. q)
  BY <1>1, <1>2, FS_Product
<1> QED
  BY <1>1, <1>2, <1>3

(* Adding the seats of a booking that had none adds its quantity.          *)
LEMMA AddBlock ==
  ASSUME NEW S, IsFiniteSet(S), NEW b, NEW q \in Nat,
         S \cap ({b} \X (1 .. q)) = {}
  PROVE  Cardinality(S \cup ({b} \X (1 .. q))) = Cardinality(S) + q
<1>1. Cardinality(S) \in Nat
  BY FS_CardinalityType
<1>2. Cardinality(S \cap ({b} \X (1 .. q))) = 0
  BY FS_EmptySet
<1> DEFINE B == {b} \X (1 .. q)
<1>3. IsFiniteSet(B) /\ Cardinality(B) = q
  BY BlockSize
<1> HIDE DEF B
<1>4. Cardinality(S \cup B) = Cardinality(S) + Cardinality(B) - Cardinality(S \cap B)
  BY <1>3, FS_Union
<1> QED
  BY <1>1, <1>2, <1>3, <1>4 DEF B

(* Taking away the seats of a booking subtracts its quantity.              *)
LEMMA RemoveBlock ==
  ASSUME NEW S, IsFiniteSet(S), NEW b, NEW q \in Nat,
         {b} \X (1 .. q) \subseteq S
  PROVE  Cardinality(S \ ({b} \X (1 .. q))) = Cardinality(S) - q
<1>1. S \cap ({b} \X (1 .. q)) = {b} \X (1 .. q)
  OBVIOUS
<1> DEFINE B == {b} \X (1 .. q)
<1>2. Cardinality(B) = q
  BY BlockSize
<1> HIDE DEF B
<1>3. Cardinality(S \ B) = Cardinality(S) - Cardinality(S \cap B)
  BY FS_Difference
<1> QED
  BY <1>1, <1>2, <1>3 DEF B

(* The seats held on a departure are finitely many.                        *)
LEMMA SeatUnitsFinite ==
  ASSUME TypeOK, NEW d
  PROVE  IsFiniteSet(SeatUnits(d)) /\ Cardinality(SeatUnits(d)) \in Nat
<1>1. ActiveOn(d) \subseteq BookingIds
  BY DEF TypeOK, ActiveOn
<1>2. IsFiniteSet(ActiveOn(d))
  BY <1>1, ConstantsAssumption, FS_Subset
<1>3. IsFiniteSet(1 .. MaxQuantity)
  BY ConstantsAssumption, FS_Interval
<1>4. IsFiniteSet(ActiveOn(d) \X (1 .. MaxQuantity))
  BY <1>2, <1>3, FS_Product
<1>5. IsFiniteSet(SeatUnits(d))
  BY <1>4, FS_Subset DEF SeatUnits
<1> QED
  BY <1>5, FS_CardinalityType

-----------------------------------------------------------------------------
(* Steps of one transaction that write nothing.                            *)

(* The transaction record e may take the place of tx[p]: what must be shown*)
(* of a statement that changes no table.                                   *)
Replaces(p, e) ==
  /\ e = Idle \/ \E op \in AllOps : e \in TxOf(op)
  /\ \A s \in Processes \ {p} : e.locks \cap tx[s].locks = {}
  /\ e.op = "create" =>
       /\ e.input.booking \notin DOMAIN booking
       /\ \A s \in Processes \ {p} :
            tx[s].op = "create" => tx[s].input.booking # e.input.booking

(* A statement that reads, locks, waits or rolls back keeps the invariant  *)
(* if it does so for its own transaction.                                  *)
LEMMA LocalStep ==
  ASSUME IndInv, NEW p \in Processes, NEW e,
         tx' = [tx EXCEPT ![p] = e],
         UNCHANGED tables, now' \in Time, answered' \subseteq Answer,
         Replaces(p, e),
         BookingIsPending(p)', DepartureIsCurrent(p)', CheckStillHolds(p)'
  PROVE  IndInv'
<1>1. tx'[p] = e /\ DOMAIN tx' = Processes
  BY DEF IndInv, TypeOK
<1>2. \A s \in Processes \ {p} : tx'[s] = tx[s]
  BY DEF IndInv, TypeOK
<1>3. TypeOK'
  BY <1>1, <1>2 DEF IndInv, TypeOK, Replaces, tables
<1>4. LocksExclusive'
  BY <1>1, <1>2 DEF IndInv, LocksExclusive, Replaces
<1>5. ASSUME NEW s \in Processes
      PROVE  (BookingIsPending(s) /\ DepartureIsCurrent(s) /\ CheckStillHolds(s) /\ FreshId(s))'
  <2>1. CASE s = p
    BY <2>1, <1>1, <1>2 DEF Replaces, FreshId, tables
  <2>2. CASE s # p
    <3>1. tx'[s] = tx[s]
      BY <2>2, <1>2
    <3>2. BookingIsPending(s)'
      BY <3>1 DEF IndInv, BookingIsPending, At, tables
    <3>3. DepartureIsCurrent(s)'
      BY <3>1 DEF IndInv, DepartureIsCurrent, At, DepartureOf, tables
    <3>4. CheckStillHolds(s)'
      BY <3>1 DEF IndInv, CheckStillHolds, At, Updated, ActiveOn, Active, tables
    <3>5. FreshId(s)'
      BY <3>1, <2>2, <1>1, <1>2 DEF IndInv, FreshId, Replaces, tables
    <3> QED
      BY <3>2, <3>3, <3>4, <3>5
  <2> QED
    BY <2>1, <2>2
<1>6. (BookedDepartureExists /\ SeatBalance /\ WithinCapacity /\ NobodyStranded)'
  BY DEF IndInv, BookedDepartureExists, SeatBalance, WithinCapacity, NobodyStranded,
         SeatUnits, ActiveOn, Active, tables
<1> QED
  BY <1>3, <1>4, <1>5, <1>6 DEF IndInv

(* COMMIT or ROLLBACK of a transaction that writes nothing.                *)
LEMMA EndStep ==
  ASSUME IndInv, NEW p \in Processes, End(p),
         UNCHANGED <<now, tables>>, answered' \subseteq Answer
  PROVE  IndInv'
<1>1. tx'[p] = Idle
  BY DEF IndInv, TypeOK, End
<1>2. Replaces(p, Idle)
  BY DEF Replaces, Idle
<1>3. now' \in Time
  BY DEF IndInv, TypeOK
<1>4. BookingIsPending(p)' /\ DepartureIsCurrent(p)' /\ CheckStillHolds(p)'
  BY <1>1 DEF BookingIsPending, DepartureIsCurrent, CheckStillHolds, At, Idle
<1> QED
  BY <1>1, <1>2, <1>3, <1>4, LocalStep DEF End, tables

(* A request that is refused, or whose session times out, changes no table. *)
LEMMA RollbackStep ==
  ASSUME IndInv, NEW p \in Processes, Rollback(p)
  PROVE  IndInv'
BY EndStep DEF Rollback, IndInv, TypeOK, tables

(* A transaction begins and holds nothing yet.                             *)
LEMMA BeginStep ==
  ASSUME IndInv, NEW p \in Processes, NEW op \in AllOps, NEW input \in Inputs(op),
         NEW stage \in Stages(op), NEW t \in Time,
         stage \in {"lockBooking", "lockDeparture", "visit"},
         stage = "lockDeparture" => op \notin ReleaseOps,
         Begin(p, op, input, stage, t),
         UNCHANGED <<now, tables, answered>>,
         op = "create" =>
           /\ input.booking \notin DOMAIN booking
           /\ \A s \in Processes : tx[s].op = "create" => tx[s].input.booking # input.booking
  PROVE  IndInv'
<1> DEFINE e == [op |-> op, stage |-> stage, input |-> input,
                 row |-> None, locks |-> {}, began |-> t]
<1>1. tx' = [tx EXCEPT ![p] = e] /\ tx'[p] = e
  BY DEF IndInv, TypeOK, Begin
<1>2. e \in TxOf(op)
  BY DEF TxOf
<1>3. Replaces(p, e)
  BY <1>2 DEF Replaces
<1>4. now' \in Time /\ answered' \subseteq Answer
  BY DEF IndInv, TypeOK
<1>5. BookingIsPending(p)' /\ DepartureIsCurrent(p)' /\ CheckStillHolds(p)'
  BY <1>1 DEF BookingIsPending, DepartureIsCurrent, CheckStillHolds, At
<1> QED
  BY <1>1, <1>3, <1>4, <1>5, LocalStep DEF tables

(* A request of any kind begins.                                           *)
LEMMA SubmitStep ==
  ASSUME IndInv, NEW p \in Processes, NEW op \in AllOps \ {"close", "complete"},
         NEW input \in Inputs(op), Submit(p, op, input),
         op = "create" =>
           /\ input.booking \notin DOMAIN booking
           /\ \A s \in Processes : tx[s].op = "create" => tx[s].input.booking # input.booking
  PROVE  IndInv'
<1>1. After(op, "begin") \in Stages(op)
  BY DEF After, Stages, AllOps, CustomerOps, AdminOps, SchedulerOps
<1>2. After(op, "begin") = "lockDeparture" => op \notin ReleaseOps
  BY DEF After, ReleaseOps
<1>3. After(op, "begin") \in {"lockBooking", "lockDeparture", "visit"}
  BY DEF After
<1>4. (IF op = "create" THEN now ELSE 0) \in Time
  BY ConstantsAssumption DEF IndInv, TypeOK, Time
<1> QED
  BY <1>1, <1>2, <1>3, <1>4, BeginStep DEF Submit

(* What the type says of a transaction that is under way.                  *)
LEMMA UnderWay ==
  ASSUME TypeOK, NEW p \in Processes, tx[p] # Idle
  PROVE  /\ tx[p].op \in AllOps
         /\ tx[p] \in TxOf(tx[p].op)
         /\ tx[p].stage \in Stages(tx[p].op)
         /\ tx[p].input \in Inputs(tx[p].op)
         /\ tx[p].locks \subseteq BookingIds \cup DepartureIds
         /\ tx[p].row \in Departure \cup {None}
         /\ tx[p].began \in Time
BY DEF TypeOK, TxOf

(* The record that Lock leaves.                                            *)
LEMMA AfterLock ==
  ASSUME TypeOK, NEW p \in Processes, tx[p] # Idle,
         NEW id \in BookingIds \cup DepartureIds, NEW row \in Departure \cup {None},
         After(tx[p].op, tx[p].stage) \in Stages(tx[p].op), Lock(p, id, row)
  PROVE  /\ tx'[p] \in TxOf(tx[p].op)
         /\ tx'[p].op = tx[p].op /\ tx'[p].input = tx[p].input
         /\ tx'[p].stage = After(tx[p].op, tx[p].stage)
         /\ tx'[p].locks = tx[p].locks \cup {id} /\ tx'[p].row = row
         /\ tx' = [tx EXCEPT ![p] = tx'[p]]
<1>1. tx[p] \in TxOf(tx[p].op)
  BY UnderWay
<1>2. tx'[p] = [tx[p] EXCEPT !.stage = After(tx[p].op, tx[p].stage),
                            !.locks = tx[p].locks \cup {id},
                            !.row = row]
  BY DEF TypeOK, Lock
<1>3. tx' = [tx EXCEPT ![p] = tx'[p]]
  BY <1>2 DEF Lock
<1>4. tx'[p] \in TxOf(tx[p].op)
  <2>1. tx'[p] = [op |-> tx[p].op, stage |-> After(tx[p].op, tx[p].stage),
                  input |-> tx[p].input, row |-> row,
                  locks |-> tx[p].locks \cup {id}, began |-> tx[p].began]
    BY <1>1, <1>2 DEF TxOf
  <2>2. /\ tx[p].input \in Inputs(tx[p].op) /\ tx[p].began \in Time
        /\ tx[p].locks \cup {id} \subseteq BookingIds \cup DepartureIds
    BY UnderWay
  <2> QED
    BY <2>1, <2>2 DEF TxOf
<1>5. /\ tx'[p].op = tx[p].op /\ tx'[p].input = tx[p].input
      /\ tx'[p].stage = After(tx[p].op, tx[p].stage)
      /\ tx'[p].locks = tx[p].locks \cup {id} /\ tx'[p].row = row
  BY <1>1, <1>2 DEF TxOf
<1> QED
  BY <1>3, <1>4, <1>5

(* Locking a row that is free keeps the invariant if the checks that follow*)
(* the lock have passed.                                                   *)
LEMMA LockStep ==
  ASSUME IndInv, NEW p \in Processes, tx[p] # Idle,
         NEW id \in BookingIds \cup DepartureIds, NEW row \in Departure \cup {None},
         After(tx[p].op, tx[p].stage) \in Stages(tx[p].op),
         Free(p, id), Lock(p, id, row),
         BookingIsPending(p)', DepartureIsCurrent(p)', CheckStillHolds(p)'
  PROVE  IndInv'
<1>1. TypeOK
  BY DEF IndInv
<1>2. /\ tx'[p] \in TxOf(tx[p].op)
      /\ tx'[p].op = tx[p].op /\ tx'[p].input = tx[p].input
      /\ tx'[p].locks = tx[p].locks \cup {id}
      /\ tx' = [tx EXCEPT ![p] = tx'[p]]
  BY <1>1, AfterLock
<1>3. \A s \in Processes \ {p} : tx'[p].locks \cap tx[s].locks = {}
  BY <1>2 DEF IndInv, LocksExclusive, Free
<1>4. Replaces(p, tx'[p])
  BY <1>1, <1>2, <1>3, UnderWay DEF Replaces, IndInv, FreshId
<1>5. now' \in Time /\ answered' \subseteq Answer
  BY DEF IndInv, TypeOK, Lock
<1> QED
  BY <1>2, <1>4, <1>5, LocalStep DEF Lock, tables

(* LockBooking                                                             *)
LEMMA LockBookingStep ==
  ASSUME IndInv, NEW p \in Processes, LockBooking(p)
  PROVE  IndInv'
<1> DEFINE b == tx[p].input.booking
           stage == After(tx[p].op, tx[p].stage)
<1>1. TypeOK /\ tx[p].stage = "lockBooking" /\ tx[p] # Idle
  BY DEF IndInv, LockBooking, At, Idle
<1>2. tx[p].op \in {"cancel", "approve", "reject", "expire"}
  BY <1>1, UnderWay DEF Stages, AllOps, CustomerOps, AdminOps, SchedulerOps
<1>3. stage \in Stages(tx[p].op) /\ stage \in {"lockDeparture", "commit"}
  BY <1>1, <1>2 DEF After, Stages
<1>4. stage = "commit" => tx[p].op = "approve"
  BY <1>1, <1>2 DEF After
<1>5. b \in DOMAIN booking /\ b \in BookingIds /\ booking[b].status = "PENDING"
  BY <1>1 DEF LockBooking, Transitionable, TypeOK
<1>6. tx[p].row \in Departure \cup {None}
  BY <1>1, UnderWay
<1>7. /\ tx'[p].op = tx[p].op /\ tx'[p].input = tx[p].input
      /\ tx'[p].stage = stage /\ tx'[p].locks = tx[p].locks \cup {b}
  BY <1>1, <1>3, <1>5, <1>6, AfterLock DEF LockBooking
<1>8. BookingIsPending(p)'
  BY <1>5, <1>7 DEF BookingIsPending, LockBooking, Lock, tables
<1>9. DepartureIsCurrent(p)' /\ CheckStillHolds(p)'
  BY <1>2, <1>3, <1>4, <1>7 DEF DepartureIsCurrent, CheckStillHolds, At, ReleaseOps
<1> QED
  BY <1>1, <1>3, <1>5, <1>6, <1>8, <1>9, LockStep DEF LockBooking

(* LockDeparture: what the service checked of the row is what the commit   *)
(* may rely on.                                                            *)
LEMMA LockDepartureStep ==
  ASSUME IndInv, NEW p \in Processes, LockDeparture(p)
  PROVE  IndInv'
<1> DEFINE d == DepartureOf(p)
           stage == After(tx[p].op, tx[p].stage)
<1>1. TypeOK /\ tx[p].stage = "lockDeparture" /\ tx[p] # Idle
  BY DEF IndInv, LockDeparture, At, Idle
<1>2. /\ DepartureAccepts(p, d)
      /\ d \in DOMAIN departure /\ d \in DepartureIds
      /\ tx[p].op \in {"create", "update", "withdraw"} \cup ReleaseOps
  BY <1>1 DEF LockDeparture, DepartureAccepts, TypeOK
<1>3. stage = IF tx[p].op = "create" THEN "insert" ELSE "commit"
  BY <1>1 DEF After
<1>4. stage \in Stages(tx[p].op)
  BY <1>2, <1>3 DEF Stages, ReleaseOps
<1>5. departure[d] \in Departure
  BY <1>1, <1>2 DEF TypeOK
<1>6. /\ tx'[p].op = tx[p].op /\ tx'[p].input = tx[p].input
      /\ tx'[p].stage = stage /\ tx'[p].locks = tx[p].locks \cup {d}
      /\ tx'[p].row = departure[d]
  BY <1>1, <1>2, <1>4, <1>5, AfterLock DEF LockDeparture
<1>7. UNCHANGED <<departure, booking>>
  BY DEF LockDeparture, Lock, tables
<1>8. BookingIsPending(p)'
  <2>1. CASE tx[p].op \in ReleaseOps
    <3>1. BookingIsPending(p)
      BY DEF IndInv
    <3> QED
      BY <2>1, <3>1, <1>1, <1>6, <1>7 DEF BookingIsPending, At
  <2>2. CASE tx[p].op \in {"create", "update", "withdraw"}
    BY <2>2, <1>6 DEF BookingIsPending, At, ReleaseOps
  <2> QED
    BY <2>1, <2>2, <1>2
<1>9. DepartureIsCurrent(p)'
  <2>1. DepartureOf(p)' = d
    BY <1>6, <1>7 DEF DepartureOf
  <2> QED
    BY <2>1, <1>2, <1>6, <1>7 DEF DepartureIsCurrent
<1>10. CheckStillHolds(p)'
  <2>1. CASE tx[p].op = "create"
    BY <2>1, <1>2, <1>3, <1>6 DEF CheckStillHolds, At, DepartureAccepts, Bookable, ReleaseOps
  <2>2. CASE tx[p].op \in ReleaseOps
    BY <2>2, <1>2, <1>3, <1>6, <1>7 DEF CheckStillHolds, At, DepartureAccepts, ReleaseOps
  <2>3. CASE tx[p].op = "update"
    BY <2>3, <1>2, <1>3, <1>6
    DEF CheckStillHolds, At, DepartureAccepts, CanUpdate, ReleaseOps
  <2>4. CASE tx[p].op = "withdraw"
    <3>1. d = tx[p].input.departure
      BY <2>4 DEF DepartureOf
    <3>2. ActiveOn(d) = {}
      BY <2>4, <1>2 DEF DepartureAccepts, CanWithdraw, HasReservations, ReleaseOps
    <3>3. {b \in DOMAIN booking : /\ booking[b].departure = tx[p].input.departure
                                  /\ booking[b].status \in {"PENDING", "APPROVED"}} = {}
      BY <3>1, <3>2 DEF ActiveOn, Active
    <3> QED
      BY <2>4, <3>3, <1>6, <1>7 DEF CheckStillHolds, At, ReleaseOps, ActiveOn, Active
  <2> QED
    BY <2>1, <2>2, <2>3, <2>4, <1>2
<1> QED
  BY <1>1, <1>2, <1>4, <1>5, <1>8, <1>9, <1>10, LockStep DEF LockDeparture

(* InsertBooking: the row lock and the copy of the departure stay.         *)
LEMMA InsertBookingStep ==
  ASSUME IndInv, NEW p \in Processes, InsertBooking(p)
  PROVE  IndInv'
<1>1. TypeOK /\ tx[p].stage = "insert" /\ tx[p].op = "create" /\ tx[p] # Idle
  BY DEF IndInv, InsertBooking, At, Idle
<1>2. tx' = [tx EXCEPT ![p] = [tx[p] EXCEPT !.stage = "commit"]]
  BY DEF InsertBooking
<1>3. tx'[p] = [tx[p] EXCEPT !.stage = "commit"]
  BY <1>1, <1>2 DEF TypeOK
<1>4. tx[p] \in TxOf("create")
  BY <1>1, UnderWay
<1>5. /\ tx'[p].op = "create" /\ tx'[p].input = tx[p].input /\ tx'[p].row = tx[p].row
      /\ tx'[p].stage = "commit" /\ tx'[p].locks = tx[p].locks
  BY <1>1, <1>3, <1>4 DEF TxOf
<1>6. tx'[p] \in TxOf("create")
  BY <1>3, <1>4 DEF TxOf, Stages
<1>7. Replaces(p, tx'[p])
  BY <1>1, <1>5, <1>6 DEF Replaces, IndInv, LocksExclusive, FreshId, AllOps, CustomerOps
<1>8. UNCHANGED tables /\ now' \in Time /\ answered' \subseteq Answer
  BY DEF InsertBooking, IndInv, TypeOK
<1>9. BookingIsPending(p)'
  BY <1>5 DEF BookingIsPending, At, ReleaseOps
<1>10. DepartureIsCurrent(p)'
  BY <1>1, <1>5, <1>8 DEF IndInv, DepartureIsCurrent, At, DepartureOf, tables
<1>11. CheckStillHolds(p)'
  BY <1>1, <1>5 DEF IndInv, CheckStillHolds, At, ReleaseOps
<1> QED
  BY <1>2, <1>3, <1>7, <1>8, <1>9, <1>10, <1>11, LocalStep

(* UniqueViolation: the transaction is rolled back, the request goes on.   *)
LEMMA UniqueViolationStep ==
  ASSUME IndInv, NEW p \in Processes, UniqueViolation(p)
  PROVE  IndInv'
<1>1. TypeOK /\ tx[p].stage = "insert" /\ tx[p].op = "create" /\ tx[p] # Idle
  BY DEF IndInv, UniqueViolation, At, Idle
<1> DEFINE e == [tx[p] EXCEPT !.stage = "reread", !.locks = {}, !.row = None]
<1>2. tx' = [tx EXCEPT ![p] = e] /\ tx'[p] = e
  BY <1>1 DEF TypeOK, UniqueViolation
<1>3. tx[p] \in TxOf("create")
  BY <1>1, UnderWay
<1>4. /\ e.op = "create" /\ e.input = tx[p].input
      /\ e.stage = "reread" /\ e.locks = {}
  BY <1>1, <1>3 DEF TxOf
<1>5. e \in TxOf("create")
  BY <1>3 DEF TxOf, Stages
<1> HIDE DEF e
<1>6. Replaces(p, e)
  BY <1>1, <1>4, <1>5 DEF Replaces, IndInv, FreshId, AllOps, CustomerOps
<1>7. UNCHANGED tables /\ now' \in Time /\ answered' \subseteq Answer
  BY DEF UniqueViolation, IndInv, TypeOK
<1>8. BookingIsPending(p)' /\ DepartureIsCurrent(p)' /\ CheckStillHolds(p)'
  BY <1>2, <1>4 DEF BookingIsPending, DepartureIsCurrent, CheckStillHolds, At
<1> QED
  BY <1>2, <1>6, <1>7, <1>8, LocalStep

(* VisitRow: the UPDATE of a batch locks one more row.                     *)
LEMMA VisitRowStep ==
  ASSUME IndInv, NEW d, VisitRow(d)
  PROVE  IndInv'
<1> DEFINE p == Scheduler
           rest == tx[p].input.departures \ {d}
           stage == IF rest = {} THEN "commit" ELSE "visit"
           input == [departures |-> rest]
           locks == tx[p].locks \cup {d}
<1>1. TypeOK /\ tx[p] # Idle /\ tx[p].op \in {"close", "complete"} /\ p \in Processes
  BY DEF IndInv, VisitRow, At, Idle, Processes
<1>2. tx'[p] = [tx[p] EXCEPT !.input = input, !.locks = locks, !.stage = stage]
  BY <1>1 DEF TypeOK, VisitRow
<1>3. tx' = [tx EXCEPT ![p] = tx'[p]]
  BY <1>2 DEF VisitRow
<1>4. tx[p] \in TxOf(tx[p].op) /\ Inputs(tx[p].op) = BatchInput
  BY <1>1, UnderWay DEF Inputs
<1>5. d \in DepartureIds /\ input \in BatchInput
  BY <1>4 DEF TxOf, BatchInput, VisitRow
<1>6. stage \in Stages(tx[p].op)
  BY <1>1 DEF Stages
<1>7. /\ tx[p].row \in Departure \cup {None} /\ tx[p].began \in Time
      /\ locks \subseteq BookingIds \cup DepartureIds
  BY <1>1, <1>5, UnderWay
<1> HIDE DEF p, stage, input, locks
<1>8. tx'[p] = [op |-> tx[p].op, stage |-> stage, input |-> input, row |-> tx[p].row,
                locks |-> locks, began |-> tx[p].began]
  BY <1>2, <1>4 DEF TxOf
<1>9. tx'[p] \in TxOf(tx[p].op) /\ tx'[p].op = tx[p].op /\ tx'[p].locks = locks
  BY <1>4, <1>5, <1>6, <1>7, <1>8 DEF TxOf
<1>10. \A s \in Processes \ {p} : locks \cap tx[s].locks = {}
  BY <1>1 DEF VisitRow, Free, IndInv, LocksExclusive, locks, p
<1>11. Replaces(p, tx'[p])
  BY <1>1, <1>9, <1>10 DEF Replaces, AllOps, SchedulerOps
<1>12. UNCHANGED tables /\ now' \in Time /\ answered' \subseteq Answer
  BY DEF VisitRow, IndInv, TypeOK
<1>13. BookingIsPending(p)' /\ DepartureIsCurrent(p)' /\ CheckStillHolds(p)'
  BY <1>1, <1>9 DEF BookingIsPending, DepartureIsCurrent, CheckStillHolds, At, ReleaseOps, p
<1> QED
  BY <1>1, <1>3, <1>11, <1>12, <1>13, LocalStep

-----------------------------------------------------------------------------
(* Commits.                                                                *)

(* What the COMMIT of p may write: rows it has locked, and the new booking *)
(* of a create on a departure it has locked.  It revives no booking.       *)
WritesOwnRows(p) ==
  /\ \A d \in DOMAIN departure :
       /\ d \in DOMAIN departure'
       /\ d \notin tx[p].locks => departure'[d] = departure[d]
  /\ \A b \in DOMAIN booking :
       /\ b \in DOMAIN booking'
       /\ booking'[b].departure = booking[b].departure
       /\ booking'[b].quantity = booking[b].quantity
       /\ b \notin tx[p].locks => booking'[b] = booking[b]
       /\ booking'[b].status \in {"PENDING", "APPROVED"}
            => booking[b].status \in {"PENDING", "APPROVED"}
  /\ \A b \in DOMAIN booking' \ DOMAIN booking :
       /\ tx[p].op = "create"
       /\ b = tx[p].input.booking
       /\ booking'[b].departure \in tx[p].locks

(* A commit that writes only its own rows leaves the other transactions    *)
(* what they rely on.                                                      *)
LEMMA OthersKeep ==
  ASSUME IndInv, NEW p \in Processes, End(p), WritesOwnRows(p)
  PROVE  /\ LocksExclusive'
         /\ \A s \in Processes : /\ BookingIsPending(s)'
                                 /\ DepartureIsCurrent(s)'
                                 /\ CheckStillHolds(s)'
                                 /\ FreshId(s)'
<1>1. tx'[p] = Idle /\ \A s \in Processes \ {p} : tx'[s] = tx[s]
  BY DEF IndInv, TypeOK, End
<1>2. LocksExclusive'
  BY <1>1 DEF IndInv, LocksExclusive, Idle
<1>3. ASSUME NEW s \in Processes
      PROVE  BookingIsPending(s)' /\ DepartureIsCurrent(s)' /\ CheckStillHolds(s)' /\ FreshId(s)'
  <2>1. CASE s = p
    BY <2>1, <1>1
    DEF BookingIsPending, DepartureIsCurrent, CheckStillHolds, FreshId, At, Idle
  <2>2. CASE s # p
    <3>1. tx'[s] = tx[s] /\ tx[s].locks \cap tx[p].locks = {}
      BY <2>2, <1>1 DEF IndInv, LocksExclusive
    <3>2. BookingIsPending(s) /\ DepartureIsCurrent(s) /\ CheckStillHolds(s) /\ FreshId(s)
      BY DEF IndInv
    <3>3. BookingIsPending(s)'
      BY <3>1, <3>2 DEF BookingIsPending, At, WritesOwnRows
    <3>4. DepartureIsCurrent(s)'
      <4>1. CASE tx[s].op \in {"create", "update", "withdraw"}
        <5>1. DepartureOf(s)' = DepartureOf(s)
          BY <4>1, <3>1 DEF DepartureOf
        <5> QED
          BY <5>1, <3>1, <3>2 DEF DepartureIsCurrent, At, WritesOwnRows
      <4>2. CASE tx[s].op \in ReleaseOps /\ tx[s].stage = "commit"
        <5>1. tx[s].input.booking \in DOMAIN booking
          BY <4>2, <3>2 DEF BookingIsPending, At
        <5>2. DepartureOf(s)' = DepartureOf(s)
          BY <4>2, <5>1, <3>1 DEF DepartureOf, WritesOwnRows, ReleaseOps
        <5> QED
          BY <5>2, <3>1, <3>2 DEF DepartureIsCurrent, At, WritesOwnRows
      <4> QED
        BY <4>1, <4>2, <3>1 DEF DepartureIsCurrent, At
    <3>5. CheckStillHolds(s)'
      <4>1. CASE tx[s].op \in {"create", "update"}
        BY <4>1, <3>1, <3>2 DEF CheckStillHolds, At, ReleaseOps, Updated
      <4>2. CASE tx[s].op \in ReleaseOps /\ tx[s].stage = "commit"
        <5>1. tx[s].input.booking \in DOMAIN booking
          BY <4>2, <3>2 DEF BookingIsPending, At
        <5> QED
          BY <4>2, <5>1, <3>1, <3>2 DEF CheckStillHolds, At, ReleaseOps, WritesOwnRows
      <4>3. CASE tx[s].op = "withdraw" /\ tx[s].stage = "commit"
        <5> DEFINE d == tx[s].input.departure
        <5>1. d \in tx[s].locks
          BY <4>3, <3>2 DEF DepartureIsCurrent, At, DepartureOf
        <5>2. ActiveOn(d) = {}
          BY <4>3, <3>2 DEF CheckStillHolds, At
        <5>3. {b \in DOMAIN booking' : /\ booking'[b].departure = d
                                       /\ booking'[b].status \in {"PENDING", "APPROVED"}} = {}
          BY <5>1, <5>2, <3>1 DEF ActiveOn, Active, WritesOwnRows
        <5> QED
          BY <4>3, <5>3, <3>1 DEF CheckStillHolds, At, ReleaseOps, ActiveOn, Active
      <4> QED
        BY <4>1, <4>2, <4>3, <3>1 DEF CheckStillHolds, At, ReleaseOps
    <3>6. FreshId(s)'
      BY <2>2, <1>1, <3>1, <3>2 DEF FreshId, WritesOwnRows, Idle
    <3> QED
      BY <3>3, <3>4, <3>5, <3>6
  <2> QED
    BY <2>1, <2>2
<1> QED
  BY <1>2, <1>3

(* Seats are counted in natural numbers.                                   *)
LEMMA SeatNumbers == Capacities \subseteq Nat /\ MaxQuantity \in Nat
BY ConstantsAssumption

(* What every commit may rely on: the departure it writes is locked and    *)
(* the row it read is the row the table holds.                             *)
LEMMA CommitKnows ==
  ASSUME IndInv, NEW p \in Processes,
         At(p, {"create", "update", "withdraw"} \cup ReleaseOps, "commit")
  PROVE  LET d == DepartureOf(p) IN
           /\ d \in DOMAIN departure /\ d \in DepartureIds
           /\ d \in tx[p].locks
           /\ tx[p].row = departure[d]
           /\ departure[d] \in Departure
BY DEF IndInv, TypeOK, DepartureIsCurrent

(* A commit that leaves the bookings alone and changes one departure that  *)
(* it has locked to a row that fits.                                       *)
LEMMA SaveDepartureStep ==
  ASSUME IndInv, NEW p \in Processes, End(p), UNCHANGED <<now, booking, history, outbox, answered>>,
         NEW d \in DOMAIN departure, d \in tx[p].locks, NEW row \in Departure,
         departure' = [departure EXCEPT ![d] = row],
         row.bookedSeats = departure[d].bookedSeats, row.bookedSeats <= row.capacity,
         row.status = "CANCELLED" => ActiveOn(d) = {}
  PROVE  IndInv'
<1>1. DOMAIN departure' = DOMAIN departure
      /\ \A x \in DOMAIN departure : departure'[x] = IF x = d THEN row ELSE departure[x]
  BY DEF IndInv, TypeOK
<1>2. WritesOwnRows(p)
  BY <1>1 DEF WritesOwnRows
<1>3. TypeOK'
  BY <1>1 DEF IndInv, TypeOK, End
<1>4. \A x : SeatUnits(x)' = SeatUnits(x) /\ ActiveOn(x)' = ActiveOn(x)
  BY DEF SeatUnits, ActiveOn, Active
<1>5. SeatBalance'
  <2> SUFFICES ASSUME NEW x \in DOMAIN departure'
               PROVE  departure'[x].bookedSeats = Cardinality(SeatUnits(x))'
    BY DEF SeatBalance
  <2> QED
    BY <1>1, <1>4 DEF IndInv, SeatBalance
<1>6. WithinCapacity'
  BY <1>1 DEF IndInv, WithinCapacity
<1>7. NobodyStranded'
  <2> SUFFICES ASSUME NEW x \in DOMAIN departure', departure'[x].status = "CANCELLED"
               PROVE  ActiveOn(x)' = {}
    BY DEF NobodyStranded
  <2> QED
    BY <1>1, <1>4 DEF IndInv, NobodyStranded
<1>8. BookedDepartureExists'
  BY <1>1 DEF IndInv, BookedDepartureExists
<1> QED
  BY <1>2, <1>3, <1>5, <1>6, <1>7, <1>8, OthersKeep DEF IndInv

(* CommitWithdraw: nobody holds a seat, because the check still holds.     *)
LEMMA CommitWithdrawStep ==
  ASSUME IndInv, NEW p \in Processes, CommitWithdraw(p)
  PROVE  IndInv'
<1> DEFINE d == tx[p].input.departure
           row == [departure[d] EXCEPT !.status = "CANCELLED"]
<1>1. tx[p].op = "withdraw" /\ tx[p].stage = "commit"
  BY DEF CommitWithdraw, At
<1>2. DepartureOf(p) = d
  BY <1>1 DEF DepartureOf
<1>3. d \in DOMAIN departure /\ d \in tx[p].locks /\ departure[d] \in Departure
  BY <1>1, <1>2, CommitKnows DEF At
<1>4. /\ row \in Departure /\ row.bookedSeats = departure[d].bookedSeats
      /\ row.capacity = departure[d].capacity
  BY <1>3 DEF Departure, DepartureStatus
<1>5. departure' = [departure EXCEPT ![d] = row]
  BY DEF CommitWithdraw
<1>6. departure[d].bookedSeats <= departure[d].capacity
  BY <1>3 DEF IndInv, WithinCapacity
<1>7. ActiveOn(d) = {}
  BY <1>1 DEF IndInv, CheckStillHolds, At
<1> HIDE DEF row, d
<1> QED
  BY <1>3, <1>4, <1>5, <1>6, <1>7, SaveDepartureStep DEF CommitWithdraw

(* CommitUpdate: the row that is saved is the locked one with the fields   *)
(* that were sent, and holds the seats that are booked.                    *)
LEMMA CommitUpdateStep ==
  ASSUME IndInv, NEW p \in Processes, CommitUpdate(p)
  PROVE  IndInv'
<1> DEFINE d == tx[p].input.departure
           row == Updated(tx[p].row, tx[p].input)
<1>1. TypeOK /\ tx[p].op = "update" /\ tx[p].stage = "commit" /\ tx[p] # Idle
  BY DEF IndInv, CommitUpdate, At, Idle
<1>2. DepartureOf(p) = d
  BY <1>1 DEF DepartureOf
<1>3. /\ d \in DOMAIN departure /\ d \in tx[p].locks
      /\ tx[p].row = departure[d] /\ departure[d] \in Departure
  BY <1>1, <1>2, CommitKnows DEF At
<1>4. tx[p].input \in UpdateInput
  BY <1>1, UnderWay DEF Inputs
<1>5. row \in Departure /\ row.bookedSeats = departure[d].bookedSeats
  BY <1>3, <1>4 DEF Updated, Departure, DepartureStatus, UpdateInput
<1>6. departure[d].bookedSeats <= row.capacity /\ departure[d].status # "CANCELLED"
  BY <1>1, <1>3 DEF IndInv, CheckStillHolds, At
<1>7. row.status # "CANCELLED"
  BY <1>3, <1>4, <1>6 DEF Updated, Departure, UpdateInput, DepartureStatus
<1>8. departure' = [departure EXCEPT ![d] = row]
  BY DEF CommitUpdate
<1> HIDE DEF row, d
<1> QED
  BY <1>3, <1>5, <1>6, <1>7, <1>8, SaveDepartureStep DEF CommitUpdate

(* What SaveTransition leaves: a decided booking with its quantity and     *)
(* departure, the other bookings as they were, and rows of the right type. *)
LEMMA Transition ==
  ASSUME IndInv, NEW p \in Processes,
         At(p, ReleaseOps \cup {"approve"}, "commit"), SaveTransition(p)
  PROVE  LET b == tx[p].input.booking IN
           /\ b \in DOMAIN booking /\ b \in tx[p].locks
           /\ booking[b].status = "PENDING"
           /\ booking[b].quantity \in 1 .. MaxQuantity
           /\ booking[b].departure \in DOMAIN departure
           /\ DOMAIN booking' = DOMAIN booking
           /\ \A x \in DOMAIN booking \ {b} : booking'[x] = booking[x]
           /\ booking'[b].departure = booking[b].departure
           /\ booking'[b].quantity = booking[b].quantity
           /\ booking'[b].status = Target(tx[p].op)
           /\ booking' \in [DOMAIN booking -> Booking]
           /\ history' \in [DOMAIN booking -> Seq(HistoryRow)]
           /\ outbox' \subseteq OutboxRow
<1> DEFINE b == tx[p].input.booking
           s == Target(tx[p].op)
           h == [from |-> "PENDING", to |-> s, actor |-> Actor(tx[p].op)]
<1>1. TypeOK /\ tx[p].op \in ReleaseOps \cup {"approve"}
  BY DEF IndInv, At
<1>2. b \in DOMAIN booking /\ b \in tx[p].locks /\ booking[b].status = "PENDING"
  BY DEF IndInv, BookingIsPending, At
<1>3. booking[b] \in Booking /\ b \in BookingIds
  BY <1>1, <1>2 DEF TypeOK
<1>4. booking[b].quantity \in 1 .. MaxQuantity
  BY <1>3, ConstantsAssumption DEF Booking
<1>5. booking[b].departure \in DOMAIN departure
  BY <1>2 DEF IndInv, BookedDepartureExists
<1>6. s \in BookingStatus
  BY DEF Target, BookingStatus
<1>7. h \in HistoryRow
  BY <1>6 DEF HistoryRow, Actor, BookingStatus
<1>8. /\ booking' = [booking EXCEPT ![b].status = s]
      /\ history' = [history EXCEPT ![b] = Append(@, h)]
      /\ outbox' = outbox \cup OutboxRows(tx[p].op, b)
  BY DEF SaveTransition
<1> HIDE DEF b, s, h
<1>9. booking'[b] = [booking[b] EXCEPT !.status = s] /\ DOMAIN booking' = DOMAIN booking
  BY <1>2, <1>8
<1>10. \A x \in DOMAIN booking \ {b} : booking'[x] = booking[x]
  BY <1>8
<1>11. /\ booking'[b].departure = booking[b].departure
       /\ booking'[b].quantity = booking[b].quantity
       /\ booking'[b].status = s
       /\ booking'[b] \in Booking
  BY <1>3, <1>6, <1>9 DEF Booking
<1>12. booking' \in [DOMAIN booking -> Booking]
  BY <1>1, <1>8, <1>9, <1>10, <1>11 DEF TypeOK
<1>13. history' \in [DOMAIN booking -> Seq(HistoryRow)]
  <2>1. history \in [DOMAIN booking -> Seq(HistoryRow)]
    BY <1>1 DEF TypeOK
  <2>2. Append(history[b], h) \in Seq(HistoryRow)
    BY <2>1, <1>2, <1>7
  <2> QED
    BY <2>1, <2>2, <1>2, <1>8
<1>14. outbox' \subseteq OutboxRow
  <2>1. OutboxRows(tx[p].op, b) \subseteq OutboxRow
    BY <1>1, <1>3 DEF OutboxRows, OutboxRow, Target, ReleaseOps
  <2> QED
    BY <2>1, <1>1, <1>8 DEF TypeOK
<1> QED
  BY <1>2, <1>4, <1>5, <1>9, <1>10, <1>11, <1>12, <1>13, <1>14 DEF b, s

(* CommitApproval: the booking keeps its seats.                            *)
LEMMA CommitApprovalStep ==
  ASSUME IndInv, NEW p \in Processes, CommitApproval(p)
  PROVE  IndInv'
<1> DEFINE b == tx[p].input.booking
<1>1. TypeOK /\ At(p, ReleaseOps \cup {"approve"}, "commit") /\ SaveTransition(p)
      /\ tx[p].op = "approve" /\ End(p)
  BY DEF IndInv, CommitApproval, At
<1>2. /\ b \in DOMAIN booking /\ b \in tx[p].locks
      /\ booking[b].status = "PENDING"
      /\ DOMAIN booking' = DOMAIN booking
      /\ \A x \in DOMAIN booking \ {b} : booking'[x] = booking[x]
      /\ booking'[b].departure = booking[b].departure
      /\ booking'[b].quantity = booking[b].quantity
      /\ booking'[b].status = "APPROVED"
      /\ booking' \in [DOMAIN booking -> Booking]
      /\ history' \in [DOMAIN booking -> Seq(HistoryRow)]
      /\ outbox' \subseteq OutboxRow
  BY <1>1, Transition DEF Target
<1>3. UNCHANGED <<now, departure, answered>>
  BY DEF CommitApproval
<1> HIDE DEF b
<1>4. WritesOwnRows(p)
  BY <1>2, <1>3 DEF WritesOwnRows
<1>5. TypeOK'
  BY <1>1, <1>2, <1>3 DEF TypeOK, End
<1>6. \A x : ActiveOn(x)' = ActiveOn(x)
  BY <1>2 DEF ActiveOn, Active
<1>7. \A x : SeatUnits(x)' = SeatUnits(x)
  <2> TAKE x
  <2>1. \A y \in DOMAIN booking : booking'[y].quantity = booking[y].quantity
    BY <1>2
  <2>2. ActiveOn(x) \subseteq DOMAIN booking
    BY DEF ActiveOn
  <2> QED
    BY <1>6, <2>1, <2>2 DEF SeatUnits
<1>8. (SeatBalance /\ WithinCapacity /\ NobodyStranded /\ BookedDepartureExists)'
  <2>1. SeatBalance'
    <3> SUFFICES ASSUME NEW x \in DOMAIN departure'
                 PROVE  departure'[x].bookedSeats = Cardinality(SeatUnits(x))'
      BY DEF SeatBalance
    <3> QED
      BY <1>3, <1>7 DEF IndInv, SeatBalance
  <2>2. WithinCapacity'
    BY <1>3 DEF IndInv, WithinCapacity
  <2>3. NobodyStranded'
    <3> SUFFICES ASSUME NEW x \in DOMAIN departure', departure'[x].status = "CANCELLED"
                 PROVE  ActiveOn(x)' = {}
      BY DEF NobodyStranded
    <3> QED
      BY <1>3, <1>6 DEF IndInv, NobodyStranded
  <2>4. BookedDepartureExists'
    BY <1>2, <1>3 DEF IndInv, BookedDepartureExists
  <2> QED
    BY <2>1, <2>2, <2>3, <2>4
<1> QED
  BY <1>1, <1>4, <1>5, <1>8, OthersKeep DEF IndInv

(* CommitRelease: the seats of the booking leave the departure together    *)
(* with the booking's claim to them.                                       *)
LEMMA CommitReleaseStep ==
  ASSUME IndInv, NEW p \in Processes, CommitRelease(p)
  PROVE  IndInv'
<1> DEFINE b == tx[p].input.booking
           d == booking[b].departure
           q == booking[b].quantity
           row == [departure[d] EXCEPT !.bookedSeats = departure[d].bookedSeats - q]
<1>1. TypeOK /\ At(p, ReleaseOps \cup {"approve"}, "commit") /\ SaveTransition(p)
      /\ tx[p].op \in ReleaseOps /\ tx[p].stage = "commit" /\ End(p)
  BY DEF IndInv, CommitRelease, At
<1>2. /\ b \in DOMAIN booking /\ b \in tx[p].locks
      /\ booking[b].status = "PENDING"
      /\ q \in 1 .. MaxQuantity
      /\ d \in DOMAIN departure
      /\ DOMAIN booking' = DOMAIN booking
      /\ \A x \in DOMAIN booking \ {b} : booking'[x] = booking[x]
      /\ booking'[b].departure = d
      /\ booking'[b].quantity = q
      /\ booking'[b].status \in {"REJECTED", "CANCELLED"}
      /\ booking' \in [DOMAIN booking -> Booking]
      /\ history' \in [DOMAIN booking -> Seq(HistoryRow)]
      /\ outbox' \subseteq OutboxRow
  BY <1>1, Transition DEF Target, ReleaseOps
<1>3. UNCHANGED <<now, answered>>
  BY DEF CommitRelease
<1>4. DepartureOf(p) = d
  BY <1>1 DEF DepartureOf, ReleaseOps
<1>5. d \in tx[p].locks /\ tx[p].row = departure[d] /\ departure[d] \in Departure
  BY <1>1, <1>4, CommitKnows DEF At
<1>6. departure[d].bookedSeats >= q
  BY <1>1, <1>5 DEF IndInv, CheckStillHolds, At
<1>7. q \in Nat /\ departure[d].bookedSeats \in Nat /\ departure[d].capacity \in Nat
  <2>1. q \in Nat
    BY <1>2, SeatNumbers
  <2>2. departure[d].bookedSeats \in Nat /\ departure[d].capacity \in Capacities
    BY <1>5 DEF Departure
  <2> QED
    BY <2>1, <2>2, SeatNumbers
<1>8. /\ row \in Departure /\ row.bookedSeats = departure[d].bookedSeats - q
      /\ row.status = departure[d].status /\ row.capacity = departure[d].capacity
  <2> HIDE DEF b, d, q
  <2>1. departure[d].bookedSeats - q \in Nat
    BY <1>6, <1>7
  <2> QED
    BY <1>5, <2>1 DEF Departure
<1>9. departure' = [departure EXCEPT ![d].bookedSeats = tx[p].row.bookedSeats - q]
  BY DEF CommitRelease
<1>10. departure' = [departure EXCEPT ![d] = row]
  BY <1>5, <1>9
<1> HIDE DEF b, d, q, row
<1>11. DOMAIN departure' = DOMAIN departure
       /\ \A x \in DOMAIN departure : departure'[x] = IF x = d THEN row ELSE departure[x]
  BY <1>1, <1>2, <1>10 DEF TypeOK
<1>12. WritesOwnRows(p)
  BY <1>2, <1>5, <1>11 DEF WritesOwnRows, d, q
<1>13. TypeOK'
  BY <1>1, <1>2, <1>3, <1>8, <1>11, <1>10 DEF TypeOK, End
<1>14. \A x : ActiveOn(x)' = ActiveOn(x) \ {b}
  BY <1>2 DEF ActiveOn, Active
<1>15. b \in ActiveOn(d) /\ \A x : x # d => b \notin ActiveOn(x)
  BY <1>2 DEF ActiveOn, Active, d
<1>16. \A x : SeatUnits(x)' = IF x = d THEN SeatUnits(d) \ ({b} \X (1 .. q)) ELSE SeatUnits(x)
  <2> TAKE x
  <2>1. \A y \in DOMAIN booking : booking'[y].quantity = booking[y].quantity
    BY <1>2 DEF q
  <2>2. ActiveOn(x) \subseteq DOMAIN booking
    BY DEF ActiveOn
  <2>3. SeatUnits(x)' = {u \in (ActiveOn(x) \ {b}) \X (1 .. MaxQuantity) :
                             u[2] <= booking[u[1]].quantity}
    BY <1>14, <2>1, <2>2 DEF SeatUnits
  <2>4. CASE x = d
    BY <2>4, <2>3, <1>2 DEF SeatUnits, q
  <2>5. CASE x # d
    BY <2>5, <2>3, <1>15 DEF SeatUnits
  <2> QED
    BY <2>4, <2>5
<1>17. SeatBalance'
  <2> SUFFICES ASSUME NEW x \in DOMAIN departure'
               PROVE  departure'[x].bookedSeats = Cardinality(SeatUnits(x))'
    BY DEF SeatBalance
  <2>1. departure[x].bookedSeats = Cardinality(SeatUnits(x)) /\ x \in DOMAIN departure
    BY <1>11 DEF IndInv, SeatBalance
  <2>2. CASE x # d
    BY <2>1, <2>2, <1>11, <1>16
  <2>3. CASE x = d
    <3>1. {b} \X (1 .. q) \subseteq SeatUnits(d)
      <4> SUFFICES ASSUME NEW i \in 1 .. q
                   PROVE  <<b, i>> \in SeatUnits(d)
        OBVIOUS
      <4>1. i \in 1 .. MaxQuantity /\ i <= q
        BY <1>2, <1>7, ConstantsAssumption
      <4> QED
        BY <4>1, <1>15 DEF SeatUnits, q
    <3>2. IsFiniteSet(SeatUnits(d))
      BY <1>1, SeatUnitsFinite
    <3>3. Cardinality(SeatUnits(d) \ ({b} \X (1 .. q))) = Cardinality(SeatUnits(d)) - q
      BY <3>1, <3>2, <1>7, RemoveBlock
    <3> QED
      BY <2>3, <2>1, <3>3, <1>8, <1>11, <1>16
  <2> QED
    BY <2>2, <2>3
<1>18. WithinCapacity'
  <2>1. row.bookedSeats <= row.capacity
    BY <1>2, <1>7, <1>8 DEF IndInv, WithinCapacity
  <2> QED
    BY <2>1, <1>11 DEF IndInv, WithinCapacity
<1>19. NobodyStranded'
  <2> SUFFICES ASSUME NEW x \in DOMAIN departure', departure'[x].status = "CANCELLED"
               PROVE  ActiveOn(x)' = {}
    BY DEF NobodyStranded
  <2> QED
    BY <1>8, <1>11, <1>14 DEF IndInv, NobodyStranded
<1>20. BookedDepartureExists'
  BY <1>2, <1>11 DEF IndInv, BookedDepartureExists, d
<1> QED
  BY <1>1, <1>12, <1>13, <1>17, <1>18, <1>19, <1>20, OthersKeep DEF IndInv

(* CommitCreate: the new booking brings its claim and its seats at once,   *)
(* and the locked row had room for them.                                   *)
LEMMA CommitCreateStep ==
  ASSUME IndInv, NEW p \in Processes, CommitCreate(p)
  PROVE  IndInv'
<1> DEFINE i == tx[p].input
           b == i.booking
           d == i.departure
           q == i.quantity
           new == [departure |-> d, status |-> "PENDING", user |-> i.user,
                   key |-> i.key, quantity |-> q, createdAt |-> tx[p].began]
           line == [from |-> None, to |-> "PENDING", actor |-> "customer"]
           row == [departure[d] EXCEPT !.bookedSeats = departure[d].bookedSeats + q]
<1>1. TypeOK /\ tx[p].op = "create" /\ tx[p].stage = "commit" /\ tx[p] # Idle /\ End(p)
  BY DEF IndInv, CommitCreate, At, Idle
<1>2. i \in CreateInput /\ tx[p].began \in Time
  BY <1>1, UnderWay DEF Inputs
<1>3. /\ b \in BookingIds /\ d \in DepartureIds /\ q \in Quantities
      /\ i.user \in Users /\ i.key \in Keys /\ i \in Answer
  BY <1>2 DEF CreateInput, Answer
<1>4. q \in 1 .. MaxQuantity /\ q \in Nat
  <2>1. q \in 1 .. MaxQuantity
    BY <1>3, ConstantsAssumption
  <2> QED
    BY <2>1, SeatNumbers
<1>5. DepartureOf(p) = d
  BY <1>1 DEF DepartureOf
<1>6. /\ d \in DOMAIN departure /\ d \in tx[p].locks
      /\ tx[p].row = departure[d] /\ departure[d] \in Departure
  BY <1>1, <1>5, CommitKnows DEF At
<1>7. /\ departure[d].status = "OPEN"
      /\ departure[d].bookedSeats + q <= departure[d].capacity
  BY <1>1, <1>6 DEF IndInv, CheckStillHolds, At
<1>8. b \notin DOMAIN booking
  BY <1>1 DEF IndInv, FreshId
<1>9. /\ departure' = [departure EXCEPT ![d].bookedSeats = tx[p].row.bookedSeats + q]
      /\ booking' = With(booking, b, new)
      /\ history' = With(history, b, <<line>>)
      /\ answered' = answered \cup {i}
      /\ UNCHANGED <<now, outbox>>
  BY DEF CommitCreate
<1>10. new \in Booking
  BY <1>2, <1>3 DEF Booking, BookingStatus
<1>11. /\ new.departure = d /\ new.quantity = q /\ new.status = "PENDING"
  OBVIOUS
<1>12. line \in HistoryRow
  BY DEF HistoryRow, BookingStatus
<1>13. departure' = [departure EXCEPT ![d] = row]
  BY <1>6, <1>9
<1>14. departure[d].bookedSeats \in Nat /\ departure[d].capacity \in Nat
  <2>1. departure[d].bookedSeats \in Nat /\ departure[d].capacity \in Capacities
    BY <1>6 DEF Departure
  <2> QED
    BY <2>1, SeatNumbers
<1> HIDE DEF i, b, d, q, new, line
<1>15. departure[d].bookedSeats + q \in Nat
  BY <1>4, <1>14
<1>16. /\ row \in Departure /\ row.bookedSeats = departure[d].bookedSeats + q
       /\ row.status = "OPEN" /\ row.capacity = departure[d].capacity
  BY <1>6, <1>7, <1>15 DEF Departure
<1> HIDE DEF row
<1>17. DOMAIN departure' = DOMAIN departure
       /\ \A x \in DOMAIN departure : departure'[x] = IF x = d THEN row ELSE departure[x]
  BY <1>1, <1>6, <1>13 DEF TypeOK
<1>18. /\ DOMAIN booking' = DOMAIN booking \cup {b}
       /\ booking'[b] = new
       /\ \A x \in DOMAIN booking : booking'[x] = booking[x]
  BY <1>8, <1>9 DEF With
<1>19. WritesOwnRows(p)
  BY <1>1, <1>6, <1>11, <1>17, <1>18 DEF WritesOwnRows, b, d, i
<1>20. TypeOK'
  <2>1. departure' \in [DOMAIN departure' -> Departure] /\ DOMAIN departure' \subseteq DepartureIds
    BY <1>1, <1>16, <1>13 DEF TypeOK
  <2>2. booking' \in [DOMAIN booking' -> Booking] /\ DOMAIN booking' \subseteq BookingIds
    BY <1>1, <1>3, <1>9, <1>10 DEF TypeOK, With
  <2>3. <<line>> \in Seq(HistoryRow)
    BY <1>12
  <2>4. history' \in [DOMAIN booking' -> Seq(HistoryRow)]
    BY <1>1, <1>9, <1>18, <2>3 DEF TypeOK, With
  <2>5. answered' \subseteq Answer /\ now' \in Time /\ outbox' \subseteq OutboxRow
    BY <1>1, <1>3, <1>9 DEF TypeOK
  <2>6. DOMAIN tx' = Processes
        /\ \A s \in Processes : tx'[s] = Idle \/ \E op \in AllOps : tx'[s] \in TxOf(op)
    BY <1>1 DEF TypeOK, End
  <2> QED
    BY <2>1, <2>2, <2>4, <2>5, <2>6 DEF TypeOK
<1>21. \A x : ActiveOn(x)' = IF x = d THEN ActiveOn(x) \cup {b} ELSE ActiveOn(x)
  BY <1>8, <1>11, <1>18 DEF ActiveOn, Active
<1>22. \A x : SeatUnits(x)' = IF x = d THEN SeatUnits(d) \cup ({b} \X (1 .. q)) ELSE SeatUnits(x)
  <2> TAKE x
  <2>1. ActiveOn(x) \subseteq DOMAIN booking
    BY DEF ActiveOn
  <2>2. \A y \in ActiveOn(x) : booking'[y].quantity = booking[y].quantity
    BY <2>1, <1>18
  <2>3. SeatUnits(x)' = {u \in ActiveOn(x)' \X (1 .. MaxQuantity) :
                             u[2] <= booking'[u[1]].quantity}
    BY DEF SeatUnits
  <2>4. CASE x # d
    BY <2>4, <2>2, <2>3, <1>21 DEF SeatUnits
  <2>5. CASE x = d
    <3>1. {u \in {b} \X (1 .. MaxQuantity) : u[2] <= q} = {b} \X (1 .. q)
      BY <1>4, SeatNumbers
    <3>2. SeatUnits(x)' = SeatUnits(x) \cup {u \in {b} \X (1 .. MaxQuantity) : u[2] <= q}
      BY <2>5, <2>2, <2>3, <1>11, <1>18, <1>21 DEF SeatUnits
    <3> QED
      BY <2>5, <3>1, <3>2
  <2> QED
    BY <2>4, <2>5
<1>23. SeatBalance'
  <2> SUFFICES ASSUME NEW x \in DOMAIN departure'
               PROVE  departure'[x].bookedSeats = Cardinality(SeatUnits(x))'
    BY DEF SeatBalance
  <2>1. departure[x].bookedSeats = Cardinality(SeatUnits(x)) /\ x \in DOMAIN departure
    BY <1>17 DEF IndInv, SeatBalance
  <2>2. CASE x # d
    BY <2>1, <2>2, <1>17, <1>22
  <2>3. CASE x = d
    <3>1. SeatUnits(d) \cap ({b} \X (1 .. q)) = {}
      BY <1>8 DEF SeatUnits, ActiveOn
    <3>2. IsFiniteSet(SeatUnits(d))
      BY <1>1, SeatUnitsFinite
    <3>3. Cardinality(SeatUnits(d) \cup ({b} \X (1 .. q))) = Cardinality(SeatUnits(d)) + q
      BY <3>1, <3>2, <1>4, AddBlock
    <3> QED
      BY <2>3, <2>1, <3>3, <1>16, <1>17, <1>22
  <2> QED
    BY <2>2, <2>3
<1>24. WithinCapacity'
  BY <1>7, <1>16, <1>17 DEF IndInv, WithinCapacity
<1>25. NobodyStranded'
  <2> SUFFICES ASSUME NEW x \in DOMAIN departure', departure'[x].status = "CANCELLED"
               PROVE  ActiveOn(x)' = {}
    BY DEF NobodyStranded
  <2> QED
    BY <1>16, <1>17, <1>21 DEF IndInv, NobodyStranded
<1>26. BookedDepartureExists'
  BY <1>6, <1>11, <1>17, <1>18 DEF IndInv, BookedDepartureExists
<1> QED
  BY <1>1, <1>19, <1>20, <1>23, <1>24, <1>25, <1>26, OthersKeep DEF IndInv

(* CommitBatch: the rows of the batch that are still due change status,    *)
(* and no row becomes CANCELLED.                                           *)
LEMMA CommitBatchStep ==
  ASSUME IndInv, CommitBatch
  PROVE  IndInv'
<1> DEFINE p == Scheduler
           next == IF tx[p].op = "close" THEN "CLOSED" ELSE "COMPLETED"
           hit(x) == x \in tx[p].locks /\ StillDue(tx[p].op, departure[x], tx[p].began)
<1>1. TypeOK /\ p \in Processes /\ End(p) /\ UNCHANGED <<now, booking, history, outbox, answered>>
  BY DEF IndInv, CommitBatch, Processes
<1>2. /\ DOMAIN departure' = DOMAIN departure
      /\ \A x \in DOMAIN departure :
           departure'[x] = IF hit(x) THEN [departure[x] EXCEPT !.status = next] ELSE departure[x]
  BY DEF CommitBatch
<1>3. next \in DepartureStatus /\ next # "CANCELLED"
  BY DEF DepartureStatus
<1> HIDE DEF next, p
<1>4. \A x \in DOMAIN departure :
        /\ departure'[x] \in Departure
        /\ departure'[x].bookedSeats = departure[x].bookedSeats
        /\ departure'[x].capacity = departure[x].capacity
        /\ departure'[x].status = "CANCELLED" => departure[x].status = "CANCELLED"
        /\ x \notin tx[p].locks => departure'[x] = departure[x]
  <2> TAKE x \in DOMAIN departure
  <2>1. departure[x] \in Departure
    BY <1>1 DEF TypeOK
  <2> QED
    BY <2>1, <1>2, <1>3 DEF Departure
<1>5. WritesOwnRows(p)
  BY <1>1, <1>2, <1>4 DEF WritesOwnRows
<1>6. TypeOK'
  <2>1. departure' \in [DOMAIN departure' -> Departure]
    <3>1. departure' = [x \in DOMAIN departure' |-> departure'[x]]
      BY DEF CommitBatch
    <3> QED
      BY <3>1, <1>2, <1>4
  <2>2. DOMAIN departure' \subseteq DepartureIds
    BY <1>1, <1>2 DEF TypeOK
  <2> QED
    BY <2>1, <2>2, <1>1 DEF TypeOK, End
<1>7. \A x : SeatUnits(x)' = SeatUnits(x) /\ ActiveOn(x)' = ActiveOn(x)
  BY <1>1 DEF SeatUnits, ActiveOn, Active
<1>8. SeatBalance'
  <2> SUFFICES ASSUME NEW x \in DOMAIN departure'
               PROVE  departure'[x].bookedSeats = Cardinality(SeatUnits(x))'
    BY DEF SeatBalance
  <2> QED
    BY <1>2, <1>4, <1>7 DEF IndInv, SeatBalance
<1>9. WithinCapacity'
  BY <1>2, <1>4 DEF IndInv, WithinCapacity
<1>10. NobodyStranded'
  <2> SUFFICES ASSUME NEW x \in DOMAIN departure', departure'[x].status = "CANCELLED"
               PROVE  ActiveOn(x)' = {}
    BY DEF NobodyStranded
  <2> QED
    BY <1>2, <1>4, <1>7 DEF IndInv, NobodyStranded
<1>11. BookedDepartureExists'
  BY <1>1, <1>2 DEF IndInv, BookedDepartureExists
<1> QED
  BY <1>1, <1>5, <1>6, <1>8, <1>9, <1>10, <1>11, OthersKeep DEF IndInv

(* OfferDeparture: nobody can hold a seat on a departure that did not      *)
(* exist.                                                                  *)
LEMMA OfferStep ==
  ASSUME IndInv, NEW d \in DepartureIds, NEW s \in Schedules, NEW c \in Capacities,
         OfferDeparture(d, s, c)
  PROVE  IndInv'
<1> DEFINE row == [status |-> "OPEN", schedule |-> s, capacity |-> c, bookedSeats |-> 0]
<1>1. TypeOK /\ UNCHANGED <<now, booking, history, outbox, tx, answered>>
  BY DEF IndInv, OfferDeparture
<1>2. d \notin DOMAIN departure /\ departure' = With(departure, d, row)
  BY DEF OfferDeparture
<1>3. row \in Departure
  BY DEF Departure, DepartureStatus
<1>4. row.bookedSeats = 0 /\ row.status = "OPEN" /\ row.capacity \in Nat
  BY SeatNumbers
<1> HIDE DEF row
<1>5. /\ DOMAIN departure' = DOMAIN departure \cup {d}
      /\ departure'[d] = row
      /\ \A x \in DOMAIN departure : departure'[x] = departure[x]
  BY <1>2 DEF With
<1>6. TypeOK'
  <2>1. departure' \in [DOMAIN departure' -> Departure] /\ DOMAIN departure' \subseteq DepartureIds
    BY <1>1, <1>2, <1>3 DEF TypeOK, With
  <2> QED
    BY <1>1, <2>1 DEF TypeOK
<1>7. LocksExclusive'
  BY <1>1 DEF IndInv, LocksExclusive
<1>8. ASSUME NEW p \in Processes
      PROVE  (BookingIsPending(p) /\ DepartureIsCurrent(p) /\ CheckStillHolds(p) /\ FreshId(p))'
  <2>1. BookingIsPending(p) /\ DepartureIsCurrent(p) /\ CheckStillHolds(p) /\ FreshId(p)
    BY DEF IndInv
  <2>2. BookingIsPending(p)' /\ FreshId(p)'
    BY <2>1, <1>1 DEF BookingIsPending, FreshId, At
  <2>3. DepartureIsCurrent(p)'
    BY <2>1, <1>1, <1>5 DEF DepartureIsCurrent, At, DepartureOf
  <2>4. CheckStillHolds(p)'
    BY <2>1, <1>1 DEF CheckStillHolds, At, Updated, ActiveOn, Active
  <2> QED
    BY <2>2, <2>3, <2>4
<1>9. \A x : SeatUnits(x)' = SeatUnits(x) /\ ActiveOn(x)' = ActiveOn(x)
  BY <1>1 DEF SeatUnits, ActiveOn, Active
<1>10. SeatUnits(d) = {}
  BY <1>2 DEF IndInv, BookedDepartureExists, SeatUnits, ActiveOn
<1>11. SeatBalance'
  <2> SUFFICES ASSUME NEW x \in DOMAIN departure'
               PROVE  departure'[x].bookedSeats = Cardinality(SeatUnits(x))'
    BY DEF SeatBalance
  <2>1. Cardinality(SeatUnits(d)) = 0
    BY <1>10, FS_EmptySet
  <2>2. CASE x = d
    BY <2>1, <2>2, <1>4, <1>5, <1>9
  <2>3. CASE x # d
    BY <2>3, <1>5, <1>9 DEF IndInv, SeatBalance
  <2> QED
    BY <2>2, <2>3
<1>12. WithinCapacity'
  BY <1>4, <1>5 DEF IndInv, WithinCapacity
<1>13. NobodyStranded'
  <2> SUFFICES ASSUME NEW x \in DOMAIN departure', departure'[x].status = "CANCELLED"
               PROVE  ActiveOn(x)' = {}
    BY DEF NobodyStranded
  <2> QED
    BY <1>4, <1>5, <1>9 DEF IndInv, NobodyStranded
<1>14. BookedDepartureExists'
  BY <1>1, <1>5 DEF IndInv, BookedDepartureExists
<1> QED
  BY <1>6, <1>7, <1>8, <1>11, <1>12, <1>13, <1>14 DEF IndInv

(* The clock, or a step that changes nothing but the answers given.        *)
LEMMA QuietStep ==
  ASSUME IndInv, UNCHANGED <<tables, tx>>, now' \in Time, answered' \subseteq Answer
  PROVE  IndInv'
<1>1. TypeOK'
  BY DEF IndInv, TypeOK, tables
<1>2. LocksExclusive'
  BY DEF IndInv, LocksExclusive
<1>3. ASSUME NEW p \in Processes
      PROVE  (BookingIsPending(p) /\ DepartureIsCurrent(p) /\ CheckStillHolds(p) /\ FreshId(p))'
  BY DEF IndInv, BookingIsPending, DepartureIsCurrent, CheckStillHolds, FreshId, At,
         DepartureOf, Updated, ActiveOn, Active, tables
<1>4. (BookedDepartureExists /\ SeatBalance /\ WithinCapacity /\ NobodyStranded)'
  BY DEF IndInv, BookedDepartureExists, SeatBalance, WithinCapacity, NobodyStranded,
         SeatUnits, ActiveOn, Active, tables
<1> QED
  BY <1>1, <1>2, <1>3, <1>4 DEF IndInv

(* What create answers to a key that is taken is a committed booking.      *)
LEMMA ReplayType ==
  ASSUME TypeOK, NEW u \in Users, NEW k \in Keys, NEW d \in DepartureIds,
         NEW q \in Quantities, Replay(u, k, d, q)
  PROVE  answered' \subseteq Answer
BY DEF TypeOK, Replay, WithKey, Answer

-----------------------------------------------------------------------------
(* The invariant of the specification.                                     *)

(* The empty database satisfies it.                                        *)
LEMMA InitInv ==
  ASSUME Init
  PROVE  IndInv
<1>1. DOMAIN departure = {} /\ DOMAIN booking = {}
  BY DEF Init
<1>2. TypeOK
  BY <1>1, ConstantsAssumption DEF Init, TypeOK, Time
<1>3. \A p \in Processes : tx[p] = Idle
  BY DEF Init
<1>4. LocksExclusive /\ \A p \in Processes : /\ BookingIsPending(p) /\ DepartureIsCurrent(p)
                                             /\ CheckStillHolds(p) /\ FreshId(p)
  BY <1>3 DEF LocksExclusive, BookingIsPending, DepartureIsCurrent, CheckStillHolds,
              FreshId, At, Idle
<1>5. BookedDepartureExists /\ SeatBalance /\ WithinCapacity /\ NobodyStranded
  BY <1>1 DEF BookedDepartureExists, SeatBalance, WithinCapacity, NobodyStranded
<1> QED
  BY <1>2, <1>4, <1>5 DEF IndInv

(* A request that arrives, or that ends without a commit.                  *)
LEMMA RequestStep ==
  ASSUME IndInv, NEW p \in Requests, Request(p)
  PROVE  IndInv'
<1>1. p \in Processes /\ TypeOK
  BY DEF Processes, IndInv
<1>2. ASSUME NEW u \in Users, NEW k \in Keys, NEW d \in DepartureIds, NEW q \in Quantities,
             BeginCreate(p, u, k, d, q)
      PROVE  IndInv'
  <2>1. PICK b \in BookingIds \ DOMAIN booking :
          /\ \A s \in Processes : tx[s].op = "create" => tx[s].input.booking # b
          /\ Submit(p, "create", [departure |-> d, booking |-> b, user |-> u,
                                  key |-> k, quantity |-> q])
    BY <1>2 DEF BeginCreate
  <2>2. [departure |-> d, booking |-> b, user |-> u, key |-> k, quantity |-> q] \in Inputs("create")
    BY DEF Inputs, CreateInput
  <2>3. "create" \in AllOps \ {"close", "complete"}
    BY DEF AllOps, CustomerOps
  <2> QED
    BY <1>1, <2>1, <2>2, <2>3, SubmitStep
<1>3. ASSUME NEW u \in Users, NEW k \in Keys, NEW d \in DepartureIds, NEW q \in Quantities,
             AnswerRepeat(p, u, k, d, q)
      PROVE  IndInv'
  BY <1>1, <1>3, ReplayType, QuietStep DEF AnswerRepeat, TypeOK
<1>4. ASSUME NEW u \in Users, NEW b \in BookingIds, BeginCancel(p, u, b)
      PROVE  IndInv'
  <2>1. "cancel" \in AllOps \ {"close", "complete"} /\ [booking |-> b, user |-> u] \in Inputs("cancel")
    BY DEF AllOps, CustomerOps, Inputs, CancelInput
  <2> QED
    BY <1>1, <1>4, <2>1, SubmitStep DEF BeginCancel
<1>5. ASSUME NEW op \in {"approve", "reject"}, NEW b \in BookingIds, BeginDecision(p, op, b)
      PROVE  IndInv'
  <2>1. op \in AllOps \ {"close", "complete"} /\ op # "create" /\ [booking |-> b] \in Inputs(op)
    BY DEF AllOps, AdminOps, Inputs, DecisionInput
  <2> QED
    BY <1>1, <1>5, <2>1, SubmitStep DEF BeginDecision
<1>6. ASSUME NEW d \in DepartureIds, NEW s \in Schedules \cup {None},
             NEW c \in Capacities \cup {None}, NEW status \in {"OPEN", "CLOSED", None},
             BeginUpdate(p, d, s, c, status)
      PROVE  IndInv'
  <2>1. /\ "update" \in AllOps \ {"close", "complete"}
        /\ [departure |-> d, status |-> status, schedule |-> s, capacity |-> c] \in Inputs("update")
    BY DEF AllOps, AdminOps, Inputs, UpdateInput
  <2> QED
    BY <1>1, <1>6, <2>1, SubmitStep DEF BeginUpdate
<1>7. ASSUME NEW d \in DepartureIds, BeginWithdraw(p, d)
      PROVE  IndInv'
  <2>1. "withdraw" \in AllOps \ {"close", "complete"} /\ [departure |-> d] \in Inputs("withdraw")
    BY DEF AllOps, AdminOps, Inputs, WithdrawInput
  <2> QED
    BY <1>1, <1>7, <2>1, SubmitStep DEF BeginWithdraw
<1>8. CASE RefuseTour(p)
  BY <1>1, <1>8, RollbackStep DEF RefuseTour
<1>9. CASE AnswerAfterViolation(p)
  <2> DEFINE i == tx[p].input
  <2>1. tx[p].op = "create" /\ tx[p] # Idle
    BY <1>9 DEF AnswerAfterViolation, At, Idle
  <2>2. i.user \in Users /\ i.key \in Keys /\ i.departure \in DepartureIds /\ i.quantity \in Quantities
    BY <1>1, <2>1, UnderWay DEF Inputs, CreateInput
  <2>3. Replay(i.user, i.key, i.departure, i.quantity)
    BY <1>9 DEF AnswerAfterViolation
  <2>4. answered' \subseteq Answer
    BY <1>1, <2>2, <2>3, ReplayType
  <2> QED
    BY <1>1, <1>9, <2>4, EndStep DEF AnswerAfterViolation
<1> QED
  BY <1>2, <1>3, <1>4, <1>5, <1>6, <1>7, <1>8, <1>9 DEF Request

(* The scheduler begins a job or works on a batch.                         *)
LEMMA JobStep ==
  ASSUME IndInv, Job
  PROVE  IndInv'
<1>1. Scheduler \in Processes /\ TypeOK
  BY DEF Processes, IndInv
<1>2. \A t \in 0 .. now : t \in Time
  BY <1>1, ConstantsAssumption DEF TypeOK, Time
<1>3. ASSUME NEW op \in {"close", "complete"}, NEW ids \in SUBSET DOMAIN departure,
             NEW t \in 0 .. now, SelectBatch(op, ids, t)
      PROVE  IndInv'
  <2>1. /\ op \in AllOps /\ op # "create" /\ "visit" \in Stages(op)
        /\ [departures |-> ids] \in Inputs(op)
    BY <1>1 DEF AllOps, SchedulerOps, Stages, Inputs, BatchInput, TypeOK
  <2> QED
    BY <1>1, <1>2, <1>3, <2>1, BeginStep DEF SelectBatch
<1>4. ASSUME NEW d \in DepartureIds, VisitRow(d)
      PROVE  IndInv'
  BY <1>4, VisitRowStep
<1>5. ASSUME NEW b \in DOMAIN booking, NEW t \in 0 .. now, BeginExpiry(b, t)
      PROVE  IndInv'
  <2>1. /\ "expire" \in AllOps /\ After("expire", "begin") = "lockBooking"
        /\ "lockBooking" \in Stages("expire") /\ [booking |-> b] \in Inputs("expire")
    BY <1>1 DEF AllOps, SchedulerOps, Stages, After, Inputs, DecisionInput, TypeOK
  <2> QED
    BY <1>1, <1>2, <1>5, <2>1, BeginStep DEF BeginExpiry
<1>6. CASE CommitBatch
  BY <1>6, CommitBatchStep
<1> QED
  BY <1>3, <1>4, <1>5, <1>6 DEF Job

(* A step that waits for a lock or for the unique index.                   *)
LEMMA WaitingStepInv ==
  ASSUME IndInv, NEW p \in Processes, WaitingStep(p)
  PROVE  IndInv'
<1>1. CASE LockBooking(p)      BY <1>1, LockBookingStep
<1>2. CASE RefuseBooking(p)    BY <1>2, RollbackStep DEF RefuseBooking
<1>3. CASE LockDeparture(p)    BY <1>3, LockDepartureStep
<1>4. CASE RefuseDeparture(p)  BY <1>4, RollbackStep DEF RefuseDeparture
<1>5. CASE InsertBooking(p)    BY <1>5, InsertBookingStep
<1>6. CASE UniqueViolation(p)  BY <1>6, UniqueViolationStep
<1> QED
  BY <1>1, <1>2, <1>3, <1>4, <1>5, <1>6 DEF WaitingStep

(* Each of the five commits keeps it.                                      *)
LEMMA CommitInv ==
  ASSUME IndInv, NEW p \in Processes, Commit(p)
  PROVE  IndInv'
<1>1. CASE CommitCreate(p)    BY <1>1, CommitCreateStep
<1>2. CASE CommitApproval(p)  BY <1>2, CommitApprovalStep
<1>3. CASE CommitRelease(p)   BY <1>3, CommitReleaseStep
<1>4. CASE CommitUpdate(p)    BY <1>4, CommitUpdateStep
<1>5. CASE CommitWithdraw(p)  BY <1>5, CommitWithdrawStep
<1> QED
  BY <1>1, <1>2, <1>3, <1>4, <1>5 DEF Commit

(* So does every step, the stuttering one included.                        *)
LEMMA NextInv ==
  ASSUME IndInv, [Next]_vars
  PROVE  IndInv'
<1>1. CASE Tick
  <2>1. now' \in Time
    BY <1>1, ConstantsAssumption DEF IndInv, TypeOK, Tick, Time
  <2> QED
    BY <1>1, <2>1, QuietStep DEF Tick, IndInv, TypeOK
<1>2. CASE \E d \in DepartureIds, s \in Schedules, c \in Capacities : OfferDeparture(d, s, c)
  BY <1>2, OfferStep
<1>3. CASE \E p \in Requests : Request(p)
  BY <1>3, RequestStep
<1>4. CASE \E p \in Processes : WaitingStep(p) \/ Commit(p) \/ Abort(p)
  BY <1>4, WaitingStepInv, CommitInv, RollbackStep DEF Abort
<1>5. CASE Job
  BY <1>5, JobStep
<1>6. CASE UNCHANGED vars
  BY <1>6, QuietStep DEF vars, tables, IndInv, TypeOK
<1> QED
  BY <1>1, <1>2, <1>3, <1>4, <1>5, <1>6 DEF Next

(* Whatever the interleaving of the transactions, what each of them relies *)
(* on between its statements holds.                                        *)
THEOREM Inductive == Spec => []IndInv
<1>1. Init => IndInv
  BY InitInv
<1>2. IndInv /\ [Next]_vars => IndInv'
  BY NextInv
<1> QED
  BY <1>1, <1>2, PTL DEF Spec

(* Every variable keeps its type; no order of cancellations, rejections and*)
(* expiries makes booked_seats negative.                                   *)
THEOREM TypeCorrect == Spec => []TypeOK
BY Inductive, PTL DEF IndInv

(* booked_seats is the number of seats that pending and approved bookings  *)
(* hold, for any number of customers, administrators and departures.       *)
THEOREM SeatsBalance == Spec => []SeatBalance
BY Inductive, PTL DEF IndInv

(* No departure is ever overbooked, however capacity is edited.            *)
THEOREM NeverOverbooked == Spec => []WithinCapacity
BY Inductive, PTL DEF IndInv

(* No pending or approved booking is left on a cancelled departure.        *)
THEOREM NobodyIsStranded == Spec => []NobodyStranded
BY Inductive, PTL DEF IndInv
=============================================================================

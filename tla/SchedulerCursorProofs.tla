----------------------- MODULE SchedulerCursorProofs -----------------------
(***************************************************************************)
(* Proofs about SchedulerCursor, for every finite set of bookings and      *)
(* departures, every size of a batch and any number of faults.             *)
(***************************************************************************)
EXTENDS SchedulerCursor, TLAPS, WellFoundedInduction

-----------------------------------------------------------------------------
(* Every set of numbers that is not empty has a least one.                 *)
LEMMA Least ==
  ASSUME NEW S \in SUBSET Nat, S # {}
  PROVE  \E x \in S : \A y \in S : x <= y
<1> DEFINE R == OpToRel(<, Nat)
<1>1. IsWellFoundedOn(R, Nat)
  BY NatLessThanWellFounded
<1>2. PICK x \in S : \A y \in S : ~(<<y, x>> \in R)
  <2> HIDE DEF R
  <2> QED
    BY <1>1, WFMin
<1>3. \A y \in S : ~(y < x)
  BY <1>2 DEF OpToRel
<1> QED
  BY <1>3

(* The row a job on bookings is at is in the batch, beyond the cursor, and *)
(* before the rest of the batch.                                           *)
LEMMA CurrentIsNext ==
  ASSUME TypeOK, PageIsAhead, job \in CursorJobs, page # {}
  PROVE  /\ Current \in page
         /\ Current \in Bookings
         /\ cursor[job] # None => Current > cursor[job]
         /\ page \ {Current} \subseteq {b \in Bookings : b > Current}
<1>1. page \subseteq Bookings /\ page \in SUBSET Nat
  BY CursorAssumption DEF PageIsAhead
<1>2. \E x \in page : \A y \in page : x <= y
  BY <1>1, Least
<1>3. Current \in page /\ \A y \in page : Current <= y
  BY <1>2 DEF Current
<1> QED
  BY <1>1, <1>3 DEF PageIsAhead

(* The job that follows is one of them, or none.                           *)
LEMMA FollowingJob ==
  ASSUME job \in Jobs
  PROVE  Following[job] \in Jobs \cup {"idle"}
BY DEF Jobs, Following

(* Going on to the next job leaves no rows.                                *)
LEMMA GoOnStep ==
  ASSUME TypeOK, GoOn, job \in Jobs
  PROVE  /\ job' \in Jobs \cup {"idle"}
         /\ page' = {}
         /\ PageIsAhead'
BY FollowingJob DEF GoOn, PageIsAhead

(* A booking of the batch has had its turn: its id becomes the cursor.     *)
LEMMA TurnStep ==
  ASSUME TypeOK, PageIsAhead, job \in CursorJobs, page # {},
         cursor' = [cursor EXCEPT ![job] = Current], Leave(Current)
  PROVE  /\ job' \in Jobs \cup {"idle"}
         /\ page' \subseteq Bookings
         /\ cursor' \in [CursorJobs -> Bookings \cup {None}]
         /\ PageIsAhead'
         /\ \A j \in CursorJobs : cursor[j] # None /\ cursor'[j] # None => cursor'[j] >= cursor[j]
<1>1. /\ Current \in page /\ Current \in Bookings
      /\ cursor[job] # None => Current > cursor[job]
      /\ page \ {Current} \subseteq {b \in Bookings : b > Current}
  BY CurrentIsNext
<1>2. cursor' \in [CursorJobs -> Bookings \cup {None}]
  BY <1>1 DEF TypeOK
<1>3. cursor'[job] = Current /\ \A j \in CursorJobs : j # job => cursor'[j] = cursor[j]
  BY DEF TypeOK
<1>4. job \in Jobs
  BY DEF CursorJobs, Jobs
<1>5. \A j \in CursorJobs : cursor[j] # None /\ cursor'[j] # None => cursor'[j] >= cursor[j]
  <2> SUFFICES ASSUME NEW j \in CursorJobs, cursor[j] # None
               PROVE  cursor'[j] >= cursor[j]
    OBVIOUS
  <2>1. cursor[j] \in Nat /\ Current \in Nat
    BY <1>1, CursorAssumption DEF TypeOK
  <2>2. cursor'[j] = cursor[j] \/ j = job
    BY <1>3
  <2> QED
    BY <1>1, <1>3, <2>1, <2>2
<1>6. CASE page = {Current}
  <2>1. GoOn
    BY <1>6 DEF Leave
  <2> QED
    BY <1>2, <1>4, <1>5, <2>1, GoOnStep
<1>7. CASE page # {Current}
  <2>1. page' = page \ {Current} /\ job' = job
    BY <1>7 DEF Leave
  <2>2. PageIsAhead'
    BY <1>1, <1>3, <2>1 DEF PageIsAhead, CursorJobs
  <2> QED
    BY <1>1, <1>2, <1>4, <1>5, <2>1, <2>2
<1> QED
  BY <1>6, <1>7

-----------------------------------------------------------------------------
(* What every step keeps, and what it does to the cursors.                 *)
Kept ==
  /\ TypeOK'
  /\ PageIsAhead'
  /\ \A j \in CursorJobs : cursor[j] # None /\ cursor'[j] # None => cursor'[j] >= cursor[j]

(* A step that moves no cursor.                                            *)
LEMMA CursorsStay ==
  ASSUME TypeOK, UNCHANGED cursor
  PROVE  \A j \in CursorJobs : cursor[j] # None /\ cursor'[j] # None => cursor'[j] >= cursor[j]
<1>1. \A j \in CursorJobs : cursor[j] # None => cursor[j] \in Nat
  BY CursorAssumption DEF TypeOK
<1>2. cursor' = cursor
  OBVIOUS
<1>3. \A n \in Nat : n >= n
  OBVIOUS
<1> QED
  BY <1>1, <1>2, <1>3

(* The steps of a run.                                                     *)
LEMMA RunStep ==
  ASSUME TypeOK, PageIsAhead, Run
  PROVE  Kept
<1>1. CASE StartRun
  <2>1. PageIsAhead'
    BY <1>1 DEF StartRun, PageIsAhead, CursorJobs
  <2>2. TypeOK'
    BY <1>1 DEF StartRun, TypeOK, Jobs
  <2> QED
    BY <1>1, <2>1, <2>2, CursorsStay DEF StartRun, Kept
<1>2. CASE SelectDepartures
  <2>1. PICK batch \in SUBSET Departures :
          IF batch = {} THEN GoOn ELSE page' = batch /\ UNCHANGED job
    BY <1>2 DEF SelectDepartures, First
  <2>2. job \in {"close", "complete"} /\ job \in Jobs /\ UNCHANGED <<booking, departure, cursor, faults>>
    BY <1>2 DEF SelectDepartures, Jobs
  <2>3. PageIsAhead' /\ page' \subseteq Departures /\ job' \in Jobs \cup {"idle"}
    <3>1. CASE batch = {}
      BY <2>1, <2>2, <3>1, GoOnStep
    <3>2. CASE batch # {}
      BY <2>1, <2>2, <3>2 DEF PageIsAhead, CursorJobs
    <3> QED
      BY <3>1, <3>2
  <2>4. TypeOK'
    BY <2>2, <2>3 DEF TypeOK
  <2> QED
    BY <2>2, <2>3, <2>4, CursorsStay DEF Kept
<1>3. CASE CloseBatch
  <2>1. job \in Jobs /\ GoOn /\ UNCHANGED <<booking, cursor, faults>>
    BY <1>3 DEF CloseBatch, Jobs
  <2>2. departure' \in [Departures -> Departure]
    BY <1>3 DEF CloseBatch, TypeOK, Departure
  <2>3. TypeOK' /\ PageIsAhead'
    BY <2>1, <2>2, GoOnStep DEF TypeOK
  <2> QED
    BY <2>1, <2>3, CursorsStay DEF Kept
<1>4. CASE CompleteBatch
  <2>1. job \in Jobs /\ GoOn /\ UNCHANGED <<booking, cursor, faults>>
    BY <1>4 DEF CompleteBatch, Jobs
  <2>2. departure' \in [Departures -> Departure]
    BY <1>4 DEF CompleteBatch, TypeOK, Departure
  <2>3. TypeOK' /\ PageIsAhead'
    BY <2>1, <2>2, GoOnStep DEF TypeOK
  <2> QED
    BY <2>1, <2>3, CursorsStay DEF Kept
<1>5. CASE SelectBookings
  <2>1. PICK batch \in SUBSET Beyond(job) :
          IF batch # {} THEN page' = batch /\ UNCHANGED job ELSE cursor[job] = None /\ GoOn
    BY <1>5 DEF SelectBookings, First
  <2>2. job \in CursorJobs /\ job \in Jobs /\ UNCHANGED <<booking, departure, cursor, faults>>
    BY <1>5 DEF SelectBookings, CursorJobs, Jobs
  <2>3. PageIsAhead' /\ page' \subseteq Bookings /\ job' \in Jobs \cup {"idle"}
    <3>1. CASE batch = {}
      BY <2>1, <2>2, <3>1, GoOnStep
    <3>2. CASE batch # {}
      BY <2>1, <2>2, <3>2 DEF PageIsAhead, CursorJobs, Beyond
    <3> QED
      BY <3>1, <3>2
  <2>4. TypeOK'
    BY <2>2, <2>3 DEF TypeOK
  <2> QED
    BY <2>2, <2>3, <2>4, CursorsStay DEF Kept
<1>6. CASE ResetCursor
  <2>1. job \in CursorJobs /\ cursor' = [cursor EXCEPT ![job] = None] /\ page = {}
        /\ UNCHANGED <<booking, departure, job, page, faults>>
    BY <1>6 DEF ResetCursor
  <2>2. TypeOK'
    BY <2>1 DEF TypeOK
  <2>3. PageIsAhead'
    BY <2>1 DEF PageIsAhead
  <2>4. \A j \in CursorJobs : cursor'[j] = None \/ cursor'[j] = cursor[j]
    BY <2>1 DEF TypeOK
  <2>5. \A j \in CursorJobs : cursor[j] # None => cursor[j] \in Nat
    BY CursorAssumption DEF TypeOK
  <2> QED
    BY <2>2, <2>3, <2>4, <2>5 DEF Kept
<1>7. CASE Expire
  <2>1. job \in CursorJobs /\ page # {} /\ cursor' = [cursor EXCEPT ![job] = Current]
        /\ Leave(Current) /\ UNCHANGED <<departure, faults>>
    BY <1>7 DEF Expire, CursorJobs
  <2>2. booking' \in [Bookings -> BookingStage]
    BY <1>7 DEF Expire, TypeOK, BookingStage
  <2> QED
    BY <2>1, <2>2, TurnStep DEF TypeOK, Kept
<1>8. CASE Remind
  <2>1. job \in CursorJobs /\ page # {} /\ cursor' = [cursor EXCEPT ![job] = Current]
        /\ Leave(Current) /\ UNCHANGED <<booking, departure, faults>>
    BY <1>8 DEF Remind, CursorJobs
  <2> QED
    BY <2>1, TurnStep DEF TypeOK, Kept
<1>9. CASE BookingFails
  <2>1. job \in CursorJobs /\ page # {} /\ cursor' = [cursor EXCEPT ![job] = Current]
        /\ Leave(Current) /\ UNCHANGED <<booking, departure, faults>>
    BY <1>9 DEF BookingFails, Passed
  <2> QED
    BY <2>1, TurnStep DEF TypeOK, Kept
<1>10. CASE Dispatch
  <2>1. job \in Jobs /\ GoOn /\ UNCHANGED <<booking, departure, cursor, faults>>
    BY <1>10 DEF Dispatch, Jobs
  <2>2. TypeOK' /\ PageIsAhead'
    BY <2>1, GoOnStep DEF TypeOK
  <2> QED
    BY <2>1, <2>2, CursorsStay DEF Kept
<1> QED
  BY <1>1, <1>2, <1>3, <1>4, <1>5, <1>6, <1>7, <1>8, <1>9, <1>10 DEF Run

(* A run that is broken off, and a restart.                                *)
LEMMA FaultStep ==
  ASSUME TypeOK, PageIsAhead, RunFails \/ Crash
  PROVE  Kept
<1>1. job' = "idle" /\ page' = {} /\ UNCHANGED <<booking, departure>>
  BY DEF RunFails, Crash
<1>2. faults' \in 0 .. MaxFaults
  <2>1. faults \in 0 .. MaxFaults /\ faults' = faults + 1 /\ faults < MaxFaults
    BY DEF RunFails, Crash, TypeOK
  <2> QED
    BY <2>1, CursorAssumption
<1>3. \/ UNCHANGED cursor
      \/ cursor' = [j \in CursorJobs |-> None]
  BY DEF RunFails, Crash
<1>4. TypeOK'
  BY <1>1, <1>2, <1>3 DEF TypeOK
<1>5. PageIsAhead'
  BY <1>1 DEF PageIsAhead
<1>6. \A j \in CursorJobs : cursor[j] # None /\ cursor'[j] # None => cursor'[j] >= cursor[j]
  BY <1>3, CursorsStay
<1> QED
  BY <1>4, <1>5, <1>6 DEF Kept

(* What customers, administrators and the clock do meanwhile.              *)
LEMMA OtherStep ==
  ASSUME TypeOK, PageIsAhead,
         \/ \E b \in Bookings : Ripen(b) \/ Approve(b) \/ Cancel(b)
         \/ \E d \in Departures : PassTime(d) \/ Withdraw(d)
  PROVE  Kept
<1>1. UNCHANGED <<job, page, cursor, faults>>
  BY DEF Ripen, Approve, Cancel, PassTime, Withdraw
<1>2. booking' \in [Bookings -> BookingStage]
  BY DEF Ripen, Ripened, Approve, Cancel, PassTime, Withdraw, TypeOK, BookingStage
<1>3. departure' \in [Departures -> Departure]
  BY DEF Ripen, Approve, Cancel, PassTime, Withdraw, TypeOK, Departure, Moments
<1>4. TypeOK' /\ PageIsAhead'
  BY <1>1, <1>2, <1>3 DEF TypeOK, PageIsAhead
<1> QED
  BY <1>1, <1>4, CursorsStay DEF Kept

(* Every step.                                                             *)
LEMMA NextStep ==
  ASSUME TypeOK, PageIsAhead, [Next]_vars
  PROVE  Kept
<1>1. CASE Next
  BY <1>1, RunStep, FaultStep, OtherStep DEF Next
<1>2. CASE UNCHANGED vars
  BY <1>2, CursorsStay DEF vars, TypeOK, PageIsAhead, Kept
<1> QED
  BY <1>1, <1>2

-----------------------------------------------------------------------------
(* The rows of a batch are always those beyond the cursor, in their order. *)
THEOREM BatchIsAhead == Spec => [](TypeOK /\ PageIsAhead)
<1>1. Init => TypeOK /\ PageIsAhead
  BY CursorAssumption DEF Init, TypeOK, PageIsAhead, BookingStage, Departure, Moments, Jobs, CursorJobs
<1>2. TypeOK /\ PageIsAhead /\ [Next]_vars => (TypeOK /\ PageIsAhead)'
  BY NextStep DEF Kept
<1> QED
  BY <1>1, <1>2, PTL DEF Spec

(* A cursor moves forward until the table ends or the process is restarted:*)
(* a booking that fails cannot hold up those behind it                     *)
(* (scheduler.service.ts:216).                                             *)
THEOREM CursorsAdvance == Spec => CursorAdvances
<1>1. TypeOK /\ PageIsAhead /\ [Next]_vars =>
        [\A j \in CursorJobs :
           cursor[j] # None /\ cursor'[j] # None => cursor'[j] >= cursor[j]]_vars
  BY NextStep DEF Kept
<1> QED
  BY <1>1, BatchIsAhead, PTL DEF Spec, CursorAdvances
=============================================================================

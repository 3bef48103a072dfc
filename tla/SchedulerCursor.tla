-------------------------- MODULE SchedulerCursor --------------------------
(***************************************************************************)
(* The runs of SchedulerService.runDueJobs, one a minute in one process:   *)
(* its jobs one after another, each on a batch of at most BatchSize rows   *)
(* in the order of their ids.  Departures that are closed or completed     *)
(* leave the selection.  A booking whose expiry fails does not, and one    *)
(* that gets a reminder does not either: for these two jobs the process    *)
(* remembers in a cursor how far it has come.                              *)
(*                                                                         *)
(* What a job does to a row, its locks and its competitors are in Bookings *)
(* and Notifications; here each row is done in one step.                   *)
(***************************************************************************)
EXTENDS Integers, FiniteSets

CONSTANTS
  Bookings,    \* ids of bookings, numbers for their order
  Departures,  \* ids of departures
  BatchSize,   \* SCHEDULER_BATCH_SIZE
  MaxFaults,   \* bound on the runs that are broken off
  None

ASSUME CursorAssumption ==
  /\ Bookings \subseteq Nat
  /\ IsFiniteSet(Bookings)
  /\ Departures \subseteq Nat
  /\ IsFiniteSet(Departures)
  /\ BatchSize \in Nat \ {0}
  /\ MaxFaults \in Nat
  /\ None \notin Bookings

VARIABLES
  booking,    \* where each booking stands, see BookingStage
  departure,  \* status of each departure, and how far its schedule has come
  job,        \* the job the run is at, or idle
  page,       \* the rows of the batch that are still to be done
  cursor,     \* pendingExpiryCursorBookingId and reminderCursorBookingId
  faults

vars == <<booking, departure, job, page, cursor, faults>>

(* pending and old: PENDING, and longer than the time to live.  approved   *)
(* and near: APPROVED, and within the window of reminders.  over: none of  *)
(* the scheduler's business any more.                                      *)
BookingStage == {"pending", "old", "approved", "near", "over"}

(* The run asks: may it still be booked, has it ended?                     *)
Moments == {"bookable", "closing", "ended"}

Departure == [status : {"OPEN", "CLOSED", "COMPLETED", "CANCELLED"}, moment : Moments]

Jobs == {"close", "complete", "expiry", "reminders", "dispatch"}
CursorJobs == {"expiry", "reminders"}

Following ==
  [close |-> "complete", complete |-> "expiry", expiry |-> "reminders",
   reminders |-> "dispatch", dispatch |-> "idle"]

Init ==
  /\ booking \in [Bookings -> {"pending", "approved"}]
  /\ departure = [d \in Departures |-> [status |-> "OPEN", moment |-> "bookable"]]
  /\ job = "idle"
  /\ page = {}
  /\ cursor = [j \in CursorJobs |-> None]
  /\ faults = 0

-----------------------------------------------------------------------------
(* What is due, and which part of it a batch takes.                        *)

(* Mutant: closing does not look at the status.                            *)
AnyClosing(d) == departure[d].moment # "bookable"

Closing(d) == departure[d].status = "OPEN" /\ departure[d].moment # "bookable"

Completing(d) == departure[d].status \in {"OPEN", "CLOSED"} /\ departure[d].moment = "ended"

DueStage == [expiry |-> "old", reminders |-> "near"]

Due(j, b) == booking[b] = DueStage[j]

(* ORDER BY id, LIMIT.                                                     *)
First(S) == {x \in S : Cardinality({y \in S : y < x}) < BatchSize}

Beyond(j) == {b \in Bookings : Due(j, b) /\ (cursor[j] # None => b > cursor[j])}

(* The row a job is at.                                                    *)
Current == CHOOSE x \in page : \A y \in page : x <= y

GoOn ==
  job' = Following[job] /\ page' = {}

-----------------------------------------------------------------------------
(* The cron job starts a run when the one before has ended                 *)
(* (waitForCompletion).                                                    *)
StartRun ==
  /\ job = "idle"
  /\ job' = "close"
  /\ UNCHANGED <<booking, departure, page, cursor, faults>>

(* closeDueDepartures and completeDepartedTrips: the SELECT.               *)
SelectDepartures ==
  /\ job \in {"close", "complete"}
  /\ page = {}
  /\ LET batch == First({d \in Departures : IF job = "close" THEN Closing(d) ELSE Completing(d)})
     IN IF batch = {} THEN GoOn ELSE page' = batch /\ UNCHANGED job
  /\ UNCHANGED <<booking, departure, cursor, faults>>

(* The UPDATE of those among them which are still due.                     *)
CloseBatch ==
  /\ job = "close"
  /\ page # {}
  /\ departure' = [d \in Departures |->
       IF d \in page /\ Closing(d) THEN [departure[d] EXCEPT !.status = "CLOSED"] ELSE departure[d]]
  /\ GoOn
  /\ UNCHANGED <<booking, cursor, faults>>

CompleteBatch ==
  /\ job = "complete"
  /\ page # {}
  /\ departure' = [d \in Departures |->
       IF d \in page /\ Completing(d) THEN [departure[d] EXCEPT !.status = "COMPLETED"]
       ELSE departure[d]]
  /\ GoOn
  /\ UNCHANGED <<booking, cursor, faults>>

(* findPendingExpiryBookings and findUpcomingReminderBookings beyond the   *)
(* cursor.                                                                 *)
SelectBookings ==
  /\ job \in CursorJobs
  /\ page = {}
  /\ LET batch == First(Beyond(job)) IN
       IF batch # {} THEN page' = batch /\ UNCHANGED job
       ELSE cursor[job] = None /\ GoOn
  /\ UNCHANGED <<booking, departure, cursor, faults>>

(* Nothing is left beyond it: the cursor is reset and the SELECT repeated. *)
ResetCursor ==
  /\ job \in CursorJobs
  /\ page = {}
  /\ cursor[job] # None
  /\ Beyond(job) = {}
  /\ cursor' = [cursor EXCEPT ![job] = None]
  /\ UNCHANGED <<booking, departure, job, page, faults>>

(* Mutant: the cursor moves only if the booking could be handled.          *)
StayOnError(b) == cursor

Passed(b) == [cursor EXCEPT ![job] = b]

Leave(b) == IF page = {b} THEN GoOn ELSE page' = page \ {b} /\ UNCHANGED job

(* expirePendingBooking; it does nothing to a booking that was decided     *)
(* after the SELECT.                                                       *)
Expire ==
  /\ job = "expiry"
  /\ page # {}
  /\ booking' = [booking EXCEPT ![Current] = IF @ = "old" THEN "over" ELSE @]
  /\ cursor' = [cursor EXCEPT ![job] = Current]
  /\ Leave(Current)
  /\ UNCHANGED <<departure, faults>>

(* scheduleReminder, whether or not the reminder was submitted before.     *)
Remind ==
  /\ job = "reminders"
  /\ page # {}
  /\ cursor' = [cursor EXCEPT ![job] = Current]
  /\ Leave(Current)
  /\ UNCHANGED <<booking, departure, faults>>

(* Either throws: the error is logged, the loop goes on.                   *)
BookingFails ==
  /\ job \in CursorJobs
  /\ page # {}
  /\ cursor' = Passed(Current)
  /\ Leave(Current)
  /\ UNCHANGED <<booking, departure, faults>>

(* dispatchPending, and the summary.                                       *)
Dispatch ==
  /\ job = "dispatch"
  /\ GoOn
  /\ UNCHANGED <<booking, departure, cursor, faults>>

(* Any other statement fails: the run is over, and the cron job logs it.   *)
RunFails ==
  /\ job \in Jobs
  /\ job \in CursorJobs => page = {}
  /\ job' = "idle"
  /\ page' = {}
  /\ faults < MaxFaults
  /\ faults' = faults + 1
  /\ UNCHANGED <<booking, departure, cursor>>

(* The process is restarted: the cursors are lost.                         *)
Crash ==
  /\ faults < MaxFaults
  /\ faults' = faults + 1
  /\ job' = "idle"
  /\ page' = {}
  /\ cursor' = [j \in CursorJobs |-> None]
  /\ UNCHANGED <<booking, departure>>

-----------------------------------------------------------------------------
(* What happens meanwhile.  A run compares everything with the time it     *)
(* started at, so the clock matters between two runs.                      *)

Ripened == [pending |-> "old", approved |-> "near", near |-> "over"]

Ripen(b) ==
  /\ job = "idle"
  /\ booking[b] \in {"pending", "approved", "near"}
  /\ booking' = [booking EXCEPT ![b] = Ripened[booking[b]]]
  /\ UNCHANGED <<departure, job, page, cursor, faults>>

PassTime(d) ==
  /\ job = "idle"
  /\ departure[d].status # "CANCELLED"
  /\ departure[d].moment # "ended"
  /\ departure' = [departure EXCEPT ![d].moment = IF @ = "bookable" THEN "closing" ELSE "ended"]
  /\ UNCHANGED <<booking, job, page, cursor, faults>>

(* Customers and administrators, and scheduler:run in a process of its own.*)
Approve(b) ==
  /\ booking[b] \in {"pending", "old"}
  /\ \E stage \in {"approved", "near"} : booking' = [booking EXCEPT ![b] = stage]
  /\ UNCHANGED <<departure, job, page, cursor, faults>>

Cancel(b) ==
  /\ booking[b] # "over"
  /\ booking' = [booking EXCEPT ![b] = "over"]
  /\ UNCHANGED <<departure, job, page, cursor, faults>>

Withdraw(d) ==
  /\ departure[d].status \in {"OPEN", "CLOSED"}
  /\ departure' = [departure EXCEPT ![d].status = "CANCELLED"]
  /\ UNCHANGED <<booking, job, page, cursor, faults>>

Run ==
  \/ StartRun \/ SelectDepartures \/ CloseBatch \/ CompleteBatch
  \/ SelectBookings \/ ResetCursor \/ Expire \/ Remind \/ BookingFails \/ Dispatch

Next ==
  \/ Run \/ RunFails \/ Crash
  \/ \E b \in Bookings : Ripen(b) \/ Approve(b) \/ Cancel(b)
  \/ \E d \in Departures : PassTime(d) \/ Withdraw(d)

Spec == Init /\ [][Next]_vars

(* The cron job starts a run every minute, and a run goes on to its end.   *)
(* Runs are broken off MaxFaults times at most; a booking may fail in every*)
(* run.                                                                    *)
FairSpec == Spec /\ WF_vars(Run)

-----------------------------------------------------------------------------
(* Properties.                                                             *)

Trying(j, b) == job = j /\ page # {} /\ Current = b

(* A booking that is due for expiry or a reminder has its turn, and if it  *)
(* is still due has it again, however many others are due and fail, and    *)
(* although the cursor has passed it (README.md:100: a booking that failed *)
(* is tried again after the cursor has come round).                        *)
ComesRound ==
  \A j \in CursorJobs, b \in Bookings : Due(j, b) ~> Trying(j, b) \/ ~Due(j, b)

(* A departure that can be booked no more is closed in the end, and one    *)
(* that has ended is completed, whatever the order of ids and the size of  *)
(* a batch, unless it is withdrawn.                                        *)
DeparturesSettle ==
  \A d \in Departures :
    /\ Closing(d) ~> departure[d].status # "OPEN"
    /\ departure[d].moment = "ended" ~> departure[d].status \in {"COMPLETED", "CANCELLED"}

TypeOK ==
  /\ booking \in [Bookings -> BookingStage]
  /\ departure \in [Departures -> Departure]
  /\ job \in Jobs \cup {"idle"}
  /\ page \subseteq Bookings \cup Departures
  /\ cursor \in [CursorJobs -> Bookings \cup {None}]
  /\ faults \in 0 .. MaxFaults

(* The rows of a batch that are still to be done are of the kind the job   *)
(* handles, and all beyond its cursor: no row is done twice in a batch.    *)
PageIsAhead ==
  /\ job \in {"close", "complete"} => page \subseteq Departures
  /\ job \in CursorJobs =>
       page \subseteq {b \in Bookings : cursor[job] # None => b > cursor[job]}
  /\ job \in {"idle", "dispatch"} => page = {}

(* A cursor never goes back over bookings it has passed, whether they could*)
(* be handled or not: it goes on, or is reset by the end of the table or a *)
(* restart (scheduler.service.ts:198-209).                                 *)
CursorAdvances ==
  [][\A j \in CursorJobs : cursor[j] # None /\ cursor'[j] # None => cursor'[j] >= cursor[j]]_vars
=============================================================================

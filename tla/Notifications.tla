--------------------------- MODULE Notifications ---------------------------
(***************************************************************************)
(* The mails of the service: rows of booking_notification_outbox, written  *)
(* by the booking transactions and by the reminder job of the scheduler;   *)
(* NotificationsService, which turns pending rows into jobs of a Bull queue*)
(* in Redis; BookingNotificationProcessor, which works on the jobs; and the*)
(* command that retries the jobs that failed for good.                     *)
(*                                                                         *)
(* Every await on the database, on Redis or on the mail server is a step,  *)
(* so that several dispatchers (each approval or rejection starts one, and *)
(* the scheduler runs one every minute), several workers and an operator's *)
(* command interleave between them.  A step may fail, a process may be     *)
(* lost, a worker may lose the lock of its job to the queue's stall check, *)
(* and Redis may lose a job; MaxFaults bounds how often.                   *)
(*                                                                         *)
(* The id of a job is made of what its row's deduplication key is made of  *)
(* (booking and status, or booking and start), so one name in Rows stands  *)
(* for the row and for the job.  dispatched_at is written and never read:  *)
(* it is left out.                                                         *)
(***************************************************************************)
EXTENDS Integers, FiniteSets

CONSTANTS
  Rows,          \* deduplication keys
  Reminders,     \* those of reminders; the others tell of a decision
  Legacy,        \* those whose job an older version queued without a row
  Dispatchers,   \* calls of dispatchPending at the same time
  Commands,      \* runs of the retry command at the same time
  Workers,       \* queue workers, one per process of the service
  BatchSize,     \* BOOKING_NOTIFICATION_OUTBOX_BATCH_SIZE
  MaxAttempts,   \* BOOKING_NOTIFICATION_MAX_ATTEMPTS
  MailEnabled,   \* MAIL_ENABLED
  MaxFaults,     \* bound of errors, crashes, stalls and losses
  None

ASSUME NotificationAssumption ==
  /\ IsFiniteSet(Rows)
  /\ Reminders \subseteq Rows
  /\ Legacy \subseteq Rows \ Reminders
  /\ Dispatchers \cap Commands = {}
  /\ IsFiniteSet(Dispatchers)
  /\ IsFiniteSet(Commands)
  /\ IsFiniteSet(Workers)
  /\ BatchSize \in Nat \ {0}
  /\ MaxAttempts \in Nat \ {0}
  /\ MailEnabled \in BOOLEAN
  /\ MaxFaults \in Nat
  /\ None \notin Rows \cup Workers \cup {"sent", "skipped"}

Batches == Dispatchers \cup Commands

JobState == {"none", "waiting", "active", "delayed", "failed", "completed"}

VARIABLES
  outbox,    \* rows: when it was last checked (0: never), how it was settled
  job,       \* the queue
  batch,     \* what each dispatcher and command is doing
  attempt,   \* what each worker is doing
  upcoming,  \* reminders whose departure is open or closed and still ahead
  mails,     \* history variable: mails the server accepted, for each row
  broken,    \* history variable: attempts that ended without marking the row
  faults     \* faults so far

vars == <<outbox, job, batch, attempt, upcoming, mails, broken, faults>>

NoJob  == [state |-> "none", attempts |-> 0, stalled |-> FALSE, holder |-> None]
NewJob == [NoJob EXCEPT !.state = "waiting"]
NoBatch   == [stage |-> "idle", todo |-> {}, row |-> None, now |-> 0]
NoAttempt == [stage |-> "idle", row |-> None, outcome |-> None]

Processed(r) == outbox[r].delivery # None

Job == [state : JobState, attempts : 0 .. MaxAttempts, stalled : BOOLEAN,
        holder : Workers \cup {None}]
Batch == [stage : {"idle", "select", "next", "reread", "add", "remove", "retry", "check"},
          todo : SUBSET Rows, row : Rows \cup {None}, now : Nat]
Attempt == [stage : {"idle", "read", "recheck", "send", "mark", "done"},
            row : Rows \cup {None}, outcome : {"sent", "skipped", None}]

-----------------------------------------------------------------------------
(* Time matters only by its order: the moments that are still remembered   *)
(* are renumbered 1, 2, ... whenever a new one is captured.                *)
Moments == ({outbox[r].checked : r \in DOMAIN outbox}
              \cup {batch[x].now : x \in Batches}) \ {0}
Renumbered(t) == Cardinality({u \in Moments : u <= t})

(* Sets that can be the first BatchSize rows of a query ordered by key:    *)
(* nothing that is left out comes before something that is taken.          *)
Page(candidates, key) ==
  {S \in SUBSET candidates :
     /\ Cardinality(S) = IF Cardinality(candidates) < BatchSize
                           THEN Cardinality(candidates) ELSE BatchSize
     /\ \A r \in S, o \in candidates \ S : key[r] <= key[o]}

(* Mutant: an order that checking a row does not change.                   *)
AnyOrder == [r \in DOMAIN outbox |-> 0]

(* ORDER BY last_checked_at ASC NULLS FIRST                                *)
LastChecked == [r \in DOMAIN outbox |-> outbox[r].checked]

Pending == {r \in DOMAIN outbox : ~Processed(r)}
Failed == {r \in Rows : job[r].state = "failed"}

(* Mutant: a new row has an outcome, which is not one.                     *)
WithPendingRow(r) ==
  IF r \in DOMAIN outbox THEN outbox
  ELSE [o \in DOMAIN outbox \cup {r} |->
          IF o = r THEN [checked |-> 0, delivery |-> "pending"] ELSE outbox[o]]

(* job.data carries the id of the row; a job of the older version does not,*)
(* and its row is made when it is first worked on (ensureLegacyStatusOutbox)*)
WithRow(r) ==
  IF r \in DOMAIN outbox THEN outbox
  ELSE [o \in DOMAIN outbox \cup {r} |->
          IF o = r THEN [checked |-> 0, delivery |-> None] ELSE outbox[o]]

-----------------------------------------------------------------------------
Init ==
  /\ outbox = [r \in {} |-> {}]
  /\ job \in [Rows -> {NoJob, NewJob, [NoJob EXCEPT !.state = "failed", !.attempts = MaxAttempts],
                       [NoJob EXCEPT !.state = "failed", !.stalled = TRUE]}]
  /\ \A r \in Rows : job[r] = NoJob <=> r \notin Legacy
  /\ batch = [x \in Batches |-> NoBatch]
  /\ attempt = [w \in Workers |-> NoAttempt]
  /\ upcoming = Reminders
  /\ mails = [r \in Rows |-> 0]
  /\ broken = [r \in Rows |-> 0]
  /\ faults = 0

(* A booking transaction commits its row, or the scheduler inserts the row *)
(* of a reminder; a row with the same deduplication key is ignored.        *)
Write(r) ==
  /\ r \notin DOMAIN outbox \cup Legacy
  /\ outbox' = WithRow(r)
  /\ UNCHANGED <<job, batch, attempt, upcoming, mails, broken, faults>>

(* The departure starts: findReminderDelivery does not find it any more.   *)
Depart(r) ==
  /\ r \in upcoming
  /\ upcoming' = upcoming \ {r}
  /\ UNCHANGED <<outbox, job, batch, attempt, mails, broken, faults>>

Fault == faults < MaxFaults /\ faults' = faults + 1

-----------------------------------------------------------------------------
(* dispatchPending and retryFailedNotifications: both capture the time,    *)
(* read a page of rows or jobs, and go through it.                         *)

InBatch(x, stage) == batch[x].stage = stage

Proceed(x, stage) == batch' = [batch EXCEPT ![x].stage = stage]

Begin(x) ==
  /\ InBatch(x, "idle")
  /\ outbox' = [r \in DOMAIN outbox |->
                  [outbox[r] EXCEPT !.checked = Renumbered(outbox[r].checked)]]
  /\ batch' = [y \in Batches |->
       IF y = x THEN [NoBatch EXCEPT !.stage = "select", !.now = Cardinality(Moments) + 1]
                ELSE [batch[y] EXCEPT !.now = Renumbered(batch[y].now)]]
  /\ UNCHANGED <<job, attempt, upcoming, mails, broken, faults>>

(* x has the set S still to go through; an empty one ends the call.        *)
GoOn(x, S) ==
  batch' = [batch EXCEPT ![x] =
    IF S = {} THEN NoBatch
              ELSE [stage |-> "next", todo |-> S, row |-> None, now |-> batch[x].now]]

(* findPendingOutbox                                                       *)
SelectPending(d) ==
  /\ InBatch(d, "select")
  /\ \E S \in Page(Pending, LastChecked) : GoOn(d, S)
  /\ UNCHANGED <<outbox, job, attempt, upcoming, mails, broken, faults>>

(* Mutant: a job that failed for good is replaced by a new one.            *)
BlockingUnlessFailed == {"waiting", "active", "delayed"}

(* BOOKING_NOTIFICATION_BLOCKING_JOB_STATES                                *)
Blocking == {"waiting", "active", "delayed", "failed"}

(* dispatchOutbox: getJob and getState.                                    *)
Look(d, r) ==
  /\ InBatch(d, "next")
  /\ r \in batch[d].todo
  /\ batch' = [batch EXCEPT ![d] = [batch[d] EXCEPT
       !.row = r,
       !.stage = IF job[r].state = "none" THEN "add"
                 ELSE IF job[r].state \in Blocking THEN "check" ELSE "reread"]]
  /\ UNCHANGED <<outbox, job, attempt, upcoming, mails, broken, faults>>

(* A completed job: the row is read again; only if it is still pending the *)
(* job is removed, so that it can be added once more.                      *)
Reread(d) ==
  /\ InBatch(d, "reread")
  /\ LET r == batch[d].row IN
       IF Processed(r) THEN Proceed(d, "check") /\ job' = job
                       ELSE Proceed(d, "add") /\ job' = [job EXCEPT ![r] = NoJob]
  /\ UNCHANGED <<outbox, attempt, upcoming, mails, broken, faults>>

(* queue.add: a job with the same id is left as it is.                     *)
Add(d) ==
  /\ InBatch(d, "add")
  /\ LET r == batch[d].row IN
       job' = IF job[r].state = "none" THEN [job EXCEPT ![r] = NewJob] ELSE job
  /\ Proceed(d, "check")
  /\ UNCHANGED <<outbox, attempt, upcoming, mails, broken, faults>>

(* markOutboxChecked, in the finally clause: also after an error.          *)
MarkChecked(x) ==
  /\ InBatch(x, "check")
  /\ LET b == batch[x] IN
       /\ outbox' = IF Processed(b.row) THEN outbox
                    ELSE [outbox EXCEPT ![b.row].checked = b.now]
       /\ GoOn(x, b.todo \ {b.row})
  /\ UNCHANGED <<job, attempt, upcoming, mails, broken, faults>>

(* Redis or the database refuses the calls for one row: that is logged.    *)
RowError(x) ==
  /\ Fault
  /\ \/ batch[x].stage \in {"reread", "add", "retry"} /\ Proceed(x, "check")
     \/ /\ x \in Dispatchers
        /\ InBatch(x, "next")
        /\ \E r \in batch[x].todo :
             batch' = [batch EXCEPT ![x] = [batch[x] EXCEPT !.row = r, !.stage = "check"]]
  /\ UNCHANGED <<outbox, job, attempt, upcoming, mails, broken>>

(* The process is lost, or an error outside the try ends the call.         *)
Quit(x) ==
  /\ ~InBatch(x, "idle")
  /\ Fault
  /\ batch' = [batch EXCEPT ![x] = NoBatch]
  /\ UNCHANGED <<outbox, job, attempt, upcoming, mails, broken>>

-----------------------------------------------------------------------------
(* retryFailedNotifications                                                *)

SelectFailed(c) ==
  /\ InBatch(c, "select")
  /\ \E S \in Page(Failed, [r \in Rows |-> 0]) : GoOn(c, S)
  /\ UNCHANGED <<outbox, job, attempt, upcoming, mails, broken, faults>>

(* findJobOutbox                                                           *)
Find(c, r) ==
  /\ InBatch(c, "next")
  /\ r \in batch[c].todo
  /\ outbox' = WithRow(r)
  /\ batch' = [batch EXCEPT ![c] = [batch[c] EXCEPT
       !.row = r, !.stage = IF outbox'[r].delivery # None THEN "remove" ELSE "retry"]]
  /\ UNCHANGED <<job, attempt, upcoming, mails, broken, faults>>

(* job.remove: a job that a worker has locked refuses, which nobody        *)
(* catches: the command ends.                                              *)
Remove(c) ==
  /\ InBatch(c, "remove")
  /\ LET r == batch[c].row IN
       IF job[r].state = "active"
         THEN batch' = [batch EXCEPT ![c] = NoBatch] /\ job' = job
         ELSE GoOn(c, batch[c].todo \ {r}) /\ job' = [job EXCEPT ![r] = NoJob]
  /\ UNCHANGED <<outbox, attempt, upcoming, mails, broken, faults>>

(* job.retry: the attempts made stay counted; a job that is not failed any *)
(* more refuses, which is logged.                                          *)
Retry(c) ==
  /\ InBatch(c, "retry")
  /\ LET r == batch[c].row IN
       job' = IF job[r].state = "failed" THEN [job EXCEPT ![r].state = "waiting"] ELSE job
  /\ Proceed(c, "check")
  /\ UNCHANGED <<outbox, attempt, upcoming, mails, broken, faults>>

-----------------------------------------------------------------------------
(* BookingNotificationProcessor                                            *)

Working(w, stage) == attempt[w].stage = stage

Take(w, r) ==
  /\ Working(w, "idle")
  /\ job[r].state = "waiting"
  /\ job' = [job EXCEPT ![r] = [job[r] EXCEPT !.state = "active", !.holder = w]]
  /\ attempt' = [attempt EXCEPT ![w] = [NoAttempt EXCEPT !.stage = "read", !.row = r]]
  /\ UNCHANGED <<outbox, batch, upcoming, mails, broken, faults>>

(* Mutant: the row is not looked at before the mail is sent.               *)
SendAgain(r, processed) == IF r \in Reminders THEN "recheck" ELSE "send"

(* Mutant: the news of a decision is subject to the check of reminders.    *)
RecheckAll(r, processed) == IF processed THEN "done" ELSE "recheck"

(* A row that is settled already is left alone; a reminder is checked once *)
(* more, the news of a decision is sent.                                   *)
Delivery(r, processed) ==
  IF processed THEN "done" ELSE IF r \in Reminders THEN "recheck" ELSE "send"

(* findOutboxById                                                          *)
Read(w) ==
  /\ Working(w, "read")
  /\ outbox' = WithRow(attempt[w].row)
  /\ LET r == attempt[w].row IN
       attempt' = [attempt EXCEPT ![w].stage = Delivery(r, outbox'[r].delivery # None)]
  /\ UNCHANGED <<job, batch, upcoming, mails, broken, faults>>

(* findReminderDelivery                                                    *)
Recheck(w) ==
  /\ Working(w, "recheck")
  /\ LET a == attempt[w] IN
       attempt' = [attempt EXCEPT ![w] =
         IF a.row \in upcoming THEN [a EXCEPT !.stage = "send"]
                               ELSE [a EXCEPT !.stage = "mark", !.outcome = "skipped"]]
  /\ UNCHANGED <<outbox, job, batch, upcoming, mails, broken, faults>>

Outcome == IF MailEnabled THEN "sent" ELSE "skipped"

(* mailSender.send: the server accepts the mail, unless mail is disabled.  *)
Send(w) ==
  /\ Working(w, "send")
  /\ mails' = IF MailEnabled THEN [mails EXCEPT ![attempt[w].row] = @ + 1] ELSE mails
  /\ attempt' = [attempt EXCEPT ![w] =
                   [attempt[w] EXCEPT !.stage = "mark", !.outcome = Outcome]]
  /\ UNCHANGED <<outbox, job, batch, upcoming, broken, faults>>

(* Mutant: the last writer wins.                                           *)
Overwritten(r, outcome) == outcome

(* WHERE processed_at IS NULL                                              *)
Settled(r, outcome) == IF Processed(r) THEN outbox[r].delivery ELSE outcome

(* markOutboxProcessed                                                     *)
Mark(w) ==
  /\ Working(w, "mark")
  /\ LET a == attempt[w] IN
       outbox' = [outbox EXCEPT ![a.row].delivery = Settled(a.row, a.outcome)]
  /\ attempt' = [attempt EXCEPT ![w].stage = "done"]
  /\ UNCHANGED <<job, batch, upcoming, mails, broken, faults>>

(* The queue accepts the end of an attempt only from the holder of the     *)
(* job's lock.                                                             *)
EndJob(w, j) ==
  /\ attempt' = [attempt EXCEPT ![w] = NoAttempt]
  /\ LET r == attempt[w].row IN
       job' = IF job[r].holder = w THEN [job EXCEPT ![r] = j] ELSE job

(* Mutant: the processor catches the error of an attempt.                  *)
Swallowed(j) == [j EXCEPT !.state = "completed", !.holder = None]

(* An attempt that threw: again after a delay, or failed for good.         *)
AfterError(j) ==
  IF j.attempts + 1 < MaxAttempts
    THEN [j EXCEPT !.state = "delayed", !.attempts = @ + 1, !.holder = None]
    ELSE [j EXCEPT !.state = "failed", !.attempts = MaxAttempts, !.holder = None]

Complete(w) ==
  /\ Working(w, "done")
  /\ EndJob(w, [job[attempt[w].row] EXCEPT !.state = "completed", !.holder = None])
  /\ UNCHANGED <<outbox, batch, upcoming, mails, broken, faults>>

(* An attempt that may have sent its mail, or may still do so, will not be *)
(* the one that marks the row: counted once, when it fails or is lost with *)
(* the row unmarked, or when it loses its lock.                            *)
Breaks(w, stages) ==
  LET r == attempt[w].row IN
    broken' = IF attempt[w].stage \in stages /\ job[r].holder = w
                THEN [broken EXCEPT ![r] = @ + 1] ELSE broken

(* The database or the mail server refuses; nothing was sent by this step. *)
AttemptError(w) ==
  /\ attempt[w].stage \in {"read", "recheck", "send", "mark"}
  /\ Fault
  /\ EndJob(w, AfterError(job[attempt[w].row]))
  /\ Breaks(w, {"mark"})
  /\ UNCHANGED <<outbox, batch, upcoming, mails>>

(* The process of a worker is lost; the job stays active until the queue   *)
(* notices that nobody renews its lock.                                    *)
Crash(w) ==
  /\ ~Working(w, "idle")
  /\ Fault
  /\ EndJob(w, [job[attempt[w].row] EXCEPT !.holder = None])
  /\ Breaks(w, {"mark"})
  /\ UNCHANGED <<outbox, batch, upcoming, mails>>

(* A worker that is alive fails to renew the lock in time: it goes on, and *)
(* its job is taken from it.                                               *)
LoseLock(w) ==
  /\ ~Working(w, "idle")
  /\ job[attempt[w].row].holder = w
  /\ Fault
  /\ job' = [job EXCEPT ![attempt[w].row].holder = None]
  /\ Breaks(w, {"read", "recheck", "send", "mark"})
  /\ UNCHANGED <<outbox, batch, attempt, upcoming, mails>>

(* An active job without a lock waits again, and fails the second time.    *)
Stall(r) ==
  /\ job[r].state = "active"
  /\ job[r].holder = None
  /\ job' = [job EXCEPT ![r] = [job[r] EXCEPT
       !.state = IF job[r].stalled THEN "failed" ELSE "waiting", !.stalled = TRUE]]
  /\ UNCHANGED <<outbox, batch, attempt, upcoming, mails, broken, faults>>

(* The delay before the next attempt is over.                              *)
Promote(r) ==
  /\ job[r].state = "delayed"
  /\ job' = [job EXCEPT ![r].state = "waiting"]
  /\ UNCHANGED <<outbox, batch, attempt, upcoming, mails, broken, faults>>

(* Redis loses a job.                                                      *)
LoseJob(r) ==
  /\ job[r] # NoJob
  /\ Fault
  /\ job' = [job EXCEPT ![r] = NoJob]
  /\ IF job[r].holder = None THEN broken' = broken
       ELSE Breaks(job[r].holder, {"read", "recheck", "send", "mark"})
  /\ UNCHANGED <<outbox, batch, attempt, upcoming, mails>>

-----------------------------------------------------------------------------
Dispatch(d) ==
  \/ Begin(d) \/ SelectPending(d) \/ Reread(d) \/ Add(d) \/ MarkChecked(d)
  \/ \E r \in Rows : Look(d, r)

RetryFailed(c) ==
  \/ Begin(c) \/ SelectFailed(c) \/ Remove(c) \/ Retry(c) \/ MarkChecked(c)
  \/ \E r \in Rows : Find(c, r)

Work(w) ==
  \/ \E r \in Rows : Take(w, r)
  \/ Read(w) \/ Recheck(w) \/ Send(w) \/ Mark(w) \/ Complete(w)

Next ==
  \/ \E r \in Rows : Write(r) \/ Depart(r) \/ Stall(r) \/ Promote(r) \/ LoseJob(r)
  \/ \E d \in Dispatchers : Dispatch(d)
  \/ \E c \in Commands : RetryFailed(c)
  \/ \E w \in Workers : Work(w) \/ AttemptError(w) \/ Crash(w) \/ LoseLock(w)
  \/ \E x \in Batches : RowError(x) \/ Quit(x)

(* The scheduler dispatches every minute, a worker and the queue's timers  *)
(* go on; nobody has to run the command.                                   *)
Fairness ==
  /\ \A d \in Dispatchers : WF_vars(Dispatch(d))
  /\ \A w \in Workers : WF_vars(Work(w))
  /\ \A r \in Rows : WF_vars(Stall(r)) /\ WF_vars(Promote(r))

Spec == Init /\ [][Next]_vars
FairSpec == Spec /\ Fairness

-----------------------------------------------------------------------------
(* Properties.                                                             *)

(* Every variable has its type; in particular whoever works on a row works *)
(* on one that exists.                                                     *)
TypeOK ==
  /\ DOMAIN outbox \subseteq Rows
  /\ outbox \in [DOMAIN outbox -> [checked : Nat, delivery : {"sent", "skipped", None}]]
  /\ job \in [Rows -> Job]
  /\ batch \in [Batches -> Batch]
  /\ attempt \in [Workers -> Attempt]
  /\ upcoming \subseteq Reminders
  /\ mails \in [Rows -> Nat]
  /\ broken \in [Rows -> Nat]
  /\ faults \in 0 .. MaxFaults
  /\ \A d \in Dispatchers : batch[d].todo \subseteq DOMAIN outbox
  /\ \A x \in Batches : batch[x].row # None => batch[x].row \in DOMAIN outbox
  /\ \A w \in Workers : ~Working(w, "idle") => attempt[w].row \in Rows
  /\ \A w \in Workers : attempt[w].stage \notin {"idle", "read"}
                          => attempt[w].row \in DOMAIN outbox

(* A job is only completed when its row is settled: no notification is     *)
(* taken for delivered because its job has gone.                           *)
CompletedIsProcessed ==
  \A r \in Rows : job[r].state = "completed" => r \in DOMAIN outbox /\ Processed(r)

(* A mail is sent again only for every attempt that was broken off between *)
(* reading the row and marking it: two dispatchers, a retry by the command *)
(* or a job that is added again do not send it twice.                      *)
NoNeedlessResend == \A r \in Rows : mails[r] <= 1 + broken[r]

(* What the row says is what happened: "sent" was mailed, and with mail    *)
(* enabled only a reminder is skipped, one that nobody was mailed unless   *)
(* an attempt was broken off.                                              *)
HonestOutcome ==
  \A r \in DOMAIN outbox :
    /\ outbox[r].delivery = "sent" => mails[r] > 0
    /\ outbox[r].delivery = "skipped" /\ MailEnabled
         => r \in Reminders /\ mails[r] <= broken[r]

(* How a row is settled; None also before it is written.                   *)
Fate(r) == IF r \in DOMAIN outbox THEN outbox[r].delivery ELSE None

(* Who holds the lock of a job works on it, and the job is active.         *)
HolderWorks ==
  \A r \in Rows : job[r].holder # None =>
    /\ attempt[job[r].holder].stage # "idle"
    /\ attempt[job[r].holder].row = r
    /\ job[r].state = "active"

(* What an attempt has learnt of its row is still so.                      *)
AttemptKnows(w) ==
  LET a == attempt[w] IN
    /\ a.stage = "recheck" => a.row \in Reminders
    /\ a.stage = "mark" =>
         /\ a.outcome # None
         /\ a.outcome = "sent" => mails[a.row] > 0
         /\ a.outcome = "skipped" /\ MailEnabled => a.row \in Reminders
    /\ a.stage = "done" => Fate(a.row) # None

(* Who is about to remove a job has a row at hand, and it is settled: a    *)
(* completed job is never found with a row that is still pending.          *)
BatchKnows(x) ==
  LET b == batch[x] IN
    /\ b.stage \in {"reread", "add", "remove", "retry", "check"} => b.row # None
    /\ b.stage \in {"reread", "remove"} => Fate(b.row) # None

(* The attempts at r that may have found it pending and have sent nothing. *)
(* The one at "read" that holds the lock is left out: it has yet to look.  *)
Unsent(r) ==
  {w \in Workers :
     /\ attempt[w].row = r
     /\ \/ attempt[w].stage \in {"recheck", "send"}
        \/ attempt[w].stage = "mark" /\ attempt[w].outcome = "skipped"
        \/ attempt[w].stage = "read" /\ job[r].holder # w}

(* The holder of the lock has found r pending and has not marked it yet.   *)
Sending(r) ==
  /\ job[r].holder # None
  /\ attempt[job[r].holder].stage \in {"recheck", "send", "mark"}

(* Every mail but one, sent or still to be expected, is accounted for by an*)
(* attempt that was broken off; all of them are while nobody with the lock *)
(* is at a pending row, and when the row was skipped.                      *)
MailsAccounted(r) ==
  LET expected == mails[r] + Cardinality(Unsent(r)) IN
    /\ expected <= 1 + broken[r]
    /\ Fate(r) = "skipped" \/ (Fate(r) = None /\ ~Sending(r)) => expected <= broken[r]

(* The inductive invariant: what attempts and batches know, whoever has    *)
(* lost a lock meanwhile, and the account of the mails.                    *)
IndInv ==
  /\ TypeOK
  /\ HolderWorks
  /\ CompletedIsProcessed
  /\ HonestOutcome
  /\ \A w \in Workers : AttemptKnows(w)
  /\ \A x \in Batches : BatchKnows(x)
  /\ \A r \in Rows : MailsAccounted(r)

(* A settled row keeps its outcome, whatever a late attempt writes.        *)
ProcessedIsFinal ==
  [][\A r \in DOMAIN outbox : /\ r \in DOMAIN outbox'
                              /\ Processed(r) => outbox'[r].delivery = outbox[r].delivery]_vars

(* Nobody takes the job away from a row that is still to be settled: only  *)
(* Redis loses it, and the retry command and the dispatchers do not.       *)
JobKeptUntilProcessed ==
  [][\A r \in DOMAIN outbox :
       job[r].state # "none" /\ job'[r].state = "none" /\ faults' = faults
         => Processed(r)]_vars

(* When faults cease, every row is settled or its job has failed for good  *)
(* and waits for the operator, also when Redis refused or lost the job and *)
(* when rows that cannot be dispatched fill the batch.                     *)
Recovered ==
  \A r \in Rows : r \in DOMAIN outbox
    ~> r \in DOMAIN outbox /\ (Processed(r) \/ job[r].state = "failed")
=============================================================================

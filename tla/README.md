# A TLA+ verification of booking-tour

`booking-tour` is a NestJS service for booking tours: PostgreSQL through TypeORM,
a Bull queue in Redis for mails, a cron job inside the process. These modules
model its transactions, its scheduler, its notifications, its accounts and
sessions, its catalogue and its images, check them with TLC on small instances and
prove every safety property with TLAPS for every size, and that the bookings
implement a specification without locks. Paths below are relative to the repository's
own `src/`.

## 1. Inventory

| Part | State it keeps | Operations | Interacts with |
|---|---|---|---|
| Bookings, customers (`bookings/bookings.service.ts`) | `bookings`, `booking_status_histories`, `booked_seats` of a departure | `create` with an idempotency key, `cancel`, paged reads | locks departures; reads tours |
| Bookings, administrators (`bookings/admin-*.service.ts`) | the same tables | `approve`, `reject`, paged reads | writes the outbox in its transaction, publishes an event after the commit |
| Departures (`tours/departures.service.ts`) | `tour_departures`: schedule, capacity, status | `create`, `update`, `cancel`, reads | counts bookings; races `create` of bookings |
| Scheduler (`scheduler/`) | two cursors in memory | every minute: close, complete, expire, remind, dispatch | writes departures and bookings; calls notifications |
| Notifications (`notifications/`) | `booking_notification_outbox`, the Bull queue | dispatch, process a job, retry failed jobs, remind | reads bookings; the mail server |
| Authentication (`auth/`) | `refresh_tokens` in families | register, login, refresh, logout | reads users |
| Users (`users/`) | `users`, avatar files | profile, avatar, role and status | an advisory lock for the last administrator; files |
| Tours, categories (`tours/tours.service.ts`, `categories/`) | `tours`, `categories`, images | create, edit, publish, archive | a tour checks its category; a departure checks its tour |
| Reviews (`reviews/`) | `reviews`, `review_images`, files | create, edit, moderate, delete, images | reads bookings; files |
| File storage (`files/`) | files on disk | write, remove | called by users, tours, reviews |

There are no messages between nodes: the parts meet in the rows of one database,
which several requests (and several processes of the service) read and write at
once under READ COMMITTED, in the queue, and in the event after an approval.

What is hard, and what therefore has to be right:

* *Bookings and departures.* `booked_seats` is a counter that six transactions
  change from a value they read before; schedule, capacity and status of a
  departure are edited while customers book. Correct means: the counter is the
  number of seats held, at most the capacity; a booking is decided once, with a
  history that explains its status and exactly one notification row; nobody is
  left on a cancelled departure or moved to another schedule; one idempotency key
  is one booking; the locks never form a circle.
* *Scheduler.* A run works with the time it started at and with ids it selected
  before the update; expiry races cancel, approve and reject. A cursor must bring
  failed bookings round again.
* *Notifications.* PostgreSQL, Redis and the mail server share no transaction.
  Correct means: nothing is lost, nothing is sent twice without a reason, the
  outcome on the row is what happened.
* *Authentication.* Two refreshes with one token, a reuse and a logout meet: a
  token must be exchanged once, a session must have one live token, and reuse must
  end the session. A user is read through a second pooled connection inside a
  transaction: everyone may wait for everyone.
* *Users.* One active administrator remains, whatever two of them do to each other.
* *Tours, categories.* Reads without a lock, saves that follow: a tour edited
  while it or its category is archived, booked while its price is edited. A total
  is computed on text. Correct means: no tour is in a category nobody checked, a
  booking has a price that was offered and its exact multiple.
* *Reviews, files.* Files are written before and removed after a transaction.

`PROJECT.json` lists each hazard at its line, and the properties that cover it.

## 2. Modules

| Module | What it is |
|---|---|
| `SeatReservation` | the promise: reservations on departures, no locks, no counter, every operation one step |
| `Bookings` | the transactions of bookings, departures and scheduler, statement by statement; `Promise` is the instance of `SeatReservation` it implements |
| `MCBookings` | values for TLC, bounds, symmetry |
| `BookingsProofs` | theorems about `Bookings`: seats, capacity, and the invariant all others rest on |
| `BookingsOutcomeProofs` | the rest of them: history, notifications, keys, times, locks, the refinement |
| `Notifications` | outbox, dispatchers, queue, workers, retry command |
| `NotificationsProofs` | theorems about `Notifications` |
| `Accounts` | users with role, status and avatar: administrators who change each other, profiles, registration |
| `AccountsProofs` | theorems about `Accounts` |
| `Galleries` | tours and reviews with their image rows and files, and the status of reviews |
| `GalleriesProofs` | theorems about `Galleries` |
| `RefreshTokens` | login, refresh and logout, token families, the pool of connections |
| `RefreshTokensProofs` | theorems about `RefreshTokens` |
| `Money` | decimal amounts as text, and `calculateTotal`: pure functions |
| `TourCatalogue` | tours and categories: create, edit, publish, archive; what departures and bookings read of them |
| `TourCatalogueProofs` | theorems about `Money` and `TourCatalogue` |
| `SchedulerCursor` | the runs of the scheduler: jobs, batches, cursors, failing bookings, restarts |
| `SchedulerCursorProofs` | theorems about `SchedulerCursor` |
| `MCNotifications`, `MCAccounts`, `MCGalleries`, `MCRefreshTokens`, `MCTourCatalogue`, `MCSchedulerCursor` | values and symmetry for TLC |

`SeatReservation` and `Bookings` are composed by refinement. `Bookings` and
`Notifications` meet in the outbox: `OutboxMatchesDecision` says which rows the
former writes, and `Notifications` lets rows appear at any time. `SchedulerCursor`
has the order in which the scheduler comes to rows, `Bookings` and `Notifications`
what it does to each. `TourCatalogue` has the columns of a tour that `Galleries`
leaves out, and uses `Money`. `Accounts`, `RefreshTokens` and `Galleries` share with
the others only rows that nobody there changes; `RefreshTokens` lets the status of
an account change at any time.

### Bookings

State: `departure`, `booking`, `history`, `outbox` are the tables; a row that is
deleted by no code stays. `tx[p]` is the transaction of process `p`: its
operation, the statement it is at, its input, the departure row it has read under
the lock (`row`), the rows it holds (`locks`), and the time a `create` began (which
is what `created_at` defaults to) or a scheduler run captured. `now` is
the clock; `answered` remembers what `create` answered, for a property only.

A transaction stops where it can wait or where others can come between:

| Stage | Statement | Action |
|---|---|---|
| begin | BEGIN, and for `create` the lookup of the key | `BeginCreate`, `AnswerRepeat`, `BeginCancel`, `BeginDecision`, `BeginUpdate`, `BeginWithdraw`, `BeginExpiry`, `SelectBatch` |
| `lockBooking` | `SELECT ... FOR UPDATE` on the booking and the checks on it | `LockBooking`, `RefuseBooking` |
| `lockDeparture` | the same for the departure | `LockDeparture`, `RefuseDeparture` |
| `insert` | the INSERT that meets the unique index on (user, key) | `InsertBooking`, `UniqueViolation`, `RefuseTour` |
| `reread` | the lookup after error 23505 | `AnswerAfterViolation` |
| `visit` | the UPDATE of a batch, which locks row after row | `VisitRow` |
| `commit` | the writes become visible, the locks are given up | `CommitCreate`, `CommitApproval`, `CommitRelease` (cancel, reject, expiry), `CommitUpdate`, `CommitWithdraw`, `CommitBatch` |

`Abort` is a lost connection or process at any stage. `OfferDeparture` is
`DeparturesService.create`, one INSERT. Decisions taken:

* READ COMMITTED: what a transaction writes appears at its COMMIT; a locked SELECT
  and a batch UPDATE see the row as it is when the lock is granted. TypeORM's
  `save` of a row loaded under the lock writes its changed columns.
* The scheduler is one replica (`scheduler.service.ts:42` says so of its cursors)
  and one run at a time (`waitForCompletion`), so it is one process that runs one
  job after another. Its time may be any moment up to now: a run can be slow.
* A schedule edit sends the whole schedule; DTOs may send one field, and the code
  validates the merged schedule, so a full one is no restriction.
* The tour that `create` looks up may be refused at any time (`RefuseTour`): tours
  are another module. `booking_code` collisions and the share locks of foreign keys
  are left out: the former is another way to fail, the latter conflict with nothing
  here (`FOR UPDATE` locks of the same row are already held by the inserter).
* The CHECK constraints of the tables are not guards. `SeatBalance`,
  `WithinCapacity` and `TypeOK` show that they never fire.

`SeatReservation` says the same without locks: `Reserve` when seats are free at
that moment, `Decide` a pending one, `Replan` a departure nobody holds a seat of,
and so on. `KeepsPromise` (the property `Promise!Spec`) says that every
transaction of `Bookings` takes effect as one of those steps or none.

### Notifications

A name in `Rows` is a deduplication key, which is also the job id. `outbox[r]` has
the time of the last check and the outcome; `job[r]` is the state in Bull, the
attempts made, whether it stalled before, and the worker that holds its lock.
`batch[x]` is a call of `dispatchPending` or `retryFailedNotifications` with the
rows it still has to visit; `attempt[w]` is what a worker is doing. Each await is a
step. `upcoming` are reminders whose departure is still ahead. `mails` counts what
the mail server accepted, `broken` the attempts that were broken off although
they had sent, or could still send, a mail.

Times are compared and never added, so the remembered ones are renumbered
whenever a new one is captured: the state space is finite with calls that go on
for ever. Bull is modelled from how the code uses it: adding an existing id does
nothing, a retry keeps the attempts counted, a job that a worker holds cannot be
removed, a worker that does not renew its lock loses the job and goes on, the
second stall fails the job.
`dispatched_at` is written and read nowhere, and left out. That a job found
completed is removed and added again (`notifications.service.ts:159`) never
happens with a pending row: `CompletedIsProcessed` shows that branch is a
precaution.

### Accounts

`user` is the table, indexed by e-mail address; `files` are avatar files, and an
avatar is a file, a URL elsewhere (`External`) or nothing. `tx[r]` is what request
`r` does: `role` and `status` are `updateRole` and `updateStatus`, which take the
advisory lock, then the row, then count the administrators; `profile` locks the
row only; `register` inserts one. An upload is written before the transaction and
removed if it fails; a replaced avatar is removed after the commit.

| Stage | Statement | Action |
|---|---|---|
| begin | the guard looks at the actor, the upload is written | `BeginDecision`, `UpdateProfile`, `Register` |
| `adminLock` | `pg_advisory_xact_lock` | `TakeAdminLock` |
| `row` | `SELECT ... FOR UPDATE`, or the INSERT of `register` | `LockRow`, `RefuseRow`, `InsertUser`, `EmailTaken` |
| `count` | the count of the other administrators | `CountAdmins`, `RefuseLastAdmin` |
| `commit` | COMMIT | `Commit`, `CommitUnconfirmed` |
| `cleanup` | `removeBestEffort` | `CleanUp` |

`Fail` is an error at any of them. A *fault* is worse: the answer to COMMIT is lost,
so that the code takes a committed transaction for a failed one
(`CommitUnconfirmed`), or the process or an `unlink` is lost (`Lose`). Faults are
bounded by `MaxFaults`. The guard looks at the actor once, when the request
arrives, as in `RolesGuard`; he may have lost his role when his change is made.

### Galleries

`gallery[o]` are the image rows of a tour or a review, `files` what is on disk;
one name stands for a row and its file. The parts of a request come in the order
of the code: a tour stores its uploads (`Store`), then locks itself and checks the
images again (`LockTour`); a review is locked first and stores its uploads while
it holds the lock; a new review stores first and meets the unique index after that
(`InsertReview`, `AlreadyReviewed`). Deletion and moderation are UPDATEs that look
at the status when they get the row. After the transaction the replaced files or,
if it failed, the uploaded ones are removed (`Finish`, `CleanUp`). Failures and
faults are those of `Accounts`; a process may also be lost between two files.

`unconfirmed`, in both modules, remembers uploads whose commit got no answer. The
code removes such files although the rows that name them are there. No test or doc
says what should happen, so the properties state exactly this exception.

The other columns of a tour, which the same code saves, are in `TourCatalogue`.

### RefreshTokens

`token` is the table of refresh tokens, a hash standing for its token; `active[u]`
is the status of an account, changed by administrators at any time. Beside the
family, which the code stores, a row remembers for the properties the token it was
exchanged for (`parent`) and the login it goes back to (`origin`). `tx[r]` is a
request.

| Stage | Statement | Action |
|---|---|---|
| connect | `transaction` takes a connection | `Connect`, `StartLogout` |
| `lock` | `SELECT ... FOR UPDATE` by hash, with the checks on it | `LockToken`, `DetectReuse`, `RefuseToken` |
| `revokeFamily` | the UPDATE of the family, row by row | `VisitRow`, `CommitReuse` |
| `readUser` | `usersService.findById`, on another connection | `ReadUser`, `RefuseUser`, `ReadLoginUser`, `RefuseLogin` |
| `commit`, `save` | the token is revoked and the new one inserted | `CommitRefresh`, `SaveLogin` |
| `update` | the UPDATE of `logout` | `FinishLogout` |

* An UPDATE of several rows picks them when it starts (`rows`, and `seen` for the
  property) and waits for the lock of each. So a token that another refresh issues
  while the UPDATE waits for it is not revoked: it survives the reuse.
  `ReuseEndsFamily` says what is revoked, and this is its exception. In the same way
  a `logout` of a token that is just being exchanged leaves its successor live. No
  doc or test promises otherwise.
* Holding a connection is `HasConnection`; a statement outside a transaction needs a
  free one for the moment it runs. The driver's pool has no timeout by default.
* The first token of a login may expire at any time, a successor not before the token
  it replaced: all have the same time to live, counted from their issue
  (`auth.service.ts:176`). That the configured time is shortened while tokens live is
  left out.
* A refresh that waits for its second connection while nobody can give one back is
  `PoolExhausted`: every connection is held by a refresh at the same statement, or by
  a request that waits for a row lock. On a pool of two, a refresh and a logout of its token
  are enough for it, and the code does nothing about it.

### TourCatalogue and Money

A plain edit reads the tour, checks the category if the input asks for it, and
saves. `save` of TypeORM reads the row again, compares, and writes the columns that
differ: hence `copy`, `diff` and the stages `save` (`CompareTour`) and `write`
(`WriteTour`). An edit with images goes through `lock` and `commit` instead, with a
fresh copy (`LockTour`, `CommitImages`) and the check of the category once more.
Categories are edited as tours are, without the check. `AddDeparture` and
`InsertDeparture` are the two statements of `DeparturesService.create`; `ReadOffer` and
`InsertBooking` what `BookingsService.create` does with the tour. Titles, codes and
slugs are left out; one that is taken is a `Fail`.

So a plain edit that was read before another one was saved may set back what that
one changed, an archiving included. The code does nothing about it and no doc
excludes it; `EditKeepsOthers` states the cases in which it cannot happen, above all
the edit with images, which must forget the copy it read before its lock, and
`NothingUnchecked` that even then no value appears that nobody checked. Checked means
checked once: a category that is archived after the look at it is in the window, too.

In `Money` an amount is a number of minor units, a text of the program two rows of
digits. `CalculateTotal` follows `calculateTotal`: fill the fraction, multiply, pad,
cut. `BookedAsOffered` compares it with multiplication, for a price below one unit
and for one above.

### SchedulerCursor

`job` is where a run is, `page` the rows of its batch still to be done, `cursor` the two
ids the process remembers. A booking has a stage (`old`: due for expiry; `near`: due
for a reminder), a departure a status and a `moment` (can be booked, cannot any more,
has ended). Each row is done in one step, since `Bookings` has the steps. A run works
with the time it started at, so the clock (`Ripen`, `PassTime`) moves between runs,
and forward only: departures that are moved or reopened are in `Bookings`;
customers and administrators act at any time. `BookingFails` is an error with one
booking, which the loop catches; `RunFails` one that ends the run; `Crash` a restart,
which forgets the cursors. The latter two are bounded by `MaxFaults`.

## 3. Runs

| Run | Question | Bounds |
|---|---|---|
| `seats` | do seats, history and outbox stay consistent when customers, an administrator, the expiry and a withdrawal race for the last seats? | two requests and the scheduler, two customers with one key, two bookings of one or two seats, two departures with two seats and two schedules, until the earlier one starts |
| `departures` | can edits, withdrawals and batches of the scheduler break what bookings rely on? | two requests and the scheduler, two customers, two bookings of one seat, one departure; create, cancel, update, withdraw, close and complete, two capacities, two schedules, a clock |
| `liveness` | does every transaction end? | two requests and the scheduler, two bookings with one key, two departures; offer, create, cancel, approve, expiry and the closing batch, under `FairSpec` |
| `retry` | is a retry of the same request safe, as the API says? | two requests with one key; violated, see below |
| `dispatch` | are mails sent once, and outcomes true? | a reminder and a legacy job (waiting, or failed by errors or by stalling), a dispatcher, the retry command, two workers, one fault |
| `recovery` | is every row settled in the end? | two rows, pages of one, three faults |
| `accounts` | can administrators remove each other, and do avatars and files stay together? | two requests, two accounts, three files, one fault |
| `images` | the same for images of tours and reviews, their number, and deleted reviews | two requests, a tour and a review, three files, at most two images, two faults |
| `tokens` | is a token exchanged once, does reuse end a session, is everyone answered? | two requests, one account, three tokens, a pool of two connections, under `FairSpec` |
| `catalogue` | what can concurrent edits do to a tour, and what is booked? | two requests at a time, six in all, one tour, two categories, two prices, two quantities |
| `archived` | does an archived tour get a departure? | as above, four requests; violated, see below |
| `cursor` | does every due booking and departure have its turn? | two bookings, two departures, batches of one, two faults, under `FairSpec` |

Two competitors suffice for a lost update or a race on one row and three
processes for a circle of waiting; two seats and quantities of one and two give
the last seat, the too-large request and the empty departure; the clock is as
long as a schedule has moments (before, deadline, start, end). The two schedules of
`departures` can both be booked at 0, the later one also at 1, when the earlier one has
started: so a departure may be moved before the time a booking was made at, which
`BookedInTime` forbids while the booking holds seats, and the second booking lets a
customer come while the administrator checks, or take seats that another one gave back.
The operations that `liveness` leaves out lock what others lock: reject is a cancel,
update and withdraw take one departure, completing is closing. Two accounts are the
two administrators who remove each other, or one and a registration; three files
are two uploads of different requests and the file one of them replaces, or a
gallery that is full when one of them adds to it. Three tokens are two logins and an exchange, or a
chain of two exchanges with a reuse of the first; with two connections a refresh that
reuse or logout waits for may find none left, and two that wait for each other's rows
would be a circle that the condition of `Answered` does not excuse. Six requests on the
catalogue are create, publish, departure, booking and two more that meet. Batches of
one out of two make every batch too small and every cursor necessary. In `recovery` three
faults fail one row's job for good (two attempts) and lose the other's. Every
other bound is named in its module or in `MCBookings`; ids that a request
needs are drawn when it begins, so that no bound stops a transaction half-way.

Besides the type invariants the properties are: `SeatBalance`, `WithinCapacity`,
`HistoryExplainsStatus`, `OutboxMatchesDecision`, `DecidedOnce`, `OneBookingPerKey`,
`NobodyStranded`, `BookedInTime`, `CompletedAfterEnd`, `DepartureEndsOnce`,
`NoDeadlock`, `RequestEnds`, `KeepsPromise` and the inductive `WorkInv` for the
bookings; an `IndInv`, `CompletedIsProcessed`, `NoNeedlessResend`, `HonestOutcome`,
`ProcessedIsFinal`, `JobKeptUntilProcessed` and `Recovered` for the mails; `AdminRemains`,
`AvatarHasFile`, `NoLeftovers` and an `IndInv` for the accounts; `WithinLimit`,
`ImageHasFile`, `NoLeftovers`, `DeletedIsEmpty`, `DeletedIsFinal` and an `IndInv` for
the images; `OneLivePerFamily`, `ReuseEndsFamily`, `Answered` and an `IndInv` (of which
`RotatedOnce` is a part) for the sessions; `NothingUnchecked`, `BookedAsOffered` and
`EditKeepsOthers` for the catalogue; `ComesRound` and `DeparturesSettle` for the
scheduler. Each is stated in words where it is defined. Operators marked "Mutant" in the modules
are plausible errors in one definition; with each of them put in place the
property it belongs to fails.

**Finding** (`retry`). The API describes the idempotency key as one "used to safely
retry the same booking request" (`bookings.controller.ts:48`). `create` looks the
key up before it waits for the departure (`bookings.service.ts:58`) and not again
after it. A retry that waits behind the original is then judged by the seats the
original has taken and refused with `bookingNotEnoughSeats`, although its booking
exists. Nothing is booked twice; the client is told the wrong thing.

**Finding** (`archived`). "Archived tours cannot receive departures"
(`tours/admin-tour-departures.controller.ts:68`) and "An archived tour cannot receive
new departures" (`i18n/en/errors.json:19`). `create` looks at the status
(`departures.service.ts:115`) and inserts later (`:137`), with no lock and no
transaction around the two. A tour that is archived in between gets a departure that
is open; it cannot be booked, since `create` of a booking asks for a published tour.

**Fairness.** `RequestEnds` assumes that whoever can commit does (weak fairness) and
that a lock that is free again and again is granted in the end (strong fairness:
lock queues of PostgreSQL are served in order of arrival). It does not count on
`Abort`, that is on the deadlock detector or a timeout. `Recovered` assumes weak
fairness of the scheduler's dispatch (cron, each minute), of the workers and of the
queue's timers, and finitely many faults; nobody has to run the retry command, so
it promises only "settled, or failed for good". `Answered` assumes that a request
which can go on again and again does: the pool and the lock queues serve in order of
arrival. Its condition is that the pool is not `PoolExhausted` again and again, no more:
without it the code promises nothing, and TLC finds the refresh that waits for a second
connection for ever while a logout holds the other and waits for the refresh. A pool whose
connections are merely all taken, or requests that wait for each other's rows, do not
falsify the condition: there every request must end. The mutant `WholeFamily`, a
revocation that also takes revoked rows, makes two reuses wait for each other.
`ComesRound` and `DeparturesSettle` assume weak fairness of the run (cron, each minute; a run goes on to
its end) and finitely many broken runs, but not that any booking ever succeeds. "A
booking that failed is tried again after the cursor has come round" is what the
repository's `README.md:100` says.

## 4. Proofs

Every safety property that a passing run checks, invariant, action property or
refinement, is also a theorem: the run shows it on a small instance, the theorem for
any number of requests, rows, files, workers and faults, under the assumption that
the module states for its constants. `PROJECT.json` lists the theorems with their
properties. In all the modules the shape is the same: a lemma for a step that
concerns one request or leaves the variables of an invariant alone, one lemma per
statement, one for each commit. The inductive invariants were checked by TLC before
they were proved; those of `Bookings`, `Notifications`, `Accounts`, `Galleries` and
`RefreshTokens` are properties of runs.

### Bookings

`BookingsProofs` proves, under `ConstantsAssumption` and `NoneAssumption`:

* `Inductive`: `Spec => []IndInv`;
* from it `TypeCorrect`, `SeatsBalance`, `NeverOverbooked` and `NobodyIsStranded`.

None of these is inductive alone. A commit writes `booked_seats` from the copy in
`tx[p].row`, so `IndInv` has to say what the locks are for:

* `LocksExclusive`: a row is held by one transaction;
* `BookingIsPending`, `DepartureIsCurrent`: past its check a transaction holds the
  row, and the table still has what it read;
* `CheckStillHolds`: what it concluded from that row (enough seats, no reservation)
  is still true at the commit;
* `FreshId` and `BookedDepartureExists`: the new id is nobody else's, and the foreign
  key.

A step of `p` that only moves `tx[p]` concerns `p` alone (`LocalStep`); a commit that
writes the rows `p` holds cannot disturb what others rely on, which are rows they
hold (`OthersKeep`); the sum of seats changes by one booking's block of `SeatUnits`
(`AddBlock`, `RemoveBlock`), so `SeatBalance` follows from `DepartureIsCurrent`.
`SeatUnits` counts seats as the cardinality of a set of pairs, so that no recursive
sum is needed.

`BookingsOutcomeProofs` proves the others. What a transaction knows of times, keys
and locks is not in `IndInv`; `WorkInv` adds it (`WorkInductive`):

* `BeganInPast`, `ScheduleStillAllows`: a `create` began before the deadline of the
  departure it holds, an update or withdrawal meets one that has not ended;
* `KeyIsFree`: past the unique index nobody else has the key, committed or not;
* `LocksFollowStage`: bookings are locked before departures.

Every step is quiet, offers a departure, is a commit, or writes a batch
(`StepKinds`), and each theorem goes through those kinds only:

* `HistoryExplains`, `NoticesMatch`: a commit appends to the history, and writes the
  outbox row, of a booking that is pending because it is locked;
* `DecidesOnce`, `DepartureStaysEnded`: what a commit overwrites was pending, or had
  not ended, when the lock was granted and so still is;
* `KeysAreIdempotent`: counted as the cardinality of the bookings with a key, which
  `KeyIsFree` keeps at one; an answer names the booking that is there;
* `BookingsInTime`, `CompletedWhenOver`: a schedule is replaced only while nobody holds
  a seat, and the clock runs forward;
* `NobodyDeadlocks`: in any set of transactions somebody waits for nobody in the set.
  Who waits for a lock waits for somebody at a later place of the order booking,
  departure, batch, unique index, commit (`WaitsForward`); whoever is last in that order
  is not blocked. This holds for circles of every length;
* `ImplementsPromise` (`KeepsPromise`): every commit is one step of `SeatReservation`,
  whose variables are the tables, and everything else leaves them alone. The guard of
  `Reserve` counts seats where the code compares `booked_seats`; `SeatBalance` makes
  them equal.

### Notifications

`NotificationsProofs`: `Inductive`, `TypeCorrect`, `CompletedWhenProcessed`,
`OutcomesHonest`, `SentOnce`, `OutcomesFinal` and `JobsKept`.

That a mail goes out once is not inductive, since a worker sends before it marks the
row and may have lost its lock by then. `IndInv` keeps an account instead
(`MailsAccounted`): mails sent and attempts that have found the row pending and may
still send (`Unsent`) are together at most one more than the attempts that were
broken off, and not even one more while nobody with the lock is between finding the
row pending and marking it, or when it was skipped. A worker that loses its lock
moves from one side of the account to the other. The rest says what attempts
(`AttemptKnows`) and batches (`BatchKnows`) have learnt and that a lock's holder works
on its job (`HolderWorks`); a batch that is about to remove a job has seen its row
settled, and rows stay settled, which is `JobsKept`. The sets of workers and batches
are assumed finite: they are processes.

### Accounts

`AccountsProofs`: `Inductive`, `TypeCorrect`, `AnAdminRemains`, `AvatarsExist` and
`NothingIsLeft`.

That an administrator remains is not inductive, because the count is taken before the
write. `IndInv` adds that one decision is between lock and commit (`OneDecision`),
that a row is held by one request (`OneWriter`) and is what was read
(`RowIsCurrent`), that an inserted address is new (`EmailIsNew`), and `SomebodyElse`:
whoever is about to take an administrator away leaves another one. Only decisions
take administrators away, and there is one at a time.

For the files a second invariant, `FilesInv`, is inductive given the first: no two
accounts have the same file, an upload is nobody's avatar and no other request's, a
file about to be removed is no avatar unless its commit got no answer (`FilesApart`);
and without a fault every file is an avatar, the upload of a request under way, or
about to be removed (`FilesAccounted`). It needs `RowIsCurrent`: the avatar that a
commit replaces is the one the request has read. `AccountsAssumption` says, for that
proof, that a file is not called like a role or a status, which share the column
`change` of a request with it.

### Galleries

`GalleriesProofs`: `Inductive`, `TypeCorrect`, `NeverTooManyImages`, `ImagesHaveFiles`,
`DeletedReviewsAreEmpty`, `NothingIsLeft` and, as an action property,
`DeletionIsFinal`. `IndInv` says that a row is held by one request (`OneWriter`), that
what was checked under the lock is allowed until the commit (`StillAllowed`), that
what is created is new and what is changed is there (`StillNew`), and that the files
of a request are in no gallery and wanted by no other request (`FilesApart`), which is
why removing them harms nobody. The bound on images follows from `StillAllowed` and
the size of a set that lost one part and gained another (`ChangedSize`). That nothing
is left over follows from an invariant of its own, `FilesAccounted`, as for accounts.

### RefreshTokens

`RefreshTokensProofs`: `ChainsInductive`, `ExchangedOnce` (`RotatedOnce`), `OneLive`
(`OneLivePerFamily`) and, as an action property, `ReuseEndsSession`
(`ReuseEndsFamily`), and `RowLocksNeverCircle` (`NoRowDeadlock`), for any pool. That a
token is exchanged once follows from what its row lock is for: a refresh past its check holds the row, and it is still live
(`SubjectIsLive`, `LocksExclusive`). Every token but a login's has a parent that is
revoked, of the same account and login (`Lineage`); so the tokens of a login are a
chain, and the one that nobody has exchanged is unique (`OneTip`). A live token has no
successor, hence two live ones are the same. An UPDATE of a family has before it or
holds all it saw and that is still live (`FamilyCovered`): at its commit nothing is
before it, so what it does not hold is revoked already.

That requests never wait for rows in a circle, of any length, is the safety half of
`Answered`. Only the UPDATE of a family waits while it holds a row. It takes rows that were
live when it started, of which there is one at most, so while it waits it holds only the
token that was reused (`OneRowLeft`). If another such UPDATE waits for that token, it
started when the token was live, that is earlier: the one that holds has seen a token
which the one that waits has not (`LaterHolds`). What has been seen only grows, so of the
UPDATEs in a circle the one that has seen most would wait for nobody. `Ordered` is the
invariant; it needs `OneLivePerFamily` and that the tokens there are, unlike the supply
of tokens, are finitely many.

### TourCatalogue and Money

`TourCatalogueProofs`: `Inductive`, `NothingIsUnchecked`, `BookingsKeepTheOffer`,
`EditsKeepOthers` and `TotalIsExact`.

A request saves a copy that it read without a lock, so what the table may become
depends on what every request holds. `IndInv` says for each operation what it holds
between its statements (`Knows`): a copy that is to be saved has a category that was
checked for this tour, and is published only after a check that asked for it
(`Vetted`); one whose check is still ahead lacks at most what its input names
(`AlmostVetted`); a booking holds a price that was offered. A plain edit writes only
columns in which its copy differed from the row when the two were compared, so the row
afterwards is a mixture of two rows that are vetted, and vetted itself. A transaction with images
holds the lock (`OneWriter`), so its copy is the row with its input applied; a tour
under creation is nobody else's. `EditsKeepOthers` is about single steps and follows
from what `Knows` says of `copy` and `base`.

`TotalIsExact` is about `calculateTotal`: for every price and every quantity the text it
returns is the exact product, also when the product has fewer than three digits and
is padded. It needs induction over numbers (`Digits`) and over rows of digits
(`Value`). The library's induction theorems have an operator as a parameter, which
cannot be instantiated here; `Descent` states induction for a set of numbers instead,
and rests on `Least`, that a set of naturals has a least element, which follows from
well-foundedness of inclusion on finite sets.

### SchedulerCursor

`SchedulerCursorProofs`: `BatchIsAhead` (`TypeOK` and `PageIsAhead`: the rest of a batch
lies beyond the cursor), and from it `CursorsAdvance`: a cursor never goes back over
bookings it has passed until the table ends or the process restarts. A batch is a
finite set of numbers, so that its first row exists (`Least`). These are the safety half
of `ComesRound`; the run of the module asks about liveness only.

### What is not proved

Checked by TLC only: `RequestEnds`, `Recovered`, `Answered`, `ComesRound` and
`DeparturesSettle`. They are liveness under fairness, which the provers cannot do. The
two findings are counterexamples of TLC. What every proof takes for granted is the
assumption named and the module itself: that the model says what the code does is
argued in section 2, not proved.

## 5. Not modelled, and the plan

Not modelled, and not planned: schema, migrations and seeds (declarations; the
initial states are their empty tables); DTOs, guards, filters, translations and
templates (wording and parsing); paged reads, searches and downloads, which change
nothing; password hashing, JWT signing and the validation of images.

Left out inside modelled parts: `booking_code` collisions and foreign key locks
(`Bookings`), `dispatched_at` (`Notifications`), titles, codes and slugs
(`TourCatalogue`), the steps within one row (`SchedulerCursor`). Hazards in
`PROJECT.json` without a property have the reason beside them: the code lets them happen
and nothing in the repository says it should not. Some awaits are one
step, where what comes between them changes nothing: the question for a job and for its
state, and the second look at a row with the removal of its job, which `CompletedIsProcessed`
shows is never reached (`Notifications`); the lock on a reused token and the start of the
UPDATE, since the lock may as well have been granted later (`RefreshTokens`).

What is left to do:

1. Safety lemmas towards the liveness properties: a bound on the steps that are left to a
   transaction, or to a run of the scheduler, that every step of it lowers. `RequestEnds`
   and `ComesRound` then rest on fairness alone.
2. `OneWriter` and `OneDecision` say who holds a lock; that nobody waits in a circle, as
   `NobodyDeadlocks` and `RowLocksNeverCircle` say, is not stated for `Accounts`. The image
   transaction of a tour needs a second connection as refresh does, which only
   `RefreshTokens` models.
3. An abstract specification of a session (a login, its one live token, its end) and
   the proof that `RefreshTokens` implements it.

## 6. Running

    tlc -config MCBookings_seats.cfg MCBookings.tla
    tlc -config MCNotifications_recovery.cfg MCNotifications.tla
    tlc -config MCRefreshTokens_tokens.cfg MCRefreshTokens.tla
    tlc -config MCTourCatalogue_catalogue.cfg MCTourCatalogue.tla
    tlc -config MCSchedulerCursor_cursor.cfg MCSchedulerCursor.tla
    tlapm BookingsProofs.tla

and so on for the other configurations, which are named after their module and run,
and for the other `...Proofs` modules.

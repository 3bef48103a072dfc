------------------------ MODULE NotificationsProofs ------------------------
(***************************************************************************)
(* Proofs about Notifications, for every set of rows, dispatchers, commands*)
(* and workers, every batch size, and every number of attempts and faults. *)
(***************************************************************************)
EXTENDS Notifications, FiniteSetTheorems, TLAPS

-----------------------------------------------------------------------------
(* The parts of the type invariant, one for each variable.                 *)

OutboxRow == [checked : Nat, delivery : {"sent", "skipped", None}]

OutboxTyped == DOMAIN outbox \subseteq Rows /\ outbox \in [DOMAIN outbox -> OutboxRow]

JobTyped == job \in [Rows -> Job]

BatchTyped ==
  /\ batch \in [Batches -> Batch]
  /\ \A d \in Dispatchers : batch[d].todo \subseteq DOMAIN outbox
  /\ \A x \in Batches : batch[x].row # None => batch[x].row \in DOMAIN outbox

AttemptTyped ==
  /\ attempt \in [Workers -> Attempt]
  /\ \A w \in Workers : ~Working(w, "idle") => attempt[w].row \in Rows
  /\ \A w \in Workers : attempt[w].stage \notin {"idle", "read"}
                          => attempt[w].row \in DOMAIN outbox

RestTyped ==
  /\ upcoming \subseteq Reminders
  /\ mails \in [Rows -> Nat]
  /\ broken \in [Rows -> Nat]
  /\ faults \in 0 .. MaxFaults

(* Together they are TypeOK.                                               *)
LEMMA Typed ==
  TypeOK <=> OutboxTyped /\ JobTyped /\ BatchTyped /\ AttemptTyped /\ RestTyped
BY DEF TypeOK, OutboxTyped, OutboxRow, JobTyped, BatchTyped, AttemptTyped, RestTyped

-----------------------------------------------------------------------------
(* Lemmas on operators.                                                    *)

(* The moments that are remembered can be counted.                         *)
LEMMA MomentsCounted ==
  ASSUME TypeOK
  PROVE  Cardinality(Moments) + 1 \in Nat /\ \A t : Renumbered(t) \in Nat
<1> DEFINE checked == {outbox[r].checked : r \in DOMAIN outbox}
           times == {batch[x].now : x \in Batches}
<1>1. IsFiniteSet(DOMAIN outbox)
  BY FS_Subset, NotificationAssumption DEF TypeOK
<1>2. IsFiniteSet(Batches)
  BY FS_Union, NotificationAssumption DEF Batches
<1>3. IsFiniteSet(checked)
  <2> DEFINE f == [r \in DOMAIN outbox |-> outbox[r].checked]
  <2>1. f \in Surjection(DOMAIN outbox, checked)
    BY DEF Surjection
  <2> QED
    BY <1>1, <2>1, FS_Surjection
<1>4. IsFiniteSet(times)
  <2> DEFINE f == [x \in Batches |-> batch[x].now]
  <2>1. f \in Surjection(Batches, times)
    BY DEF Surjection
  <2> QED
    BY <1>2, <2>1, FS_Surjection
<1>5. IsFiniteSet(checked \cup times)
  BY <1>3, <1>4, FS_Union
<1>6. Moments \subseteq checked \cup times
  BY DEF Moments
<1>7. IsFiniteSet(Moments) /\ Cardinality(Moments) \in Nat
  BY <1>5, <1>6, FS_Subset, FS_CardinalityType
<1>8. ASSUME NEW t
      PROVE  Renumbered(t) \in Nat
  <2>1. {u \in Moments : u <= t} \subseteq Moments
    OBVIOUS
  <2>2. IsFiniteSet({u \in Moments : u <= t})
    BY <1>7, <2>1, FS_Subset
  <2> QED
    BY <2>2, FS_CardinalityType DEF Renumbered
<1> QED
  BY <1>7, <1>8

(* A batch goes on with a set of rows, or ends.                            *)
LEMMA GoesOn ==
  ASSUME BatchTyped, NEW x \in Batches, NEW S \in SUBSET Rows, GoOn(x, S)
  PROVE  \E e \in Batch : /\ batch' = [batch EXCEPT ![x] = e]
                          /\ e.stage \in {"idle", "next"} /\ e.row = None /\ e.todo \subseteq S
<1> DEFINE e == IF S = {} THEN NoBatch
                ELSE [stage |-> "next", todo |-> S, row |-> None, now |-> batch[x].now]
<1>1. batch[x].now \in Nat
  BY DEF BatchTyped, Batch
<1>2. e \in Batch /\ e.stage \in {"idle", "next"} /\ e.row = None /\ e.todo \subseteq S
  BY <1>1 DEF Batch, NoBatch
<1>3. batch' = [batch EXCEPT ![x] = e]
  BY DEF GoOn
<1> HIDE DEF e
<1> QED
  BY <1>2, <1>3

(* The row that a job of the older version is about is written when the    *)
(* job is first met; that settles nothing.                                 *)
LEMMA RowMade ==
  ASSUME OutboxTyped, NEW r \in Rows, outbox' = WithRow(r)
  PROVE  /\ OutboxTyped'
         /\ DOMAIN outbox \subseteq DOMAIN outbox' /\ r \in DOMAIN outbox'
         /\ \A o : Fate(o)' = Fate(o)
         /\ Fate(r) = outbox'[r].delivery
<1> DEFINE new == [checked |-> 0, delivery |-> None]
<1>1. new \in OutboxRow /\ new.delivery = None
  BY DEF OutboxRow
<1> HIDE DEF new
<1>2. CASE r \in DOMAIN outbox
  BY <1>2 DEF WithRow, Fate, OutboxTyped
<1>3. CASE r \notin DOMAIN outbox
  <2>1. outbox' = [o \in DOMAIN outbox \cup {r} |-> IF o = r THEN new ELSE outbox[o]]
    BY <1>3 DEF WithRow, new
  <2> QED
    BY <1>1, <1>3, <2>1 DEF Fate, OutboxTyped
<1> QED
  BY <1>2, <1>3

-----------------------------------------------------------------------------
(* The rows.                                                               *)

(* The steps that write a row.                                             *)
LEMMA RowWriters ==
  ASSUME TypeOK, [Next]_vars
  PROVE  \/ outbox' = outbox
         \/ \E r \in Rows : outbox' = WithRow(r)
         \/ \E x \in Batches : Begin(x) \/ MarkChecked(x)
         \/ \E w \in Workers : Mark(w)
<1>1. ASSUME NEW r \in Rows, Write(r) \/ Depart(r) \/ Stall(r) \/ Promote(r) \/ LoseJob(r)
      PROVE  outbox' = outbox \/ outbox' = WithRow(r)
  BY <1>1 DEF Write, Depart, Stall, Promote, LoseJob
<1>2. ASSUME NEW d \in Dispatchers, Dispatch(d)
      PROVE  outbox' = outbox \/ Begin(d) \/ MarkChecked(d)
  BY <1>2 DEF Dispatch, SelectPending, Reread, Add, Look
<1>3. ASSUME NEW c \in Commands, RetryFailed(c)
      PROVE  outbox' = outbox \/ Begin(c) \/ MarkChecked(c) \/ \E r \in Rows : outbox' = WithRow(r)
  BY <1>3 DEF RetryFailed, SelectFailed, Remove, Retry, Find
<1>4. ASSUME NEW w \in Workers, Work(w) \/ AttemptError(w) \/ Crash(w) \/ LoseLock(w)
      PROVE  outbox' = outbox \/ Mark(w) \/ \E r \in Rows : outbox' = WithRow(r)
  <2>1. CASE Read(w)
    BY <2>1 DEF Read, TypeOK, Working
  <2> QED
    BY <1>4, <2>1 DEF Work, Take, Recheck, Send, Complete, AttemptError, Crash, LoseLock
<1>5. ASSUME NEW x \in Batches, RowError(x) \/ Quit(x)
      PROVE  outbox' = outbox
  BY <1>5 DEF RowError, Quit
<1>6. CASE UNCHANGED vars
  BY <1>6 DEF vars
<1> QED
  BY <1>1, <1>2, <1>3, <1>4, <1>5, <1>6 DEF Next, Batches

(* The mark of an attempt settles a row that is pending, and no other.     *)
LEMMA MarkSettles ==
  ASSUME OutboxTyped, AttemptTyped, NEW w \in Workers, Mark(w)
  PROVE  /\ OutboxTyped' /\ DOMAIN outbox' = DOMAIN outbox
         /\ attempt[w].row \in DOMAIN outbox
         /\ \A r : Fate(r)' = IF r = attempt[w].row /\ Fate(r) = None THEN attempt[w].outcome
                                                                   ELSE Fate(r)
<1>0. PICK o : o = attempt[w].row
  OBVIOUS
<1>1. o \in DOMAIN outbox /\ attempt[w].outcome \in {"sent", "skipped", None}
  BY <1>0 DEF AttemptTyped, Attempt, Mark, Working
<1>2. outbox' = [outbox EXCEPT ![o].delivery = Settled(o, attempt[w].outcome)]
  BY <1>0 DEF Mark
<1>3. /\ Settled(o, attempt[w].outcome) \in {"sent", "skipped", None}
      /\ Settled(o, attempt[w].outcome) = IF outbox[o].delivery # None THEN outbox[o].delivery
                                                                   ELSE attempt[w].outcome
  BY <1>1 DEF Settled, Processed, OutboxTyped, OutboxRow
<1>4. /\ DOMAIN outbox' = DOMAIN outbox
      /\ \A r \in DOMAIN outbox : outbox'[r] \in OutboxRow
      /\ outbox'[o].delivery = Settled(o, attempt[w].outcome)
      /\ \A r \in DOMAIN outbox \ {o} : outbox'[r] = outbox[r]
  BY <1>1, <1>2, <1>3 DEF OutboxTyped, OutboxRow
<1>5. outbox' = [r \in DOMAIN outbox |-> outbox'[r]]
  BY <1>1, <1>2 DEF OutboxTyped
<1>6. OutboxTyped'
  BY <1>1, <1>4, <1>5 DEF OutboxTyped
<1>7. /\ Fate(o) = outbox[o].delivery /\ Fate(o)' = Settled(o, attempt[w].outcome)
      /\ \A r : r # o => Fate(r)' = Fate(r)
  BY <1>1, <1>4 DEF Fate
<1>8. \A r : Fate(r)' = IF r = o /\ Fate(r) = None THEN attempt[w].outcome ELSE Fate(r)
  BY <1>3, <1>7
<1> QED
  BY <1>0, <1>1, <1>4, <1>6, <1>8

(* A row stays, and only the mark of an attempt settles it, once.          *)
LEMMA RowsStay ==
  ASSUME TypeOK, [Next]_vars
  PROVE  /\ OutboxTyped'
         /\ DOMAIN outbox \subseteq DOMAIN outbox'
         /\ \A r : \/ Fate(r)' = Fate(r)
                   \/ \E w \in Workers : /\ Mark(w) /\ r = attempt[w].row
                                         /\ Fate(r) = None
                                         /\ Fate(r)' = attempt[w].outcome
<1>1. OutboxTyped /\ AttemptTyped /\ BatchTyped
  BY Typed
<1>2. CASE outbox' = outbox
  BY <1>1, <1>2 DEF OutboxTyped, OutboxRow, Fate
<1>3. ASSUME NEW r \in Rows, outbox' = WithRow(r)
      PROVE  OutboxTyped' /\ DOMAIN outbox \subseteq DOMAIN outbox' /\ \A o : Fate(o)' = Fate(o)
  BY <1>1, <1>3, RowMade
<1>4. ASSUME NEW x \in Batches, Begin(x)
      PROVE  OutboxTyped' /\ DOMAIN outbox \subseteq DOMAIN outbox' /\ \A o : Fate(o)' = Fate(o)
  <2>1. outbox' = [r \in DOMAIN outbox |->
                     [outbox[r] EXCEPT !.checked = Renumbered(outbox[r].checked)]]
    BY <1>4 DEF Begin
  <2>2. \A t : Renumbered(t) \in Nat
    BY MomentsCounted
  <2>3. \A r \in DOMAIN outbox : outbox'[r] \in OutboxRow /\ outbox'[r].delivery = outbox[r].delivery
    BY <1>1, <2>1, <2>2 DEF OutboxTyped, OutboxRow
  <2> QED
    BY <1>1, <2>1, <2>3 DEF OutboxTyped, Fate
<1>5. ASSUME NEW x \in Batches, MarkChecked(x)
      PROVE  OutboxTyped' /\ DOMAIN outbox \subseteq DOMAIN outbox' /\ \A o : Fate(o)' = Fate(o)
  <2>1. batch[x].now \in Nat
    BY <1>1 DEF BatchTyped, Batch
  <2>2. outbox' = outbox \/ outbox' = [outbox EXCEPT ![batch[x].row].checked = batch[x].now]
    BY <1>5 DEF MarkChecked
  <2>3. /\ DOMAIN outbox' = DOMAIN outbox
        /\ \A r \in DOMAIN outbox : /\ outbox'[r] \in OutboxRow
                                    /\ outbox'[r].delivery = outbox[r].delivery
    BY <1>1, <2>1, <2>2 DEF OutboxTyped, OutboxRow
  <2>4. outbox' = [r \in DOMAIN outbox |-> outbox'[r]]
    BY <1>1, <2>2 DEF OutboxTyped
  <2> QED
    BY <1>1, <2>3, <2>4 DEF OutboxTyped, Fate
<1>6. ASSUME NEW w \in Workers, Mark(w)
      PROVE  /\ OutboxTyped'
             /\ DOMAIN outbox' = DOMAIN outbox
             /\ \A r : \/ Fate(r)' = Fate(r)
                       \/ r = attempt[w].row /\ Fate(r) = None /\ Fate(r)' = attempt[w].outcome
  BY <1>1, <1>6, MarkSettles
<1> QED
  BY <1>2, <1>3, <1>4, <1>5, <1>6, RowWriters

-----------------------------------------------------------------------------
(* Dispatchers and commands.                                               *)

(* What holds of the entry e of a dispatcher or a command x.               *)
Entry(x, e) ==
  /\ e \in Batch
  /\ x \in Dispatchers => e.todo \subseteq DOMAIN outbox
  /\ e.row # None => e.row \in DOMAIN outbox
  /\ e.stage \in {"reread", "add", "remove", "retry", "check"} => e.row # None
  /\ e.stage \in {"reread", "remove"} => Fate(e.row) # None

Entries == batch \in [Batches -> Batch] /\ \A x \in Batches : Entry(x, batch[x])

(* Entries is what the types and BatchKnows of the invariant say.          *)
LEMMA EntriesKnown ==
  Entries <=> BatchTyped /\ \A x \in Batches : BatchKnows(x)
BY DEF Entries, Entry, BatchTyped, BatchKnows, Batches

(* What was known of an entry stays known: rows stay, and stay settled.    *)
LEMMA EntryStays ==
  ASSUME TypeOK, [Next]_vars, NEW x, NEW e, Entry(x, e)
  PROVE  Entry(x, e)'
<1>1. DOMAIN outbox \subseteq DOMAIN outbox' /\ \A r : Fate(r) # None => Fate(r)' # None
  BY RowsStay
<1> QED
  BY <1>1 DEF Entry

(* A step that changes one entry.                                          *)
LEMMA OneEntry ==
  ASSUME TypeOK, Entries, [Next]_vars, NEW x \in Batches, NEW e, Entry(x, e)',
         batch' = [batch EXCEPT ![x] = e]
  PROVE  Entries'
<1>1. e \in Batch
  BY DEF Entry
<1>2. batch' \in [Batches -> Batch] /\ batch'[x] = e /\ \A y \in Batches \ {x} : batch'[y] = batch[y]
  BY <1>1 DEF Entries
<1>3. \A y \in Batches : Entry(y, batch[y])'
  <2> TAKE y \in Batches
  <2>1. CASE y = x
    BY <2>1, <1>2 DEF Entry
  <2>2. CASE y # x
    <3>1. PICK f : f = batch[y]
      OBVIOUS
    <3>2. Entry(y, f)
      BY <3>1 DEF Entries
    <3>3. Entry(y, f)'
      BY <3>2, EntryStays
    <3>4. batch'[y] = f
      BY <2>2, <1>2, <3>1
    <3> QED
      BY <3>3, <3>4 DEF Entry
  <2> QED
    BY <2>1, <2>2
<1> QED
  BY <1>2, <1>3 DEF Entries

(* A batch that goes on with a set of rows, or ends.                       *)
LEMMA EntryGoesOn ==
  ASSUME TypeOK, Entries, [Next]_vars, NEW x \in Batches, NEW S \in SUBSET Rows, GoOn(x, S),
         x \in Dispatchers => S \subseteq DOMAIN outbox
  PROVE  Entries'
<1>1. PICK e \in Batch : /\ batch' = [batch EXCEPT ![x] = e]
                         /\ e.stage \in {"idle", "next"} /\ e.row = None /\ e.todo \subseteq S
  BY GoesOn, Typed
<1>2. Entry(x, e)
  BY <1>1 DEF Entry
<1>3. Entry(x, e)'
  BY <1>2, EntryStays
<1> QED
  BY <1>1, <1>3, OneEntry

(* A call that begins renumbers the times of all of them.                  *)
LEMMA EntriesBegin ==
  ASSUME TypeOK, Entries, [Next]_vars, NEW x \in Batches, Begin(x)
  PROVE  Entries'
<1> DEFINE new == [NoBatch EXCEPT !.stage = "select", !.now = Cardinality(Moments) + 1]
<1>1. Cardinality(Moments) + 1 \in Nat /\ \A t : Renumbered(t) \in Nat
  BY MomentsCounted
<1>2. new \in Batch /\ new.todo = {} /\ new.row = None /\ new.stage = "select"
  BY <1>1 DEF NoBatch, Batch
<1>3. batch' = [y \in Batches |-> IF y = x THEN new
                                   ELSE [batch[y] EXCEPT !.now = Renumbered(batch[y].now)]]
  BY DEF Begin
<1> HIDE DEF new
<1>4. \A y \in Batches \ {x} :
        /\ batch'[y] \in Batch
        /\ batch'[y].stage = batch[y].stage
        /\ batch'[y].row = batch[y].row
        /\ batch'[y].todo = batch[y].todo
  BY <1>1, <1>3 DEF Entries, Batch
<1>5. batch' \in [Batches -> Batch] /\ batch'[x] = new
  BY <1>2, <1>3, <1>4
<1>6. DOMAIN outbox \subseteq DOMAIN outbox' /\ \A r : Fate(r) # None => Fate(r)' # None
  BY RowsStay
<1>7. \A y \in Batches : Entry(y, batch[y])'
  BY <1>2, <1>4, <1>5, <1>6 DEF Entries, Entry
<1> QED
  BY <1>5, <1>7 DEF Entries

(* A step to a stage at which nothing is removed.                          *)
LEMMA EntryProceeds ==
  ASSUME TypeOK, Entries, [Next]_vars, NEW x \in Batches, batch[x].row # None,
         NEW s \in {"add", "check"}, Proceed(x, s)
  PROVE  Entries'
<1>1. Entry(x, batch[x]) /\ batch[x] \in Batch
  BY DEF Entries
<1>2. PICK e : e = [batch[x] EXCEPT !.stage = s]
  OBVIOUS
<1>3. e \in Batch /\ e.stage = s /\ e.row = batch[x].row /\ e.todo = batch[x].todo
  BY <1>1, <1>2 DEF Batch
<1>4. Entry(x, e)
  BY <1>1, <1>3 DEF Entry
<1>5. batch' = [batch EXCEPT ![x] = e]
  BY <1>2 DEF Proceed
<1> QED
  BY <1>4, <1>5, EntryStays, OneEntry

(* A step to a row of the page, whose row is written.                      *)
LEMMA EntryTakesRow ==
  ASSUME TypeOK, Entries, [Next]_vars, NEW x \in Batches, NEW r \in Rows, r \in DOMAIN outbox',
         NEW s \in {"reread", "add", "remove", "retry", "check"},
         s \in {"reread", "remove"} => Fate(r)' # None,
         batch' = [batch EXCEPT ![x] = [batch[x] EXCEPT !.row = r, !.stage = s]]
  PROVE  Entries'
<1>1. Entry(x, batch[x]) /\ batch[x] \in Batch
  BY DEF Entries
<1>2. PICK e : e = [batch[x] EXCEPT !.row = r, !.stage = s]
  OBVIOUS
<1>3. e \in Batch /\ e.stage = s /\ e.row = r /\ e.todo = batch[x].todo
  BY <1>1, <1>2 DEF Batch
<1>4. DOMAIN outbox \subseteq DOMAIN outbox'
  BY RowsStay
<1>5. r # None
  BY NotificationAssumption
<1>6. Entry(x, e)'
  BY <1>1, <1>3, <1>4, <1>5 DEF Entry
<1> QED
  BY <1>2, <1>6, OneEntry

(* Nobody removes the job of a row that is still to be settled: what       *)
(* dispatchers and commands know of their rows stays so.                   *)
LEMMA EntriesStep ==
  ASSUME TypeOK, CompletedIsProcessed, Entries, [Next]_vars
  PROVE  Entries'
<1>1. OutboxTyped /\ DOMAIN outbox \subseteq DOMAIN outbox'
  BY Typed, RowsStay
<1>2. CASE batch' = batch
  <2>1. \A y \in Batches : Entry(y, batch[y])'
    <3> TAKE y \in Batches
    <3>1. PICK f : f = batch[y]
      OBVIOUS
    <3>2. Entry(y, f)'
      BY <3>1, EntryStays DEF Entries
    <3> QED
      BY <1>2, <3>1, <3>2 DEF Entry
  <2> QED
    BY <1>2, <2>1 DEF Entries
<1>3. ASSUME NEW x \in Batches, MarkChecked(x)
      PROVE  Entries'
  <2>1. batch[x].todo \subseteq Rows /\ (x \in Dispatchers => batch[x].todo \subseteq DOMAIN outbox)
    BY DEF Entries, Entry, Batch
  <2>2. GoOn(x, batch[x].todo \ {batch[x].row})
    BY <1>3 DEF MarkChecked
  <2> QED
    BY <2>1, <2>2, EntryGoesOn
<1>4. ASSUME NEW d \in Dispatchers, Dispatch(d)
      PROVE  Entries'
  <2>1. d \in Batches /\ Entry(d, batch[d])
    BY DEF Batches, Entries
  <2>2. CASE Begin(d)
    BY <2>1, <2>2, EntriesBegin
  <2>3. CASE SelectPending(d)
    <3>1. PICK S \in Page(Pending, LastChecked) : GoOn(d, S)
      BY <2>3 DEF SelectPending
    <3>2. S \subseteq DOMAIN outbox /\ DOMAIN outbox \subseteq Rows
      BY <1>1 DEF Page, Pending, OutboxTyped
    <3> QED
      BY <2>1, <3>1, <3>2, EntryGoesOn
  <2>4. CASE Reread(d)
    BY <2>1, <2>4, EntryProceeds DEF Reread, InBatch, Entry
  <2>5. CASE Add(d)
    BY <2>1, <2>5, EntryProceeds DEF Add, InBatch, Entry
  <2>6. CASE MarkChecked(d)
    BY <2>1, <2>6, <1>3
  <2>7. ASSUME NEW r \in Rows, Look(d, r)
        PROVE  Entries'
    <3> DEFINE s == IF job[r].state = "none" THEN "add"
                    ELSE IF job[r].state \in Blocking THEN "check" ELSE "reread"
    <3>1. /\ batch' = [batch EXCEPT ![d] = [batch[d] EXCEPT !.row = r, !.stage = s]]
          /\ r \in DOMAIN outbox
      BY <2>1, <2>7 DEF Look, Entry
    <3>2. job[r].state \in JobState
      BY DEF TypeOK, Job, JobState
    <3>3. s = "reread" => job[r].state = "completed"
      BY <3>2 DEF JobState, Blocking
    <3>4. s = "reread" => Fate(r) # None
      BY <3>3 DEF CompletedIsProcessed, Processed, Fate
    <3>5. s = "reread" => Fate(r)' # None
      BY <3>4, RowsStay
    <3>6. s \in {"reread", "add", "check"}
      OBVIOUS
    <3> HIDE DEF s
    <3> QED
      BY <1>1, <2>1, <3>1, <3>5, <3>6, EntryTakesRow
  <2> QED
    BY <1>4, <2>2, <2>3, <2>4, <2>5, <2>6, <2>7 DEF Dispatch
<1>5. ASSUME NEW c \in Commands, RetryFailed(c)
      PROVE  Entries'
  <2>1. c \in Batches /\ c \notin Dispatchers /\ Entry(c, batch[c])
    BY NotificationAssumption DEF Batches, Entries
  <2>2. CASE Begin(c)
    BY <2>1, <2>2, EntriesBegin
  <2>3. CASE SelectFailed(c)
    <3>1. PICK S \in Page(Failed, [r \in Rows |-> 0]) : GoOn(c, S)
      BY <2>3 DEF SelectFailed
    <3>2. S \subseteq Rows
      BY DEF Page, Failed
    <3> QED
      BY <2>1, <3>1, <3>2, EntryGoesOn
  <2>4. CASE Remove(c)
    <3>1. batch' = [batch EXCEPT ![c] = NoBatch] \/ GoOn(c, batch[c].todo \ {batch[c].row})
      BY <2>4 DEF Remove
    <3>2. Entry(c, NoBatch)
      BY DEF Entry, NoBatch, Batch
    <3>3. batch[c].todo \in SUBSET Rows
      BY <2>1 DEF Entry, Batch
    <3> QED
      BY <2>1, <3>1, <3>2, <3>3, EntryGoesOn, EntryStays, OneEntry
  <2>5. CASE Retry(c)
    BY <2>1, <2>5, EntryProceeds DEF Retry, InBatch, Entry
  <2>6. CASE MarkChecked(c)
    BY <2>1, <2>6, <1>3
  <2>7. ASSUME NEW r \in Rows, Find(c, r)
        PROVE  Entries'
    <3>1. /\ outbox' = WithRow(r)
          /\ batch' = [batch EXCEPT ![c] = [batch[c] EXCEPT
               !.row = r, !.stage = IF outbox'[r].delivery # None THEN "remove" ELSE "retry"]]
      BY <2>7 DEF Find
    <3>2. r \in DOMAIN outbox' /\ Fate(r)' = outbox'[r].delivery
      BY <1>1, <3>1, RowMade DEF Fate
    <3>3. CASE outbox'[r].delivery # None
      BY <2>1, <3>1, <3>2, <3>3, EntryTakesRow
    <3>4. CASE outbox'[r].delivery = None
      BY <2>1, <3>1, <3>2, <3>4, EntryTakesRow
    <3> QED
      BY <3>3, <3>4
  <2> QED
    BY <1>5, <2>2, <2>3, <2>4, <2>5, <2>6, <2>7 DEF RetryFailed
<1>6. ASSUME NEW x \in Batches, RowError(x) \/ Quit(x)
      PROVE  Entries'
  <2>1. Entry(x, batch[x])
    BY DEF Entries
  <2>2. CASE batch[x].stage \in {"reread", "add", "retry"} /\ Proceed(x, "check")
    BY <2>1, <2>2, EntryProceeds DEF Entry
  <2>3. ASSUME x \in Dispatchers, NEW r \in batch[x].todo,
               batch' = [batch EXCEPT ![x] = [batch[x] EXCEPT !.row = r, !.stage = "check"]]
        PROVE  Entries'
    <3>1. r \in DOMAIN outbox' /\ r \in Rows
      BY <1>1, <2>1, <2>3 DEF Entry, Batch
    <3> QED
      BY <2>3, <3>1, EntryTakesRow
  <2>4. CASE Quit(x)
    <3>1. Entry(x, NoBatch)
      BY DEF Entry, NoBatch, Batch
    <3>2. batch' = [batch EXCEPT ![x] = NoBatch]
      BY <2>4 DEF Quit
    <3> QED
      BY <3>1, <3>2, EntryStays, OneEntry
  <2> QED
    BY <1>6, <2>2, <2>3, <2>4 DEF RowError
<1>7. ASSUME NEW r \in Rows, Write(r) \/ Depart(r) \/ Stall(r) \/ Promote(r) \/ LoseJob(r)
      PROVE  batch' = batch
  BY <1>7 DEF Write, Depart, Stall, Promote, LoseJob
<1>8. ASSUME NEW w \in Workers, Work(w) \/ AttemptError(w) \/ Crash(w) \/ LoseLock(w)
      PROVE  batch' = batch
  BY <1>8 DEF Work, Take, Read, Recheck, Send, Mark, Complete, AttemptError, Crash, LoseLock
<1> QED
  BY <1>2, <1>4, <1>5, <1>6, <1>7, <1>8 DEF Next, vars

-----------------------------------------------------------------------------
(* Jobs and attempts.                                                      *)

(* The steps by the part of the state they are about: those of dispatchers,*)
(* commands, rows and the queue leave the attempts and their account alone *)
(* and touch only jobs that nobody holds; Redis may lose a job; the others *)
(* are steps of one worker.                                                *)
Aside ==
  /\ attempt' = attempt
  /\ mails' = mails
  /\ broken' = broken
  /\ \/ job' = job
     \/ \E r \in Rows, j \in Job : /\ job' = [job EXCEPT ![r] = j]
                                   /\ job[r].holder = None /\ j.holder = None
                                   /\ j.state = "completed" => job[r].state = "completed"

WorkerStep(w) ==
  \/ \E r \in Rows : Take(w, r)
  \/ Read(w) \/ Recheck(w) \/ Send(w) \/ Mark(w)
  \/ Complete(w) \/ AttemptError(w) \/ Crash(w) \/ LoseLock(w)

(* A job that is not active is nobody's.                                   *)
LEMMA IdleJob ==
  ASSUME TypeOK, HolderWorks, NEW r \in Rows
  PROVE  job[r] \in Job /\ (job[r].state # "active" => job[r].holder = None)
BY DEF TypeOK, HolderWorks

(* A job that is not there and one just added are jobs nobody holds.       *)
LEMMA FreshJobs ==
  /\ NoJob \in Job /\ NoJob.holder = None /\ NoJob.state = "none"
  /\ NewJob \in Job /\ NewJob.holder = None /\ NewJob.state = "waiting"
<1>1. NoJob \in Job /\ NoJob.holder = None /\ NoJob.state = "none"
  BY NotificationAssumption DEF NoJob, Job, JobState
<1>2. NewJob \in Job /\ NewJob.holder = NoJob.holder /\ NewJob.state = "waiting"
  BY <1>1 DEF NewJob, Job, JobState
<1> QED
  BY <1>1, <1>2

(* Every step is of one of these kinds.                                    *)
LEMMA StepKinds ==
  ASSUME TypeOK, HolderWorks, Entries, [Next]_vars
  PROVE  Aside \/ (\E r \in Rows : LoseJob(r)) \/ (\E w \in Workers : WorkerStep(w))
<1>1. ASSUME NEW x \in Batches, NEW j \in Job, j.holder = None, j.state # "completed",
             batch[x].row # None, job[batch[x].row].state # "active",
             UNCHANGED <<attempt, mails, broken>>,
             job' = [job EXCEPT ![batch[x].row] = j]
      PROVE  Aside
  <2>1. batch[x].row \in Rows
    BY <1>1 DEF Entries, Batch
  <2>2. job[batch[x].row].holder = None
    BY <1>1, <2>1, IdleJob
  <2> QED
    BY <1>1, <2>1, <2>2 DEF Aside
<1>2. ASSUME NEW d \in Dispatchers, Dispatch(d)
      PROVE  Aside
  <2>1. d \in Batches /\ Entry(d, batch[d])
    BY DEF Batches, Entries
  <2>2. CASE Reread(d)
    <3>1. batch[d].row # None /\ Fate(batch[d].row) # None
      BY <2>1, <2>2 DEF Entry, Reread, InBatch
    <3>2. Processed(batch[d].row)
      BY <2>1, <3>1 DEF Fate, Processed
    <3> QED
      BY <2>2, <3>2 DEF Reread, Aside
  <2>3. CASE Add(d)
    <3>1. batch[d].row # None /\ UNCHANGED <<attempt, mails, broken>>
      BY <2>1, <2>3 DEF Entry, Add, InBatch
    <3>2. \/ job' = job
          \/ job[batch[d].row].state = "none" /\ job' = [job EXCEPT ![batch[d].row] = NewJob]
      BY <2>3 DEF Add
    <3> QED
      BY <1>1, <2>1, <3>1, <3>2, FreshJobs DEF Aside
  <2> QED
    BY <1>2, <2>2, <2>3 DEF Dispatch, Begin, SelectPending, MarkChecked, Look, Aside
<1>3. ASSUME NEW c \in Commands, RetryFailed(c)
      PROVE  Aside
  <2>1. c \in Batches /\ Entry(c, batch[c])
    BY DEF Batches, Entries
  <2>2. CASE Remove(c)
    <3>1. batch[c].row # None /\ UNCHANGED <<attempt, mails, broken>>
      BY <2>1, <2>2 DEF Entry, Remove, InBatch
    <3>2. \/ job' = job
          \/ job[batch[c].row].state # "active" /\ job' = [job EXCEPT ![batch[c].row] = NoJob]
      BY <2>2 DEF Remove
    <3> QED
      BY <1>1, <2>1, <3>1, <3>2, FreshJobs DEF Aside
  <2>3. CASE Retry(c)
    <3> DEFINE j == [job[batch[c].row] EXCEPT !.state = "waiting"]
    <3>1. batch[c].row # None /\ UNCHANGED <<attempt, mails, broken>>
      BY <2>1, <2>3 DEF Entry, Retry, InBatch
    <3>2. batch[c].row \in Rows
      BY <2>1, <3>1 DEF Entry, Batch
    <3>3. job[batch[c].row] \in Job
      BY <3>2, IdleJob
    <3>4. j \in Job /\ j.holder = job[batch[c].row].holder /\ j.state = "waiting"
      BY <3>3 DEF Job, JobState
    <3>5. \/ job' = job
          \/ job[batch[c].row].state = "failed" /\ job' = [job EXCEPT ![batch[c].row] = j]
      BY <2>3 DEF Retry
    <3>6. job[batch[c].row].state = "failed" => job[batch[c].row].holder = None
      BY <3>2, IdleJob
    <3> HIDE DEF j
    <3> QED
      BY <1>1, <2>1, <3>1, <3>4, <3>5, <3>6 DEF Aside
  <2> QED
    BY <1>3, <2>2, <2>3 DEF RetryFailed, Begin, SelectFailed, MarkChecked, Find, Aside
<1>4. ASSUME NEW x \in Batches, RowError(x) \/ Quit(x)
      PROVE  Aside
  BY <1>4 DEF RowError, Quit, Aside
<1>5. ASSUME NEW r \in Rows, Write(r) \/ Depart(r)
      PROVE  Aside
  BY <1>5 DEF Write, Depart, Aside
<1>6. ASSUME NEW r \in Rows, Stall(r)
      PROVE  Aside
  <2> DEFINE j == [job[r] EXCEPT !.state = IF job[r].stalled THEN "failed" ELSE "waiting",
                                 !.stalled = TRUE]
  <2>1. job[r] \in Job
    BY IdleJob
  <2>2. j \in Job /\ j.holder = job[r].holder /\ j.state # "completed"
    BY <2>1 DEF Job, JobState
  <2>3. job[r].holder = None /\ job' = [job EXCEPT ![r] = j] /\ UNCHANGED <<attempt, mails, broken>>
    BY <1>6 DEF Stall
  <2> HIDE DEF j
  <2> QED
    BY <2>2, <2>3 DEF Aside
<1>7. ASSUME NEW r \in Rows, Promote(r)
      PROVE  Aside
  <2> DEFINE j == [job[r] EXCEPT !.state = "waiting"]
  <2>1. job[r] \in Job /\ job[r].holder = None
    BY <1>7, IdleJob DEF Promote
  <2>2. j \in Job /\ j.holder = job[r].holder /\ j.state # "completed"
    BY <2>1 DEF Job, JobState
  <2>3. job' = [job EXCEPT ![r] = j] /\ UNCHANGED <<attempt, mails, broken>>
    BY <1>7 DEF Promote
  <2> HIDE DEF j
  <2> QED
    BY <2>1, <2>2, <2>3 DEF Aside
<1>8. ASSUME NEW w \in Workers, Work(w) \/ AttemptError(w) \/ Crash(w) \/ LoseLock(w)
      PROVE  WorkerStep(w)
  BY <1>8 DEF Work, WorkerStep
<1>9. CASE UNCHANGED vars
  BY <1>9 DEF vars, Aside
<1> QED
  BY <1>2, <1>3, <1>4, <1>5, <1>6, <1>7, <1>8, <1>9 DEF Next

(* Counters only grow; only a sent mail, a broken attempt and a fault count. *)
LEMMA CountersGrow ==
  ASSUME TypeOK, [Next]_vars
  PROVE  RestTyped' /\ \A r \in Rows : mails[r] <= mails'[r]
<1>1. RestTyped /\ MaxFaults \in Nat /\ faults \in Nat
  BY Typed, NotificationAssumption DEF RestTyped
<1>2. \A w \in Workers : attempt[w].stage # "idle" => attempt[w].row \in Rows
  BY DEF TypeOK, Working
<1>3. ASSUME NEW w \in Workers, NEW stages, Breaks(w, stages)
      PROVE  broken' \in [Rows -> Nat]
  <2>1. \/ broken' = broken
        \/ broken' = [broken EXCEPT ![attempt[w].row] = broken[attempt[w].row] + 1]
    BY <1>3 DEF Breaks
  <2>2. \A r \in Rows : broken[r] + 1 \in Nat
    BY <1>1 DEF RestTyped
  <2> QED
    BY <1>1, <2>1, <2>2 DEF RestTyped
<1>4. Fault => faults' \in 0 .. MaxFaults
  BY <1>1 DEF Fault, RestTyped
<1>5. ASSUME NEW r \in Rows, Write(r) \/ Depart(r) \/ Stall(r) \/ Promote(r)
      PROVE  /\ upcoming' \subseteq upcoming
             /\ UNCHANGED <<mails, broken, faults>>
  BY <1>5 DEF Write, Depart, Stall, Promote
<1>6. ASSUME NEW d \in Dispatchers, Dispatch(d)
      PROVE  UNCHANGED <<upcoming, mails, broken, faults>>
  BY <1>6 DEF Dispatch, Begin, SelectPending, Reread, Add, MarkChecked, Look
<1>7. ASSUME NEW c \in Commands, RetryFailed(c)
      PROVE  UNCHANGED <<upcoming, mails, broken, faults>>
  BY <1>7 DEF RetryFailed, Begin, SelectFailed, Remove, Retry, MarkChecked, Find
<1>8. ASSUME NEW w \in Workers, Work(w)
      PROVE  /\ UNCHANGED <<upcoming, broken, faults>>
             /\ \/ mails' = mails
                \/ mails' = [mails EXCEPT ![attempt[w].row] = mails[attempt[w].row] + 1]
  BY <1>8 DEF Work, Take, Read, Recheck, Send, Mark, Complete
<1>9. ASSUME NEW w \in Workers, AttemptError(w) \/ Crash(w) \/ LoseLock(w)
      PROVE  UNCHANGED <<upcoming, mails>> /\ Fault /\ broken' \in [Rows -> Nat]
  BY <1>9, <1>3 DEF AttemptError, Crash, LoseLock
<1>10. ASSUME NEW x \in Batches, RowError(x) \/ Quit(x)
       PROVE  UNCHANGED <<upcoming, mails, broken>> /\ Fault
  BY <1>10 DEF RowError, Quit
<1>11. ASSUME NEW r \in Rows, LoseJob(r)
       PROVE  UNCHANGED <<upcoming, mails>> /\ Fault /\ broken' \in [Rows -> Nat]
  <2>1. CASE broken' = broken
    BY <1>1, <1>11, <2>1 DEF LoseJob, RestTyped
  <2>2. CASE job[r].holder # None /\ Breaks(job[r].holder, {"read", "recheck", "send", "mark"})
    <3>1. job[r].holder \in Workers
      BY <2>2 DEF TypeOK, Job
    <3> QED
      BY <1>3, <1>11, <2>2, <3>1 DEF LoseJob
  <2> QED
    BY <1>11, <2>1, <2>2 DEF LoseJob
<1>12. ASSUME NEW w \in Workers, Work(w)
       PROVE  mails' \in [Rows -> Nat] /\ \A r \in Rows : mails[r] <= mails'[r]
  BY <1>1, <1>8, <1>12 DEF RestTyped
<1>13. CASE UNCHANGED <<upcoming, mails, broken, faults>>
  BY <1>1, <1>13 DEF RestTyped
<1>14. CASE upcoming' \subseteq upcoming /\ UNCHANGED <<mails, broken, faults>>
  BY <1>1, <1>14 DEF RestTyped
<1>15. CASE UNCHANGED <<upcoming, mails>> /\ Fault /\ broken' \in [Rows -> Nat]
  BY <1>1, <1>4, <1>15 DEF RestTyped
<1>16. ASSUME NEW w \in Workers, Work(w)
       PROVE  RestTyped' /\ \A r \in Rows : mails[r] <= mails'[r]
  BY <1>1, <1>8, <1>12, <1>16 DEF RestTyped
<1>17. ASSUME NEW x \in Batches, RowError(x) \/ Quit(x)
       PROVE  RestTyped' /\ \A r \in Rows : mails[r] <= mails'[r]
  BY <1>1, <1>4, <1>10, <1>17 DEF RestTyped
<1> QED
  BY <1>5, <1>6, <1>7, <1>9, <1>11, <1>13, <1>14, <1>15, <1>16, <1>17 DEF Next, vars

(* What holds of what a worker is doing.                                   *)
Knowledge(a) ==
  /\ a \in Attempt
  /\ a.stage # "idle" => a.row \in Rows
  /\ a.stage \notin {"idle", "read"} => a.row \in DOMAIN outbox
  /\ a.stage = "recheck" => a.row \in Reminders
  /\ a.stage = "mark" => /\ a.outcome # None
                         /\ a.outcome = "sent" => mails[a.row] > 0
                         /\ a.outcome = "skipped" /\ MailEnabled => a.row \in Reminders
  /\ a.stage = "done" => Fate(a.row) # None

Attempts == attempt \in [Workers -> Attempt] /\ \A w \in Workers : Knowledge(attempt[w])

(* Attempts is what the types and AttemptKnows of the invariant say.       *)
LEMMA AttemptsKnown ==
  Attempts <=> AttemptTyped /\ \A w \in Workers : AttemptKnows(w)
BY DEF Attempts, Knowledge, AttemptTyped, AttemptKnows, Working

(* What was known stays known.                                             *)
LEMMA KnowledgeStays ==
  ASSUME TypeOK, [Next]_vars, NEW a, Knowledge(a)
  PROVE  Knowledge(a)'
<1>1. DOMAIN outbox \subseteq DOMAIN outbox' /\ \A r : Fate(r) # None => Fate(r)' # None
  BY RowsStay
<1>2. \A r \in Rows : mails[r] \in Nat /\ mails'[r] \in Nat /\ mails[r] <= mails'[r]
  BY CountersGrow DEF TypeOK, RestTyped
<1>3. ASSUME a.stage = "mark", a.outcome = "sent"
      PROVE  mails'[a.row] > 0
  BY <1>2, <1>3 DEF Knowledge
<1> QED
  BY <1>1, <1>3 DEF Knowledge

(* A step that changes what one worker is doing.                           *)
LEMMA OneAttempt ==
  ASSUME TypeOK, Attempts, [Next]_vars, NEW w \in Workers, NEW a, Knowledge(a)',
         attempt' = [attempt EXCEPT ![w] = a]
  PROVE  Attempts'
<1>1. a \in Attempt
  BY DEF Knowledge
<1>2. /\ attempt' \in [Workers -> Attempt] /\ attempt'[w] = a
      /\ \A v \in Workers \ {w} : attempt'[v] = attempt[v]
  BY <1>1 DEF Attempts
<1>3. \A v \in Workers : Knowledge(attempt[v])'
  <2> TAKE v \in Workers
  <2>1. CASE v = w
    BY <2>1, <1>2 DEF Knowledge
  <2>2. CASE v # w
    <3>1. PICK b : b = attempt[v]
      OBVIOUS
    <3>2. Knowledge(b)'
      BY <3>1, KnowledgeStays DEF Attempts
    <3>3. attempt'[v] = b
      BY <2>2, <1>2, <3>1
    <3> QED
      BY <3>2, <3>3 DEF Knowledge
  <2> QED
    BY <2>1, <2>2
<1> QED
  BY <1>2, <1>3 DEF Attempts

-----------------------------------------------------------------------------
(* What a step of worker w at row r does: its entry becomes a, the job j.  *)

Changes(w, r, a, j) ==
  /\ r \in Rows /\ a \in Attempt /\ j \in Job
  /\ attempt' = [attempt EXCEPT ![w] = a]
  /\ job' = [job EXCEPT ![r] = j]
  /\ \A o \in Rows \ {r} : /\ mails'[o] = mails[o]
                           /\ broken'[o] = broken[o]
                           /\ Fate(o)' = Fate(o)

(* It takes a job that waits.                                              *)
Takes(w, r, a, j) ==
  /\ attempt[w].stage = "idle"
  /\ job[r].state = "waiting"
  /\ a.stage = "read" /\ a.row = r
  /\ j.state = "active" /\ j.holder = w
  /\ mails'[r] = mails[r] /\ broken'[r] = broken[r] /\ Fate(r)' = Fate(r)

(* It goes on with its row, sends a mail or marks the row.                 *)
Moves(w, r, a, j) ==
  /\ attempt[w].row = r /\ a.row = r /\ r \in DOMAIN outbox'
  /\ j = job[r] /\ broken'[r] = broken[r]
  /\ \/ /\ attempt[w].stage = "read"
        /\ mails'[r] = mails[r] /\ Fate(r)' = Fate(r)
        /\ \/ Fate(r) # None /\ a.stage = "done"
           \/ /\ Fate(r) = None /\ a.stage \in {"recheck", "send"}
              /\ a.stage = "recheck" => r \in Reminders
     \/ /\ attempt[w].stage = "recheck"
        /\ mails'[r] = mails[r] /\ Fate(r)' = Fate(r)
        /\ a.stage = "send" \/ (a.stage = "mark" /\ a.outcome = "skipped")
     \/ /\ attempt[w].stage = "send" /\ a.stage = "mark"
        /\ Fate(r)' = Fate(r)
        /\ \/ a.outcome = "sent" /\ mails'[r] = mails[r] + 1
           \/ a.outcome = "skipped" /\ ~MailEnabled /\ mails'[r] = mails[r]
     \/ /\ attempt[w].stage = "mark" /\ a.stage = "done"
        /\ mails'[r] = mails[r]
        /\ Fate(r)' = (IF Fate(r) = None THEN attempt[w].outcome ELSE Fate(r))

(* Its attempt ends, or it loses the lock: the job is not its any more.    *)
Leaves(w, r, a, j) ==
  /\ attempt[w].row = r /\ attempt[w].stage # "idle"
  /\ mails'[r] = mails[r] /\ Fate(r)' = Fate(r)
  /\ IF job[r].holder = w THEN j.holder = None ELSE j = job[r]
  /\ \/ /\ a.stage = "idle"
        /\ j.state = "completed" =>
             attempt[w].stage = "done" \/ job[r].state = "completed"
        /\ broken'[r] = (IF attempt[w].stage = "mark" /\ job[r].holder = w
                           THEN broken[r] + 1 ELSE broken[r])
     \/ /\ a = attempt[w] /\ job[r].holder = w
        /\ j.state = "completed" => job[r].state = "completed"
        /\ broken'[r] = (IF attempt[w].stage \in {"read", "recheck", "send", "mark"}
                           THEN broken[r] + 1 ELSE broken[r])

(* A step of one worker, or of the queue against it.                       *)
WorkerEffect ==
  \E w \in Workers, r \in Rows, a \in Attempt, j \in Job :
    Changes(w, r, a, j) /\ (Takes(w, r, a, j) \/ Moves(w, r, a, j) \/ Leaves(w, r, a, j))

(* A worker that takes a job changes his attempt and that job only.        *)
LEMMA TakeEffect ==
  ASSUME TypeOK, [Next]_vars, NEW w \in Workers, NEW r \in Rows, Take(w, r)
  PROVE  WorkerEffect
<1>1. PICK a : a = [NoAttempt EXCEPT !.stage = "read", !.row = r]
  OBVIOUS
<1>2. PICK j : j = [job[r] EXCEPT !.state = "active", !.holder = w]
  OBVIOUS
<1>3. a \in Attempt /\ a.stage = "read" /\ a.row = r
  BY <1>1 DEF NoAttempt, Attempt
<1>4. job[r] \in Job
  BY DEF TypeOK
<1>5. j \in Job /\ j.state = "active" /\ j.holder = w
  BY <1>2, <1>4 DEF Job, JobState
<1>6. /\ attempt[w].stage = "idle" /\ job[r].state = "waiting"
      /\ attempt' = [attempt EXCEPT ![w] = a] /\ job' = [job EXCEPT ![r] = j]
      /\ UNCHANGED <<outbox, mails, broken>>
  BY <1>1, <1>2 DEF Take, Working
<1>7. \A o : Fate(o)' = Fate(o)
  BY <1>6 DEF Fate
<1>8. Changes(w, r, a, j) /\ Takes(w, r, a, j)
  BY <1>3, <1>5, <1>6, <1>7 DEF Changes, Takes
<1> QED
  BY <1>3, <1>5, <1>8 DEF WorkerEffect

(* The steps of an attempt that goes on.                                   *)
LEMMA MoveEffect ==
  ASSUME TypeOK, [Next]_vars, NEW w \in Workers, Read(w) \/ Recheck(w) \/ Send(w) \/ Mark(w)
  PROVE  WorkerEffect
<1>1. OutboxTyped /\ AttemptTyped /\ RestTyped /\ JobTyped
  BY Typed
<1>2. PICK r : r = attempt[w].row
  OBVIOUS
<1>3. /\ attempt[w] \in Attempt
      /\ r \in Rows /\ job[r] \in Job
      /\ attempt[w].stage # "read" => r \in DOMAIN outbox
      /\ DOMAIN outbox \subseteq DOMAIN outbox'
  BY <1>1, <1>2, RowsStay DEF AttemptTyped, JobTyped, Read, Recheck, Send, Mark, Working
<1>4. PICK j : j = job[r]
  OBVIOUS
<1>5. job' = job /\ broken' = broken => job' = [job EXCEPT ![r] = j]
  BY <1>1, <1>3, <1>4 DEF JobTyped
<1>6. CASE Read(w)
  <2>1. /\ outbox' = WithRow(r) /\ attempt[w].stage = "read"
        /\ attempt' = [attempt EXCEPT ![w].stage = Delivery(r, outbox'[r].delivery # None)]
        /\ UNCHANGED <<job, mails, broken>>
    BY <1>2, <1>6 DEF Read, Working
  <2>2. /\ r \in DOMAIN outbox' /\ Fate(r) = outbox'[r].delivery
        /\ \A o : Fate(o)' = Fate(o)
    BY <1>1, <1>3, <2>1, RowMade
  <2>3. PICK a : a = [attempt[w] EXCEPT !.stage = Delivery(r, outbox'[r].delivery # None)]
    OBVIOUS
  <2>4. Delivery(r, outbox'[r].delivery # None) =
          IF Fate(r) # None THEN "done" ELSE IF r \in Reminders THEN "recheck" ELSE "send"
    BY <2>2 DEF Delivery
  <2>5. /\ a \in Attempt /\ a.row = r
        /\ a.stage = IF Fate(r) # None THEN "done" ELSE IF r \in Reminders THEN "recheck" ELSE "send"
    BY <1>2, <1>3, <2>3, <2>4 DEF Attempt
  <2>6. attempt' = [attempt EXCEPT ![w] = a]
    BY <2>1, <2>3
  <2>7. Changes(w, r, a, j) /\ Moves(w, r, a, j)
    BY <1>2, <1>3, <1>4, <1>5, <2>1, <2>2, <2>5, <2>6 DEF Changes, Moves
  <2> QED
    BY <1>3, <1>4, <2>5, <2>7 DEF WorkerEffect
<1>7. CASE Recheck(w)
  <2>1. /\ UNCHANGED <<outbox, job, mails, broken>> /\ attempt[w].stage = "recheck"
        /\ attempt' = [attempt EXCEPT ![w] =
             IF r \in upcoming THEN [attempt[w] EXCEPT !.stage = "send"]
                               ELSE [attempt[w] EXCEPT !.stage = "mark", !.outcome = "skipped"]]
    BY <1>2, <1>7 DEF Recheck, Working
  <2>2. PICK a : a = IF r \in upcoming THEN [attempt[w] EXCEPT !.stage = "send"]
                     ELSE [attempt[w] EXCEPT !.stage = "mark", !.outcome = "skipped"]
    OBVIOUS
  <2>3. /\ a \in Attempt /\ a.row = r
        /\ a.stage = "send" \/ (a.stage = "mark" /\ a.outcome = "skipped")
    BY <1>2, <1>3, <2>2 DEF Attempt
  <2>4. \A o : Fate(o)' = Fate(o)
    BY <2>1 DEF Fate
  <2>5. Changes(w, r, a, j) /\ Moves(w, r, a, j)
    BY <1>2, <1>3, <1>4, <1>5, <2>1, <2>2, <2>3, <2>4 DEF Changes, Moves
  <2> QED
    BY <1>3, <1>4, <2>3, <2>5 DEF WorkerEffect
<1>8. CASE Send(w)
  <2>1. /\ UNCHANGED <<outbox, job, broken>> /\ attempt[w].stage = "send"
        /\ attempt' = [attempt EXCEPT ![w] =
                         [attempt[w] EXCEPT !.stage = "mark", !.outcome = Outcome]]
        /\ mails' = IF MailEnabled THEN [mails EXCEPT ![r] = mails[r] + 1] ELSE mails
    BY <1>2, <1>8 DEF Send, Working
  <2>2. PICK a : a = [attempt[w] EXCEPT !.stage = "mark", !.outcome = Outcome]
    OBVIOUS
  <2>3. Outcome = IF MailEnabled THEN "sent" ELSE "skipped"
    BY DEF Outcome
  <2>4. a \in Attempt /\ a.row = r /\ a.stage = "mark" /\ a.outcome = Outcome
    BY <1>2, <1>3, <2>2, <2>3 DEF Attempt
  <2>5. \A o : Fate(o)' = Fate(o)
    BY <2>1 DEF Fate
  <2>6. /\ \A o \in Rows \ {r} : mails'[o] = mails[o]
        /\ mails'[r] = IF MailEnabled THEN mails[r] + 1 ELSE mails[r]
    BY <1>1, <1>3, <2>1 DEF RestTyped
  <2>7. attempt' = [attempt EXCEPT ![w] = a]
    BY <2>1, <2>2
  <2>8. Changes(w, r, a, j)
    BY <1>3, <1>4, <1>5, <2>1, <2>4, <2>5, <2>6, <2>7 DEF Changes
  <2>9. Moves(w, r, a, j)
    BY <1>2, <1>3, <1>4, <2>1, <2>3, <2>4, <2>5, <2>6 DEF Moves
  <2> QED
    BY <1>3, <1>4, <2>4, <2>8, <2>9 DEF WorkerEffect
<1>9. CASE Mark(w)
  <2>1. /\ UNCHANGED <<job, mails, broken>> /\ attempt[w].stage = "mark"
        /\ attempt' = [attempt EXCEPT ![w].stage = "done"]
    BY <1>9 DEF Mark, Working
  <2>2. \A o : Fate(o)' = IF o = r /\ Fate(o) = None THEN attempt[w].outcome ELSE Fate(o)
    BY <1>1, <1>2, <1>9, MarkSettles
  <2>3. PICK a : a = [attempt[w] EXCEPT !.stage = "done"]
    OBVIOUS
  <2>4. a \in Attempt /\ a.row = r /\ a.stage = "done"
    BY <1>2, <1>3, <2>3 DEF Attempt
  <2>5. attempt' = [attempt EXCEPT ![w] = a]
    BY <2>1, <2>3
  <2>6. Changes(w, r, a, j)
    BY <1>3, <1>4, <1>5, <2>1, <2>2, <2>4, <2>5 DEF Changes
  <2>7. Moves(w, r, a, j)
    BY <1>2, <1>3, <1>4, <2>1, <2>2, <2>4 DEF Moves
  <2> QED
    BY <1>3, <1>4, <2>4, <2>6, <2>7 DEF WorkerEffect
<1> QED
  BY <1>6, <1>7, <1>8, <1>9

(* An attempt ends; the queue hears of it from the holder of the lock only. *)
LEMMA EndEffect ==
  ASSUME TypeOK, [Next]_vars, NEW w \in Workers, attempt[w].stage # "idle",
         NEW j \in Job, j.holder = None, EndJob(w, j),
         j.state = "completed" =>
           attempt[w].stage = "done" \/ job[attempt[w].row].state = "completed",
         UNCHANGED <<outbox, mails>>,
         (attempt[w].stage = "done" /\ broken' = broken) \/ Breaks(w, {"mark"})
  PROVE  WorkerEffect
<1>1. AttemptTyped /\ RestTyped /\ JobTyped
  BY Typed
<1>2. PICK r : r = attempt[w].row
  OBVIOUS
<1>3. r \in Rows /\ job[r] \in Job
  BY <1>1, <1>2 DEF AttemptTyped, JobTyped, Working
<1>4. PICK k : k = IF job[r].holder = w THEN j ELSE job[r]
  OBVIOUS
<1>5. PICK a : a = NoAttempt
  OBVIOUS
<1>6. a \in Attempt /\ a.stage = "idle"
  BY <1>5 DEF NoAttempt, Attempt
<1>7. attempt' = [attempt EXCEPT ![w] = a] /\ job' = [job EXCEPT ![r] = k]
  BY <1>1, <1>2, <1>3, <1>4, <1>5 DEF EndJob, JobTyped
<1>8. \A o : Fate(o)' = Fate(o)
  BY DEF Fate
<1>9. broken' = IF attempt[w].stage = "mark" /\ job[r].holder = w
                  THEN [broken EXCEPT ![r] = broken[r] + 1] ELSE broken
  BY <1>2 DEF Breaks
<1>10. /\ \A o \in Rows \ {r} : broken'[o] = broken[o]
       /\ broken'[r] = IF attempt[w].stage = "mark" /\ job[r].holder = w
                         THEN broken[r] + 1 ELSE broken[r]
  BY <1>1, <1>3, <1>9 DEF RestTyped
<1>11. k \in Job
  BY <1>3, <1>4
<1>12. Changes(w, r, a, k)
  BY <1>3, <1>6, <1>7, <1>8, <1>10, <1>11 DEF Changes
<1>13. Leaves(w, r, a, k)
  BY <1>2, <1>4, <1>6, <1>8, <1>10 DEF Leaves
<1> QED
  BY <1>3, <1>6, <1>11, <1>12, <1>13 DEF WorkerEffect

(* The lock is lost: to the stall check, or because Redis lost the job.    *)
LEMMA LostEffect ==
  ASSUME TypeOK, HolderWorks, [Next]_vars, NEW w \in Workers, NEW r \in Rows,
         job[r].holder = w, NEW j \in Job, j.holder = None, j.state # "completed",
         job' = [job EXCEPT ![r] = j], UNCHANGED <<outbox, attempt, mails>>,
         Breaks(w, {"read", "recheck", "send", "mark"})
  PROVE  WorkerEffect
<1>1. AttemptTyped /\ RestTyped
  BY Typed
<1>2. attempt[w].row = r /\ attempt[w].stage # "idle"
  BY NotificationAssumption DEF HolderWorks
<1>3. PICK a : a = attempt[w]
  OBVIOUS
<1>4. a \in Attempt /\ attempt' = [attempt EXCEPT ![w] = a]
  BY <1>1, <1>3 DEF AttemptTyped
<1>5. \A o : Fate(o)' = Fate(o)
  BY DEF Fate
<1>6. broken' = IF attempt[w].stage \in {"read", "recheck", "send", "mark"}
                  THEN [broken EXCEPT ![r] = broken[r] + 1] ELSE broken
  BY <1>2 DEF Breaks
<1>7. /\ \A o \in Rows \ {r} : broken'[o] = broken[o]
      /\ broken'[r] = IF attempt[w].stage \in {"read", "recheck", "send", "mark"}
                        THEN broken[r] + 1 ELSE broken[r]
  BY <1>1, <1>6 DEF RestTyped
<1>8. Changes(w, r, a, j)
  BY <1>4, <1>5, <1>7 DEF Changes
<1>9. Leaves(w, r, a, j)
  BY <1>2, <1>3, <1>5, <1>7 DEF Leaves
<1> QED
  BY <1>4, <1>8, <1>9 DEF WorkerEffect

(* So every step leaves the attempts aside or has such an effect.          *)
LEMMA StepEffects ==
  ASSUME TypeOK, HolderWorks, Entries, [Next]_vars
  PROVE  (Aside /\ \A r : Fate(r)' = Fate(r)) \/ WorkerEffect
<1>1. AttemptTyped /\ JobTyped
  BY Typed
<1>2. CASE Aside
  <2>1. ~ \E w \in Workers : Mark(w)
    <3>1. SUFFICES ASSUME NEW w \in Workers, Mark(w) PROVE FALSE
      OBVIOUS
    <3>2. attempt[w].stage = "mark" /\ attempt' = [attempt EXCEPT ![w].stage = "done"]
      BY <3>1 DEF Mark, Working
    <3>3. attempt'[w].stage = "done"
      BY <1>1, <3>2 DEF AttemptTyped, Attempt
    <3> QED
      BY <1>2, <3>2, <3>3 DEF Aside
  <2> QED
    BY <1>2, <2>1, RowsStay
<1>3. ASSUME NEW r \in Rows, LoseJob(r)
      PROVE  (Aside /\ \A o : Fate(o)' = Fate(o)) \/ WorkerEffect
  <2>1. /\ job' = [job EXCEPT ![r] = NoJob] /\ UNCHANGED <<outbox, attempt, mails>>
        /\ IF job[r].holder = None THEN broken' = broken
             ELSE Breaks(job[r].holder, {"read", "recheck", "send", "mark"})
    BY <1>3 DEF LoseJob
  <2>2. CASE job[r].holder = None
    <3>1. \A o : Fate(o)' = Fate(o)
      BY <2>1 DEF Fate
    <3> QED
      BY <2>1, <2>2, <3>1, FreshJobs DEF Aside
  <2>3. CASE job[r].holder # None
    <3>1. PICK w \in Workers : w = job[r].holder
      BY <1>1, <2>3 DEF JobTyped, Job
    <3>2. Breaks(w, {"read", "recheck", "send", "mark"})
      BY <2>1, <2>3, <3>1 DEF Breaks
    <3> QED
      BY <2>1, <3>1, <3>2, FreshJobs, LostEffect
  <2> QED
    BY <2>2, <2>3
<1>4. ASSUME NEW w \in Workers, LoseLock(w)
      PROVE  WorkerEffect
  <2>1. PICK r : r = attempt[w].row
    OBVIOUS
  <2>2. r \in Rows /\ job[r] \in Job /\ job[r].holder = w /\ attempt[w].stage # "idle"
    BY <1>1, <1>4, <2>1 DEF LoseLock, Working, AttemptTyped, JobTyped
  <2>3. PICK j : j = [job[r] EXCEPT !.holder = None]
    OBVIOUS
  <2>4. job[r].state = "active"
    BY <2>2, NotificationAssumption DEF HolderWorks
  <2>5. j \in Job /\ j.holder = None /\ j.state = "active"
    BY <2>2, <2>3, <2>4 DEF Job, JobState
  <2>6. /\ job' = [job EXCEPT ![r] = j] /\ UNCHANGED <<outbox, attempt, mails>>
        /\ Breaks(w, {"read", "recheck", "send", "mark"})
    BY <1>4, <2>1, <2>3 DEF LoseLock
  <2> QED
    BY <2>2, <2>5, <2>6, LostEffect
<1>5. ASSUME NEW w \in Workers, attempt[w].stage # "idle"
      PROVE  attempt[w].row \in Rows /\ job[attempt[w].row] \in Job
  BY <1>1, <1>5 DEF AttemptTyped, JobTyped, Working
<1>6. ASSUME NEW w \in Workers, Complete(w)
      PROVE  WorkerEffect
  <2>1. PICK j : j = [job[attempt[w].row] EXCEPT !.state = "completed", !.holder = None]
    OBVIOUS
  <2>2. attempt[w].stage = "done"
    BY <1>6 DEF Complete, Working
  <2>3. j \in Job /\ j.holder = None
    BY <1>5, <2>1, <2>2 DEF Job, JobState
  <2>4. EndJob(w, j) /\ UNCHANGED <<outbox, mails, broken>>
    BY <1>6, <2>1 DEF Complete
  <2> QED
    BY <2>2, <2>3, <2>4, EndEffect
<1>7. ASSUME NEW w \in Workers, AttemptError(w)
      PROVE  WorkerEffect
  <2> DEFINE k == job[attempt[w].row]
  <2>1. PICK j : j = AfterError(k)
    OBVIOUS
  <2>2. attempt[w].stage # "idle"
    BY <1>7 DEF AttemptError
  <2>3. k \in Job
    BY <1>5, <2>2
  <2>4. j \in Job /\ j.holder = None /\ j.state # "completed"
    <3>1. k.attempts \in 0 .. MaxAttempts /\ MaxAttempts \in Nat
      BY <2>3, NotificationAssumption DEF Job
    <3>2. CASE k.attempts + 1 < MaxAttempts
      <4>1. k.attempts + 1 \in 0 .. MaxAttempts
        BY <3>1, <3>2
      <4>2. j = [k EXCEPT !.state = "delayed", !.attempts = k.attempts + 1, !.holder = None]
        BY <2>1, <3>2 DEF AfterError
      <4> HIDE DEF k
      <4> QED
        BY <2>3, <4>1, <4>2 DEF Job, JobState
    <3>3. CASE ~(k.attempts + 1 < MaxAttempts)
      <4>1. MaxAttempts \in 0 .. MaxAttempts
        BY <3>1
      <4>2. j = [k EXCEPT !.state = "failed", !.attempts = MaxAttempts, !.holder = None]
        BY <2>1, <3>3 DEF AfterError
      <4> HIDE DEF k
      <4> QED
        BY <2>3, <4>1, <4>2 DEF Job, JobState
    <3> QED
      BY <3>2, <3>3
  <2>5. EndJob(w, j) /\ UNCHANGED <<outbox, mails>> /\ Breaks(w, {"mark"})
    BY <1>7, <2>1 DEF AttemptError
  <2> QED
    BY <2>2, <2>4, <2>5, EndEffect
<1>8. ASSUME NEW w \in Workers, Crash(w)
      PROVE  WorkerEffect
  <2>1. PICK j : j = [job[attempt[w].row] EXCEPT !.holder = None]
    OBVIOUS
  <2>2. attempt[w].stage # "idle"
    BY <1>8 DEF Crash, Working
  <2>3. j \in Job /\ j.holder = None /\ j.state = job[attempt[w].row].state
    BY <1>5, <2>1, <2>2 DEF Job, JobState
  <2>4. EndJob(w, j) /\ UNCHANGED <<outbox, mails>> /\ Breaks(w, {"mark"})
    BY <1>8, <2>1 DEF Crash
  <2> QED
    BY <2>2, <2>3, <2>4, EndEffect
<1>9. ASSUME NEW w \in Workers, WorkerStep(w)
      PROVE  WorkerEffect
  BY <1>4, <1>6, <1>7, <1>8, <1>9, TakeEffect, MoveEffect DEF WorkerStep
<1> QED
  BY <1>2, <1>3, <1>9, StepKinds

(* What the attempts know stays so, whatever the others do.                *)
LEMMA AttemptsStep ==
  ASSUME TypeOK, HolderWorks, Entries, Attempts, [Next]_vars
  PROVE  Attempts'
<1>1. CASE attempt' = attempt
  <2>1. \A v \in Workers : Knowledge(attempt[v])'
    <3> TAKE v \in Workers
    <3>1. PICK b : b = attempt[v]
      OBVIOUS
    <3>2. Knowledge(b)'
      BY <3>1, KnowledgeStays DEF Attempts
    <3> QED
      BY <1>1, <3>1, <3>2 DEF Knowledge
  <2> QED
    BY <1>1, <2>1 DEF Attempts
<1>2. ASSUME NEW w \in Workers, NEW r \in Rows, NEW a \in Attempt, NEW j \in Job,
             Changes(w, r, a, j), Takes(w, r, a, j) \/ Moves(w, r, a, j) \/ Leaves(w, r, a, j)
      PROVE  Attempts'
  <2>1. /\ attempt' = [attempt EXCEPT ![w] = a]
        /\ Knowledge(attempt[w])
        /\ mails[r] \in Nat
    BY <1>2, Typed DEF Changes, Attempts, RestTyped
  <2>2. CASE Takes(w, r, a, j)
    <3>1. Knowledge(a)'
      BY <2>2 DEF Takes, Knowledge
    <3> QED
      BY <2>1, <3>1, OneAttempt
  <2>3. CASE Moves(w, r, a, j)
    <3>1. /\ attempt[w].row = r /\ a.row = r /\ r \in DOMAIN outbox'
          /\ Fate(r) # None => Fate(r)' # None
      BY <2>3, RowsStay DEF Moves
    <3>2. a.stage = "done" => Fate(r)' # None
      BY <2>1, <2>3, <3>1 DEF Moves, Knowledge
    <3>3. a.stage = "recheck" => r \in Reminders
      BY <2>3 DEF Moves
    <3>4. a.stage = "mark" => /\ a.outcome # None
                              /\ a.outcome = "sent" => mails'[r] > 0
                              /\ a.outcome = "skipped" /\ MailEnabled => r \in Reminders
      BY <2>1, <2>3, NotificationAssumption DEF Moves, Knowledge
    <3>5. Knowledge(a)'
      BY <3>1, <3>2, <3>3, <3>4 DEF Knowledge
    <3> QED
      BY <2>1, <3>5, OneAttempt
  <2>4. CASE Leaves(w, r, a, j)
    <3>1. a.stage = "idle" \/ a = attempt[w]
      BY <2>4 DEF Leaves
    <3>2. Knowledge(a)
      BY <2>1, <3>1 DEF Knowledge
    <3> QED
      BY <2>1, <3>2, KnowledgeStays, OneAttempt
  <2> QED
    BY <1>2, <2>2, <2>3, <2>4
<1> QED
  BY <1>1, <1>2, StepEffects DEF Aside, WorkerEffect

(* A completed job is one whose row is settled, in the terms of Fate.      *)
LEMMA CompletedFate ==
  ASSUME OutboxTyped
  PROVE  CompletedIsProcessed <=> \A r \in Rows : job[r].state = "completed" => Fate(r) # None
BY DEF CompletedIsProcessed, Processed, Fate

(* The queue: its jobs keep their type, a lock is held by whoever works on *)
(* the job, and a job is only completed after its row is settled.          *)
LEMMA QueueStep ==
  ASSUME TypeOK, HolderWorks, CompletedIsProcessed, Entries, Attempts, [Next]_vars
  PROVE  JobTyped' /\ HolderWorks' /\ CompletedIsProcessed'
<1>1. /\ OutboxTyped /\ JobTyped /\ OutboxTyped'
      /\ \A r \in Rows : job[r].state = "completed" => Fate(r) # None
      /\ \A r : Fate(r) # None => Fate(r)' # None
  BY Typed, RowsStay, CompletedFate
<1>2. ASSUME \A r \in Rows : job'[r].state = "completed" => Fate(r)' # None
      PROVE  CompletedIsProcessed'
  BY <1>1, <1>2 DEF CompletedIsProcessed, Processed, Fate
<1>3. CASE Aside
  <2>1. CASE job' = job
    BY <1>1, <1>2, <1>3, <2>1 DEF Aside, JobTyped, HolderWorks
  <2>2. ASSUME NEW r \in Rows, NEW j \in Job, job' = [job EXCEPT ![r] = j], j.holder = None,
               j.state = "completed" => job[r].state = "completed"
        PROVE  JobTyped' /\ HolderWorks' /\ CompletedIsProcessed'
    <3>1. JobTyped' /\ job'[r] = j /\ \A o \in Rows \ {r} : job'[o] = job[o]
      BY <1>1, <2>2 DEF JobTyped
    <3>2. HolderWorks'
      BY <1>3, <2>2, <3>1 DEF Aside, HolderWorks
    <3> QED
      BY <1>1, <1>2, <2>2, <3>1, <3>2
  <2> QED
    BY <1>3, <2>1, <2>2 DEF Aside
<1>4. ASSUME NEW w \in Workers, NEW r \in Rows, NEW a \in Attempt, NEW j \in Job,
             Changes(w, r, a, j), Takes(w, r, a, j) \/ Moves(w, r, a, j) \/ Leaves(w, r, a, j)
      PROVE  JobTyped' /\ HolderWorks' /\ CompletedIsProcessed'
  <2>1. /\ JobTyped' /\ job'[r] = j /\ \A o \in Rows \ {r} : job'[o] = job[o]
        /\ attempt'[w] = a /\ \A v \in Workers \ {w} : attempt'[v] = attempt[v]
        /\ \A o \in Rows : job[o].holder \in Workers \cup {None}
    BY <1>1, <1>4 DEF Changes, JobTyped, Attempts, Job
  <2>2. w # None
    BY NotificationAssumption
  <2>3. attempt[w].stage = "idle" \/ attempt[w].row = r
    BY <1>4 DEF Takes, Moves, Leaves
  <2>4. ASSUME NEW o \in Rows \ {r}, job'[o].holder # None
        PROVE  /\ attempt'[job'[o].holder].stage # "idle"
               /\ attempt'[job'[o].holder].row = o
               /\ job'[o].state = "active"
    <3>1. /\ job[o].holder \in Workers /\ job'[o] = job[o]
          /\ attempt[job[o].holder].stage # "idle" /\ attempt[job[o].holder].row = o
          /\ job[o].state = "active"
      BY <2>1, <2>4 DEF HolderWorks
    <3>2. job[o].holder # w
      BY <2>3, <2>4, <3>1
    <3> QED
      BY <2>1, <3>1, <3>2
  <2>5. ASSUME job'[r].holder # None
        PROVE  /\ attempt'[job'[r].holder].stage # "idle"
               /\ attempt'[job'[r].holder].row = r
               /\ job'[r].state = "active"
    <3>1. CASE Takes(w, r, a, j)
      BY <2>1, <3>1 DEF Takes
    <3>2. CASE Moves(w, r, a, j)
      <4>1. j = job[r] /\ a.row = r /\ a.stage # "idle"
        BY <3>2 DEF Moves
      <4> QED
        BY <2>1, <2>5, <4>1 DEF HolderWorks
    <3>3. CASE Leaves(w, r, a, j)
      <4>1. j = job[r] /\ job[r].holder # w
        BY <2>1, <2>5, <3>3 DEF Leaves
      <4> QED
        BY <2>1, <2>5, <4>1 DEF HolderWorks
    <3> QED
      BY <1>4, <3>1, <3>2, <3>3
  <2>6. HolderWorks'
    BY <2>4, <2>5 DEF HolderWorks
  <2>7. j.state = "completed" => job[r].state = "completed" \/ Fate(r) # None
    BY <1>4 DEF Takes, Moves, Leaves, Attempts, Knowledge
  <2> QED
    BY <1>1, <1>2, <2>1, <2>6, <2>7
<1> QED
  BY <1>3, <1>4, StepEffects DEF WorkerEffect

-----------------------------------------------------------------------------
(* The account of the mails.                                               *)

(* Whether w counts among the attempts that have sent nothing.             *)
LEMMA UnsentFacts ==
  ASSUME NEW r, NEW w \in Workers
  PROVE  w \in Unsent(r) <=>
           /\ attempt[w].row = r
           /\ \/ attempt[w].stage \in {"recheck", "send"}
              \/ attempt[w].stage = "mark" /\ attempt[w].outcome = "skipped"
              \/ attempt[w].stage = "read" /\ job[r].holder # w
BY DEF Unsent

(* A set counted without one worker, who is in it or not.                  *)
LEMMA CountedWithout ==
  ASSUME NEW S \in SUBSET Workers, NEW w
  PROVE  /\ Cardinality(S \ {w}) \in Nat
         /\ Cardinality(S) = Cardinality(S \ {w}) + (IF w \in S THEN 1 ELSE 0)
<1>1. IsFiniteSet(S) /\ Cardinality(S) \in Nat
  BY FS_Subset, FS_CardinalityType, NotificationAssumption
<1>2. /\ IsFiniteSet(S \ {w})
      /\ Cardinality(S \ {w}) = IF w \in S THEN Cardinality(S) - 1 ELSE Cardinality(S)
  BY <1>1, FS_RemoveElement
<1>3. Cardinality(S \ {w}) \in Nat
  BY <1>2, FS_CardinalityType
<1> QED
  BY <1>1, <1>2, <1>3

(* A step of one worker at r changes the count at r by that worker only,   *)
(* and the account of no other row.                                        *)
LEMMA CountChanges ==
  ASSUME TypeOK, HolderWorks, NEW w \in Workers, NEW r \in Rows, NEW a, NEW j,
         Changes(w, r, a, j), Takes(w, r, a, j) \/ Moves(w, r, a, j) \/ Leaves(w, r, a, j)
  PROVE  /\ \E n \in Nat :
              /\ Cardinality(Unsent(r)) = n + (IF w \in Unsent(r) THEN 1 ELSE 0)
              /\ Cardinality(Unsent(r)') = n + (IF w \in Unsent(r)' THEN 1 ELSE 0)
         /\ \A o \in Rows \ {r} : MailsAccounted(o) => MailsAccounted(o)'
<1>1. AttemptTyped /\ JobTyped
  BY Typed
<1>2. /\ attempt'[w] = a /\ \A v \in Workers \ {w} : attempt'[v] = attempt[v]
      /\ job'[r] = j /\ \A o \in Rows \ {r} : job'[o] = job[o]
  BY <1>1 DEF Changes, AttemptTyped, JobTyped
<1>3. /\ attempt[w].stage = "idle" \/ attempt[w].row = r
      /\ a.stage = "idle" \/ a.row = r
  BY DEF Takes, Moves, Leaves
<1>4. w # None /\ job[r].holder \in Workers \cup {None}
  BY <1>1, NotificationAssumption DEF JobTyped, Job
<1>5. job'[r].holder = job[r].holder \/ {job[r].holder, job'[r].holder} \subseteq {w, None}
  <2>1. CASE Takes(w, r, a, j)
    <3>1. job[r].holder = None
      BY <2>1 DEF Takes, HolderWorks
    <3> QED
      BY <1>2, <2>1, <3>1 DEF Takes
  <2>2. CASE Moves(w, r, a, j)
    BY <1>2, <2>2 DEF Moves
  <2>3. CASE Leaves(w, r, a, j)
    BY <1>2, <2>3 DEF Leaves
  <2> QED
    BY <2>1, <2>2, <2>3
<1>6. \A v \in Workers \ {w} : v \in Unsent(r) <=> v \in Unsent(r)'
  <2> TAKE v \in Workers \ {w}
  <2>1. job[r].holder # v <=> job'[r].holder # v
    BY <1>4, <1>5, NotificationAssumption
  <2> QED
    BY <1>2, <2>1 DEF Unsent
<1>7. Unsent(r) \subseteq Workers /\ Unsent(r)' \subseteq Workers
  BY DEF Unsent
<1>8. Unsent(r) \ {w} = Unsent(r)' \ {w}
  BY <1>6, <1>7
<1>9. \E n \in Nat :
        /\ Cardinality(Unsent(r)) = n + (IF w \in Unsent(r) THEN 1 ELSE 0)
        /\ Cardinality(Unsent(r)') = n + (IF w \in Unsent(r)' THEN 1 ELSE 0)
  <2>1. PICK S, T : S = Unsent(r) /\ T = Unsent(r)'
    OBVIOUS
  <2>2. /\ Cardinality(S \ {w}) \in Nat
        /\ Cardinality(S) = Cardinality(S \ {w}) + (IF w \in S THEN 1 ELSE 0)
        /\ Cardinality(T) = Cardinality(T \ {w}) + (IF w \in T THEN 1 ELSE 0)
    BY <1>7, <2>1, CountedWithout
  <2>3. S \ {w} = T \ {w}
    BY <1>8, <2>1
  <2> QED
    BY <2>1, <2>2, <2>3
<1>10. ASSUME NEW o \in Rows \ {r}, MailsAccounted(o)
       PROVE  MailsAccounted(o)'
  <2>1. \A v \in Workers : v \in Unsent(o) <=> v \in Unsent(o)'
    BY <1>2, <1>3 DEF Unsent
  <2>2. Unsent(o)' = Unsent(o)
    BY <2>1 DEF Unsent
  <2>3. Sending(o)' <=> Sending(o)
    <3>1. job'[o] = job[o] /\ job[o].holder \in Workers \cup {None}
      BY <1>1, <1>2 DEF JobTyped, Job
    <3>2. job[o].holder # None => job[o].holder # w
      BY <1>3, <1>10 DEF HolderWorks
    <3> QED
      BY <1>2, <3>1, <3>2 DEF Sending
  <2>4. mails'[o] = mails[o] /\ broken'[o] = broken[o] /\ Fate(o)' = Fate(o)
    BY DEF Changes
  <2> QED
    BY <1>10, <2>2, <2>3, <2>4 DEF MailsAccounted
<1> QED
  BY <1>9, <1>10

(* Every step keeps the account.                                           *)
LEMMA MailsStep ==
  ASSUME TypeOK, HolderWorks, CompletedIsProcessed, Entries, Attempts,
         \A r \in Rows : MailsAccounted(r), [Next]_vars
  PROVE  \A r \in Rows : MailsAccounted(r)'
<1>1. AttemptTyped /\ JobTyped /\ RestTyped
  BY Typed
<1>2. CASE Aside /\ \A r : Fate(r)' = Fate(r)
  <2> TAKE r \in Rows
  <2>1. /\ attempt' = attempt /\ mails' = mails /\ broken' = broken
        /\ job'[r].holder = job[r].holder
    BY <1>1, <1>2 DEF Aside, JobTyped
  <2>2. Unsent(r)' = Unsent(r) /\ (Sending(r)' <=> Sending(r)) /\ Fate(r)' = Fate(r)
    BY <1>2, <2>1 DEF Unsent, Sending
  <2>3. MailsAccounted(r)
    OBVIOUS
  <2> QED
    BY <2>1, <2>2, <2>3 DEF MailsAccounted
<1>3. ASSUME NEW w \in Workers, NEW r \in Rows, NEW a \in Attempt, NEW j \in Job,
             Changes(w, r, a, j), Takes(w, r, a, j) \/ Moves(w, r, a, j) \/ Leaves(w, r, a, j)
      PROVE  \A o \in Rows : MailsAccounted(o)'
  <2>1. PICK n \in Nat :
          /\ Cardinality(Unsent(r)) = n + (IF w \in Unsent(r) THEN 1 ELSE 0)
          /\ Cardinality(Unsent(r)') = n + (IF w \in Unsent(r)' THEN 1 ELSE 0)
    BY <1>3, CountChanges
  <2>2. \A o \in Rows \ {r} : MailsAccounted(o)'
    BY <1>3, CountChanges
  <2>3. /\ attempt'[w] = a /\ job'[r] = j
        /\ mails[r] \in Nat /\ broken[r] \in Nat
        /\ w # None
    BY <1>1, <1>3, NotificationAssumption DEF Changes, AttemptTyped, JobTyped, RestTyped
  <2>4. w \in Unsent(r) <=>
          /\ attempt[w].row = r
          /\ \/ attempt[w].stage \in {"recheck", "send"}
             \/ attempt[w].stage = "mark" /\ attempt[w].outcome = "skipped"
             \/ attempt[w].stage = "read" /\ job[r].holder # w
    BY DEF Unsent
  <2>5. w \in Unsent(r)' <=>
          /\ a.row = r
          /\ \/ a.stage \in {"recheck", "send"}
             \/ a.stage = "mark" /\ a.outcome = "skipped"
             \/ a.stage = "read" /\ j.holder # w
    BY <2>3 DEF Unsent
  <2>6. /\ mails[r] + Cardinality(Unsent(r)) <= 1 + broken[r]
        /\ Fate(r) = "skipped" \/ (Fate(r) = None /\ ~Sending(r))
             => mails[r] + Cardinality(Unsent(r)) <= broken[r]
    BY DEF MailsAccounted
  <2>7. job[r].holder = w => (Sending(r) <=> attempt[w].stage \in {"recheck", "send", "mark"})
    BY <2>3 DEF Sending
  <2>8. j.holder = w => (Sending(r)' <=> a.stage \in {"recheck", "send", "mark"})
    BY <2>3 DEF Sending
  <2>9. job[r].holder = None => ~Sending(r)
    BY DEF Sending
  <2>10. "skipped" # None /\ "sent" # "skipped"
    BY NotificationAssumption
  <2>11. SUFFICES /\ mails'[r] + Cardinality(Unsent(r)') <= 1 + broken'[r]
                  /\ Fate(r)' = "skipped" \/ (Fate(r)' = None /\ ~Sending(r)')
                       => mails'[r] + Cardinality(Unsent(r)') <= broken'[r]
    BY <2>2 DEF MailsAccounted
  <2>12. CASE Takes(w, r, a, j)
    <3>1. job[r].holder = None
      BY <2>12 DEF Takes, HolderWorks
    <3>2. w \notin Unsent(r) /\ w \notin Unsent(r)' /\ ~Sending(r)
      BY <2>4, <2>5, <2>9, <2>12, <3>1 DEF Takes
    <3>3. mails'[r] = mails[r] /\ broken'[r] = broken[r] /\ Fate(r)' = Fate(r)
      BY <2>12 DEF Takes
    <3> QED
      BY <2>1, <2>3, <2>6, <3>2, <3>3
  <2>13. CASE Moves(w, r, a, j)
    <3>1. j = job[r] /\ broken'[r] = broken[r] /\ attempt[w].row = r /\ a.row = r
      BY <2>13 DEF Moves
    <3>2. job[r].holder # w => (Sending(r)' <=> Sending(r))
      BY <1>1, <1>3, <2>3, <3>1 DEF Changes, Sending, AttemptTyped, JobTyped, Job
    <3>3. CASE attempt[w].stage = "read"
      <4>1. /\ mails'[r] = mails[r] /\ Fate(r)' = Fate(r)
            /\ \/ Fate(r) # None /\ a.stage = "done"
               \/ Fate(r) = None /\ a.stage \in {"recheck", "send"}
        BY <2>13, <3>3 DEF Moves
      <4>2. CASE job[r].holder = w
        BY <2>1, <2>3, <2>4, <2>5, <2>6, <2>7, <2>8, <3>1, <3>3, <4>1, <4>2, <2>10
      <4>3. CASE job[r].holder # w
        BY <2>1, <2>3, <2>4, <2>5, <2>6, <3>1, <3>2, <3>3, <4>1, <4>3
      <4> QED
        BY <4>2, <4>3
    <3>4. CASE attempt[w].stage = "recheck"
      <4>1. /\ mails'[r] = mails[r] /\ Fate(r)' = Fate(r)
            /\ a.stage = "send" \/ (a.stage = "mark" /\ a.outcome = "skipped")
        BY <2>13, <3>4 DEF Moves
      <4>2. w \in Unsent(r) /\ w \in Unsent(r)' /\ (Sending(r)' <=> Sending(r))
        BY <2>4, <2>5, <2>7, <2>8, <3>1, <3>2, <3>4, <4>1
      <4> QED
        BY <2>1, <2>3, <2>6, <3>1, <4>1, <4>2
    <3>5. CASE attempt[w].stage = "send"
      <4>1. /\ a.stage = "mark" /\ Fate(r)' = Fate(r)
            /\ \/ a.outcome = "sent" /\ mails'[r] = mails[r] + 1
               \/ a.outcome = "skipped" /\ mails'[r] = mails[r]
        BY <2>13, <3>5 DEF Moves
      <4>2. w \in Unsent(r) /\ (Sending(r)' <=> Sending(r))
        BY <2>4, <2>7, <2>8, <3>1, <3>2, <3>5, <4>1
      <4>3. w \in Unsent(r)' <=> a.outcome = "skipped"
        BY <2>5, <3>1, <4>1
      <4> QED
        BY <2>1, <2>3, <2>6, <2>10, <3>1, <4>1, <4>2, <4>3
    <3>6. CASE attempt[w].stage = "mark"
      <4>1. /\ a.stage = "done" /\ mails'[r] = mails[r]
            /\ Fate(r)' = IF Fate(r) = None THEN attempt[w].outcome ELSE Fate(r)
        BY <2>13, <3>6 DEF Moves
      <4>2. attempt[w].outcome # None
        BY <3>6 DEF Attempts, Knowledge
      <4>3. w \notin Unsent(r)' /\ (w \in Unsent(r) <=> attempt[w].outcome = "skipped")
        BY <2>4, <2>5, <3>1, <3>6, <4>1
      <4> QED
        BY <2>1, <2>3, <2>6, <2>10, <3>1, <4>1, <4>2, <4>3
    <3> QED
      BY <2>13, <3>3, <3>4, <3>5, <3>6 DEF Moves
  <2>14. CASE Leaves(w, r, a, j)
    <3>1. /\ attempt[w].row = r /\ attempt[w].stage # "idle"
          /\ mails'[r] = mails[r] /\ Fate(r)' = Fate(r)
      BY <2>14 DEF Leaves
    <3>2. attempt[w].stage \in {"read", "recheck", "send", "mark", "done"}
      BY <1>1, <3>1 DEF AttemptTyped, Attempt
    <3>3. attempt[w].stage = "done" => Fate(r) # None
      BY <3>1 DEF Attempts, Knowledge
    <3>4. j.holder = None => ~Sending(r)'
      BY <2>3 DEF Sending
    <3>5. CASE job[r].holder = w /\ a.stage = "idle"
      <4>1. /\ j.holder = None
            /\ broken'[r] = IF attempt[w].stage = "mark" THEN broken[r] + 1 ELSE broken[r]
        BY <1>1, <2>14, <3>1, <3>5 DEF Leaves
      <4>2. w \notin Unsent(r)'
        BY <2>5, <3>5
      <4>3. CASE attempt[w].stage \in {"read", "done"}
        BY <2>1, <2>3, <2>4, <2>6, <2>7, <3>1, <3>3, <3>5, <4>1, <4>2, <4>3
      <4>4. CASE attempt[w].stage \in {"recheck", "send"}
        <5>1. w \in Unsent(r) /\ broken'[r] = broken[r]
          BY <2>4, <3>1, <4>1, <4>4
        <5> QED
          BY <2>1, <2>3, <2>6, <3>1, <4>2, <5>1
      <4>5. CASE attempt[w].stage = "mark"
        <5>1. broken'[r] = broken[r] + 1
          BY <4>1, <4>5
        <5> QED
          BY <2>1, <2>3, <2>6, <3>1, <4>2, <5>1
      <4> QED
        BY <3>1, <3>2, <4>3, <4>4, <4>5
    <3>6. CASE job[r].holder = w /\ a = attempt[w]
      <4>1. /\ j.holder = None
            /\ broken'[r] = IF attempt[w].stage \in {"read", "recheck", "send", "mark"}
                              THEN broken[r] + 1 ELSE broken[r]
        BY <1>1, <2>14, <3>1, <3>6 DEF Leaves
      <4>2. CASE attempt[w].stage = "read"
        <5>1. w \notin Unsent(r) /\ w \in Unsent(r)' /\ broken'[r] = broken[r] + 1
          BY <2>3, <2>4, <2>5, <3>6, <4>1, <4>2, <3>1
        <5>2. ~Sending(r)
          BY <2>7, <3>6, <4>2
        <5> QED
          BY <2>1, <2>3, <2>6, <3>1, <5>1, <5>2
      <4>3. CASE attempt[w].stage \in {"recheck", "send", "mark"}
        <5>1. (w \in Unsent(r)' <=> w \in Unsent(r)) /\ broken'[r] = broken[r] + 1
          BY <2>4, <2>5, <3>1, <3>6, <4>1, <4>3
        <5> QED
          BY <2>1, <2>3, <2>6, <3>1, <5>1
      <4>4. CASE attempt[w].stage = "done"
        <5>1. w \notin Unsent(r)' /\ w \notin Unsent(r) /\ broken'[r] = broken[r]
          BY <2>4, <2>5, <3>6, <4>1, <4>4
        <5> QED
          BY <2>1, <2>3, <2>6, <3>1, <3>3, <4>4, <5>1
      <4> QED
        BY <3>2, <4>2, <4>3, <4>4
    <3>7. CASE job[r].holder # w
      <4>1. a.stage = "idle" /\ j = job[r] /\ broken'[r] = broken[r]
        BY <2>14, <3>7 DEF Leaves
      <4>2. Sending(r)' <=> Sending(r)
        BY <1>1, <1>3, <2>3, <3>7, <4>1 DEF Changes, Sending, AttemptTyped, JobTyped, Job
      <4>3. w \notin Unsent(r)'
        BY <2>5, <4>1
      <4> QED
        BY <2>1, <2>3, <2>6, <3>1, <4>1, <4>2, <4>3
    <3> QED
      BY <2>14, <3>5, <3>6, <3>7 DEF Leaves
  <2> QED
    BY <1>3, <2>12, <2>13, <2>14
<1> QED
  BY <1>2, <1>3, StepEffects DEF WorkerEffect

(* What a row says of the mail is what happened.                           *)
LEMMA HonestStep ==
  ASSUME TypeOK, HonestOutcome, Attempts, [Next]_vars, \A r \in Rows : MailsAccounted(r)'
  PROVE  HonestOutcome'
<1>1. OutboxTyped /\ OutboxTyped' /\ RestTyped /\ RestTyped'
      /\ \A r \in Rows : mails[r] <= mails'[r]
  BY Typed, RowsStay, CountersGrow
<1>2. ASSUME NEW r \in DOMAIN outbox'
      PROVE  /\ outbox'[r].delivery = "sent" => mails'[r] > 0
             /\ outbox'[r].delivery = "skipped" /\ MailEnabled
                  => r \in Reminders /\ mails'[r] <= broken'[r]
  <2>1. /\ r \in Rows /\ outbox'[r].delivery = Fate(r)'
        /\ mails[r] \in Nat /\ mails'[r] \in Nat /\ mails[r] <= mails'[r] /\ broken'[r] \in Nat
    BY <1>1, <1>2 DEF OutboxTyped, Fate, RestTyped
  <2>2. /\ Fate(r) = "sent" => mails[r] > 0
        /\ Fate(r) = "skipped" /\ MailEnabled => r \in Reminders
    BY NotificationAssumption DEF HonestOutcome, Fate
  <2>3. \/ Fate(r)' = Fate(r)
        \/ \E w \in Workers : Mark(w) /\ r = attempt[w].row /\ Fate(r)' = attempt[w].outcome
    BY RowsStay
  <2>4. ASSUME NEW w \in Workers, Mark(w), r = attempt[w].row
        PROVE  /\ attempt[w].outcome = "sent" => mails[r] > 0
               /\ attempt[w].outcome = "skipped" /\ MailEnabled => r \in Reminders
    BY <2>4 DEF Mark, Working, Attempts, Knowledge
  <2>5. /\ Fate(r)' = "sent" => mails[r] > 0
        /\ Fate(r)' = "skipped" /\ MailEnabled => r \in Reminders
    BY <2>2, <2>3, <2>4
  <2>6. Fate(r)' = "skipped" => mails'[r] <= broken'[r]
    <3>1. PICK T : T = Unsent(r)'
      OBVIOUS
    <3>2. T \subseteq Workers
      BY <3>1 DEF Unsent
    <3>3. Cardinality(T) \in Nat
      BY <3>2, FS_Subset, FS_CardinalityType, NotificationAssumption
    <3>4. Fate(r)' = "skipped" => mails'[r] + Cardinality(T) <= broken'[r]
      BY <2>1, <3>1 DEF MailsAccounted
    <3> QED
      BY <2>1, <3>3, <3>4
  <2> QED
    BY <2>1, <2>5, <2>6
<1> QED
  BY <1>2 DEF HonestOutcome

-----------------------------------------------------------------------------
(* The theorems.                                                           *)

(* IndInv is inductive: whatever faults occur, every attempt and every     *)
(* batch still knows what it has learnt, and the mails are accounted for.  *)
THEOREM Inductive == Spec => []IndInv
<1>1. Init => IndInv
  <2> SUFFICES ASSUME Init PROVE IndInv
    OBVIOUS
  <2>1. OutboxTyped /\ BatchTyped /\ AttemptTyped /\ RestTyped
    <3>1. OutboxTyped
      <4>1. DOMAIN outbox = {}
        BY DEF Init
      <4>2. outbox \in [{} -> OutboxRow]
        BY DEF Init
      <4> QED
        BY <4>1, <4>2 DEF OutboxTyped
    <3>2. BatchTyped
      <4>1. NoBatch \in Batch /\ NoBatch.todo = {} /\ NoBatch.row = None
        BY DEF NoBatch, Batch
      <4>2. batch = [x \in Batches |-> NoBatch]
        BY DEF Init
      <4> QED
        BY <4>1, <4>2 DEF BatchTyped, Batches
    <3>3. AttemptTyped
      <4>1. NoAttempt \in Attempt /\ NoAttempt.stage = "idle"
        BY DEF NoAttempt, Attempt
      <4>2. attempt = [w \in Workers |-> NoAttempt]
        BY DEF Init
      <4> QED
        BY <4>1, <4>2 DEF AttemptTyped, Working
    <3>4. RestTyped
      BY NotificationAssumption DEF Init, RestTyped
    <3> QED
      BY <3>1, <3>2, <3>3, <3>4
  <2>2. \A r \in Rows : job[r] \in Job /\ job[r].holder = None /\ job[r].state # "completed"
    <3> DEFINE gone == [NoJob EXCEPT !.state = "failed", !.attempts = MaxAttempts]
               lost == [NoJob EXCEPT !.state = "failed", !.stalled = TRUE]
    <3>1. gone \in Job /\ gone.holder = None /\ gone.state = "failed"
      <4>1. PICK half : half = [NoJob EXCEPT !.state = "failed"]
        OBVIOUS
      <4>2. half \in Job /\ half.holder = None /\ half.state = "failed"
        BY <4>1, FreshJobs DEF Job, JobState
      <4>3. gone = [half EXCEPT !.attempts = MaxAttempts]
        BY <4>1, Zenon
      <4>4. MaxAttempts \in 0 .. MaxAttempts
        BY NotificationAssumption
      <4> HIDE DEF gone
      <4> QED
        BY <4>2, <4>3, <4>4 DEF Job, JobState
    <3>2. lost \in Job /\ lost.holder = None /\ lost.state = "failed"
      BY FreshJobs DEF Job, JobState
    <3>3. \A r \in Rows : job[r] \in {NoJob, NewJob, gone, lost}
      BY DEF Init
    <3> HIDE DEF gone, lost
    <3> QED
      BY <3>1, <3>2, <3>3, FreshJobs
  <2>3. JobTyped
    BY <2>2 DEF Init, JobTyped
  <2>4. TypeOK
    BY <2>1, <2>3, Typed
  <2>5. /\ HolderWorks /\ CompletedIsProcessed /\ HonestOutcome
        /\ \A w \in Workers : AttemptKnows(w)
        /\ \A x \in Batches : BatchKnows(x)
    BY <2>2 DEF Init, HolderWorks, CompletedIsProcessed, HonestOutcome, AttemptKnows, BatchKnows,
                NoBatch, NoAttempt
  <2>6. ASSUME NEW r \in Rows
        PROVE  MailsAccounted(r)
    <3>1. Unsent(r) = {}
      BY DEF Init, Unsent, NoAttempt
    <3>2. Cardinality(Unsent(r)) = 0
      BY <3>1, FS_EmptySet
    <3> QED
      BY <3>2 DEF Init, MailsAccounted
  <2> QED
    BY <2>4, <2>5, <2>6 DEF IndInv
<1>2. IndInv /\ [Next]_vars => IndInv'
  <2> SUFFICES ASSUME IndInv, [Next]_vars PROVE IndInv'
    OBVIOUS
  <2>1. /\ TypeOK /\ HolderWorks /\ CompletedIsProcessed /\ HonestOutcome
        /\ Entries /\ Attempts /\ \A r \in Rows : MailsAccounted(r)
    BY Typed, EntriesKnown, AttemptsKnown DEF IndInv
  <2>2. Entries'
    BY <2>1, EntriesStep
  <2>3. Attempts'
    BY <2>1, AttemptsStep
  <2>4. JobTyped' /\ HolderWorks' /\ CompletedIsProcessed'
    BY <2>1, QueueStep
  <2>5. \A r \in Rows : MailsAccounted(r)'
    BY <2>1, MailsStep
  <2>6. HonestOutcome'
    BY <2>1, <2>5, HonestStep
  <2>7. OutboxTyped' /\ RestTyped'
    BY <2>1, RowsStay, CountersGrow
  <2>8. BatchTyped' /\ \A x \in Batches : BatchKnows(x)'
    BY <2>2 DEF Entries, Entry, BatchTyped, BatchKnows, Batches
  <2>9. AttemptTyped' /\ \A w \in Workers : AttemptKnows(w)'
    BY <2>3 DEF Attempts, Knowledge, AttemptTyped, AttemptKnows, Working
  <2>10. TypeOK'
    BY <2>4, <2>7, <2>8, <2>9
    DEF TypeOK, OutboxTyped, OutboxRow, JobTyped, BatchTyped, AttemptTyped, RestTyped
  <2> QED
    BY <2>4, <2>5, <2>6, <2>8, <2>9, <2>10 DEF IndInv
<1> QED
  BY <1>1, <1>2, PTL DEF Spec

(* Every variable keeps its type, and whoever works on a row works on one  *)
(* that exists.                                                            *)
THEOREM TypeCorrect == Spec => []TypeOK
<1>1. IndInv => TypeOK
  BY DEF IndInv
<1> QED
  BY <1>1, Inductive, PTL

(* A job is only completed after its row is settled, also when locks are   *)
(* lost and several attempts of one job end one after the other.           *)
THEOREM CompletedWhenProcessed == Spec => []CompletedIsProcessed
<1>1. IndInv => CompletedIsProcessed
  BY DEF IndInv
<1> QED
  BY <1>1, Inductive, PTL

(* The outcome that a row records is what happened to its mail.            *)
THEOREM OutcomesHonest == Spec => []HonestOutcome
<1>1. IndInv => HonestOutcome
  BY DEF IndInv
<1> QED
  BY <1>1, Inductive, PTL

(* A mail is sent once, and once more at most for every attempt that was   *)
(* broken off: the queue, the dispatchers and the retry command add no     *)
(* further one.                                                            *)
THEOREM SentOnce == Spec => []NoNeedlessResend
<1>1. IndInv => NoNeedlessResend
  <2> SUFFICES ASSUME IndInv, NEW r \in Rows
               PROVE  mails[r] <= 1 + broken[r]
    BY DEF NoNeedlessResend
  <2>1. Unsent(r) \subseteq Workers
    BY DEF Unsent
  <2>2. Cardinality(Unsent(r)) \in Nat
    BY <2>1, FS_Subset, FS_CardinalityType, NotificationAssumption
  <2>3. mails[r] \in Nat /\ broken[r] \in Nat
    BY DEF IndInv, TypeOK
  <2>4. mails[r] + Cardinality(Unsent(r)) <= 1 + broken[r]
    BY DEF IndInv, MailsAccounted
  <2> QED
    BY <2>2, <2>3, <2>4
<1> QED
  BY <1>1, Inductive, PTL

(* No step of any actor changes how a settled row was settled, or deletes a*)
(* row.                                                                    *)
THEOREM OutcomesFinal == Spec => ProcessedIsFinal
<1>1. IndInv /\ [Next]_vars =>
        [\A r \in DOMAIN outbox : /\ r \in DOMAIN outbox'
                                  /\ Processed(r) => outbox'[r].delivery = outbox[r].delivery]_vars
  <2> SUFFICES ASSUME IndInv, [Next]_vars, NEW r \in DOMAIN outbox
               PROVE  /\ r \in DOMAIN outbox'
                      /\ Processed(r) => outbox'[r].delivery = outbox[r].delivery
    OBVIOUS
  <2>1. /\ DOMAIN outbox \subseteq DOMAIN outbox'
        /\ Fate(r) # None => Fate(r)' = Fate(r)
    BY RowsStay DEF IndInv
  <2> QED
    BY <2>1 DEF Processed, Fate
<1> QED
  BY <1>1, Inductive, PTL DEF Spec, ProcessedIsFinal

(* Without a fault a job is removed only when its row is settled: neither  *)
(* the dispatchers nor the retry command lose a notification.              *)
THEOREM JobsKept == Spec => JobKeptUntilProcessed
<1>1. IndInv /\ [Next]_vars =>
        [\A r \in DOMAIN outbox :
           job[r].state # "none" /\ job'[r].state = "none" /\ faults' = faults
             => Processed(r)]_vars
  <2> SUFFICES ASSUME IndInv, [Next]_vars, NEW r \in DOMAIN outbox,
                      job[r].state # "none", job'[r].state = "none", faults' = faults
               PROVE  Processed(r)
    OBVIOUS
  <2>1. TypeOK /\ HolderWorks /\ Entries /\ r \in Rows /\ faults \in Nat /\ job[r] \in Job
    BY EntriesKnown, Typed DEF IndInv, TypeOK
  <2>2. ~Fault
    BY <2>1 DEF Fault
  <2>3. job' # job
    OBVIOUS
  <2>4. ASSUME NEW x \in Batches, batch[x].row # None, Fate(batch[x].row) # None,
               job' = [job EXCEPT ![batch[x].row] = NoJob]
        PROVE  Processed(r)
    BY <2>1, <2>4 DEF TypeOK, Fate, Processed
  <2>5. ASSUME NEW d \in Dispatchers, Dispatch(d)
        PROVE  Processed(r)
    <3>1. d \in Batches /\ Entry(d, batch[d])
      BY <2>1 DEF Batches, Entries
    <3>2. CASE Reread(d)
      <4>1. batch[d].row # None /\ Fate(batch[d].row) # None
        BY <3>1, <3>2 DEF Entry, Reread, InBatch
      <4> QED
        BY <2>3, <2>4, <3>1, <3>2, <4>1 DEF Reread
    <3>3. CASE Add(d)
      BY <2>1, <3>3, FreshJobs DEF Add, TypeOK
    <3> QED
      BY <2>3, <2>5, <3>2, <3>3 DEF Dispatch, Begin, SelectPending, MarkChecked, Look
  <2>6. ASSUME NEW c \in Commands, RetryFailed(c)
        PROVE  Processed(r)
    <3>1. c \in Batches /\ Entry(c, batch[c])
      BY <2>1 DEF Batches, Entries
    <3>2. CASE Remove(c)
      <4>1. batch[c].row # None /\ Fate(batch[c].row) # None
        BY <3>1, <3>2 DEF Entry, Remove, InBatch
      <4> QED
        BY <2>3, <2>4, <3>1, <3>2, <4>1 DEF Remove
    <3>3. CASE Retry(c)
      <4>1. job' = [job EXCEPT ![batch[c].row].state = "waiting"]
        BY <2>3, <3>3 DEF Retry
      <4>2. job'[r].state = job[r].state \/ job'[r].state = "waiting"
        BY <2>1, <4>1 DEF TypeOK, Job
      <4> QED
        BY <4>2
    <3> QED
      BY <2>3, <2>6, <3>2, <3>3 DEF RetryFailed, Begin, SelectFailed, MarkChecked, Find
  <2>7. ASSUME NEW o \in Rows, Stall(o) \/ Promote(o)
        PROVE  FALSE
    <3>1. PICK j : /\ job' = [job EXCEPT ![o] = j]
                   /\ j = [job[o] EXCEPT !.state = IF job[o].stalled THEN "failed" ELSE "waiting",
                                         !.stalled = TRUE]
                      \/ j = [job[o] EXCEPT !.state = "waiting"]
      BY <2>7 DEF Stall, Promote
    <3>2. job[o] \in Job
      BY <2>1 DEF TypeOK
    <3>3. j.state # "none"
      BY <3>1, <3>2 DEF Job
    <3> QED
      BY <2>1, <3>1, <3>3 DEF TypeOK
  <2>8. ASSUME NEW w \in Workers, Work(w)
        PROVE  FALSE
    <3>1. PICK o, j : job' = [job EXCEPT ![o] = j] /\ j.state # "none"
      <4>1. ASSUME NEW o \in Rows, Take(w, o)
            PROVE  \E j : job' = [job EXCEPT ![o] = j] /\ j.state # "none"
        <5>1. job[o] \in Job
          BY <2>1 DEF TypeOK
        <5>2. PICK j : j = [job[o] EXCEPT !.state = "active", !.holder = w]
          OBVIOUS
        <5>3. j.state = "active"
          BY <5>1, <5>2 DEF Job
        <5> QED
          BY <4>1, <5>2, <5>3 DEF Take
      <4>2. CASE Complete(w)
        <5>1. attempt[w].row \in Rows
          BY <2>1, <4>2 DEF TypeOK, Complete, Working
        <5>2. job[attempt[w].row] \in Job
          BY <2>1, <5>1 DEF TypeOK
        <5>3. PICK j : j = [job[attempt[w].row] EXCEPT !.state = "completed", !.holder = None]
          OBVIOUS
        <5>4. j.state = "completed"
          BY <5>2, <5>3 DEF Job
        <5>5. job' = [job EXCEPT ![attempt[w].row] = j]
          BY <2>3, <4>2, <5>3 DEF Complete, EndJob
        <5> QED
          BY <5>4, <5>5
      <4> QED
        BY <2>3, <2>8, <4>1, <4>2 DEF Work, Read, Recheck, Send, Mark
    <3> QED
      BY <2>1, <3>1 DEF TypeOK
  <2>9. ASSUME NEW o \in Rows, Write(o) \/ Depart(o)
        PROVE  FALSE
    BY <2>3, <2>9 DEF Write, Depart
  <2>10. ASSUME \/ \E o \in Rows : LoseJob(o)
                \/ \E w \in Workers : AttemptError(w) \/ Crash(w) \/ LoseLock(w)
                \/ \E x \in Batches : RowError(x) \/ Quit(x)
         PROVE  FALSE
    BY <2>2, <2>10 DEF LoseJob, AttemptError, Crash, LoseLock, RowError, Quit
  <2> QED
    BY <2>3, <2>5, <2>6, <2>7, <2>8, <2>9, <2>10 DEF Next, vars
<1> QED
  BY <1>1, Inductive, PTL DEF Spec, JobKeptUntilProcessed
=============================================================================

------------------------------ MODULE Galleries ------------------------------
(***************************************************************************)
(* Tours and reviews with their images: the parts of ToursService and      *)
(* ReviewsService that change tour_images, review_images and the status of *)
(* reviews, and of FileStorageService what they call.                      *)
(*                                                                         *)
(* An image is a row and a file.  A tour stores its uploads before the     *)
(* transaction that locks it, a review in the middle of it; both remove    *)
(* files after the transaction, replaced ones when it committed and        *)
(* uploaded ones when it did not.  MaxFaults bounds the lost answers, lost *)
(* processes and failed removals.                                          *)
(*                                                                         *)
(* A review is named by its customer and its tour, on which there is a     *)
(* unique index.  Texts, ratings, the order of images and the status of    *)
(* tours are left out; whether a customer may review a tour at all is a    *)
(* question to the bookings and may be answered either way.                *)
(***************************************************************************)
EXTENDS Naturals, FiniteSets

CONSTANTS
  Requests,      \* requests under way at the same time
  Tours,
  Reviews,       \* pairs of a customer and a tour
  Files,         \* names a stored image may get, which also name its row
  MaxImages,     \* MAX_TOUR_IMAGE_COUNT, MAX_REVIEW_IMAGE_COUNT
  MaxFaults,     \* bound of lost answers, lost processes and failed removals
  None

ASSUME GalleriesAssumption ==
  /\ Tours \cap Reviews = {}
  /\ IsFiniteSet(Files)
  /\ MaxImages \in Nat
  /\ MaxFaults \in Nat
  /\ None \notin Tours \cup Reviews

VARIABLES
  tours,         \* the tours there are
  status,        \* the reviews there are
  gallery,       \* image rows of each tour and review
  files,         \* image files on disk
  tx,            \* what each request is doing
  unconfirmed,   \* history variable: uploads whose commit got no answer
  faults         \* faults so far

vars == <<tours, status, gallery, files, tx, unconfirmed, faults>>

Owners == Tours \cup Reviews

ReviewStatus == {"DELETED", "HIDDEN", "PUBLISHED"}

TourOps    == {"createTour", "updateTour"}
ReviewOps  == {"createReview", "updateReview", "deleteReview"}
Operations == TourOps \cup ReviewOps

(* The statements an operation goes through.                               *)
Stages(op) ==
  IF op = "createTour" THEN {"store", "commit"}
  ELSE IF op = "createReview" THEN {"store", "insert", "commit"}
  ELSE IF op = "deleteReview" THEN {"lock", "commit"}
  ELSE {"store", "lock", "commit"}

Uploads == {add \in SUBSET Files : Cardinality(add) <= MaxImages}

(* add are the uploads, remove the images to take away, stale the files    *)
(* that are removed after the transaction.                                 *)
TxOf(op) ==
  [op : {op}, stage : Stages(op) \cup {"cleanup"},
   owner : IF op \in TourOps THEN Tours ELSE Reviews,
   add : IF op = "deleteReview" THEN {{}} ELSE Uploads,
   remove : IF op \in {"updateTour", "updateReview"} THEN SUBSET Files ELSE {{}},
   stale : SUBSET Files]

Idle == [op |-> "none", stage |-> "idle", owner |-> None, add |-> {},
         remove |-> {}, stale |-> {}]

-----------------------------------------------------------------------------

At(r, ops, stages) == tx[r].op \in ops /\ tx[r].stage \in stages

(* The row of an owner, or the unique index entry of a new one, is held. A *)
(* review holds it while its images are stored.                            *)
HoldsRow(r, o) ==
  /\ tx[r].owner = o
  /\ At(r, Operations, {"commit"}) \/ At(r, {"updateReview"}, {"store"})

(* Mutant: rows are read without a lock.                                   *)
RowFreeAlways(r, o) == TRUE

RowFree(r, o) == \A s \in Requests \ {r} : ~HoldsRow(s, o)

(* What is removed is there, and what results is not too much.             *)
Allowed(o, add, remove) ==
  /\ remove \subseteq gallery[o]
  /\ Cardinality(gallery[o]) - Cardinality(remove) + Cardinality(add) <= MaxImages

(* A UUID names no file that was ever seen.                                *)
NeverUsed(f) ==
  /\ f \notin files \cup unconfirmed
  /\ \A o \in Owners : f \notin gallery[o]
  /\ \A r \in Requests : f \notin tx[r].add \cup tx[r].remove \cup tx[r].stale

Begin(r, op, stage, o, add, remove) ==
  /\ tx[r] = Idle
  /\ add \in Uploads
  /\ \A f \in add : NeverUsed(f)
  /\ tx' = [tx EXCEPT ![r] = [op |-> op, stage |-> stage, owner |-> o, add |-> add,
                              remove |-> remove, stale |-> {}]]
  /\ UNCHANGED <<tours, status, gallery, files, unconfirmed, faults>>

Goto(r, stage) ==
  /\ tx' = [tx EXCEPT ![r].stage = stage]
  /\ UNCHANGED <<tours, status, gallery, unconfirmed, faults>>

(* After the transaction, committed or not: what is left to remove.        *)
Finish(r, stale) ==
  tx' = [tx EXCEPT ![r] = IF stale = {} THEN Idle
                          ELSE [@ EXCEPT !.stage = "cleanup", !.stale = stale]]

(* Mutant: uploads are forgotten when their transaction fails.             *)
RefuseAndForget(r) ==
  /\ Finish(r, {})
  /\ UNCHANGED <<tours, status, gallery, files, unconfirmed, faults>>

(* Mutant: the images to take away are removed whether or not they were.   *)
RefuseAndRemoveAll(r) ==
  /\ Finish(r, (tx[r].add \cup tx[r].remove) \cap files)
  /\ UNCHANGED <<tours, status, gallery, files, unconfirmed, faults>>

(* The transaction rolls back and what was stored for it is removed.       *)
Refuse(r) ==
  /\ Finish(r, tx[r].add \cap files)
  /\ UNCHANGED <<tours, status, gallery, files, unconfirmed, faults>>

-----------------------------------------------------------------------------

Init ==
  /\ tours = {}
  /\ status = [v \in {} |-> "PUBLISHED"]
  /\ gallery = [o \in Owners |-> {}]
  /\ files = {}
  /\ tx = [r \in Requests |-> Idle]
  /\ unconfirmed = {}
  /\ faults = 0

(* A tour without uploads is one INSERT.                                   *)
CreateTour(r, t, add) ==
  /\ t \notin tours
  /\ \A s \in Requests : tx[s].owner # t
  /\ Begin(r, "createTour", IF add = {} THEN "commit" ELSE "store", t, add, {})

(* The first check is on images that are read without a lock.  An update   *)
(* without images is a save of the row, which is not modelled here.        *)
UpdateTour(r, t, add, remove) ==
  /\ t \in tours
  /\ add \cup remove # {}
  /\ Allowed(t, add, remove)
  /\ Begin(r, "updateTour", IF add = {} THEN "lock" ELSE "store", t, add, remove)

(* The tour exists, there is no review yet, and a booking makes the        *)
(* customer eligible.                                                      *)
CreateReview(r, v, add) ==
  /\ v \notin DOMAIN status
  /\ Begin(r, "createReview", IF add = {} THEN "insert" ELSE "store", v, add, {})

UpdateReview(r, v, add, remove) ==
  /\ v \in DOMAIN status
  /\ add \cup remove # {}
  /\ Begin(r, "updateReview", "lock", v, add, remove)

DeleteReview(r, v) ==
  /\ v \in DOMAIN status
  /\ Begin(r, "deleteReview", "lock", v, {}, {})

(* Mutant: a deleted review can be moderated.                              *)
ModerateAny(v, s) ==
  /\ v \in DOMAIN status
  /\ \A r \in Requests : ~HoldsRow(r, v)
  /\ status' = [status EXCEPT ![v] = s]
  /\ UNCHANGED <<tours, gallery, files, tx, unconfirmed, faults>>

(* One UPDATE: it waits for the row and looks at its status then.          *)
Moderate(v, s) ==
  /\ v \in DOMAIN status
  /\ \A r \in Requests : ~HoldsRow(r, v)
  /\ status[v] # "DELETED"
  /\ status' = [status EXCEPT ![v] = s]
  /\ UNCHANGED <<tours, gallery, files, tx, unconfirmed, faults>>

AfterStore(op) ==
  IF op = "updateTour" THEN "lock" ELSE IF op = "createReview" THEN "insert" ELSE "commit"

(* FileStorageService.store: every file, or none.                          *)
Store(r) ==
  /\ At(r, Operations, {"store"})
  /\ files' = files \cup tx[r].add
  /\ Goto(r, AfterStore(tx[r].op))

(* Mutant: the tour relies on the check it made before the lock.           *)
LockTourUnchecked(r) ==
  /\ At(r, {"updateTour"}, {"lock"})
  /\ RowFree(r, tx[r].owner)
  /\ Goto(r, "commit") /\ UNCHANGED files

(* SELECT ... FOR UPDATE of the tour, and the second check.                *)
LockTour(r) ==
  /\ At(r, {"updateTour"}, {"lock"})
  /\ RowFree(r, tx[r].owner)
  /\ Allowed(tx[r].owner, tx[r].add, tx[r].remove)
  /\ Goto(r, "commit") /\ UNCHANGED files

RefuseTour(r) ==
  /\ At(r, {"updateTour"}, {"lock"})
  /\ RowFree(r, tx[r].owner)
  /\ ~Allowed(tx[r].owner, tx[r].add, tx[r].remove)
  /\ Refuse(r)

(* INSERT ... ON CONFLICT DO NOTHING waits for an insert that has not      *)
(* committed, and inserts nothing when there is a review.                  *)
InsertReview(r) ==
  /\ At(r, {"createReview"}, {"insert"})
  /\ RowFree(r, tx[r].owner)
  /\ tx[r].owner \notin DOMAIN status
  /\ Goto(r, "commit") /\ UNCHANGED files

AlreadyReviewed(r) ==
  /\ At(r, {"createReview"}, {"insert"})
  /\ tx[r].owner \in DOMAIN status
  /\ Refuse(r)

(* Whoever locks a review finds it and may do what is asked.               *)
ReviewAllows(r) ==
  /\ status[tx[r].owner] # "DELETED"
  /\ tx[r].op = "updateReview" => Allowed(tx[r].owner, tx[r].add, tx[r].remove)

(* The locked SELECT of an update, the UPDATE of a deletion.               *)
LockReview(r) ==
  /\ At(r, {"updateReview", "deleteReview"}, {"lock"})
  /\ RowFree(r, tx[r].owner)
  /\ ReviewAllows(r)
  /\ Goto(r, IF tx[r].add = {} THEN "commit" ELSE "store") /\ UNCHANGED files

RefuseReview(r) ==
  /\ At(r, {"updateReview", "deleteReview"}, {"lock"})
  /\ RowFree(r, tx[r].owner)
  /\ ~ReviewAllows(r)
  /\ Refuse(r)

(* The images that a transaction takes away.                               *)
Removed(r) == IF tx[r].op = "deleteReview" THEN gallery[tx[r].owner] ELSE tx[r].remove

(* The rows become visible.                                                *)
Write(r) ==
  LET o == tx[r].owner IN
  /\ gallery' = [gallery EXCEPT ![o] = (@ \ Removed(r)) \cup tx[r].add]
  /\ tours' = IF tx[r].op = "createTour" THEN tours \cup {o} ELSE tours
  /\ status' = IF tx[r].op = "createReview"
                 THEN [v \in DOMAIN status \cup {o} |->
                         IF v = o THEN "PUBLISHED" ELSE status[v]]
               ELSE IF tx[r].op = "deleteReview"
                 THEN [status EXCEPT ![o] = "DELETED"]
               ELSE status

Commit(r) ==
  /\ At(r, Operations, {"commit"})
  /\ Write(r)
  /\ Finish(r, Removed(r))
  /\ UNCHANGED <<files, unconfirmed, faults>>

(* removeBestEffort after the transaction.                                 *)
CleanUp(r) ==
  /\ At(r, Operations, {"cleanup"})
  /\ files' = files \ tx[r].stale
  /\ tx' = [tx EXCEPT ![r] = Idle]
  /\ UNCHANGED <<tours, status, gallery, unconfirmed, faults>>

-----------------------------------------------------------------------------
(* Failures.                                                               *)

(* A request that has not committed or failed yet.                         *)
UnderWay(r) == At(r, Operations, {"store", "lock", "insert", "commit"})

(* A write of a file, a statement or COMMIT fails, which rolls back.       *)
Fail(r) ==
  /\ UnderWay(r)
  /\ Refuse(r)

Fault == faults < MaxFaults /\ faults' = faults + 1

(* COMMIT takes effect and its answer is lost: the handler takes it for a  *)
(* failure, and removes the uploads that rows now name.                    *)
CommitUnconfirmed(r) ==
  /\ At(r, Operations, {"commit"})
  /\ Write(r)
  /\ Finish(r, tx[r].add)
  /\ unconfirmed' = unconfirmed \cup tx[r].add
  /\ Fault
  /\ UNCHANGED files

(* unlink fails, which is logged; or the process is lost, perhaps between  *)
(* two of its files.                                                       *)
Lose(r) ==
  /\ tx[r] # Idle
  /\ \E some \in SUBSET Files :
       files' = IF At(r, Operations, {"store"}) THEN files \cup (some \cap tx[r].add)
                ELSE files \ (some \cap tx[r].stale)
  /\ tx' = [tx EXCEPT ![r] = Idle]
  /\ Fault
  /\ UNCHANGED <<tours, status, gallery, unconfirmed>>

-----------------------------------------------------------------------------

Handler(r) ==
  \/ \E t \in Tours, add \in SUBSET Files : CreateTour(r, t, add)
  \/ \E t \in Tours, add, remove \in SUBSET Files : UpdateTour(r, t, add, remove)
  \/ \E v \in Reviews, add \in SUBSET Files : CreateReview(r, v, add)
  \/ \E v \in Reviews, add, remove \in SUBSET Files : UpdateReview(r, v, add, remove)
  \/ \E v \in Reviews : DeleteReview(r, v)
  \/ Store(r)
  \/ LockTour(r)
  \/ RefuseTour(r)
  \/ InsertReview(r)
  \/ AlreadyReviewed(r)
  \/ LockReview(r)
  \/ RefuseReview(r)
  \/ Commit(r)
  \/ CleanUp(r)

Next ==
  \/ \E r \in Requests : Handler(r) \/ Fail(r) \/ CommitUnconfirmed(r) \/ Lose(r)
  \/ \E v \in Reviews, s \in {"HIDDEN", "PUBLISHED"} : Moderate(v, s)

Spec == Init /\ [][Next]_vars

-----------------------------------------------------------------------------
(* Properties.                                                             *)

TypeOK ==
  /\ tours \subseteq Tours
  /\ DOMAIN status \subseteq Reviews
  /\ status \in [DOMAIN status -> ReviewStatus]
  /\ gallery \in [Owners -> SUBSET Files]
  /\ files \subseteq Files
  /\ tx = [r \in Requests |-> tx[r]]
  /\ \A r \in Requests : tx[r] = Idle \/ \E op \in Operations : tx[r] \in TxOf(op)
  /\ unconfirmed \subseteq Files
  /\ faults \in 0 .. MaxFaults

(* No tour and no review ever has more images than are allowed, however    *)
(* many requests add and remove at once (validateImageChange, retained).   *)
WithinLimit == \A o \in Owners : Cardinality(gallery[o]) <= MaxImages

(* Every image has its file, through requests that remove the same image   *)
(* and failures at every step; only a commit whose answer was lost breaks  *)
(* it (the catch of create and update).                                    *)
ImageHasFile == \A o \in Owners : gallery[o] \subseteq files \cup unconfirmed

(* When every request has ended without a fault, no file is left that is   *)
(* no image: uploads of refused and failed requests are removed, and so    *)
(* are the images that were taken away.                                    *)
NoLeftovers ==
  (faults = 0 /\ \A r \in Requests : tx[r] = Idle) =>
    files \subseteq UNION {gallery[o] : o \in Owners}

(* A deleted review has no images, also when its customer was adding some  *)
(* while an administrator deleted it (deleteReview).                       *)
DeletedIsEmpty ==
  \A v \in DOMAIN status : status[v] = "DELETED" => gallery[v] = {}

(* A deleted review is not brought back by a moderation or an update that  *)
(* was under way (Not(ReviewStatus.DELETED)).                              *)
DeletedIsFinal ==
  [][\A v \in DOMAIN status : status[v] = "DELETED" => status'[v] = "DELETED"]_vars

(* What these rest on.  A row is held by one request;                      *)
OneWriter ==
  \A r, s \in Requests, o \in Owners : HoldsRow(r, o) /\ HoldsRow(s, o) => r = s

(* what was checked under the lock is still allowed;                       *)
StillAllowed ==
  \A r \in Requests :
    /\ At(r, {"updateTour"}, {"commit"}) =>
         Allowed(tx[r].owner, tx[r].add, tx[r].remove)
    /\ At(r, {"updateReview"}, {"store", "commit"}) =>
         Allowed(tx[r].owner, tx[r].add, tx[r].remove)
    /\ At(r, {"updateReview", "deleteReview"}, {"store", "commit"}) =>
         status[tx[r].owner] # "DELETED"

(* what is created is new, what is changed exists, and only what exists has*)
(* images;                                                                 *)
StillNew ==
  /\ \A r \in Requests : At(r, {"createReview"}, {"commit"}) => tx[r].owner \notin DOMAIN status
  /\ \A r \in Requests : At(r, {"createTour"}, {"store", "commit"}) =>
       /\ tx[r].owner \notin tours
       /\ \A s \in Requests \ {r} : tx[s].owner # tx[r].owner
  /\ \A r \in Requests : At(r, {"updateTour"}, {"store", "lock", "commit"}) =>
       tx[r].owner \in tours
  /\ \A r \in Requests : At(r, {"updateReview", "deleteReview"}, {"store", "lock", "commit"}) =>
       tx[r].owner \in DOMAIN status
  /\ \A o \in Owners : gallery[o] # {} => o \in tours \cup DOMAIN status

(* The uploads of a request, if any, are on disk.                          *)
HasStored(r) ==
  At(r, Operations, {"insert", "commit"}) \/ At(r, {"updateTour"}, {"lock"})

(* files under way are nobody's images yet, and nobody else will have them;*)
FilesApart ==
  /\ \A o, q \in Owners : gallery[o] \cap gallery[q] # {} => o = q
  /\ \A r \in Requests : UnderWay(r) =>
       /\ tx[r].add \cap unconfirmed = {}
       /\ \A o \in Owners : tx[r].add \cap gallery[o] = {}
       /\ \A s \in Requests \ {r} : tx[r].add \cap (tx[s].add \cup tx[s].stale) = {}
       /\ HasStored(r) => tx[r].add \subseteq files
  /\ \A r \in Requests, o \in Owners : tx[r].stale \cap gallery[o] \subseteq unconfirmed

(* The inductive invariant.                                                *)
IndInv ==
  /\ TypeOK
  /\ OneWriter
  /\ StillAllowed
  /\ StillNew
  /\ FilesApart
  /\ WithinLimit
  /\ ImageHasFile
  /\ DeletedIsEmpty

(* What NoLeftovers rests on: while no fault has occurred, a file is an    *)
(* image, or the upload of a request under way, or about to be removed; and*)
(* a request has nothing to remove before it ends.                         *)
Pending(r) == IF UnderWay(r) THEN tx[r].add ELSE {}

FilesAccounted ==
  /\ \A r \in Requests : UnderWay(r) => tx[r].stale = {}
  /\ faults = 0 =>
       \A f \in files : \/ \E o \in Owners : f \in gallery[o]
                       \/ \E r \in Requests : f \in Pending(r) \cup tx[r].stale
=============================================================================

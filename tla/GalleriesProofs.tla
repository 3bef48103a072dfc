-------------------------- MODULE GalleriesProofs --------------------------
(***************************************************************************)
(* Proofs about Galleries, for every set of requests, tours, reviews and   *)
(* files, every limit and every number of faults.                          *)
(***************************************************************************)
EXTENDS Galleries, FiniteSetTheorems, TLAPS

(* The conditions on a request, as conditions on what it is doing.         *)
Active(e) == e.op \in Operations /\ e.stage \in {"store", "lock", "insert", "commit"}

Holding(e) ==
  \/ e.op \in Operations /\ e.stage = "commit"
  \/ e.op = "updateReview" /\ e.stage = "store"

Stored(e) ==
  \/ e.op \in Operations /\ e.stage \in {"insert", "commit"}
  \/ e.op = "updateTour" /\ e.stage = "lock"

Checked(e) ==
  /\ e.op = "updateTour" /\ e.stage = "commit" => Allowed(e.owner, e.add, e.remove)
  /\ e.op = "updateReview" /\ e.stage \in {"store", "commit"} =>
       Allowed(e.owner, e.add, e.remove)
  /\ e.op \in {"updateReview", "deleteReview"} /\ e.stage \in {"store", "commit"} =>
       status[e.owner] # "DELETED"

New(e) ==
  /\ e.op = "createReview" /\ e.stage = "commit" => e.owner \notin DOMAIN status
  /\ e.op = "createTour" /\ e.stage \in {"store", "commit"} => e.owner \notin tours
  /\ e.op = "updateTour" /\ e.stage \in {"store", "lock", "commit"} => e.owner \in tours
  /\ e.op \in {"updateReview", "deleteReview"} /\ e.stage \in {"store", "lock", "commit"} =>
       e.owner \in DOMAIN status

(* Where something is taken away and no more is added, the set is no larger*)
(* than the numbers say.                                                   *)
LEMMA ChangedSize ==
  ASSUME NEW S, IsFiniteSet(S), NEW R \in SUBSET S, NEW A, IsFiniteSet(A)
  PROVE  Cardinality((S \ R) \cup A) <= Cardinality(S) - Cardinality(R) + Cardinality(A)
<1>1. IsFiniteSet(R) /\ Cardinality(S \ R) = Cardinality(S) - Cardinality(S \cap R)
  BY FS_Subset, FS_Difference
<1>2. S \cap R = R
  OBVIOUS
<1>3. IsFiniteSet(S \ R)
  BY FS_Difference
<1>4. Cardinality((S \ R) \cup A) =
        Cardinality(S \ R) + Cardinality(A) - Cardinality((S \ R) \cap A)
  BY <1>3, FS_Union
<1>5. IsFiniteSet((S \ R) \cap A)
  BY <1>3, FS_Intersection
<1>6. Cardinality(S \ R) = Cardinality(S) - Cardinality(R)
  BY <1>1, <1>2
<1>7. PICK s \in Nat, u \in Nat, a \in Nat, d \in Nat, c \in Nat :
        /\ s = Cardinality(S) /\ u = Cardinality(R) /\ a = Cardinality(A)
        /\ d = Cardinality(S \ R) /\ c = Cardinality((S \ R) \cap A)
  BY <1>1, <1>3, <1>5, FS_CardinalityType
<1>8. d = s - u /\ Cardinality((S \ R) \cup A) = d + a - c
  BY <1>4, <1>6, <1>7
<1>9. d + a - c <= s - u + a
  BY <1>7, <1>8
<1> QED
  BY <1>7, <1>8, <1>9

-----------------------------------------------------------------------------
(* Steps that change no row.                                               *)

(* A step of r that changes what r is doing, and perhaps files.            *)
LEMMA LocalStep ==
  ASSUME IndInv, NEW r \in Requests, NEW e,
         tx' = [tx EXCEPT ![r] = e],
         tours' = tours, status' = status, gallery' = gallery, unconfirmed' = unconfirmed,
         files' \subseteq Files, faults' \in 0 .. MaxFaults,
         e = Idle \/ \E op \in Operations : e \in TxOf(op),
         Holding(e) => \A s \in Requests \ {r} : ~HoldsRow(s, e.owner),
         Checked(e),
         New(e),
         \A s \in Requests \ {r} :
           At(s, {"createTour"}, {"store", "commit"}) => tx[s].owner # e.owner,
         e.op = "createTour" /\ e.stage \in {"store", "commit"} =>
           \A s \in Requests \ {r} : tx[s].owner # e.owner,
         Active(e) => e.add \cap unconfirmed = {},
         Active(e) => \A o \in Owners : e.add \cap gallery[o] = {},
         Active(e) => \A s \in Requests \ {r} : e.add \cap (tx[s].add \cup tx[s].stale) = {},
         Stored(e) => e.add \subseteq files',
         \A s \in Requests \ {r} : UnderWay(s) => tx[s].add \cap (e.add \cup e.stale) = {},
         \A s \in Requests \ {r} : HasStored(s) => tx[s].add \subseteq files',
         \A o \in Owners : e.stale \cap gallery[o] \subseteq unconfirmed,
         \A o \in Owners : gallery[o] \subseteq files' \cup unconfirmed
  PROVE  IndInv'
<1>1. tx'[r] = e /\ \A s \in Requests \ {r} : tx'[s] = tx[s]
  BY DEF IndInv, TypeOK
<1>2. TypeOK'
  BY <1>1 DEF IndInv, TypeOK
<1>3. OneWriter'
  BY <1>1 DEF IndInv, OneWriter, HoldsRow, Holding, At
<1>4. StillAllowed'
  <2>1. \A s \in Requests \ {r} :
          /\ At(s, {"updateTour"}, {"commit"}) => Allowed(tx[s].owner, tx[s].add, tx[s].remove)
          /\ At(s, {"updateReview"}, {"store", "commit"}) =>
               Allowed(tx[s].owner, tx[s].add, tx[s].remove)
          /\ At(s, {"updateReview", "deleteReview"}, {"store", "commit"}) =>
               status[tx[s].owner] # "DELETED"
    BY DEF IndInv, StillAllowed
  <2> QED
    BY <1>1, <2>1 DEF StillAllowed, Checked, At, Allowed
<1>5. StillNew'
  BY <1>1 DEF IndInv, StillNew, New, At
<1>6. FilesApart'
  BY <1>1 DEF IndInv, FilesApart, UnderWay, Active, HasStored, Stored, At
<1>7. WithinLimit' /\ ImageHasFile' /\ DeletedIsEmpty'
  BY DEF IndInv, WithinLimit, ImageHasFile, DeletedIsEmpty
<1> QED
  BY <1>2, <1>3, <1>4, <1>5, <1>6, <1>7 DEF IndInv

(* What r does after its transaction is done.                              *)
LEMMA Finished ==
  ASSUME TypeOK, NEW r \in Requests, tx[r] # Idle, NEW stale \in SUBSET Files, Finish(r, stale)
  PROVE  \E e : /\ tx' = [tx EXCEPT ![r] = e]
                /\ e = Idle \/ \E op \in Operations : e \in TxOf(op)
                /\ e.stage \in {"idle", "cleanup"}
                /\ e.stale \subseteq stale
                /\ e.add \subseteq tx[r].add
                /\ e.owner # None => e.owner = tx[r].owner
<1>1. CASE stale = {}
  <2>1. tx' = [tx EXCEPT ![r] = Idle]
    BY <1>1 DEF Finish
  <2>2. Idle.stage = "idle" /\ Idle.stale = {} /\ Idle.add = {} /\ Idle.owner = None
    BY DEF Idle
  <2> QED
    BY <2>1, <2>2
<1>2. CASE stale # {}
  <2> DEFINE e == [tx[r] EXCEPT !.stage = "cleanup", !.stale = stale]
  <2>1. PICK op \in Operations : tx[r] \in TxOf(op)
    BY DEF TypeOK
  <2>2. e \in TxOf(op) /\ e.stage = "cleanup" /\ e.stale = stale /\ e.add = tx[r].add
        /\ e.owner = tx[r].owner
    BY <2>1 DEF TxOf
  <2>3. tx' = [tx EXCEPT ![r] = e]
    BY <1>2 DEF Finish, TypeOK
  <2> QED
    BY <2>2, <2>3
<1> QED
  BY <1>1, <1>2

(* What is not under way holds nothing and relies on nothing.              *)
LEMMA Inactive ==
  ASSUME NEW e, e.stage \in {"idle", "cleanup"}
  PROVE  ~Holding(e) /\ ~Active(e) /\ ~Stored(e) /\ Checked(e) /\ New(e)
BY DEF Holding, Active, Stored, Checked, New

(* A transaction that does not commit.                                     *)
LEMMA RefuseStep ==
  ASSUME IndInv, NEW r \in Requests, UnderWay(r), Refuse(r)
  PROVE  IndInv'
<1>1. tx[r] # Idle
  BY DEF UnderWay, At, Idle, Operations, TourOps, ReviewOps
<1>2. PICK e : /\ tx' = [tx EXCEPT ![r] = e]
               /\ e = Idle \/ \E op \in Operations : e \in TxOf(op)
               /\ e.stage \in {"idle", "cleanup"}
               /\ e.stale \subseteq tx[r].add \cap files
               /\ e.add \subseteq tx[r].add
               /\ e.owner # None => e.owner = tx[r].owner
  <2>1. tx[r].add \cap files \in SUBSET Files
    BY DEF IndInv, TypeOK
  <2> QED
    BY <1>1, <2>1, Finished DEF IndInv, Refuse
<1>3. ~Holding(e) /\ ~Active(e) /\ ~Stored(e) /\ Checked(e) /\ New(e)
  BY <1>2, Inactive
<1>4. \A s \in Requests \ {r} : At(s, {"createTour"}, {"store", "commit"}) =>
        tx[s].owner # e.owner
  <2> SUFFICES ASSUME NEW s \in Requests \ {r}, At(s, {"createTour"}, {"store", "commit"})
               PROVE  tx[s].owner # e.owner
    OBVIOUS
  <2>1. tx[r].owner # tx[s].owner
    BY DEF IndInv, StillNew
  <2>2. tx[s].owner # None
    <3>1. PICK op \in Operations : tx[s] \in TxOf(op)
      BY DEF IndInv, TypeOK, At, Idle
    <3>2. tx[s].owner \in Tours \cup Reviews
      BY <3>1 DEF TxOf
    <3> QED
      BY <3>2, GalleriesAssumption
  <2> QED
    BY <1>2, <2>1, <2>2
<1>5. \A s \in Requests \ {r} : UnderWay(s) => tx[s].add \cap (e.add \cup e.stale) = {}
  BY <1>2 DEF IndInv, FilesApart
<1>6. \A s \in Requests \ {r} : HasStored(s) => tx[s].add \subseteq files
  BY DEF IndInv, FilesApart, HasStored, UnderWay, At, Operations, TourOps, ReviewOps
<1>7. \A o \in Owners : e.stale \cap gallery[o] \subseteq unconfirmed
  BY <1>2 DEF IndInv, FilesApart
<1>8. \A o \in Owners : gallery[o] \subseteq files \cup unconfirmed
  BY DEF IndInv, ImageHasFile
<1>9. /\ files' = files /\ files \subseteq Files /\ faults' = faults /\ faults \in 0 .. MaxFaults
      /\ tours' = tours /\ status' = status /\ gallery' = gallery /\ unconfirmed' = unconfirmed
  BY DEF Refuse, IndInv, TypeOK
<1>10. e.op = "createTour" /\ e.stage \in {"store", "commit"} =>
         \A s \in Requests \ {r} : tx[s].owner # e.owner
  BY <1>2
<1> QED
  BY <1>2, <1>3, <1>4, <1>5, <1>6, <1>7, <1>8, <1>9, <1>10, LocalStep

(* The first step of a request: a new tour is nobody's, and new files are  *)
(* nobody's.                                                               *)
LEMMA BeginStep ==
  ASSUME IndInv, NEW r \in Requests, NEW op \in Operations, NEW stage \in Stages(op),
         NEW o \in IF op \in TourOps THEN Tours ELSE Reviews,
         NEW add \in IF op = "deleteReview" THEN {{}} ELSE SUBSET Files,
         NEW remove \in IF op \in {"updateTour", "updateReview"} THEN SUBSET Files ELSE {{}},
         Begin(r, op, stage, o, add, remove),
         op \in {"updateReview", "deleteReview"} => stage = "lock" /\ o \in DOMAIN status,
         op = "createReview" => stage # "commit" /\ (stage = "insert" => add = {}),
         op = "updateTour" => /\ stage # "commit" /\ o \in tours
                              /\ stage = "lock" => add = {},
         op = "createTour" => /\ o \notin tours
                              /\ \A s \in Requests : tx[s].owner # o
                              /\ stage = "commit" => add = {},
         \A s \in Requests \ {r} :
           At(s, {"createTour"}, {"store", "commit"}) => tx[s].owner # o
  PROVE  IndInv'
<1>1. PICK e : e = [op |-> op, stage |-> stage, owner |-> o, add |-> add,
                    remove |-> remove, stale |-> {}]
  OBVIOUS
<1>2. /\ e.op = op /\ e.stage = stage /\ e.owner = o /\ e.add = add
      /\ e.remove = remove /\ e.stale = {}
  BY <1>1
<1>3. tx' = [tx EXCEPT ![r] = e]
  BY <1>1 DEF Begin
<1>4. e \in TxOf(op)
  <2>1. add \in IF op = "deleteReview" THEN {{}} ELSE Uploads
    BY DEF Begin
  <2> QED
    BY <1>1, <2>1 DEF TxOf
<1>5. Holding(e) => op = "createTour"
  BY <1>2 DEF Holding, Operations, TourOps, ReviewOps, Stages
<1>6. Holding(e) => \A s \in Requests \ {r} : ~HoldsRow(s, e.owner)
  BY <1>2, <1>5 DEF HoldsRow
<1>7. Checked(e) /\ New(e)
  BY <1>2 DEF Checked, New
<1>8. /\ add \cap unconfirmed = {}
      /\ \A q \in Owners : add \cap gallery[q] = {}
      /\ \A s \in Requests : add \cap (tx[s].add \cup tx[s].stale) = {}
  BY DEF Begin, NeverUsed
<1>9. Stored(e) => e.add \subseteq files
  BY <1>2 DEF Stored, Stages, Operations, TourOps, ReviewOps
<1>10. \A s \in Requests \ {r} : UnderWay(s) => tx[s].add \cap (e.add \cup e.stale) = {}
  BY <1>2, <1>8
<1>11. \A s \in Requests \ {r} : HasStored(s) => tx[s].add \subseteq files
  BY DEF IndInv, FilesApart, HasStored, UnderWay, At, Operations, TourOps, ReviewOps
<1>12. \A q \in Owners : gallery[q] \subseteq files \cup unconfirmed
  BY DEF IndInv, ImageHasFile
<1>13. /\ files' = files /\ files \subseteq Files /\ faults' = faults /\ faults \in 0 .. MaxFaults
       /\ tours' = tours /\ status' = status /\ gallery' = gallery /\ unconfirmed' = unconfirmed
  BY DEF Begin, IndInv, TypeOK
<1>14. e.op = "createTour" /\ e.stage \in {"store", "commit"} =>
         \A s \in Requests \ {r} : tx[s].owner # e.owner
  BY <1>2
<1> HIDE <1>1
<1> QED
  BY <1>2, <1>3, <1>4, <1>6, <1>7, <1>8, <1>9, <1>10, <1>11, <1>12, <1>13, <1>14, LocalStep

(* A request under way that goes on to its next stage.                     *)
LEMMA GotoStep ==
  ASSUME IndInv, NEW r \in Requests, UnderWay(r), NEW stage, stage \in Stages(tx[r].op),
         Goto(r, stage), files \subseteq files', files' \subseteq Files,
         NEW e, e = [tx[r] EXCEPT !.stage = stage],
         Stored(e) => tx[r].add \subseteq files',
         Holding(e) => HoldsRow(r, tx[r].owner) \/ RowFree(r, tx[r].owner),
         Checked(e),
         New(e),
         e.op = "createTour" => tx[r].stage \in {"store", "commit"}
  PROVE  IndInv'
<1>1. PICK op \in Operations : tx[r] \in TxOf(op)
  BY DEF IndInv, TypeOK, UnderWay, At, Idle, Operations, TourOps, ReviewOps
<1>2. e \in TxOf(op) /\ op = tx[r].op
  BY <1>1 DEF TxOf
<1>3. /\ e.op = op /\ e.owner = tx[r].owner /\ e.add = tx[r].add
      /\ e.stale = tx[r].stale /\ e.stage = stage
  BY <1>1 DEF TxOf
<1>4. tx' = [tx EXCEPT ![r] = e]
  BY DEF Goto, IndInv, TypeOK
<1>5. Holding(e) => \A s \in Requests \ {r} : ~HoldsRow(s, e.owner)
  <2>1. e.owner \in Owners
    BY <1>1, <1>3 DEF TxOf, Owners
  <2> QED
    BY <1>3, <2>1 DEF IndInv, OneWriter, RowFree
<1>6. \A s \in Requests \ {r} :
        At(s, {"createTour"}, {"store", "commit"}) => tx[s].owner # e.owner
  BY <1>3 DEF IndInv, StillNew
<1>7. e.op = "createTour" /\ e.stage \in {"store", "commit"} =>
        \A s \in Requests \ {r} : tx[s].owner # e.owner
  BY <1>2, <1>3 DEF IndInv, StillNew, At
<1>8. /\ e.add \cap unconfirmed = {}
      /\ \A o \in Owners : e.add \cap gallery[o] = {}
      /\ \A s \in Requests \ {r} : e.add \cap (tx[s].add \cup tx[s].stale) = {}
  BY <1>3 DEF IndInv, FilesApart
<1>9. \A s \in Requests \ {r} : UnderWay(s) => tx[s].add \cap (e.add \cup e.stale) = {}
  BY <1>3 DEF IndInv, FilesApart
<1>10. \A s \in Requests \ {r} : HasStored(s) => tx[s].add \subseteq files'
  BY DEF IndInv, FilesApart, HasStored, UnderWay, At, Operations, TourOps, ReviewOps
<1>11. \A o \in Owners : e.stale \cap gallery[o] \subseteq unconfirmed
  BY <1>3 DEF IndInv, FilesApart
<1>12. \A o \in Owners : gallery[o] \subseteq files' \cup unconfirmed
  BY DEF IndInv, ImageHasFile
<1>13. /\ faults' = faults /\ faults \in 0 .. MaxFaults /\ tours' = tours /\ status' = status
       /\ gallery' = gallery /\ unconfirmed' = unconfirmed
  BY DEF Goto, IndInv, TypeOK
<1>14. Stored(e) => e.add \subseteq files'
  BY <1>3
<1> QED
  BY <1>2, <1>4, <1>5, <1>6, <1>7, <1>8, <1>9, <1>10, <1>11, <1>12, <1>13, <1>14, LocalStep

-----------------------------------------------------------------------------
(* The stages of a request.                                                *)

(* Files are stored.                                                       *)
LEMMA StoreStep ==
  ASSUME IndInv, NEW r \in Requests, Store(r)
  PROVE  IndInv'
<1>1. UnderWay(r)
  BY DEF Store, UnderWay, At
<1>2. PICK op \in Operations : tx[r] \in TxOf(op)
  BY <1>1 DEF IndInv, TypeOK, UnderWay, At, Idle, Operations, TourOps, ReviewOps
<1>3. /\ tx[r].op = op /\ tx[r].add \subseteq Files /\ tx[r].stage = "store"
      /\ op # "deleteReview"
  BY <1>2 DEF TxOf, Uploads, Store, At, Stages
<1>4. PICK e : e = [tx[r] EXCEPT !.stage = AfterStore(op)]
  OBVIOUS
<1>5. /\ e.op = op /\ e.stage = AfterStore(op) /\ e.owner = tx[r].owner
      /\ e.add = tx[r].add /\ e.remove = tx[r].remove
  BY <1>2, <1>4 DEF TxOf
<1>6. Goto(r, AfterStore(op)) /\ files' = files \cup tx[r].add
  BY <1>3 DEF Store
<1>7. files \subseteq files' /\ files' \subseteq Files /\ tx[r].add \subseteq files'
  BY <1>3, <1>6 DEF IndInv, TypeOK
<1>8. AfterStore(op) \in Stages(tx[r].op)
  BY <1>3 DEF AfterStore, Stages, Operations, TourOps, ReviewOps
<1>9. Holding(e) => HoldsRow(r, tx[r].owner) \/ RowFree(r, tx[r].owner)
  <2>1. CASE op = "updateReview"
    BY <1>3, <2>1 DEF HoldsRow, At
  <2>2. CASE op = "createTour"
    BY <1>3, <2>2 DEF IndInv, StillNew, RowFree, HoldsRow, At
  <2>3. CASE op \in {"updateTour", "createReview"}
    BY <1>5, <2>3 DEF Holding, AfterStore
  <2> QED
    BY <1>3, <2>1, <2>2, <2>3 DEF Operations, TourOps, ReviewOps
<1>10. Checked(e)
  BY <1>3, <1>5 DEF IndInv, StillAllowed, Checked, AfterStore, At
<1>11. New(e)
  BY <1>3, <1>5 DEF IndInv, StillNew, New, AfterStore, At
<1> QED
  BY <1>1, <1>3, <1>4, <1>6, <1>7, <1>8, <1>9, <1>10, <1>11, GotoStep

(* A tour is locked and its images are checked again.                      *)
LEMMA LockTourStep ==
  ASSUME IndInv, NEW r \in Requests, LockTour(r)
  PROVE  IndInv'
<1>1. UnderWay(r)
  BY DEF LockTour, UnderWay, At, Operations, TourOps, ReviewOps
<1>2. PICK e : e = [tx[r] EXCEPT !.stage = "commit"]
  OBVIOUS
<1>3. PICK op \in Operations : tx[r] \in TxOf(op)
  BY <1>1 DEF IndInv, TypeOK, UnderWay, At, Idle, Operations, TourOps, ReviewOps
<1>4. /\ op = "updateTour" /\ tx[r].op = op /\ tx[r].stage = "lock" /\ e.op = op /\ e.stage = "commit"
      /\ e.owner = tx[r].owner /\ e.add = tx[r].add /\ e.remove = tx[r].remove
  BY <1>2, <1>3 DEF TxOf, LockTour, At
<1>5. Checked(e)
  BY <1>4 DEF LockTour, Checked
<1>6. New(e)
  BY <1>4 DEF IndInv, StillNew, New, At
<1>7. Goto(r, "commit") /\ RowFree(r, tx[r].owner) /\ files' = files /\ files \subseteq Files
  BY DEF LockTour, IndInv, TypeOK
<1>8. tx[r].add \subseteq files'
  BY <1>1, <1>4, <1>7 DEF IndInv, FilesApart, HasStored, At
<1>9. "commit" \in Stages(tx[r].op)
  BY <1>4 DEF Stages
<1> QED
  BY <1>1, <1>2, <1>4, <1>5, <1>6, <1>7, <1>8, <1>9, GotoStep

(* A review is inserted, which nobody else is doing.                       *)
LEMMA InsertReviewStep ==
  ASSUME IndInv, NEW r \in Requests, InsertReview(r)
  PROVE  IndInv'
<1>1. UnderWay(r)
  BY DEF InsertReview, UnderWay, At, Operations, TourOps, ReviewOps
<1>2. PICK e : e = [tx[r] EXCEPT !.stage = "commit"]
  OBVIOUS
<1>3. PICK op \in Operations : tx[r] \in TxOf(op)
  BY <1>1 DEF IndInv, TypeOK, UnderWay, At, Idle, Operations, TourOps, ReviewOps
<1>4. /\ op = "createReview" /\ tx[r].op = op /\ tx[r].stage = "insert" /\ e.op = op
      /\ e.stage = "commit" /\ e.owner = tx[r].owner
  BY <1>2, <1>3 DEF TxOf, InsertReview, At
<1>5. Checked(e) /\ New(e)
  BY <1>4 DEF InsertReview, Checked, New
<1>6. Goto(r, "commit") /\ RowFree(r, tx[r].owner) /\ files' = files /\ files \subseteq Files
  BY DEF InsertReview, IndInv, TypeOK
<1>7. tx[r].add \subseteq files'
  BY <1>1, <1>4, <1>6 DEF IndInv, FilesApart, HasStored, At, Operations, TourOps, ReviewOps
<1>8. "commit" \in Stages(tx[r].op)
  BY <1>4 DEF Stages
<1> QED
  BY <1>1, <1>2, <1>4, <1>5, <1>6, <1>7, <1>8, GotoStep

(* A review is locked and may still be changed.                            *)
LEMMA LockReviewStep ==
  ASSUME IndInv, NEW r \in Requests, LockReview(r)
  PROVE  IndInv'
<1>1. UnderWay(r)
  BY DEF LockReview, UnderWay, At, Operations, TourOps, ReviewOps
<1>2. PICK stage : stage = IF tx[r].add = {} THEN "commit" ELSE "store"
  OBVIOUS
<1>3. PICK e : e = [tx[r] EXCEPT !.stage = stage]
  OBVIOUS
<1>4. PICK op \in Operations : tx[r] \in TxOf(op)
  BY <1>1 DEF IndInv, TypeOK, UnderWay, At, Idle, Operations, TourOps, ReviewOps
<1>5. /\ op \in {"updateReview", "deleteReview"} /\ tx[r].op = op
      /\ e.op = op /\ e.stage = stage /\ e.owner = tx[r].owner /\ e.add = tx[r].add
      /\ e.remove = tx[r].remove
  BY <1>3, <1>4 DEF TxOf, LockReview, At
<1>6. Checked(e)
  BY <1>5 DEF LockReview, ReviewAllows, Checked
<1>7. New(e)
  BY <1>5 DEF IndInv, StillNew, New, LockReview, At
<1>8. Goto(r, stage) /\ RowFree(r, tx[r].owner) /\ files' = files /\ files \subseteq Files
  BY <1>2 DEF LockReview, IndInv, TypeOK
<1>9. Stored(e) => tx[r].add \subseteq files'
  BY <1>2, <1>5 DEF Stored
<1>10. stage \in Stages(tx[r].op)
  BY <1>2, <1>4, <1>5 DEF Stages, TxOf
<1> QED
  BY <1>1, <1>3, <1>5, <1>6, <1>7, <1>8, <1>9, <1>10, GotoStep

(* What a request that has ended its transaction was doing.                *)
LEMMA EndStep ==
  ASSUME IndInv, NEW r \in Requests, tx' = [tx EXCEPT ![r] = Idle],
         tours' = tours, status' = status, gallery' = gallery, unconfirmed' = unconfirmed,
         files' \subseteq Files, faults' \in 0 .. MaxFaults,
         \A s \in Requests \ {r} : HasStored(s) => tx[s].add \subseteq files',
         \A o \in Owners : gallery[o] \subseteq files' \cup unconfirmed
  PROVE  IndInv'
<1>1. PICK e : e = Idle
  OBVIOUS
<1>2. /\ e.stage = "idle" /\ e.owner = None /\ e.add = {} /\ e.stale = {} /\ e.op = "none"
  BY <1>1 DEF Idle
<1>3. ~Holding(e) /\ ~Active(e) /\ ~Stored(e) /\ Checked(e) /\ New(e)
  BY <1>2, Inactive
<1>4. \A s \in Requests \ {r} : At(s, {"createTour"}, {"store", "commit"}) =>
        tx[s].owner # e.owner
  <2> SUFFICES ASSUME NEW s \in Requests \ {r}, At(s, {"createTour"}, {"store", "commit"})
               PROVE  tx[s].owner # None
    BY <1>2
  <2>1. PICK op \in Operations : tx[s] \in TxOf(op)
    BY DEF IndInv, TypeOK, At, Idle
  <2>2. tx[s].owner \in Tours \cup Reviews
    BY <2>1 DEF TxOf
  <2> QED
    BY <2>2, GalleriesAssumption
<1>5. tx' = [tx EXCEPT ![r] = e]
  BY <1>1
<1> QED
  BY <1>1, <1>2, <1>3, <1>4, <1>5, LocalStep

(* Files that are nobody's are removed.                                    *)
LEMMA CleanUpStep ==
  ASSUME IndInv, NEW r \in Requests, CleanUp(r)
  PROVE  IndInv'
<1>1. \A s \in Requests \ {r} : HasStored(s) => tx[s].add \subseteq files'
  BY DEF CleanUp, IndInv, FilesApart, UnderWay, HasStored, At, Operations, TourOps, ReviewOps
<1>2. \A o \in Owners : gallery[o] \subseteq files' \cup unconfirmed
  BY DEF CleanUp, IndInv, FilesApart, ImageHasFile
<1>3. /\ tx' = [tx EXCEPT ![r] = Idle] /\ files' \subseteq Files /\ faults' \in 0 .. MaxFaults
      /\ tours' = tours /\ status' = status /\ gallery' = gallery /\ unconfirmed' = unconfirmed
  BY DEF CleanUp, IndInv, TypeOK
<1> QED
  BY <1>1, <1>2, <1>3, EndStep

(* A process is lost, and with it what its request was doing.              *)
LEMMA LoseStep ==
  ASSUME IndInv, NEW r \in Requests, Lose(r)
  PROVE  IndInv'
<1>1. PICK some \in SUBSET Files :
        files' = IF At(r, Operations, {"store"}) THEN files \cup (some \cap tx[r].add)
                 ELSE files \ (some \cap tx[r].stale)
  BY DEF Lose
<1>2. \A s \in Requests \ {r} : HasStored(s) => tx[s].add \subseteq files'
  BY <1>1 DEF IndInv, FilesApart, UnderWay, HasStored, At, Operations, TourOps, ReviewOps
<1>3. \A o \in Owners : gallery[o] \subseteq files' \cup unconfirmed
  BY <1>1 DEF IndInv, FilesApart, ImageHasFile
<1>4. /\ tx' = [tx EXCEPT ![r] = Idle] /\ files' \subseteq Files
      /\ tours' = tours /\ status' = status /\ gallery' = gallery /\ unconfirmed' = unconfirmed
  BY <1>1 DEF Lose, IndInv, TypeOK
<1>5. faults' \in 0 .. MaxFaults
  BY GalleriesAssumption DEF Lose, Fault, IndInv, TypeOK
<1> QED
  BY <1>2, <1>3, <1>4, <1>5, EndStep

(* The visibility of a review that nobody holds.                           *)
LEMMA ModerateStep ==
  ASSUME IndInv, NEW v \in Reviews, NEW s \in {"HIDDEN", "PUBLISHED"}, Moderate(v, s)
  PROVE  IndInv'
<1>1. /\ DOMAIN status' = DOMAIN status /\ status'[v] = s
      /\ \A w \in DOMAIN status \ {v} : status'[w] = status[w]
  BY DEF Moderate, IndInv, TypeOK
<1>2. TypeOK'
  BY DEF Moderate, IndInv, TypeOK, ReviewStatus
<1>3. OneWriter' /\ FilesApart' /\ WithinLimit' /\ ImageHasFile'
  BY DEF Moderate, IndInv, OneWriter, FilesApart, WithinLimit, ImageHasFile, HoldsRow, At,
         HasStored, UnderWay
<1>4. StillAllowed'
  BY <1>1 DEF Moderate, IndInv, StillAllowed, StillNew, Allowed, At
<1>5. StillNew'
  BY <1>1 DEF Moderate, IndInv, StillNew, At
<1>6. DeletedIsEmpty'
  BY <1>1 DEF Moderate, IndInv, DeletedIsEmpty
<1> QED
  BY <1>2, <1>3, <1>4, <1>5, <1>6 DEF IndInv

-----------------------------------------------------------------------------
(* Commits.                                                                *)

(* A request that is committing: what it takes away is there, and what it  *)
(* adds is on disk and nobody's.                                           *)
LEMMA Committing ==
  ASSUME IndInv, NEW r \in Requests, At(r, Operations, {"commit"})
  PROVE  /\ \E op \in Operations : tx[r] \in TxOf(op) /\ tx[r].op = op
         /\ tx[r].owner \in Owners
         /\ tx[r].op \in TourOps => tx[r].owner \in Tours
         /\ tx[r].op \in ReviewOps => tx[r].owner \in Reviews
         /\ tx[r].add \subseteq files
         /\ tx[r].add \in Uploads
         /\ tx[r].op = "deleteReview" => tx[r].add = {}
         /\ \A o \in Owners : tx[r].add \cap gallery[o] = {}
         /\ Removed(r) \subseteq gallery[tx[r].owner]
         /\ tx[r].op \in {"createTour", "createReview"} =>
              gallery[tx[r].owner] = {} /\ Removed(r) = {}
<1>1. PICK op \in Operations : tx[r] \in TxOf(op)
  BY DEF IndInv, TypeOK, At, Idle, Operations, TourOps, ReviewOps
<1>2. tx[r].op = op /\ tx[r].stage = "commit"
  BY <1>1 DEF TxOf, At
<1>3. tx[r].owner \in IF op \in TourOps THEN Tours ELSE Reviews
  BY <1>1 DEF TxOf
<1>4. tx[r].add \in IF op = "deleteReview" THEN {{}} ELSE Uploads
  BY <1>1 DEF TxOf
<1>5. {} \in Uploads
  BY FS_EmptySet, GalleriesAssumption DEF Uploads
<1>6. UnderWay(r) /\ HasStored(r)
  BY DEF UnderWay, HasStored, At
<1>7. tx[r].add \subseteq files /\ \A o \in Owners : tx[r].add \cap gallery[o] = {}
  BY <1>6 DEF IndInv, FilesApart
<1>8. op \in {"createTour", "createReview"} => gallery[tx[r].owner] = {} /\ Removed(r) = {}
  <2> SUFFICES ASSUME op \in {"createTour", "createReview"}
               PROVE  gallery[tx[r].owner] = {} /\ Removed(r) = {}
    OBVIOUS
  <2>1. Removed(r) = {}
    BY <1>1, <1>2 DEF Removed, TxOf
  <2>2. tx[r].owner \notin tours \cup DOMAIN status
    BY <1>2, <1>3, GalleriesAssumption DEF IndInv, TypeOK, StillNew, At, TourOps, ReviewOps
  <2> QED
    BY <1>3, <2>1, <2>2 DEF IndInv, StillNew, Owners
<1>9. Removed(r) \subseteq gallery[tx[r].owner]
  <2>1. CASE op = "deleteReview"
    BY <1>2, <2>1 DEF Removed
  <2>2. CASE op \in {"updateTour", "updateReview"}
    BY <1>2, <2>2 DEF Removed, IndInv, StillAllowed, Allowed, At
  <2>3. CASE op \in {"createTour", "createReview"}
    BY <1>8, <2>3
  <2> QED
    BY <2>1, <2>2, <2>3 DEF Operations, TourOps, ReviewOps
<1> QED
  BY <1>1, <1>2, <1>3, <1>4, <1>5, <1>7, <1>8, <1>9 DEF Owners, Operations, TourOps, ReviewOps

(* What is written is not too much.                                        *)
LEMMA CommitLimit ==
  ASSUME IndInv, NEW r \in Requests, At(r, Operations, {"commit"})
  PROVE  Cardinality((gallery[tx[r].owner] \ Removed(r)) \cup tx[r].add) <= MaxImages
<1> DEFINE g == gallery[tx[r].owner]
<1>1. /\ tx[r].owner \in Owners /\ tx[r].add \in Uploads /\ Removed(r) \subseteq g
      /\ tx[r].op = "deleteReview" => tx[r].add = {}
      /\ tx[r].op \in {"createTour", "createReview"} => g = {}
      /\ tx[r].op \in Operations
  BY Committing DEF At
<1>2. g \subseteq Files /\ tx[r].add \subseteq Files /\ Cardinality(tx[r].add) <= MaxImages
  BY <1>1 DEF IndInv, TypeOK, Uploads
<1>3. IsFiniteSet(g) /\ IsFiniteSet(tx[r].add)
  BY <1>2, FS_Subset, GalleriesAssumption
<1>4. CASE tx[r].op \in {"createTour", "createReview"}
  BY <1>1, <1>2, <1>4
<1>5. CASE tx[r].op = "deleteReview"
  <2>1. (g \ Removed(r)) \cup tx[r].add = {}
    BY <1>1, <1>5 DEF Removed
  <2> QED
    BY <2>1, FS_EmptySet, GalleriesAssumption
<1>6. CASE tx[r].op \in {"updateTour", "updateReview"}
  <2>1. Removed(r) = tx[r].remove
    BY <1>6 DEF Removed
  <2>2. Cardinality(g) - Cardinality(tx[r].remove) + Cardinality(tx[r].add) <= MaxImages
    BY <1>6 DEF IndInv, StillAllowed, Allowed, At
  <2>3. IsFiniteSet(Removed(r))
    BY <1>1, <1>3, FS_Subset
  <2>4. IsFiniteSet((g \ Removed(r)) \cup tx[r].add)
    BY <1>3, FS_Union, FS_Difference
  <2>5. Cardinality((g \ Removed(r)) \cup tx[r].add) <=
          Cardinality(g) - Cardinality(Removed(r)) + Cardinality(tx[r].add)
    BY <1>1, <1>3, ChangedSize
  <2>6. /\ Cardinality(g) \in Nat /\ Cardinality(Removed(r)) \in Nat
        /\ Cardinality(tx[r].add) \in Nat
        /\ Cardinality((g \ Removed(r)) \cup tx[r].add) \in Nat
    BY <1>3, <2>3, <2>4, FS_CardinalityType
  <2>7. PICK n \in Nat, a \in Nat, b \in Nat, c \in Nat :
          /\ n = Cardinality((g \ Removed(r)) \cup tx[r].add)
          /\ a = Cardinality(g) /\ b = Cardinality(Removed(r)) /\ c = Cardinality(tx[r].add)
    BY <2>6
  <2>8. a - b + c <= MaxImages
    BY <2>1, <2>2, <2>7
  <2>9. n <= a - b + c
    BY <2>5, <2>7
  <2>10. n <= MaxImages
    BY <2>7, <2>8, <2>9, GalleriesAssumption
  <2> QED
    BY <2>7, <2>10
<1> QED
  BY <1>1, <1>4, <1>5, <1>6 DEF Operations, TourOps, ReviewOps

(* A commit, with or without an answer: stale is removed afterwards.       *)
LEMMA CommitStep ==
  ASSUME IndInv, NEW r \in Requests, At(r, Operations, {"commit"}), Write(r),
         NEW stale \in SUBSET Files, Finish(r, stale), files' = files,
         unconfirmed \subseteq unconfirmed', unconfirmed' \subseteq unconfirmed \cup tx[r].add,
         \/ stale = Removed(r)
         \/ stale = tx[r].add /\ tx[r].add \subseteq unconfirmed',
         faults' \in 0 .. MaxFaults
  PROVE  IndInv'
<1>1. tx[r] # Idle
  BY DEF At, Idle, Operations, TourOps, ReviewOps
<1>2. PICK e : /\ tx' = [tx EXCEPT ![r] = e]
               /\ e = Idle \/ \E op \in Operations : e \in TxOf(op)
               /\ e.stage \in {"idle", "cleanup"}
               /\ e.stale \subseteq stale
               /\ e.add \subseteq tx[r].add
               /\ e.owner # None => e.owner = tx[r].owner
  BY <1>1, Finished DEF IndInv
<1>3. PICK o : o = tx[r].owner
  OBVIOUS
<1>4. PICK op : op = tx[r].op
  OBVIOUS
<1>5. PICK add : add = tx[r].add
  OBVIOUS
<1>6. /\ op \in Operations /\ o \in Owners /\ add \subseteq files /\ add \subseteq Files
      /\ op \in TourOps => o \in Tours
      /\ op \in ReviewOps => o \in Reviews
      /\ op = "deleteReview" => add = {}
      /\ \A q \in Owners : add \cap gallery[q] = {}
      /\ Removed(r) \subseteq gallery[o]
  BY <1>3, <1>4, <1>5, Committing DEF At, Uploads
<1>7. tx'[r] = e /\ \A s \in Requests \ {r} : tx'[s] = tx[s]
  BY <1>2 DEF IndInv, TypeOK
<1>8. /\ gallery'[o] = (gallery[o] \ Removed(r)) \cup add
      /\ \A q \in Owners \ {o} : gallery'[q] = gallery[q]
      /\ gallery' \in [Owners -> SUBSET Files]
  BY <1>3, <1>5, <1>6 DEF Write, IndInv, TypeOK
<1>9. /\ tours' = IF op = "createTour" THEN tours \cup {o} ELSE tours
      /\ op = "createTour" => o \in tours'
  BY <1>3, <1>4 DEF Write
<1>10. /\ DOMAIN status' = IF op = "createReview" THEN DOMAIN status \cup {o} ELSE DOMAIN status
       /\ status' \in [DOMAIN status' -> ReviewStatus]
       /\ \A v \in DOMAIN status \ {o} : status'[v] = status[v]
       /\ op = "createReview" => status'[o] = "PUBLISHED"
       /\ op \notin {"createReview", "deleteReview"} => status' = status
  BY <1>3, <1>4 DEF Write, IndInv, TypeOK, ReviewStatus
<1>11. HoldsRow(r, o)
  BY <1>3 DEF HoldsRow
<1>12. \A s \in Requests \ {r} : ~HoldsRow(s, o)
  BY <1>6, <1>11 DEF IndInv, OneWriter
<1>13. TypeOK'
  <2>1. tours' \subseteq Tours /\ DOMAIN status' \subseteq Reviews
    BY <1>6, <1>9, <1>10 DEF IndInv, TypeOK, TourOps, ReviewOps
  <2>2. unconfirmed' \subseteq Files /\ files' \subseteq Files
    BY <1>5, <1>6 DEF IndInv, TypeOK
  <2> QED
    BY <1>2, <1>8, <1>10, <2>1, <2>2 DEF IndInv, TypeOK
<1>14. OneWriter'
  <2>1. ~Holding(e)
    BY <1>2, Inactive
  <2> QED
    BY <1>7, <2>1 DEF IndInv, OneWriter, HoldsRow, Holding, At
<1>15. StillAllowed'
  <2> SUFFICES ASSUME NEW s \in Requests
               PROVE  (/\ At(s, {"updateTour"}, {"commit"}) =>
                            Allowed(tx[s].owner, tx[s].add, tx[s].remove)
                       /\ At(s, {"updateReview"}, {"store", "commit"}) =>
                            Allowed(tx[s].owner, tx[s].add, tx[s].remove)
                       /\ At(s, {"updateReview", "deleteReview"}, {"store", "commit"}) =>
                            status[tx[s].owner] # "DELETED")'
    BY DEF StillAllowed
  <2>1. CASE s = r
    BY <1>2, <1>7, <2>1 DEF At
  <2>2. CASE s # r /\ (\/ At(s, {"updateTour"}, {"commit"})
                       \/ At(s, {"updateReview", "deleteReview"}, {"store", "commit"}))
    <3>1. PICK k \in Operations : tx[s] \in TxOf(k)
      BY <2>2 DEF IndInv, TypeOK, At, Idle
    <3>2. tx[s].op = k /\ tx[s].stage \in Stages(k) \cup {"cleanup"} /\ tx[s].owner \in Owners
      BY <3>1 DEF TxOf, Owners
    <3>3. HoldsRow(s, tx[s].owner)
      BY <2>2, <3>2 DEF HoldsRow, At, Stages, Operations, TourOps, ReviewOps
    <3>4. tx[s].owner # o
      BY <1>12, <2>2, <3>3
    <3>5. gallery'[tx[s].owner] = gallery[tx[s].owner]
      BY <1>8, <3>2, <3>4
    <3>6. At(s, {"updateReview", "deleteReview"}, {"store", "commit"}) =>
            tx[s].owner \in DOMAIN status
      BY DEF IndInv, StillNew, At
    <3> QED
      BY <1>7, <1>10, <2>2, <3>4, <3>5, <3>6 DEF IndInv, StillAllowed, Allowed, At
  <2>3. CASE s # r /\ ~(\/ At(s, {"updateTour"}, {"commit"})
                        \/ At(s, {"updateReview", "deleteReview"}, {"store", "commit"}))
    BY <1>7, <2>3 DEF At
  <2> QED
    BY <2>1, <2>2, <2>3
<1>16. StillNew'
  <2>1. \A s \in Requests : At(s, {"createReview"}, {"commit"})' => tx'[s].owner \notin DOMAIN status'
    <3> SUFFICES ASSUME NEW s \in Requests, At(s, {"createReview"}, {"commit"})'
                 PROVE  tx'[s].owner \notin DOMAIN status'
      OBVIOUS
    <3>1. s # r /\ tx'[s] = tx[s] /\ At(s, {"createReview"}, {"commit"})
      BY <1>2, <1>7 DEF At
    <3>2. tx[s].owner # o
      BY <1>12, <3>1 DEF HoldsRow, At, Operations, ReviewOps
    <3>3. tx[s].owner \notin DOMAIN status
      BY <3>1 DEF IndInv, StillNew
    <3> QED
      BY <1>10, <3>1, <3>2, <3>3
  <2>2. \A s \in Requests : At(s, {"createTour"}, {"store", "commit"})' =>
          /\ tx'[s].owner \notin tours'
          /\ \A q \in Requests \ {s} : tx'[q].owner # tx'[s].owner
    <3> SUFFICES ASSUME NEW s \in Requests, At(s, {"createTour"}, {"store", "commit"})'
                 PROVE  /\ tx'[s].owner \notin tours'
                        /\ \A q \in Requests \ {s} : tx'[q].owner # tx'[s].owner
      OBVIOUS
    <3>1. s # r /\ tx'[s] = tx[s] /\ At(s, {"createTour"}, {"store", "commit"})
      BY <1>2, <1>7 DEF At
    <3>2. /\ tx[s].owner \notin tours
          /\ \A q \in Requests \ {s} : tx[q].owner # tx[s].owner
      BY <3>1 DEF IndInv, StillNew
    <3>3. tx[s].owner # None
      <4>1. PICK k \in Operations : tx[s] \in TxOf(k)
        BY <3>1 DEF IndInv, TypeOK, At, Idle
      <4>2. tx[s].owner \in Tours \cup Reviews
        BY <4>1 DEF TxOf
      <4> QED
        BY <4>2, GalleriesAssumption
    <3> QED
      BY <1>2, <1>3, <1>7, <1>9, <3>1, <3>2, <3>3
  <2>3. \A s \in Requests :
          /\ At(s, {"updateTour"}, {"store", "lock", "commit"})' => tx'[s].owner \in tours'
          /\ At(s, {"updateReview", "deleteReview"}, {"store", "lock", "commit"})' =>
               tx'[s].owner \in DOMAIN status'
    BY <1>2, <1>7, <1>9, <1>10 DEF IndInv, StillNew, At
  <2>4. \A q \in Owners : gallery'[q] # {} => q \in tours' \cup DOMAIN status'
    <3>1. \A q \in Owners \ {o} : gallery'[q] # {} => q \in tours' \cup DOMAIN status'
      BY <1>8, <1>9, <1>10 DEF IndInv, StillNew
    <3>2. o \in tours' \cup DOMAIN status'
      BY <1>3, <1>4, <1>6, <1>9, <1>10
      DEF IndInv, StillNew, At, Operations, TourOps, ReviewOps
    <3> QED
      BY <3>1, <3>2
  <2> QED
    BY <2>1, <2>2, <2>3, <2>4 DEF StillNew
<1>17. FilesApart'
  <2>1. \A p, q \in Owners : gallery'[p] \cap gallery'[q] # {} => p = q
    BY <1>6, <1>8 DEF IndInv, FilesApart
  <2>2. UnderWay(r) /\ ~UnderWay(r)'
    BY <1>2, <1>7 DEF UnderWay, At
  <2>3. \A s \in Requests \ {r} :
          /\ (UnderWay(s)' <=> UnderWay(s)) /\ (HasStored(s)' <=> HasStored(s))
          /\ tx[s].stale \cap add = {}
    BY <1>5, <1>7, <2>2 DEF IndInv, FilesApart, UnderWay, HasStored, At
  <2>4. stale \subseteq gallery[o] \cup add
    BY <1>5, <1>6
  <2>5. \A s \in Requests \ {r} : UnderWay(s) =>
          /\ tx[s].add \cap add = {}
          /\ tx[s].add \cap unconfirmed = {}
          /\ \A q \in Owners : tx[s].add \cap gallery[q] = {}
          /\ \A q \in Requests \ {s} : tx[s].add \cap (tx[q].add \cup tx[q].stale) = {}
          /\ HasStored(s) => tx[s].add \subseteq files
    BY <1>5 DEF IndInv, FilesApart
  <2>6. \A s \in Requests : UnderWay(s)' =>
          /\ tx'[s].add \cap unconfirmed' = {}
          /\ \A q \in Owners : tx'[s].add \cap gallery'[q] = {}
          /\ \A q \in Requests \ {s} : tx'[s].add \cap (tx'[q].add \cup tx'[q].stale) = {}
          /\ HasStored(s)' => tx'[s].add \subseteq files'
    <3> SUFFICES ASSUME NEW s \in Requests, UnderWay(s)'
                 PROVE  /\ tx'[s].add \cap unconfirmed' = {}
                        /\ \A q \in Owners : tx'[s].add \cap gallery'[q] = {}
                        /\ \A q \in Requests \ {s} :
                             tx'[s].add \cap (tx'[q].add \cup tx'[q].stale) = {}
                        /\ HasStored(s)' => tx'[s].add \subseteq files'
      OBVIOUS
    <3>1. s # r /\ tx'[s] = tx[s] /\ UnderWay(s)
      BY <1>7, <2>2, <2>3
    <3>2. tx[s].add \cap unconfirmed' = {} /\ (HasStored(s)' => tx[s].add \subseteq files')
      BY <1>5, <2>3, <2>5, <3>1
    <3>3. \A q \in Owners : tx[s].add \cap gallery'[q] = {}
      BY <1>6, <1>8, <2>5, <3>1
    <3>4. tx[s].add \cap (e.add \cup e.stale) = {}
      BY <1>2, <1>5, <1>6, <2>4, <2>5, <3>1
    <3>5. \A q \in Requests \ {s} : tx[s].add \cap (tx'[q].add \cup tx'[q].stale) = {}
      BY <1>7, <2>5, <3>1, <3>4
    <3> QED
      BY <3>1, <3>2, <3>3, <3>5
  <2>7. \A s \in Requests \ {r}, q \in Owners : tx'[s].stale \cap gallery'[q] \subseteq unconfirmed'
    BY <1>7, <1>8, <2>3 DEF IndInv, FilesApart
  <2>8. \A q \in Owners : e.stale \cap gallery'[q] \subseteq unconfirmed'
    <3>1. CASE stale = tx[r].add /\ tx[r].add \subseteq unconfirmed'
      BY <1>2, <3>1
    <3>2. CASE stale = Removed(r)
      <4>1. stale \cap gallery'[o] = {}
        BY <1>6, <1>8, <3>2
      <4>2. \A q \in Owners \ {o} : stale \cap gallery'[q] = {}
        BY <1>6, <1>8, <3>2 DEF IndInv, FilesApart
      <4> QED
        BY <1>2, <4>1, <4>2
    <3> QED
      BY <3>1, <3>2
  <2> QED
    BY <1>7, <2>1, <2>6, <2>7, <2>8 DEF FilesApart
<1>18. WithinLimit'
  <2>1. Cardinality(gallery'[o]) <= MaxImages
    BY <1>3, <1>5, <1>8, CommitLimit
  <2> QED
    BY <1>8, <2>1 DEF IndInv, WithinLimit
<1>19. ImageHasFile'
  BY <1>6, <1>8 DEF IndInv, ImageHasFile
<1>20. DeletedIsEmpty'
  <2> SUFFICES ASSUME NEW v \in DOMAIN status', status'[v] = "DELETED"
               PROVE  gallery'[v] = {}
    BY DEF DeletedIsEmpty
  <2>1. v \in Reviews /\ v \in Owners
    BY <1>13 DEF TypeOK, Owners
  <2>2. CASE v # o
    BY <1>8, <1>10, <2>1, <2>2 DEF IndInv, DeletedIsEmpty
  <2>3. CASE v = o
    <3>1. op \in ReviewOps
      BY <1>6, <2>1, <2>3, GalleriesAssumption DEF Operations
    <3>2. op # "createReview"
      BY <1>10, <2>3
    <3>3. op # "updateReview"
      BY <1>3, <1>4, <1>10, <2>3 DEF IndInv, StillAllowed, At
    <3>4. op = "deleteReview"
      BY <3>1, <3>2, <3>3 DEF ReviewOps
    <3> QED
      BY <1>3, <1>4, <1>6, <1>8, <2>3, <3>4 DEF Removed
  <2> QED
    BY <2>2, <2>3
<1> QED
  BY <1>13, <1>14, <1>15, <1>16, <1>17, <1>18, <1>19, <1>20 DEF IndInv

-----------------------------------------------------------------------------
(* The specification.                                                      *)

(* At the start there is nothing.                                          *)
LEMMA InitInv ==
  Init => IndInv
<1> SUFFICES ASSUME Init PROVE IndInv
  OBVIOUS
<1>1. \A r \in Requests : tx[r] = Idle
  BY DEF Init
<1>2. /\ Idle.op = "none" /\ Idle.stage = "idle" /\ Idle.stale = {} /\ Idle.add = {}
  BY DEF Idle
<1>3. DOMAIN status = {} /\ \A o \in Owners : gallery[o] = {}
  BY DEF Init
<1>4. TypeOK
  BY <1>1, <1>3, GalleriesAssumption DEF Init, TypeOK
<1>5. OneWriter /\ StillAllowed /\ StillNew /\ FilesApart
  BY <1>1, <1>2, <1>3
  DEF OneWriter, StillAllowed, StillNew, FilesApart, HoldsRow, HasStored, UnderWay, At,
      Operations, TourOps, ReviewOps
<1>6. WithinLimit
  <2>1. Cardinality({}) = 0
    BY FS_EmptySet
  <2>2. 0 <= MaxImages
    BY GalleriesAssumption
  <2> QED
    BY <1>3, <2>1, <2>2 DEF WithinLimit
<1>7. ImageHasFile /\ DeletedIsEmpty
  BY <1>3 DEF ImageHasFile, DeletedIsEmpty
<1> QED
  BY <1>4, <1>5, <1>6, <1>7 DEF IndInv

(* One step per statement of a handler.                                    *)
LEMMA HandlerStep ==
  ASSUME IndInv, NEW r \in Requests, Handler(r)
  PROVE  IndInv'
<1> USE DEF Operations, TourOps, ReviewOps
<1>1. \A t \in Tours, s \in Requests : t \in tours =>
        (At(s, {"createTour"}, {"store", "commit"}) => tx[s].owner # t)
  BY DEF IndInv, StillNew
<1>2. \A v \in Reviews, s \in Requests :
        At(s, {"createTour"}, {"store", "commit"}) => tx[s].owner # v
  <2> SUFFICES ASSUME NEW v \in Reviews, NEW s \in Requests,
                      At(s, {"createTour"}, {"store", "commit"})
               PROVE  tx[s].owner # v
    OBVIOUS
  <2>1. PICK op \in Operations : tx[s] \in TxOf(op)
    BY DEF IndInv, TypeOK, At, Idle
  <2>2. tx[s].owner \in Tours
    BY <2>1 DEF TxOf, At
  <2> QED
    BY <2>2, GalleriesAssumption
<1>3. ASSUME NEW t \in Tours, NEW add \in SUBSET Files, CreateTour(r, t, add)
      PROVE  IndInv'
  <2>1. PICK stage : stage = IF add = {} THEN "commit" ELSE "store"
    OBVIOUS
  <2>2. stage \in Stages("createTour")
    BY <2>1 DEF Stages
  <2>3. Begin(r, "createTour", stage, t, add, {})
    BY <1>3, <2>1 DEF CreateTour
  <2> QED
    BY <1>3, <2>1, <2>2, <2>3, BeginStep DEF CreateTour
<1>4. ASSUME NEW t \in Tours, NEW add \in SUBSET Files, NEW remove \in SUBSET Files,
             UpdateTour(r, t, add, remove)
      PROVE  IndInv'
  <2>1. PICK stage : stage = IF add = {} THEN "lock" ELSE "store"
    OBVIOUS
  <2>2. stage \in Stages("updateTour")
    BY <2>1 DEF Stages
  <2>3. Begin(r, "updateTour", stage, t, add, remove) /\ t \in tours
    BY <1>4, <2>1 DEF UpdateTour
  <2> QED
    BY <1>1, <2>1, <2>2, <2>3, BeginStep
<1>5. ASSUME NEW v \in Reviews, NEW add \in SUBSET Files, CreateReview(r, v, add)
      PROVE  IndInv'
  <2>1. PICK stage : stage = IF add = {} THEN "insert" ELSE "store"
    OBVIOUS
  <2>2. stage \in Stages("createReview")
    BY <2>1 DEF Stages
  <2>3. Begin(r, "createReview", stage, v, add, {})
    BY <1>5, <2>1 DEF CreateReview
  <2> QED
    BY <1>2, <2>1, <2>2, <2>3, BeginStep
<1>6. ASSUME NEW v \in Reviews, NEW add \in SUBSET Files, NEW remove \in SUBSET Files,
             UpdateReview(r, v, add, remove)
      PROVE  IndInv'
  <2>1. "lock" \in Stages("updateReview")
    BY DEF Stages
  <2>2. Begin(r, "updateReview", "lock", v, add, remove) /\ v \in DOMAIN status
    BY <1>6 DEF UpdateReview
  <2> QED
    BY <1>2, <2>1, <2>2, BeginStep
<1>7. ASSUME NEW v \in Reviews, DeleteReview(r, v)
      PROVE  IndInv'
  <2>1. "lock" \in Stages("deleteReview")
    BY DEF Stages
  <2>2. Begin(r, "deleteReview", "lock", v, {}, {}) /\ v \in DOMAIN status
    BY <1>7 DEF DeleteReview
  <2> QED
    BY <1>2, <2>1, <2>2, BeginStep
<1>8. CASE Store(r)
  BY <1>8, StoreStep
<1>9. CASE LockTour(r)
  BY <1>9, LockTourStep
<1>10. CASE InsertReview(r)
  BY <1>10, InsertReviewStep
<1>11. CASE LockReview(r)
  BY <1>11, LockReviewStep
<1>12. CASE RefuseTour(r) \/ AlreadyReviewed(r) \/ RefuseReview(r)
  <2>1. UnderWay(r) /\ Refuse(r)
    BY <1>12 DEF RefuseTour, AlreadyReviewed, RefuseReview, UnderWay, At
  <2> QED
    BY <2>1, RefuseStep
<1>13. CASE Commit(r)
  <2>1. At(r, Operations, {"commit"}) /\ Write(r) /\ Finish(r, Removed(r))
    BY <1>13 DEF Commit
  <2>2. tx[r].owner \in Owners /\ Removed(r) \subseteq gallery[tx[r].owner]
    BY <2>1, Committing
  <2>3. Removed(r) \in SUBSET Files
    BY <2>2 DEF IndInv, TypeOK
  <2>4. files' = files /\ unconfirmed' = unconfirmed /\ faults' \in 0 .. MaxFaults
    BY <1>13 DEF Commit, IndInv, TypeOK
  <2> QED
    BY <2>1, <2>3, <2>4, CommitStep
<1>14. CASE CleanUp(r)
  BY <1>14, CleanUpStep
<1> QED
  BY <1>3, <1>4, <1>5, <1>6, <1>7, <1>8, <1>9, <1>10, <1>11, <1>12, <1>13, <1>14 DEF Handler

(* A commit whose answer is lost.                                          *)
LEMMA UnconfirmedStep ==
  ASSUME IndInv, NEW r \in Requests, CommitUnconfirmed(r)
  PROVE  IndInv'
<1>1. At(r, Operations, {"commit"}) /\ Write(r) /\ Finish(r, tx[r].add)
  BY DEF CommitUnconfirmed
<1>2. tx[r].add \in SUBSET Files
  BY <1>1, Committing DEF IndInv, TypeOK
<1>3. files' = files /\ unconfirmed' = unconfirmed \cup tx[r].add
  BY DEF CommitUnconfirmed
<1>4. faults' \in 0 .. MaxFaults
  BY GalleriesAssumption DEF CommitUnconfirmed, Fault, IndInv, TypeOK
<1> QED
  BY <1>1, <1>2, <1>3, <1>4, CommitStep

(* Every step keeps the invariant.                                         *)
LEMMA NextInv ==
  IndInv /\ [Next]_vars => IndInv'
<1> SUFFICES ASSUME IndInv, [Next]_vars PROVE IndInv'
  OBVIOUS
<1>1. ASSUME NEW r \in Requests, Handler(r)
      PROVE  IndInv'
  BY <1>1, HandlerStep
<1>2. ASSUME NEW r \in Requests, Fail(r)
      PROVE  IndInv'
  BY <1>2, RefuseStep DEF Fail
<1>3. ASSUME NEW r \in Requests, CommitUnconfirmed(r) \/ Lose(r)
      PROVE  IndInv'
  BY <1>3, UnconfirmedStep, LoseStep
<1>4. ASSUME NEW v \in Reviews, NEW s \in {"HIDDEN", "PUBLISHED"}, Moderate(v, s)
      PROVE  IndInv'
  BY <1>4, ModerateStep
<1>5. CASE UNCHANGED vars
  BY <1>5
  DEF vars, IndInv, TypeOK, OneWriter, StillAllowed, StillNew, FilesApart, WithinLimit,
      ImageHasFile, DeletedIsEmpty, HoldsRow, HasStored, UnderWay, At, Allowed
<1> QED
  BY <1>1, <1>2, <1>3, <1>4, <1>5 DEF Next

(* What requests rely on between their statements, and the promises below, *)
(* hold at every moment, for any number of requests, tours and reviews.    *)
THEOREM Inductive ==
  Spec => []IndInv
BY InitInv, NextInv, PTL DEF Spec

(* Every variable keeps its type.                                          *)
THEOREM TypeCorrect ==
  Spec => []TypeOK
<1>1. IndInv => TypeOK
  BY DEF IndInv
<1> QED
  BY <1>1, Inductive, PTL

(* No tour and no review has more images than MaxImages, although the      *)
(* first check of an update is made on images read without a lock.         *)
THEOREM NeverTooManyImages ==
  Spec => []WithinLimit
<1>1. IndInv => WithinLimit
  BY DEF IndInv
<1> QED
  BY <1>1, Inductive, PTL

(* An image whose upload was confirmed has its file: no failure and no     *)
(* other request removes it.                                               *)
THEOREM ImagesHaveFiles ==
  Spec => []ImageHasFile
<1>1. IndInv => ImageHasFile
  BY DEF IndInv
<1> QED
  BY <1>1, Inductive, PTL

(* A deleted review has no images.                                         *)
THEOREM DeletedReviewsAreEmpty ==
  Spec => []DeletedIsEmpty
<1>1. IndInv => DeletedIsEmpty
  BY DEF IndInv
<1> QED
  BY <1>1, Inductive, PTL

(* What becomes of the status of a review that is committed.               *)
LEMMA WriteKeepsDeleted ==
  ASSUME IndInv, NEW r \in Requests, At(r, Operations, {"commit"}), Write(r),
         NEW v \in DOMAIN status, status[v] = "DELETED"
  PROVE  status'[v] = "DELETED"
<1>1. tx[r].op = "createReview" => tx[r].owner # v
  BY DEF IndInv, StillNew, At
<1> QED
  BY <1>1 DEF Write, IndInv, TypeOK

(* A deleted review stays deleted.                                         *)
THEOREM DeletionIsFinal ==
  Spec => DeletedIsFinal
<1> DEFINE Kept == \A v \in DOMAIN status : status[v] = "DELETED" => status'[v] = "DELETED"
<1>1. IndInv /\ [Next]_vars => [Kept]_vars
  <2> SUFFICES ASSUME IndInv, Next, NEW v \in DOMAIN status, status[v] = "DELETED"
               PROVE  status'[v] = "DELETED"
    BY DEF vars
  <2>1. ASSUME NEW r \in Requests, Commit(r) \/ CommitUnconfirmed(r)
        PROVE  status'[v] = "DELETED"
    BY <2>1, WriteKeepsDeleted DEF Commit, CommitUnconfirmed
  <2>2. ASSUME NEW w \in Reviews, NEW s \in {"HIDDEN", "PUBLISHED"}, Moderate(w, s)
        PROVE  status'[v] = "DELETED"
    BY <2>2 DEF Moderate, IndInv, TypeOK
  <2>3. CASE status' = status
    BY <2>3
  <2>4. ASSUME NEW r \in Requests,
               (Handler(r) /\ ~Commit(r)) \/ Fail(r) \/ Lose(r)
        PROVE  status' = status
    BY <2>4
    DEF Handler, Fail, Lose, Refuse, Goto, Begin, CreateTour, UpdateTour, CreateReview,
        UpdateReview, DeleteReview, Store, LockTour, RefuseTour, InsertReview, AlreadyReviewed,
        LockReview, RefuseReview, CleanUp
  <2> QED
    BY <2>1, <2>2, <2>3, <2>4 DEF Next
<1> QED
  BY <1>1, Inductive, PTL DEF Spec, DeletedIsFinal

-----------------------------------------------------------------------------
(* Files that are left.                                                    *)

(* A step of r keeps the account of the files: every file is then an image,*)
(* or r's own, or it was already somebody else's.                          *)
LEMMA AccountStep ==
  ASSUME TypeOK, FilesAccounted, NEW r \in Requests, NEW e, tx' = [tx EXCEPT ![r] = e],
         Active(e) => e.stale = {},
         faults' = 0 => faults = 0,
         faults' = 0 => \A f \in files' :
           \/ \E o \in Owners : f \in gallery'[o]
           \/ Active(e) /\ f \in e.add
           \/ f \in e.stale
           \/ f \in files /\ f \notin Pending(r) \cup tx[r].stale /\ \A o \in Owners : f \notin gallery[o]
  PROVE  FilesAccounted'
<1>1. tx'[r] = e /\ \A s \in Requests \ {r} : tx'[s] = tx[s]
  BY DEF TypeOK
<1>2. /\ UnderWay(r)' <=> Active(e)
      /\ \A s \in Requests \ {r} : UnderWay(s)' <=> UnderWay(s)
  BY <1>1 DEF UnderWay, At, Active
<1>3. /\ Pending(r)' = IF Active(e) THEN e.add ELSE {}
      /\ \A s \in Requests \ {r} : Pending(s)' = Pending(s)
  BY <1>1, <1>2 DEF Pending
<1>4. \A s \in Requests : UnderWay(s)' => tx'[s].stale = {}
  BY <1>1, <1>2 DEF FilesAccounted
<1>5. ASSUME faults' = 0, NEW f \in files'
      PROVE  \/ \E o \in Owners : f \in gallery'[o]
             \/ \E s \in Requests : f \in Pending(s)' \cup tx'[s].stale
  <2>1. CASE f \in files /\ f \notin Pending(r) \cup tx[r].stale /\ \A o \in Owners : f \notin gallery[o]
    <3>1. PICK s \in Requests : f \in Pending(s) \cup tx[s].stale
      BY <1>5, <2>1 DEF FilesAccounted
    <3> QED
      BY <1>1, <1>3, <2>1, <3>1
  <2> QED
    BY <1>1, <1>3, <1>5, <2>1
<1> QED
  BY <1>4, <1>5 DEF FilesAccounted

(* A request that begins has nothing yet.                                  *)
LEMMA AccountBegin ==
  ASSUME TypeOK, FilesAccounted, NEW r \in Requests, NEW op, NEW stage, NEW o, NEW add, NEW remove,
         Begin(r, op, stage, o, add, remove)
  PROVE  FilesAccounted'
<1>1. PICK e : e = [op |-> op, stage |-> stage, owner |-> o, add |-> add,
                    remove |-> remove, stale |-> {}]
  OBVIOUS
<1>2. e.stale = {} /\ tx' = [tx EXCEPT ![r] = e]
      /\ UNCHANGED <<gallery, files, faults>>
  BY <1>1 DEF Begin
<1>3. Pending(r) = {} /\ tx[r].stale = {}
  BY DEF Begin, Idle, Pending
<1> QED
  BY <1>2, <1>3, AccountStep

(* A request that goes on keeps its uploads, on disk or not.               *)
LEMMA AccountGoto ==
  ASSUME TypeOK, FilesAccounted, NEW r \in Requests, UnderWay(r), NEW stage,
         stage \in {"store", "lock", "insert", "commit"}, Goto(r, stage),
         files' \subseteq files \cup tx[r].add
  PROVE  FilesAccounted'
<1>1. PICK op \in Operations : tx[r] \in TxOf(op)
  BY DEF TypeOK, UnderWay, At, Idle, Operations, TourOps, ReviewOps
<1>2. PICK e : e = [tx[r] EXCEPT !.stage = stage]
  OBVIOUS
<1>3. Active(e) /\ e.add = tx[r].add /\ e.stale = tx[r].stale
  BY <1>1, <1>2 DEF TxOf, Active
<1>4. tx' = [tx EXCEPT ![r] = e] /\ gallery' = gallery /\ faults' = faults
  BY <1>2 DEF Goto, TypeOK
<1>5. tx[r].stale = {} /\ Pending(r) = tx[r].add
  BY DEF FilesAccounted, Pending
<1> QED
  BY <1>3, <1>4, <1>5, AccountStep

(* What Finish leaves the request with.                                    *)
LEMMA FinishedWith ==
  ASSUME TypeOK, NEW r \in Requests, UnderWay(r), NEW stale, Finish(r, stale)
  PROVE  \E e : tx' = [tx EXCEPT ![r] = e] /\ ~Active(e) /\ e.stale = stale
<1>1. CASE stale = {}
  <2>1. tx' = [tx EXCEPT ![r] = Idle]
    BY <1>1 DEF Finish
  <2>2. PICK e : e = Idle
    OBVIOUS
  <2>3. ~Active(e) /\ e.stale = {}
    BY <2>2 DEF Idle, Active
  <2> QED
    BY <1>1, <2>1, <2>2, <2>3
<1>2. CASE stale # {}
  <2>1. PICK op \in Operations : tx[r] \in TxOf(op)
    BY DEF TypeOK, UnderWay, At, Idle, Operations, TourOps, ReviewOps
  <2>2. PICK e : e = [tx[r] EXCEPT !.stage = "cleanup", !.stale = stale]
    OBVIOUS
  <2>3. e.stage = "cleanup" /\ e.stale = stale
    BY <2>1, <2>2 DEF TxOf
  <2>4. tx' = [tx EXCEPT ![r] = e]
    BY <1>2, <2>2 DEF Finish, TypeOK
  <2> QED
    BY <2>3, <2>4 DEF Active
<1> QED
  BY <1>1, <1>2

(* Uploads of a transaction that rolls back are to be removed.             *)
LEMMA AccountRefuse ==
  ASSUME TypeOK, FilesAccounted, NEW r \in Requests, UnderWay(r), Refuse(r)
  PROVE  FilesAccounted'
<1>1. /\ Finish(r, tx[r].add \cap files)
      /\ UNCHANGED <<gallery, files, faults>>
  BY DEF Refuse
<1>2. PICK e : tx' = [tx EXCEPT ![r] = e] /\ ~Active(e) /\ e.stale = tx[r].add \cap files
  BY <1>1, FinishedWith
<1>3. tx[r].stale = {} /\ Pending(r) = tx[r].add
  BY DEF FilesAccounted, Pending
<1> QED
  BY <1>1, <1>2, <1>3, AccountStep

(* A commit turns uploads into images, and leaves what it took away to be  *)
(* removed.                                                                *)
LEMMA AccountCommit ==
  ASSUME TypeOK, FilesAccounted, NEW r \in Requests, Commit(r)
  PROVE  FilesAccounted'
<1>1. /\ UnderWay(r) /\ Write(r) /\ Finish(r, Removed(r)) /\ UNCHANGED <<files, faults>>
  BY DEF Commit, At, UnderWay
<1>2. PICK e : tx' = [tx EXCEPT ![r] = e] /\ ~Active(e) /\ e.stale = Removed(r)
  BY <1>1, FinishedWith
<1>3. tx[r].stale = {} /\ Pending(r) = tx[r].add
  BY <1>1 DEF FilesAccounted, Pending
<1>4. PICK op \in Operations : tx[r] \in TxOf(op)
  BY <1>1 DEF TypeOK, UnderWay, At, Idle, Operations, TourOps, ReviewOps
<1>5. tx[r].owner \in Owners
  BY <1>4 DEF TxOf, Owners
<1>6. /\ gallery'[tx[r].owner] = (gallery[tx[r].owner] \ Removed(r)) \cup tx[r].add
      /\ \A o \in Owners : o # tx[r].owner => gallery'[o] = gallery[o]
  BY <1>1, <1>5 DEF Write, TypeOK
<1>7. ASSUME NEW f \in files, NEW o \in Owners, f \in gallery[o]
      PROVE  f \in gallery'[o] \/ f \in e.stale
  BY <1>2, <1>6, <1>7
<1>8. \A f \in tx[r].add : f \in gallery'[tx[r].owner]
  BY <1>6
<1> QED
  BY <1>1, <1>2, <1>3, <1>5, <1>7, <1>8, AccountStep

(* What is removed is nobody's file any more.                              *)
LEMMA AccountCleanUp ==
  ASSUME TypeOK, FilesAccounted, NEW r \in Requests, CleanUp(r)
  PROVE  FilesAccounted'
<1>1. PICK e : e = Idle
  OBVIOUS
<1>2. ~Active(e) /\ tx' = [tx EXCEPT ![r] = e] /\ files' = files \ tx[r].stale
      /\ gallery' = gallery /\ faults' = faults
  BY <1>1 DEF CleanUp, Active, Idle
<1>3. Pending(r) = {}
  BY DEF CleanUp, Pending, UnderWay, At
<1> QED
  BY <1>2, <1>3, AccountStep

(* A fault, after which nothing is accounted for.                          *)
LEMMA AccountFault ==
  ASSUME TypeOK, FilesAccounted, NEW r \in Requests, CommitUnconfirmed(r) \/ Lose(r)
  PROVE  FilesAccounted'
<1>1. faults' # 0
  BY GalleriesAssumption DEF CommitUnconfirmed, Lose, Fault, TypeOK
<1>2. \E e : tx' = [tx EXCEPT ![r] = e] /\ ~Active(e)
  <2>1. CASE CommitUnconfirmed(r)
    <3>1. UnderWay(r) /\ Finish(r, tx[r].add)
      BY <2>1 DEF CommitUnconfirmed, UnderWay, At
    <3> QED
      BY <3>1, FinishedWith
  <2>2. CASE Lose(r)
    <3>1. tx' = [tx EXCEPT ![r] = Idle]
      BY <2>2 DEF Lose
    <3>2. ~Active(Idle)
      BY DEF Active, Idle
    <3> QED
      BY <3>1, <3>2
  <2> QED
    BY <2>1, <2>2
<1> QED
  BY <1>1, <1>2, AccountStep

(* The steps of a handler.                                                 *)
LEMMA AccountHandler ==
  ASSUME TypeOK, FilesAccounted, NEW r \in Requests, Handler(r)
  PROVE  FilesAccounted'
<1>1. CASE \/ \E t \in Tours, add \in SUBSET Files : CreateTour(r, t, add)
           \/ \E t \in Tours, add, remove \in SUBSET Files : UpdateTour(r, t, add, remove)
  BY <1>1, AccountBegin DEF CreateTour, UpdateTour
<1>2. CASE \/ \E v \in Reviews, add \in SUBSET Files : CreateReview(r, v, add)
           \/ \E v \in Reviews, add, remove \in SUBSET Files : UpdateReview(r, v, add, remove)
           \/ \E v \in Reviews : DeleteReview(r, v)
  BY <1>2, AccountBegin DEF CreateReview, UpdateReview, DeleteReview
<1>3. CASE Store(r)
  <2>1. UnderWay(r) /\ Goto(r, AfterStore(tx[r].op)) /\ files' = files \cup tx[r].add
    BY <1>3 DEF Store, UnderWay, At
  <2>2. AfterStore(tx[r].op) \in {"store", "lock", "insert", "commit"}
    BY DEF AfterStore
  <2> QED
    BY <2>1, <2>2, AccountGoto
<1>4. CASE LockTour(r) \/ InsertReview(r)
  <2>1. UnderWay(r) /\ Goto(r, "commit") /\ files' = files
    BY <1>4 DEF LockTour, InsertReview, UnderWay, At, Operations, TourOps, ReviewOps
  <2> QED
    BY <2>1, AccountGoto
<1>5. CASE LockReview(r)
  <2>1. PICK stage : stage = IF tx[r].add = {} THEN "commit" ELSE "store"
    OBVIOUS
  <2>2. UnderWay(r) /\ Goto(r, stage) /\ files' = files
    BY <1>5, <2>1 DEF LockReview, UnderWay, At, Operations, TourOps, ReviewOps
  <2> QED
    BY <2>1, <2>2, AccountGoto
<1>6. CASE RefuseTour(r) \/ AlreadyReviewed(r) \/ RefuseReview(r)
  <2>1. UnderWay(r) /\ Refuse(r)
    BY <1>6 DEF RefuseTour, AlreadyReviewed, RefuseReview, UnderWay, At, Operations, TourOps,
                ReviewOps
  <2> QED
    BY <2>1, AccountRefuse
<1> QED
  BY <1>1, <1>2, <1>3, <1>4, <1>5, <1>6, AccountCommit, AccountCleanUp DEF Handler

(* The account of the files is kept from the start on.                     *)
LEMMA AccountInductive ==
  Spec => []FilesAccounted
<1>1. Init => FilesAccounted
  BY DEF Init, FilesAccounted, Idle
<1>2. TypeOK /\ FilesAccounted /\ [Next]_vars => FilesAccounted'
  <2> SUFFICES ASSUME TypeOK, FilesAccounted, [Next]_vars
               PROVE  FilesAccounted'
    OBVIOUS
  <2>1. CASE UNCHANGED vars
    BY <2>1 DEF vars, FilesAccounted, Pending, UnderWay, At
  <2>2. ASSUME NEW r \in Requests, Handler(r) \/ Fail(r) \/ CommitUnconfirmed(r) \/ Lose(r)
        PROVE  FilesAccounted'
    BY <2>2, AccountHandler, AccountRefuse, AccountFault DEF Fail
  <2>3. ASSUME NEW v \in Reviews, NEW s \in {"HIDDEN", "PUBLISHED"}, Moderate(v, s)
        PROVE  FilesAccounted'
    BY <2>3 DEF Moderate, FilesAccounted, Pending, UnderWay, At
  <2> QED
    BY <2>1, <2>2, <2>3 DEF Next
<1> QED
  BY <1>1, <1>2, TypeCorrect, PTL DEF Spec

(* When all requests have ended and no fault has occurred, every file is an*)
(* image: nothing is left of refused uploads and of replaced images.       *)
THEOREM NothingIsLeft ==
  Spec => []NoLeftovers
<1>1. FilesAccounted => NoLeftovers
  <2> SUFFICES ASSUME FilesAccounted, faults = 0, \A r \in Requests : tx[r] = Idle, NEW f \in files
               PROVE  \E o \in Owners : f \in gallery[o]
    BY DEF NoLeftovers
  <2>1. \A r \in Requests : f \notin Pending(r) \cup tx[r].stale
    BY DEF Idle, Pending
  <2> QED
    BY <2>1 DEF FilesAccounted
<1> QED
  BY <1>1, AccountInductive, PTL
=============================================================================

--------------------------- MODULE TourCatalogue ---------------------------
(***************************************************************************)
(* Tours and their categories, as administrators create, edit, publish and *)
(* archive them, and the two services that read tours: DeparturesService   *)
(* adds departures to a tour and BookingsService copies its price.         *)
(*                                                                         *)
(* Nearly everything here reads a row without a lock and saves it later.   *)
(* TypeORM's save reads the row once more, compares it with the copy that  *)
(* was edited, and updates the columns that differ: a column that another  *)
(* request has changed since the first read is set back, a column that is  *)
(* changed after the second read is left alone.  Only an edit that adds or *)
(* removes images locks the tour, and edits a fresh copy.                  *)
(*                                                                         *)
(* The images are in Galleries, seats and locks of a booking in Bookings.  *)
(***************************************************************************)
EXTENDS Money, FiniteSets

CONSTANTS
  Requests,    \* requests the API serves at the same time
  Categories,  \* supply of categories
  Tours,       \* supply of tours
  Prices,      \* prices an administrator may enter, in minor units
  TourInputs,  \* fields an edit of a tour may name, with their new values
  Quantities,  \* quantities a customer may book
  MaxServed,   \* bound on the requests that are served one after another
  MaxAmount,   \* largest amount a numeric(12,2) can hold
  None

CategoryStatus == {"ACTIVE", "INACTIVE"}
TourStatus == {"DRAFT", "PUBLISHED", "ARCHIVED"}

(* The columns that matter here.                                           *)
TourColumns == [category |-> Categories, price |-> Prices, status |-> TourStatus]

Tour == [category : Categories, price : Prices, status : TourStatus]
Category == [status : CategoryStatus]

(* An input names some of the columns; one that names none of these edits  *)
(* the title or the description.                                           *)
NoColumn == [k \in {} |-> None]
CategoryInputs == {NoColumn} \cup [status : CategoryStatus]

TourEdits == TourInputs \cup {[status |-> "ARCHIVED"]}

(* A request: copy is the row to be saved, base (history) the row as a     *)
(* plain edit read it, diff the columns that are to be updated.            *)
Request ==
  [op : {"none", "category", "create", "edit", "images", "departure", "booking"},
   stage : {"idle", "check", "recheck", "lock", "save", "write", "commit", "insert"},
   id : Tours \cup Categories \cup {None},
   input : TourEdits \cup CategoryInputs \cup [category : Categories]
             \cup [quantity : Quantities] \cup {None},
   copy : Tour \cup Category \cup {None},
   base : Tour \cup Category \cup {None},
   diff : SUBSET DOMAIN TourColumns]

ASSUME CatalogueAssumption ==
  /\ MaxAmount \in Nat
  /\ Prices \subseteq 0 .. MaxAmount
  /\ Quantities \subseteq Nat \ {0}
  /\ \A input \in TourInputs : \A k \in DOMAIN input :
       k \in DOMAIN TourColumns /\ input[k] \in TourColumns[k]
  /\ None \notin Tours \cup Categories

VARIABLES
  category,   \* categories: id -> row
  tour,       \* tours: id -> row
  departing,  \* the tours that have a departure
  booking,    \* what bookings say of their tour and price
  tx,         \* what each request is doing
  checked,    \* history: the categories found active, for which tour, to publish it or not
  served,     \* how many requests have begun
  offered     \* history: the prices each tour has had while it was published

vars == <<category, tour, departing, booking, tx, checked, offered, served>>

Idle == [op |-> "none", stage |-> "idle", id |-> None, input |-> None,
         copy |-> None, base |-> None, diff |-> {}]

At(r, op, stage) == tx[r].op = op /\ tx[r].stage = stage

Begin(r, op, stage, id, input, copy, base) ==
  /\ tx[r] = Idle
  /\ tx' = [tx EXCEPT ![r] = [op |-> op, stage |-> stage, id |-> id, input |-> input,
                              copy |-> copy, base |-> base, diff |-> {}]]
  /\ served < MaxServed
  /\ served' = served + 1
  /\ UNCHANGED <<category, tour, departing, booking, checked, offered>>

End(r) == tx' = [tx EXCEPT ![r] = Idle]

-----------------------------------------------------------------------------
(* Rows and columns.                                                       *)

Applied(row, input) == [k \in DOMAIN row |-> IF k \in DOMAIN input THEN input[k] ELSE row[k]]

Differing(copy, row) == {k \in DOMAIN row : copy[k] # row[k]}

Updated(row, copy, columns) == [k \in DOMAIN row |-> IF k \in columns THEN copy[k] ELSE row[k]]

Put(table, id, row) == [x \in DOMAIN table \cup {id} |-> IF x = id THEN row ELSE table[x]]

(* A request of the image transaction holds the lock of the tour.          *)
Free(t) == ~\E r \in Requests : tx[r].op = "images" /\ tx[r].stage # "lock"
                                  /\ tx[r].stage # "check" /\ tx[r].id = t

WantsPublished(input) == "status" \in DOMAIN input /\ input["status"] = "PUBLISHED"

(* Mutant: publishing does not look at the category.                       *)
NewCategoryOnly(input) == "category" \in DOMAIN input

NeedsCheck(input) == "category" \in DOMAIN input \/ WantsPublished(input)

Named(copy, input) == Applied(copy, input)["category"]

(* Every change of a tour goes through here, to be remembered.             *)
SetTour(t, row) ==
  /\ tour' = Put(tour, t, row)
  /\ offered' = IF row.status = "PUBLISHED" THEN offered \cup {<<t, row.price>>} ELSE offered

-----------------------------------------------------------------------------
Init ==
  /\ category = [c \in {} |-> None]
  /\ tour = [t \in {} |-> None]
  /\ departing = {}
  /\ booking = {}
  /\ tx = [r \in Requests |-> Idle]
  /\ checked = {}
  /\ offered = {}
  /\ served = 0

-----------------------------------------------------------------------------
(* CategoriesService                                                       *)

(* create: one INSERT.                                                     *)
CreateCategory(c) ==
  /\ c \notin DOMAIN category
  /\ category' = Put(category, c, [status |-> "ACTIVE"])
  /\ UNCHANGED <<tour, departing, booking, tx, checked, offered, served>>

(* update: findRequiredById, and the fields the input names.               *)
EditCategory(r, c, input) ==
  /\ c \in DOMAIN category
  /\ Begin(r, "category", "save", c, input, Applied(category[c], input), category[c])

(* archive                                                                 *)
ArchiveCategory(r, c) == EditCategory(r, c, [status |-> "INACTIVE"])

(* save, first half: the row is read again and compared.                   *)
CompareCategory(r) ==
  /\ At(r, "category", "save")
  /\ LET diff == Differing(tx[r].copy, category[tx[r].id]) IN
       IF diff = {} THEN End(r)
       ELSE tx' = [tx EXCEPT ![r] = [tx[r] EXCEPT !.stage = "write", !.diff = diff]]
  /\ UNCHANGED <<category, tour, departing, booking, checked, offered, served>>

(* save, second half: UPDATE of the columns that differed.                 *)
WriteCategory(r) ==
  /\ At(r, "category", "write")
  /\ category' = Put(category, tx[r].id,
                     Updated(category[tx[r].id], tx[r].copy, tx[r].diff))
  /\ End(r)
  /\ UNCHANGED <<tour, departing, booking, checked, offered, served>>

-----------------------------------------------------------------------------
(* ToursService                                                            *)

(* create: the check of the category comes first; the tour is a draft.     *)
Create(r, t, c, p) ==
  /\ t \notin DOMAIN tour
  /\ \A s \in Requests : tx[s].id # t
  /\ LET row == [category |-> c, price |-> p, status |-> "DRAFT"]
     IN Begin(r, "create", "check", t, [category |-> c], row, None)

(* INSERT, alone or in one transaction with its images.                    *)
InsertTour(r) ==
  /\ At(r, "create", "save")
  /\ SetTour(tx[r].id, tx[r].copy)
  /\ End(r)
  /\ UNCHANGED <<category, departing, booking, checked, served>>

(* update: findRequiredById without a lock, for an edit of the fields alone*)
(* ("edit") or of the images, too ("images").                              *)
Edit(r, op, t, input) ==
  /\ t \in DOMAIN tour
  /\ Begin(r, op, IF NeedsCheck(input) THEN "check" ELSE IF op = "edit" THEN "save" ELSE "lock",
           t, input, Applied(tour[t], input), IF op = "edit" THEN tour[t] ELSE None)

(* archive: the same without the check.                                    *)
ArchiveTour(r, t) ==
  LET input == [status |-> "ARCHIVED"] IN
    /\ t \in DOMAIN tour
    /\ Begin(r, "edit", "save", t, input, Applied(tour[t], input), tour[t])

(* ensureActiveCategory, on a connection and in a snapshot of its own: the *)
(* category that the input names, or that the copy has.                    *)
CheckCategory(r) ==
  /\ tx[r].stage \in {"check", "recheck"}
  /\ LET c == Named(tx[r].copy, tx[r].input) IN
       /\ c \in DOMAIN category
       /\ category[c].status = "ACTIVE"
       /\ checked' = checked \cup {<<tx[r].id, c, WantsPublished(tx[r].input)>>}
  /\ tx' = [tx EXCEPT ![r] = [tx[r] EXCEPT !.stage =
       IF tx[r].stage = "recheck" THEN "commit" ELSE IF tx[r].op = "images" THEN "lock" ELSE "save"]]
  /\ UNCHANGED <<category, tour, departing, booking, offered, served>>

(* saveTour, first half.                                                   *)
CompareTour(r) ==
  /\ At(r, "edit", "save")
  /\ LET diff == Differing(tx[r].copy, tour[tx[r].id]) IN
       IF diff = {} THEN End(r)
       ELSE tx' = [tx EXCEPT ![r] = [tx[r] EXCEPT !.stage = "write", !.diff = diff]]
  /\ UNCHANGED <<category, tour, departing, booking, checked, offered, served>>

(* saveTour, second half; the UPDATE waits for an image transaction.       *)
WriteTour(r) ==
  /\ At(r, "edit", "write")
  /\ Free(tx[r].id)
  /\ SetTour(tx[r].id, Updated(tour[tx[r].id], tx[r].copy, tx[r].diff))
  /\ End(r)
  /\ UNCHANGED <<category, departing, booking, checked, served>>

(* Mutant: the copy that was read before the lock is kept.                 *)
StaleCopy(r) == tx[r].copy

FreshCopy(r) == Applied(tour[tx[r].id], tx[r].input)

(* The image transaction: SELECT ... FOR UPDATE, and the input is applied  *)
(* to what it returns, with the check of the category once more.           *)
LockTour(r) ==
  /\ At(r, "images", "lock")
  /\ Free(tx[r].id)
  /\ tx' = [tx EXCEPT ![r] =
       [tx[r] EXCEPT !.stage = IF NeedsCheck(tx[r].input) THEN "recheck" ELSE "commit",
                     !.copy = FreshCopy(r)]]
  /\ UNCHANGED <<category, tour, departing, booking, checked, offered, served>>

CommitImages(r) ==
  /\ At(r, "images", "commit")
  /\ SetTour(tx[r].id, tx[r].copy)
  /\ End(r)
  /\ UNCHANGED <<category, departing, booking, checked, served>>

-----------------------------------------------------------------------------
(* DeparturesService.create: the tour is read, and the departure inserted. *)
(* The foreign key takes a share lock of the tour.                         *)

AddDeparture(r, t) ==
  /\ t \in DOMAIN tour
  /\ tour[t].status # "ARCHIVED"
  /\ Begin(r, "departure", "insert", t, None, None, None)

InsertDeparture(r) ==
  /\ At(r, "departure", "insert")
  /\ Free(tx[r].id)
  /\ departing' = departing \cup {tx[r].id}
  /\ End(r)
  /\ UNCHANGED <<category, tour, booking, checked, offered, served>>

-----------------------------------------------------------------------------
(* BookingsService.create, under the lock of the departure.                *)

Published(t) == t \in DOMAIN tour /\ tour[t].status = "PUBLISHED"

ReadOffer(r, t, q) ==
  /\ t \in departing
  /\ Published(t)
  /\ Begin(r, "booking", "insert", t, [quantity |-> q], tour[t], None)

(* A total that a numeric(12,2) cannot hold makes the INSERT fail.         *)
InsertBooking(r) ==
  /\ At(r, "booking", "insert")
  /\ LET unitPrice == Text(tx[r].copy.price)
         total == Numeric(CalculateTotal(unitPrice, tx[r].input.quantity))
     IN /\ total <= MaxAmount
        /\ booking' = booking \cup
             {[tour |-> tx[r].id, quantity |-> tx[r].input.quantity,
               unitPrice |-> Numeric(unitPrice), totalAmount |-> total]}
  /\ End(r)
  /\ UNCHANGED <<category, tour, departing, checked, offered, served>>

-----------------------------------------------------------------------------
(* Any request may be refused (a field that is empty, a code or slug that  *)
(* is taken, a category that is not active, an amount too large) or lost:  *)
(* it has then written nothing.                                            *)
Fail(r) ==
  /\ tx[r] # Idle
  /\ End(r)
  /\ UNCHANGED <<category, tour, departing, booking, checked, offered, served>>

(* A request for a tour or category that it does not find, or not in the   *)
(* status it needs, is answered at once.                                   *)
TurnAway(r) == tx[r] = Idle /\ UNCHANGED vars

Arrive(r) ==
  \/ TurnAway(r)
  \/ \E c \in Categories :
       ArchiveCategory(r, c) \/ \E input \in CategoryInputs : EditCategory(r, c, input)
  \/ \E t \in Tours :
       \/ ArchiveTour(r, t)
       \/ AddDeparture(r, t)
       \/ \E c \in Categories, p \in Prices : Create(r, t, c, p)
       \/ \E op \in {"edit", "images"}, input \in TourInputs : Edit(r, op, t, input)
       \/ \E q \in Quantities : ReadOffer(r, t, q)

Proceed(r) ==
  \/ CompareCategory(r) \/ WriteCategory(r)
  \/ CheckCategory(r) \/ InsertTour(r)
  \/ CompareTour(r) \/ WriteTour(r) \/ LockTour(r) \/ CommitImages(r)
  \/ InsertDeparture(r) \/ InsertBooking(r)

Next ==
  \/ \E c \in Categories : CreateCategory(c)
  \/ \E r \in Requests : Arrive(r) \/ Proceed(r) \/ Fail(r)

Spec == Init /\ [][Next]_vars

-----------------------------------------------------------------------------
(* Properties.                                                             *)

TypeOK ==
  /\ DOMAIN category \subseteq Categories /\ category \in [DOMAIN category -> Category]
  /\ DOMAIN tour \subseteq Tours /\ tour \in [DOMAIN tour -> Tour]
  /\ departing \subseteq DOMAIN tour
  /\ booking \subseteq [tour : Tours, quantity : Quantities,
                        unitPrice : 0 .. MaxAmount, totalAmount : 0 .. MaxAmount]
  /\ tx \in [Requests -> Request]
  /\ checked \subseteq Tours \X Categories \X BOOLEAN
  /\ offered \subseteq Tours \X Prices

(* However edits overwrite each other, they bring back old values and no   *)
(* others: a tour is in a category that was active when a request put it   *)
(* there, and is published only if a request that asked for it found the   *)
(* category of the tour active (ensureActiveCategory in applyUpdate).      *)
CategoryChecked(t, c) == \E p \in BOOLEAN : <<t, c, p>> \in checked

MayPublish(t) == \E c \in Categories : <<t, c, TRUE>> \in checked

Vetted(t, row) ==
  CategoryChecked(t, row.category) /\ (row.status = "PUBLISHED" => MayPublish(t))

NothingUnchecked == TypeOK /\ \A t \in DOMAIN tour : Vetted(t, tour[t])

(* The price of a booking is one the tour has had while it was published,  *)
(* however it was edited or archived meanwhile, and the total is exactly   *)
(* that price times the quantity.                                          *)
BookedAsOffered ==
  \A b \in booking :
    /\ <<b.tour, b.unitPrice>> \in offered
    /\ b.totalAmount = b.unitPrice * b.quantity

(* An edit leaves the columns alone which it does not name: always if it   *)
(* edits images, because it holds the lock from the read to the commit;    *)
(* otherwise if the row is as it was read.  (If not, it may set back what  *)
(* another request has changed, the archived status included.)             *)
EditKeepsOthers ==
  [][\A r \in Requests :
       LET t == tx[r].id
           keeps(old, new) == \A k \in DOMAIN old \ DOMAIN tx[r].input : new[k] = old[k]
       IN /\ CommitImages(r) => keeps(tour[t], tour'[t])
          /\ WriteTour(r) /\ tour[t] = tx[r].base => keeps(tour[t], tour'[t])
          /\ WriteCategory(r) /\ category[t] = tx[r].base => keeps(category[t], category'[t])]_vars

(* "An archived tour cannot receive new departures"                        *)
(* (i18n/en/errors.json:19): no departure is inserted while its tour is    *)
(* archived.                                                               *)
ArchivedGetsNoDeparture ==
  [][\A r \in Requests : InsertDeparture(r) => tour[tx[r].id].status # "ARCHIVED"]_vars

(* What NothingUnchecked and BookedAsOffered rest on.  What each request   *)
(* holds between its statements: a row that a check is still to pass brings*)
(* nothing unchecked but what its input names, and one that is to be saved *)
(* brings nothing unchecked at all;                                        *)
AlmostVetted(t, row, input) ==
  /\ "category" \in DOMAIN input \/ CategoryChecked(t, row.category)
  /\ row.status = "PUBLISHED" => WantsPublished(input) \/ MayPublish(t)

EditsCategory(x) ==
  /\ x.op = "category" /\ x.stage \in {"save", "write"}
  /\ x.id \in DOMAIN category
  /\ x.input \in CategoryInputs /\ x.base \in Category /\ x.copy = Applied(x.base, x.input)

CreatesTour(x) ==
  /\ x.op = "create" /\ x.stage \in {"check", "save"}
  /\ x.id \in Tours \ DOMAIN tour
  /\ x.copy \in Tour /\ x.copy.status = "DRAFT" /\ x.input = [category |-> x.copy.category]
  /\ x.stage = "save" => Vetted(x.id, x.copy)

EditsTour(x) ==
  /\ x.op = "edit" /\ x.stage \in {"check", "save", "write"}
  /\ x.id \in DOMAIN tour
  /\ x.input \in TourEdits /\ x.base \in Tour /\ x.copy = Applied(x.base, x.input)
  /\ x.stage = "check" => AlmostVetted(x.id, x.copy, x.input)
  /\ x.stage # "check" => Vetted(x.id, x.copy)

EditsImages(x) ==
  /\ x.op = "images" /\ x.stage \in {"check", "lock", "recheck", "commit"}
  /\ x.id \in DOMAIN tour
  /\ x.input \in TourInputs /\ x.copy \in Tour
  /\ x.stage \in {"recheck", "commit"} => x.copy = Applied(tour[x.id], x.input)
  /\ x.stage = "recheck" => AlmostVetted(x.id, x.copy, x.input)
  /\ x.stage = "commit" => Vetted(x.id, x.copy)

AddsDeparture(x) == x.op = "departure" /\ x.stage = "insert" /\ x.id \in DOMAIN tour

Books(x) ==
  /\ x.op = "booking" /\ x.stage = "insert"
  /\ x.id \in DOMAIN tour
  /\ x.copy \in Tour /\ <<x.id, x.copy.price>> \in offered
  /\ \E q \in Quantities : x.input = [quantity |-> q]

Knows(x) ==
  \/ x = Idle
  \/ EditsCategory(x) \/ CreatesTour(x) \/ EditsTour(x) \/ EditsImages(x)
  \/ AddsDeparture(x) \/ Books(x)

(* one request holds the lock of a tour, and a tour is created once;       *)
HoldsTour(r, t) == tx[r].op = "images" /\ tx[r].stage \in {"recheck", "commit"} /\ tx[r].id = t

OneWriter ==
  \A r, s \in Requests :
    /\ \A t \in Tours : HoldsTour(r, t) /\ HoldsTour(s, t) => r = s
    /\ tx[r].op = "create" /\ tx[s].op = "create" /\ tx[r].id = tx[s].id => r = s

(* and the prices of published tours are remembered.                       *)
OffersRemembered ==
  \A t \in DOMAIN tour : tour[t].status = "PUBLISHED" => <<t, tour[t].price>> \in offered

(* The inductive invariant.                                                *)
IndInv ==
  /\ NothingUnchecked
  /\ \A r \in Requests : Knows(tx[r])
  /\ OneWriter
  /\ OffersRemembered
  /\ BookedAsOffered
=============================================================================

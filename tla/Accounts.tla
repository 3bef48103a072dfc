------------------------------ MODULE Accounts ------------------------------
(***************************************************************************)
(* The accounts of the service and their avatar files: UsersService        *)
(* (updateRole, updateStatus, updateProfile), AuthService.register and the *)
(* part of FileStorageService that they call.                              *)
(*                                                                         *)
(* Changes of role and status take the advisory lock ACTIVE_ADMIN_LOCK     *)
(* before the row of their target, count the active administrators and     *)
(* write; a profile takes the row only.  An avatar is a file that is       *)
(* written before the transaction and a row that names it inside, so that  *)
(* errors, lost answers and lost processes come between the two; MaxFaults *)
(* bounds how often.                                                       *)
(*                                                                         *)
(* An account is named by its email, which has a unique index.  bio,       *)
(* password and tokens are left out.  An avatar that a client sends as     *)
(* text is External: a URL that is not a file of this service.             *)
(***************************************************************************)
EXTENDS Naturals, FiniteSets

CONSTANTS
  Requests,      \* requests under way at the same time
  Accounts,      \* emails
  Files,         \* names a stored avatar may get
  MaxFaults,     \* bound of lost answers, lost processes and failed clean-ups
  External,
  None

ASSUME AccountsAssumption ==
  /\ IsFiniteSet(Accounts)
  /\ MaxFaults \in Nat
  /\ External \notin Files
  /\ None \notin Files \cup {External}
  /\ Files \cap {"ADMIN", "USER", "ACTIVE", "BLOCKED", "keep"} = {}

VARIABLES
  user,          \* the users table
  files,         \* avatar files on disk
  tx,            \* what each request is doing
  unconfirmed,   \* history variable: uploads whose commit got no answer
  faults         \* faults so far

vars == <<user, files, tx, unconfirmed, faults>>

Role   == {"ADMIN", "USER"}
Status == {"ACTIVE", "BLOCKED"}
Avatar == Files \cup {External, None}
User   == [role : Role, status : Status, avatar : Avatar]

(* What a request asks for; "keep" is a profile without an avatar.         *)
Changes(op) ==
  IF op = "role" THEN Role
  ELSE IF op = "status" THEN Status
  ELSE IF op = "profile" THEN Avatar \cup {"keep"}
  ELSE Files \cup {None}

Decisions  == {"role", "status"}
Operations == Decisions \cup {"profile", "register"}

(* actor sent the request, target is the account it is about, row what was *)
(* read of it, stale the files that are removed after the transaction.     *)
TxOf(op) ==
  [op : {op}, stage : {"adminLock", "row", "count", "commit", "cleanup"},
   actor : Accounts, target : Accounts, change : Changes(op),
   row : User \cup {None}, stale : SUBSET Files]

Idle == [op |-> "none", stage |-> "idle", actor |-> None, target |-> None,
         change |-> None, row |-> None, stale |-> {}]

-----------------------------------------------------------------------------

At(r, ops, stages) == tx[r].op \in ops /\ tx[r].stage \in stages

(* pg_advisory_xact_lock: held from the moment it is granted to the end.   *)
InSection(r) == At(r, Decisions, {"row", "count", "commit"})

(* The row of target, or the unique index entry of a new account, is held. *)
HoldsRow(r, a) == At(r, Operations, {"count", "commit"}) /\ tx[r].target = a

(* Mutant: the row is read without a lock.                                 *)
RowFreeAlways(r) == TRUE

RowFree(r) == \A s \in Requests \ {r} : ~HoldsRow(s, tx[r].target)

(* What the change makes of a row.                                         *)
Changed(r, row) ==
  IF tx[r].op = "role" THEN [row EXCEPT !.role = tx[r].change]
  ELSE IF tx[r].op = "status" THEN [row EXCEPT !.status = tx[r].change]
  ELSE IF tx[r].change = "keep" THEN row
  ELSE [row EXCEPT !.avatar = tx[r].change]

IsActiveAdmin(row) == row.role = "ADMIN" /\ row.status = "ACTIVE"

ActiveAdmins == {a \in DOMAIN user : IsActiveAdmin(user[a])}

(* The change takes an active administrator away.                          *)
Reduces(r, row) == IsActiveAdmin(row) /\ ~IsActiveAdmin(Changed(r, row))

(* What is forbidden on one's own account: to give up the role, to block it.*)
OwnAccount(r, row) ==
  /\ tx[r].actor = tx[r].target
  /\ \/ tx[r].op = "role" /\ row.role = "ADMIN" /\ tx[r].change # "ADMIN"
     \/ tx[r].op = "status" /\ tx[r].change # "ACTIVE"

(* The file a request has written, if any.                                 *)
Upload(r) == {tx[r].change} \cap Files

(* A UUID names no file that was ever seen.                                *)
NeverUsed(f) ==
  /\ f \notin files \cup unconfirmed
  /\ \A a \in DOMAIN user : user[a].avatar # f
  /\ \A r \in Requests : tx[r].change # f /\ f \notin tx[r].stale

Begin(r, op, stage, actor, target, change) ==
  /\ tx[r] = Idle
  /\ tx' = [tx EXCEPT ![r] = [op |-> op, stage |-> stage, actor |-> actor,
                              target |-> target, change |-> change,
                              row |-> None, stale |-> {}]]

Goto(r, stage) == tx' = [tx EXCEPT ![r].stage = stage]

(* After the transaction, committed or not: what is left to remove.        *)
Finish(r, stale) ==
  tx' = [tx EXCEPT ![r] = IF stale = {} THEN Idle
                          ELSE [@ EXCEPT !.stage = "cleanup", !.stale = stale]]

(* Mutant: an upload is forgotten when its transaction fails.              *)
RefuseAndForget(r) ==
  /\ Finish(r, {})
  /\ UNCHANGED <<user, files, unconfirmed, faults>>

(* The transaction rolls back and what was uploaded for it is removed.     *)
Refuse(r) ==
  /\ Finish(r, Upload(r))
  /\ UNCHANGED <<user, files, unconfirmed, faults>>

-----------------------------------------------------------------------------
(* The first administrators are seeded; roles and states may be any that   *)
(* leave one of them active.                                               *)
Init ==
  /\ user \in UNION {[S -> [role : Role, status : Status, avatar : {None}]] :
                       S \in SUBSET Accounts}
  /\ ActiveAdmins # {}
  /\ files = {}
  /\ tx = [r \in Requests |-> Idle]
  /\ unconfirmed = {}
  /\ faults = 0

(* JwtAuthGuard and RolesGuard look at the actor before the handler runs,  *)
(* and nothing looks at him again.                                         *)
BeginDecision(r, op, actor, target, change) ==
  /\ actor \in ActiveAdmins
  /\ Begin(r, op, "adminLock", actor, target, change)
  /\ UNCHANGED <<user, files, unconfirmed, faults>>

(* The upload is stored first.  A write that fails removes what it wrote.  *)
BeginWithUpload(r, op, account, f) ==
  /\ NeverUsed(f)
  /\ Begin(r, op, "row", account, account, f)
  /\ files' = files \cup {f}
  /\ UNCHANGED <<user, unconfirmed, faults>>

BeginWithout(r, op, account, change) ==
  /\ Begin(r, op, "row", account, account, change)
  /\ UNCHANGED <<user, files, unconfirmed, faults>>

UpdateProfile(r, a) ==
  /\ a \in DOMAIN user
  /\ user[a].status = "ACTIVE"
  /\ \/ \E f \in Files : BeginWithUpload(r, "profile", a, f)
     \/ \E c \in {External, None, "keep"} : BeginWithout(r, "profile", a, c)

Register(r, a) ==
  \/ \E f \in Files : BeginWithUpload(r, "register", a, f)
  \/ BeginWithout(r, "register", a, None)

(* Mutant: nobody waits for the advisory lock.                             *)
TakeAdminLockAtOnce(r) ==
  /\ At(r, Decisions, {"adminLock"})
  /\ Goto(r, "row")
  /\ UNCHANGED <<user, files, unconfirmed, faults>>

TakeAdminLock(r) ==
  /\ At(r, Decisions, {"adminLock"})
  /\ \A s \in Requests : ~InSection(s)
  /\ Goto(r, "row")
  /\ UNCHANGED <<user, files, unconfirmed, faults>>

(* SELECT ... FOR UPDATE of the target and the checks on what it returns.  *)
LockRow(r) ==
  /\ At(r, Decisions \cup {"profile"}, {"row"})
  /\ tx[r].target \in DOMAIN user
  /\ RowFree(r)
  /\ LET row == user[tx[r].target] IN
       /\ ~OwnAccount(r, row)
       /\ tx' = [tx EXCEPT ![r].row = row,
                           ![r].stage = IF Reduces(r, row) THEN "count" ELSE "commit"]
  /\ UNCHANGED <<user, files, unconfirmed, faults>>

RefuseRow(r) ==
  /\ At(r, Decisions \cup {"profile"}, {"row"})
  /\ \/ tx[r].target \notin DOMAIN user
     \/ RowFree(r) /\ OwnAccount(r, user[tx[r].target])
  /\ Refuse(r)

(* Mutant: the last one is let go too.                                     *)
CountNobody(r) ==
  /\ At(r, Decisions, {"count"})
  /\ Cardinality(ActiveAdmins) > 0
  /\ Goto(r, "commit")
  /\ UNCHANGED <<user, files, unconfirmed, faults>>

(* ensureAnotherActiveAdmin: a count in its own snapshot.                  *)
CountAdmins(r) ==
  /\ At(r, Decisions, {"count"})
  /\ Cardinality(ActiveAdmins) > 1
  /\ Goto(r, "commit")
  /\ UNCHANGED <<user, files, unconfirmed, faults>>

RefuseLastAdmin(r) ==
  /\ At(r, Decisions, {"count"})
  /\ Cardinality(ActiveAdmins) <= 1
  /\ Refuse(r)

(* The INSERT of a new account meets the unique index on the email, where  *)
(* it waits for an insert that has not committed.                          *)
InsertUser(r) ==
  /\ At(r, {"register"}, {"row"})
  /\ RowFree(r)
  /\ tx[r].target \notin DOMAIN user
  /\ Goto(r, "commit")
  /\ UNCHANGED <<user, files, unconfirmed, faults>>

EmailTaken(r) ==
  /\ At(r, {"register"}, {"row"})
  /\ tx[r].target \in DOMAIN user
  /\ Refuse(r)

(* The writes become visible.  A decision saves the role and status it     *)
(* read with its change, a profile its avatar; other columns stay.         *)
Write(r) ==
  LET t == tx[r].target
      row == IF tx[r].op = "register"
               THEN [role |-> "USER", status |-> "ACTIVE", avatar |-> tx[r].change]
             ELSE IF tx[r].op = "profile"
               THEN [user[t] EXCEPT !.avatar = Changed(r, tx[r].row).avatar]
             ELSE [Changed(r, tx[r].row) EXCEPT !.avatar = user[t].avatar]
  IN  user' = [a \in DOMAIN user \cup {t} |-> IF a = t THEN row ELSE user[a]]

(* The managed file that a new avatar replaces.                            *)
Replaced(r) ==
  IF tx[r].op = "profile" /\ Changed(r, tx[r].row).avatar # tx[r].row.avatar
    THEN {tx[r].row.avatar} \cap Files
    ELSE {}

Commit(r) ==
  /\ At(r, Operations, {"commit"})
  /\ Write(r)
  /\ Finish(r, Replaced(r))
  /\ UNCHANGED <<files, unconfirmed, faults>>

-----------------------------------------------------------------------------
(* Failures.                                                               *)

InTransaction(r) == At(r, Operations, {"adminLock", "row", "count", "commit"})

(* A statement fails, or COMMIT does: the transaction rolls back.          *)
Fail(r) ==
  /\ InTransaction(r)
  /\ Refuse(r)

Fault == faults < MaxFaults /\ faults' = faults + 1

(* COMMIT takes effect and its answer is lost: the handler takes it for a  *)
(* failure, and removes the upload that the row now names.                 *)
CommitUnconfirmed(r) ==
  /\ At(r, Operations, {"commit"})
  /\ Write(r)
  /\ Finish(r, Upload(r))
  /\ unconfirmed' = unconfirmed \cup Upload(r)
  /\ Fault
  /\ UNCHANGED files

(* removeBestEffort after the transaction.                                 *)
CleanUp(r) ==
  /\ At(r, Operations, {"cleanup"})
  /\ files' = files \ tx[r].stale
  /\ tx' = [tx EXCEPT ![r] = Idle]
  /\ UNCHANGED <<user, unconfirmed, faults>>

(* unlink fails, which is logged; or the process is lost and its           *)
(* transaction rolls back.                                                 *)
Lose(r) ==
  /\ tx[r] # Idle
  /\ tx' = [tx EXCEPT ![r] = Idle]
  /\ Fault
  /\ UNCHANGED <<user, files, unconfirmed>>

-----------------------------------------------------------------------------

Handler(r) ==
  \/ \E a, t \in Accounts, c \in Role   : BeginDecision(r, "role", a, t, c)
  \/ \E a, t \in Accounts, c \in Status : BeginDecision(r, "status", a, t, c)
  \/ \E a \in Accounts : UpdateProfile(r, a)
  \/ \E a \in Accounts : Register(r, a)
  \/ TakeAdminLock(r)
  \/ LockRow(r)
  \/ RefuseRow(r)
  \/ CountAdmins(r)
  \/ RefuseLastAdmin(r)
  \/ InsertUser(r)
  \/ EmailTaken(r)
  \/ Commit(r)
  \/ CleanUp(r)

Next == \E r \in Requests :
          Handler(r) \/ Fail(r) \/ CommitUnconfirmed(r) \/ Lose(r)

Spec == Init /\ [][Next]_vars

-----------------------------------------------------------------------------
(* Properties.                                                             *)

TypeOK ==
  /\ DOMAIN user \subseteq Accounts
  /\ user \in [DOMAIN user -> User]
  /\ files \subseteq Files
  /\ tx = [r \in Requests |-> tx[r]]
  /\ \A r \in Requests : tx[r] = Idle \/ \E op \in Operations : tx[r] \in TxOf(op)
  /\ unconfirmed \subseteq Files
  /\ faults \in 0 .. MaxFaults

(* An active administrator remains, whatever administrators do to each     *)
(* other at the same time (ensureAnotherActiveAdmin): the count that a     *)
(* change relies on is taken before its commit, and stays true until then. *)
AdminRemains == ActiveAdmins # {}

(* The avatar of an account is a file that exists, through replacements by *)
(* two uploads at once and failures at every step; only a commit whose     *)
(* answer was lost breaks it (the catch of updateProfile and of register). *)
AvatarHasFile ==
  \A a \in DOMAIN user : user[a].avatar \in Files => user[a].avatar \in files \cup unconfirmed

(* When every request has ended without a fault, no file is left that no   *)
(* account names: refused and failed uploads are removed, and so is what a *)
(* new avatar replaced, once.                                              *)
NoLeftovers ==
  (faults = 0 /\ \A r \in Requests : tx[r] = Idle) =>
    files \subseteq {user[a].avatar : a \in DOMAIN user}

(* What AdminRemains rests on.  One decision at a time is past the advisory*)
(* lock, and one request holds a row;                                      *)
OneDecision ==
  \A r, s \in Requests : InSection(r) /\ InSection(s) => r = s

OneWriter ==
  \A r, s \in Requests, a \in Accounts : HoldsRow(r, a) /\ HoldsRow(s, a) => r = s

(* the row that was read is the row there is, and a new email is new;      *)
RowIsCurrent ==
  \A r \in Requests :
    At(r, Decisions \cup {"profile"}, {"count", "commit"}) =>
      /\ tx[r].target \in DOMAIN user
      /\ tx[r].row = user[tx[r].target]

EmailIsNew ==
  \A r \in Requests : At(r, {"register"}, {"commit"}) => tx[r].target \notin DOMAIN user

(* and a decision that takes an administrator away leaves somebody else.   *)
SomebodyElse ==
  \A r \in Requests : At(r, Decisions, {"commit"}) /\ Reduces(r, tx[r].row) =>
    \E a \in ActiveAdmins : a # tx[r].target

(* The inductive invariant: what a change of role or status relies on      *)
(* between its statements holds until it commits.                          *)
IndInv ==
  /\ TypeOK
  /\ OneDecision
  /\ OneWriter
  /\ RowIsCurrent
  /\ EmailIsNew
  /\ SomebodyElse
  /\ AdminRemains

(* What AvatarHasFile and NoLeftovers rest on.  Files are not shared: an   *)
(* avatar is one account's, and the upload of a transaction is nobody's yet*)
(* and is removed by nobody else;                                          *)
Pending(r) == IF InTransaction(r) THEN Upload(r) ELSE {}

FilesApart ==
  /\ \A a, b \in DOMAIN user :
       user[a].avatar \in Files /\ user[a].avatar = user[b].avatar => a = b
  /\ \A r \in Requests, a \in DOMAIN user :
       /\ user[a].avatar \notin Pending(r)
       /\ user[a].avatar \in tx[r].stale => user[a].avatar \in unconfirmed
  /\ \A r, s \in Requests : /\ Pending(r) \cap tx[s].stale = {}
                            /\ r # s => Pending(r) \cap Pending(s) = {}
  /\ \A r \in Requests : Pending(r) \subseteq files

(* and while no fault has occurred, a file is an avatar, or the upload of a*)
(* request under way, or about to be removed.                              *)
FilesAccounted ==
  /\ \A r \in Requests : InTransaction(r) => tx[r].stale = {}
  /\ faults = 0 =>
       \A f \in files : \/ \E a \in DOMAIN user : user[a].avatar = f
                       \/ \E r \in Requests : f \in Pending(r) \cup tx[r].stale

FilesInv == AvatarHasFile /\ FilesApart /\ FilesAccounted
=============================================================================

--------------------------- MODULE AccountsProofs ---------------------------
(***************************************************************************)
(* Proofs about Accounts, for every set of requests, accounts and files    *)
(* and every number of faults.                                             *)
(***************************************************************************)
EXTENDS Accounts, FiniteSetTheorems, TLAPS

-----------------------------------------------------------------------------
(* Lemmas on operators.                                                    *)

(* Where there are two, there is another one.                              *)
LEMMA AnotherOne ==
  ASSUME NEW S, IsFiniteSet(S), Cardinality(S) > 1, NEW t
  PROVE  \E a \in S : a # t
<1>1. SUFFICES ASSUME S \subseteq {t} PROVE FALSE
  OBVIOUS
<1>2. IsFiniteSet({t}) /\ Cardinality({t}) = 1
  BY FS_Singleton
<1>3. Cardinality(S) \in Nat /\ Cardinality(S) <= Cardinality({t})
  BY <1>1, <1>2, FS_Subset, FS_CardinalityType
<1> QED
  BY <1>2, <1>3

(* The administrators can be counted.                                      *)
LEMMA AdminsFinite ==
  ASSUME TypeOK
  PROVE  IsFiniteSet(ActiveAdmins)
<1>1. ActiveAdmins \subseteq Accounts
  BY DEF ActiveAdmins, TypeOK
<1> QED
  BY <1>1, FS_Subset, AccountsAssumption

(* A change makes a row of a row; a profile leaves the role and the status.*)
LEMMA ChangedRow ==
  ASSUME NEW r \in Requests, NEW op \in Operations \ {"register"}, tx[r] \in TxOf(op),
         NEW row \in User
  PROVE  /\ Changed(r, row) \in User
         /\ op = "profile" => /\ Changed(r, row).role = row.role
                              /\ Changed(r, row).status = row.status
         /\ op \in Decisions => Changed(r, row).avatar = row.avatar
<1> USE DEF Changed, TxOf, Changes, Operations, Decisions, User
<1>1. CASE op = "role"
  BY <1>1
<1>2. CASE op = "status"
  BY <1>2
<1>3. CASE op = "profile" /\ tx[r].change = "keep"
  BY <1>3
<1>4. CASE op = "profile" /\ tx[r].change # "keep"
  BY <1>4
<1> QED
  BY <1>1, <1>2, <1>3, <1>4

-----------------------------------------------------------------------------
(* Steps that leave the table alone.                                       *)

(* A step of r that changes only what r is doing.                          *)
LEMMA LocalStep ==
  ASSUME IndInv, NEW r \in Requests, NEW e,
         tx' = [tx EXCEPT ![r] = e],
         user' = user,
         files' \subseteq Files, unconfirmed' \subseteq Files, faults' \in 0 .. MaxFaults,
         e = Idle \/ \E op \in Operations : e \in TxOf(op),
         e.op \in Decisions /\ e.stage \in {"row", "count", "commit"} =>
           InSection(r) \/ \A s \in Requests : ~InSection(s),
         e.op \in Operations /\ e.stage \in {"count", "commit"} =>
           /\ e.target = tx[r].target
           /\ HoldsRow(r, tx[r].target) \/ RowFree(r),
         e.op \in Decisions \cup {"profile"} /\ e.stage \in {"count", "commit"} =>
           e.target \in DOMAIN user /\ e.row = user[e.target],
         e.op = "register" /\ e.stage = "commit" => e.target \notin DOMAIN user,
         e.op \in Decisions /\ e.stage = "commit" /\ Reduces(r, e.row)' =>
           \E a \in ActiveAdmins : a # e.target
  PROVE  IndInv'
<1>1. tx'[r] = e /\ \A s \in Requests \ {r} : tx'[s] = tx[s]
  BY DEF IndInv, TypeOK
<1>2. TypeOK'
  BY <1>1 DEF IndInv, TypeOK
<1>3. OneDecision'
  BY <1>1 DEF IndInv, OneDecision, InSection, At
<1>4. OneWriter'
  BY <1>1 DEF IndInv, OneWriter, HoldsRow, RowFree, At
<1>5. RowIsCurrent'
  BY <1>1 DEF IndInv, RowIsCurrent, At
<1>6. EmailIsNew'
  BY <1>1 DEF IndInv, EmailIsNew, At
<1>7. AdminRemains' /\ ActiveAdmins' = ActiveAdmins
  BY DEF IndInv, AdminRemains, ActiveAdmins
<1>8. SomebodyElse'
  BY <1>1, <1>7 DEF IndInv, SomebodyElse, At, Reduces, Changed
<1> QED
  BY <1>2, <1>3, <1>4, <1>5, <1>6, <1>7, <1>8 DEF IndInv

(* What r does after its transaction is done.                              *)
LEMMA Finished ==
  ASSUME TypeOK, NEW r \in Requests, tx[r] # Idle, NEW stale \in SUBSET Files, Finish(r, stale)
  PROVE  \E e : /\ tx' = [tx EXCEPT ![r] = e]
                /\ e = Idle \/ \E op \in Operations : e \in TxOf(op)
                /\ e.stage \in {"idle", "cleanup"}
<1>1. CASE stale = {}
  <2>1. tx' = [tx EXCEPT ![r] = Idle]
    BY <1>1 DEF Finish
  <2>2. Idle.stage = "idle"
    BY DEF Idle
  <2> QED
    BY <2>1, <2>2
<1>2. CASE stale # {}
  <2> DEFINE e == [tx[r] EXCEPT !.stage = "cleanup", !.stale = stale]
  <2>1. PICK op \in Operations : tx[r] \in TxOf(op)
    BY DEF TypeOK
  <2>2. e \in TxOf(op) /\ e.stage = "cleanup"
    BY <2>1 DEF TxOf
  <2>3. tx' = [tx EXCEPT ![r] = e]
    BY <1>2 DEF Finish, TypeOK
  <2> QED
    BY <2>2, <2>3
<1> QED
  BY <1>1, <1>2

(* A request whose transaction does not commit.                            *)
LEMMA RefuseStep ==
  ASSUME IndInv, NEW r \in Requests, tx[r] # Idle, Refuse(r)
  PROVE  IndInv'
<1>1. PICK e : /\ tx' = [tx EXCEPT ![r] = e]
               /\ e = Idle \/ \E op \in Operations : e \in TxOf(op)
               /\ e.stage \in {"idle", "cleanup"}
  BY Finished DEF IndInv, Refuse, Upload
<1> QED
  BY <1>1, LocalStep DEF Refuse, IndInv, TypeOK

(* The first step of a request.                                            *)
LEMMA BeginStep ==
  ASSUME IndInv, NEW r \in Requests, NEW op \in Operations, NEW stage \in {"adminLock", "row"},
         NEW actor \in Accounts, NEW target \in Accounts, NEW change \in Changes(op),
         Begin(r, op, stage, actor, target, change),
         op \in Decisions => stage = "adminLock",
         user' = user, unconfirmed' = unconfirmed, faults' = faults, files' \subseteq Files
  PROVE  IndInv'
<1> DEFINE e == [op |-> op, stage |-> stage, actor |-> actor, target |-> target,
                 change |-> change, row |-> None, stale |-> {}]
<1>1. e \in TxOf(op) /\ e.op = op /\ e.stage = stage
  BY DEF TxOf
<1>2. tx' = [tx EXCEPT ![r] = e]
  BY DEF Begin
<1> HIDE DEF e
<1> QED
  BY <1>1, <1>2, LocalStep DEF IndInv, TypeOK

(* A request that goes on to its next stage.                               *)
LEMMA GotoRecord ==
  ASSUME TypeOK, NEW r \in Requests, NEW op \in Operations, tx[r] \in TxOf(op),
         NEW stage \in {"row", "count", "commit"}, Goto(r, stage)
  PROVE  \E e \in TxOf(op) :
           /\ tx' = [tx EXCEPT ![r] = e]
           /\ e.op = op /\ e.stage = stage
           /\ e.target = tx[r].target /\ e.row = tx[r].row /\ e.change = tx[r].change
<1> DEFINE e == [tx[r] EXCEPT !.stage = stage]
<1>1. e \in TxOf(op) /\ e.op = op /\ e.stage = stage
  BY DEF TxOf
<1>2. e.target = tx[r].target /\ e.row = tx[r].row /\ e.change = tx[r].change
  BY DEF TxOf
<1>3. tx' = [tx EXCEPT ![r] = e]
  BY DEF Goto, TypeOK
<1> HIDE DEF e
<1> QED
  BY <1>1, <1>2, <1>3

(* The operation of a request that is somewhere.                           *)
LEMMA OperationOf ==
  ASSUME TypeOK, NEW r \in Requests, NEW ops \in SUBSET Operations, NEW stages, At(r, ops, stages)
  PROVE  tx[r].op \in ops /\ tx[r] \in TxOf(tx[r].op) /\ tx[r] # Idle
BY DEF TypeOK, At, TxOf, Idle, Operations, Decisions

(* pg_advisory_xact_lock is granted.                                       *)
LEMMA TakeAdminLockStep ==
  ASSUME IndInv, NEW r \in Requests, TakeAdminLock(r)
  PROVE  IndInv'
<1>1. tx[r].op \in Decisions /\ tx[r].op \in Operations /\ tx[r] \in TxOf(tx[r].op)
  BY OperationOf DEF IndInv, TakeAdminLock, Operations
<1>2. PICK e \in TxOf(tx[r].op) : tx' = [tx EXCEPT ![r] = e] /\ e.op = tx[r].op /\ e.stage = "row"
  BY <1>1, GotoRecord DEF IndInv, TakeAdminLock
<1>3. \A s \in Requests : ~InSection(s)
  BY DEF TakeAdminLock
<1> QED
  BY <1>1, <1>2, <1>3, LocalStep DEF TakeAdminLock, IndInv, TypeOK

(* The target is read and locked.  What is not counted takes nobody away.  *)
LEMMA LockRowStep ==
  ASSUME IndInv, NEW r \in Requests, LockRow(r)
  PROVE  IndInv'
<1>1. /\ tx[r].op \in Decisions \cup {"profile"} /\ tx[r].op \in Operations
      /\ tx[r].op # "register"
      /\ tx[r] \in TxOf(tx[r].op) /\ tx[r].stage = "row"
  BY OperationOf DEF IndInv, LockRow, Operations, Decisions, At
<1>2. PICK row \in User : row = user[tx[r].target]
  BY DEF LockRow, IndInv, TypeOK
<1>3. PICK stage : stage = IF Reduces(r, row) THEN "count" ELSE "commit"
  OBVIOUS
<1>4. PICK e : e = [tx[r] EXCEPT !.row = row, !.stage = stage]
  OBVIOUS
<1>5. /\ e \in TxOf(tx[r].op) /\ e.op = tx[r].op /\ e.stage = stage
      /\ e.target = tx[r].target /\ e.row = row /\ e.change = tx[r].change
  BY <1>1, <1>2, <1>3, <1>4 DEF TxOf
<1>6. tx' = [tx EXCEPT ![r] = e]
  BY <1>2, <1>3, <1>4 DEF LockRow, IndInv, TypeOK
<1>7. tx[r].op \in Decisions => InSection(r)
  BY <1>1 DEF InSection, At
<1>8. e.stage = "commit" => ~Reduces(r, e.row)'
  <2>1. tx'[r] = e
    BY <1>6 DEF IndInv, TypeOK
  <2>2. Changed(r, row)' = Changed(r, row)
    BY <2>1, <1>5 DEF Changed
  <2> QED
    BY <2>2, <1>3, <1>5 DEF Reduces
<1>9. RowFree(r) /\ e.target \in DOMAIN user /\ e.row = user[e.target]
  BY <1>2, <1>5 DEF LockRow
<1> QED
  BY <1>1, <1>3, <1>5, <1>6, <1>7, <1>8, <1>9, LocalStep DEF LockRow, IndInv, TypeOK

(* There is another administrator, and nobody else decides until the commit.*)
LEMMA CountAdminsStep ==
  ASSUME IndInv, NEW r \in Requests, CountAdmins(r)
  PROVE  IndInv'
<1>1. /\ tx[r].op \in Decisions /\ tx[r].op \in Operations /\ tx[r].op # "register"
      /\ tx[r] \in TxOf(tx[r].op)
  BY OperationOf DEF IndInv, CountAdmins, Operations, Decisions
<1>2. PICK e \in TxOf(tx[r].op) :
        /\ tx' = [tx EXCEPT ![r] = e] /\ e.op = tx[r].op /\ e.stage = "commit"
        /\ e.target = tx[r].target /\ e.row = tx[r].row
  BY <1>1, GotoRecord DEF IndInv, CountAdmins
<1>3. \E a \in ActiveAdmins : a # e.target
  BY AnotherOne, AdminsFinite DEF IndInv, CountAdmins
<1>4. InSection(r) /\ HoldsRow(r, tx[r].target)
  BY DEF CountAdmins, InSection, HoldsRow, At, Operations
<1>5. e.target \in DOMAIN user /\ e.row = user[e.target]
  BY <1>2 DEF CountAdmins, IndInv, RowIsCurrent, At
<1> QED
  BY <1>1, <1>2, <1>3, <1>4, <1>5, LocalStep DEF CountAdmins, IndInv, TypeOK

(* A new email that nobody else is inserting.                              *)
LEMMA InsertUserStep ==
  ASSUME IndInv, NEW r \in Requests, InsertUser(r)
  PROVE  IndInv'
<1>1. /\ tx[r].op = "register" /\ "register" \in Operations \ (Decisions \cup {"profile"})
      /\ tx[r] \in TxOf("register")
  BY OperationOf DEF IndInv, InsertUser, At, Operations, Decisions
<1>2. PICK e \in TxOf("register") :
        /\ tx' = [tx EXCEPT ![r] = e] /\ e.op = "register" /\ e.stage = "commit"
        /\ e.target = tx[r].target
  BY <1>1, GotoRecord DEF IndInv, InsertUser
<1> QED
  BY <1>1, <1>2, LocalStep DEF InsertUser, IndInv, TypeOK

-----------------------------------------------------------------------------
(* Commits.                                                                *)

(* The row that a commit writes, and the administrators there are after it.*)
LEMMA Written ==
  ASSUME IndInv, NEW r \in Requests, At(r, Operations, {"commit"}), Write(r)
  PROVE  \E row \in User :
           /\ user' = [a \in DOMAIN user \cup {tx[r].target} |->
                         IF a = tx[r].target THEN row ELSE user[a]]
           /\ tx[r].target \in Accounts
           /\ tx[r].op \in Decisions =>
                tx[r].target \in DOMAIN user /\ row = Changed(r, user[tx[r].target])
           /\ tx[r].op = "profile" =>
                /\ tx[r].target \in DOMAIN user
                /\ row.role = user[tx[r].target].role
                /\ row.status = user[tx[r].target].status
           /\ tx[r].op = "register" => tx[r].target \notin DOMAIN user
<1> DEFINE t == tx[r].target
<1>1. tx[r].op \in Operations /\ tx[r] \in TxOf(tx[r].op) /\ t \in Accounts
  BY OperationOf DEF IndInv, TxOf
<1>2. CASE tx[r].op = "register"
  <2> DEFINE row == [role |-> "USER", status |-> "ACTIVE", avatar |-> tx[r].change]
  <2>1. row \in User
    BY <1>1, <1>2 DEF User, TxOf, Changes, Role, Status, Avatar, Decisions
  <2>2. t \notin DOMAIN user
    BY <1>2 DEF IndInv, EmailIsNew, At
  <2> QED
    BY <1>1, <1>2, <2>1, <2>2 DEF Write, Decisions
<1>3. CASE tx[r].op # "register"
  <2>1. t \in DOMAIN user /\ tx[r].row = user[t] /\ user[t] \in User
    BY <1>1, <1>3 DEF IndInv, TypeOK, RowIsCurrent, At, Operations
  <2>2. /\ Changed(r, user[t]) \in User
        /\ tx[r].op \in Decisions => Changed(r, user[t]).avatar = user[t].avatar
    BY <1>1, <1>3, <2>1, ChangedRow
  <2>3. CASE tx[r].op = "profile"
    <3> DEFINE row == [user[t] EXCEPT !.avatar = Changed(r, tx[r].row).avatar]
    <3>1. row \in User /\ row.role = user[t].role /\ row.status = user[t].status
      BY <2>1, <2>2 DEF User
    <3> QED
      BY <1>1, <2>1, <2>3, <3>1 DEF Write, Decisions
  <2>4. CASE tx[r].op \in Decisions
    <3>1. [Changed(r, tx[r].row) EXCEPT !.avatar = user[t].avatar] = Changed(r, user[t])
      BY <2>1, <2>2, <2>4 DEF User
    <3> QED
      BY <1>1, <2>1, <2>2, <2>4, <3>1 DEF Write, Decisions
  <2> QED
    BY <1>1, <1>3, <2>3, <2>4 DEF Operations
<1> QED
  BY <1>2, <1>3

(* A commit, answered or not.                                              *)
LEMMA CommitStep ==
  ASSUME IndInv, NEW r \in Requests, At(r, Operations, {"commit"}), Write(r),
         NEW stale \in SUBSET Files, Finish(r, stale),
         files' = files, unconfirmed' \subseteq Files, faults' \in 0 .. MaxFaults
  PROVE  IndInv'
<1>1. PICK e : /\ tx' = [tx EXCEPT ![r] = e]
               /\ e = Idle \/ \E op \in Operations : e \in TxOf(op)
               /\ e.stage \in {"idle", "cleanup"}
  BY Finished, OperationOf DEF IndInv
<1>2. PICK t \in Accounts, row \in User :
        /\ t = tx[r].target
        /\ user' = [a \in DOMAIN user \cup {t} |-> IF a = t THEN row ELSE user[a]]
        /\ tx[r].op \in Decisions => t \in DOMAIN user /\ row = Changed(r, user[t])
        /\ tx[r].op = "profile" =>
             t \in DOMAIN user /\ row.role = user[t].role /\ row.status = user[t].status
        /\ tx[r].op = "register" => t \notin DOMAIN user
  BY Written
<1>3. tx'[r] = e /\ \A s \in Requests \ {r} : tx'[s] = tx[s]
  BY <1>1 DEF IndInv, TypeOK
<1>4. HoldsRow(r, t) /\ tx[r].op \in Operations
  BY <1>2 DEF HoldsRow, At
<1>5. TypeOK'
  BY <1>1, <1>2, <1>3 DEF IndInv, TypeOK
<1>6. OneDecision'
  BY <1>1, <1>3 DEF IndInv, OneDecision, InSection, At
<1>7. OneWriter'
  BY <1>1, <1>3 DEF IndInv, OneWriter, HoldsRow, At
<1>8. \A s \in Requests \ {r} :
        At(s, Operations, {"count", "commit"}) => tx[s].target # t
  BY <1>2, <1>4 DEF IndInv, OneWriter, HoldsRow
<1>9. RowIsCurrent' /\ EmailIsNew'
  BY <1>1, <1>2, <1>3, <1>8 DEF IndInv, RowIsCurrent, EmailIsNew, At, Operations
<1>10. \A a \in ActiveAdmins \ {t} : a \in ActiveAdmins'
  BY <1>2 DEF ActiveAdmins
<1>11. ~(tx[r].op \in Decisions /\ Reduces(r, tx[r].row)) => ActiveAdmins \subseteq ActiveAdmins'
  <2> SUFFICES ASSUME ~(tx[r].op \in Decisions /\ Reduces(r, tx[r].row)), t \in ActiveAdmins
               PROVE  t \in ActiveAdmins'
    BY <1>10
  <2>1. t \in DOMAIN user /\ IsActiveAdmin(user[t]) /\ user'[t] = row /\ t \in DOMAIN user'
    BY <1>2 DEF ActiveAdmins
  <2>2. CASE tx[r].op = "profile"
    BY <1>2, <2>1, <2>2 DEF ActiveAdmins, IsActiveAdmin
  <2>3. CASE tx[r].op \in Decisions
    <3>1. tx[r].row = user[t]
      BY <1>2, <2>3 DEF IndInv, RowIsCurrent, At
    <3> QED
      BY <1>2, <2>1, <2>3, <3>1 DEF Reduces, ActiveAdmins
  <2> QED
    BY <1>2, <1>4, <2>1, <2>2, <2>3 DEF Operations
<1>12. AdminRemains'
  <2>1. CASE tx[r].op \in Decisions /\ Reduces(r, tx[r].row)
    <3>1. PICK a \in ActiveAdmins : a # t
      BY <1>2, <2>1 DEF IndInv, SomebodyElse, At
    <3> QED
      BY <1>10, <3>1 DEF AdminRemains
  <2>2. CASE ~(tx[r].op \in Decisions /\ Reduces(r, tx[r].row))
    BY <1>11, <2>2 DEF IndInv, AdminRemains
  <2> QED
    BY <2>1, <2>2
<1>13. SomebodyElse'
  <2> SUFFICES ASSUME NEW s \in Requests, At(s, Decisions, {"commit"})', Reduces(s, tx[s].row)'
               PROVE  (\E a \in ActiveAdmins : a # tx[s].target)'
    BY DEF SomebodyElse
  <2>1. s # r /\ tx'[s] = tx[s]
    BY <1>1, <1>3 DEF At
  <2>2. At(s, Decisions, {"commit"}) /\ Reduces(s, tx[s].row)
    BY <2>1 DEF At, Reduces, Changed
  <2>3. PICK a \in ActiveAdmins : a # tx[s].target
    BY <2>2 DEF IndInv, SomebodyElse
  <2>4. tx[r].op \notin Decisions
    BY <2>1, <2>2 DEF IndInv, OneDecision, InSection, At
  <2> QED
    BY <1>11, <2>1, <2>3, <2>4
<1> QED
  BY <1>5, <1>6, <1>7, <1>9, <1>12, <1>13 DEF IndInv

-----------------------------------------------------------------------------
(* The invariant of the specification.                                     *)

(* With one active administrator in the seed it holds.                     *)
LEMMA InitInv ==
  ASSUME Init
  PROVE  IndInv
<1>1. \A r \in Requests : tx[r] = Idle
  BY DEF Init
<1>2. Idle.op = "none"
  BY DEF Idle
<1>3. TypeOK
  BY <1>1, AccountsAssumption DEF Init, TypeOK, User, Avatar
<1>4. \A r \in Requests, ops \in SUBSET Operations : \A stages : ~At(r, ops, stages)
  BY <1>1, <1>2 DEF At, Operations, Decisions
<1>5. OneDecision /\ OneWriter /\ RowIsCurrent /\ EmailIsNew /\ SomebodyElse
  BY <1>4 DEF OneDecision, OneWriter, RowIsCurrent, EmailIsNew, SomebodyElse, InSection,
              HoldsRow, Operations, Decisions
<1> QED
  BY <1>3, <1>5 DEF IndInv, AdminRemains, Init

(* The steps of a handler.                                                 *)
LEMMA HandlerStep ==
  ASSUME IndInv, NEW r \in Requests, Handler(r)
  PROVE  IndInv'
<1>1. CASE \E a, t \in Accounts, c \in Role : BeginDecision(r, "role", a, t, c)
  BY <1>1, BeginStep DEF BeginDecision, Operations, Decisions, Changes, IndInv, TypeOK
<1>2. CASE \E a, t \in Accounts, c \in Status : BeginDecision(r, "status", a, t, c)
  BY <1>2, BeginStep DEF BeginDecision, Operations, Decisions, Changes, IndInv, TypeOK
<1>3. ASSUME NEW op \in {"profile", "register"}, NEW a \in Accounts, NEW f \in Files,
             BeginWithUpload(r, op, a, f)
      PROVE  IndInv'
  <2>1. op \in Operations /\ op \notin Decisions /\ f \in Changes(op)
    BY DEF Operations, Decisions, Changes, Avatar
  <2> QED
    BY <1>3, <2>1, BeginStep DEF BeginWithUpload, IndInv, TypeOK
<1>4. ASSUME NEW op \in {"profile", "register"}, NEW a \in Accounts, NEW c \in Changes(op),
             BeginWithout(r, op, a, c)
      PROVE  IndInv'
  <2>1. op \in Operations /\ op \notin Decisions
    BY DEF Operations, Decisions
  <2> QED
    BY <1>4, <2>1, BeginStep DEF BeginWithout, IndInv, TypeOK
<1>5. CASE \E a \in Accounts : UpdateProfile(r, a)
  BY <1>3, <1>4, <1>5 DEF UpdateProfile, Changes, Decisions, Avatar
<1>6. CASE \E a \in Accounts : Register(r, a)
  BY <1>3, <1>4, <1>6 DEF Register, Changes
<1>7. CASE TakeAdminLock(r)
  BY <1>7, TakeAdminLockStep
<1>8. CASE LockRow(r)
  BY <1>8, LockRowStep
<1>9. CASE RefuseRow(r)
  BY <1>9, RefuseStep, OperationOf DEF RefuseRow, IndInv, Operations
<1>10. CASE CountAdmins(r)
  BY <1>10, CountAdminsStep
<1>11. CASE RefuseLastAdmin(r)
  BY <1>11, RefuseStep, OperationOf DEF RefuseLastAdmin, IndInv, Operations
<1>12. CASE InsertUser(r)
  BY <1>12, InsertUserStep
<1>13. CASE EmailTaken(r)
  BY <1>13, RefuseStep, OperationOf DEF EmailTaken, IndInv, Operations
<1>14. CASE Commit(r)
  <2>1. Replaced(r) \in SUBSET Files
    BY DEF Replaced
  <2> QED
    BY <1>14, <2>1, CommitStep DEF Commit, IndInv, TypeOK
<1>15. CASE CleanUp(r)
  BY <1>15, LocalStep DEF CleanUp, IndInv, TypeOK, Idle, Operations, Decisions
<1> QED
  BY <1>1, <1>2, <1>5, <1>6, <1>7, <1>8, <1>9, <1>10, <1>11, <1>12, <1>13, <1>14, <1>15
     DEF Handler

(* Failures.                                                               *)
LEMMA FailureStep ==
  ASSUME IndInv, NEW r \in Requests, Fail(r) \/ CommitUnconfirmed(r) \/ Lose(r)
  PROVE  IndInv'
<1>1. Fault => faults' \in 0 .. MaxFaults
  BY AccountsAssumption DEF Fault, IndInv, TypeOK
<1>2. CASE Fail(r)
  BY <1>2, RefuseStep, OperationOf DEF Fail, InTransaction, IndInv
<1>3. CASE CommitUnconfirmed(r)
  <2>1. Upload(r) \in SUBSET Files
    BY DEF Upload
  <2> QED
    BY <1>1, <1>3, <2>1, CommitStep DEF CommitUnconfirmed, IndInv, TypeOK
<1>4. CASE Lose(r)
  BY <1>1, <1>4, LocalStep DEF Lose, IndInv, TypeOK, Idle, Operations, Decisions
<1> QED
  BY <1>2, <1>3, <1>4

(* Whatever administrators, owners of profiles and new customers do at the *)
(* same time, and whatever fails, what a decision relies on between its    *)
(* statements holds.                                                       *)
THEOREM Inductive == Spec => []IndInv
<1>1. Init => IndInv
  BY InitInv
<1>2. IndInv /\ [Next]_vars => IndInv'
  <2> SUFFICES ASSUME IndInv, [Next]_vars
               PROVE  IndInv'
    OBVIOUS
  <2>1. CASE Next
    BY <2>1, HandlerStep, FailureStep DEF Next
  <2>2. CASE UNCHANGED vars
    BY <2>2 DEF vars, IndInv, TypeOK, OneDecision, OneWriter, RowIsCurrent, EmailIsNew,
                SomebodyElse, AdminRemains, ActiveAdmins, InSection, HoldsRow, At, Reduces,
                Changed
  <2> QED
    BY <2>1, <2>2
<1> QED
  BY <1>1, <1>2, PTL DEF Spec

(* Every variable keeps its type.                                          *)
THEOREM TypeCorrect == Spec => []TypeOK
BY Inductive, PTL DEF IndInv

(* There is always an active administrator, for any number of them, of     *)
(* requests and of faults.                                                 *)
THEOREM AnAdminRemains == Spec => []AdminRemains
BY Inductive, PTL DEF IndInv

-----------------------------------------------------------------------------
(* Avatar files.                                                           *)

(* What is recorded of a request whose transaction is open.                *)
Running(e) == e.op \in Operations /\ e.stage \in {"adminLock", "row", "count", "commit"}

UploadOf(e) == IF Running(e) THEN {e.change} \cap Files ELSE {}

(* The row of t is written.                                                *)
Saves(t, row) == user' = [a \in DOMAIN user \cup {t} |-> IF a = t THEN row ELSE user[a]]

(* A step of r leaves what the others are doing and have uploaded.         *)
LEMMA OthersKeep ==
  ASSUME TypeOK, NEW r \in Requests, NEW e, tx' = [tx EXCEPT ![r] = e]
  PROVE  /\ tx'[r] = e /\ \A s \in Requests \ {r} : tx'[s] = tx[s]
         /\ InTransaction(r)' <=> Running(e)
         /\ \A s \in Requests \ {r} : InTransaction(s)' <=> InTransaction(s)
         /\ Pending(r)' = UploadOf(e)
         /\ \A s \in Requests \ {r} : Pending(s)' = Pending(s)
<1>1. tx'[r] = e /\ \A s \in Requests \ {r} : tx'[s] = tx[s]
  BY DEF TypeOK
<1>2. /\ InTransaction(r)' <=> Running(e)
      /\ \A s \in Requests \ {r} : InTransaction(s)' <=> InTransaction(s)
  BY <1>1 DEF InTransaction, At, Running
<1> QED
  BY <1>1, <1>2 DEF Pending, Upload, UploadOf

(* A file that was never seen is neither an upload nor about to be removed.*)
LEMMA NeverSeen ==
  ASSUME NEW f, NeverUsed(f), NEW s \in Requests
  PROVE  f \notin Pending(s) /\ f \notin tx[s].stale
BY DEF NeverUsed, Pending, Upload

(* A step of r that leaves the table: what is uploaded is new, what is     *)
(* removed was r's own.                                                    *)
LEMMA FilesStep ==
  ASSUME TypeOK, FilesInv, NEW r \in Requests, NEW e, tx' = [tx EXCEPT ![r] = e],
         user' = user, unconfirmed' = unconfirmed,
         Running(e) => e.stale = {},
         \A f \in files : f \in tx[r].stale \/ f \in files',
         UploadOf(e) \subseteq files',
         \A f \in UploadOf(e) : f \in Pending(r) \/ NeverUsed(f),
         e.stale \subseteq Pending(r),
         faults' = 0 =>
           /\ faults = 0
           /\ \A f \in files' : f \in files \/ f \in UploadOf(e)
           /\ \A f \in files' : f \in Pending(r) \cup tx[r].stale => f \in UploadOf(e) \cup e.stale
  PROVE  FilesInv'
<1>1. /\ tx'[r] = e /\ \A s \in Requests \ {r} : tx'[s] = tx[s]
      /\ InTransaction(r)' <=> Running(e)
      /\ \A s \in Requests \ {r} : InTransaction(s)' <=> InTransaction(s)
      /\ Pending(r)' = UploadOf(e)
      /\ \A s \in Requests \ {r} : Pending(s)' = Pending(s)
  BY OthersKeep
<1>2. \A f \in UploadOf(e) : \A s \in Requests \ {r} : f \notin Pending(s) /\ f \notin tx[s].stale
  BY NeverSeen DEF FilesInv, FilesApart
<1>3. \A f \in UploadOf(e), a \in DOMAIN user : user[a].avatar # f
  BY DEF FilesInv, FilesApart, NeverUsed
<1>4. AvatarHasFile'
  BY DEF FilesInv, AvatarHasFile, FilesApart
<1>5. FilesApart'
  <2>1. (\A a, b \in DOMAIN user :
           user[a].avatar \in Files /\ user[a].avatar = user[b].avatar => a = b)'
    BY DEF FilesInv, FilesApart
  <2>2. ASSUME NEW s \in Requests, NEW a \in DOMAIN user
        PROVE  /\ user[a].avatar \notin Pending(s)'
               /\ user[a].avatar \in tx'[s].stale => user[a].avatar \in unconfirmed
    BY <1>1, <1>3 DEF FilesInv, FilesApart
  <2>3. ASSUME NEW s \in Requests, NEW q \in Requests
        PROVE  Pending(s)' \cap tx'[q].stale = {} /\ (s # q => Pending(s)' \cap Pending(q)' = {})
    <3>1. CASE s # r /\ q # r
      BY <1>1, <3>1 DEF FilesInv, FilesApart
    <3>2. CASE s = r /\ q # r
      BY <1>1, <1>2, <3>2
    <3>3. CASE s # r /\ q = r
      <4>1. Pending(s) \cap Pending(r) = {}
        BY <3>3 DEF FilesInv, FilesApart
      <4> QED
        BY <1>1, <1>2, <3>3, <4>1
    <3>4. CASE s = r /\ q = r
      BY <1>1, <3>4 DEF UploadOf
    <3> QED
      BY <3>1, <3>2, <3>3, <3>4
  <2>4. ASSUME NEW s \in Requests
        PROVE  Pending(s)' \subseteq files'
    BY <1>1 DEF FilesInv, FilesApart
  <2> QED
    BY <2>1, <2>2, <2>3, <2>4 DEF FilesApart
<1>6. FilesAccounted'
  <2>1. \A s \in Requests : InTransaction(s)' => tx'[s].stale = {}
    BY <1>1 DEF FilesInv, FilesAccounted
  <2>2. ASSUME faults' = 0, NEW f \in files'
        PROVE  \/ \E a \in DOMAIN user : user[a].avatar = f
               \/ \E s \in Requests : f \in Pending(s)' \cup tx'[s].stale
    <3>1. CASE f \in UploadOf(e)
      BY <1>1, <3>1
    <3>2. CASE f \in files /\ ~\E a \in DOMAIN user : user[a].avatar = f
      <4>1. PICK s \in Requests : f \in Pending(s) \cup tx[s].stale
        BY <2>2, <3>2 DEF FilesInv, FilesAccounted
      <4> QED
        BY <1>1, <2>2, <4>1
    <3> QED
      BY <2>2, <3>1, <3>2
  <2> QED
    BY <2>1, <2>2 DEF FilesAccounted
<1> QED
  BY <1>4, <1>5, <1>6 DEF FilesInv

(* A commit of r: the avatar it writes is its own upload or the one there  *)
(* was, and what is removed then is the avatar there was, or an upload that*)
(* counts as unconfirmed.                                                  *)
LEMMA FilesCommit ==
  ASSUME TypeOK, FilesInv, NEW r \in Requests, InTransaction(r),
         NEW e, tx' = [tx EXCEPT ![r] = e], ~Running(e),
         NEW t, NEW row,
         Saves(t, row), files' = files, unconfirmed \subseteq unconfirmed',
         row.avatar \in Files =>
           row.avatar \in Pending(r) \/ (t \in DOMAIN user /\ row.avatar = user[t].avatar),
         \A f \in e.stale :
           \/ f \in Pending(r) /\ f \in unconfirmed'
           \/ t \in DOMAIN user /\ f = user[t].avatar /\ f \in Files /\ f # row.avatar,
         faults' = 0 =>
           /\ faults = 0
           /\ Pending(r) \subseteq {row.avatar}
           /\ t \in DOMAIN user /\ user[t].avatar \in Files =>
                user[t].avatar = row.avatar \/ user[t].avatar \in e.stale
  PROVE  FilesInv'
<1>1. /\ tx'[r] = e /\ \A s \in Requests \ {r} : tx'[s] = tx[s]
      /\ InTransaction(r)' <=> Running(e)
      /\ \A s \in Requests \ {r} : InTransaction(s)' <=> InTransaction(s)
      /\ Pending(r)' = UploadOf(e)
      /\ \A s \in Requests \ {r} : Pending(s)' = Pending(s)
  BY OthersKeep
<1>2. Pending(r)' = {}
  BY <1>1 DEF UploadOf
<1>3. /\ DOMAIN user' = DOMAIN user \cup {t}
      /\ user'[t] = row
      /\ \A a \in DOMAIN user : a # t => user'[a] = user[a]
  BY DEF Saves
<1>4. AvatarHasFile'
  <2> SUFFICES ASSUME NEW a \in DOMAIN user', user'[a].avatar \in Files
               PROVE  user'[a].avatar \in files \cup unconfirmed'
    BY DEF AvatarHasFile
  <2>1. CASE a # t
    BY <1>3, <2>1 DEF FilesInv, AvatarHasFile
  <2>2. CASE a = t
    BY <1>3, <2>2 DEF FilesInv, AvatarHasFile, FilesApart
  <2> QED
    BY <2>1, <2>2
<1>5. FilesApart'
  <2>1. ASSUME NEW a \in DOMAIN user', NEW b \in DOMAIN user',
               user'[a].avatar \in Files, user'[a].avatar = user'[b].avatar
        PROVE  a = b
    <3>1. \A c \in DOMAIN user : c # t /\ row.avatar \in Files => user[c].avatar # row.avatar
      BY DEF FilesInv, FilesApart
    <3> QED
      BY <1>3, <2>1, <3>1 DEF FilesInv, FilesApart
  <2>2. ASSUME NEW s \in Requests, NEW a \in DOMAIN user'
        PROVE  /\ user'[a].avatar \notin Pending(s)'
               /\ user'[a].avatar \in tx'[s].stale => user'[a].avatar \in unconfirmed'
    <3>1. CASE s # r /\ a # t
      BY <1>1, <1>3, <3>1 DEF FilesInv, FilesApart
    <3>2. CASE s # r /\ a = t
      <4>1. Pending(s) \subseteq Files /\ tx[s].stale \subseteq Files
        BY DEF Pending, Upload, TypeOK, TxOf, Idle
      <4>2. CASE row.avatar \in Pending(r)
        <5>1. row.avatar \notin Pending(s) /\ row.avatar \notin tx[s].stale
          BY <3>2, <4>2 DEF FilesInv, FilesApart
        <5> QED
          BY <1>1, <1>3, <3>2, <5>1
      <4>3. CASE t \in DOMAIN user /\ row.avatar = user[t].avatar
        <5>1. /\ row.avatar \notin Pending(s)
              /\ row.avatar \in tx[s].stale => row.avatar \in unconfirmed
          BY <4>3 DEF FilesInv, FilesApart
        <5> QED
          BY <1>1, <1>3, <3>2, <5>1
      <4>4. CASE row.avatar \notin Files
        BY <1>1, <1>3, <3>2, <4>1, <4>4
      <4> QED
        BY <4>2, <4>3, <4>4
    <3>3. CASE s = r
      <4>1. ASSUME user'[a].avatar \in e.stale, t \in DOMAIN user,
                   user'[a].avatar = user[t].avatar, user'[a].avatar \in Files,
                   user'[a].avatar # row.avatar
            PROVE  FALSE
        BY <1>3, <4>1 DEF FilesInv, FilesApart
      <4> QED
        BY <1>1, <1>2, <3>3, <4>1
    <3> QED
      BY <3>1, <3>2, <3>3
  <2>3. ASSUME NEW s \in Requests, NEW q \in Requests
        PROVE  Pending(s)' \cap tx'[q].stale = {} /\ (s # q => Pending(s)' \cap Pending(q)' = {})
    <3>1. CASE s # r /\ q # r
      BY <1>1, <3>1 DEF FilesInv, FilesApart
    <3>2. CASE s # r /\ q = r
      <4>1. /\ Pending(s) \cap Pending(r) = {}
            /\ \A a \in DOMAIN user : user[a].avatar \notin Pending(s)
        BY <3>2 DEF FilesInv, FilesApart
      <4>2. \A f \in e.stale : f \notin Pending(s)
        BY <4>1
      <4> QED
        BY <1>1, <1>2, <3>2, <4>2
    <3> QED
      BY <1>2, <3>1, <3>2
  <2>4. ASSUME NEW s \in Requests
        PROVE  Pending(s)' \subseteq files'
    BY <1>1, <1>2 DEF FilesInv, FilesApart
  <2> QED
    BY <2>1, <2>2, <2>3, <2>4 DEF FilesApart
<1>6. FilesAccounted'
  <2>1. \A s \in Requests : InTransaction(s)' => tx'[s].stale = {}
    BY <1>1 DEF FilesInv, FilesAccounted
  <2>2. ASSUME faults' = 0, NEW f \in files'
        PROVE  \/ \E a \in DOMAIN user' : user'[a].avatar = f
               \/ \E s \in Requests : f \in Pending(s)' \cup tx'[s].stale
    <3>1. tx[r].stale = {} /\ f \in Files
      BY <2>2 DEF FilesInv, FilesAccounted, TypeOK
    <3>2. CASE \E a \in DOMAIN user : user[a].avatar = f
      BY <1>1, <1>3, <2>2, <3>1, <3>2
    <3>3. CASE \E s \in Requests : f \in Pending(s) \cup tx[s].stale
      BY <1>1, <1>3, <2>2, <3>1, <3>3
    <3> QED
      BY <2>2, <3>2, <3>3 DEF FilesInv, FilesAccounted
  <2> QED
    BY <2>1, <2>2 DEF FilesAccounted
<1> QED
  BY <1>4, <1>5, <1>6 DEF FilesInv

-----------------------------------------------------------------------------
(* Avatar files through every step.                                        *)

(* What a request asks for is a file only when it uploads one.             *)
LEMMA FilesBegin ==
  ASSUME TypeOK, FilesInv, NEW r \in Requests, NEW op \in Operations,
         NEW stage \in {"adminLock", "row"}, NEW actor, NEW target, NEW change,
         Begin(r, op, stage, actor, target, change),
         \/ change \notin Files /\ files' = files
         \/ change \in Files /\ NeverUsed(change) /\ files' = files \cup {change},
         UNCHANGED <<user, unconfirmed, faults>>
  PROVE  FilesInv'
<1>1. PICK e : e = [op |-> op, stage |-> stage, actor |-> actor, target |-> target,
                    change |-> change, row |-> None, stale |-> {}]
  OBVIOUS
<1>2. /\ tx' = [tx EXCEPT ![r] = e] /\ e.stale = {} /\ UploadOf(e) = {change} \cap Files
      /\ tx[r] = Idle
  BY <1>1 DEF Begin, UploadOf, Running
<1>3. Pending(r) = {} /\ tx[r].stale = {}
  BY <1>2 DEF Pending, InTransaction, At, Idle, Operations, Decisions
<1>4. /\ UploadOf(e) \subseteq files' /\ files \subseteq files'
      /\ \A f \in files' : f \in files \/ f \in UploadOf(e)
      /\ \A f \in UploadOf(e) : NeverUsed(f)
  <2>1. CASE change \notin Files /\ files' = files
    BY <1>2, <2>1
  <2>2. CASE change \in Files /\ NeverUsed(change) /\ files' = files \cup {change}
    BY <1>2, <2>2
  <2> QED
    BY <2>1, <2>2
<1> QED
  BY <1>2, <1>3, <1>4, FilesStep

(* A request that goes on keeps its upload.                                *)
LEMMA FilesGoesOn ==
  ASSUME TypeOK, FilesInv, NEW r \in Requests, InTransaction(r),
         NEW e, tx' = [tx EXCEPT ![r] = e], Running(e),
         e.change = tx[r].change, e.stale = tx[r].stale,
         UNCHANGED <<user, files, unconfirmed, faults>>
  PROVE  FilesInv'
<1>1. tx[r].stale = {}
  BY DEF FilesInv, FilesAccounted
<1>2. UploadOf(e) = Pending(r) /\ Pending(r) \subseteq files
  BY DEF UploadOf, Pending, Upload, FilesInv, FilesApart
<1> QED
  BY <1>1, <1>2, FilesStep

(* Locks are granted and counts taken.                                    *)
LEMMA FilesGoto ==
  ASSUME TypeOK, FilesInv, NEW r \in Requests, InTransaction(r),
         NEW stage \in {"row", "count", "commit"}, Goto(r, stage),
         UNCHANGED <<user, files, unconfirmed, faults>>
  PROVE  FilesInv'
<1>1. PICK op \in Operations : tx[r] \in TxOf(op)
  BY DEF TypeOK, InTransaction, At, Idle, Operations, Decisions
<1>2. PICK e : e = [tx[r] EXCEPT !.stage = stage]
  OBVIOUS
<1>3. Running(e) /\ e.change = tx[r].change /\ e.stale = tx[r].stale
  BY <1>1, <1>2 DEF TxOf, Running
<1>4. tx' = [tx EXCEPT ![r] = e]
  BY <1>2 DEF Goto, TypeOK
<1> QED
  BY <1>3, <1>4, FilesGoesOn

(* A row is read and locked.                                               *)
LEMMA FilesLockRow ==
  ASSUME TypeOK, FilesInv, NEW r \in Requests, LockRow(r)
  PROVE  FilesInv'
<1>1. InTransaction(r)
  BY DEF LockRow, InTransaction, At, Operations
<1>2. PICK op \in Operations : tx[r] \in TxOf(op)
  BY <1>1 DEF TypeOK, InTransaction, At, Idle, Operations, Decisions
<1>3. PICK row : row = user[tx[r].target]
  OBVIOUS
<1>4. PICK stage : stage = IF Reduces(r, row) THEN "count" ELSE "commit"
  OBVIOUS
<1>5. PICK e : e = [tx[r] EXCEPT !.row = row, !.stage = stage]
  OBVIOUS
<1>6. Running(e) /\ e.change = tx[r].change /\ e.stale = tx[r].stale
  BY <1>2, <1>4, <1>5 DEF TxOf, Running
<1>7. tx' = [tx EXCEPT ![r] = e]
  BY <1>3, <1>4, <1>5 DEF LockRow, TypeOK
<1> QED
  BY <1>1, <1>6, <1>7, FilesGoesOn DEF LockRow

(* What Finish leaves the request with.                                    *)
LEMMA FinishedWith ==
  ASSUME TypeOK, NEW r \in Requests, InTransaction(r), NEW stale, Finish(r, stale)
  PROVE  \E e : tx' = [tx EXCEPT ![r] = e] /\ ~Running(e) /\ UploadOf(e) = {} /\ e.stale = stale
<1>1. CASE stale = {}
  <2>1. tx' = [tx EXCEPT ![r] = Idle]
    BY <1>1 DEF Finish
  <2>2. PICK e : e = Idle
    OBVIOUS
  <2>3. ~Running(e) /\ e.stale = {}
    BY <2>2 DEF Idle, Running
  <2> QED
    BY <1>1, <2>1, <2>2, <2>3 DEF UploadOf
<1>2. CASE stale # {}
  <2>1. PICK op \in Operations : tx[r] \in TxOf(op)
    BY DEF TypeOK, InTransaction, At, Idle, Operations, Decisions
  <2>2. PICK e : e = [tx[r] EXCEPT !.stage = "cleanup", !.stale = stale]
    OBVIOUS
  <2>3. e.stage = "cleanup" /\ e.stale = stale
    BY <2>1, <2>2 DEF TxOf
  <2>4. tx' = [tx EXCEPT ![r] = e]
    BY <1>2, <2>2 DEF Finish, TypeOK
  <2> QED
    BY <2>3, <2>4 DEF Running, UploadOf
<1> QED
  BY <1>1, <1>2

(* The upload of a transaction that rolls back is to be removed.           *)
LEMMA FilesRefuse ==
  ASSUME TypeOK, FilesInv, NEW r \in Requests, InTransaction(r), Refuse(r)
  PROVE  FilesInv'
<1>1. Finish(r, Upload(r)) /\ UNCHANGED <<user, files, unconfirmed, faults>>
  BY DEF Refuse
<1>2. PICK e : tx' = [tx EXCEPT ![r] = e] /\ ~Running(e) /\ UploadOf(e) = {} /\ e.stale = Upload(r)
  BY <1>1, FinishedWith
<1>3. tx[r].stale = {} /\ Pending(r) = Upload(r)
  BY DEF FilesInv, FilesAccounted, Pending
<1> QED
  BY <1>1, <1>2, <1>3, FilesStep

(* What is removed is nobody's avatar, or a commit without answer made it  *)
(* one.                                                                    *)
LEMMA FilesCleanUp ==
  ASSUME TypeOK, FilesInv, NEW r \in Requests, CleanUp(r)
  PROVE  FilesInv'
<1>1. PICK e : e = Idle
  OBVIOUS
<1>2. /\ ~Running(e) /\ UploadOf(e) = {} /\ e.stale = {} /\ tx' = [tx EXCEPT ![r] = e]
      /\ files' = files \ tx[r].stale /\ UNCHANGED <<user, unconfirmed, faults>>
  BY <1>1 DEF CleanUp, Running, UploadOf, Idle
<1>3. Pending(r) = {}
  BY DEF CleanUp, Pending, InTransaction, At
<1> QED
  BY <1>2, <1>3, FilesStep

(* A fault leaves files that nobody accounts for, and no avatar without.   *)
LEMMA FilesLose ==
  ASSUME TypeOK, FilesInv, NEW r \in Requests, Lose(r)
  PROVE  FilesInv'
<1>1. PICK e : e = Idle
  OBVIOUS
<1>2. /\ ~Running(e) /\ UploadOf(e) = {} /\ e.stale = {} /\ tx' = [tx EXCEPT ![r] = e]
      /\ UNCHANGED <<user, files, unconfirmed>>
  BY <1>1 DEF Lose, Running, UploadOf, Idle
<1>3. faults' # 0
  BY AccountsAssumption DEF Lose, Fault, TypeOK
<1> QED
  BY <1>2, <1>3, FilesStep

(* The avatar that a commit writes: the upload, or a URL or nothing, or the*)
(* one there is.  A file is replaced only by another avatar.               *)
LEMMA AvatarWritten ==
  ASSUME IndInv, NEW r \in Requests, At(r, Operations, {"commit"}), Write(r)
  PROVE  \E row : LET t == tx[r].target IN
           /\ Saves(t, row)
           /\ \/ /\ t \in DOMAIN user /\ row.avatar = user[t].avatar
                 /\ Upload(r) = {} /\ Replaced(r) = {}
              \/ /\ Upload(r) = {row.avatar} \cap Files
                 /\ t \notin DOMAIN user /\ Replaced(r) = {}
              \/ /\ Upload(r) = {row.avatar} \cap Files
                 /\ t \in DOMAIN user
                 /\ Replaced(r) = IF row.avatar # user[t].avatar THEN {user[t].avatar} \cap Files
                                                                 ELSE {}
<1>1. PICK t : t = tx[r].target
  OBVIOUS
<1>2. tx[r].op \in Operations /\ tx[r] \in TxOf(tx[r].op)
  BY OperationOf DEF IndInv
<1>3. CASE tx[r].op = "register"
  <2>1. PICK row : row = [role |-> "USER", status |-> "ACTIVE", avatar |-> tx[r].change]
    OBVIOUS
  <2>2. t \notin DOMAIN user
    BY <1>1, <1>3 DEF IndInv, EmailIsNew, At
  <2> QED
    BY <1>1, <1>3, <2>1, <2>2 DEF Saves, Write, Upload, Replaced
<1>4. CASE tx[r].op # "register"
  <2>1. t \in DOMAIN user /\ tx[r].row = user[t] /\ user[t] \in User
    BY <1>1, <1>2, <1>4 DEF IndInv, TypeOK, RowIsCurrent, At, Operations
  <2>2. CASE tx[r].op = "profile" /\ tx[r].change = "keep"
    <3>1. PICK row : row = [user[t] EXCEPT !.avatar = user[t].avatar]
      OBVIOUS
    <3>2. Changed(r, user[t]) = user[t] /\ row.avatar = user[t].avatar
      BY <2>1, <2>2, <3>1 DEF Changed, User
    <3>3. Saves(t, row)
      BY <1>1, <2>1, <2>2, <3>1, <3>2 DEF Saves, Write
    <3>4. Upload(r) = {} /\ Replaced(r) = {}
      BY <2>1, <2>2, <3>2, AccountsAssumption DEF Upload, Replaced
    <3> QED
      BY <1>1, <2>1, <3>2, <3>3, <3>4
  <2>3. CASE tx[r].op = "profile" /\ tx[r].change # "keep"
    <3>1. PICK row : row = [user[t] EXCEPT !.avatar = tx[r].change]
      OBVIOUS
    <3>2. Changed(r, user[t]).avatar = tx[r].change /\ row.avatar = tx[r].change
      BY <2>1, <2>3, <3>1 DEF Changed, User
    <3>3. Saves(t, row)
      BY <1>1, <2>1, <2>3, <3>1, <3>2 DEF Saves, Write
    <3>4. /\ Upload(r) = {row.avatar} \cap Files
          /\ Replaced(r) = IF row.avatar # user[t].avatar THEN {user[t].avatar} \cap Files ELSE {}
      BY <2>1, <2>3, <3>2 DEF Upload, Replaced
    <3> QED
      BY <1>1, <2>1, <3>3, <3>4
  <2>4. CASE tx[r].op \in Decisions
    <3>1. PICK row : row = [Changed(r, user[t]) EXCEPT !.avatar = user[t].avatar]
      OBVIOUS
    <3>2. Changed(r, user[t]) \in User
      BY <1>2, <1>4, <2>1, ChangedRow
    <3>3. row.avatar = user[t].avatar
      BY <3>1, <3>2 DEF User
    <3>4. Saves(t, row)
      BY <1>1, <2>1, <2>4, <3>1 DEF Saves, Write, Decisions
    <3>5. tx[r].change \notin Files
      BY <1>2, <2>4, AccountsAssumption DEF TxOf, Changes, Decisions, Role, Status
    <3>6. Upload(r) = {} /\ Replaced(r) = {}
      BY <2>4, <3>5 DEF Upload, Replaced, Decisions
    <3> QED
      BY <1>1, <2>1, <3>3, <3>4, <3>6
  <2> QED
    BY <1>2, <1>4, <2>2, <2>3, <2>4 DEF Operations
<1> QED
  BY <1>3, <1>4

(* A commit with its answer removes what it replaced.                      *)
LEMMA FilesCommitted ==
  ASSUME IndInv, FilesInv, NEW r \in Requests, Commit(r)
  PROVE  FilesInv'
<1>1. /\ TypeOK /\ InTransaction(r) /\ At(r, Operations, {"commit"})
      /\ Write(r) /\ Finish(r, Replaced(r)) /\ UNCHANGED <<files, unconfirmed, faults>>
  BY DEF Commit, IndInv, InTransaction, At
<1>2. PICK e : tx' = [tx EXCEPT ![r] = e] /\ ~Running(e) /\ e.stale = Replaced(r)
  BY <1>1, FinishedWith
<1>3. Pending(r) = Upload(r)
  BY <1>1 DEF Pending
<1>4. PICK t, row :
        /\ Saves(t, row)
        /\ \/ /\ t \in DOMAIN user /\ row.avatar = user[t].avatar
              /\ Upload(r) = {} /\ Replaced(r) = {}
           \/ /\ Upload(r) = {row.avatar} \cap Files
              /\ t \notin DOMAIN user /\ Replaced(r) = {}
           \/ /\ Upload(r) = {row.avatar} \cap Files
              /\ t \in DOMAIN user
              /\ Replaced(r) = IF row.avatar # user[t].avatar THEN {user[t].avatar} \cap Files
                                                              ELSE {}
  BY <1>1, AvatarWritten
<1>5. row.avatar \in Files =>
        row.avatar \in Pending(r) \/ (t \in DOMAIN user /\ row.avatar = user[t].avatar)
  BY <1>3, <1>4
<1>6. \A f \in Replaced(r) :
        t \in DOMAIN user /\ f = user[t].avatar /\ f \in Files /\ f # row.avatar
  BY <1>4
<1>7. /\ Pending(r) \subseteq {row.avatar}
      /\ t \in DOMAIN user /\ user[t].avatar \in Files =>
           user[t].avatar = row.avatar \/ user[t].avatar \in Replaced(r)
  BY <1>3, <1>4
<1>8. /\ files' = files /\ unconfirmed \subseteq unconfirmed'
      /\ faults' = 0 => faults = 0
  BY <1>1
<1>9. \A f \in e.stale :
        \/ f \in Pending(r) /\ f \in unconfirmed'
        \/ t \in DOMAIN user /\ f = user[t].avatar /\ f \in Files /\ f # row.avatar
  BY <1>2, <1>6
<1>10. faults' = 0 =>
         /\ faults = 0
         /\ Pending(r) \subseteq {row.avatar}
         /\ t \in DOMAIN user /\ user[t].avatar \in Files =>
              user[t].avatar = row.avatar \/ user[t].avatar \in e.stale
  BY <1>2, <1>7, <1>8
<1>11. TypeOK /\ InTransaction(r) /\ Saves(t, row)
  BY <1>1, <1>4
<1> QED
  BY <1>2, <1>5, <1>8, <1>9, <1>10, <1>11, FilesCommit

(* A commit without an answer removes the file that it wrote.             *)
LEMMA FilesUnconfirmed ==
  ASSUME IndInv, FilesInv, NEW r \in Requests, CommitUnconfirmed(r)
  PROVE  FilesInv'
<1>1. /\ TypeOK /\ InTransaction(r) /\ At(r, Operations, {"commit"})
      /\ Write(r) /\ Finish(r, Upload(r))
      /\ unconfirmed' = unconfirmed \cup Upload(r) /\ files' = files
  BY DEF CommitUnconfirmed, IndInv, InTransaction, At
<1>2. PICK e : tx' = [tx EXCEPT ![r] = e] /\ ~Running(e) /\ e.stale = Upload(r)
  BY <1>1, FinishedWith
<1>3. Pending(r) = Upload(r)
  BY <1>1 DEF Pending
<1>4. PICK t, row :
        /\ Saves(t, row)
        /\ \/ t \in DOMAIN user /\ row.avatar = user[t].avatar
           \/ Upload(r) = {row.avatar} \cap Files
  BY <1>1, AvatarWritten
<1>5. row.avatar \in Files =>
        row.avatar \in Pending(r) \/ (t \in DOMAIN user /\ row.avatar = user[t].avatar)
  BY <1>3, <1>4
<1>6. faults' # 0
  BY <1>1, AccountsAssumption DEF CommitUnconfirmed, Fault, TypeOK
<1>7. \A f \in e.stale : f \in Pending(r) /\ f \in unconfirmed'
  BY <1>1, <1>2, <1>3
<1>8. TypeOK /\ InTransaction(r) /\ Saves(t, row) /\ unconfirmed \subseteq unconfirmed'
  BY <1>1, <1>4
<1> QED
  BY <1>1, <1>2, <1>5, <1>6, <1>7, <1>8, FilesCommit

(* The steps of a handler.                                                 *)
LEMMA FilesHandler ==
  ASSUME IndInv, FilesInv, NEW r \in Requests, Handler(r)
  PROVE  FilesInv'
<1>1. TypeOK
  BY DEF IndInv
<1>2. CASE \/ \E a, t \in Accounts, c \in Role : BeginDecision(r, "role", a, t, c)
           \/ \E a, t \in Accounts, c \in Status : BeginDecision(r, "status", a, t, c)
  <2>1. \A c \in Role \cup Status : c \notin Files
    BY AccountsAssumption DEF Role, Status
  <2>2. "role" \in Operations /\ "status" \in Operations
    BY DEF Operations, Decisions
  <2> QED
    BY <1>1, <1>2, <2>1, <2>2, FilesBegin DEF BeginDecision
<1>3. CASE \E a \in Accounts : UpdateProfile(r, a) \/ Register(r, a)
  <2>1. \A c \in {External, None, "keep"} : c \notin Files
    BY AccountsAssumption
  <2>2. "profile" \in Operations /\ "register" \in Operations
    BY DEF Operations, Decisions
  <2>3. ASSUME NEW op \in Operations, NEW a \in Accounts, NEW f \in Files,
               BeginWithUpload(r, op, a, f)
        PROVE  FilesInv'
    BY <1>1, <2>3, FilesBegin DEF BeginWithUpload
  <2>4. ASSUME NEW op \in Operations, NEW a \in Accounts, NEW c \in {External, None, "keep"},
               BeginWithout(r, op, a, c)
        PROVE  FilesInv'
    BY <1>1, <2>1, <2>4, FilesBegin DEF BeginWithout
  <2> QED
    BY <1>3, <2>2, <2>3, <2>4 DEF UpdateProfile, Register
<1>4. CASE TakeAdminLock(r) \/ CountAdmins(r) \/ InsertUser(r)
  BY <1>1, <1>4, FilesGoto DEF TakeAdminLock, CountAdmins, InsertUser, InTransaction, At, Operations
<1>5. CASE RefuseRow(r) \/ RefuseLastAdmin(r) \/ EmailTaken(r)
  BY <1>1, <1>5, FilesRefuse DEF RefuseRow, RefuseLastAdmin, EmailTaken, InTransaction, At,
     Operations
<1> QED
  BY <1>1, <1>2, <1>3, <1>4, <1>5, FilesLockRow, FilesCommitted, FilesCleanUp DEF Handler

(* No avatar is missing and none is shared, and a file nobody needs is     *)
(* about to be removed.                                                    *)
LEMMA FilesInductive ==
  Spec => []FilesInv
<1>1. Init => FilesInv
  <2> SUFFICES ASSUME Init PROVE FilesInv
    OBVIOUS
  <2>1. \A r \in Requests : tx[r].stale = {} /\ ~InTransaction(r)
    BY DEF Init, Idle, InTransaction, At, Operations, Decisions
  <2>2. \A r \in Requests : Pending(r) = {}
    BY <2>1 DEF Pending
  <2>3. \A a \in DOMAIN user : user[a].avatar \notin Files
    BY AccountsAssumption DEF Init
  <2> QED
    BY <2>1, <2>2, <2>3 DEF Init, FilesInv, AvatarHasFile, FilesApart, FilesAccounted
<1>2. IndInv /\ FilesInv /\ [Next]_vars => FilesInv'
  <2> SUFFICES ASSUME IndInv, FilesInv, [Next]_vars
               PROVE  FilesInv'
    OBVIOUS
  <2>1. CASE UNCHANGED vars
    BY <2>1 DEF vars, FilesInv, AvatarHasFile, FilesApart, FilesAccounted, Pending, Upload,
                InTransaction, At
  <2>2. CASE Next
    BY <2>2, FilesHandler, FilesRefuse, FilesUnconfirmed, FilesLose DEF Next, Fail, IndInv
  <2> QED
    BY <2>1, <2>2
<1> QED
  BY <1>1, <1>2, Inductive, PTL DEF Spec

(* The avatar of an account is a file that exists, whoever replaces it at  *)
(* the same time and whatever fails, but for a commit whose answer is lost.*)
THEOREM AvatarsExist ==
  Spec => []AvatarHasFile
BY FilesInductive, PTL DEF FilesInv

(* When all requests have ended and no fault has occurred, every file is an*)
(* avatar.                                                                 *)
THEOREM NothingIsLeft ==
  Spec => []NoLeftovers
<1>1. FilesInv => NoLeftovers
  <2> SUFFICES ASSUME FilesInv, faults = 0, \A r \in Requests : tx[r] = Idle, NEW f \in files
               PROVE  \E a \in DOMAIN user : user[a].avatar = f
    BY DEF NoLeftovers
  <2>1. \A r \in Requests : f \notin Pending(r) \cup tx[r].stale
    BY DEF Idle, Pending, InTransaction, At, Operations, Decisions
  <2> QED
    BY <2>1 DEF FilesInv, FilesAccounted
<1> QED
  BY <1>1, FilesInductive, PTL
=============================================================================

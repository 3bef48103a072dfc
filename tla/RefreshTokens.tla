--------------------------- MODULE RefreshTokens ---------------------------
(***************************************************************************)
(* The refresh tokens of AuthService: login, refresh with its rotation and *)
(* its answer to a token that was used before, and logout, on the pool of  *)
(* connections that the service shares.                                    *)
(*                                                                         *)
(* A request is a record in tx, one step per statement.  PostgreSQL runs   *)
(* READ COMMITTED: an UPDATE picks its rows when it starts, waits for the  *)
(* lock of each, and does not see a row that was committed meanwhile.  A   *)
(* transaction holds one connection from BEGIN to COMMIT and a statement   *)
(* outside one holds it while it runs; refresh reads the user outside its  *)
(* transaction, on a second connection (auth.service.ts:125).              *)
(***************************************************************************)
EXTENDS Integers, FiniteSets

CONSTANTS
  Requests,  \* requests the API serves at the same time
  Users,     \* accounts
  Tokens,    \* supply of refresh tokens
  PoolSize,  \* connections in the pool
  None       \* null, and a string that is no token's

ASSUME ConstantsAssumption ==
  /\ None \notin Tokens \cup Users
  /\ IsFiniteSet(Requests)
  /\ PoolSize \in Nat \ {0}

VARIABLES
  token,   \* refresh_tokens: id -> row
  active,  \* users.status of each account is ACTIVE
  tx       \* what each request is doing

vars == <<token, active, tx>>

(* parent and origin are history: the token a refresh exchanged, and the   *)
(* login a token goes back to.  The code has only the family.              *)
Token == [user : Users, family : Tokens, revoked : BOOLEAN, expired : BOOLEAN,
          parent : Tokens \cup {None}, origin : Tokens]

Idle == [op |-> "none", stage |-> "idle", user |-> None, subject |-> None,
         locks |-> {}, rows |-> {}, seen |-> {}]

Stages(op) ==
  IF op = "login" THEN {"readUser", "save"}
  ELSE IF op = "logout" THEN {"connect", "update"}
  ELSE {"connect", "lock", "readUser", "commit", "revokeFamily"}

(* subject: the token that was presented.  rows: what an UPDATE of the     *)
(* family has still to visit.  seen (history): the tokens there were when  *)
(* it started.                                                             *)
TxOf(op) ==
  [op : {op}, stage : Stages(op), user : Users \cup {None},
   subject : Tokens \cup {None},
   locks : SUBSET Tokens, rows : SUBSET Tokens, seen : SUBSET Tokens]

Begin(r, op, stage, user, subject) ==
  /\ tx[r] = Idle
  /\ tx' = [tx EXCEPT ![r] = [op |-> op, stage |-> stage, user |-> user,
                              subject |-> subject, locks |-> {}, rows |-> {},
                              seen |-> {}]]
  /\ UNCHANGED <<token, active>>

At(r, op, stage) == tx[r].op = op /\ tx[r].stage = stage

Goto(r, stage) ==
  /\ tx' = [tx EXCEPT ![r].stage = stage]
  /\ UNCHANGED <<token, active>>

(* COMMIT, ROLLBACK or the end of a statement: the locks and the           *)
(* connection are given back.                                              *)
End(r) == tx' = [tx EXCEPT ![r] = Idle]

(* The callback of refresh returns null: COMMIT of a transaction that wrote*)
(* nothing.                                                                *)
Refuse(r) == End(r) /\ UNCHANGED <<token, active>>

-----------------------------------------------------------------------------
(* Connections and row locks.                                              *)

HasConnection(r) ==
  \/ tx[r].op = "refresh" /\ tx[r].stage # "connect"
  \/ At(r, "logout", "update")

FreeConnection == Cardinality({r \in Requests : HasConnection(r)}) < PoolSize

(* Mutant: the row is read without FOR UPDATE.                             *)
ReadUnlocked(r, t) == TRUE

Free(r, t) == \A s \in Requests \ {r} : t \notin tx[s].locks

Live(t) == ~token[t].revoked

Family(t) == {x \in DOMAIN token : token[x].family = token[t].family}

(* Mutant: the UPDATE also takes the tokens that are revoked.              *)
WholeFamily(t) == Family(t)

(* The WHERE clause of the UPDATE that ends a session.                     *)
Revocable(t) == {x \in Family(t) : Live(x)}

(* The row that a request will lock next, if it waits for one.             *)
Wanted(r) ==
  IF At(r, "refresh", "lock") THEN {tx[r].subject} \ {None}
  ELSE IF At(r, "refresh", "revokeFamily") THEN tx[r].rows
  ELSE IF At(r, "logout", "update") THEN {t \in {tx[r].subject} \ {None} : Live(t)}
  ELSE {}

(* r waits for a row that s has locked.                                    *)
WaitsFor(r, s) == r # s /\ Wanted(r) \cap tx[s].locks # {}

(* A refresh waits for a second connection while every connection is held  *)
(* by such a refresh or by a request that waits for a row lock.            *)
PoolExhausted ==
  /\ ~FreeConnection
  /\ \E r \in Requests : At(r, "refresh", "readUser")
  /\ \A r \in Requests : HasConnection(r) =>
       At(r, "refresh", "readUser") \/ \E s \in Requests : WaitsFor(r, s)

(* The bound of the supply: a login, and a live token that is presented,   *)
(* leave an unused token for each other one that may still be followed by  *)
(* a new one.                                                              *)
Supplied(x) ==
  Cardinality({r \in Requests : tx[r].op = "login"}
              \cup {t \in DOMAIN token :
                      Live(t) /\ \E r \in Requests : tx[r].op = "refresh" /\ tx[r].subject = t}
              \cup {x})
    <= Cardinality(Tokens \ DOMAIN token)

(* randomBytes and randomUUID: an id that was not used before.             *)
Unused == CHOOSE n \in Tokens : n \notin DOMAIN token

-----------------------------------------------------------------------------
Init ==
  /\ token = [t \in {} |-> {}]
  /\ active \in [Users -> BOOLEAN]
  /\ tx = [r \in Requests |-> Idle]

(* Mutant: refresh does not hand the family on, and a new one is made.     *)
NewFamily(r, n) ==
  [user |-> tx[r].user, family |-> n, revoked |-> FALSE, expired |-> FALSE,
   parent |-> tx[r].subject,
   origin |-> IF tx[r].subject = None THEN n ELSE token[tx[r].subject].origin]

(* issueTokenPair: a login starts a family, a refresh hands its own on.    *)
Issued(r, n) ==
  [user |-> tx[r].user,
   family |-> IF tx[r].subject = None THEN n ELSE token[tx[r].subject].family,
   revoked |-> FALSE, expired |-> FALSE, parent |-> tx[r].subject,
   origin |-> IF tx[r].subject = None THEN n ELSE token[tx[r].subject].origin]

(* Mutant: the token that was exchanged is not revoked.                    *)
LeaveLive(table, S) == table

Revoke(table, S) ==
  [t \in DOMAIN table |-> IF t \in S THEN [table[t] EXCEPT !.revoked = TRUE] ELSE table[t]]

Insert(table, t, row) ==
  [x \in DOMAIN table \cup {t} |-> IF x = t THEN row ELSE table[x]]

-----------------------------------------------------------------------------
(* AuthService.login: two statements, each on its own.                     *)

Login(r, u) == Supplied(r) /\ Begin(r, "login", "readUser", u, None)

(* findByEmail and the checks of status and password.                      *)
ReadLoginUser(r) ==
  /\ At(r, "login", "readUser")
  /\ FreeConnection
  /\ active[tx[r].user]
  /\ Goto(r, "save")

(* No such account, another password, or a blocked one.                    *)
RefuseLogin(r) ==
  /\ At(r, "login", "readUser")
  /\ FreeConnection
  /\ End(r)
  /\ UNCHANGED <<token, active>>

SaveLogin(r) ==
  /\ At(r, "login", "save")
  /\ FreeConnection
  /\ Unused \in Tokens \ DOMAIN token
  /\ token' = Insert(token, Unused, Issued(r, Unused))
  /\ End(r)
  /\ UNCHANGED active

-----------------------------------------------------------------------------
(* AuthService.refresh                                                     *)

Refresh(r, t) ==
  /\ t # None => (Live(t) => Supplied(t))
  /\ Begin(r, "refresh", "connect", None, t)

(* dataSource.transaction takes its connection.                            *)
Connect(r) ==
  /\ At(r, "refresh", "connect")
  /\ FreeConnection
  /\ Goto(r, "lock")

(* SELECT ... FOR UPDATE of the row with this hash, which has not expired  *)
(* and is not revoked.                                                     *)
LockToken(r) ==
  /\ At(r, "refresh", "lock")
  /\ LET t == tx[r].subject IN
       /\ t # None
       /\ Free(r, t)
       /\ ~token[t].expired
       /\ Live(t)
       /\ tx' = [tx EXCEPT ![r].stage = "readUser", ![r].locks = {t},
                           ![r].user = token[t].user]
  /\ UNCHANGED <<token, active>>

(* It has been used or given up before: the UPDATE of its family starts,   *)
(* with the rows that are live now.                                        *)
DetectReuse(r) ==
  /\ At(r, "refresh", "lock")
  /\ LET t == tx[r].subject IN
       /\ t # None
       /\ Free(r, t)
       /\ ~token[t].expired
       /\ ~Live(t)
       /\ tx' = [tx EXCEPT ![r].stage = "revokeFamily", ![r].locks = {t},
                           ![r].rows = Revocable(t),
                           ![r].seen = DOMAIN token]
  /\ UNCHANGED <<token, active>>

(* There is no such token, or it has expired.                              *)
RefuseToken(r) ==
  /\ At(r, "refresh", "lock")
  /\ tx[r].subject # None => Free(r, tx[r].subject) /\ token[tx[r].subject].expired
  /\ Refuse(r)

(* The UPDATE locks a row, waiting for a refresh that is exchanging it.    *)
VisitRow(r, x) ==
  /\ At(r, "refresh", "revokeFamily")
  /\ x \in tx[r].rows
  /\ Free(r, x)
  /\ tx' = [tx EXCEPT ![r].locks = tx[r].locks \cup {x}, ![r].rows = tx[r].rows \ {x}]
  /\ UNCHANGED <<token, active>>

CommitReuse(r) ==
  /\ At(r, "refresh", "revokeFamily")
  /\ tx[r].rows = {}
  /\ token' = Revoke(token, tx[r].locks)
  /\ End(r)
  /\ UNCHANGED active

(* usersService.findById, on another connection of the pool.               *)
ReadUser(r) ==
  /\ At(r, "refresh", "readUser")
  /\ FreeConnection
  /\ active[tx[r].user]
  /\ Goto(r, "commit")

RefuseUser(r) ==
  /\ At(r, "refresh", "readUser")
  /\ FreeConnection
  /\ ~active[tx[r].user]
  /\ Refuse(r)

(* The token is revoked and its successor inserted in one transaction.     *)
CommitRefresh(r) ==
  /\ At(r, "refresh", "commit")
  /\ Unused \in Tokens \ DOMAIN token
  /\ token' = Insert(Revoke(token, {tx[r].subject}), Unused, Issued(r, Unused))
  /\ End(r)
  /\ UNCHANGED active

-----------------------------------------------------------------------------
(* AuthService.logout: one UPDATE of the row with this hash.               *)

Logout(r, t) == Begin(r, "logout", "connect", None, t)

StartLogout(r) ==
  /\ At(r, "logout", "connect")
  /\ FreeConnection
  /\ Goto(r, "update")

FinishLogout(r) ==
  /\ At(r, "logout", "update")
  /\ LET t == tx[r].subject IN t # None => Free(r, t) \/ ~Live(t)
  /\ token' = Revoke(token, {tx[r].subject})
  /\ End(r)
  /\ UNCHANGED active

-----------------------------------------------------------------------------
(* A crash or a lost connection rolls back; it may also hide the answer of *)
(* a commit, after which the client presents a token that was exchanged.   *)
Abort(r) == tx[r] # Idle /\ End(r) /\ UNCHANGED <<token, active>>

(* Time passes.  Every token has the same time to live: a successor does   *)
(* not expire before the token it replaced.                                *)
Expire(t) ==
  /\ t \in DOMAIN token
  /\ token[t].parent # None => token[token[t].parent].expired
  /\ token' = [token EXCEPT ![t].expired = TRUE]
  /\ UNCHANGED <<active, tx>>

(* An administrator blocks or unblocks an account.                         *)
ChangeStatus(u) ==
  /\ active' = [active EXCEPT ![u] = ~active[u]]
  /\ UNCHANGED <<token, tx>>

(* What a request that has begun does next.                                *)
Proceed(r) ==
  \/ ReadLoginUser(r) \/ RefuseLogin(r) \/ SaveLogin(r)
  \/ Connect(r) \/ LockToken(r) \/ DetectReuse(r) \/ RefuseToken(r)
  \/ CommitReuse(r) \/ ReadUser(r) \/ RefuseUser(r) \/ CommitRefresh(r)
  \/ StartLogout(r) \/ FinishLogout(r)
  \/ \E x \in Tokens : VisitRow(r, x)

Arrive(r) ==
  \/ \E u \in Users : Login(r, u)
  \/ \E t \in DOMAIN token \cup {None} : Refresh(r, t) \/ Logout(r, t)

Next ==
  \/ \E r \in Requests : Arrive(r) \/ Proceed(r) \/ Abort(r)
  \/ \E t \in Tokens : Expire(t)
  \/ \E u \in Users : ChangeStatus(u)

Spec == Init /\ [][Next]_vars

(* The pool hands out its connections and the database its row locks in    *)
(* the order in which they were asked for.                                 *)
FairSpec == Spec /\ \A r \in Requests : SF_vars(Proceed(r))

-----------------------------------------------------------------------------
(* Properties.                                                             *)

TypeOK ==
  /\ \E T \in SUBSET Tokens : token \in [T -> Token]
  /\ active \in [Users -> BOOLEAN]
  /\ tx = [r \in Requests |-> tx[r]]
  /\ \A r \in Requests : tx[r] = Idle \/ \E op \in {"login", "refresh", "logout"} : tx[r] \in TxOf(op)

(* Two requests never hold the lock of one row.                            *)
LocksExclusive ==
  \A r, s \in Requests : r # s => tx[r].locks \cap tx[s].locks = {}

(* A token that was presented exists, and so does what is locked.          *)
SubjectsExist ==
  \A r \in Requests :
    /\ tx[r].subject # None => tx[r].subject \in DOMAIN token
    /\ tx[r].locks \cup tx[r].rows \cup tx[r].seen \subseteq DOMAIN token

(* A refresh that is past its check holds the row, and it is still live.   *)
SubjectIsLive ==
  \A r \in Requests : At(r, "refresh", "readUser") \/ At(r, "refresh", "commit") =>
    /\ tx[r].subject # None
    /\ tx[r].subject \in tx[r].locks
    /\ Live(tx[r].subject)
    /\ tx[r].user = token[tx[r].subject].user

(* An UPDATE of a family has before it, or holds, every token that it saw  *)
(* and that is still live.                                                 *)
FamilyCovered ==
  \A r \in Requests : At(r, "refresh", "revokeFamily") =>
    /\ tx[r].subject # None
    /\ \A t \in tx[r].seen :
         token[t].family = token[tx[r].subject].family /\ Live(t)
           => t \in tx[r].rows \cup tx[r].locks

(* A login issues for the account it has read, an exchange for no account. *)
LoginsStartFamilies ==
  \A r \in Requests : tx[r].op = "login" => tx[r].subject = None /\ tx[r].user # None

(* A token that was exchanged is revoked, and its successor belongs to the *)
(* same account and family, which goes back to the same login.             *)
Lineage ==
  \A t \in DOMAIN token :
    /\ token[t].origin \in DOMAIN token
    /\ token[t].family = token[t].origin
    /\ token[t].parent # None =>
         /\ token[t].parent \in DOMAIN token
         /\ ~Live(token[t].parent)
         /\ token[token[t].parent].user = token[t].user
         /\ token[token[t].parent].origin = token[t].origin

(* Each token is exchanged at most once, whoever presents it at the same   *)
(* time and however often (auth.e2e-spec: "allows only one concurrent      *)
(* refresh").                                                              *)
RotatedOnce ==
  \A x, y \in DOMAIN token :
    token[x].parent = token[y].parent /\ token[x].parent # None => x = y

(* A family is a chain: it has one last token.                             *)
OneTip ==
  \A x, y \in DOMAIN token :
    token[x].family = token[y].family /\ (\A z \in DOMAIN token : token[z].parent \notin {x, y})
      => x = y

(* What rotation relies on: the row lock keeps a token live and unexchanged*)
(* from the check to the commit, so that the tokens of a login form a chain*)
(* of exchanged tokens and one last one.                                   *)
IndInv ==
  /\ TypeOK
  /\ LocksExclusive
  /\ SubjectsExist
  /\ SubjectIsLive
  /\ FamilyCovered
  /\ LoginsStartFamilies
  /\ Lineage
  /\ RotatedOnce
  /\ OneTip

(* However many requests exchange, reuse and give up the tokens of a login *)
(* at once, at most one of them can still be exchanged.                    *)
OneLivePerFamily ==
  \A x, y \in DOMAIN token :
    token[x].origin = token[y].origin /\ Live(x) /\ Live(y) => x = y

(* Presenting a token that was exchanged or given up ends the session: of  *)
(* the tokens that go back to the same login, all those are revoked which  *)
(* were issued before the UPDATE of the family started.  (One that another *)
(* refresh issues while that UPDATE waits for it stays live.)              *)
ReuseEndsFamily ==
  [][\A r \in Requests : CommitReuse(r) =>
       \A t \in tx[r].seen :
         token[t].origin = token[tx[r].subject].origin => token'[t].revoked]_vars

(* Row locks alone never make requests wait in a circle: in every group of *)
(* them there is one that waits for no row of another.  A refresh holds one*)
(* row and waits for none, and of two answers to a reused token the one    *)
(* that holds what the other waits for has started later.                  *)
NoRowDeadlock ==
  \A S \in (SUBSET Requests) \ {{}} : \E r \in S : \A s \in S : ~WaitsFor(r, s)

(* No request waits for ever, but for one reason: a refresh needs a second *)
(* connection of the pool while all are held by such refreshes and by the  *)
(* requests behind their row locks.  Short of that, the row locks of       *)
(* refresh, of the answer to a reused token and of logout never leave      *)
(* requests waiting for each other.                                        *)
Answered ==
  []<>~PoolExhausted => \A r \in Requests : tx[r] # Idle ~> tx[r] = Idle
=============================================================================

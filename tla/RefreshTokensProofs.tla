------------------------ MODULE RefreshTokensProofs ------------------------
(***************************************************************************)
(* Proofs about RefreshTokens, for every set of requests, accounts and     *)
(* tokens and every size of the pool.                                      *)
(***************************************************************************)
EXTENDS RefreshTokens, FiniteSetTheorems, WellFoundedInduction, TLAPS

Operations == {"login", "refresh", "logout"}

(* What IndInv says of one request e, with a table of tokens.              *)
Sound(table, e) ==
  /\ e.subject # None => e.subject \in DOMAIN table
  /\ e.locks \cup e.rows \cup e.seen \subseteq DOMAIN table
  /\ e.op = "refresh" /\ e.stage \in {"readUser", "commit"} =>
       /\ e.subject # None
       /\ e.subject \in e.locks
       /\ ~table[e.subject].revoked
       /\ e.user = table[e.subject].user
  /\ e.op = "refresh" /\ e.stage = "revokeFamily" =>
       /\ e.subject # None
       /\ \A t \in e.seen :
            table[t].family = table[e.subject].family /\ ~table[t].revoked
              => t \in e.rows \cup e.locks
  /\ e.op = "login" => e.subject = None /\ e.user # None

-----------------------------------------------------------------------------
(* Lemmas on operators.                                                    *)

(* IndInv, taken apart by requests.                                        *)
LEMMA TakenApart ==
  ASSUME IndInv
  PROVE  \A r \in Requests : Sound(token, tx[r])
BY DEF IndInv, SubjectsExist, SubjectIsLive, FamilyCovered, LoginsStartFamilies, Sound, At, Live

(* The same for the next state, put together.                              *)
LEMMA PutTogether ==
  ASSUME TypeOK', LocksExclusive', \A r \in Requests : Sound(token', tx'[r]),
         Lineage', RotatedOnce', OneTip'
  PROVE  IndInv'
<1>1. SubjectsExist'
  BY DEF SubjectsExist, Sound
<1>2. SubjectIsLive'
  BY DEF SubjectIsLive, Sound, At, Live
<1>3. FamilyCovered'
  BY DEF FamilyCovered, Sound, At, Live
<1>4. LoginsStartFamilies'
  BY DEF LoginsStartFamilies, Sound
<1> QED
  BY <1>1, <1>2, <1>3, <1>4 DEF IndInv

(* An idle request claims nothing.                                         *)
LEMMA IdleIsSound ==
  ASSUME NEW table
  PROVE  Sound(table, Idle)
BY DEF Sound, Idle

(* What revoking does to a table.                                          *)
LEMMA Revoking ==
  ASSUME NEW T \in SUBSET Tokens, NEW table \in [T -> Token], NEW S
  PROVE  /\ Revoke(table, S) \in [T -> Token]
         /\ \A t \in T : /\ Revoke(table, S)[t].user = table[t].user
                         /\ Revoke(table, S)[t].family = table[t].family
                         /\ Revoke(table, S)[t].parent = table[t].parent
                         /\ Revoke(table, S)[t].origin = table[t].origin
                         /\ table[t].revoked => Revoke(table, S)[t].revoked
                         /\ t \in S => Revoke(table, S)[t].revoked
                         /\ Revoke(table, S)[t].revoked => table[t].revoked \/ t \in S
<1> DEFINE new == Revoke(table, S)
<1>1. DOMAIN new = T
  BY DEF Revoke
<1>2. ASSUME NEW t \in T
      PROVE  /\ new[t] \in Token
             /\ new[t].user = table[t].user /\ new[t].family = table[t].family
             /\ new[t].parent = table[t].parent /\ new[t].origin = table[t].origin
             /\ table[t].revoked => new[t].revoked
             /\ t \in S => new[t].revoked
             /\ new[t].revoked => table[t].revoked \/ t \in S
  <2>1. table[t] \in Token
    OBVIOUS
  <2>2. new[t] = IF t \in S THEN [table[t] EXCEPT !.revoked = TRUE] ELSE table[t]
    BY DEF Revoke
  <2>3. CASE t \in S
    BY <2>1, <2>2, <2>3 DEF Token
  <2>4. CASE t \notin S
    BY <2>1, <2>2, <2>4
  <2> QED
    BY <2>3, <2>4
<1>3. new \in [T -> Token]
  BY <1>1, <1>2 DEF Revoke
<1> QED
  BY <1>2, <1>3

(* The same for one token, which is revoked before or is one of S.         *)
LEMMA RevokingRevokes ==
  ASSUME NEW T \in SUBSET Tokens, NEW table \in [T -> Token], NEW S, NEW t \in T,
         table[t].revoked \/ t \in S
  PROVE  Revoke(table, S)[t].revoked
<1>1. table[t] \in Token
  OBVIOUS
<1>2. Revoke(table, S)[t]
        = IF t \in S THEN [table[t] EXCEPT !.revoked = TRUE] ELSE table[t]
  BY DEF Revoke
<1>3. CASE t \in S
  BY <1>1, <1>2, <1>3 DEF Token
<1>4. CASE t \notin S
  BY <1>2, <1>4
<1> QED
  BY <1>3, <1>4

-----------------------------------------------------------------------------
(* Steps that leave the table alone.                                       *)

(* A step of r that changes only what r is doing.                          *)
LEMMA LocalStep ==
  ASSUME IndInv, NEW r \in Requests, NEW e,
         tx' = [tx EXCEPT ![r] = e], UNCHANGED <<token, active>>,
         e = Idle \/ \E op \in Operations : e \in TxOf(op),
         \A s \in Requests \ {r} : e.locks \cap tx[s].locks = {},
         Sound(token, e)
  PROVE  IndInv'
<1>1. tx'[r] = e /\ \A s \in Requests \ {r} : tx'[s] = tx[s]
  BY DEF IndInv, TypeOK
<1>2. TypeOK'
  BY <1>1 DEF IndInv, TypeOK, Operations
<1>3. LocksExclusive'
  BY <1>1 DEF IndInv, LocksExclusive
<1>4. \A s \in Requests : Sound(token', tx'[s])
  BY <1>1, TakenApart
<1>5. Lineage' /\ RotatedOnce' /\ OneTip'
  BY DEF IndInv, Lineage, RotatedOnce, OneTip, Live
<1> QED
  BY <1>2, <1>3, <1>4, <1>5, PutTogether

(* The end of a request that writes nothing.                               *)
LEMMA EndStep ==
  ASSUME IndInv, NEW r \in Requests, End(r), UNCHANGED <<token, active>>
  PROVE  IndInv'
<1>1. Idle.locks = {}
  BY DEF Idle
<1> QED
  BY <1>1, LocalStep, IdleIsSound DEF End

(* The beginning of a request.                                             *)
LEMMA BeginStep ==
  ASSUME IndInv, NEW r \in Requests, NEW op \in Operations, NEW stage \in Stages(op),
         NEW user \in Users \cup {None}, NEW subject \in DOMAIN token \cup {None},
         Begin(r, op, stage, user, subject),
         stage \notin {"readUser", "commit", "revokeFamily"} \/ op = "login",
         op = "login" => subject = None /\ user # None
  PROVE  IndInv'
<1> DEFINE e == [op |-> op, stage |-> stage, user |-> user, subject |-> subject,
                 locks |-> {}, rows |-> {}, seen |-> {}]
<1>1. tx' = [tx EXCEPT ![r] = e] /\ UNCHANGED <<token, active>>
  BY DEF Begin
<1>2. DOMAIN token \subseteq Tokens
  BY DEF IndInv, TypeOK
<1>3. e \in TxOf(op)
  BY <1>2 DEF TxOf
<1>4. Sound(token, e)
  BY DEF Sound, Operations
<1> QED
  BY <1>1, <1>3, <1>4, LocalStep

(* Going on to the next statement, with what was found out before.         *)
LEMMA GotoStep ==
  ASSUME IndInv, NEW r \in Requests, NEW op \in Operations, NEW stage \in Stages(op),
         tx[r].op = op, Goto(r, stage), stage # "revokeFamily",
         stage \in {"readUser", "commit"} /\ op = "refresh" => tx[r].stage = "readUser"
  PROVE  IndInv'
<1> DEFINE e == [tx[r] EXCEPT !.stage = stage]
<1>1. tx[r] # Idle
  BY DEF Idle, Operations
<1>2. tx[r] \in TxOf(op)
  BY <1>1 DEF IndInv, TypeOK, TxOf
<1>3. tx' = [tx EXCEPT ![r] = e] /\ UNCHANGED <<token, active>>
  BY DEF Goto, IndInv, TypeOK
<1>4. e \in TxOf(op) /\ e.op = op /\ e.stage = stage /\ e.user = tx[r].user
      /\ e.subject = tx[r].subject /\ e.locks = tx[r].locks /\ e.rows = tx[r].rows
      /\ e.seen = tx[r].seen
  BY <1>2 DEF TxOf
<1>5. Sound(token, e)
  BY <1>4, TakenApart DEF Sound
<1>6. \A s \in Requests \ {r} : e.locks \cap tx[s].locks = {}
  BY <1>4 DEF IndInv, LocksExclusive
<1> QED
  BY <1>3, <1>4, <1>5, <1>6, LocalStep

(* A refresh of a live token gets its row.                                 *)
LEMMA LockTokenStep ==
  ASSUME IndInv, NEW r \in Requests, LockToken(r)
  PROVE  IndInv'
<1> DEFINE t == tx[r].subject
<1> DEFINE e == [tx[r] EXCEPT !.stage = "readUser", !.locks = {t}, !.user = token[t].user]
<1>1. tx[r] \in TxOf("refresh")
  BY DEF IndInv, TypeOK, LockToken, At, Idle, TxOf
<1>2. PICK T \in SUBSET Tokens : token \in [T -> Token]
  BY DEF IndInv, TypeOK
<1>3. t # None /\ t \in T /\ Live(t) /\ Free(r, t)
  BY <1>2 DEF LockToken, IndInv, SubjectsExist
<1>4. tx' = [tx EXCEPT ![r] = e] /\ UNCHANGED <<token, active>>
  BY DEF LockToken, IndInv, TypeOK
<1>5. token[t].user \in Users
  BY <1>2, <1>3 DEF Token
<1>6. e \in TxOf("refresh") /\ e.op = "refresh" /\ e.stage = "readUser" /\ e.locks = {t}
      /\ e.user = token[t].user /\ e.subject = t /\ e.rows = tx[r].rows /\ e.seen = tx[r].seen
  BY <1>1, <1>2, <1>3, <1>5 DEF TxOf, Stages
<1>7. Sound(token, e)
  BY <1>2, <1>3, <1>6, TakenApart DEF Sound, Live
<1>8. \A s \in Requests \ {r} : e.locks \cap tx[s].locks = {}
  BY <1>3, <1>6 DEF Free
<1> QED
  BY <1>4, <1>6, <1>7, <1>8, LocalStep DEF Operations

(* A refresh of a revoked token gets its row and starts the UPDATE.        *)
LEMMA DetectReuseStep ==
  ASSUME IndInv, NEW r \in Requests, DetectReuse(r)
  PROVE  IndInv'
<1> DEFINE t == tx[r].subject
<1> DEFINE live == {x \in Family(t) : Live(x)}
<1> DEFINE e == [tx[r] EXCEPT !.stage = "revokeFamily", !.locks = {t}, !.rows = live,
                              !.seen = DOMAIN token]
<1>1. tx[r] \in TxOf("refresh")
  BY DEF IndInv, TypeOK, DetectReuse, At, Idle, TxOf
<1>2. PICK T \in SUBSET Tokens : token \in [T -> Token]
  BY DEF IndInv, TypeOK
<1>3. t # None /\ t \in T /\ Free(r, t)
  BY <1>2 DEF DetectReuse, IndInv, SubjectsExist
<1>4. tx' = [tx EXCEPT ![r] = e] /\ UNCHANGED <<token, active>>
  BY DEF DetectReuse, Revocable, IndInv, TypeOK
<1>5. live \subseteq T
  BY <1>2 DEF Family
<1>6. e \in TxOf("refresh") /\ e.op = "refresh" /\ e.stage = "revokeFamily" /\ e.locks = {t}
      /\ e.subject = t /\ e.rows = live /\ e.seen = T
  BY <1>1, <1>2, <1>3, <1>5 DEF TxOf, Stages
<1>7. Sound(token, e)
  BY <1>2, <1>3, <1>5, <1>6 DEF Sound, Live, Family
<1>8. \A s \in Requests \ {r} : e.locks \cap tx[s].locks = {}
  BY <1>3, <1>6 DEF Free
<1> QED
  BY <1>4, <1>6, <1>7, <1>8, LocalStep DEF Operations

(* The UPDATE gets a row.                                                  *)
LEMMA VisitRowStep ==
  ASSUME IndInv, NEW r \in Requests, NEW x \in Tokens, VisitRow(r, x)
  PROVE  IndInv'
<1> DEFINE e == [tx[r] EXCEPT !.locks = tx[r].locks \cup {x}, !.rows = tx[r].rows \ {x}]
<1>1. tx[r] \in TxOf("refresh")
  BY DEF IndInv, TypeOK, VisitRow, At, Idle, TxOf
<1>2. tx' = [tx EXCEPT ![r] = e] /\ UNCHANGED <<token, active>>
  BY DEF VisitRow, IndInv, TypeOK
<1>3. e \in TxOf("refresh") /\ e.op = "refresh" /\ e.stage = "revokeFamily"
      /\ e.locks = tx[r].locks \cup {x} /\ e.rows = tx[r].rows \ {x}
      /\ e.subject = tx[r].subject /\ e.seen = tx[r].seen
  BY <1>1 DEF TxOf, VisitRow, At
<1>4. Sound(token, e)
  BY <1>3, TakenApart DEF Sound, VisitRow, At
<1>5. \A s \in Requests \ {r} : e.locks \cap tx[s].locks = {}
  BY <1>3 DEF VisitRow, Free, IndInv, LocksExclusive
<1> QED
  BY <1>2, <1>3, <1>4, <1>5, LocalStep DEF Operations

-----------------------------------------------------------------------------
(* Steps that write tokens.                                                *)

(* A change of the table that keeps what there is, and revokes nothing that*)
(* another request has locked.                                             *)
LEMMA TableStep ==
  ASSUME IndInv, NEW r \in Requests, End(r), UNCHANGED active,
         NEW T \in SUBSET Tokens, token' \in [T -> Token], DOMAIN token \subseteq T,
         \A t \in DOMAIN token :
           /\ token'[t].user = token[t].user
           /\ token'[t].family = token[t].family
           /\ token[t].revoked => token'[t].revoked
           /\ token'[t].revoked /\ ~token[t].revoked =>
                \A s \in Requests \ {r} : t \notin tx[s].locks,
         Lineage', RotatedOnce', OneTip'
  PROVE  IndInv'
<1>1. tx'[r] = Idle /\ \A s \in Requests \ {r} : tx'[s] = tx[s]
  BY DEF IndInv, TypeOK, End
<1>2. TypeOK'
  BY <1>1 DEF IndInv, TypeOK, End
<1>3. LocksExclusive'
  BY <1>1 DEF IndInv, LocksExclusive, Idle
<1>4. ASSUME NEW s \in Requests \ {r}
      PROVE  Sound(token', tx[s])
  <2>1. Sound(token, tx[s])
    BY TakenApart
  <2>2. tx[s].subject # None => tx[s].subject \in DOMAIN token'
    BY <2>1 DEF Sound
  <2>3. tx[s].locks \cup tx[s].rows \cup tx[s].seen \subseteq DOMAIN token'
    BY <2>1 DEF Sound
  <2>4. ASSUME tx[s].op = "refresh", tx[s].stage \in {"readUser", "commit"}
        PROVE  /\ tx[s].subject # None
               /\ tx[s].subject \in tx[s].locks
               /\ ~token'[tx[s].subject].revoked
               /\ tx[s].user = token'[tx[s].subject].user
    BY <2>1, <2>4 DEF Sound
  <2>5. ASSUME tx[s].op = "refresh", tx[s].stage = "revokeFamily"
        PROVE  /\ tx[s].subject # None
               /\ \A t \in tx[s].seen :
                    token'[t].family = token'[tx[s].subject].family /\ ~token'[t].revoked
                      => t \in tx[s].rows \cup tx[s].locks
    BY <2>1, <2>5 DEF Sound
  <2>6. tx[s].op = "login" => tx[s].subject = None /\ tx[s].user # None
    BY <2>1 DEF Sound
  <2> QED
    BY <2>2, <2>3, <2>4, <2>5, <2>6 DEF Sound
<1>5. \A s \in Requests : Sound(token', tx'[s])
  BY <1>1, <1>4, IdleIsSound
<1> QED
  BY <1>2, <1>3, <1>5, PutTogether

(* Revoking tokens that no other request has locked.                       *)
LEMMA RevokeStep ==
  ASSUME IndInv, NEW r \in Requests, End(r), UNCHANGED active, NEW S,
         token' = Revoke(token, S),
         \A t \in S \cap DOMAIN token :
           ~Live(t) \/ \A s \in Requests \ {r} : t \notin tx[s].locks
  PROVE  IndInv'
<1>1. PICK T \in SUBSET Tokens : token \in [T -> Token]
  BY DEF IndInv, TypeOK
<1>2. /\ token' \in [T -> Token]
      /\ \A t \in T : /\ token'[t].user = token[t].user
                      /\ token'[t].family = token[t].family
                      /\ token'[t].parent = token[t].parent
                      /\ token'[t].origin = token[t].origin
                      /\ token[t].revoked => token'[t].revoked
                      /\ t \in S => token'[t].revoked
                      /\ token'[t].revoked => token[t].revoked \/ t \in S
  BY <1>1, Revoking
<1>3. DOMAIN token' = T /\ DOMAIN token = T
  BY <1>1, <1>2
<1>4. Lineage'
  BY <1>2, <1>3 DEF IndInv, Lineage, Live
<1>5. RotatedOnce'
  BY <1>2, <1>3 DEF IndInv, RotatedOnce
<1>6. OneTip'
  BY <1>2, <1>3 DEF IndInv, OneTip
<1> QED
  BY <1>2, <1>3, <1>4, <1>5, <1>6, TableStep DEF Live

(* A login adds a family of one token.                                     *)
LEMMA SaveLoginStep ==
  ASSUME IndInv, NEW r \in Requests, SaveLogin(r)
  PROVE  IndInv'
<1> DEFINE n == Unused
<1>1. PICK T \in SUBSET Tokens : token \in [T -> Token]
  BY DEF IndInv, TypeOK
<1>2. n \in Tokens /\ n \notin T
  BY <1>1 DEF SaveLogin
<1>3. tx[r] \in TxOf("login") /\ tx[r].subject = None /\ tx[r].user # None
  BY DEF IndInv, TypeOK, SaveLogin, At, Idle, TxOf, LoginsStartFamilies
<1>4. PICK row : row = [user |-> tx[r].user, family |-> n, revoked |-> FALSE,
                        expired |-> FALSE, parent |-> None, origin |-> n]
  OBVIOUS
<1>5. row = Issued(r, n)
  BY <1>3, <1>4 DEF Issued
<1>6. tx[r].user \in Users
  BY <1>3 DEF TxOf
<1>7. row \in Token /\ row.family = n /\ row.origin = n /\ row.parent = None
  BY <1>2, <1>4, <1>6 DEF Token
<1>8. token' = Insert(token, n, row)
  BY <1>5 DEF SaveLogin
<1>9. /\ token' \in [T \cup {n} -> Token]
      /\ token'[n] = row
      /\ \A t \in T : token'[t] = token[t]
  BY <1>1, <1>2, <1>8, <1>7 DEF Insert
<1>10. DOMAIN token' = T \cup {n} /\ DOMAIN token = T
  BY <1>1, <1>9
<1>11. \A t \in T : token[t].family \in T /\ token[t].parent # n
  BY <1>1, <1>2, <1>10, ConstantsAssumption DEF IndInv, Lineage
<1>12. Lineage'
  BY <1>2, <1>7, <1>9, <1>10 DEF IndInv, Lineage, Live
<1>13. RotatedOnce'
  BY <1>7, <1>9, <1>10 DEF IndInv, RotatedOnce
<1>14. OneTip'
  BY <1>2, <1>7, <1>9, <1>10, <1>11 DEF IndInv, OneTip
<1>15. End(r) /\ UNCHANGED active
  BY DEF SaveLogin
<1> QED
  BY <1>2, <1>9, <1>10, <1>12, <1>13, <1>14, <1>15, TableStep

(* The chains of the tokens of T in a table, as Lineage, RotatedOnce and    *)
(* OneTip have them.                                                       *)
Chains(T, table) ==
  /\ \A t \in T : table[t].origin \in T /\ table[t].family = table[t].origin
  /\ \A t \in T : table[t].parent # None =>
       /\ table[t].parent \in T
       /\ table[table[t].parent].revoked
       /\ table[table[t].parent].user = table[t].user
       /\ table[table[t].parent].origin = table[t].origin
  /\ \A x, y \in T : table[x].parent = table[y].parent /\ table[x].parent # None => x = y
  /\ \A x, y \in T :
       table[x].family = table[y].family /\ (\A z \in T : table[z].parent # x /\ table[z].parent # y)
         => x = y

(* A chain goes on: its last token p is revoked and n follows it.          *)
LEMMA ChainsGrow ==
  ASSUME NEW T, NEW old, NEW n, n \notin T, n # None, NEW p \in T, p # None,
         Chains(T, old), ~old[p].revoked, NEW new,
         \A t \in T : /\ new[t].user = old[t].user
                      /\ new[t].family = old[t].family
                      /\ new[t].parent = old[t].parent
                      /\ new[t].origin = old[t].origin
                      /\ old[t].revoked => new[t].revoked,
         new[p].revoked,
         new[n].user = old[p].user, new[n].family = old[p].family,
         new[n].parent = p, new[n].origin = old[p].origin
  PROVE  Chains(T \cup {n}, new)
<1>1. \A t \in T : old[t].parent # n /\ old[t].parent # p
  BY DEF Chains
<1>2. \A t \in T \cup {n} :
        new[t].origin \in T \cup {n} /\ new[t].family = new[t].origin
  BY DEF Chains
<1>3. ASSUME NEW t \in T \cup {n}, new[t].parent # None
      PROVE  /\ new[t].parent \in T \cup {n}
             /\ new[new[t].parent].revoked
             /\ new[new[t].parent].user = new[t].user
             /\ new[new[t].parent].origin = new[t].origin
  <2>1. CASE t \in T
    BY <1>3, <2>1 DEF Chains
  <2>2. CASE t = n
    BY <2>2
  <2> QED
    BY <2>1, <2>2
<1>4. ASSUME NEW x \in T \cup {n}, NEW y \in T \cup {n},
             new[x].parent = new[y].parent, new[x].parent # None
      PROVE  x = y
  <2>1. CASE x \in T /\ y \in T
    BY <1>4, <2>1 DEF Chains
  <2> QED
    BY <1>1, <1>4, <2>1
<1>5. ASSUME NEW x \in T \cup {n}, NEW y \in T \cup {n}, new[x].family = new[y].family,
             \A z \in T \cup {n} : new[z].parent # x /\ new[z].parent # y
      PROVE  x = y
  <2>1. \A z \in T : old[z].parent # x /\ old[z].parent # y
    BY <1>5
  <2>2. x # p /\ y # p
    BY <1>5
  <2>3. \A a, b \in T :
          old[a].family = old[b].family /\ (\A z \in T : old[z].parent # a /\ old[z].parent # b)
            => a = b
    BY DEF Chains
  <2>4. CASE x \in T /\ y \in T
    BY <1>5, <2>1, <2>3, <2>4
  <2>5. CASE x \in T /\ y = n
    BY <1>1, <1>5, <2>1, <2>2, <2>3, <2>5
  <2>6. CASE x = n /\ y \in T
    BY <1>1, <1>5, <2>1, <2>2, <2>3, <2>6
  <2> QED
    BY <2>4, <2>5, <2>6
<1> QED
  BY <1>2, <1>3, <1>4, <1>5 DEF Chains

(* A refresh revokes the last token of a family and adds the next one.     *)
LEMMA CommitRefreshStep ==
  ASSUME IndInv, NEW r \in Requests, CommitRefresh(r)
  PROVE  IndInv'
<1> DEFINE n == Unused
<1> DEFINE p == tx[r].subject
<1>1. PICK T \in SUBSET Tokens : token \in [T -> Token]
  BY DEF IndInv, TypeOK
<1>2. n \in Tokens /\ n \notin T /\ n # None
  BY <1>1, ConstantsAssumption DEF CommitRefresh
<1>3. /\ p # None /\ p \in T /\ p \in tx[r].locks
      /\ ~token[p].revoked /\ tx[r].user = token[p].user
  BY <1>1, TakenApart DEF Sound, CommitRefresh, At
<1>4. PICK row : row = [user |-> token[p].user, family |-> token[p].family,
                        revoked |-> FALSE, expired |-> FALSE, parent |-> p,
                        origin |-> token[p].origin]
  OBVIOUS
<1>5. row = Issued(r, n)
  BY <1>3, <1>4 DEF Issued
<1>6. token[p] \in Token
  BY <1>1, <1>3
<1>7. row \in Token
  BY <1>3, <1>4, <1>6 DEF Token
<1>8. PICK S : S = {p}
  OBVIOUS
<1>9. PICK mid : mid = Revoke(token, S)
  OBVIOUS
<1>10. /\ mid \in [T -> Token]
       /\ \A t \in T : /\ mid[t].user = token[t].user
                       /\ mid[t].family = token[t].family
                       /\ mid[t].parent = token[t].parent
                       /\ mid[t].origin = token[t].origin
                       /\ token[t].revoked => mid[t].revoked
                       /\ t \in S => mid[t].revoked
                       /\ mid[t].revoked => token[t].revoked \/ t \in S
  <2> DEFINE new == Revoke(token, S)
  <2>1. /\ new \in [T -> Token]
        /\ \A t \in T : /\ new[t].user = token[t].user
                        /\ new[t].family = token[t].family
                        /\ new[t].parent = token[t].parent
                        /\ new[t].origin = token[t].origin
                        /\ token[t].revoked => new[t].revoked
                        /\ t \in S => new[t].revoked
                        /\ new[t].revoked => token[t].revoked \/ t \in S
    BY <1>1, Revoking
  <2> QED
    BY <1>9, <2>1
<1>11. token' = Insert(mid, n, row)
  BY <1>5, <1>8, <1>9 DEF CommitRefresh
<1>12. /\ token' \in [T \cup {n} -> Token]
       /\ token'[n] = row
       /\ \A t \in T : token'[t] = mid[t]
  BY <1>2, <1>7, <1>10, <1>11 DEF Insert
<1>13. DOMAIN token' = T \cup {n} /\ DOMAIN token = T
  BY <1>1, <1>12
<1>14. Chains(T, token)
  BY <1>13 DEF IndInv, Lineage, RotatedOnce, OneTip, Live, Chains
<1>15. \A t \in T : /\ token'[t].user = token[t].user
                    /\ token'[t].family = token[t].family
                    /\ token'[t].parent = token[t].parent
                    /\ token'[t].origin = token[t].origin
                    /\ token[t].revoked => token'[t].revoked
                    /\ token'[t].revoked => token[t].revoked \/ t = p
  BY <1>8, <1>10, <1>12
<1>16. token'[p].revoked
  BY <1>3, <1>8, <1>10, <1>12
<1>17. /\ token'[n].user = token[p].user /\ token'[n].family = token[p].family
       /\ token'[n].parent = p /\ token'[n].origin = token[p].origin
  BY <1>4, <1>12
<1>18. Chains(T \cup {n}, token')
  BY <1>2, <1>3, <1>14, <1>15, <1>16, <1>17, ChainsGrow
<1>19. Lineage' /\ RotatedOnce' /\ OneTip'
  BY <1>13, <1>18 DEF Lineage, RotatedOnce, OneTip, Live, Chains
<1>20. \A s \in Requests \ {r} : p \notin tx[s].locks
  BY <1>3 DEF IndInv, LocksExclusive
<1>21. End(r) /\ UNCHANGED active
  BY DEF CommitRefresh
<1> QED
  BY <1>2, <1>12, <1>13, <1>15, <1>19, <1>20, <1>21, TableStep

(* A token expires: nothing that IndInv speaks of changes.                 *)
LEMMA ExpireStep ==
  ASSUME IndInv, NEW x \in Tokens, Expire(x)
  PROVE  IndInv'
<1>1. PICK T \in SUBSET Tokens : token \in [T -> Token]
  BY DEF IndInv, TypeOK
<1>2. x \in T
  BY <1>1 DEF Expire
<1>3. token' = [token EXCEPT ![x] = [token[x] EXCEPT !.expired = TRUE]]
  BY DEF Expire
<1>4. [token[x] EXCEPT !.expired = TRUE] \in Token
  BY <1>1, <1>2 DEF Token
<1>5. token' \in [T -> Token] /\ DOMAIN token' = T /\ DOMAIN token = T
  BY <1>1, <1>3, <1>4
<1>6. \A t \in T : /\ token'[t].user = token[t].user
                   /\ token'[t].family = token[t].family
                   /\ token'[t].parent = token[t].parent
                   /\ token'[t].origin = token[t].origin
                   /\ token'[t].revoked = token[t].revoked
  <2> SUFFICES ASSUME NEW t \in T
               PROVE  /\ token'[t].user = token[t].user
                      /\ token'[t].family = token[t].family
                      /\ token'[t].parent = token[t].parent
                      /\ token'[t].origin = token[t].origin
                      /\ token'[t].revoked = token[t].revoked
    OBVIOUS
  <2>1. token[t] \in Token
    BY <1>1
  <2>2. token'[t] = IF t = x THEN [token[t] EXCEPT !.expired = TRUE] ELSE token[t]
    BY <1>1, <1>3
  <2> QED
    BY <2>1, <2>2 DEF Token
<1>7. tx' = tx /\ active' = active
  BY DEF Expire
<1>8. TypeOK'
  BY <1>5, <1>7 DEF IndInv, TypeOK
<1>9. LocksExclusive'
  BY <1>7 DEF IndInv, LocksExclusive
<1>10. \A s \in Requests : Sound(token', tx'[s])
  <2> SUFFICES ASSUME NEW s \in Requests PROVE Sound(token', tx[s])
    BY <1>7
  <2>1. Sound(token, tx[s])
    BY TakenApart
  <2> QED
    BY <1>5, <1>6, <2>1 DEF Sound
<1>11. Lineage'
  BY <1>5, <1>6 DEF IndInv, Lineage, Live
<1>12. RotatedOnce' /\ OneTip'
  BY <1>5, <1>6 DEF IndInv, RotatedOnce, OneTip
<1> QED
  BY <1>8, <1>9, <1>10, <1>11, <1>12, PutTogether

-----------------------------------------------------------------------------
(* What each request does next.                                            *)

(* The beginning of every kind of request.                                 *)
LEMMA ArriveStep ==
  ASSUME IndInv, NEW r \in Requests, Arrive(r)
  PROVE  IndInv'
<1>1. ASSUME NEW u \in Users, Login(r, u) PROVE IndInv'
  BY <1>1, BeginStep, ConstantsAssumption DEF Login, Operations, Stages
<1>2. ASSUME NEW t \in DOMAIN token \cup {None}, Refresh(r, t) PROVE IndInv'
  BY <1>2, BeginStep DEF Refresh, Operations, Stages
<1>3. ASSUME NEW t \in DOMAIN token \cup {None}, Logout(r, t) PROVE IndInv'
  BY <1>3, BeginStep DEF Logout, Operations, Stages
<1> QED
  BY <1>1, <1>2, <1>3 DEF Arrive

(* The UPDATE of a family commits: what it revokes it has locked.          *)
LEMMA CommitReuseStep ==
  ASSUME IndInv, NEW r \in Requests, CommitReuse(r)
  PROVE  IndInv'
<1>1. \A s \in Requests \ {r} : tx[r].locks \cap tx[s].locks = {}
  BY DEF IndInv, LocksExclusive
<1>2. \A t \in tx[r].locks \cap DOMAIN token :
        ~Live(t) \/ \A s \in Requests \ {r} : t \notin tx[s].locks
  BY <1>1
<1>3. token' = Revoke(token, tx[r].locks) /\ End(r) /\ UNCHANGED active
  BY DEF CommitReuse
<1> QED
  BY <1>2, <1>3, RevokeStep

(* The UPDATE of a logout: nobody else has locked a token that is live.    *)
LEMMA FinishLogoutStep ==
  ASSUME IndInv, NEW r \in Requests, FinishLogout(r)
  PROVE  IndInv'
<1> DEFINE t == tx[r].subject
<1>1. ASSUME t \in DOMAIN token
      PROVE  ~Live(t) \/ \A s \in Requests \ {r} : t \notin tx[s].locks
  <2>1. t # None
    BY <1>1, ConstantsAssumption DEF IndInv, TypeOK
  <2> QED
    BY <2>1 DEF FinishLogout, Free
<1>2. \A x \in {t} \cap DOMAIN token :
        ~Live(x) \/ \A s \in Requests \ {r} : x \notin tx[s].locks
  BY <1>1
<1>3. token' = Revoke(token, {t}) /\ End(r) /\ UNCHANGED active
  BY DEF FinishLogout
<1> QED
  BY <1>2, <1>3, RevokeStep

(* What a request that has begun does next, one case per statement.        *)
LEMMA ProceedStep ==
  ASSUME IndInv, NEW r \in Requests, Proceed(r)
  PROVE  IndInv'
<1>1. CASE ReadLoginUser(r)
  BY <1>1, GotoStep DEF ReadLoginUser, At, Operations, Stages
<1>2. CASE Connect(r)
  BY <1>2, GotoStep DEF Connect, At, Operations, Stages
<1>3. CASE ReadUser(r)
  BY <1>3, GotoStep DEF ReadUser, At, Operations, Stages
<1>4. CASE StartLogout(r)
  BY <1>4, GotoStep DEF StartLogout, At, Operations, Stages
<1>5. CASE RefuseLogin(r)
  BY <1>5, EndStep DEF RefuseLogin
<1>6. CASE RefuseToken(r)
  BY <1>6, EndStep DEF RefuseToken, Refuse
<1>7. CASE RefuseUser(r)
  BY <1>7, EndStep DEF RefuseUser, Refuse
<1>8. CASE SaveLogin(r)
  BY <1>8, SaveLoginStep
<1>9. CASE LockToken(r)
  BY <1>9, LockTokenStep
<1>10. CASE DetectReuse(r)
  BY <1>10, DetectReuseStep
<1>11. CASE \E x \in Tokens : VisitRow(r, x)
  BY <1>11, VisitRowStep
<1>12. CASE CommitReuse(r)
  BY <1>12, CommitReuseStep
<1>13. CASE CommitRefresh(r)
  BY <1>13, CommitRefreshStep
<1>14. CASE FinishLogout(r)
  BY <1>14, FinishLogoutStep
<1> QED
  BY <1>1, <1>2, <1>3, <1>4, <1>5, <1>6, <1>7, <1>8, <1>9, <1>10, <1>11, <1>12, <1>13,
     <1>14 DEF Proceed

(* The status of an account is in no part of IndInv but the type.          *)
LEMMA ChangeStatusStep ==
  ASSUME IndInv, NEW u \in Users, ChangeStatus(u)
  PROVE  IndInv'
<1>1. TypeOK'
  BY DEF IndInv, TypeOK, ChangeStatus
<1>2. token' = token /\ tx' = tx
  BY DEF ChangeStatus
<1>3. LocksExclusive'
  BY <1>2 DEF IndInv, LocksExclusive
<1>4. \A s \in Requests : Sound(token', tx'[s])
  BY <1>2, TakenApart
<1>5. Lineage' /\ RotatedOnce' /\ OneTip'
  BY <1>2 DEF IndInv, Lineage, RotatedOnce, OneTip, Live
<1> QED
  BY <1>1, <1>3, <1>4, <1>5, PutTogether

-----------------------------------------------------------------------------
(* The invariant.                                                          *)

(* It holds at the start: there is no token and no request.                *)
LEMMA InitStep ==
  ASSUME Init
  PROVE  IndInv
<1>1. token \in [{} -> Token] /\ DOMAIN token = {}
  BY DEF Init
<1>2. TypeOK
  BY <1>1 DEF Init, TypeOK
<1>3. \A r \in Requests : tx[r] = Idle
  BY DEF Init
<1>4. LocksExclusive
  BY <1>3 DEF LocksExclusive, Idle
<1>5. SubjectsExist /\ SubjectIsLive /\ FamilyCovered /\ LoginsStartFamilies
  BY <1>3 DEF SubjectsExist, SubjectIsLive, FamilyCovered, LoginsStartFamilies, At, Idle
<1>6. Lineage /\ RotatedOnce /\ OneTip
  BY <1>1 DEF Lineage, RotatedOnce, OneTip
<1> QED
  BY <1>2, <1>4, <1>5, <1>6 DEF IndInv

(* A step of no variable keeps it.                                         *)
LEMMA StutterStep ==
  ASSUME IndInv, UNCHANGED vars
  PROVE  IndInv'
BY DEF vars, IndInv, TypeOK, LocksExclusive, SubjectsExist, SubjectIsLive, FamilyCovered,
       LoginsStartFamilies, Lineage, RotatedOnce, OneTip, At, Live

(* Every step keeps it.                                                    *)
LEMMA NextStep ==
  ASSUME IndInv, [Next]_vars
  PROVE  IndInv'
<1>1. ASSUME NEW r \in Requests, Abort(r) PROVE IndInv'
  BY <1>1, EndStep DEF Abort
<1> QED
  BY <1>1, ArriveStep, ProceedStep, ExpireStep, ChangeStatusStep, StutterStep DEF Next

(* The row lock of a refresh keeps its token live and unexchanged from the *)
(* check to the commit (auth.service.ts:106-123), and with it the tokens of*)
(* a login are a chain of exchanged tokens and one last one, however many  *)
(* requests exchange them at once.                                         *)
THEOREM ChainsInductive == Spec => []IndInv
<1>1. Init => IndInv
  BY InitStep
<1>2. IndInv /\ [Next]_vars => IndInv'
  BY NextStep
<1> QED
  BY <1>1, <1>2, PTL DEF Spec

(* A token is exchanged at most once: of the requests that present it, one *)
(* gets a successor (auth.e2e-spec: "allows only one concurrent refresh"). *)
THEOREM ExchangedOnce == Spec => []RotatedOnce
<1>1. IndInv => RotatedOnce
  BY DEF IndInv
<1> QED
  BY <1>1, ChainsInductive, PTL

(* At most one token of a login can be exchanged at any time: a live token *)
(* is the last of its chain, because exchanged tokens are revoked.         *)
THEOREM OneLive == Spec => []OneLivePerFamily
<1>1. ASSUME IndInv, NEW x \in DOMAIN token, NEW y \in DOMAIN token,
             token[x].origin = token[y].origin, Live(x), Live(y)
      PROVE  x = y
  <2>1. token[x].family = token[y].family
    BY <1>1 DEF IndInv, Lineage
  <2>2. x # None /\ y # None
    BY <1>1, ConstantsAssumption DEF IndInv, TypeOK
  <2>3. \A z \in DOMAIN token : token[z].parent \notin {x, y}
    BY <1>1, <2>2 DEF IndInv, Lineage
  <2> QED
    BY <1>1, <2>1, <2>3 DEF IndInv, OneTip
<1>2. IndInv => OneLivePerFamily
  BY <1>1 DEF OneLivePerFamily
<1> QED
  BY <1>2, ChainsInductive, PTL

(* A token that comes back after its exchange ends the session: the commit *)
(* of the UPDATE leaves none of the tokens live that go back to the same   *)
(* login and were issued before the UPDATE started.                        *)
THEOREM ReuseEndsSession == Spec => ReuseEndsFamily
<1>1. ASSUME IndInv, NEW r \in Requests, CommitReuse(r), NEW t \in tx[r].seen,
             token[t].origin = token[tx[r].subject].origin
      PROVE  token'[t].revoked
  <2>1. PICK T \in SUBSET Tokens : token \in [T -> Token]
    BY <1>1 DEF IndInv, TypeOK
  <2>2. Sound(token, tx[r])
    BY <1>1, TakenApart
  <2>3. /\ tx[r].op = "refresh" /\ tx[r].stage = "revokeFamily" /\ tx[r].rows = {}
        /\ token' = Revoke(token, tx[r].locks)
    BY <1>1 DEF CommitReuse, At
  <2>4. t \in T /\ tx[r].subject \in T
    BY <2>1, <2>2, <2>3 DEF Sound
  <2>5. token[t].family = token[tx[r].subject].family
    BY <1>1, <2>1, <2>4 DEF IndInv, Lineage
  <2>6. token[t].revoked \/ t \in tx[r].locks
    BY <2>2, <2>3, <2>5 DEF Sound
  <2>7. CASE token[t].revoked
    BY <2>1, <2>3, <2>4, <2>7, RevokingRevokes
  <2>8. CASE t \in tx[r].locks
    BY <2>1, <2>3, <2>4, <2>8, RevokingRevokes
  <2> QED
    BY <2>6, <2>7, <2>8
<1>2. IndInv /\ [Next]_vars =>
        [\A r \in Requests : CommitReuse(r) =>
           \A t \in tx[r].seen :
             token[t].origin = token[tx[r].subject].origin => token'[t].revoked]_vars
  BY <1>1
<1> QED
  BY <1>2, ChainsInductive, PTL DEF Spec, ReuseEndsFamily

-----------------------------------------------------------------------------
(* Waiting for row locks.                                                  *)

InReuse(r) == At(r, "refresh", "revokeFamily")

(* What is true of the UPDATE of a family by r: the token that was reused  *)
(* stays revoked, there is at most one row to wait for, of the family's    *)
(* tokens that r has seen only that one may be live, and r holds no other  *)
(* row while it waits.                                                     *)
OneRowLeft(r) ==
  InReuse(r) =>
    /\ ~Live(tx[r].subject)
    /\ \A x, y \in tx[r].rows : x = y
    /\ \A x \in tx[r].rows, y \in tx[r].seen :
         token[y].family = token[x].family /\ Live(y) => x = y
    /\ \A x \in tx[r].rows : token[x].family = token[tx[r].subject].family
    /\ tx[r].rows # {} => tx[r].locks = {tx[r].subject}

(* Two of them are ordered by their start, and the one that holds the token*)
(* the other waits for has seen a newer one, for which it waits itself.    *)
LaterHolds(r, s) ==
  InReuse(r) /\ InReuse(s) =>
    /\ tx[r].seen \subseteq tx[s].seen \/ tx[s].seen \subseteq tx[r].seen
    /\ tx[s].subject \in tx[r].rows => tx[s].rows \subseteq tx[s].seen \ tx[r].seen

(* Only a refresh that is past its lock holds a row.                       *)
HoldsLate(r) ==
  tx[r].locks # {} => \/ At(r, "refresh", "readUser") \/ At(r, "refresh", "commit")
                      \/ InReuse(r)

Ordered ==
  /\ IsFiniteSet(DOMAIN token)
  /\ \A r \in Requests : OneRowLeft(r) /\ HoldsLate(r)
  /\ \A r, s \in Requests : LaterHolds(r, s)

(* What a step does to the table of tokens: it keeps the families, gives no*)
(* revoked token back, and adds one token at most.                         *)
Grows ==
  /\ \A t \in DOMAIN token :
       /\ t \in DOMAIN token'
       /\ token'[t].family = token[t].family
       /\ token[t].revoked => token'[t].revoked
  /\ \E n : DOMAIN token' \subseteq DOMAIN token \cup {n}

(* Revoking any tokens.                                                    *)
LEMMA RevokeGrows ==
  ASSUME IndInv, NEW S, token' = Revoke(token, S)
  PROVE  Grows
<1>1. PICK T \in SUBSET Tokens : token \in [T -> Token]
  BY DEF IndInv, TypeOK
<1> QED
  BY <1>1, Revoking DEF Grows

(* Adding a token, with or without revoking others.                        *)
LEMMA InsertGrows ==
  ASSUME IndInv, NEW S, NEW n, NEW row, n \notin DOMAIN token,
         token' = Insert(Revoke(token, S), n, row) \/ token' = Insert(token, n, row)
  PROVE  Grows
<1>1. PICK T \in SUBSET Tokens : token \in [T -> Token]
  BY DEF IndInv, TypeOK
<1>2. /\ Revoke(token, S) \in [T -> Token]
      /\ \A t \in T : /\ Revoke(token, S)[t].family = token[t].family
                      /\ token[t].revoked => Revoke(token, S)[t].revoked
  BY <1>1, Revoking
<1>3. DOMAIN token' = T \cup {n}
  BY <1>1, <1>2 DEF Insert
<1>4. \A t \in T : token'[t] = Revoke(token, S)[t] \/ token'[t] = token[t]
  BY <1>1, <1>2 DEF Insert
<1> QED
  BY <1>1, <1>2, <1>3, <1>4 DEF Grows

(* Whatever happens, the table grows.                                      *)
LEMMA StepGrows ==
  ASSUME IndInv, [Next]_vars
  PROVE  Grows
<1>1. CASE token' = token
  BY <1>1 DEF Grows
<1>2. ASSUME NEW r \in Requests, Proceed(r)
      PROVE  Grows
  <2>1. CASE SaveLogin(r)
    BY <2>1, InsertGrows DEF SaveLogin
  <2>2. CASE CommitReuse(r)
    BY <2>2, RevokeGrows DEF CommitReuse
  <2>3. CASE CommitRefresh(r)
    BY <2>3, InsertGrows DEF CommitRefresh
  <2>4. CASE FinishLogout(r)
    BY <2>4, RevokeGrows DEF FinishLogout
  <2> QED
    BY <1>1, <1>2, <2>1, <2>2, <2>3, <2>4
    DEF Proceed, ReadLoginUser, RefuseLogin, Connect, LockToken, DetectReuse, RefuseToken,
        ReadUser, RefuseUser, StartLogout, VisitRow, Goto, Refuse
<1>3. ASSUME NEW t \in Tokens, Expire(t)
      PROVE  Grows
  <2>1. PICK T \in SUBSET Tokens : token \in [T -> Token]
    BY DEF IndInv, TypeOK
  <2>2. DOMAIN token' = T
    BY <1>3, <2>1 DEF Expire
  <2>3. \A x \in T : /\ token'[x].family = token[x].family
                     /\ token'[x].revoked = token[x].revoked
    BY <1>3, <2>1 DEF Expire
  <2> QED
    BY <2>1, <2>2, <2>3 DEF Grows
<1> QED
  BY <1>1, <1>2, <1>3 DEF Next, vars, Arrive, Login, Refresh, Logout, Begin, Abort, ChangeStatus

(* What a step does to one request: nothing, or it starts the UPDATE of a  *)
(* family, or visits a row, or leaves it outside of such an UPDATE.        *)
LEMMA Moves ==
  ASSUME IndInv, Ordered, NEW r \in Requests, Arrive(r) \/ Proceed(r) \/ Abort(r)
  PROVE  /\ \A s \in Requests \ {r} : tx'[s] = tx[s]
         /\ HoldsLate(r)'
         /\ ~InReuse(r)' \/ DetectReuse(r) \/ \E x \in Tokens : VisitRow(r, x)
<1> DEFINE Outside == HoldsLate(r)' /\ ~InReuse(r)'
           Others == \A s \in Requests \ {r} : tx'[s] = tx[s]
<1>1. DOMAIN tx = Requests /\ HoldsLate(r)
  BY DEF IndInv, TypeOK, Ordered
<1>2. ASSUME End(r) PROVE Outside /\ Others
  BY <1>1, <1>2 DEF End, Idle, HoldsLate, InReuse, At
<1>3. ASSUME NEW op, NEW stage, NEW user, NEW subject, Begin(r, op, stage, user, subject),
             stage # "revokeFamily"
      PROVE  Outside /\ Others
  BY <1>1, <1>3 DEF Begin, HoldsLate, InReuse, At
<1>4. ASSUME NEW op, NEW stage, At(r, op, stage), ~InReuse(r),
             NEW to, Goto(r, to), to # "revokeFamily",
             op = "refresh" /\ stage \in {"readUser", "commit"} => to \in {"readUser", "commit"}
      PROVE  Outside /\ Others
  <2>1. tx'[r] = [tx[r] EXCEPT !.stage = to] /\ Others
    BY <1>1, <1>4 DEF Goto
  <2>2. tx[r] \in TxOf("login") \cup TxOf("refresh") \cup TxOf("logout") \cup {Idle}
    BY DEF IndInv, TypeOK
  <2>3. tx'[r].op = tx[r].op /\ tx'[r].stage = to /\ tx'[r].locks = tx[r].locks
    BY <2>1, <2>2 DEF TxOf, Idle
  <2> QED
    BY <1>1, <1>4, <2>1, <2>3 DEF HoldsLate, InReuse, At
<1>5. CASE Arrive(r)
  BY <1>3, <1>5 DEF Arrive, Login, Refresh, Logout
<1>6. CASE Abort(r)
  BY <1>2, <1>6 DEF Abort
<1>7. CASE Proceed(r)
  <2>1. CASE ReadLoginUser(r) \/ Connect(r) \/ ReadUser(r) \/ StartLogout(r)
    BY <1>4, <2>1 DEF ReadLoginUser, Connect, ReadUser, StartLogout, InReuse, At
  <2>2. CASE \/ RefuseLogin(r) \/ RefuseToken(r) \/ RefuseUser(r) \/ SaveLogin(r)
             \/ CommitReuse(r) \/ CommitRefresh(r) \/ FinishLogout(r)
    BY <1>2, <2>2 DEF RefuseLogin, RefuseToken, RefuseUser, Refuse, SaveLogin, CommitReuse,
                      CommitRefresh, FinishLogout
  <2>3. tx[r] \in TxOf("login") \cup TxOf("refresh") \cup TxOf("logout") \cup {Idle}
    BY DEF IndInv, TypeOK
  <2>4. CASE LockToken(r)
    <3>1. Others /\ tx'[r].op = "refresh" /\ tx'[r].stage = "readUser"
      BY <1>1, <2>3, <2>4 DEF LockToken, At, TxOf, Idle
    <3> QED
      BY <3>1 DEF HoldsLate, InReuse, At
  <2>5. CASE DetectReuse(r)
    <3>1. Others /\ tx'[r].op = "refresh" /\ tx'[r].stage = "revokeFamily"
      BY <1>1, <2>3, <2>5 DEF DetectReuse, At, TxOf, Idle
    <3> QED
      BY <2>5, <3>1 DEF HoldsLate, InReuse, At
  <2>6. CASE \E x \in Tokens : VisitRow(r, x)
    <3>1. Others /\ tx'[r].op = "refresh" /\ tx'[r].stage = "revokeFamily"
      BY <1>1, <2>3, <2>6 DEF VisitRow, At, TxOf, Idle
    <3> QED
      BY <2>6, <3>1 DEF HoldsLate, InReuse, At
  <2> QED
    BY <1>7, <2>1, <2>2, <2>4, <2>5, <2>6 DEF Proceed
<1> QED
  BY <1>5, <1>6, <1>7

(* What a request that is not touched knows of the table stays true.       *)
LEMMA RestStays ==
  ASSUME IndInv, NEW r \in Requests, OneRowLeft(r), Grows, tx'[r] = tx[r]
  PROVE  OneRowLeft(r)'
<1> SUFFICES ASSUME InReuse(r)'
             PROVE  OneRowLeft(r)'
  BY DEF OneRowLeft
<1>1. InReuse(r)
  BY DEF InReuse, At
<1>2. /\ tx[r].subject \in DOMAIN token
      /\ tx[r].rows \cup tx[r].seen \subseteq DOMAIN token
  BY <1>1, TakenApart DEF InReuse, At, Sound
<1>3. \A t \in DOMAIN token : token'[t].family = token[t].family /\ (Live(t)' => Live(t))
  BY DEF Grows, Live
<1>4. ~Live(tx[r].subject)'
  BY <1>1, <1>2, <1>3 DEF OneRowLeft
<1> QED
  BY <1>1, <1>2, <1>3, <1>4 DEF OneRowLeft

(* The UPDATE of a family starts: one token of it is live.                 *)
LEMMA DetectLeavesOne ==
  ASSUME IndInv, OneLivePerFamily, NEW r \in Requests, DetectReuse(r)
  PROVE  /\ OneRowLeft(r)'
         /\ tx'[r].seen = DOMAIN token
         /\ tx'[r].rows \subseteq DOMAIN token
         /\ \A x \in tx'[r].rows : Live(x)
         /\ \A x \in tx'[r].rows : token[x].family = token[tx'[r].subject].family
         /\ ~Live(tx'[r].subject)
<1> DEFINE t == tx[r].subject
<1>1. /\ t # None /\ ~Live(t)
      /\ token' = token
      /\ tx' = [tx EXCEPT ![r].stage = "revokeFamily", ![r].locks = {t},
                          ![r].rows = Revocable(t), ![r].seen = DOMAIN token]
  BY DEF DetectReuse
<1>2. tx[r] \in TxOf("refresh")
  BY DEF IndInv, TypeOK, DetectReuse, At, Idle, TxOf
<1>3. /\ tx'[r].subject = t /\ tx'[r].locks = {t}
      /\ tx'[r].rows = Revocable(t) /\ tx'[r].seen = DOMAIN token
  BY <1>1, <1>2 DEF IndInv, TypeOK, TxOf
<1>4. t \in DOMAIN token
  BY <1>1 DEF IndInv, SubjectsExist
<1>5. \A x, y \in Family(t) : Live(x) /\ Live(y) => x = y
  BY DEF Family, IndInv, Lineage, OneLivePerFamily
<1>6. \A x \in Revocable(t) : x \in DOMAIN token /\ Live(x) /\ token[x].family = token[t].family
  BY DEF Revocable, Family
<1>7. \A x \in Revocable(t), y \in DOMAIN token :
        token[y].family = token[x].family /\ Live(y) => x = y
  BY <1>5, <1>6 DEF Family, Revocable
<1>8. \A x, y \in Revocable(t) : x = y
  BY <1>5 DEF Revocable
<1>9. OneRowLeft(r)'
  <2>1. \A x \in DOMAIN token : Live(x)' <=> Live(x)
    BY <1>1 DEF Live
  <2>2. ~Live(tx[r].subject)'
    BY <1>1, <1>3 DEF Live
  <2>3. \A x \in tx'[r].rows, y \in tx'[r].seen :
          token'[y].family = token'[x].family /\ Live(y)' => x = y
    BY <1>1, <1>3, <1>7, <2>1
  <2>4. \A x \in tx'[r].rows : token'[x].family = token'[tx'[r].subject].family
    BY <1>1, <1>3, <1>6
  <2> QED
    BY <1>3, <1>8, <2>2, <2>3, <2>4 DEF OneRowLeft
<1> QED
  BY <1>1, <1>3, <1>6, <1>9

(* It visits the row it waited for: none is left.                          *)
LEMMA VisitLeavesNone ==
  ASSUME IndInv, NEW r \in Requests, OneRowLeft(r), NEW x, VisitRow(r, x)
  PROVE  /\ OneRowLeft(r)'
         /\ tx'[r].rows = {} /\ tx'[r].seen = tx[r].seen /\ tx'[r].subject = tx[r].subject
         /\ InReuse(r)
<1>1. InReuse(r) /\ x \in tx[r].rows /\ token' = token
  BY DEF VisitRow, InReuse
<1>2. tx[r] \in TxOf("refresh")
  BY <1>1 DEF IndInv, TypeOK, InReuse, At, Idle, TxOf
<1>3. /\ tx'[r].rows = tx[r].rows \ {x}
      /\ tx'[r].seen = tx[r].seen /\ tx'[r].subject = tx[r].subject
  BY <1>2 DEF IndInv, TypeOK, TxOf, VisitRow
<1>4. tx'[r].rows = {}
  BY <1>1, <1>3 DEF OneRowLeft
<1>5. ~Live(tx[r].subject)'
  BY <1>1, <1>3 DEF OneRowLeft, Live
<1>6. OneRowLeft(r)'
  BY <1>4, <1>5 DEF OneRowLeft
<1> QED
  BY <1>1, <1>3, <1>4, <1>6

(* Two answers to a reused token stay in the order of their start.         *)
LEMMA OrderStays ==
  ASSUME IndInv, OneLivePerFamily, Ordered, NEW r \in Requests, NEW s \in Requests,
         tx'[r] = tx[r],
         \/ tx'[s] = tx[s]
         \/ ~InReuse(s)'
         \/ DetectReuse(s)
         \/ \E x \in Tokens : VisitRow(s, x)
  PROVE  LaterHolds(r, s)' /\ LaterHolds(s, r)'
<1> SUFFICES ASSUME InReuse(r)', InReuse(s)'
             PROVE  LaterHolds(r, s)' /\ LaterHolds(s, r)'
  BY DEF LaterHolds
<1>1. InReuse(r) /\ OneRowLeft(r) /\ LaterHolds(r, s) /\ LaterHolds(s, r)
  BY DEF InReuse, At, Ordered
<1>2. CASE tx'[s] = tx[s]
  <2>1. InReuse(s)
    BY <1>2 DEF InReuse, At
  <2> QED
    BY <1>1, <1>2, <2>1 DEF LaterHolds
<1>3. CASE DetectReuse(s)
  <2>1. /\ tx'[s].seen = DOMAIN token
        /\ tx'[s].rows \subseteq DOMAIN token
        /\ \A x \in tx'[s].rows : Live(x)
        /\ \A x \in tx'[s].rows : token[x].family = token[tx'[s].subject].family
        /\ ~Live(tx'[s].subject)
    BY <1>3, DetectLeavesOne
  <2>2. tx[r].seen \subseteq DOMAIN token
    BY DEF IndInv, SubjectsExist
  <2>3. tx'[r].subject \notin tx'[s].rows
    BY <1>1, <2>1 DEF OneRowLeft
  <2>4. ASSUME tx'[s].subject \in tx'[r].rows, NEW y \in tx'[s].rows
        PROVE  y \notin tx'[r].seen
    BY <1>1, <2>1, <2>4 DEF OneRowLeft
  <2> QED
    BY <2>1, <2>2, <2>3, <2>4 DEF LaterHolds
<1>4. CASE \E x \in Tokens : VisitRow(s, x)
  <2>1. OneRowLeft(s)
    BY DEF Ordered
  <2>2. /\ tx'[s].rows = {} /\ tx'[s].seen = tx[s].seen /\ tx'[s].subject = tx[s].subject
        /\ InReuse(s)
    BY <1>4, <2>1, VisitLeavesNone
  <2> QED
    BY <1>1, <2>2 DEF LaterHolds
<1> QED
  BY <1>2, <1>3, <1>4

(* The order holds at the start: there is no token and no request.         *)
LEMMA OrderInit ==
  ASSUME Init
  PROVE  Ordered
<1>1. \A r \in Requests : tx[r] = Idle
  BY DEF Init
<1>2. DOMAIN token = {}
  BY DEF Init
<1> QED
  BY <1>1, <1>2, FS_EmptySet DEF Ordered, OneRowLeft, HoldsLate, LaterHolds, InReuse, At, Idle

(* Every step keeps it.                                                    *)
LEMMA OrderStep ==
  ASSUME IndInv, OneLivePerFamily, Ordered, [Next]_vars
  PROVE  Ordered'
<1>1. Grows
  BY StepGrows
<1>2. IsFiniteSet(DOMAIN token')
  <2>1. PICK n : DOMAIN token' \subseteq DOMAIN token \cup {n}
    BY <1>1 DEF Grows
  <2>2. IsFiniteSet(DOMAIN token \cup {n})
    BY FS_AddElement DEF Ordered
  <2> QED
    BY <2>1, <2>2, FS_Subset
<1>3. CASE tx' = tx
  <2>1. \A r \in Requests : OneRowLeft(r)'
    BY <1>1, <1>3, RestStays DEF Ordered
  <2>2. \A r \in Requests : HoldsLate(r)'
    BY <1>3 DEF Ordered, HoldsLate, InReuse, At
  <2>3. \A r, s \in Requests : LaterHolds(r, s)'
    BY <1>3, OrderStays
  <2> QED
    BY <1>2, <2>1, <2>2, <2>3 DEF Ordered
<1>4. ASSUME NEW q \in Requests, Arrive(q) \/ Proceed(q) \/ Abort(q)
      PROVE  Ordered'
  <2>1. /\ \A s \in Requests \ {q} : tx'[s] = tx[s]
        /\ HoldsLate(q)'
        /\ ~InReuse(q)' \/ DetectReuse(q) \/ \E x \in Tokens : VisitRow(q, x)
    BY <1>4, Moves
  <2>2. OneRowLeft(q)'
    <3>1. CASE ~InReuse(q)'
      BY <3>1 DEF OneRowLeft
    <3>2. CASE DetectReuse(q)
      BY <3>2, DetectLeavesOne
    <3>3. CASE \E x \in Tokens : VisitRow(q, x)
      BY <3>3, VisitLeavesNone DEF Ordered
    <3> QED
      BY <2>1, <3>1, <3>2, <3>3
  <2>3. \A r \in Requests : OneRowLeft(r)'
    BY <1>1, <2>1, <2>2, RestStays DEF Ordered
  <2>4. \A r \in Requests : HoldsLate(r)'
    <3>1. ASSUME NEW r \in Requests \ {q} PROVE HoldsLate(r)'
      BY <2>1 DEF Ordered, HoldsLate, InReuse, At
    <3> QED
      BY <2>1, <3>1
  <2>5. ASSUME NEW r \in Requests \ {q}, NEW s \in Requests
        PROVE  LaterHolds(r, s)' /\ LaterHolds(s, r)'
    <3>1. CASE s = q
      BY <2>1, <3>1, OrderStays
    <3>2. CASE s # q
      BY <2>1, <3>2, OrderStays
    <3> QED
      BY <3>1, <3>2
  <2>6. LaterHolds(q, q)'
    <3>1. CASE ~InReuse(q)'
      BY <3>1 DEF LaterHolds
    <3>2. CASE DetectReuse(q)
      <4>1. tx'[q].subject \notin tx'[q].rows
        BY <3>2, DetectLeavesOne
      <4> QED
        BY <4>1 DEF LaterHolds
    <3>3. CASE \E x \in Tokens : VisitRow(q, x)
      <4>1. tx'[q].rows = {}
        BY <3>3, VisitLeavesNone DEF Ordered
      <4> QED
        BY <4>1 DEF LaterHolds
    <3> QED
      BY <2>1, <3>1, <3>2, <3>3
  <2> QED
    BY <1>2, <2>3, <2>4, <2>5, <2>6 DEF Ordered
<1> QED
  BY <1>3, <1>4 DEF Next, vars, Expire, ChangeStatus

(* In a group whose every request waits for another of the group, those    *)
(* that hold rows answer a reused token, and each of them waits for one    *)
(* that has seen more tokens; the one that has seen most waits for none.   *)
LEMMA NoCircle ==
  ASSUME IndInv, Ordered
  PROVE  NoRowDeadlock
<1> SUFFICES ASSUME NEW S \in (SUBSET Requests) \ {{}},
                    \A r \in S : \E s \in S : WaitsFor(r, s)
             PROVE  FALSE
  BY DEF NoRowDeadlock
<1>1. \A s \in S : tx[s].locks # {} => InReuse(s) /\ tx[s].locks = {tx[s].subject}
  <2> SUFFICES ASSUME NEW s \in S, tx[s].locks # {}
               PROVE  InReuse(s) /\ tx[s].locks = {tx[s].subject}
    OBVIOUS
  <2>1. PICK x \in S : WaitsFor(s, x)
    OBVIOUS
  <2>2. Wanted(s) # {}
    BY <2>1 DEF WaitsFor
  <2>3. InReuse(s)
    BY <2>2 DEF Ordered, HoldsLate, Wanted, InReuse, At
  <2>4. tx[s].rows # {}
    BY <2>2, <2>3 DEF Wanted, InReuse, At
  <2> QED
    BY <2>3, <2>4 DEF Ordered, OneRowLeft
<1> DEFINE R == {s \in S : InReuse(s)}
           Unseen(s) == DOMAIN token \ tx[s].seen
           U == {Unseen(s) : s \in R}
<1>2. ASSUME NEW r \in S
      PROVE  \E s \in R : WaitsFor(r, s) /\ tx[s].subject \in Wanted(r)
  BY <1>1, <1>2 DEF WaitsFor
<1>3. R # {}
  BY <1>2
<1>4. ASSUME NEW r \in R
      PROVE  \E s \in R : Unseen(s) \subseteq Unseen(r) /\ Unseen(s) # Unseen(r)
  <2>1. PICK s \in R : WaitsFor(r, s) /\ tx[s].subject \in Wanted(r)
    BY <1>2
  <2>2. tx[s].subject \in tx[r].rows
    BY <2>1 DEF Wanted, InReuse, At
  <2>3. PICK y : y \in Wanted(s)
    BY <1>2 DEF WaitsFor
  <2>4. y \in tx[s].rows
    BY <2>3 DEF Wanted, InReuse, At
  <2>5. /\ tx[r].seen \subseteq tx[s].seen \/ tx[s].seen \subseteq tx[r].seen
        /\ y \in tx[s].seen \ tx[r].seen
    BY <2>2, <2>4 DEF Ordered, LaterHolds
  <2>6. tx[s].seen \subseteq DOMAIN token
    BY DEF IndInv, SubjectsExist
  <2>7. y \in Unseen(r) /\ y \notin Unseen(s) /\ Unseen(s) \subseteq Unseen(r)
    BY <2>5, <2>6
  <2> QED
    BY <2>7
<1>5. U # {} /\ U \subseteq FiniteSubsetsOf(DOMAIN token)
  <2>1. ASSUME NEW s \in R PROVE Unseen(s) \in FiniteSubsetsOf(DOMAIN token)
    BY FS_Subset DEF Ordered, FiniteSubsetsOf
  <2> QED
    BY <1>3, <2>1
<1>6. \E u \in U : \A v \in U : <<v, u>> \notin StrictSubsetOrdering(DOMAIN token)
  <2> HIDE DEF U
  <2> QED
    BY <1>5, FS_StrictSubsetOrderingWellFounded, WFMin
<1>7. PICK r \in R : \A s \in R : <<Unseen(s), Unseen(r)>> \notin StrictSubsetOrdering(DOMAIN token)
  BY <1>6
<1>8. PICK s \in R : Unseen(s) \subseteq Unseen(r) /\ Unseen(s) # Unseen(r)
  BY <1>4
<1>9. <<Unseen(s), Unseen(r)>> \in StrictSubsetOrdering(DOMAIN token)
  BY <1>8 DEF StrictSubsetOrdering
<1> QED
  BY <1>7, <1>9

(* The row locks of refresh (auth.service.ts:106), of its answer to a token*)
(* that was used before (:117) and of logout (:149) never make requests    *)
(* wait in a circle, however many there are: the answers that hold a row   *)
(* another waits for are ordered by their start.                           *)
THEOREM RowLocksNeverCircle == Spec => []NoRowDeadlock
<1>1. Init => Ordered
  BY OrderInit
<1>2. IndInv /\ OneLivePerFamily /\ Ordered /\ [Next]_vars => Ordered'
  BY OrderStep
<1>3. IndInv /\ Ordered => NoRowDeadlock
  BY NoCircle
<1> QED
  BY <1>1, <1>2, <1>3, ChainsInductive, OneLive, PTL DEF Spec
=============================================================================

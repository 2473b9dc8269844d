---------------------- MODULE AccountOperationsProofs ----------------------
(***************************************************************************)
(* Isolated requests implement AccountOperations: each of them takes       *)
(* effect at its commit, on the row as it is then, for any number of       *)
(* admins, passwords and requests and any limits.                          *)
(***************************************************************************)
EXTENDS AdminAccountsProofs

-----------------------------------------------------------------------------
(* Rows, column by column.                                                 *)

LEMMA SameRow ==
    ASSUME NEW x \in PlatformAdmin, NEW y \in PlatformAdmin,
           x.status = y.status, x.hashed_password = y.hashed_password,
           x.failed_login_attempts = y.failed_login_attempts,
           x.locked_until = y.locked_until,
           x.current_refresh_jti = y.current_refresh_jti
    PROVE  x = y
  BY DEF PlatformAdmin

(* A row with a counter and a lock put into it, one after the other.       *)
WithLock(row, n, t) == [row EXCEPT !.failed_login_attempts = n, !.locked_until = t]

WithLockFirst(row, n, t) == [row EXCEPT !.locked_until = t, !.failed_login_attempts = n]

LEMMA LockColumns ==
    ASSUME NEW row \in PlatformAdmin, NEW n \in 0..(MaxFailed - 1), NEW t \in Nat \cup {NULL},
           NEW z \in {WithLock(row, n, t), WithLockFirst(row, n, t)}
    PROVE  /\ z \in PlatformAdmin
           /\ z.failed_login_attempts = n /\ z.locked_until = t
           /\ z.status = row.status /\ z.hashed_password = row.hashed_password
           /\ z.current_refresh_jti = row.current_refresh_jti
<1> DEFINE counted == [row EXCEPT !.failed_login_attempts = n]
           locked == [row EXCEPT !.locked_until = t]
           x == [counted EXCEPT !.locked_until = t]
           y == [locked EXCEPT !.failed_login_attempts = n]
<1>1. /\ counted \in PlatformAdmin /\ locked \in PlatformAdmin
      /\ counted.status = row.status /\ counted.hashed_password = row.hashed_password
      /\ counted.current_refresh_jti = row.current_refresh_jti
      /\ counted.failed_login_attempts = n
      /\ locked.status = row.status /\ locked.hashed_password = row.hashed_password
      /\ locked.current_refresh_jti = row.current_refresh_jti
      /\ locked.locked_until = t
  BY DEF PlatformAdmin
<1>2. WithLock(row, n, t) = x /\ WithLockFirst(row, n, t) = y
  BY DEF WithLock, WithLockFirst
<1> HIDE DEF counted, locked
<1>3. /\ x \in PlatformAdmin
      /\ x.status = row.status /\ x.hashed_password = row.hashed_password
      /\ x.current_refresh_jti = row.current_refresh_jti
      /\ x.failed_login_attempts = n /\ x.locked_until = t
  BY <1>1 DEF PlatformAdmin
<1>4. /\ y \in PlatformAdmin
      /\ y.status = row.status /\ y.hashed_password = row.hashed_password
      /\ y.current_refresh_jti = row.current_refresh_jti
      /\ y.failed_login_attempts = n /\ y.locked_until = t
  BY <1>1 DEF PlatformAdmin
<1> HIDE DEF x, y
<1> QED
  BY <1>2, <1>3, <1>4

(* The operations on a row are those of AccountOperations; none of them    *)
(* but a new password touches the password.                                *)
LEMMA RowsAlike ==
    ASSUME NEW row \in PlatformAdmin, now \in Nat
    PROVE  /\ Account!Cleared(row) = ClearLockout(row)
           /\ Account!Unexpired(row) = ExpireLock(row)
           /\ Account!FailedAt(row, now) = CountFailure(ExpireLock(row))
           /\ Account!LockedAt(row, now) <=> Locked(row)
           /\ \A x \in {ClearLockout(row), ExpireLock(row), CountFailure(ExpireLock(row))} :
                 x.hashed_password = row.hashed_password
<1> DEFINE unlocked == ExpireLock(row)
           n == unlocked.failed_login_attempts + 1
           failed == Account!FailedAt(row, now)
           counted == CountFailure(unlocked)
<1>0. 0 \in 0..(MaxFailed - 1) /\ NULL \in Nat \cup {NULL}
  BY LockoutAssumption
<1>1. /\ ClearLockout(row) \in PlatformAdmin /\ ClearLockout(row).locked_until = NULL
      /\ ClearLockout(row).status = row.status
      /\ ClearLockout(row).hashed_password = row.hashed_password
      /\ ClearLockout(row).current_refresh_jti = row.current_refresh_jti
  <2> DEFINE z == ClearLockout(row)
  <2>1. z = WithLockFirst(row, 0, NULL)
    BY DEF ClearLockout, WithLockFirst
  <2> HIDE DEF z
  <2>2. /\ z \in PlatformAdmin /\ z.locked_until = NULL
        /\ z.status = row.status /\ z.hashed_password = row.hashed_password
        /\ z.current_refresh_jti = row.current_refresh_jti
    BY <1>0, <2>1, LockColumns
  <2> QED
    BY <2>2 DEF z
<1>2. /\ unlocked \in PlatformAdmin /\ unlocked.locked_until = NULL
      /\ unlocked.status = row.status /\ unlocked.hashed_password = row.hashed_password
      /\ unlocked.current_refresh_jti = row.current_refresh_jti
  BY <1>1 DEF ExpireLock
<1>3. Account!Cleared(row) = ClearLockout(row) /\ Account!Unexpired(row) = unlocked
  BY DEF Account!Cleared, ClearLockout, Account!Unexpired, ExpireLock
<1>4. unlocked.failed_login_attempts \in Nat /\ MaxFailed \in Nat \ {0} /\ now + Lockout \in Nat
  BY <1>2, LockoutAssumption DEF PlatformAdmin
<1>5. failed = WithLock(row, IF n < MaxFailed THEN n ELSE 0,
                        IF n < MaxFailed THEN NULL ELSE now + Lockout)
  BY <1>3 DEF Account!FailedAt, WithLock
<1> HIDE DEF unlocked, failed, counted
<1>6. ASSUME n < MaxFailed PROVE failed = counted /\ counted.hashed_password = row.hashed_password
  <2>1. failed = WithLock(row, n, NULL)
    BY <1>5, <1>6
  <2>2. n \in 0..(MaxFailed - 1)
    BY <1>4, <1>6
  <2>3. /\ failed \in PlatformAdmin
        /\ failed.failed_login_attempts = n /\ failed.locked_until = NULL
        /\ failed.status = row.status /\ failed.hashed_password = row.hashed_password
        /\ failed.current_refresh_jti = row.current_refresh_jti
    <3> HIDE DEF n
    <3> QED
      BY <1>0, <2>1, <2>2, LockColumns
  <2>4. counted = [unlocked EXCEPT !.failed_login_attempts = n]
    BY <1>4, <1>6 DEF counted, CountFailure
  <2>5. /\ counted \in PlatformAdmin
        /\ counted.failed_login_attempts = n /\ counted.locked_until = NULL
        /\ counted.status = row.status /\ counted.hashed_password = row.hashed_password
        /\ counted.current_refresh_jti = row.current_refresh_jti
    BY <1>2, <2>2, <2>4 DEF PlatformAdmin
  <2> QED
    BY <2>3, <2>5, SameRow
<1>7. ASSUME ~(n < MaxFailed) PROVE failed = counted /\ counted.hashed_password = row.hashed_password
  <2> DEFINE until == now + Lockout
  <2>0. until \in Nat \cup {NULL}
    BY <1>4
  <2>1. failed = WithLock(row, 0, until)
    BY <1>5, <1>7
  <2>2. 0 \in 0..(MaxFailed - 1)
    BY <1>4
  <2> HIDE DEF until
  <2>3. /\ failed \in PlatformAdmin
        /\ failed.failed_login_attempts = 0 /\ failed.locked_until = until
        /\ failed.status = row.status /\ failed.hashed_password = row.hashed_password
        /\ failed.current_refresh_jti = row.current_refresh_jti
    BY <2>0, <2>1, <2>2, LockColumns
  <2>4. counted = WithLockFirst(unlocked, 0, until)
    BY <1>4, <1>7 DEF counted, CountFailure, WithLockFirst, until
  <2>5. /\ counted \in PlatformAdmin
        /\ counted.failed_login_attempts = 0 /\ counted.locked_until = until
        /\ counted.status = row.status /\ counted.hashed_password = row.hashed_password
        /\ counted.current_refresh_jti = row.current_refresh_jti
    BY <1>2, <2>0, <2>2, <2>4, LockColumns
  <2> QED
    BY <2>3, <2>5, SameRow
<1>8. failed = counted /\ counted.hashed_password = row.hashed_password
  BY <1>6, <1>7
<1>9. Account!LockedAt(row, now) <=> Locked(row)
  BY DEF Account!LockedAt, Locked
<1> QED
  BY <1>1, <1>2, <1>3, <1>8, <1>9 DEF failed, counted, unlocked

-----------------------------------------------------------------------------
(* What a request is about to commit is what its operation makes of the    *)
(* row it has loaded.                                                      *)

Counts(q, t) ==
    /\ ~Account!LockedAt(q.was, t)
    /\ \/ q.obj = Account!FailedAt(q.was, t)
       \/ q.was.status = "inactive" /\ q.obj = Account!Unexpired(q.was)

Resets(q, password) ==
    /\ q.was.status = "active" /\ password # q.was.hashed_password
    /\ q.obj = [Account!Cleared(q.was) EXCEPT !.current_refresh_jti = NULL,
                                              !.hashed_password = password]

Replaces(q, password) ==
    q.obj = [Account!Cleared(q.was) EXCEPT !.hashed_password = password]

PreparedSession(q) ==
    \/ /\ q.op = "login" /\ q.token = NULL
       /\ q.obj = Account!Cleared(q.was)
       /\ \E t \in 0..now : ~Account!LockedAt(q.was, t)
    \/ q.op = "refresh" /\ q.token # NULL /\ q.obj = q.was

PreparedSave(q) ==
    \/ q.op = "login" /\ \E t \in 0..now : Counts(q, t)
    \/ q.op = "logout" /\ q.obj = [q.was EXCEPT !.current_refresh_jti = NULL]
    \/ q.op = "reset" /\ \E password \in Passwords : Resets(q, password)
    \/ q.op = "deactivate" /\ q.obj = q.was
    \/ q.op \in {"deactivate", "delete"} /\ q.obj = Deactivated(q.was)
    \/ q.op = "activate" /\ q.obj = [q.was EXCEPT !.status = "active"]
    \/ q.op = "replace" /\ \E password \in Passwords : Replaces(q, password)

Prepared(q) ==
    /\ q.pc \in {"authorizing", "issuing"} => PreparedSession(q)
    /\ q.pc = "saving" => PreparedSave(q)

PreparedInv == \A r \in Requests : Prepared(req[r])

(* Time that passes takes no moment of the past away.                      *)
LEMMA PreparedStep ==
    ASSUME PreparedInv, now \in Nat, now' \in {now, now + 1},
           \A r \in Requests : req'[r] = req[r] \/ Prepared(req'[r])
    PROVE  PreparedInv'
<1> SUFFICES ASSUME NEW r \in Requests PROVE Prepared(req[r])'
  BY DEF PreparedInv
<1>1. \A t \in 0..now : t \in 0..now'
  OBVIOUS
<1>2. ASSUME NEW q, Prepared(q), req'[r] = q PROVE Prepared(req[r])'
  <2>1. PreparedSession(q) => PreparedSession(req[r])'
    BY <1>1, <1>2 DEF PreparedSession, Account!LockedAt, Account!Cleared
  <2>2. PreparedSave(q) => PreparedSave(req[r])'
    BY <1>1, <1>2 DEF PreparedSave, Counts, Resets, Replaces, Deactivated,
       Account!LockedAt, Account!FailedAt, Account!Unexpired, Account!Cleared
  <2> QED
    BY <1>2, <2>1, <2>2 DEF Prepared
<1>3. Prepared(req[r]) \/ Prepared(req'[r])
  BY DEF PreparedInv
<1> QED
  BY <1>2, <1>3 DEF PreparedInv

LEMMA IdlePrepared == Prepared(Idle)
  BY DEF Idle, Request, Prepared

LEMMA BegunPrepared ==
    ASSUME Inv, NEW r \in Requests, NEW op, NEW a, NEW token, NEW pc, NEW was, NEW obj,
           Begin(r, op, a, token, pc, was, obj)
    PROVE  /\ req'[r].op = op /\ req'[r].admin = a /\ req'[r].token = token
           /\ req'[r].pc = pc /\ req'[r].was = was /\ req'[r].obj = obj
  BY DEF Inv, TypeOK, Begin, Request

LEMMA AuthStartPrepared ==
    ASSUME Inv, NEW r \in Requests, NEW a \in Admins, NEW password \in Passwords,
           \/ LoginWrongPassword(r, a, password) \/ LoginInactive(r, a, password)
           \/ Login(r, a, password) \/ ResetPassword(r, a, password)
    PROVE  Prepared(req'[r])
<1> DEFINE row == admins[a]
<1>1. row \in PlatformAdmin /\ now \in Nat /\ row.status \in {"active", "inactive"}
  BY DEF Inv, TypeOK, PlatformAdmin, Status
<1>2. /\ Account!Cleared(row) = ClearLockout(row)
      /\ Account!Unexpired(row) = ExpireLock(row)
      /\ Account!FailedAt(row, now) = CountFailure(ExpireLock(row))
      /\ Account!LockedAt(row, now) <=> Locked(row)
  BY <1>1, RowsAlike
<1>3. now \in 0..now
  BY <1>1
<1>4. CASE LoginWrongPassword(r, a, password)
  <2>1. ~Locked(row) /\ Begin(r, "login", a, NULL, "saving", row, CountFailure(ExpireLock(row)))
    BY <1>4 DEF LoginWrongPassword
  <2>2. /\ req'[r].op = "login" /\ req'[r].pc = "saving" /\ req'[r].was = row
        /\ req'[r].obj = CountFailure(ExpireLock(row))
    BY <2>1, BegunPrepared
  <2> HIDE DEF row
  <2>3. Counts(req'[r], now)
    BY <1>2, <2>1, <2>2 DEF Counts
  <2> QED
    BY <1>3, <2>2, <2>3 DEF Prepared, PreparedSave
<1>5. CASE LoginInactive(r, a, password)
  <2>1. /\ ~Locked(row) /\ row.status # "active"
        /\ Begin(r, "login", a, NULL, "saving", row, ExpireLock(row))
    BY <1>5 DEF LoginInactive
  <2>2. /\ req'[r].op = "login" /\ req'[r].pc = "saving" /\ req'[r].was = row
        /\ req'[r].obj = ExpireLock(row)
    BY <2>1, BegunPrepared
  <2> HIDE DEF row
  <2>3. Counts(req'[r], now)
    BY <1>1, <1>2, <2>1, <2>2 DEF Counts
  <2> QED
    BY <1>3, <2>2, <2>3 DEF Prepared, PreparedSave
<1>6. CASE Login(r, a, password)
  <2>1. ~Locked(row) /\ Begin(r, "login", a, NULL, "authorizing", row, ClearLockout(row))
    BY <1>6 DEF Login
  <2>2. /\ req'[r].op = "login" /\ req'[r].token = NULL /\ req'[r].pc = "authorizing"
        /\ req'[r].was = row /\ req'[r].obj = ClearLockout(row)
    BY <2>1, BegunPrepared
  <2> HIDE DEF row
  <2> QED
    BY <1>2, <1>3, <2>1, <2>2 DEF Prepared, PreparedSession
<1>7. CASE ResetPassword(r, a, password)
  <2> DEFINE obj == [ClearLockout(row) EXCEPT !.current_refresh_jti = NULL,
                                              !.hashed_password = password]
  <2>1. /\ row.status = "active" /\ password # row.hashed_password
        /\ Begin(r, "reset", a, NULL, "saving", row, obj)
    BY <1>7 DEF ResetPassword
  <2>2. /\ req'[r].op = "reset" /\ req'[r].pc = "saving" /\ req'[r].was = row
        /\ req'[r].obj = obj
    BY <2>1, BegunPrepared
  <2> HIDE DEF row
  <2>3. Resets(req'[r], password)
    BY <1>2, <2>1, <2>2 DEF Resets
  <2> QED
    BY <2>2, <2>3 DEF Prepared, PreparedSave
<1> QED
  BY <1>4, <1>5, <1>6, <1>7

LEMMA TokenStartPrepared ==
    ASSUME Inv, NEW r \in Requests, NEW token \in Tokens,
           \/ Refresh(r, token) \/ Logout(r, token)
           \/ \E op \in Managing, a \in Admins : Manage(r, token, op, a)
    PROVE  Prepared(req'[r])
<1> DEFINE a == issued[token].admin
<1>1. token # NULL
  BY NullAssumption DEF Inv, TypeOK, Tokens
<1>2. CASE Refresh(r, token)
  <2>1. Begin(r, "refresh", a, token, "issuing", admins[a], admins[a])
    BY <1>2 DEF Refresh
  <2> QED
    BY <1>1, <2>1, BegunPrepared DEF Prepared, PreparedSession
<1>3. CASE Logout(r, token)
  <2>1. Begin(r, "logout", a, token, "saving", admins[a],
              [admins[a] EXCEPT !.current_refresh_jti = NULL])
    BY <1>3 DEF Logout
  <2> QED
    BY <2>1, BegunPrepared DEF Prepared, PreparedSave
<1>4. ASSUME NEW op \in Managing, NEW b \in Admins, Manage(r, token, op, b)
      PROVE  Prepared(req'[r])
  <2>1. req'[r].pc = "loading"
    BY <1>4, BegunPrepared DEF Manage
  <2> QED
    BY <2>1 DEF Prepared
<1> QED
  BY <1>2, <1>3, <1>4

LEMMA LoadTargetPrepared ==
    ASSUME Inv, NEW r \in Requests, LoadTarget(r)
    PROVE  Prepared(req'[r])
<1> DEFINE op == req[r].op
           a == req[r].admin
           token == req[r].token
           row == IF req[r].was = NULL THEN admins[a] ELSE req[r].was
<1>1. \/ Begin(r, op, a, token, "guarding", row, row)
      \/ op = "deactivate" /\ Begin(r, op, a, token, "saving", row, row)
      \/ op = "delete" /\ Begin(r, op, a, token, "saving", row, Deactivated(row))
      \/ op = "activate" /\ Begin(r, op, a, token, "saving", row, [row EXCEPT !.status = "active"])
      \/ op = "replace" /\ \E password \in Passwords :
            Begin(r, op, a, token, "saving", row,
                  [ClearLockout(row) EXCEPT !.hashed_password = password])
  BY DEF LoadTarget
<1>2. Account!Cleared(row) = ClearLockout(row)
  BY DEF Account!Cleared, ClearLockout
<1> HIDE DEF op, a, token, row
<1>3. ASSUME NEW pc, NEW obj, Begin(r, op, a, token, pc, row, obj)
      PROVE  req'[r].op = op /\ req'[r].pc = pc /\ req'[r].was = row /\ req'[r].obj = obj
  BY <1>3, BegunPrepared
<1>4. CASE Begin(r, op, a, token, "guarding", row, row)
  BY <1>3, <1>4 DEF Prepared
<1>5. CASE op = "deactivate" /\ Begin(r, op, a, token, "saving", row, row)
  BY <1>3, <1>5 DEF Prepared, PreparedSave
<1>6. CASE op = "delete" /\ Begin(r, op, a, token, "saving", row, Deactivated(row))
  BY <1>3, <1>6 DEF Prepared, PreparedSave
<1>7. CASE op = "activate" /\ Begin(r, op, a, token, "saving", row, [row EXCEPT !.status = "active"])
  BY <1>3, <1>7 DEF Prepared, PreparedSave
<1>8. ASSUME op = "replace", NEW password \in Passwords,
             Begin(r, op, a, token, "saving", row,
                   [ClearLockout(row) EXCEPT !.hashed_password = password])
      PROVE  Prepared(req'[r])
  <2>1. req'[r].op = op /\ req'[r].pc = "saving" /\ Replaces(req'[r], password)
    BY <1>2, <1>3, <1>8 DEF Replaces
  <2> QED
    BY <1>8, <2>1 DEF Prepared, PreparedSave
<1> QED
  BY <1>1, <1>4, <1>5, <1>6, <1>7, <1>8

LEMMA GuardPrepared ==
    ASSUME Inv, PreparedInv, NEW r \in Requests, Autoflush(r) \/ GuardLastActive(r)
    PROVE  Prepared(req'[r])
<1>1. req \in [Requests -> RequestType] /\ Holds(req[r]) /\ Prepared(req[r])
  BY DEF Inv, TypeOK, WorkInv, PreparedInv
<1>2. CASE Autoflush(r)
  <2>1. /\ req[r].pc = "authorizing" /\ req'[r].pc = "issuing"
        /\ req'[r].was = req[r].was /\ req'[r].obj = req[r].obj /\ req'[r].op = req[r].op
        /\ req'[r].token = req[r].token
    BY <1>1, <1>2 DEF Autoflush, RequestType
  <2> QED
    BY <1>1, <2>1 DEF Prepared, PreparedSession
<1>3. CASE GuardLastActive(r)
  <2>1. CASE req' = [req EXCEPT ![r] = Idle]
    BY <1>1, <2>1, IdlePrepared
  <2>2. CASE req' = [req EXCEPT ![r].pc = "saving", ![r].obj = Deactivated(@)]
    <3>1. /\ req[r].pc = "guarding" /\ req[r].obj = req[r].was
          /\ req[r].op \in {"deactivate", "delete"}
      BY <1>1, <1>3 DEF GuardLastActive, Holds
    <3>2. /\ req'[r].pc = "saving" /\ req'[r].obj = Deactivated(req[r].was)
          /\ req'[r].was = req[r].was /\ req'[r].op = req[r].op
      BY <1>1, <2>2, <3>1 DEF RequestType
    <3> QED
      BY <3>1, <3>2 DEF Prepared, PreparedSave
  <2> QED
    BY <1>3, <2>1, <2>2 DEF GuardLastActive
<1> QED
  BY <1>2, <1>3

LEMMA NextPreparedInv == Inv /\ PreparedInv /\ [Next]_vars => PreparedInv'
<1> SUFFICES ASSUME Inv, PreparedInv, [Next]_vars PROVE PreparedInv'
  OBVIOUS
<1>0. now \in Nat /\ req \in [Requests -> RequestType]
  BY DEF Inv, TypeOK
<1>1. ASSUME NEW r \in Requests, Moves(r), Prepared(req'[r]), now' = now PROVE PreparedInv'
  <2>1. \A s \in Requests : req'[s] = req[s] \/ Prepared(req'[s])
    BY <1>1, OthersKeep DEF Moves
  <2> QED
    BY <1>0, <1>1, <2>1, PreparedStep
<1>2. ASSUME NEW r \in Requests, AuthStep(r), ~IssueSession(r) PROVE PreparedInv'
  <2>1. Prepared(req'[r])
    BY <1>2, AuthStartPrepared, TokenStartPrepared, GuardPrepared DEF AuthStep
  <2>2. now' = now
    BY <1>2 DEF AuthStep, LoginWrongPassword, LoginInactive, Login, ResetPassword,
       Refresh, Logout, Autoflush
  <2> QED
    BY <1>1, <1>2, <2>1, <2>2 DEF Moves
<1>3. ASSUME NEW r \in Requests, ManageStep(r) PROVE PreparedInv'
  <2>1. Prepared(req'[r])
    BY <1>3, TokenStartPrepared, LoadTargetPrepared, GuardPrepared DEF ManageStep
  <2>2. now' = now
    BY <1>3 DEF ManageStep, Manage, LoadTarget, GuardLastActive
  <2> QED
    BY <1>1, <1>3, <2>1, <2>2 DEF Moves
<1>4. ASSUME NEW r \in Requests, IssueSession(r) \/ Save(r) \/ Abandon(r) PROVE PreparedInv'
  <2>1. req'[r] = Idle /\ now' = now
    BY <1>0, <1>4 DEF IssueSession, Save, Abandon, Finish
  <2> QED
    BY <1>1, <1>4, <2>1, IdlePrepared DEF Moves, AuthStep
<1>5. CASE Tick
  BY <1>0, <1>5, PreparedStep DEF Tick
<1>6. CASE UNCHANGED vars
  BY <1>0, <1>6, PreparedStep DEF vars
<1> QED
  BY <1>2, <1>3, <1>4, <1>5, <1>6 DEF Next

-----------------------------------------------------------------------------
(* Commits.  While the requests on an admin keep apart, what a commit      *)
(* leaves behind is what the request holds, and that is what the operation *)
(* makes of the row as it is.                                              *)

LEMMA WholeRowCommits ==
    ASSUME NEW was \in PlatformAdmin, NEW obj \in PlatformAdmin, NEW sets \in BOOLEAN,
           sets \/ obj.hashed_password = was.hashed_password
    PROVE  Updated(was, was, obj, sets) = obj
<1> DEFINE row == Updated(was, was, obj, sets)
<1>1. row \in PlatformAdmin
  BY UpdatedType
<1>2. /\ row.status = obj.status /\ row.hashed_password = obj.hashed_password
      /\ row.failed_login_attempts = obj.failed_login_attempts
      /\ row.locked_until = obj.locked_until
      /\ row.current_refresh_jti = obj.current_refresh_jti
  BY DEF Updated, Column
<1> HIDE DEF row
<1>3. row = obj
  BY <1>1, <1>2, SameRow
<1> QED
  BY <1>3 DEF row

(* The session of a login or a refresh begins at its commit.               *)
LEMMA IssueImplements ==
    ASSUME Inv, SessionInv, PreparedInv, NEW r \in Requests, IssueSession(r)
    PROVE  Account!Next
<1> DEFINE a == req[r].admin
           was == req[r].was
           held == req[r].obj
           jti == Len(issued) + 1
           obj == [held EXCEPT !.current_refresh_jti = jti]
           session == [admin |-> a, from |-> req[r].token]
<1>1. /\ req[r].pc = "issuing" /\ a \in Admins /\ now \in Nat
      /\ was \in PlatformAdmin /\ held \in PlatformAdmin
      /\ was = admins[a] /\ was.status = "active"
      /\ req[r].token # NULL => was.current_refresh_jti = req[r].token
      /\ PreparedSession(req[r])
      /\ issued \in Seq(Session)
  BY DEF IssueSession, Inv, TypeOK, WorkInv, Holds, SessionInv, Faithful, Working,
     PreparedInv, Prepared
<1>2. /\ admins' = [admins EXCEPT ![a] = Updated(admins[a], was, obj, FALSE)]
      /\ issued' = Append(issued, session)
      /\ now' = now
  BY DEF IssueSession
<1>3. jti \in Nat
  BY <1>1
<1>4. held.hashed_password = was.hashed_password
  <2>1. ClearLockout(was).hashed_password = was.hashed_password /\ Account!Cleared(was) = ClearLockout(was)
    BY <1>1, RowsAlike
  <2> QED
    BY <1>1, <2>1 DEF PreparedSession
<1> HIDE DEF jti, was, held, a
<1>5. obj \in PlatformAdmin /\ obj.hashed_password = was.hashed_password
  BY <1>1, <1>3, <1>4 DEF PlatformAdmin
<1>6. Updated(admins[a], was, obj, FALSE) = obj
  <2> HIDE DEF obj
  <2> QED
    BY <1>1, <1>5, WholeRowCommits
<1>7. admins' = [admins EXCEPT ![a] = [held EXCEPT !.current_refresh_jti = jti]]
  BY <1>2, <1>6
<1>8. CASE /\ req[r].op = "login" /\ req[r].token = NULL
           /\ held = Account!Cleared(was)
           /\ \E t \in 0..now : ~Account!LockedAt(was, t)
  <2>1. Account!Open(a, Account!Cleared(admins[a]), NULL)
    BY <1>1, <1>2, <1>7, <1>8 DEF Account!Open, jti
  <2>2. PICK t \in 0..now : ~Account!LockedAt(admins[a], t)
    BY <1>1, <1>8
  <2>3. Account!Login(a, t)
    BY <2>1, <2>2 DEF Account!Login
  <2> QED
    BY <1>1, <2>3 DEF Account!Next, Account!Operation
<1>9. CASE req[r].op = "refresh" /\ req[r].token # NULL /\ held = was
  <2>1. Account!Open(a, admins[a], admins[a].current_refresh_jti)
    BY <1>1, <1>2, <1>7, <1>9 DEF Account!Open, jti
  <2>2. Account!Refresh(a)
    BY <1>1, <1>9, <2>1 DEF Account!Refresh
  <2> QED
    BY <1>1, <2>2 DEF Account!Next, Account!Operation
<1> QED
  BY <1>1, <1>8, <1>9 DEF PreparedSession, held, was

(* Every other operation takes effect, or finds nothing left to do, at the *)
(* commit of its changes.                                                  *)
LEMMA SaveImplements ==
    ASSUME Inv, SessionInv, SerialInv, PreparedInv, NEW r \in Requests, Save(r)
    PROVE  Account!Next \/ UNCHANGED Account!vars
<1> DEFINE a == req[r].admin
           was == req[r].was
           obj == req[r].obj
<1>1. /\ req[r].pc = "saving" /\ a \in Admins /\ now \in Nat
      /\ admins \in [Admins -> PlatformAdmin]
      /\ was \in PlatformAdmin /\ obj \in PlatformAdmin
      /\ was = admins[a]
      /\ was.status = "inactive" => was.current_refresh_jti = NULL
      /\ Deactivating(req[r]) => OtherActive(a)
      /\ PreparedSave(req[r])
  BY DEF Save, Inv, TypeOK, WorkInv, Holds, SessionInv, Faithful, Working,
     InactiveHasNoSession, SerialInv, PreparedInv, Prepared
<1>2. /\ admins' = [admins EXCEPT ![a] = Updated(admins[a], was, obj, SetsPassword(r))]
      /\ UNCHANGED <<issued, now>>
  BY DEF Save
<1>3. SetsPassword(r) \/ obj.hashed_password = was.hashed_password
  <2>1. \A t \in Nat : Account!FailedAt(was, t).hashed_password = was.hashed_password
    BY <1>1 DEF Account!FailedAt, PlatformAdmin
  <2>2. /\ Account!Unexpired(was).hashed_password = was.hashed_password
        /\ Deactivated(was).hashed_password = was.hashed_password
        /\ [was EXCEPT !.current_refresh_jti = NULL].hashed_password = was.hashed_password
        /\ [was EXCEPT !.status = "active"].hashed_password = was.hashed_password
    BY <1>1 DEF Account!Unexpired, Account!Cleared, Deactivated, PlatformAdmin
  <2>3. 0..now \subseteq Nat
    OBVIOUS
  <2> HIDE DEF was, obj
  <2>4. CASE req[r].op = "login"
    BY <1>1, <2>1, <2>2, <2>3, <2>4 DEF PreparedSave, Counts, was, obj
  <2>5. CASE req[r].op # "login"
    BY <1>1, <2>2, <2>5 DEF PreparedSave, SetsPassword, was, obj
  <2> QED
    BY <2>4, <2>5
<1>4. Account!Put(a, obj)
  <2>1. SetsPassword(r) \in BOOLEAN
    BY DEF SetsPassword
  <2>2. Updated(admins[a], was, obj, SetsPassword(r)) = obj
    BY <1>1, <1>3, <2>1, WholeRowCommits
  <2> HIDE DEF a, was, obj
  <2> QED
    BY <1>2, <2>2 DEF Account!Put
<1>5. ASSUME Account!Operation(a) PROVE Account!Next
  BY <1>1, <1>5 DEF Account!Next
<1> HIDE DEF a
<1>6. CASE req[r].op = "login" /\ \E t \in 0..now : Counts(req[r], t)
  <2>1. PICK t \in 0..now : Counts(req[r], t)
    BY <1>6
  <2>2. Account!WrongPassword(a, t) \/ Account!InactiveLogin(a, t)
    BY <1>1, <1>4, <2>1 DEF Counts, Account!WrongPassword, Account!InactiveLogin
  <2> QED
    BY <1>5, <2>2 DEF Account!Operation
<1>7. CASE req[r].op = "logout" /\ obj = [was EXCEPT !.current_refresh_jti = NULL]
  BY <1>1, <1>4, <1>5, <1>7 DEF Account!Operation, Account!Logout
<1>8. CASE req[r].op = "reset" /\ \E password \in Passwords : Resets(req[r], password)
  BY <1>1, <1>4, <1>5, <1>8 DEF Resets, Account!Operation, Account!Reset
<1>9. CASE obj = was
  <2>1. admins' = admins
    BY <1>1, <1>4, <1>9 DEF Account!Put
  <2> QED
    BY <1>2, <2>1 DEF Account!vars
<1>10. CASE obj = Deactivated(was) /\ was.status = "active"
  <2>1. obj.status = "inactive" /\ obj = [was EXCEPT !.status = "inactive", !.current_refresh_jti = NULL]
    BY <1>1, <1>10 DEF Deactivated, PlatformAdmin
  <2>2. OtherActive(a)
    BY <1>1, <1>10, <2>1 DEF Deactivating
  <2>3. Account!Deactivate(a)
    BY <1>1, <1>4, <2>1, <2>2 DEF OtherActive, Account!Deactivate
  <2> QED
    BY <1>5, <2>3 DEF Account!Operation
<1>11. CASE obj = Deactivated(was) /\ was.status = "inactive"
  <2>1. obj = was
    BY <1>1, <1>11 DEF Deactivated, PlatformAdmin
  <2> QED
    BY <1>9, <2>1
<1>12. CASE req[r].op = "activate" /\ obj = [was EXCEPT !.status = "active"]
  BY <1>1, <1>4, <1>5, <1>12 DEF Account!Operation, Account!Activate
<1>13. CASE req[r].op = "replace" /\ \E password \in Passwords : Replaces(req[r], password)
  BY <1>1, <1>4, <1>5, <1>13 DEF Replaces, Account!Operation, Account!Replace
<1>14. was.status \in {"active", "inactive"}
  BY <1>1 DEF PlatformAdmin, Status
<1> QED
  BY <1>1, <1>6, <1>7, <1>8, <1>9, <1>10, <1>11, <1>12, <1>13, <1>14 DEF PreparedSave

LEMMA NextImplements ==
    ASSUME Inv, SessionInv, SerialInv, PreparedInv, [Next]_vars
    PROVE  [Account!Next]_(Account!vars)
<1>1. CASE UNCHANGED <<admins, issued, now>>
  BY <1>1 DEF Account!vars
<1>2. ASSUME NEW r \in Requests, AuthStep(r), ~IssueSession(r)
      PROVE  UNCHANGED <<admins, issued, now>>
  BY <1>2 DEF AuthStep, LoginWrongPassword, LoginInactive, Login, ResetPassword,
     Refresh, Logout, Autoflush
<1>3. ASSUME NEW r \in Requests, ManageStep(r) PROVE UNCHANGED <<admins, issued, now>>
  BY <1>3 DEF ManageStep, Manage, LoadTarget, GuardLastActive
<1>4. ASSUME NEW r \in Requests, Abandon(r) PROVE UNCHANGED <<admins, issued, now>>
  BY <1>4 DEF Abandon
<1>5. CASE Tick
  BY <1>5 DEF Tick, Account!Next, Account!Tick
<1>6. CASE UNCHANGED vars
  BY <1>1, <1>6 DEF vars
<1> QED
  BY <1>1, <1>2, <1>3, <1>4, <1>5, <1>6, IssueImplements, SaveImplements DEF Next

(* Requests that are isolated implement the operations: each takes effect  *)
(* in one instant, though it reads in one transaction and commits in a     *)
(* later one, and whatever requests on other admins do in between.         *)
THEOREM RequestsImplementOperations ==
    Spec /\ []Isolated => ImplementsOperations
<1>1. Init => Account!Init /\ PreparedInv
  <2>1. Init => Account!Init
    BY DEF Init, Account!Init, Status
  <2>2. Init => PreparedInv
    BY IdlePrepared DEF Init, PreparedInv
  <2> QED
    BY <2>1, <2>2
<1>2. Inv /\ PreparedInv /\ [Next]_vars => PreparedInv'
  BY NextPreparedInv
<1>3. Inv /\ SessionInv /\ SerialInv /\ PreparedInv /\ [Next]_vars => [Account!Next]_(Account!vars)
  BY NextImplements
<1>4. Isolated => OnePerAdmin /\ OneDeactivation
  BY DEF Isolated
<1> QED
  BY <1>1, <1>2, <1>3, <1>4, Invariance, SessionInvariance, SerialInvariance, PTL
     DEF Spec, ImplementsOperations, Account!Spec
=============================================================================

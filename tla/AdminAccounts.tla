--------------------------- MODULE AdminAccounts ---------------------------
(***************************************************************************)
(* The platform_admins rows under concurrent requests: login and lockout,  *)
(* refresh, logout and the account half of a password reset                *)
(* (services/auth_service.py), and the management of admins by admins      *)
(* (services/user_service.py).                                             *)
(*                                                                         *)
(* A request works on its own copy of a row, read in one transaction, and  *)
(* its commit writes only the columns it has changed in that copy: the     *)
(* SQLAlchemy session is a unit of work over an identity map, with         *)
(* expire_on_commit=False, and PostgreSQL runs READ COMMITTED.             *)
(***************************************************************************)
EXTENDS Naturals, Sequences

CONSTANTS
    Admins,         \* Platform Admins
    Passwords,      \* passwords
    Requests,       \* request tasks running at a time
    NULL,           \* an empty column
    NoOne,          \* nobody holds a row lock
    MaxFailed,      \* settings.max_failed_login_attempts
    Lockout,        \* settings.lockout_minutes, in ticks
    MaxNow,         \* bound on time
    MaxIssued       \* bound on the sessions issued

ASSUME NullAssumption == NULL \notin Nat /\ NULL \notin Admins
ASSUME RequestsAssumption == NoOne \notin Requests
ASSUME LockoutAssumption == MaxFailed \in Nat \ {0} /\ Lockout \in Nat \ {0}
ASSUME BoundsAssumption == MaxNow \in Nat /\ MaxIssued \in Nat

VARIABLES
    admins,         \* the committed row of each admin
    row_lock,       \* the request whose transaction has updated the row
    issued,         \* the sessions issued: a token is a position in it
    req,            \* what each request is doing
    now             \* utcnow()

vars == <<admins, row_lock, issued, req, now>>

-----------------------------------------------------------------------------
(* Rows.                                                                   *)

Status == {"active", "inactive"}

PlatformAdmin ==
    [status : Status,
     hashed_password : Passwords,
     failed_login_attempts : 0..(MaxFailed - 1),
     locked_until : Nat \cup {NULL},
     current_refresh_jti : Nat \cup {NULL}]

(* A column is part of the UPDATE when it differs from what was loaded.    *)
Column(stored, was, obj) == IF obj # was THEN obj ELSE stored

(* Mutant of Updated: the whole object is written back.                    *)
UpdatedWhole(stored, was, obj, setsPassword) == obj

(* The row after the UPDATE of a request that loaded "was" and holds       *)
(* "obj".  A new hash has a new salt, so hashed_password is written        *)
(* whenever the request sets it.                                           *)
Updated(stored, was, obj, setsPassword) ==
    [status |-> Column(stored.status, was.status, obj.status),
     hashed_password |-> IF setsPassword THEN obj.hashed_password
                         ELSE stored.hashed_password,
     failed_login_attempts |->
        Column(stored.failed_login_attempts, was.failed_login_attempts,
               obj.failed_login_attempts),
     locked_until |-> Column(stored.locked_until, was.locked_until, obj.locked_until),
     current_refresh_jti |->
        Column(stored.current_refresh_jti, was.current_refresh_jti,
               obj.current_refresh_jti)]

Locked(row) == row.locked_until # NULL /\ row.locked_until > now

(* Mutant of ClearLockout: the failures before a login stay counted.       *)
ClearLockoutKeepsCounter(row) == [row EXCEPT !.locked_until = NULL]

ClearLockout(row) == [row EXCEPT !.locked_until = NULL, !.failed_login_attempts = 0]

(* An expired lock is cleared in memory when the next login reads it.      *)
ExpireLock(row) == IF row.locked_until # NULL THEN ClearLockout(row) ELSE row

(* Mutant of CountFailure: the counter survives the lockout it caused.     *)
CountFailureKeepsCounter(row) ==
    IF row.failed_login_attempts + 1 >= MaxFailed
    THEN [row EXCEPT !.locked_until = now + Lockout, !.failed_login_attempts = @ + 1]
    ELSE [row EXCEPT !.failed_login_attempts = @ + 1]

(* A wrong password: one failure more, or the lockout and a fresh counter. *)
CountFailure(row) ==
    IF row.failed_login_attempts + 1 >= MaxFailed
    THEN [row EXCEPT !.locked_until = now + Lockout, !.failed_login_attempts = 0]
    ELSE [row EXCEPT !.failed_login_attempts = @ + 1]

(* Mutant of Deactivated: the session pointer stays.                       *)
DeactivatedKeepsSession(row) == [row EXCEPT !.status = "inactive"]

(* What update_user and delete_user make of an active admin.               *)
Deactivated(row) == [row EXCEPT !.status = "inactive", !.current_refresh_jti = NULL]

-----------------------------------------------------------------------------
(* Requests.                                                               *)

Operations == {"none", "login", "refresh", "logout", "reset",
               "deactivate", "activate", "replace", "delete"}

Managing == {"deactivate", "activate", "replace", "delete"}

RequestStates == {"idle", "authorizing", "issuing", "loading", "guarding", "saving"}

Session == [admin : Admins, from : Nat \cup {NULL}]

Tokens == 1..Len(issued)

Request(op, a, token, pc, was, obj) ==
    [op |-> op, admin |-> a, token |-> token, pc |-> pc, was |-> was, obj |-> obj]

Idle == Request("none", NULL, NULL, "idle", NULL, NULL)

Begin(r, op, a, token, pc, was, obj) ==
    req' = [req EXCEPT ![r] = Request(op, a, token, pc, was, obj)]

(* The transaction ends by a commit or a rollback; its row lock is freed.  *)
Finish(r) ==
    /\ req' = [req EXCEPT ![r] = Idle]
    /\ row_lock' = [a \in Admins |-> IF row_lock[a] = r THEN NoOne ELSE row_lock[a]]

SetsPassword(r) == req[r].op \in {"replace", "reset"}

(* Is there an UPDATE to send?                                             *)
Dirty(r) == req[r].was # req[r].obj \/ SetsPassword(r)

(* An UPDATE waits for the transaction that has updated the row before.    *)
CanWrite(r) == row_lock[req[r].admin] \in {NoOne, r}

(* get_admin_from_payload: the bearer is active and the token belongs to   *)
(* the admin's current session.                                            *)
Accepted(token) ==
    LET row == admins[issued[token].admin]
    IN  row.status = "active" /\ row.current_refresh_jti = token

-----------------------------------------------------------------------------
(* login.  Refused while the account is locked, with nothing to save.      *)

(* A wrong password is counted.                                            *)
LoginWrongPassword(r, a, password) ==
    /\ req[r].pc = "idle"
    /\ ~Locked(admins[a])
    /\ password # admins[a].hashed_password
    /\ Begin(r, "login", a, NULL, "saving", admins[a], CountFailure(ExpireLock(admins[a])))
    /\ UNCHANGED <<admins, row_lock, issued, now>>

(* AccountInactive is raised without a save, but recording the failure     *)
(* commits the session, and with it an expired lock cleared in memory.     *)
LoginInactive(r, a, password) ==
    /\ req[r].pc = "idle"
    /\ ~Locked(admins[a])
    /\ password = admins[a].hashed_password
    /\ admins[a].status # "active"
    /\ ExpireLock(admins[a]) # admins[a]
    /\ Begin(r, "login", a, NULL, "saving", admins[a], ExpireLock(admins[a]))
    /\ UNCHANGED <<admins, row_lock, issued, now>>

(* The right password of an active account.                                *)
Login(r, a, password) ==
    /\ req[r].pc = "idle"
    /\ ~Locked(admins[a])
    /\ password = admins[a].hashed_password
    /\ admins[a].status = "active"
    /\ Begin(r, "login", a, NULL, "authorizing", admins[a], ClearLockout(admins[a]))
    /\ UNCHANGED <<admins, row_lock, issued, now>>

(* The SELECT of the permissions flushes the changed columns first.        *)
Autoflush(r) ==
    /\ req[r].pc = "authorizing"
    /\ IF Dirty(r)
       THEN CanWrite(r) /\ row_lock' = [row_lock EXCEPT ![req[r].admin] = r]
       ELSE UNCHANGED row_lock
    /\ req' = [req EXCEPT ![r].pc = "issuing"]
    /\ UNCHANGED <<admins, issued, now>>

(* Mutant of Refresh: only the account is checked, not its session.        *)
RefreshAnyToken(r, token) ==
    /\ req[r].pc = "idle"
    /\ admins[issued[token].admin].status = "active"
    /\ LET a == issued[token].admin
       IN  Begin(r, "refresh", a, token, "issuing", admins[a], admins[a])
    /\ UNCHANGED <<admins, row_lock, issued, now>>

(* refresh: the token must belong to the current session when it is read.  *)
Refresh(r, token) ==
    /\ req[r].pc = "idle"
    /\ Accepted(token)
    /\ LET a == issued[token].admin
       IN  Begin(r, "refresh", a, token, "issuing", admins[a], admins[a])
    /\ UNCHANGED <<admins, row_lock, issued, now>>

(* _issue_session: the new pair of tokens becomes the current session with *)
(* the commit of save_admin.  A jti is a uuid4, hence new.                 *)
IssueSession(r) ==
    /\ req[r].pc = "issuing"
    /\ CanWrite(r)
    /\ Len(issued) < MaxIssued
    /\ LET a == req[r].admin
           obj == [req[r].obj EXCEPT !.current_refresh_jti = Len(issued) + 1]
       IN  admins' = [admins EXCEPT ![a] = Updated(@, req[r].was, obj, FALSE)]
    /\ issued' = Append(issued, [admin |-> req[r].admin, from |-> req[r].token])
    /\ Finish(r)
    /\ UNCHANGED now

(* logout, after get_current_admin has accepted the same token.            *)
Logout(r, token) ==
    /\ req[r].pc = "idle"
    /\ Accepted(token)
    /\ LET a == issued[token].admin
       IN  Begin(r, "logout", a, token, "saving", admins[a],
                 [admins[a] EXCEPT !.current_refresh_jti = NULL])
    /\ UNCHANGED <<admins, row_lock, issued, now>>

(* The account half of update_password, once the OTP is found verified and *)
(* the password is not the current one.                                    *)
ResetPassword(r, a, password) ==
    /\ req[r].pc = "idle"
    /\ admins[a].status = "active"
    /\ password # admins[a].hashed_password
    /\ Begin(r, "reset", a, NULL, "saving", admins[a],
             [ClearLockout(admins[a]) EXCEPT !.current_refresh_jti = NULL,
                                             !.hashed_password = password])
    /\ UNCHANGED <<admins, row_lock, issued, now>>

-----------------------------------------------------------------------------
(* Management.  The bearer's own row is read by get_current_admin and      *)
(* stays in the identity map, so a request on oneself works on that copy.  *)

Manage(r, token, op, a) ==
    /\ req[r].pc = "idle"
    /\ Accepted(token)
    /\ LET seen == IF issued[token].admin = a THEN admins[a] ELSE NULL
       IN  Begin(r, op, a, token, "loading", seen, seen)
    /\ UNCHANGED <<admins, row_lock, issued, now>>

(* get_user, and the operation's changes up to its next await.             *)
LoadTarget(r) ==
    /\ req[r].pc = "loading"
    /\ LET op  == req[r].op
           a   == req[r].admin
           row == IF req[r].was = NULL THEN admins[a] ELSE req[r].was
       IN  \/ /\ op \in {"deactivate", "delete"}
              /\ row.status = "active"
              /\ Begin(r, op, a, req[r].token, "guarding", row, row)
           \/ /\ op = "deactivate"
              /\ row.status = "inactive"
              /\ Begin(r, op, a, req[r].token, "saving", row, row)
           \/ /\ op = "delete"
              /\ row.status = "inactive"
              /\ Begin(r, op, a, req[r].token, "saving", row, Deactivated(row))
           \/ /\ op = "activate"
              /\ Begin(r, op, a, req[r].token, "saving", row,
                       [row EXCEPT !.status = "active"])
           \/ /\ op = "replace"
              /\ \E password \in Passwords :
                    Begin(r, op, a, req[r].token, "saving", row,
                          [ClearLockout(row) EXCEPT !.hashed_password = password])
    /\ UNCHANGED <<admins, row_lock, issued, now>>

OtherActive(a) == \E b \in Admins \ {a} : admins[b].status = "active"

(* Mutant of GuardLastActive: the admin itself is counted, too.            *)
GuardLastActiveCountingAll(r) ==
    /\ req[r].pc = "guarding"
    /\ IF \E b \in Admins : admins[b].status = "active"
       THEN req' = [req EXCEPT ![r].pc = "saving", ![r].obj = Deactivated(@)]
       ELSE req' = [req EXCEPT ![r] = Idle]
    /\ UNCHANGED <<admins, row_lock, issued, now>>

(* _guard_last_active_admin counts the others that are active now; the     *)
(* deactivation follows in a later statement.                              *)
GuardLastActive(r) ==
    /\ req[r].pc = "guarding"
    /\ IF OtherActive(req[r].admin)
       THEN req' = [req EXCEPT ![r].pc = "saving", ![r].obj = Deactivated(@)]
       ELSE req' = [req EXCEPT ![r] = Idle]
    /\ UNCHANGED <<admins, row_lock, issued, now>>

-----------------------------------------------------------------------------
(* save_admin, update_admin_password, update_user and delete_user commit   *)
(* the changed columns.                                                    *)
Save(r) ==
    /\ req[r].pc = "saving"
    /\ Dirty(r) => CanWrite(r)
    /\ admins' = [admins EXCEPT ![req[r].admin] =
                    Updated(@, req[r].was, req[r].obj, SetsPassword(r))]
    /\ Finish(r)
    /\ UNCHANGED <<issued, now>>

(* The client hangs up, the process dies or the database refuses.          *)
Abandon(r) ==
    /\ req[r].pc # "idle"
    /\ Finish(r)
    /\ UNCHANGED <<admins, issued, now>>

Tick ==
    /\ now < MaxNow
    /\ now' = now + 1
    /\ UNCHANGED <<admins, row_lock, issued, req>>

-----------------------------------------------------------------------------
(* Admins are created active or inactive, one of them active by the seed.  *)
Init ==
    /\ \E status \in [Admins -> Status], password \in Passwords :
        /\ \E a \in Admins : status[a] = "active"
        /\ admins = [a \in Admins |->
                        [status |-> status[a], hashed_password |-> password,
                         failed_login_attempts |-> 0, locked_until |-> NULL,
                         current_refresh_jti |-> NULL]]
    /\ row_lock = [a \in Admins |-> NoOne]
    /\ issued = <<>>
    /\ req = [r \in Requests |-> Idle]
    /\ now = 0

AuthStep(r) ==
    \/ \E a \in Admins, password \in Passwords :
        \/ LoginWrongPassword(r, a, password)
        \/ LoginInactive(r, a, password)
        \/ Login(r, a, password)
        \/ ResetPassword(r, a, password)
    \/ \E token \in Tokens : Refresh(r, token) \/ Logout(r, token)
    \/ Autoflush(r)
    \/ IssueSession(r)

ManageStep(r) ==
    \/ \E token \in Tokens, op \in Managing, a \in Admins : Manage(r, token, op, a)
    \/ LoadTarget(r)
    \/ GuardLastActive(r)

Next ==
    \/ \E r \in Requests : AuthStep(r) \/ ManageStep(r) \/ Save(r) \/ Abandon(r)
    \/ Tick

Spec == Init /\ [][Next]_vars

-----------------------------------------------------------------------------
(* Isolation.  The code has none of these: they say how far requests would *)
(* have to be kept apart for what it promises of an account to hold.       *)

(* No two requests work on the same admin; on different ones they may.     *)
OnePerAdmin ==
    \A r, s \in Requests : req[r].pc # "idle" /\ req[r].admin = req[s].admin => r = s

(* A request past the guard, about to commit a deactivation.               *)
Deactivating(q) ==
    q.pc = "saving" /\ q.obj.status # q.was.status /\ q.obj.status = "inactive"

(* The guard and the commit of two deactivations do not overlap.           *)
OneDeactivation ==
    \A r, s \in Requests : Deactivating(req[r]) /\ Deactivating(req[s]) => r = s

(* What the run of isolated requests is constrained to.                    *)
Isolated == OnePerAdmin /\ OneDeactivation

-----------------------------------------------------------------------------
RequestType ==
    [op : Operations, admin : Admins \cup {NULL}, token : Nat \cup {NULL},
     pc : RequestStates,
     was : PlatformAdmin \cup {NULL}, obj : PlatformAdmin \cup {NULL}]

(* Type correctness; in particular failed_login_attempts never reaches the *)
(* limit: the failure that would reach it locks the account and starts the *)
(* counter anew.                                                           *)
TypeOK ==
    /\ admins \in [Admins -> PlatformAdmin]
    /\ row_lock \in [Admins -> Requests \cup {NoOne}]
    /\ issued \in Seq(Session)
    /\ req \in [Requests -> RequestType]
    /\ now \in Nat

(* A session that has been superseded or revoked never becomes current     *)
(* again, however stale the copies other requests hold: the pointer moves  *)
(* only to NULL or to a session issued by the same step                    *)
(* (_issue_session, _clear_current_session, user_service).                 *)
OnlyFreshSessions ==
    [][\A a \in Admins :
        \/ admins'[a].current_refresh_jti = admins[a].current_refresh_jti
        \/ admins'[a].current_refresh_jti = NULL
        \/ admins'[a].current_refresh_jti \notin Tokens]_vars

(* Concurrent requests never undo each other's columns: a password or a    *)
(* status changes, and a session ends, only by the commit of an operation  *)
(* that sets or ends it (save_admin after a login writes back neither).    *)
Committing(op, a) ==
    \E r \in Requests :
        req[r].op = op /\ req[r].admin = a /\ req[r].pc = "saving" /\ req'[r].pc = "idle"

OwnColumnsOnly ==
    [][\A a \in Admins :
        /\ \/ admins'[a].hashed_password = admins[a].hashed_password
           \/ \E op \in {"replace", "reset"} : Committing(op, a)
        /\ \/ admins'[a].status = admins[a].status
           \/ \E op \in {"activate", "deactivate", "delete"} : Committing(op, a)
        /\ \/ admins[a].current_refresh_jti = NULL
           \/ admins'[a].current_refresh_jti # NULL
           \/ \E op \in {"logout", "reset", "deactivate", "delete"} : Committing(op, a)]_vars

(* "Reject deactivating the last active admin - nobody could log in        *)
(* afterwards" (user_service.py:29).                                       *)
SomeActiveAdmin == \E a \in Admins : admins[a].status = "active"

(* "End the current session so neither the access nor refresh token works  *)
(* again" (auth_service.py:152): a refresh token that is no longer current *)
(* buys no new session.                                                    *)
RevokedTokenBuysNothing ==
    [][\A s \in (1..Len(issued')) \ Tokens :
        LET token == issued'[s].from
        IN  token # NULL => admins[issued'[s].admin].current_refresh_jti = token]_vars

(* A request on the admin whose transaction ends in this step.             *)
Ending(r, a) ==
    /\ req[r].admin = a
    /\ req[r].pc \in {"issuing", "saving"}
    /\ req'[r].pc = "idle"

(* Deactivating an admin ends its session (update_user, delete_user), so   *)
(* that a reactivation revives none.  In every interleaving an inactive    *)
(* admin comes to have a session in two ways only.  A login or refresh     *)
(* that has read the admin while it was active issues its session after    *)
(* the deactivation has committed.  Or a deactivation that has read the    *)
(* admin while it had no session commits after a login has begun one: its  *)
(* UPDATE leaves the pointer out.                                          *)
DeactivationEndsSession ==
    [][\A a \in Admins :
        admins'[a].status = "inactive" /\ admins'[a].current_refresh_jti # NULL =>
            \/ /\ admins[a].status = "inactive"
               /\ admins'[a].current_refresh_jti = admins[a].current_refresh_jti
            \/ \E r \in Requests :
                /\ Ending(r, a)
                /\ \/ /\ req[r].op \in {"login", "refresh"}
                      /\ req[r].was.status = "active" /\ admins[a].status = "inactive"
                   \/ /\ req[r].op \in {"deactivate", "delete"}
                      /\ req[r].was.current_refresh_jti = NULL
                      /\ admins[a].current_refresh_jti # NULL]_vars

(* A lockout ends by time, or by an operator or the owner setting a new    *)
(* password.  In every interleaving the only other request that shortens   *)
(* or lifts it is a login that has read the row before this lockout, and   *)
(* then only one that found an expired lockout there, which it clears, or  *)
(* whose wrong password sets a lockout of its own: a login that has read   *)
(* an unlocked row has no locked_until to write, and nothing else touches  *)
(* the column.                                                             *)
LockoutStands ==
    [][\A a \in Admins :
        Locked(admins[a]) =>
            \/ admins'[a].locked_until = admins[a].locked_until
            \/ \E op \in {"replace", "reset"} : Committing(op, a)
            \/ \E r \in Requests :
                /\ Ending(r, a)
                /\ req[r].op = "login"
                /\ ~Locked(req[r].was)
                /\ req[r].was.locked_until # NULL \/ req[r].obj.locked_until # NULL]_vars

(* While requests keep apart, each takes effect in one instant, its        *)
(* commit: no wrong password goes uncounted, no session is ended by the    *)
(* logout of an older one, and no operation works on a row that is not     *)
(* there any more.                                                         *)
Account == INSTANCE AccountOperations

ImplementsOperations == Account!Spec
=============================================================================

------------------------ MODULE AdminAccountsProofs ------------------------
(***************************************************************************)
(* Theorems about AdminAccounts, for any number of admins and passwords,   *)
(* any limits and, unless stated otherwise, any number of requests.        *)
(***************************************************************************)
EXTENDS AdminAccounts, TLAPS

(* What a request may hold at each of its awaits: only an admin that was   *)
(* active when it was read is issued a session, a copy that has become     *)
(* inactive has none, a login has found no lockout that stands, and who    *)
(* neither logs in nor sets a password leaves the lockout alone.           *)
Holds(q) ==
    /\ q.pc # "idle" => q.admin \in Admins
    /\ q.pc \in {"authorizing", "issuing", "guarding", "saving"} =>
          q.was \in PlatformAdmin /\ q.obj \in PlatformAdmin
    /\ q.pc \in {"authorizing", "issuing"} =>
          /\ q.op \in {"login", "refresh"}
          /\ q.was.status = "active" /\ q.obj.status = q.was.status
    /\ q.pc \in {"authorizing", "issuing", "saving"} =>
          /\ q.op = "login" => ~Locked(q.was)
          /\ q.op \notin {"login", "replace", "reset"} =>
                q.obj.locked_until = q.was.locked_until
    /\ q.pc = "loading" => q.op \in Managing
    /\ q.pc = "guarding" => q.op \in {"deactivate", "delete"} /\ q.obj = q.was
    /\ q.pc = "saving" =>
          /\ q.obj.current_refresh_jti \in {q.was.current_refresh_jti, NULL}
          /\ q.op \notin {"logout", "reset", "deactivate", "delete"} =>
                q.obj.current_refresh_jti = q.was.current_refresh_jti
          /\ q.op \notin {"activate", "deactivate", "delete"} =>
                q.obj.status = q.was.status
          /\ q.op = "activate" => q.obj.status = "active"
          /\ q.obj.status # q.was.status /\ q.obj.status = "inactive" =>
                q.obj.current_refresh_jti = NULL

WorkInv == \A r \in Requests : Holds(req[r])

Inv == TypeOK /\ WorkInv

(* The operations on a row keep its type, and leave alone what is said.    *)
LEMMA RowOperations ==
    ASSUME NEW row \in PlatformAdmin, now \in Nat
    PROVE  /\ ClearLockout(row) \in PlatformAdmin
           /\ ExpireLock(row) \in PlatformAdmin
           /\ CountFailure(ExpireLock(row)) \in PlatformAdmin
           /\ Deactivated(row) \in PlatformAdmin
           /\ \A x \in {ClearLockout(row), ExpireLock(row), CountFailure(ExpireLock(row))} :
                 /\ x.status = row.status
                 /\ x.current_refresh_jti = row.current_refresh_jti
           /\ Deactivated(row).status = "inactive"
           /\ Deactivated(row).current_refresh_jti = NULL
           /\ Deactivated(row).locked_until = row.locked_until
<1> USE LockoutAssumption
<1>0. 0 \in 0..(MaxFailed - 1) /\ now + Lockout \in Nat
  OBVIOUS
<1>1. ASSUME NEW s \in PlatformAdmin
      PROVE  /\ ClearLockout(s) \in PlatformAdmin
             /\ ClearLockout(s).status = s.status
             /\ ClearLockout(s).current_refresh_jti = s.current_refresh_jti
  <2> DEFINE unlocked == [s EXCEPT !.locked_until = NULL]
  <2>1. /\ unlocked \in PlatformAdmin
        /\ unlocked.status = s.status
        /\ unlocked.current_refresh_jti = s.current_refresh_jti
    BY DEF PlatformAdmin
  <2>2. ClearLockout(s) = [unlocked EXCEPT !.failed_login_attempts = 0]
    BY DEF ClearLockout
  <2> HIDE DEF unlocked
  <2> QED
    BY <1>0, <2>1, <2>2 DEF PlatformAdmin
<1>2. /\ ExpireLock(row) \in PlatformAdmin
      /\ ExpireLock(row).status = row.status
      /\ ExpireLock(row).current_refresh_jti = row.current_refresh_jti
  BY <1>1 DEF ExpireLock
<1>3. ASSUME NEW s \in PlatformAdmin
      PROVE  /\ CountFailure(s) \in PlatformAdmin
             /\ CountFailure(s).status = s.status
             /\ CountFailure(s).current_refresh_jti = s.current_refresh_jti
  <2>1. CASE s.failed_login_attempts + 1 >= MaxFailed
    <3> DEFINE locked == [s EXCEPT !.locked_until = now + Lockout]
    <3>1. /\ locked \in PlatformAdmin
          /\ locked.status = s.status
          /\ locked.current_refresh_jti = s.current_refresh_jti
      BY <1>0 DEF PlatformAdmin
    <3>2. CountFailure(s) = [locked EXCEPT !.failed_login_attempts = 0]
      BY <2>1 DEF CountFailure
    <3> HIDE DEF locked
    <3> QED
      BY <1>0, <3>1, <3>2 DEF PlatformAdmin
  <2>2. CASE ~(s.failed_login_attempts + 1 >= MaxFailed)
    BY <2>2 DEF CountFailure, PlatformAdmin
  <2> QED
    BY <2>1, <2>2
<1>4. /\ Deactivated(row) \in PlatformAdmin
      /\ Deactivated(row).status = "inactive"
      /\ Deactivated(row).current_refresh_jti = NULL
      /\ Deactivated(row).locked_until = row.locked_until
  BY DEF Deactivated, PlatformAdmin, Status
<1> QED
  BY <1>1, <1>2, <1>3, <1>4

(* An UPDATE yields a row of the right type.                               *)
LEMMA UpdatedType ==
    ASSUME NEW stored \in PlatformAdmin, NEW was \in PlatformAdmin,
           NEW obj \in PlatformAdmin, NEW sets \in BOOLEAN
    PROVE  Updated(stored, was, obj, sets) \in PlatformAdmin
  BY DEF Updated, Column, PlatformAdmin

(* A step that replaces the record of one request.                         *)
LEMMA OneRequestChanges ==
    ASSUME Inv, NEW r \in Requests, NEW q \in RequestType, Holds(q),
           req' = [req EXCEPT ![r] = q],
           admins' \in [Admins -> PlatformAdmin],
           row_lock' \in [Admins -> Requests \cup {NoOne}],
           issued' \in Seq(Session),
           now' = now
    PROVE  Inv'
<1>1. req \in [Requests -> RequestType]
  BY DEF Inv, TypeOK
<1>2. req' \in [Requests -> RequestType]
  BY <1>1
<1>3. \A s \in Requests : req'[s] = IF s = r THEN q ELSE req[s]
  BY <1>1
<1>4. \A s \in Requests : Holds(req'[s])
  BY <1>3 DEF Inv, WorkInv
<1> QED
  BY <1>2, <1>4 DEF Inv, TypeOK, WorkInv, Holds, Locked

(* A request that starts or goes on with a copy of a row.                  *)
LEMMA BeginInv ==
    ASSUME Inv, NEW r \in Requests, NEW op \in Operations, NEW a \in Admins,
           NEW token \in Nat \cup {NULL}, NEW pc \in RequestStates,
           NEW was \in PlatformAdmin \cup {NULL}, NEW obj \in PlatformAdmin \cup {NULL},
           Begin(r, op, a, token, pc, was, obj),
           Holds(Request(op, a, token, pc, was, obj)),
           UNCHANGED <<admins, row_lock, issued, now>>
    PROVE  Inv'
<1> DEFINE q == Request(op, a, token, pc, was, obj)
<1>1. q \in RequestType
  BY DEF Request, RequestType
<1>2. req' = [req EXCEPT ![r] = q]
  BY DEF Begin
<1> HIDE DEF q
<1>3. Holds(q)
  BY DEF q
<1> QED
  BY <1>1, <1>2, <1>3, OneRequestChanges DEF Inv, TypeOK

(* A request that ends.                                                    *)
LEMMA FinishInv ==
    ASSUME Inv, NEW r \in Requests, Finish(r),
           admins' \in [Admins -> PlatformAdmin], issued' \in Seq(Session), now' = now
    PROVE  Inv'
<1>1. Idle \in RequestType
  BY DEF Idle, Request, RequestType, Operations, RequestStates
<1>2. Holds(Idle)
  BY DEF Idle, Request, Holds
<1>3. row_lock' \in [Admins -> Requests \cup {NoOne}]
  BY DEF Finish, Inv, TypeOK
<1>4. req' = [req EXCEPT ![r] = Idle]
  BY DEF Finish
<1> HIDE DEF Idle
<1> QED
  BY <1>1, <1>2, <1>3, <1>4, OneRequestChanges DEF Inv, TypeOK

LEMMA InitInv == Init => Inv
<1> SUFFICES ASSUME Init PROVE Inv
  OBVIOUS
<1>1. Idle \in RequestType
  BY DEF Idle, Request, RequestType, Operations, RequestStates
<1>2. Holds(Idle)
  BY DEF Idle, Request, Holds
<1>3. admins \in [Admins -> PlatformAdmin]
  BY LockoutAssumption DEF Init, PlatformAdmin
<1> HIDE DEF Idle
<1> QED
  BY <1>1, <1>2, <1>3 DEF Init, Inv, TypeOK, WorkInv

(* The requests of auth_service keep the invariant.                        *)
LEMMA AuthStartInv ==
    ASSUME Inv, NEW r \in Requests, NEW a \in Admins, NEW password \in Passwords,
           \/ LoginWrongPassword(r, a, password)
           \/ LoginInactive(r, a, password)
           \/ Login(r, a, password)
           \/ ResetPassword(r, a, password)
    PROVE  Inv'
<1> DEFINE row == admins[a]
<1>1. row \in PlatformAdmin /\ now \in Nat /\ NULL \in Nat \cup {NULL}
  BY DEF Inv, TypeOK
<1>2. /\ ClearLockout(row) \in PlatformAdmin
      /\ ExpireLock(row) \in PlatformAdmin
      /\ CountFailure(ExpireLock(row)) \in PlatformAdmin
      /\ \A x \in {ClearLockout(row), ExpireLock(row), CountFailure(ExpireLock(row))} :
            x.status = row.status /\ x.current_refresh_jti = row.current_refresh_jti
  BY <1>1, RowOperations
<1>3. {"login", "reset"} \subseteq Operations /\ {"authorizing", "saving"} \subseteq RequestStates
  BY DEF Operations, RequestStates
<1>4. ASSUME NEW obj \in PlatformAdmin, NEW pc \in {"authorizing", "saving"},
             NEW op \in {"login", "reset"},
             obj.status = row.status,
             \/ obj.current_refresh_jti = row.current_refresh_jti
             \/ obj.current_refresh_jti = NULL /\ op = "reset",
             op = "login" => ~Locked(row),
             pc = "authorizing" => op = "login" /\ row.status = "active",
             Begin(r, op, a, NULL, pc, row, obj),
             UNCHANGED <<admins, row_lock, issued, now>>
      PROVE  Inv'
  <2>1. Holds(Request(op, a, NULL, pc, row, obj))
    BY <1>1, <1>4 DEF Holds, Request
  <2> QED
    BY <1>1, <1>3, <1>4, <2>1, BeginInv
<1> HIDE DEF row
<1>5. CASE LoginWrongPassword(r, a, password)
  BY <1>2, <1>4, <1>5 DEF LoginWrongPassword, row
<1>6. CASE LoginInactive(r, a, password)
  BY <1>2, <1>4, <1>6 DEF LoginInactive, row
<1>7. CASE Login(r, a, password)
  BY <1>2, <1>4, <1>7 DEF Login, row
<1>8. CASE ResetPassword(r, a, password)
  <2> DEFINE obj == [ClearLockout(row) EXCEPT !.current_refresh_jti = NULL,
                                              !.hashed_password = password]
  <2>1. /\ obj \in PlatformAdmin
        /\ obj.status = row.status
        /\ obj.current_refresh_jti = NULL
    BY <1>2 DEF PlatformAdmin
  <2>2. /\ Begin(r, "reset", a, NULL, "saving", row, obj)
        /\ UNCHANGED <<admins, row_lock, issued, now>>
    BY <1>8 DEF ResetPassword, row
  <2> HIDE DEF obj
  <2> QED
    BY <1>4, <2>1, <2>2
<1> QED
  BY <1>5, <1>6, <1>7, <1>8

LEMMA TokenStartInv ==
    ASSUME Inv, NEW r \in Requests, NEW token \in Tokens,
           \/ Refresh(r, token)
           \/ Logout(r, token)
           \/ \E op \in Managing, a \in Admins : Manage(r, token, op, a)
    PROVE  Inv'
<1> DEFINE a == issued[token].admin
           row == admins[a]
<1>1. a \in Admins /\ token \in Nat /\ row \in PlatformAdmin
  <2>1. issued \in Seq(Session) /\ admins \in [Admins -> PlatformAdmin]
    BY DEF Inv, TypeOK
  <2>2. token \in Nat /\ issued[token] \in Session
    BY <2>1 DEF Tokens
  <2>3. a \in Admins
    BY <2>2 DEF Session
  <2> QED
    BY <2>1, <2>2, <2>3
<1>2. /\ {"refresh", "logout"} \cup Managing \subseteq Operations
      /\ {"issuing", "saving", "loading"} \subseteq RequestStates
  BY DEF Operations, Managing, RequestStates
<1> HIDE DEF a
<1>3. CASE Refresh(r, token)
  <2>1. /\ Begin(r, "refresh", a, token, "issuing", row, row)
        /\ UNCHANGED <<admins, row_lock, issued, now>>
    BY <1>3 DEF Refresh, a
  <2>2. row.status = "active"
    BY <1>3 DEF Refresh, Accepted, a
  <2> HIDE DEF row
  <2>3. Holds(Request("refresh", a, token, "issuing", row, row))
    BY <1>1, <2>2 DEF Holds, Request
  <2> QED
    BY <1>1, <1>2, <2>1, <2>3, BeginInv
<1>4. CASE Logout(r, token)
  <2> DEFINE obj == [row EXCEPT !.current_refresh_jti = NULL]
  <2>1. /\ obj \in PlatformAdmin /\ obj.status = row.status /\ obj.current_refresh_jti = NULL
        /\ obj.locked_until = row.locked_until
    BY <1>1 DEF PlatformAdmin
  <2>2. /\ Begin(r, "logout", a, token, "saving", row, obj)
        /\ UNCHANGED <<admins, row_lock, issued, now>>
    BY <1>4 DEF Logout, a
  <2> HIDE DEF obj, row
  <2>3. Holds(Request("logout", a, token, "saving", row, obj))
    BY <1>1, <2>1 DEF Holds, Request
  <2> QED
    BY <1>1, <1>2, <2>1, <2>2, <2>3, BeginInv
<1>5. ASSUME NEW op \in Managing, NEW b \in Admins, Manage(r, token, op, b) PROVE Inv'
  <2> DEFINE seen == IF a = b THEN admins[b] ELSE NULL
  <2>1. seen \in PlatformAdmin \cup {NULL}
    BY <1>1
  <2>2. /\ Begin(r, op, b, token, "loading", seen, seen)
        /\ UNCHANGED <<admins, row_lock, issued, now>>
    BY <1>5 DEF Manage, a
  <2> HIDE DEF seen
  <2>3. Holds(Request(op, b, token, "loading", seen, seen))
    BY DEF Holds, Request
  <2> QED
    BY <1>1, <1>2, <2>1, <2>2, <2>3, BeginInv
<1> QED
  BY <1>3, <1>4, <1>5

LEMMA AutoflushInv ==
    ASSUME Inv, NEW r \in Requests, Autoflush(r)
    PROVE  Inv'
<1> DEFINE q == [req[r] EXCEPT !.pc = "issuing"]
<1>1. req[r] \in RequestType /\ Holds(req[r]) /\ req[r].pc = "authorizing"
  BY DEF Inv, TypeOK, WorkInv, Autoflush
<1>2. q \in RequestType /\ Holds(q)
  BY <1>1 DEF RequestType, RequestStates, Holds
<1>3. req' = [req EXCEPT ![r] = q]
  BY DEF Autoflush
<1>4. row_lock' \in [Admins -> Requests \cup {NoOne}]
  BY DEF Autoflush, Inv, TypeOK
<1>5. UNCHANGED <<admins, issued, now>>
  BY DEF Autoflush
<1> HIDE DEF q
<1> QED
  BY <1>2, <1>3, <1>4, <1>5, OneRequestChanges DEF Inv, TypeOK

LEMMA IssueSessionInv ==
    ASSUME Inv, NEW r \in Requests, IssueSession(r)
    PROVE  Inv'
<1> DEFINE a == req[r].admin
           obj == [req[r].obj EXCEPT !.current_refresh_jti = Len(issued) + 1]
           row == Updated(admins[a], req[r].was, obj, FALSE)
           session == [admin |-> a, from |-> req[r].token]
<1>1. /\ a \in Admins
      /\ req[r].was \in PlatformAdmin
      /\ req[r].obj \in PlatformAdmin
      /\ req[r].token \in Nat \cup {NULL}
      /\ admins \in [Admins -> PlatformAdmin]
      /\ issued \in Seq(Session)
  BY DEF IssueSession, Inv, TypeOK, WorkInv, Holds, RequestType
<1>2. obj \in PlatformAdmin
  <2>1. Len(issued) + 1 \in Nat \cup {NULL}
    BY <1>1
  <2> QED
    BY <1>1, <2>1 DEF PlatformAdmin
<1>3. row \in PlatformAdmin
  <2> HIDE DEF obj
  <2> QED
    BY <1>1, <1>2, UpdatedType
<1>4. session \in Session
  BY <1>1 DEF Session
<1>5. /\ admins' = [admins EXCEPT ![a] = row]
      /\ issued' = Append(issued, session)
      /\ Finish(r) /\ now' = now
  BY DEF IssueSession
<1> HIDE DEF a, row, session
<1>6. admins' \in [Admins -> PlatformAdmin] /\ issued' \in Seq(Session)
  BY <1>1, <1>3, <1>4, <1>5
<1> QED
  BY <1>5, <1>6, FinishInv

LEMMA SaveInv ==
    ASSUME Inv, NEW r \in Requests, Save(r)
    PROVE  Inv'
<1> DEFINE a == req[r].admin
           row == Updated(admins[a], req[r].was, req[r].obj, SetsPassword(r))
<1>1. /\ a \in Admins
      /\ req[r].was \in PlatformAdmin
      /\ req[r].obj \in PlatformAdmin
      /\ admins \in [Admins -> PlatformAdmin]
      /\ SetsPassword(r) \in BOOLEAN
  BY DEF Save, Inv, TypeOK, WorkInv, Holds, SetsPassword
<1>2. row \in PlatformAdmin
  BY <1>1, UpdatedType
<1>3. admins' = [admins EXCEPT ![a] = row] /\ Finish(r) /\ UNCHANGED <<issued, now>>
  BY DEF Save
<1> HIDE DEF a, row
<1>4. admins' \in [Admins -> PlatformAdmin]
  BY <1>1, <1>2, <1>3
<1> QED
  BY <1>3, <1>4, FinishInv DEF Inv, TypeOK

LEMMA LoadTargetInv ==
    ASSUME Inv, NEW r \in Requests, LoadTarget(r)
    PROVE  Inv'
<1> DEFINE op == req[r].op
           a == req[r].admin
           token == req[r].token
           row == IF req[r].was = NULL THEN admins[a] ELSE req[r].was
<1>1. /\ a \in Admins
      /\ op \in Managing /\ op \in Operations
      /\ token \in Nat \cup {NULL}
      /\ row \in PlatformAdmin
      /\ now \in Nat
  BY DEF LoadTarget, Inv, TypeOK, WorkInv, Holds, RequestType
<1>2. /\ Deactivated(row) \in PlatformAdmin
      /\ Deactivated(row).current_refresh_jti = NULL
      /\ Deactivated(row).locked_until = row.locked_until
      /\ ClearLockout(row) \in PlatformAdmin
      /\ ClearLockout(row).status = row.status
      /\ ClearLockout(row).current_refresh_jti = row.current_refresh_jti
  BY <1>1, RowOperations
<1>3. {"guarding", "saving"} \subseteq RequestStates
  BY DEF RequestStates
<1>4. UNCHANGED <<admins, row_lock, issued, now>>
  BY DEF LoadTarget
<1>5. \/ op \in {"deactivate", "delete"} /\ Begin(r, op, a, token, "guarding", row, row)
      \/ op = "deactivate" /\ Begin(r, op, a, token, "saving", row, row)
      \/ op = "delete" /\ Begin(r, op, a, token, "saving", row, Deactivated(row))
      \/ op = "activate" /\ Begin(r, op, a, token, "saving", row, [row EXCEPT !.status = "active"])
      \/ op = "replace" /\ \E password \in Passwords :
            Begin(r, op, a, token, "saving", row,
                  [ClearLockout(row) EXCEPT !.hashed_password = password])
  BY DEF LoadTarget
<1> HIDE DEF op, a, token, row
<1>6. CASE op \in {"deactivate", "delete"} /\ Begin(r, op, a, token, "guarding", row, row)
  <2>1. Holds(Request(op, a, token, "guarding", row, row))
    BY <1>1, <1>6 DEF Holds, Request
  <2> QED
    BY <1>1, <1>3, <1>4, <1>6, <2>1, BeginInv
<1>7. ASSUME NEW obj \in PlatformAdmin, Begin(r, op, a, token, "saving", row, obj),
             \/ obj.current_refresh_jti = row.current_refresh_jti
             \/ obj.current_refresh_jti = NULL /\ op = "delete",
             op = "replace" => obj.status = row.status,
             op = "activate" => obj.status = "active",
             obj.status # row.status /\ obj.status = "inactive" =>
                obj.current_refresh_jti = NULL,
             op # "replace" => obj.locked_until = row.locked_until
      PROVE  Inv'
  <2>1. Holds(Request(op, a, token, "saving", row, obj))
    BY <1>1, <1>7 DEF Holds, Request, Managing
  <2> QED
    BY <1>1, <1>3, <1>4, <1>7, <2>1, BeginInv
<1>8. CASE op = "deactivate" /\ Begin(r, op, a, token, "saving", row, row)
  BY <1>1, <1>7, <1>8
<1>9. CASE op = "delete" /\ Begin(r, op, a, token, "saving", row, Deactivated(row))
  BY <1>2, <1>7, <1>9
<1>10. CASE op = "activate" /\ Begin(r, op, a, token, "saving", row, [row EXCEPT !.status = "active"])
  <2> DEFINE obj == [row EXCEPT !.status = "active"]
  <2>1. /\ obj \in PlatformAdmin /\ obj.current_refresh_jti = row.current_refresh_jti
        /\ obj.status = "active" /\ obj.locked_until = row.locked_until
    BY <1>1 DEF PlatformAdmin, Status
  <2> HIDE DEF obj
  <2>2. Begin(r, op, a, token, "saving", row, obj) /\ op # "replace"
    BY <1>10 DEF obj
  <2> QED
    BY <1>7, <2>1, <2>2
<1>11. ASSUME op = "replace", NEW password \in Passwords,
              Begin(r, op, a, token, "saving", row,
                    [ClearLockout(row) EXCEPT !.hashed_password = password])
       PROVE  Inv'
  <2> DEFINE obj == [ClearLockout(row) EXCEPT !.hashed_password = password]
  <2>1. /\ obj \in PlatformAdmin
        /\ obj.status = row.status
        /\ obj.current_refresh_jti = row.current_refresh_jti
    BY <1>2 DEF PlatformAdmin
  <2> HIDE DEF obj
  <2>2. Begin(r, op, a, token, "saving", row, obj)
    BY <1>11 DEF obj
  <2> QED
    BY <1>7, <1>11, <2>1, <2>2
<1> QED
  BY <1>5, <1>6, <1>8, <1>9, <1>10, <1>11

LEMMA GuardLastActiveInv ==
    ASSUME Inv, NEW r \in Requests, GuardLastActive(r)
    PROVE  Inv'
<1>1. req[r] \in RequestType /\ Holds(req[r]) /\ req[r].pc = "guarding" /\ now \in Nat
  BY DEF Inv, TypeOK, WorkInv, GuardLastActive
<1>2. UNCHANGED <<admins, row_lock, issued, now>>
  BY DEF GuardLastActive
<1>3. CASE OtherActive(req[r].admin)
  <2> DEFINE q == [req[r] EXCEPT !.pc = "saving", !.obj = Deactivated(@)]
  <2>1. /\ req[r].obj \in PlatformAdmin
        /\ Deactivated(req[r].obj) \in PlatformAdmin
        /\ Deactivated(req[r].obj).current_refresh_jti = NULL
        /\ Deactivated(req[r].obj).locked_until = req[r].obj.locked_until
    BY <1>1, RowOperations DEF Holds
  <2>2. /\ q \in RequestType
        /\ q.pc = "saving" /\ q.obj = Deactivated(req[r].obj)
        /\ q.op = req[r].op /\ q.admin = req[r].admin /\ q.was = req[r].was
    BY <1>1, <2>1 DEF RequestType, RequestStates
  <2>3. Holds(q)
    <3> HIDE DEF q
    <3> QED
      BY <1>1, <2>1, <2>2 DEF Holds
  <2>4. req' = [req EXCEPT ![r] = q]
    BY <1>3 DEF GuardLastActive
  <2> HIDE DEF q
  <2> QED
    BY <1>2, <2>2, <2>3, <2>4, OneRequestChanges DEF Inv, TypeOK
<1>4. CASE ~OtherActive(req[r].admin)
  <2>1. Idle \in RequestType
    BY DEF Idle, Request, RequestType, Operations, RequestStates
  <2>2. Holds(Idle)
    BY DEF Idle, Request, Holds
  <2>3. req' = [req EXCEPT ![r] = Idle]
    BY <1>4 DEF GuardLastActive
  <2> HIDE DEF Idle
  <2> QED
    BY <1>2, <2>1, <2>2, <2>3, OneRequestChanges DEF Inv, TypeOK
<1> QED
  BY <1>3, <1>4

LEMMA NextInv == Inv /\ [Next]_vars => Inv'
<1> SUFFICES ASSUME Inv, [Next]_vars PROVE Inv'
  OBVIOUS
<1>1. ASSUME NEW r \in Requests, AuthStep(r) PROVE Inv'
  BY <1>1, AuthStartInv, TokenStartInv, AutoflushInv, IssueSessionInv DEF AuthStep
<1>2. ASSUME NEW r \in Requests, ManageStep(r) PROVE Inv'
  BY <1>2, TokenStartInv, LoadTargetInv, GuardLastActiveInv DEF ManageStep
<1>3. ASSUME NEW r \in Requests, Save(r) PROVE Inv'
  BY <1>3, SaveInv
<1>4. ASSUME NEW r \in Requests, Abandon(r) PROVE Inv'
  BY <1>4, FinishInv DEF Abandon, Inv, TypeOK
<1>5. CASE Tick
  <2>1. /\ now \in Nat /\ now' = now + 1 /\ UNCHANGED <<admins, row_lock, issued, req>>
        /\ req \in [Requests -> RequestType]
    BY <1>5 DEF Tick, Inv, TypeOK
  <2>2. ASSUME NEW r \in Requests PROVE Holds(req[r])'
    <3>1. Holds(req[r])
      BY DEF Inv, WorkInv
    <3>2. req[r].pc \in {"authorizing", "issuing", "saving"} =>
            (~Locked(req[r].was) => ~Locked(req[r].was)')
      BY <2>1, <3>1, NullAssumption DEF Holds, Locked, PlatformAdmin
    <3> QED
      BY <2>1, <3>1, <3>2 DEF Holds
  <2> QED
    BY <2>1, <2>2 DEF Inv, TypeOK, WorkInv
<1>6. CASE UNCHANGED vars
  BY <1>6 DEF vars, Inv, TypeOK, WorkInv, Holds, Locked
<1> QED
  BY <1>1, <1>2, <1>3, <1>4, <1>5, <1>6 DEF Next

THEOREM Invariance == Spec => []Inv
  BY InitInv, NextInv, PTL DEF Spec

(* Type correctness, and with it the bound on the failure counter: no      *)
(* interleaving of failed logins leaves failed_login_attempts at the       *)
(* limit.                                                                  *)
THEOREM TypeCorrect == Spec => []TypeOK
<1>1. Inv => TypeOK
  BY DEF Inv
<1> QED
  BY <1>1, Invariance, PTL

-----------------------------------------------------------------------------
(* What a step may do to the rows.                                         *)

LEMMA RowsChangeByCommit ==
    ASSUME [Next]_vars
    PROVE  \/ UNCHANGED admins
           \/ \E r \in Requests : IssueSession(r) \/ Save(r)
<1>1. ASSUME NEW r \in Requests, AuthStep(r), ~IssueSession(r) PROVE UNCHANGED admins
  BY <1>1 DEF AuthStep, LoginWrongPassword, LoginInactive, Login, ResetPassword,
              Refresh, Logout, Autoflush
<1>2. ASSUME NEW r \in Requests, ManageStep(r) PROVE UNCHANGED admins
  BY <1>2 DEF ManageStep, Manage, LoadTarget, GuardLastActive
<1> QED
  BY <1>1, <1>2 DEF Next, Abandon, Tick, vars

(* The row a commit leaves behind, column by column.                       *)
LEMMA IssuedRow ==
    ASSUME Inv, NEW r \in Requests, IssueSession(r), NEW a \in Admins
    PROVE  /\ admins'[a].status = admins[a].status
           /\ admins'[a].hashed_password = admins[a].hashed_password
           /\ admins'[a].current_refresh_jti \in
                 {admins[a].current_refresh_jti, Len(issued) + 1}
<1> DEFINE obj == [req[r].obj EXCEPT !.current_refresh_jti = Len(issued) + 1]
           row == Updated(admins[req[r].admin], req[r].was, obj, FALSE)
<1>1. /\ req[r].was \in PlatformAdmin
      /\ req[r].obj \in PlatformAdmin
      /\ req[r].obj.status = req[r].was.status
      /\ admins \in [Admins -> PlatformAdmin]
  BY DEF IssueSession, Inv, TypeOK, WorkInv, Holds
<1>2. obj.status = req[r].was.status /\ obj.current_refresh_jti = Len(issued) + 1
  BY <1>1 DEF PlatformAdmin
<1>3. admins' = [admins EXCEPT ![req[r].admin] = row]
  BY DEF IssueSession
<1> HIDE DEF obj
<1>4. /\ row.status = admins[req[r].admin].status
      /\ row.hashed_password = admins[req[r].admin].hashed_password
      /\ row.current_refresh_jti \in
            {admins[req[r].admin].current_refresh_jti, Len(issued) + 1}
  BY <1>2 DEF Updated, Column
<1> HIDE DEF row
<1> QED
  BY <1>1, <1>3, <1>4

LEMMA SavedRow ==
    ASSUME Inv, NEW r \in Requests, Save(r), NEW a \in Admins
    PROVE  \/ admins'[a] = admins[a]
           \/ /\ a = req[r].admin
              /\ admins'[a] = Updated(admins[a], req[r].was, req[r].obj, SetsPassword(r))
<1>1. admins \in [Admins -> PlatformAdmin]
  BY DEF Inv, TypeOK
<1> QED
  BY <1>1 DEF Save

(* The session pointer of an admin never returns to a session that was     *)
(* superseded or revoked, with any number of requests holding stale rows.  *)
THEOREM SessionsStayRevoked == Spec => OnlyFreshSessions
<1>1. ASSUME Inv, [Next]_vars, NEW a \in Admins
      PROVE  \/ admins'[a].current_refresh_jti = admins[a].current_refresh_jti
             \/ admins'[a].current_refresh_jti = NULL
             \/ admins'[a].current_refresh_jti \notin Tokens
  <2>1. CASE UNCHANGED admins
    BY <2>1
  <2>2. ASSUME NEW r \in Requests, IssueSession(r)
        PROVE  \/ admins'[a].current_refresh_jti = admins[a].current_refresh_jti
               \/ admins'[a].current_refresh_jti \notin Tokens
    <3>1. Len(issued) \in Nat
      BY <1>1 DEF Inv, TypeOK
    <3>2. Len(issued) + 1 \notin Tokens
      BY <3>1 DEF Tokens
    <3> QED
      BY <1>1, <2>2, <3>2, IssuedRow
  <2>3. ASSUME NEW r \in Requests, Save(r)
        PROVE  admins'[a].current_refresh_jti \in {admins[a].current_refresh_jti, NULL}
    <3>1. req[r].obj.current_refresh_jti \in {req[r].was.current_refresh_jti, NULL}
      BY <1>1, <2>3 DEF Save, Inv, WorkInv, Holds
    <3>2. CASE admins'[a] = admins[a]
      BY <3>2
    <3>3. CASE admins'[a] = Updated(admins[a], req[r].was, req[r].obj, SetsPassword(r))
      <4>1. admins'[a].current_refresh_jti =
              Column(admins[a].current_refresh_jti, req[r].was.current_refresh_jti,
                     req[r].obj.current_refresh_jti)
        BY <3>3 DEF Updated
      <4> QED
        BY <3>1, <4>1 DEF Column
    <3> QED
      BY <1>1, <2>3, <3>2, <3>3, SavedRow
  <2> QED
    BY <1>1, <2>1, <2>2, <2>3, RowsChangeByCommit
<1>2. Inv /\ [Next]_vars =>
        [\A a \in Admins :
            \/ admins'[a].current_refresh_jti = admins[a].current_refresh_jti
            \/ admins'[a].current_refresh_jti = NULL
            \/ admins'[a].current_refresh_jti \notin Tokens]_vars
  BY <1>1
<1> QED
  BY <1>2, Invariance, PTL DEF Spec, OnlyFreshSessions

(* No commit writes a password or a status its operation does not set, nor *)
(* clears the pointer of a session it does not end.                        *)
THEOREM CommitsKeepToTheirColumns == Spec => OwnColumnsOnly
<1> DEFINE EndingOps == {"logout", "reset", "deactivate", "delete"}
           Own(a) ==
             /\ \/ admins'[a].hashed_password = admins[a].hashed_password
                \/ \E op \in {"replace", "reset"} : Committing(op, a)
             /\ \/ admins'[a].status = admins[a].status
                \/ \E op \in {"activate", "deactivate", "delete"} : Committing(op, a)
             /\ \/ admins[a].current_refresh_jti = NULL
                \/ admins'[a].current_refresh_jti # NULL
                \/ \E op \in EndingOps : Committing(op, a)
<1>1. ASSUME Inv, [Next]_vars, NEW a \in Admins PROVE Own(a)
  <2>1. CASE UNCHANGED admins
    BY <2>1
  <2>2. ASSUME NEW r \in Requests, IssueSession(r) PROVE Own(a)
    <3>1. Len(issued) + 1 # NULL
      BY <1>1, NullAssumption DEF Inv, TypeOK
    <3> QED
      BY <1>1, <2>2, <3>1, IssuedRow
  <2>3. ASSUME NEW r \in Requests, Save(r), admins'[a] # admins[a] PROVE Own(a)
    <3>1. /\ a = req[r].admin
          /\ admins'[a] = Updated(admins[a], req[r].was, req[r].obj, SetsPassword(r))
      BY <1>1, <2>3, SavedRow
    <3>2. req[r].pc = "saving" /\ req'[r].pc = "idle"
      BY <1>1, <2>3 DEF Save, Finish, Idle, Request, Inv, TypeOK
    <3>3. Committing(req[r].op, a)
      BY <3>1, <3>2 DEF Committing
    <3>4. \/ admins'[a].hashed_password = admins[a].hashed_password
          \/ req[r].op \in {"replace", "reset"}
      BY <3>1 DEF Updated, SetsPassword
    <3>5. /\ \/ req[r].op \in {"activate", "deactivate", "delete"}
             \/ req[r].obj.status = req[r].was.status
          /\ \/ req[r].op \in EndingOps
             \/ req[r].obj.current_refresh_jti = req[r].was.current_refresh_jti
      BY <1>1, <3>2 DEF Inv, WorkInv, Holds
    <3>6. \/ admins'[a].status = admins[a].status
          \/ req[r].op \in {"activate", "deactivate", "delete"}
      BY <3>1, <3>5 DEF Updated, Column
    <3>7. \/ admins'[a].current_refresh_jti = admins[a].current_refresh_jti
          \/ req[r].op \in EndingOps
      BY <3>1, <3>5 DEF Updated, Column
    <3> QED
      BY <3>3, <3>4, <3>6, <3>7
  <2> QED
    BY <1>1, <2>1, <2>2, <2>3, RowsChangeByCommit
<1>2. Inv /\ [Next]_vars => [\A a \in Admins : Own(a)]_vars
  BY <1>1
<1> QED
  BY <1>2, Invariance, PTL DEF Spec, OwnColumnsOnly

(* A request that commits ends.                                            *)
LEMMA CommitEnds ==
    ASSUME Inv, NEW r \in Requests, IssueSession(r) \/ Save(r)
    PROVE  Ending(r, req[r].admin)
<1>1. req[r].pc \in {"issuing", "saving"} /\ Finish(r)
  BY DEF IssueSession, Save
<1>2. req'[r] = Idle
  BY <1>1 DEF Finish, Inv, TypeOK
<1>3. Idle.pc = "idle"
  BY DEF Idle, Request
<1> QED
  BY <1>1, <1>2, <1>3 DEF Ending

(* However requests interleave, an inactive admin comes to have a session  *)
(* only by one issued to a request that had read it while it was active,   *)
(* or by a deactivation that had read it before the session began.         *)
THEOREM DeactivationRevokes == Spec => DeactivationEndsSession
<1> DEFINE Ended(a) ==
        admins'[a].status = "inactive" /\ admins'[a].current_refresh_jti # NULL =>
            \/ /\ admins[a].status = "inactive"
               /\ admins'[a].current_refresh_jti = admins[a].current_refresh_jti
            \/ \E r \in Requests :
                /\ Ending(r, a)
                /\ \/ /\ req[r].op \in {"login", "refresh"}
                      /\ req[r].was.status = "active" /\ admins[a].status = "inactive"
                   \/ /\ req[r].op \in {"deactivate", "delete"}
                      /\ req[r].was.current_refresh_jti = NULL
                      /\ admins[a].current_refresh_jti # NULL
<1>1. ASSUME Inv, [Next]_vars, NEW a \in Admins PROVE Ended(a)
  <2>1. CASE UNCHANGED admins
    BY <2>1
  <2>2. ASSUME NEW r \in Requests, IssueSession(r) PROVE Ended(a)
    <3>1. CASE a = req[r].admin
      <4>1. /\ req[r].op \in {"login", "refresh"} /\ req[r].was.status = "active"
            /\ admins'[a].status = admins[a].status
        BY <1>1, <2>2, IssuedRow DEF IssueSession, Inv, WorkInv, Holds
      <4> QED
        BY <1>1, <2>2, <3>1, <4>1, CommitEnds
    <3>2. CASE a # req[r].admin
      BY <1>1, <2>2, <3>2 DEF IssueSession, Inv, TypeOK
    <3> QED
      BY <3>1, <3>2
  <2>3. ASSUME NEW r \in Requests, Save(r), admins'[a] # admins[a],
               admins'[a].status = "inactive", admins'[a].current_refresh_jti # NULL
        PROVE  Ended(a)
    <3>1. /\ a = req[r].admin
          /\ admins'[a] = Updated(admins[a], req[r].was, req[r].obj, SetsPassword(r))
      BY <1>1, <2>3, SavedRow
    <3>2. /\ admins'[a].status =
                Column(admins[a].status, req[r].was.status, req[r].obj.status)
          /\ admins'[a].current_refresh_jti =
                Column(admins[a].current_refresh_jti, req[r].was.current_refresh_jti,
                       req[r].obj.current_refresh_jti)
      BY <3>1 DEF Updated
    <3>3. /\ req[r].obj.current_refresh_jti \in {req[r].was.current_refresh_jti, NULL}
          /\ req[r].op \notin {"activate", "deactivate", "delete"} =>
                req[r].obj.status = req[r].was.status
          /\ req[r].op = "activate" => req[r].obj.status = "active"
          /\ req[r].obj.status # req[r].was.status /\ req[r].obj.status = "inactive" =>
                req[r].obj.current_refresh_jti = NULL
      BY <1>1, <2>3 DEF Save, Inv, WorkInv, Holds
    <3>4. /\ admins'[a].current_refresh_jti = admins[a].current_refresh_jti
          /\ req[r].obj.current_refresh_jti = req[r].was.current_refresh_jti
      BY <2>3, <3>2, <3>3 DEF Column
    <3>5. CASE admins[a].status = "inactive"
      BY <3>4, <3>5
    <3>6. CASE admins[a].status # "inactive"
      <4>1. req[r].obj.status # req[r].was.status /\ req[r].obj.status = "inactive"
        BY <2>3, <3>2, <3>6 DEF Column
      <4>2. /\ req[r].op \in {"deactivate", "delete"}
            /\ req[r].was.current_refresh_jti = NULL
        BY <3>3, <3>4, <4>1
      <4> QED
        BY <1>1, <2>3, <3>1, <3>4, <4>2, CommitEnds
    <3> QED
      BY <3>5, <3>6
  <2>4. ASSUME NEW r \in Requests, Save(r) PROVE Ended(a)
    BY <2>3, <2>4
  <2> QED
    BY <1>1, <2>1, <2>2, <2>4, RowsChangeByCommit
<1>2. Inv /\ [Next]_vars => [\A a \in Admins : Ended(a)]_vars
  BY <1>1
<1> QED
  BY <1>2, Invariance, PTL DEF Spec, DeactivationEndsSession

(* However requests interleave, a lockout that stands is lifted only by a  *)
(* new password or by a login that had read the row before it and found an *)
(* expired lockout to clear or caused a lockout of its own.                *)
THEOREM LockoutIsNotLifted == Spec => LockoutStands
<1> DEFINE Stands(a) ==
        Locked(admins[a]) =>
            \/ admins'[a].locked_until = admins[a].locked_until
            \/ \E op \in {"replace", "reset"} : Committing(op, a)
            \/ \E r \in Requests :
                /\ Ending(r, a)
                /\ req[r].op = "login"
                /\ ~Locked(req[r].was)
                /\ req[r].was.locked_until # NULL \/ req[r].obj.locked_until # NULL
<1>1. ASSUME Inv, [Next]_vars, NEW a \in Admins PROVE Stands(a)
  <2>1. CASE UNCHANGED admins
    BY <2>1
  <2>2. ASSUME NEW r \in Requests, Ending(r, a), req[r].op \in Operations \ {"replace", "reset"},
               admins'[a].locked_until =
                    Column(admins[a].locked_until, req[r].was.locked_until,
                           req[r].obj.locked_until)
        PROVE  Stands(a)
    <3> SUFFICES ASSUME Locked(admins[a]), admins'[a].locked_until # admins[a].locked_until
                 PROVE  Stands(a)
      OBVIOUS
    <3>1. req[r].obj.locked_until # req[r].was.locked_until
      BY <2>2 DEF Column
    <3>2. req[r].op = "login" /\ ~Locked(req[r].was)
      BY <1>1, <2>2, <3>1 DEF Ending, Inv, WorkInv, Holds
    <3> QED
      BY <2>2, <3>1, <3>2
  <2>3. ASSUME NEW r \in Requests, IssueSession(r) PROVE Stands(a)
    <3> DEFINE obj == [req[r].obj EXCEPT !.current_refresh_jti = Len(issued) + 1]
    <3>1. CASE a = req[r].admin
      <4>1. req[r].op \in {"login", "refresh"} /\ req[r].obj \in PlatformAdmin
        BY <1>1, <2>3 DEF IssueSession, Inv, WorkInv, Holds
      <4>2. obj.locked_until = req[r].obj.locked_until
        BY <4>1 DEF PlatformAdmin
      <4>3. admins'[a] = Updated(admins[a], req[r].was, obj, FALSE)
        BY <1>1, <2>3, <3>1 DEF IssueSession, Inv, TypeOK
      <4> HIDE DEF obj
      <4>4. admins'[a].locked_until =
              Column(admins[a].locked_until, req[r].was.locked_until, req[r].obj.locked_until)
        BY <4>2, <4>3 DEF Updated
      <4> QED
        BY <1>1, <2>2, <2>3, <3>1, <4>1, <4>4, CommitEnds DEF Operations
    <3>2. CASE a # req[r].admin
      BY <1>1, <2>3, <3>2 DEF IssueSession, Inv, TypeOK
    <3> QED
      BY <3>1, <3>2
  <2>4. ASSUME NEW r \in Requests, Save(r), admins'[a] # admins[a] PROVE Stands(a)
    <3>1. /\ a = req[r].admin
          /\ admins'[a] = Updated(admins[a], req[r].was, req[r].obj, SetsPassword(r))
      BY <1>1, <2>4, SavedRow
    <3>2. Ending(r, a) /\ req[r].pc = "saving" /\ req[r].op \in Operations
      BY <1>1, <2>4, <3>1, CommitEnds DEF Save, Inv, TypeOK, RequestType
    <3>3. CASE req[r].op \in {"replace", "reset"}
      <4>1. Committing(req[r].op, a)
        BY <3>2 DEF Committing, Ending
      <4> QED
        BY <3>3, <4>1
    <3>4. CASE req[r].op \notin {"replace", "reset"}
      <4>1. admins'[a].locked_until =
              Column(admins[a].locked_until, req[r].was.locked_until, req[r].obj.locked_until)
        BY <3>1 DEF Updated
      <4> QED
        BY <2>2, <3>2, <3>4, <4>1
    <3> QED
      BY <3>3, <3>4
  <2>5. ASSUME NEW r \in Requests, Save(r) PROVE Stands(a)
    BY <2>4, <2>5
  <2> QED
    BY <1>1, <2>1, <2>3, <2>5, RowsChangeByCommit
<1>2. Inv /\ [Next]_vars => [\A a \in Admins : Stands(a)]_vars
  BY <1>1
<1> QED
  BY <1>2, Invariance, PTL DEF Spec, LockoutStands

(* A step of one request leaves the others where they are.                 *)
LEMMA OthersKeep ==
    ASSUME Inv, NEW r \in Requests, AuthStep(r) \/ ManageStep(r) \/ Save(r) \/ Abandon(r),
           NEW s \in Requests, s # r
    PROVE  req'[s] = req[s]
<1>1. req \in [Requests -> RequestType]
  BY DEF Inv, TypeOK
<1>2. ASSUME NEW q, req' = [req EXCEPT ![r] = q] PROVE req'[s] = req[s]
  BY <1>1, <1>2
<1>3. \A op, a, token, pc, was, obj :
        Begin(r, op, a, token, pc, was, obj) => req'[s] = req[s]
  BY <1>2 DEF Begin
<1>4. Finish(r) => req'[s] = req[s]
  BY <1>2 DEF Finish
<1>5. CASE Autoflush(r) \/ GuardLastActive(r)
  BY <1>1, <1>5 DEF Autoflush, GuardLastActive
<1>6. CASE IssueSession(r) \/ Save(r) \/ Abandon(r)
  BY <1>4, <1>6 DEF IssueSession, Save, Abandon
<1>7. CASE \E a \in Admins, password \in Passwords :
            \/ LoginWrongPassword(r, a, password) \/ LoginInactive(r, a, password)
            \/ Login(r, a, password) \/ ResetPassword(r, a, password)
  BY <1>3, <1>7 DEF LoginWrongPassword, LoginInactive, Login, ResetPassword
<1>8. CASE \/ \E token \in Tokens : Refresh(r, token) \/ Logout(r, token)
           \/ \E token \in Tokens, op \in Managing, a \in Admins : Manage(r, token, op, a)
  BY <1>3, <1>8 DEF Refresh, Logout, Manage
<1>9. CASE LoadTarget(r)
  BY <1>3, <1>9 DEF LoadTarget
<1> QED
  BY <1>5, <1>6, <1>7, <1>8, <1>9 DEF AuthStep, ManageStep

-----------------------------------------------------------------------------
(* Deactivations kept apart: the guard of the last active admin holds.     *)

(* A request about to deactivate an active admin leaves another one.       *)
SerialInv ==
    /\ SomeActiveAdmin
    /\ \A r \in Requests : Deactivating(req[r]) => OtherActive(req[r].admin)

LEMMA NextSerialInv ==
    ASSUME OneDeactivation, Inv, Inv', SerialInv, [Next]_vars
    PROVE  SerialInv'
<1>0. /\ req \in [Requests -> RequestType]
      /\ admins \in [Admins -> PlatformAdmin]
  BY DEF Inv, TypeOK
<1>1. ASSUME UNCHANGED admins,
             \A r \in Requests : Deactivating(req'[r]) => OtherActive(req'[r].admin)
      PROVE  SerialInv'
  BY <1>1 DEF SerialInv, SomeActiveAdmin, OtherActive, Deactivating
<1> DEFINE Moves(r) == AuthStep(r) \/ ManageStep(r) \/ Save(r) \/ Abandon(r)
<1>others. ASSUME NEW r \in Requests, Moves(r), NEW s \in Requests, s # r
           PROVE  req'[s] = req[s]
  BY <1>others, OthersKeep
<1> HIDE DEF Moves
<1>step. ASSUME NEW r \in Requests, Moves(r), UNCHANGED admins,
                Deactivating(req'[r]) => OtherActive(req'[r].admin)
         PROVE  SerialInv'
  BY <1>1, <1>step, <1>others DEF SerialInv
<1>2. ASSUME NEW r \in Requests, Moves(r), UNCHANGED admins,
             req'[r].op \notin {"activate", "deactivate", "delete"}
      PROVE  SerialInv'
  <2>1. ~Deactivating(req'[r])
    BY <1>2 DEF Inv, WorkInv, Holds, Deactivating
  <2> QED
    BY <1>step, <1>2, <2>1
<1>3. ASSUME NEW r \in Requests, Moves(r), UNCHANGED admins, req'[r].pc # "saving"
      PROVE  SerialInv'
  BY <1>step, <1>3 DEF Deactivating
<1>4. ASSUME NEW r \in Requests, NEW a \in Admins, NEW password \in Passwords,
             \/ LoginWrongPassword(r, a, password) \/ LoginInactive(r, a, password)
             \/ Login(r, a, password) \/ ResetPassword(r, a, password)
      PROVE  SerialInv'
  <2>1. UNCHANGED admins /\ req'[r].op \in {"login", "reset"}
    BY <1>0, <1>4 DEF LoginWrongPassword, LoginInactive, Login, ResetPassword, Begin, Request
  <2> QED
    BY <1>2, <1>4, <2>1 DEF Moves, AuthStep
<1>5. ASSUME NEW r \in Requests, NEW token \in Tokens, Refresh(r, token) \/ Logout(r, token)
      PROVE  SerialInv'
  <2>1. UNCHANGED admins /\ req'[r].op \in {"refresh", "logout"}
    BY <1>0, <1>5 DEF Refresh, Logout, Begin, Request
  <2> QED
    BY <1>2, <1>5, <2>1 DEF Moves, AuthStep
<1>6. ASSUME NEW r \in Requests, Autoflush(r) PROVE SerialInv'
  <2>1. UNCHANGED admins /\ req'[r].pc = "issuing"
    BY <1>0, <1>6 DEF Autoflush, RequestType
  <2> QED
    BY <1>3, <1>6, <2>1 DEF Moves, AuthStep
<1>7. ASSUME NEW r \in Requests, NEW token \in Tokens, NEW op \in Managing, NEW a \in Admins,
             Manage(r, token, op, a)
      PROVE  SerialInv'
  <2>1. UNCHANGED admins /\ req'[r].pc = "loading"
    BY <1>0, <1>7 DEF Manage, Begin, Request
  <2> QED
    BY <1>3, <1>7, <2>1 DEF Moves, ManageStep
<1>8. ASSUME NEW r \in Requests, LoadTarget(r) PROVE SerialInv'
  <2> DEFINE row == IF req[r].was = NULL THEN admins[req[r].admin] ELSE req[r].was
  <2>1. row \in PlatformAdmin
    BY <1>0, <1>8 DEF LoadTarget, Inv, WorkInv, Holds, RequestType
  <2>2. Deactivated(row).status = "inactive" /\ [row EXCEPT !.status = "active"].status = "active"
    BY <2>1 DEF Deactivated, PlatformAdmin
  <2>3. UNCHANGED admins
    BY <1>8 DEF LoadTarget
  <2>4. \/ req'[r].pc = "guarding"
        \/ req'[r].obj = req'[r].was
        \/ req'[r].was.status = "inactive" /\ req'[r].obj.status = "inactive"
        \/ req'[r].obj.status = "active"
        \/ req'[r].op = "replace"
    <3> DEFINE op == req[r].op
               a == req[r].admin
               token == req[r].token
    <3>1. ASSUME NEW pc, NEW obj, Begin(r, op, a, token, pc, row, obj)
          PROVE  /\ req'[r].op = op /\ req'[r].pc = pc
                 /\ req'[r].was = row /\ req'[r].obj = obj
      BY <1>0, <3>1 DEF Begin, Request
    <3>2. row.status \in Status /\ op \in Managing
      BY <1>8, <2>1 DEF PlatformAdmin, LoadTarget, Inv, WorkInv, Holds
    <3>3. \/ Begin(r, op, a, token, "guarding", row, row)
          \/ Begin(r, op, a, token, "saving", row, row)
          \/ row.status = "inactive" /\ Begin(r, op, a, token, "saving", row, Deactivated(row))
          \/ Begin(r, op, a, token, "saving", row, [row EXCEPT !.status = "active"])
          \/ op = "replace" /\ \E password \in Passwords :
                Begin(r, op, a, token, "saving", row,
                      [ClearLockout(row) EXCEPT !.hashed_password = password])
      BY <1>8 DEF LoadTarget
    <3> HIDE DEF row, op, a, token
    <3> QED
      BY <2>2, <3>1, <3>3
  <2>5. ~Deactivating(req'[r])
    BY <2>4 DEF Deactivating, Inv, WorkInv, Holds
  <2> QED
    BY <1>step, <1>8, <2>3, <2>5 DEF Moves, ManageStep
<1>9. ASSUME NEW r \in Requests, GuardLastActive(r) PROVE SerialInv'
  <2>1. UNCHANGED admins
    BY <1>9 DEF GuardLastActive
  <2>2. CASE OtherActive(req[r].admin)
    <3>1. req'[r].admin = req[r].admin
      BY <1>0, <1>9, <2>2 DEF GuardLastActive, RequestType
    <3> QED
      BY <1>step, <1>9, <2>1, <2>2, <3>1 DEF Moves, ManageStep
  <2>3. CASE ~OtherActive(req[r].admin)
    <3>1. req'[r].pc = "idle"
      BY <1>0, <1>9, <2>3 DEF GuardLastActive, Idle, Request
    <3> QED
      BY <1>3, <1>9, <2>1, <3>1 DEF Moves, ManageStep
  <2> QED
    BY <2>2, <2>3
<1>10. ASSUME NEW r \in Requests, Moves(r), req'[r].pc = "idle",
              \A a \in Admins : admins[a].status = "active" => admins'[a].status = "active"
       PROVE  SerialInv'
  <2>1. \A s \in Requests \ {r} : Deactivating(req'[s]) => OtherActive(req'[s].admin)
    BY <1>10, <1>others DEF SerialInv
  <2>2. \A a : OtherActive(a) => \E b \in Admins \ {a} : admins'[b].status = "active"
    BY <1>10 DEF OtherActive
  <2>3. ~Deactivating(req'[r])
    BY <1>10 DEF Deactivating
  <2>4. \A s \in Requests : Deactivating(req'[s]) =>
            \E b \in Admins \ {req'[s].admin} : admins'[b].status = "active"
    BY <2>1, <2>2, <2>3
  <2>5. SomeActiveAdmin'
    BY <1>10 DEF SerialInv, SomeActiveAdmin
  <2> QED
    BY <2>4, <2>5 DEF SerialInv, Deactivating, OtherActive
<1>11. ASSUME NEW r \in Requests, IssueSession(r) PROVE SerialInv'
  <2>1. \A a \in Admins : admins'[a].status = admins[a].status
    BY <1>11, IssuedRow
  <2>2. req'[r].pc = "idle"
    BY <1>0, <1>11 DEF IssueSession, Finish, Idle, Request
  <2> QED
    BY <1>10, <1>11, <2>1, <2>2 DEF Moves, AuthStep
<1>12. ASSUME NEW r \in Requests, Save(r) PROVE SerialInv'
  <2>1. req[r].pc = "saving" /\ req'[r].pc = "idle" /\ req[r].admin \in Admins
    BY <1>0, <1>12 DEF Save, Finish, Idle, Request, Inv, WorkInv, Holds
  <2>2. \A a \in Admins \ {req[r].admin} : admins'[a] = admins[a]
    BY <1>12, SavedRow
  <2>3. CASE Deactivating(req[r])
    <3>1. SomeActiveAdmin'
      BY <2>2, <2>3 DEF SerialInv, OtherActive, SomeActiveAdmin
    <3>2. \A s \in Requests \ {r} : ~Deactivating(req'[s])
      BY <1>12, <1>others, <2>3 DEF OneDeactivation, Moves
    <3>3. ~Deactivating(req'[r])
      BY <2>1 DEF Deactivating
    <3> QED
      BY <3>1, <3>2, <3>3 DEF SerialInv, Deactivating
  <2>4. CASE ~Deactivating(req[r])
    <3>1. \/ admins'[req[r].admin].status = admins[req[r].admin].status
          \/ admins'[req[r].admin].status # "inactive"
      <4>1. CASE admins'[req[r].admin] = admins[req[r].admin]
        BY <4>1
      <4>2. CASE admins'[req[r].admin].status =
                    Column(admins[req[r].admin].status, req[r].was.status, req[r].obj.status)
        BY <2>1, <2>4, <4>2 DEF Column, Deactivating
      <4>3. \/ admins'[req[r].admin] = admins[req[r].admin]
            \/ admins'[req[r].admin] = Updated(admins[req[r].admin], req[r].was,
                                              req[r].obj, SetsPassword(r))
        BY <1>12, <2>1, SavedRow
      <4>4. \A x, w, o, sets : Updated(x, w, o, sets).status = Column(x.status, w.status, o.status)
        BY DEF Updated
      <4> QED
        BY <4>1, <4>2, <4>3, <4>4
    <3>2. admins'[req[r].admin].status \in Status
      BY <2>1 DEF Inv, TypeOK, PlatformAdmin
    <3> QED
      BY <1>10, <1>12, <2>1, <2>2, <3>1, <3>2 DEF Moves, Status
  <2> QED
    BY <2>3, <2>4
<1>13. ASSUME NEW r \in Requests, Abandon(r) PROVE SerialInv'
  <2>1. UNCHANGED admins /\ req'[r].pc = "idle"
    BY <1>0, <1>13 DEF Abandon, Finish, Idle, Request
  <2> QED
    BY <1>3, <1>13, <2>1 DEF Moves
<1>14. CASE Tick \/ UNCHANGED vars
  BY <1>14 DEF Tick, vars, SerialInv, SomeActiveAdmin, OtherActive, Deactivating
<1> QED
  BY <1>4, <1>5, <1>6, <1>7, <1>8, <1>9, <1>11, <1>12, <1>13, <1>14
     DEF Next, AuthStep, ManageStep

LEMMA InitSerialInv == Init => SerialInv
<1> SUFFICES ASSUME Init PROVE SerialInv
  OBVIOUS
<1>1. PICK status \in [Admins -> Status], password \in Passwords :
        /\ \E a \in Admins : status[a] = "active"
        /\ admins = [a \in Admins |->
              [status |-> status[a], hashed_password |-> password,
               failed_login_attempts |-> 0, locked_until |-> NULL,
               current_refresh_jti |-> NULL]]
  BY DEF Init
<1>2. \A a \in Admins : admins[a].status = status[a]
  BY <1>1
<1>3. \A r \in Requests : req[r].pc = "idle"
  BY DEF Init, Idle, Request
<1> QED
  BY <1>1, <1>2, <1>3 DEF SerialInv, SomeActiveAdmin, Deactivating

LEMMA SerialInvariance == Spec /\ []OneDeactivation => []SerialInv
<1>1. OneDeactivation /\ Inv /\ Inv' /\ SerialInv /\ [Next]_vars => SerialInv'
  BY NextSerialInv
<1> QED
  BY <1>1, InitSerialInv, Invariance, PTL DEF Spec

(* However requests interleave, an active admin remains as long as no two  *)
(* deactivations are between their guard and their commit at a time; when  *)
(* they are, it may not (run accounts_last_admin).                         *)
THEOREM GuardKeepsAnActiveAdmin == Spec /\ []OneDeactivation => []SomeActiveAdmin
<1>1. SerialInv => SomeActiveAdmin
  BY DEF SerialInv
<1> QED
  BY <1>1, SerialInvariance, PTL

-----------------------------------------------------------------------------
(* Requests on one admin kept apart: sessions.                             *)

(* An inactive admin has no session that a reactivation would revive.      *)
InactiveHasNoSession ==
    \A a \in Admins : admins[a].status = "inactive" => admins[a].current_refresh_jti = NULL

Working == {"authorizing", "issuing", "guarding", "saving"}

(* While nobody else works on it, the row is what a request has loaded of  *)
(* it, whatever goes on in the rows of others.  The copy it changes gives  *)
(* no session to an inactive admin, and a session is issued only for the   *)
(* current token.                                                          *)
Faithful(q) ==
    /\ q.pc = "loading" => q.was \in {NULL, admins[q.admin]}
    /\ q.pc \in Working =>
          /\ q.was = admins[q.admin]
          /\ q.obj.status = "inactive" => q.obj.current_refresh_jti = NULL
    /\ q.pc \in {"authorizing", "issuing"} /\ q.token # NULL =>
          q.was.current_refresh_jti = q.token

SessionInv == InactiveHasNoSession /\ \A r \in Requests : Faithful(req[r])

LEMMA IdleFaithful == Faithful(Idle) /\ Idle.pc = "idle"
  BY DEF Faithful, Idle, Request, Working

Moves(r) == AuthStep(r) \/ ManageStep(r) \/ Save(r) \/ Abandon(r)

(* A step that changes no row and no time.                                 *)
LEMMA FaithfulStep ==
    ASSUME Inv, SessionInv, NEW r \in Requests, Moves(r), UNCHANGED <<admins, now>>,
           Faithful(req'[r])
    PROVE  SessionInv'
<1>1. \A s \in Requests : Faithful(req'[s])
  BY OthersKeep DEF SessionInv, Moves
<1>2. \A s \in Requests : Faithful(req[s])'
  BY <1>1 DEF Faithful
<1> QED
  BY <1>2 DEF SessionInv, InactiveHasNoSession

(* A request that starts, or goes on, from the row as it is.               *)
LEMMA FaithfulBegin ==
    ASSUME Inv, SessionInv, NEW r \in Requests, Moves(r),
           NEW op, NEW a \in Admins, NEW token,
           NEW pc \in Working, NEW obj,
           Begin(r, op, a, token, pc, admins[a], obj), UNCHANGED <<admins, now>>,
           obj.status = "inactive" => obj.current_refresh_jti = NULL,
           pc \in {"authorizing", "issuing"} =>
                (token # NULL => admins[a].current_refresh_jti = token)
    PROVE  SessionInv'
<1> DEFINE q == Request(op, a, token, pc, admins[a], obj)
<1>1. req'[r] = q
  BY DEF Begin, Inv, TypeOK
<1>2. /\ q.op = op /\ q.admin = a /\ q.token = token /\ q.pc = pc
      /\ q.was = admins[a] /\ q.obj = obj
  BY DEF Request
<1> HIDE DEF q
<1>3. Faithful(q)
  BY <1>2 DEF Faithful, Working
<1> QED
  BY <1>1, <1>3, FaithfulStep

LEMMA RowFaithful ==
    ASSUME Inv, SessionInv, NEW a \in Admins
    PROVE  /\ admins[a] \in PlatformAdmin /\ now \in Nat
           /\ admins[a].status = "inactive" => admins[a].current_refresh_jti = NULL
  BY DEF Inv, TypeOK, SessionInv, InactiveHasNoSession

LEMMA AuthStartFaithful ==
    ASSUME Inv, SessionInv, NEW r \in Requests, NEW a \in Admins,
           NEW password \in Passwords,
           \/ LoginWrongPassword(r, a, password) \/ LoginInactive(r, a, password)
           \/ Login(r, a, password) \/ ResetPassword(r, a, password)
    PROVE  SessionInv'
<1> DEFINE row == admins[a]
<1>0. Moves(r)
  BY DEF Moves, AuthStep
<1>1. /\ row \in PlatformAdmin /\ now \in Nat
      /\ row.status = "inactive" => row.current_refresh_jti = NULL
  BY RowFaithful
<1>2. \A x \in {ClearLockout(row), ExpireLock(row), CountFailure(ExpireLock(row))} :
        /\ x.status = row.status
        /\ x.current_refresh_jti = row.current_refresh_jti
  BY <1>1, RowOperations
<1>3. ClearLockout(row) \in PlatformAdmin
  BY <1>1, RowOperations
<1>4. UNCHANGED <<admins, now>>
  BY DEF LoginWrongPassword, LoginInactive, Login, ResetPassword
<1>5. CASE LoginWrongPassword(r, a, password)
  <2> DEFINE obj == CountFailure(ExpireLock(row))
  <2>1. obj.status = "inactive" => obj.current_refresh_jti = NULL
    BY <1>1, <1>2
  <2>2. Begin(r, "login", a, NULL, "saving", admins[a], obj)
    BY <1>5 DEF LoginWrongPassword
  <2> HIDE DEF obj
  <2> QED
    BY <1>0, <1>4, <2>1, <2>2, FaithfulBegin DEF Working
<1>6. CASE LoginInactive(r, a, password)
  <2> DEFINE obj == ExpireLock(row)
  <2>1. obj.status = "inactive" => obj.current_refresh_jti = NULL
    BY <1>1, <1>2
  <2>2. Begin(r, "login", a, NULL, "saving", admins[a], obj)
    BY <1>6 DEF LoginInactive
  <2> HIDE DEF obj
  <2> QED
    BY <1>0, <1>4, <2>1, <2>2, FaithfulBegin DEF Working
<1>7. CASE Login(r, a, password)
  <2> DEFINE obj == ClearLockout(row)
  <2>1. obj.status = "inactive" => obj.current_refresh_jti = NULL
    BY <1>1, <1>2
  <2>2. Begin(r, "login", a, NULL, "authorizing", admins[a], obj)
    BY <1>7 DEF Login
  <2> HIDE DEF obj
  <2> QED
    BY <1>0, <1>4, <2>1, <2>2, FaithfulBegin DEF Working
<1>8. CASE ResetPassword(r, a, password)
  <2> DEFINE obj == [ClearLockout(row) EXCEPT !.current_refresh_jti = NULL,
                                              !.hashed_password = password]
  <2>1. obj.current_refresh_jti = NULL
    BY <1>3 DEF PlatformAdmin
  <2>2. Begin(r, "reset", a, NULL, "saving", admins[a], obj)
    BY <1>8 DEF ResetPassword
  <2> HIDE DEF obj
  <2> QED
    BY <1>0, <1>4, <2>1, <2>2, FaithfulBegin DEF Working
<1> QED
  BY <1>5, <1>6, <1>7, <1>8

LEMMA TokenStartFaithful ==
    ASSUME Inv, SessionInv, NEW r \in Requests, NEW token \in Tokens,
           Refresh(r, token) \/ Logout(r, token)
    PROVE  SessionInv'
<1> DEFINE a == issued[token].admin
<1>0. Moves(r)
  BY DEF Moves, AuthStep
<1>1. a \in Admins
  <2>1. issued \in Seq(Session)
    BY DEF Inv, TypeOK
  <2>2. issued[token] \in Session
    BY <2>1 DEF Tokens
  <2> QED
    BY <2>2 DEF Session
<1>2. /\ admins[a] \in PlatformAdmin
      /\ admins[a].status = "inactive" => admins[a].current_refresh_jti = NULL
  BY <1>1, RowFaithful
<1>3. UNCHANGED <<admins, now>>
  BY DEF Refresh, Logout
<1>4. CASE Refresh(r, token)
  <2>1. /\ Begin(r, "refresh", a, token, "issuing", admins[a], admins[a])
        /\ admins[a].current_refresh_jti = token
    BY <1>4 DEF Refresh, Accepted
  <2> HIDE DEF a
  <2> QED
    BY <1>0, <1>1, <1>2, <1>3, <2>1, FaithfulBegin DEF Working
<1>5. CASE Logout(r, token)
  <2> DEFINE obj == [admins[a] EXCEPT !.current_refresh_jti = NULL]
  <2>1. Begin(r, "logout", a, token, "saving", admins[a], obj)
    BY <1>5 DEF Logout
  <2>2. obj.current_refresh_jti = NULL
    BY <1>2 DEF PlatformAdmin
  <2> HIDE DEF a, obj
  <2> QED
    BY <1>0, <1>1, <1>3, <2>1, <2>2, FaithfulBegin DEF Working
<1> QED
  BY <1>4, <1>5

LEMMA ManageFaithful ==
    ASSUME Inv, SessionInv, NEW r \in Requests, NEW token \in Tokens,
           NEW op \in Managing, NEW a \in Admins, Manage(r, token, op, a)
    PROVE  SessionInv'
<1> DEFINE seen == IF issued[token].admin = a THEN admins[a] ELSE NULL
           q == Request(op, a, token, "loading", seen, seen)
<1>0. Moves(r)
  BY DEF Moves, ManageStep
<1>1. req'[r] = q /\ UNCHANGED <<admins, now>>
  BY DEF Manage, Begin, Inv, TypeOK
<1>2. q.pc = "loading" /\ q.admin = a /\ q.was \in {NULL, admins[a]}
  BY DEF Request
<1> HIDE DEF q
<1>3. Faithful(q)
  BY <1>2 DEF Faithful, Working
<1> QED
  BY <1>0, <1>1, <1>3, FaithfulStep

LEMMA LoadTargetFaithful ==
    ASSUME Inv, SessionInv, NEW r \in Requests, LoadTarget(r)
    PROVE  SessionInv'
<1> DEFINE op == req[r].op
           a == req[r].admin
           token == req[r].token
           row == IF req[r].was = NULL THEN admins[a] ELSE req[r].was
<1>0. Moves(r)
  BY DEF Moves, ManageStep
<1>1. a \in Admins /\ op \in Managing
  BY DEF LoadTarget, Inv, WorkInv, Holds
<1>2. row = admins[a]
  BY DEF LoadTarget, SessionInv, Faithful
<1>3. \/ Begin(r, op, a, token, "guarding", row, row)
      \/ Begin(r, op, a, token, "saving", row, row)
      \/ Begin(r, op, a, token, "saving", row, Deactivated(row))
      \/ Begin(r, op, a, token, "saving", row, [row EXCEPT !.status = "active"])
      \/ op = "replace" /\ \E password \in Passwords :
            Begin(r, op, a, token, "saving", row,
                  [ClearLockout(row) EXCEPT !.hashed_password = password])
  BY DEF LoadTarget
<1>4. UNCHANGED <<admins, now>>
  BY DEF LoadTarget
<1> HIDE DEF op, token, row
<1>5. /\ row \in PlatformAdmin /\ now \in Nat
      /\ row.status = "inactive" => row.current_refresh_jti = NULL
  BY <1>1, <1>2, RowFaithful
<1> HIDE DEF a
<1>6. ASSUME NEW pc \in {"guarding", "saving"}, NEW obj, Begin(r, op, a, token, pc, row, obj),
             obj.status = "inactive" => obj.current_refresh_jti = NULL
      PROVE  SessionInv'
  BY <1>0, <1>1, <1>2, <1>4, <1>6, FaithfulBegin DEF Working
<1>7. CASE Begin(r, op, a, token, "guarding", row, row) \/ Begin(r, op, a, token, "saving", row, row)
  BY <1>5, <1>6, <1>7
<1>8. CASE Begin(r, op, a, token, "saving", row, Deactivated(row))
  <2> DEFINE obj == Deactivated(row)
  <2>1. obj.current_refresh_jti = NULL
    BY <1>5 DEF Deactivated, PlatformAdmin
  <2>2. Begin(r, op, a, token, "saving", row, obj)
    BY <1>8
  <2> HIDE DEF obj
  <2> QED
    BY <1>6, <2>1, <2>2
<1>9. CASE Begin(r, op, a, token, "saving", row, [row EXCEPT !.status = "active"])
  <2> DEFINE obj == [row EXCEPT !.status = "active"]
  <2>1. obj.status = "active"
    BY <1>5 DEF PlatformAdmin
  <2>2. Begin(r, op, a, token, "saving", row, obj)
    BY <1>9
  <2> HIDE DEF obj
  <2> QED
    BY <1>6, <2>1, <2>2
<1>10. ASSUME op = "replace", NEW password \in Passwords,
              Begin(r, op, a, token, "saving", row,
                    [ClearLockout(row) EXCEPT !.hashed_password = password])
       PROVE  SessionInv'
  <2> DEFINE obj == [ClearLockout(row) EXCEPT !.hashed_password = password]
  <2>1. /\ ClearLockout(row) \in PlatformAdmin
        /\ ClearLockout(row).status = row.status
        /\ ClearLockout(row).current_refresh_jti = row.current_refresh_jti
    BY <1>5, RowOperations
  <2>2. obj.status = row.status /\ obj.current_refresh_jti = row.current_refresh_jti
    BY <2>1 DEF PlatformAdmin
  <2>3. Begin(r, op, a, token, "saving", row, obj)
    BY <1>10
  <2> HIDE DEF obj
  <2> QED
    BY <1>5, <1>6, <1>10, <2>2, <2>3
<1> QED
  BY <1>3, <1>7, <1>8, <1>9, <1>10

LEMMA GuardFaithful ==
    ASSUME Inv, SessionInv, NEW r \in Requests,
           Autoflush(r) \/ GuardLastActive(r)
    PROVE  SessionInv'
<1>0. Moves(r)
  BY DEF Moves, AuthStep, ManageStep
<1>1. /\ req \in [Requests -> RequestType] /\ Holds(req[r]) /\ Faithful(req[r])
      /\ UNCHANGED <<admins, now>>
  BY DEF Inv, TypeOK, WorkInv, SessionInv, Autoflush, GuardLastActive
<1>2. CASE Autoflush(r)
  <2>1. /\ req[r].pc = "authorizing" /\ req'[r].pc = "issuing"
        /\ req'[r].was = req[r].was /\ req'[r].obj = req[r].obj /\ req'[r].op = req[r].op
        /\ req'[r].admin = req[r].admin /\ req'[r].token = req[r].token
    BY <1>1, <1>2 DEF Autoflush, RequestType
  <2>2. Faithful(req'[r])
    BY <1>1, <2>1 DEF Faithful, Working
  <2> QED
    BY <1>0, <1>1, <2>2, FaithfulStep
<1>3. CASE GuardLastActive(r)
  <2>1. CASE req' = [req EXCEPT ![r] = Idle]
    BY <1>0, <1>1, <2>1, IdleFaithful, FaithfulStep
  <2>2. CASE req' = [req EXCEPT ![r].pc = "saving", ![r].obj = Deactivated(@)]
    <3>1. req[r].pc = "guarding" /\ req[r].obj = req[r].was /\ req[r].was \in PlatformAdmin
      BY <1>1, <1>3 DEF GuardLastActive, Holds
    <3> DEFINE obj == Deactivated(req[r].was)
    <3>2. obj.current_refresh_jti = NULL
      BY <3>1 DEF Deactivated, PlatformAdmin
    <3>3. /\ req'[r].pc = "saving" /\ req'[r].obj = obj /\ req'[r].was = req[r].was
          /\ req'[r].op = req[r].op /\ req'[r].admin = req[r].admin
      BY <1>1, <2>2, <3>1 DEF RequestType
    <3> HIDE DEF obj
    <3>4. req'[r].was = admins[req'[r].admin]
      BY <1>1, <3>1, <3>3 DEF Faithful, Working
    <3>5. Faithful(req'[r])
      BY <3>2, <3>3, <3>4 DEF Faithful, Working
    <3> QED
      BY <1>0, <1>1, <3>5, FaithfulStep
  <2> QED
    BY <1>3, <2>1, <2>2 DEF GuardLastActive
<1> QED
  BY <1>2, <1>3

(* The commit of a request writes the row of its admin, on which nobody    *)
(* else is at work.                                                        *)
LEMMA OthersStayFaithful ==
    ASSUME OnePerAdmin, Inv, SessionInv, NEW r \in Requests, Moves(r),
           req[r].pc # "idle", req'[r] = Idle, UNCHANGED now,
           \A b \in Admins \ {req[r].admin} : admins'[b] = admins[b]
    PROVE  \A s \in Requests : Faithful(req[s])'
<1> SUFFICES ASSUME NEW s \in Requests PROVE Faithful(req[s])'
  OBVIOUS
<1>1. CASE s = r
  <2>1. req'[s].pc = "idle"
    BY <1>1, IdleFaithful
  <2> QED
    BY <2>1 DEF Faithful, Working
<1>2. CASE s # r
  <2>1. req'[s] = req[s] /\ Faithful(req[s]) /\ Holds(req[s])
    BY <1>2, OthersKeep DEF Moves, SessionInv, Inv, WorkInv
  <2>2. req[s].pc # "idle" => req[s].admin \in Admins \ {req[r].admin}
    BY <1>2, <2>1 DEF OnePerAdmin, Holds
  <2>3. req[s].pc # "idle" => admins'[req[s].admin] = admins[req[s].admin]
    BY <2>2
  <2> QED
    BY <2>1, <2>3 DEF Faithful, Working
<1> QED
  BY <1>1, <1>2

LEMMA IssueFaithful ==
    ASSUME OnePerAdmin, Inv, SessionInv, NEW r \in Requests, IssueSession(r)
    PROVE  SessionInv'
<1> DEFINE a == req[r].admin
           obj == [req[r].obj EXCEPT !.current_refresh_jti = Len(issued) + 1]
           row == Updated(admins[a], req[r].was, obj, FALSE)
<1>1. /\ req[r].pc = "issuing" /\ a \in Admins /\ req[r].obj \in PlatformAdmin
      /\ req[r].was = admins[a] /\ req[r].obj.status = "active"
  BY DEF IssueSession, Inv, WorkInv, Holds, SessionInv, Faithful, Working
<1>2. obj.status = "active"
  BY <1>1 DEF PlatformAdmin
<1>3. admins' = [admins EXCEPT ![a] = row] /\ req'[r] = Idle
  BY DEF IssueSession, Finish, Inv, TypeOK
<1> HIDE DEF obj
<1>4. row.status = "active"
  BY <1>1, <1>2 DEF Updated, Column
<1> HIDE DEF row
<1>5. \A b \in Admins : admins'[b] = IF b = a THEN row ELSE admins[b]
  BY <1>3 DEF Inv, TypeOK
<1>6. InactiveHasNoSession'
  BY <1>4, <1>5 DEF SessionInv, InactiveHasNoSession
<1>7. /\ \A b \in Admins \ {req[r].admin} : admins'[b] = admins[b]
      /\ req'[r] = Idle /\ req[r].pc # "idle" /\ UNCHANGED now
  BY <1>1, <1>3, <1>5 DEF IssueSession
<1>8. \A s \in Requests : Faithful(req[s])'
  BY <1>7, OthersStayFaithful DEF Moves, AuthStep
<1> QED
  BY <1>6, <1>8 DEF SessionInv

LEMMA SaveFaithful ==
    ASSUME OnePerAdmin, Inv, SessionInv, NEW r \in Requests, Save(r)
    PROVE  SessionInv'
<1> DEFINE a == req[r].admin
           row == Updated(admins[a], req[r].was, req[r].obj, SetsPassword(r))
<1>1. /\ req[r].pc = "saving" /\ a \in Admins
      /\ req[r].was = admins[a]
      /\ req[r].obj.status = "inactive" => req[r].obj.current_refresh_jti = NULL
  BY DEF Save, Inv, WorkInv, Holds, SessionInv, Faithful, Working
<1>2. admins' = [admins EXCEPT ![a] = row] /\ req'[r] = Idle
  BY DEF Save, Finish, Inv, TypeOK
<1>3. /\ row.status = req[r].obj.status
      /\ row.current_refresh_jti = req[r].obj.current_refresh_jti
  BY <1>1 DEF Updated, Column
<1> HIDE DEF row
<1>4. \A b \in Admins : admins'[b] = IF b = a THEN row ELSE admins[b]
  BY <1>2 DEF Inv, TypeOK
<1>5. InactiveHasNoSession'
  BY <1>1, <1>3, <1>4 DEF SessionInv, InactiveHasNoSession
<1>6. /\ \A b \in Admins \ {req[r].admin} : admins'[b] = admins[b]
      /\ req'[r] = Idle /\ req[r].pc # "idle" /\ UNCHANGED now
  BY <1>1, <1>2, <1>4 DEF Save
<1>7. \A s \in Requests : Faithful(req[s])'
  BY <1>6, OthersStayFaithful DEF Moves
<1> QED
  BY <1>5, <1>7 DEF SessionInv

LEMMA NextSessionInv ==
    ASSUME OnePerAdmin, Inv, SessionInv, [Next]_vars
    PROVE  SessionInv'
<1>1. ASSUME NEW r \in Requests, AuthStep(r) PROVE SessionInv'
  BY <1>1, AuthStartFaithful, TokenStartFaithful, GuardFaithful, IssueFaithful DEF AuthStep
<1>2. ASSUME NEW r \in Requests, ManageStep(r) PROVE SessionInv'
  BY <1>2, ManageFaithful, LoadTargetFaithful, GuardFaithful DEF ManageStep
<1>3. ASSUME NEW r \in Requests, Abandon(r) PROVE SessionInv'
  <2>1. req'[r] = Idle /\ UNCHANGED <<admins, now>>
    BY <1>3 DEF Abandon, Finish, Inv, TypeOK
  <2> QED
    BY <1>3, <2>1, IdleFaithful, FaithfulStep DEF Moves
<1>4. CASE Tick \/ UNCHANGED vars
  BY <1>4 DEF Tick, vars, SessionInv, InactiveHasNoSession, Faithful
<1> QED
  BY <1>1, <1>2, <1>3, <1>4, SaveFaithful DEF Next

LEMMA InitSessionInv == Init => SessionInv
<1> SUFFICES ASSUME Init PROVE SessionInv
  OBVIOUS
<1>1. PICK status \in [Admins -> Status], password \in Passwords :
        admins = [a \in Admins |->
                    [status |-> status[a], hashed_password |-> password,
                     failed_login_attempts |-> 0, locked_until |-> NULL,
                     current_refresh_jti |-> NULL]]
  BY DEF Init
<1>2. \A a \in Admins : admins[a].current_refresh_jti = NULL
  BY <1>1
<1>3. \A r \in Requests : req[r] = Idle
  BY DEF Init
<1> QED
  BY <1>2, <1>3, IdleFaithful DEF SessionInv, InactiveHasNoSession

LEMMA SessionInvariance == Spec /\ []OnePerAdmin => []SessionInv
<1>1. OnePerAdmin /\ Inv /\ SessionInv /\ [Next]_vars => SessionInv'
  BY NextSessionInv
<1> QED
  BY <1>1, InitSessionInv, Invariance, PTL DEF Spec

(* While the requests on one admin keep apart, a refresh token that was    *)
(* superseded or revoked buys no session; otherwise it may (run            *)
(* accounts_revoked_refresh).                                              *)
THEOREM IsolatedRevokedTokenBuysNothing ==
    Spec /\ []OnePerAdmin => RevokedTokenBuysNothing
<1>1. ASSUME Inv, SessionInv, [Next]_vars, NEW s \in (1..Len(issued')) \ Tokens,
             issued'[s].from # NULL
      PROVE  admins[issued'[s].admin].current_refresh_jti = issued'[s].from
  <2>1. CASE UNCHANGED issued
    BY <1>1, <2>1 DEF Tokens
  <2>2. ASSUME NEW r \in Requests, IssueSession(r)
        PROVE  admins[issued'[s].admin].current_refresh_jti = issued'[s].from
    <3> DEFINE session == [admin |-> req[r].admin, from |-> req[r].token]
    <3>1. req[r].pc = "issuing" /\ issued' = Append(issued, session) /\ issued \in Seq(Session)
      <4>1. req[r].pc = "issuing" /\ issued' = Append(issued, session)
        BY <2>2 DEF IssueSession
      <4> QED
        BY <1>1, <4>1 DEF Inv, TypeOK
    <3>2. s = Len(issued) + 1
      BY <1>1, <3>1 DEF Tokens
    <3>3. issued'[s] = session
      BY <3>1, <3>2
    <3>4. /\ req[r].was = admins[req[r].admin]
          /\ req[r].token # NULL => req[r].was.current_refresh_jti = req[r].token
      BY <1>1, <3>1 DEF SessionInv, Faithful, Working
    <3> QED
      BY <1>1, <3>3, <3>4
  <2>3. UNCHANGED issued \/ \E r \in Requests : IssueSession(r)
    <3>1. ASSUME NEW r \in Requests, AuthStep(r), ~IssueSession(r) PROVE UNCHANGED issued
      BY <3>1 DEF AuthStep, LoginWrongPassword, LoginInactive, Login, ResetPassword, Refresh,
         Logout, Autoflush
    <3>2. ASSUME NEW r \in Requests, ManageStep(r) PROVE UNCHANGED issued
      BY <3>2 DEF ManageStep, Manage, LoadTarget, GuardLastActive
    <3>3. ASSUME NEW r \in Requests, Save(r) \/ Abandon(r) PROVE UNCHANGED issued
      BY <3>3 DEF Save, Abandon
    <3>4. CASE Tick \/ UNCHANGED vars
      BY <3>4 DEF Tick, vars
    <3> QED
      BY <1>1, <3>1, <3>2, <3>3, <3>4 DEF Next
  <2> QED
    BY <2>1, <2>2, <2>3
<1>2. Inv /\ SessionInv /\ [Next]_vars =>
        [\A s \in (1..Len(issued')) \ Tokens :
            LET token == issued'[s].from
            IN  token # NULL => admins[issued'[s].admin].current_refresh_jti = token]_vars
  BY <1>1
<1> QED
  BY <1>2, SessionInvariance, Invariance, PTL DEF Spec, RevokedTokenBuysNothing
=============================================================================

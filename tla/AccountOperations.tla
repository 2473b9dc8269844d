------------------------- MODULE AccountOperations -------------------------
(***************************************************************************)
(* What the services promise of the accounts, one operation at a time:     *)
(* every login, refresh, logout, password reset and managing operation     *)
(* takes effect at one instant, on the row as it is at that instant.       *)
(* AdminAccounts is the mechanism (services/auth_service.py and            *)
(* services/user_service.py), in which an operation is a read, some awaits *)
(* and a commit; isolated requests are checked and proved against this.    *)
(***************************************************************************)
EXTENDS Naturals, Sequences

CONSTANTS
    Admins,
    Passwords,
    NULL,
    MaxFailed,      \* failures up to a lockout
    Lockout         \* how long it lasts

VARIABLES
    admins,         \* the row of each admin
    issued,         \* the sessions issued
    now

vars == <<admins, issued, now>>

-----------------------------------------------------------------------------
(* "t" is when a login read the clock, at or before the instant at which   *)
(* it takes effect.                                                        *)
LockedAt(row, t) == row.locked_until # NULL /\ row.locked_until > t

Cleared(row) == [row EXCEPT !.locked_until = NULL, !.failed_login_attempts = 0]

(* A lockout that is over takes the failures counted before it along.      *)
Unexpired(row) == IF row.locked_until = NULL THEN row ELSE Cleared(row)

FailedAt(row, t) ==
    LET counted == Unexpired(row).failed_login_attempts + 1
    IN  [row EXCEPT !.failed_login_attempts = IF counted < MaxFailed THEN counted ELSE 0,
                    !.locked_until = IF counted < MaxFailed THEN NULL ELSE t + Lockout]

Put(a, row) ==
    /\ admins' = [admins EXCEPT ![a] = row]
    /\ UNCHANGED <<issued, now>>

(* A new session replaces the one in force.                                *)
Open(a, row, from) ==
    /\ admins[a].status = "active"
    /\ issued' = Append(issued, [admin |-> a, from |-> from])
    /\ admins' = [admins EXCEPT ![a] = [row EXCEPT !.current_refresh_jti = Len(issued) + 1]]
    /\ UNCHANGED now

-----------------------------------------------------------------------------
(* auth_service.                                                           *)

WrongPassword(a, t) ==
    /\ ~LockedAt(admins[a], t)
    /\ Put(a, FailedAt(admins[a], t))

(* The right password of an inactive account, after its lockout.           *)
InactiveLogin(a, t) ==
    /\ ~LockedAt(admins[a], t)
    /\ admins[a].status = "inactive"
    /\ Put(a, Unexpired(admins[a]))

Login(a, t) ==
    /\ ~LockedAt(admins[a], t)
    /\ Open(a, Cleared(admins[a]), NULL)

(* Only the session in force is exchanged for a new one.                   *)
Refresh(a) ==
    /\ admins[a].current_refresh_jti # NULL
    /\ Open(a, admins[a], admins[a].current_refresh_jti)

Logout(a) == Put(a, [admins[a] EXCEPT !.current_refresh_jti = NULL])

Reset(a, password) ==
    /\ admins[a].status = "active"
    /\ password # admins[a].hashed_password
    /\ Put(a, [Cleared(admins[a]) EXCEPT !.current_refresh_jti = NULL,
                                         !.hashed_password = password])

-----------------------------------------------------------------------------
(* user_service.                                                           *)

(* An admin is deactivated while another one is active, and its session    *)
(* ends with it.                                                           *)
Deactivate(a) ==
    /\ \E b \in Admins \ {a} : admins[b].status = "active"
    /\ Put(a, [admins[a] EXCEPT !.status = "inactive", !.current_refresh_jti = NULL])

Activate(a) == Put(a, [admins[a] EXCEPT !.status = "active"])

Replace(a, password) ==
    Put(a, [Cleared(admins[a]) EXCEPT !.hashed_password = password])

Tick ==
    /\ now' = now + 1
    /\ UNCHANGED <<admins, issued>>

-----------------------------------------------------------------------------
Init ==
    /\ \E status \in [Admins -> {"active", "inactive"}], password \in Passwords :
        /\ \E a \in Admins : status[a] = "active"
        /\ admins = [a \in Admins |->
                        [status |-> status[a], hashed_password |-> password,
                         failed_login_attempts |-> 0, locked_until |-> NULL,
                         current_refresh_jti |-> NULL]]
    /\ issued = <<>>
    /\ now = 0

Operation(a) ==
    \/ \E t \in 0..now : WrongPassword(a, t) \/ InactiveLogin(a, t) \/ Login(a, t)
    \/ Refresh(a)
    \/ Logout(a)
    \/ Deactivate(a)
    \/ Activate(a)
    \/ \E password \in Passwords : Reset(a, password) \/ Replace(a, password)

Next == Tick \/ \E a \in Admins : Operation(a)

Spec == Init /\ [][Next]_vars
=============================================================================

--------------------------- MODULE PasswordReset ---------------------------
(***************************************************************************)
(* The password reset of one active account: the OTP row with its throttle *)
(* (generate_otp, verify_otp), and update_password with the history of     *)
(* previous passwords (services/auth_service.py).                          *)
(*                                                                         *)
(* Every repository call is a transaction of its own, so a request that    *)
(* dies leaves what it has committed so far.  As in AdminAccounts, a       *)
(* request holds copies of the rows it has read, and saving one writes the *)
(* columns it has changed.  The OTP itself is a constant of the code       *)
(* (OTP_CODE): a wrong one changes nothing and is left out.                *)
(***************************************************************************)
EXTENDS Naturals, Sequences, FiniteSets

CONSTANTS
    Passwords,      \* passwords
    Requests,       \* request tasks running at a time
    NULL,           \* no row
    OtpExpiry,      \* settings.otp_expiry_minutes, in ticks
    Window,         \* settings.otp_throttle_window_minutes, in ticks
    MaxPerWindow,   \* settings.otp_max_requests_per_window
    Depth,          \* settings.password_history_depth
    MaxNow,         \* bound on time
    MaxRecorded,    \* no reset starts after so many history entries
    MaxDeaths       \* bound on the requests that die half-way

ASSUME LimitsAssumption ==
    /\ OtpExpiry \in Nat \ {0} /\ Window \in Nat \ {0}
    /\ MaxPerWindow \in Nat \ {0} /\ Depth \in Nat \ {0}
ASSUME BoundsAssumption == MaxNow \in Nat /\ MaxRecorded \in Nat /\ MaxDeaths \in Nat

VARIABLES
    otp,                \* the password_reset_otps row of the account's email
    hashed_password,    \* the account's password
    password_history,   \* rows of password_history; ids in the order of created_at
    req,                \* what each request is doing
    now,                \* utcnow()
    recorded,           \* entries ever added to the history
    deaths,             \* requests that have died half-way
    \* What has happened, for the properties:
    granted,            \* the times of the OTP requests granted since the row exists
    uses,               \* the resets that the latest verification has served, or NULL
    replaced            \* the passwords that resets have replaced, in order

observed == <<granted, uses, replaced>>
vars == <<otp, hashed_password, password_history, req, now, recorded, deaths, observed>>

-----------------------------------------------------------------------------
PasswordResetOtp ==
    [expires_at : Nat, request_count : 1..MaxPerWindow, window_started_at : Nat,
     verified : BOOLEAN]

ASSUME NullAssumption == NULL \notin PasswordResetOtp /\ NULL \notin Nat

PasswordHistory == [id : Nat, hashed_password : Passwords]

(* The n rows that were created last.                                      *)
Newest(rows, n) == {row \in rows : Cardinality({x \in rows : x.id > row.id}) < n}

(* Mutant of recent_for_admin: the oldest entries are taken.               *)
recent_for_admin_ascending(rows) ==
    {row \in rows : Cardinality({x \in rows : x.id < row.id}) < Depth}

(* ORDER BY created_at DESC LIMIT password_history_depth.                  *)
recent_for_admin(rows) == Newest(rows, Depth)

Ids(rows) == {row.id : row \in rows}

Column(stored, was, obj) == IF obj # was THEN obj ELSE stored

(* The row after the UPDATE of a request that loaded "was" and holds "obj".*)
Updated(stored, was, obj) ==
    [expires_at |-> Column(stored.expires_at, was.expires_at, obj.expires_at),
     request_count |-> Column(stored.request_count, was.request_count, obj.request_count),
     window_started_at |->
        Column(stored.window_started_at, was.window_started_at, obj.window_started_at),
     verified |-> Column(stored.verified, was.verified, obj.verified)]

Idle == [op |-> "none", pc |-> "idle", was |-> NULL, obj |-> NULL,
         current |-> NULL, new |-> NULL, keep |-> {}]

Goto(r, pc) == req' = [req EXCEPT ![r].pc = pc]

Finish(r) == req' = [req EXCEPT ![r] = Idle]

Saving(r, op, was, obj) ==
    req' = [req EXCEPT ![r] =
              [Idle EXCEPT !.op = op, !.pc = "saving", !.was = was, !.obj = obj]]

-----------------------------------------------------------------------------
(* generate_otp.                                                           *)

FreshOtp == [expires_at |-> now + OtpExpiry, request_count |-> 1,
             window_started_at |-> now, verified |-> FALSE]

WindowPassed(row) == now >= row.window_started_at + Window

(* Mutant of NextOtp: the verification survives a new OTP.                 *)
NextOtpStaysVerified(row) ==
    IF row = NULL \/ WindowPassed(row) THEN FreshOtp
    ELSE [row EXCEPT !.expires_at = now + OtpExpiry, !.request_count = @ + 1]

(* A new row or window, or one more request in this window.                *)
NextOtp(row) ==
    IF row = NULL \/ WindowPassed(row) THEN FreshOtp
    ELSE [row EXCEPT !.expires_at = now + OtpExpiry, !.request_count = @ + 1,
                     !.verified = FALSE]

(* Mutant of Throttled: an expired OTP is not counted against the limit.   *)
ThrottledUntilExpiry(row) ==
    /\ row # NULL
    /\ ~WindowPassed(row)
    /\ row.request_count >= MaxPerWindow
    /\ now < row.expires_at

Throttled(row) ==
    /\ row # NULL
    /\ ~WindowPassed(row)
    /\ row.request_count >= MaxPerWindow

GenerateOtp(r) ==
    /\ req[r].pc = "idle"
    /\ ~Throttled(otp)
    /\ Saving(r, "generate", otp, NextOtp(otp))
    /\ UNCHANGED <<otp, hashed_password, password_history, now, recorded, deaths, observed>>

(* verify_otp.                                                             *)
VerifyOtp(r) ==
    /\ req[r].pc = "idle"
    /\ otp # NULL
    /\ now < otp.expires_at
    /\ Saving(r, "verify", otp, [otp EXCEPT !.verified = TRUE])
    /\ UNCHANGED <<otp, hashed_password, password_history, now, recorded, deaths, observed>>

(* otp_repository.save: an INSERT of a new row, refused by the primary key *)
(* when there is one by now; or an UPDATE of the changed columns, refused  *)
(* by the session when the row is gone.                                    *)
SaveOtp(r) ==
    /\ req[r].pc = "saving"
    /\ IF (req[r].was = NULL) = (otp = NULL)
       THEN /\ otp' = IF otp = NULL THEN req[r].obj
                      ELSE Updated(otp, req[r].was, req[r].obj)
            /\ uses' = IF req[r].op = "verify" THEN 0 ELSE NULL
            /\ granted' = IF req[r].op = "verify" THEN granted
                          ELSE Append(granted, req[r].obj.expires_at - OtpExpiry)
       ELSE UNCHANGED <<otp, uses, granted>>
    /\ Finish(r)
    /\ UNCHANGED <<hashed_password, password_history, now, recorded, deaths, replaced>>

-----------------------------------------------------------------------------
(* update_password.                                                        *)

(* The account is read.                                                    *)
UpdatePassword(r, password) ==
    /\ req[r].pc = "idle"
    /\ recorded < MaxRecorded
    /\ req' = [req EXCEPT ![r] =
                 [Idle EXCEPT !.op = "update", !.pc = "checking",
                              !.current = hashed_password, !.new = password]]
    /\ UNCHANGED <<otp, hashed_password, password_history, now, recorded, deaths, observed>>

(* The OTP row must be verified and not expired.                           *)
CheckOtp(r) ==
    /\ req[r].pc = "checking"
    /\ IF otp # NULL /\ otp.verified /\ now < otp.expires_at
       THEN Goto(r, "comparing")
       ELSE Finish(r)
    /\ UNCHANGED <<otp, hashed_password, password_history, now, recorded, deaths, observed>>

(* The new password must differ from the current one and the recent ones.  *)
CheckReuse(r) ==
    /\ req[r].pc = "comparing"
    /\ IF /\ req[r].new # req[r].current
          /\ \A row \in recent_for_admin(password_history) : row.hashed_password # req[r].new
       THEN Goto(r, "recording")
       ELSE Finish(r)
    /\ UNCHANGED <<otp, hashed_password, password_history, now, recorded, deaths, observed>>

(* password_history_repository.add.                                        *)
RecordHistory(r) ==
    /\ req[r].pc = "recording"
    /\ recorded' = recorded + 1
    /\ password_history' =
        password_history \cup {[id |-> recorded + 1, hashed_password |-> req[r].current]}
    /\ Goto(r, "trimming")
    /\ UNCHANGED <<otp, hashed_password, now, deaths, observed>>

(* Mutant of ReadKept: one entry more is kept at every reset.              *)
ReadKeptOneMore(r) ==
    /\ req[r].pc = "trimming"
    /\ req' = [req EXCEPT ![r].pc = "deleting",
                          ![r].keep = Ids(Newest(password_history, Depth + 1))]
    /\ UNCHANGED <<otp, hashed_password, password_history, now, recorded, deaths, observed>>

(* trim: the entries to keep are read, the others are deleted after.       *)
ReadKept(r) ==
    /\ req[r].pc = "trimming"
    /\ req' = [req EXCEPT ![r].pc = "deleting",
                          ![r].keep = Ids(recent_for_admin(password_history))]
    /\ UNCHANGED <<otp, hashed_password, password_history, now, recorded, deaths, observed>>

TrimHistory(r) ==
    /\ req[r].pc = "deleting"
    /\ password_history' = IF req[r].keep = {} THEN password_history
                           ELSE {row \in password_history : row.id \in req[r].keep}
    /\ req' = [req EXCEPT ![r].pc = "setting", ![r].keep = {}]
    /\ UNCHANGED <<otp, hashed_password, now, recorded, deaths, observed>>

(* update_admin_password commits the new hash.                             *)
SetPassword(r) ==
    /\ req[r].pc = "setting"
    /\ hashed_password' = req[r].new
    /\ replaced' = Append(replaced, hashed_password)
    /\ uses' = IF uses = NULL THEN NULL ELSE uses + 1
    /\ Goto(r, "clearing")
    /\ UNCHANGED <<otp, password_history, now, recorded, deaths, granted>>

(* otp_repository.delete.                                                  *)
DeleteOtp(r) ==
    /\ req[r].pc = "clearing"
    /\ otp' = NULL
    /\ granted' = <<>>
    /\ Finish(r)
    /\ UNCHANGED <<hashed_password, password_history, now, recorded, deaths, uses, replaced>>

-----------------------------------------------------------------------------
(* The process dies, the client hangs up or the database refuses a commit. *)
Die(r) ==
    /\ req[r].pc # "idle"
    /\ deaths < MaxDeaths
    /\ deaths' = deaths + 1
    /\ Finish(r)
    /\ UNCHANGED <<otp, hashed_password, password_history, now, recorded, observed>>

(* replace_user (user_service.py) sets a password and keeps no history.    *)
ReplaceUser(r, password) ==
    /\ req[r].pc = "idle"
    /\ hashed_password' = password
    /\ UNCHANGED <<otp, password_history, req, now, recorded, deaths, observed>>

Tick ==
    /\ now < MaxNow
    /\ now' = now + 1
    /\ UNCHANGED <<otp, hashed_password, password_history, req, recorded, deaths, observed>>

Init ==
    /\ otp = NULL
    /\ hashed_password \in Passwords
    /\ password_history = {}
    /\ req = [r \in Requests |-> Idle]
    /\ now = 0
    /\ recorded = 0
    /\ deaths = 0
    /\ granted = <<>>
    /\ uses = NULL
    /\ replaced = <<>>

OtpStep(r) == GenerateOtp(r) \/ VerifyOtp(r) \/ SaveOtp(r)

ResetStep(r) ==
    \/ \E password \in Passwords : UpdatePassword(r, password)
    \/ CheckOtp(r)
    \/ CheckReuse(r)
    \/ RecordHistory(r)
    \/ ReadKept(r)
    \/ TrimHistory(r)
    \/ SetPassword(r)
    \/ DeleteOtp(r)

Next ==
    \/ \E r \in Requests :
        \/ OtpStep(r)
        \/ ResetStep(r)
        \/ Die(r)
        \/ \E password \in Passwords : ReplaceUser(r, password)
    \/ Tick

Spec == Init /\ [][Next]_vars

-----------------------------------------------------------------------------
RequestType ==
    [op : {"none", "generate", "verify", "update"},
     pc : {"idle", "saving", "checking", "comparing", "recording", "trimming", "deleting",
           "setting", "clearing"},
     was : PasswordResetOtp \cup {NULL}, obj : PasswordResetOtp \cup {NULL},
     current : Passwords \cup {NULL}, new : Passwords \cup {NULL}, keep : SUBSET Nat]

(* Type correctness; in particular request_count never passes the limit.   *)
TypeOK ==
    /\ otp \in PasswordResetOtp \cup {NULL}
    /\ hashed_password \in Passwords
    /\ password_history \subseteq PasswordHistory
    /\ req \in [Requests -> RequestType]
    /\ now \in Nat /\ recorded \in Nat /\ deaths \in Nat
    /\ granted \in Seq(Nat) /\ uses \in Nat \cup {NULL} /\ replaced \in Seq(Passwords)

Resets(r) == req[r].pc = "setting" /\ req'[r].pc = "clearing"

(* "Remove the OTP row after a successful reset (single-use)"              *)
(* (otp_repository.py:23): every reset uses a verification of its own.     *)
OtpSingleUse == [][\A r \in Requests : Resets(r) => uses = 0]_vars

(* With one request at a time a verification serves one reset, and one     *)
(* more for every request that has died, possibly between the password and *)
(* the deletion of the row; and a new OTP voids it, whoever has died.      *)
SingleUseButForDeaths ==
    [][\A r \in Requests : Resets(r) => uses # NULL /\ uses <= deaths]_vars

(* "kept to reject password reuse" (models/password_history.py:1): a reset *)
(* sets neither the current password nor one of the last Depth that resets *)
(* replaced; every request that died half-way may have cost one of these   *)
(* by recording the current password twice.                                *)
NoRecentReuse ==
    [][\A r \in Requests : Resets(r) =>
        /\ req[r].new # hashed_password
        /\ \A i \in 1..Len(replaced) :
            i + Depth > Len(replaced) + deaths => replaced[i] # req[r].new]_vars

(* otp_max_requests_per_window: while the OTP row exists, no window of it  *)
(* grants more requests than the limit.                                    *)
WindowsThrottled ==
    otp # NULL =>
        Cardinality({i \in 1..Len(granted) : granted[i] >= otp.window_started_at})
            <= MaxPerWindow

(* The history stays short: a request that runs to its end leaves at most  *)
(* Depth entries, and each one that died at most one more; however many    *)
(* requests trim it at a time.                                             *)
HistoryTrimmed ==
    (\A r \in Requests : req[r].pc = "idle") =>
        Cardinality(password_history) <= Depth + deaths
=============================================================================

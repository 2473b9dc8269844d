--------------------- MODULE PasswordResetSerialProofs ---------------------
(***************************************************************************)
(* Proofs about PasswordReset under a condition on its requests.  The      *)
(* throttle holds while no two of them are between their read of the OTP   *)
(* row and its save; the single use of a verification, and that a reset    *)
(* refuses recent passwords, with one request at a time.  Requests may die *)
(* between any two commits, and replace_user may set the password between  *)
(* any two steps.                                                          *)
(***************************************************************************)
EXTENDS PasswordResetProofs

OneRequest == \A r, s \in Requests : r = s

(* No two requests are between their read of the OTP row and its save.     *)
OneSaver ==
    \A r, s \in Requests : req[r].pc = "saving" /\ req[s].pc = "saving" => r = s

-----------------------------------------------------------------------------
(* The throttle.                                                           *)

(* How many of these times lie at or after the start of a window.          *)
GrantedSince(times, start) == Cardinality({i \in 1..Len(times) : times[i] >= start})

(* A row about to be saved still derives from the stored one.              *)
Prepared(x, row) ==
    /\ x.was = row
    /\ x.op = "verify" =>
        /\ row # NULL
        /\ x.obj.request_count = row.request_count
        /\ x.obj.window_started_at = row.window_started_at
    /\ x.op = "generate" =>
        /\ x.obj.verified = FALSE
        /\ \/ /\ row = NULL \/ x.obj.expires_at - OtpExpiry >= row.window_started_at + Window
              /\ x.obj.request_count = 1
              /\ x.obj.window_started_at = x.obj.expires_at - OtpExpiry
           \/ /\ row # NULL
              /\ x.obj.expires_at - OtpExpiry < row.window_started_at + Window
              /\ x.obj.request_count = row.request_count + 1
              /\ x.obj.window_started_at = row.window_started_at

Counted ==
    /\ otp = NULL => granted = <<>>
    /\ otp # NULL =>
        /\ GrantedSince(granted, otp.window_started_at) <= otp.request_count
        /\ \A i \in 1..Len(granted) : granted[i] < otp.window_started_at + Window

(* A reset has deleted the row meanwhile: the save will be refused.        *)
Refused(x, row) == row = NULL /\ x.was # NULL

Throttle ==
    /\ Counted
    /\ \A r \in Requests :
        req[r].pc = "saving" => Prepared(req[r], otp) \/ Refused(req[r], otp)

LEMMA SinceType ==
    ASSUME NEW times \in Seq(Nat), NEW start \in Nat
    PROVE  /\ IsFiniteSet({i \in 1..Len(times) : times[i] >= start})
           /\ GrantedSince(times, start) \in Nat
<1>1. {i \in 1..Len(times) : times[i] >= start} \in SUBSET (1..Len(times))
  OBVIOUS
<1>2. IsFiniteSet(1..Len(times))
  BY FS_Interval
<1>3. QED
  BY <1>1, <1>2, FS_Subset, FS_CardinalityType DEF GrantedSince

LEMMA SinceAppend ==
    ASSUME NEW times \in Seq(Nat), NEW start \in Nat, NEW t \in Nat
    PROVE  /\ GrantedSince(Append(times, t), start) <= GrantedSince(times, start) + 1
           /\ (\A i \in 1..Len(times) : times[i] < start) =>
                GrantedSince(Append(times, t), start) <= 1
<1> DEFINE before == {i \in 1..Len(times) : times[i] >= start}
           after == {i \in 1..Len(Append(times, t)) : Append(times, t)[i] >= start}
<1>1. /\ Len(Append(times, t)) = Len(times) + 1 /\ Len(times) \in Nat
      /\ \A i \in 1..Len(times) : Append(times, t)[i] = times[i]
  OBVIOUS
<1>2. after \in SUBSET (before \cup {Len(times) + 1})
  BY <1>1
<1>3. IsFiniteSet(before) /\ Len(times) + 1 \notin before
  BY <1>1, SinceType
<1>4. Cardinality(before) = GrantedSince(times, start)
      /\ Cardinality(after) = GrantedSince(Append(times, t), start)
  BY DEF GrantedSince
<1>5. (\A i \in 1..Len(times) : times[i] < start) => before = {}
  OBVIOUS
<1> HIDE DEF before, after
<1>6. IsFiniteSet(before \cup {Len(times) + 1})
      /\ Cardinality(before \cup {Len(times) + 1}) = Cardinality(before) + 1
  BY <1>3, FS_AddElement
<1>7. Cardinality(after) <= Cardinality(before) + 1
  BY <1>2, <1>6, FS_Subset
<1>8. before = {} => Cardinality(before) = 0
  BY FS_EmptySet
<1>9. QED
  BY <1>4, <1>5, <1>7, <1>8

LEMMA ThrottleInit == Init => Throttle
BY IdleFits DEF Init, Throttle, Counted

(* What a request saves is the row as it has prepared it.                  *)
LEMMA SavedRow ==
    ASSUME Inv, NEW r \in Requests, SaveOtp(r), Prepared(req[r], otp)
    PROVE  /\ req[r].obj \in PasswordResetOtp /\ otp' = req[r].obj /\ otp' # NULL
           /\ req[r].op \in {"generate", "verify"}
           /\ Prepared(req[r], otp) /\ req'[r] = Idle
           /\ uses' = IF req[r].op = "verify" THEN 0 ELSE NULL
           /\ req[r].op = "verify" => granted' = granted
           /\ req[r].op = "generate" =>
                /\ req[r].obj.expires_at - OtpExpiry \in Nat
                /\ granted' = Append(granted, req[r].obj.expires_at - OtpExpiry)
<1>1. req[r].pc = "saving" /\ req' = [req EXCEPT ![r] = Idle]
  BY DEF SaveOtp, Finish
<1>2. /\ Prepared(req[r], otp) /\ req[r].was = otp /\ req[r].obj \in PasswordResetOtp
      /\ req[r].op \in {"generate", "verify"}
      /\ req[r].op = "generate" => req[r].obj.expires_at - OtpExpiry \in Nat
  BY <1>1, RequestFits DEF Prepared, Fits
<1>3. /\ otp' = IF otp = NULL THEN req[r].obj ELSE Updated(otp, req[r].was, req[r].obj)
      /\ uses' = IF req[r].op = "verify" THEN 0 ELSE NULL
      /\ granted' = IF req[r].op = "verify" THEN granted
                    ELSE Append(granted, req[r].obj.expires_at - OtpExpiry)
  BY <1>2, Zenon DEF SaveOtp
<1>4. otp' = req[r].obj
  <2>1. CASE otp = NULL
    BY <1>3, <2>1
  <2>2. CASE otp # NULL
    <3>1. otp \in PasswordResetOtp
      BY <2>2 DEF Inv, Types
    <3>2. QED
      BY <1>2, <1>3, <2>2, <3>1, UpdatedFits
  <2>3. QED
    BY <2>1, <2>2
<1>5. req'[r] = Idle
  BY <1>1 DEF Inv, Types
<1>6. granted' = granted \/ req[r].op = "generate"
  BY <1>2, <1>3
<1>7. otp' # NULL
  BY <1>2, <1>4, NullAssumption
<1>8. req[r].op = "verify" => granted' = granted
  BY <1>3
<1>9. req[r].op = "generate" => granted' = Append(granted, req[r].obj.expires_at - OtpExpiry)
  BY <1>3
<1>10. QED
  BY <1>2, <1>3, <1>4, <1>5, <1>7, <1>8, <1>9, Zenon

(* The session refuses to update a row that is gone.                       *)
LEMMA RefusedSave ==
    ASSUME Inv, NEW r \in Requests, SaveOtp(r), Refused(req[r], otp)
    PROVE  UNCHANGED <<otp, uses, granted, deaths>> /\ req'[r] = Idle
<1>1. (req[r].was = NULL) # (otp = NULL)
  BY DEF Refused
<1>2. UNCHANGED <<otp, uses, granted>>
  BY <1>1, Zenon DEF SaveOtp
<1>3. QED
  BY <1>2 DEF SaveOtp, Finish, Inv, Types

LEMMA SavedCounted ==
    ASSUME Inv, Throttle, NEW r \in Requests, SaveOtp(r), Prepared(req[r], otp)
    PROVE  Counted'
<1> DEFINE x == req[r]
           start == x.obj.window_started_at
           t == x.obj.expires_at - OtpExpiry
<1>1. /\ x.obj \in PasswordResetOtp /\ otp' = x.obj /\ otp' # NULL
      /\ Prepared(x, otp)
      /\ x.op \in {"generate", "verify"}
      /\ x.op = "verify" => granted' = granted
      /\ x.op = "generate" => t \in Nat /\ granted' = Append(granted, t)
  BY SavedRow
<1>2. /\ granted \in Seq(Nat) /\ start \in Nat /\ Window \in Nat \ {0}
      /\ x.obj.request_count \in Nat
      /\ otp # NULL => otp.window_started_at \in Nat /\ otp.request_count \in Nat
  BY <1>1, LimitsAssumption DEF Inv, Types, PasswordResetOtp
<1>3. Counted
  BY DEF Throttle
<1>4. SUFFICES /\ GrantedSince(granted', start) <= x.obj.request_count
               /\ \A i \in 1..Len(granted') : granted'[i] < start + Window
  BY <1>1 DEF Counted, GrantedSince
<1>5. CASE x.op = "verify"
  <2>1. /\ granted' = granted /\ otp # NULL /\ start = otp.window_started_at
        /\ x.obj.request_count = otp.request_count
    BY <1>1, <1>5 DEF Prepared
  <2>2. QED
    BY <1>3, <2>1 DEF Counted
<1>6. CASE x.op = "generate"
  <2>1. t \in Nat /\ granted' = Append(granted, t)
    BY <1>1, <1>6
  <2>2. /\ Len(granted') = Len(granted) + 1 /\ Len(granted) \in Nat
        /\ granted'[Len(granted) + 1] = t
        /\ \A i \in 1..Len(granted) : granted'[i] = granted[i] /\ granted[i] \in Nat
    BY <1>2, <2>1
  <2>3. CASE /\ otp = NULL \/ t >= otp.window_started_at + Window
             /\ x.obj.request_count = 1
             /\ start = t
    <3>1. \A i \in 1..Len(granted) : granted[i] < start
      <4>1. CASE otp = NULL
        BY <1>3, <4>1 DEF Counted
      <4>2. CASE otp # NULL
        BY <1>2, <1>3, <2>1, <2>2, <2>3, <4>2 DEF Counted
      <4>3. QED
        BY <4>1, <4>2
    <3>2. GrantedSince(granted', start) <= 1
      BY <1>2, <2>1, <3>1, SinceAppend
    <3>3. \A i \in 1..Len(granted') : granted'[i] < start + Window
      BY <1>2, <2>1, <2>2, <2>3, <3>1
    <3>4. QED
      BY <2>3, <3>2, <3>3
  <2>4. CASE /\ otp # NULL
             /\ t < otp.window_started_at + Window
             /\ x.obj.request_count = otp.request_count + 1
             /\ start = otp.window_started_at
    <3>1. GrantedSince(granted, start) <= otp.request_count
          /\ \A i \in 1..Len(granted) : granted[i] < start + Window
      BY <1>3, <2>4 DEF Counted
    <3>2. GrantedSince(granted', start) <= GrantedSince(granted, start) + 1
          /\ GrantedSince(granted, start) \in Nat
          /\ GrantedSince(granted', start) \in Nat
      <4>1. granted' \in Seq(Nat)
        BY <1>2, <2>1
      <4>2. QED
        BY <1>2, <2>1, <4>1, SinceAppend, SinceType
    <3>3. GrantedSince(granted', start) <= x.obj.request_count
      BY <1>2, <2>4, <3>1, <3>2
    <3>4. \A i \in 1..Len(granted') : granted'[i] < start + Window
      BY <1>2, <2>1, <2>2, <2>4, <3>1
    <3>5. QED
      BY <3>3, <3>4
  <2>5. QED
    BY <1>1, <1>6, <2>3, <2>4 DEF Prepared
<1>7. QED
  BY <1>1, <1>5, <1>6

(* A step of one request that leaves the row and the grants alone.         *)
LEMMA ThrottleKept ==
    ASSUME Throttle, UNCHANGED <<otp, granted>>, NEW r \in Requests,
           \A s \in Requests : s # r => req'[s] = req[s],
           req'[r].pc = "saving" => Prepared(req'[r], otp)
    PROVE  Throttle'
<1>1. ASSUME NEW s \in Requests, req'[s].pc = "saving"
      PROVE  Prepared(req'[s], otp) \/ Refused(req'[s], otp)
  BY <1>1 DEF Throttle
<1>2. (\A s \in Requests :
         req[s].pc = "saving" => Prepared(req[s], otp) \/ Refused(req[s], otp))'
  BY <1>1 DEF Prepared, Refused
<1>3. Counted'
  BY DEF Throttle, Counted, GrantedSince
<1>4. QED
  BY <1>2, <1>3 DEF Throttle

(* The request after a step that only moves it on.                         *)
LEMMA GotoIs ==
    ASSUME Inv, NEW r \in Requests, NEW pc, Goto(r, pc)
    PROVE  /\ req'[r].pc = pc /\ req'[r].new = req[r].new /\ req'[r].current = req[r].current
           /\ req'[r].keep = req[r].keep
BY DEF Goto, Inv, Types, RequestType

LEMMA FinishIs ==
    ASSUME Inv, NEW r \in Requests, Finish(r)
    PROVE  req'[r] = Idle /\ req'[r].pc = "idle"
BY DEF Finish, Inv, Types, Idle

LEMMA GeneratePrepares ==
    ASSUME Inv, NEW r \in Requests, GenerateOtp(r)
    PROVE  Prepared(req'[r], otp)
<1> DEFINE x == Saved("generate", otp, NextOtp(otp))
<1>1. /\ otp \in PasswordResetOtp \cup {NULL} /\ now \in Nat /\ ~Throttled(otp)
      /\ OtpExpiry \in Nat
  BY LimitsAssumption DEF Inv, Types, GenerateOtp
<1>2. /\ NextOtp(otp) \in PasswordResetOtp /\ NextOtp(otp).expires_at = now + OtpExpiry
      /\ NextOtp(otp).verified = FALSE
      /\ otp = NULL \/ WindowPassed(otp) =>
           NextOtp(otp).request_count = 1 /\ NextOtp(otp).window_started_at = now
      /\ otp # NULL /\ ~WindowPassed(otp) =>
           /\ NextOtp(otp).request_count = otp.request_count + 1
           /\ NextOtp(otp).window_started_at = otp.window_started_at
  BY <1>1, NextOtpFits
<1>3. now = NextOtp(otp).expires_at - OtpExpiry
  BY <1>1, <1>2
<1>4. x.op = "generate" /\ x.was = otp /\ x.obj = NextOtp(otp)
  <2>1. NextOtp(otp).expires_at - OtpExpiry \in Nat
    BY <1>1, <1>3
  <2> DEFINE obj == NextOtp(otp)
  <2>2. obj \in PasswordResetOtp /\ obj.expires_at - OtpExpiry \in Nat
    BY <1>2, <2>1
  <2> HIDE DEF obj
  <2>3. LET y == Saved("generate", otp, obj)
        IN  y.op = "generate" /\ y.was = otp /\ y.obj = obj
    BY <1>1, <2>2, SavingFits
  <2>4. QED
    BY <2>3 DEF obj
<1>5. req'[r] = x
  BY DEF GenerateOtp, Saving, Saved, Inv, Types
<1> HIDE DEF x
<1>6. x.obj.verified = FALSE
  BY <1>2, <1>4
<1>7. CASE otp = NULL \/ WindowPassed(otp)
  <2>1. x.obj.request_count = 1 /\ x.obj.window_started_at = x.obj.expires_at - OtpExpiry
    BY <1>2, <1>3, <1>4, <1>7
  <2>2. otp = NULL \/ x.obj.expires_at - OtpExpiry >= otp.window_started_at + Window
    BY <1>3, <1>4, <1>7 DEF WindowPassed
  <2>3. QED
    BY <1>4, <1>5, <1>6, <2>1, <2>2 DEF Prepared
<1>8. CASE otp # NULL /\ ~WindowPassed(otp)
  <2>1. x.obj.request_count = otp.request_count + 1
        /\ x.obj.window_started_at = otp.window_started_at
    BY <1>2, <1>4, <1>8
  <2>2. otp.window_started_at \in Nat /\ Window \in Nat
    BY <1>1, <1>8, LimitsAssumption DEF PasswordResetOtp
  <2>3. x.obj.expires_at - OtpExpiry < otp.window_started_at + Window
    BY <1>1, <1>3, <1>4, <1>8, <2>2 DEF WindowPassed
  <2>4. QED
    BY <1>4, <1>5, <1>6, <1>8, <2>1, <2>3 DEF Prepared
<1>9. QED
  BY <1>7, <1>8

LEMMA VerifyPrepares ==
    ASSUME Inv, NEW r \in Requests, VerifyOtp(r)
    PROVE  Prepared(req'[r], otp)
<1> DEFINE obj == [otp EXCEPT !.verified = TRUE]
           x == Saved("verify", otp, obj)
<1>1. otp \in PasswordResetOtp /\ otp # NULL
  BY DEF Inv, Types, VerifyOtp
<1>2. obj \in PasswordResetOtp /\ obj.request_count = otp.request_count
      /\ obj.window_started_at = otp.window_started_at
  BY <1>1 DEF PasswordResetOtp
<1>3. req'[r] = x
  BY DEF VerifyOtp, Saving, Saved, Inv, Types
<1> HIDE DEF obj
<1>4. x.op = "verify" /\ x.was = otp /\ x.obj = obj
  BY <1>1, <1>2, SavingFits
<1> HIDE DEF x
<1>5. QED
  BY <1>1, <1>2, <1>3, <1>4 DEF Prepared

LEMMA OthersWait ==
    ASSUME Inv, NEW r \in Requests, OtpStep(r) \/ ResetStep(r) \/ Die(r)
    PROVE  \A s \in Requests : s # r => req'[s] = req[s]
BY DEF OtpStep, ResetStep, Die, GenerateOtp, VerifyOtp, SaveOtp, UpdatePassword, CheckOtp,
   CheckReuse, RecordHistory, ReadKept, TrimHistory, SetPassword, DeleteOtp, Goto, Finish,
   Saving, Inv, Types

LEMMA ThrottleSave ==
    ASSUME OneSaver, Inv, Throttle, NEW r \in Requests, SaveOtp(r)
    PROVE  Throttle'
<1>1. req[r].pc = "saving" /\ \A s \in Requests : s # r => req'[s] = req[s]
  BY OthersWait DEF SaveOtp, OtpStep
<1>2. CASE Prepared(req[r], otp)
  <2>1. Counted' /\ req'[r].pc = "idle"
    BY <1>2, SavedCounted, SavedRow, IdleFits
  <2>2. \A s \in Requests : req'[s].pc # "saving"
    BY <1>1, <2>1 DEF OneSaver
  <2>3. QED
    BY <2>1, <2>2 DEF Throttle
<1>3. CASE Refused(req[r], otp)
  <2>1. UNCHANGED <<otp, granted>> /\ req'[r].pc = "idle"
    BY <1>3, RefusedSave, IdleFits
  <2>2. QED
    BY <1>1, <2>1, ThrottleKept
<1>4. QED
  BY <1>1, <1>2, <1>3 DEF Throttle

(* Whoever is about to save an existing row is refused from here on.       *)
LEMMA ThrottleDelete ==
    ASSUME Inv, Throttle, NEW r \in Requests, DeleteOtp(r)
    PROVE  Throttle'
<1>1. req'[r].pc = "idle" /\ otp' = NULL /\ granted' = <<>>
  BY FinishIs DEF DeleteOtp
<1>2. \A s \in Requests : s # r => req'[s] = req[s]
  BY OthersWait DEF ResetStep
<1>3. ASSUME NEW s \in Requests, req'[s].pc = "saving"
      PROVE  Prepared(req[s], NULL) \/ Refused(req[s], NULL)
  <2>1. s # r /\ req[s].pc = "saving"
    BY <1>1, <1>2, <1>3
  <2>2. CASE otp = NULL
    BY <2>1, <2>2 DEF Throttle
  <2>3. CASE otp # NULL
    BY <2>1, <2>3 DEF Throttle, Prepared, Refused
  <2>4. QED
    BY <2>2, <2>3
<1>4. ASSUME NEW s \in Requests, req'[s].pc = "saving"
      PROVE  (Prepared(req[s], otp) \/ Refused(req[s], otp))'
  <2>1. s # r /\ req'[s] = req[s]
    BY <1>1, <1>2, <1>4
  <2>2. QED
    BY <1>1, <1>3, <1>4, <2>1 DEF Prepared, Refused
<1>5. Counted'
  BY <1>1 DEF Counted
<1>6. QED
  BY <1>4, <1>5 DEF Throttle

LEMMA ThrottleNext ==
    ASSUME OneSaver, Inv, Throttle, [Next]_vars
    PROVE  Throttle'
<1>1. ASSUME NEW r \in Requests, OtpStep(r) PROVE Throttle'
  <2>1. CASE GenerateOtp(r)
    <3>1. UNCHANGED <<otp, granted>>
      BY <2>1 DEF GenerateOtp, observed
    <3>2. QED
      BY <1>1, <2>1, <3>1, GeneratePrepares, OthersWait, ThrottleKept
  <2>2. CASE VerifyOtp(r)
    <3>1. UNCHANGED <<otp, granted>>
      BY <2>2 DEF VerifyOtp, observed
    <3>2. QED
      BY <1>1, <2>2, <3>1, VerifyPrepares, OthersWait, ThrottleKept
  <2>3. CASE SaveOtp(r)
    BY <2>3, ThrottleSave
  <2>4. QED
    BY <1>1, <2>1, <2>2, <2>3 DEF OtpStep
<1>2. ASSUME NEW r \in Requests, ResetStep(r) \/ Die(r) PROVE Throttle'
  <2>1. CASE DeleteOtp(r)
    BY <2>1, ThrottleDelete
  <2>2. CASE ~DeleteOtp(r)
    <3>1. UNCHANGED <<otp, granted>>
      BY <1>2, <2>2 DEF ResetStep, Die, UpdatePassword, CheckOtp, CheckReuse, RecordHistory,
         ReadKept, TrimHistory, SetPassword, observed
    <3>2. req'[r].pc # "saving"
      <4>1. CASE \E password \in Passwords : UpdatePassword(r, password)
        BY <4>1 DEF UpdatePassword, Inv, Types, Idle
      <4>2. CASE CheckOtp(r) \/ CheckReuse(r) \/ RecordHistory(r) \/ SetPassword(r) \/ Die(r)
        BY <4>2, GotoIs, FinishIs DEF CheckOtp, CheckReuse, RecordHistory, SetPassword, Die
      <4>3. CASE ReadKept(r) \/ TrimHistory(r)
        BY <4>3 DEF ReadKept, TrimHistory, Inv, Types, RequestType
      <4>4. QED
        BY <1>2, <2>2, <4>1, <4>2, <4>3 DEF ResetStep
    <3>3. QED
      BY <1>2, <3>1, <3>2, OthersWait, ThrottleKept
  <2>3. QED
    BY <2>1, <2>2
<1>3. CASE \/ \E r \in Requests, password \in Passwords : ReplaceUser(r, password)
           \/ Tick \/ UNCHANGED vars
  <2>1. UNCHANGED <<otp, granted, req>>
    BY <1>3 DEF ReplaceUser, Tick, vars, observed
  <2>2. QED
    BY <2>1 DEF Throttle, Counted, GrantedSince, Prepared, Refused
<1>4. QED
  BY <1>1, <1>2, <1>3 DEF Next

(* No window grants more OTPs than the limit, however often it starts again*)
(* and whatever dies half-way or resets meanwhile, as long as no two       *)
(* requests are between the read and the save of the row (two that are both*)
(* count from the same value, auth_service.py:185).                        *)
THEOREM ThrottleHolds == Spec /\ []OneSaver => []WindowsThrottled
<1>1. Inv /\ Throttle => WindowsThrottled
  <2> SUFFICES ASSUME Inv, Throttle, otp # NULL
               PROVE  GrantedSince(granted, otp.window_started_at) <= MaxPerWindow
    BY DEF WindowsThrottled, GrantedSince
  <2>1. /\ otp.request_count \in 1..MaxPerWindow /\ otp.window_started_at \in Nat
        /\ granted \in Seq(Nat)
    BY DEF Inv, Types, PasswordResetOtp
  <2>2. GrantedSince(granted, otp.window_started_at) <= otp.request_count
    BY DEF Throttle, Counted
  <2>3. GrantedSince(granted, otp.window_started_at) \in Nat /\ MaxPerWindow \in Nat
    BY <2>1, SinceType, LimitsAssumption
  <2>4. QED
    BY <2>1, <2>2, <2>3
<1>2. OneSaver /\ Inv /\ Throttle /\ [Next]_vars => Throttle'
  BY ThrottleNext
<1>3. QED
  BY <1>1, <1>2, ThrottleInit, Invariant, PTL DEF Spec

-----------------------------------------------------------------------------
(* Single use.                                                             *)

Checked == {"comparing", "recording", "trimming", "deleting", "setting"}

(* The latest verification has served no more resets than deaths account   *)
(* for, so that it may serve one more.                                     *)
MayServe == uses # NULL /\ uses <= deaths

(* A verified row, and a reset that has passed the check, stand for such a *)
(* verification; between a reset and its deletion of the row it has served *)
(* that one as well.                                                       *)
SingleUse ==
    /\ (otp # NULL /\ otp.verified = TRUE /\ \A r \in Requests : req[r].pc # "clearing")
         => MayServe
    /\ \A r \in Requests : req[r].pc \in Checked => MayServe
    /\ \A r \in Requests : req[r].pc = "clearing" => uses # NULL /\ uses <= deaths + 1

LEMMA SingleUseInit == Init => SingleUse
BY IdleFits DEF Init, SingleUse, Checked

(* A step of the only request that keeps the row and the verification.     *)
LEMMA SingleUseKept ==
    ASSUME OneRequest, SingleUse, UNCHANGED <<otp, uses, deaths>>,
           NEW r \in Requests, req[r].pc # "clearing",
           req'[r].pc \in Checked => req[r].pc \in Checked, req'[r].pc # "clearing"
    PROVE  SingleUse'
<1>1. \A s \in Requests : s = r
  BY DEF OneRequest
<1>2. MayServe => MayServe'
  BY DEF MayServe
<1>3. QED
  BY <1>1, <1>2, Zenon DEF SingleUse

LEMMA SingleUseNext ==
    ASSUME OneRequest, Inv, Throttle, SingleUse, [Next]_vars
    PROVE  SingleUse'
<1>1. ASSUME NEW r \in Requests, OtpStep(r) PROVE SingleUse'
  <2>1. CASE GenerateOtp(r) \/ VerifyOtp(r)
    <3>1. req'[r].pc = "saving" /\ req[r].pc = "idle" /\ UNCHANGED <<otp, uses, deaths>>
      BY <2>1 DEF GenerateOtp, VerifyOtp, Saving, observed, Inv, Types, Idle
    <3>2. QED
      BY <3>1, SingleUseKept DEF Checked
  <2>2. CASE SaveOtp(r)
    <3>0. CASE Refused(req[r], otp)
      BY <2>2, <3>0, RefusedSave, IdleFits, SingleUseKept DEF SaveOtp, Checked
    <3> SUFFICES ASSUME Prepared(req[r], otp) PROVE SingleUse'
      BY <2>2, <3>0 DEF SaveOtp, Throttle
    <3>1. /\ otp' = req[r].obj /\ req'[r] = Idle /\ Prepared(req[r], otp)
          /\ req[r].op \in {"generate", "verify"}
          /\ uses' = IF req[r].op = "verify" THEN 0 ELSE NULL
      BY <2>2, SavedRow
    <3>2. \A s \in Requests : req'[s].pc \notin Checked /\ req'[s].pc # "clearing"
      BY <3>1, IdleFits DEF OneRequest, Checked
    <3>3. CASE req[r].op = "verify"
      <4>1. MayServe'
        BY <2>2, <3>1, <3>3, NullAssumption DEF MayServe, SaveOtp, Inv, Types
      <4>2. QED
        BY <3>2, <4>1, Zenon DEF SingleUse
    <3>4. CASE req[r].op = "generate"
      <4>1. otp'.verified = FALSE
        BY <3>1, <3>4 DEF Prepared
      <4>2. ~(otp'.verified = TRUE)
        BY <4>1
      <4>3. QED
        BY <3>2, <4>2, Zenon DEF SingleUse
    <3>5. QED
      BY <3>1, <3>3, <3>4
  <2>3. QED
    BY <1>1, <2>1, <2>2 DEF OtpStep
<1>2. ASSUME NEW r \in Requests, ResetStep(r) PROVE SingleUse'
  <2>1. CASE \E password \in Passwords : UpdatePassword(r, password)
    <3>1. req'[r].pc = "checking" /\ req[r].pc = "idle" /\ UNCHANGED <<otp, uses, deaths>>
      BY <2>1 DEF UpdatePassword, observed, Inv, Types, Idle
    <3>2. QED
      BY <3>1, SingleUseKept DEF Checked
  <2>2. CASE CheckOtp(r)
    <3>1. req[r].pc = "checking" /\ UNCHANGED <<otp, uses, deaths>>
      BY <2>2 DEF CheckOtp, observed
    <3>2. CASE otp # NULL /\ otp.verified /\ now < otp.expires_at
      <4>1. otp.verified = TRUE
        <5>1. otp.verified \in BOOLEAN
          BY <3>2 DEF Inv, Types, PasswordResetOtp
        <5>2. QED
          BY <3>2, <5>1, Zenon
      <4>2. \A s \in Requests : req[s].pc # "clearing"
        BY <3>1 DEF OneRequest
      <4>3. MayServe
        BY <3>2, <4>1, <4>2, Zenon DEF SingleUse
      <4>4. MayServe'
        BY <3>1, <4>3 DEF MayServe
      <4>5. \A s \in Requests : req'[s].pc # "clearing"
        BY <2>2, <3>2, GotoIs DEF CheckOtp, OneRequest
      <4>6. QED
        BY <4>4, <4>5, Zenon DEF SingleUse
    <3>3. CASE Finish(r)
      BY <3>1, <3>3, FinishIs, SingleUseKept DEF Checked
    <3>4. QED
      BY <2>2, <3>2, <3>3, Zenon DEF CheckOtp
  <2>3. CASE CheckReuse(r) \/ RecordHistory(r)
    <3>1. req[r].pc \in Checked /\ UNCHANGED <<otp, uses, deaths>>
      BY <2>3 DEF CheckReuse, RecordHistory, observed, Checked
    <3>2. req'[r].pc # "clearing"
      BY <2>3, GotoIs, FinishIs DEF CheckReuse, RecordHistory, Inv, Types
    <3>3. QED
      BY <3>1, <3>2, SingleUseKept DEF Checked
  <2>4. CASE ReadKept(r) \/ TrimHistory(r)
    <3>1. req[r].pc \in Checked /\ UNCHANGED <<otp, uses, deaths>>
      BY <2>4 DEF ReadKept, TrimHistory, observed, Checked
    <3>2. req'[r].pc # "clearing"
      <4>1. \E x : x.pc # "clearing" /\ req' = [req EXCEPT ![r] = x]
        BY <2>4, RequestFits DEF ReadKept, TrimHistory, RequestType
      <4>2. QED
        BY <4>1 DEF Inv, Types
    <3>3. QED
      BY <3>1, <3>2, SingleUseKept DEF Checked
  <2>5. CASE SetPassword(r)
    <3>1. req'[r].pc = "clearing"
      BY <2>5, GotoIs DEF SetPassword
    <3>2. \A s \in Requests : req'[s].pc \notin Checked
      BY <3>1 DEF OneRequest, Checked
    <3>3. req[r].pc \in Checked /\ uses' = (IF uses = NULL THEN NULL ELSE uses + 1)
          /\ deaths' = deaths
      BY <2>5 DEF SetPassword, Checked
    <3>4. uses' # NULL /\ uses' <= deaths' + 1
      BY <3>3, NullAssumption DEF SingleUse, MayServe, Inv, Types
    <3>5. QED
      BY <3>1, <3>2, <3>4, Zenon DEF SingleUse
  <2>6. CASE DeleteOtp(r)
    <3>1. req'[r].pc = "idle" /\ otp' = NULL
      BY <2>6, FinishIs DEF DeleteOtp
    <3>2. \A s \in Requests : req'[s].pc \notin Checked /\ req'[s].pc # "clearing"
      BY <3>1 DEF OneRequest, Checked
    <3>3. QED
      BY <3>1, <3>2, Zenon DEF SingleUse
  <2>7. QED
    BY <1>2, <2>1, <2>2, <2>3, <2>4, <2>5, <2>6 DEF ResetStep
<1>3. ASSUME NEW r \in Requests, Die(r) PROVE SingleUse'
  <2>1. deaths' = deaths + 1 /\ deaths \in Nat
    BY <1>3 DEF Die, Inv, Types
  <2>2. UNCHANGED <<otp, uses>> /\ uses \in Nat \cup {NULL}
        /\ \A s \in Requests : s = r /\ req'[s].pc = "idle"
    BY <1>3, FinishIs DEF Die, observed, Inv, Types, OneRequest
  <2>3. MayServe => MayServe'
    BY <2>1, <2>2 DEF MayServe
  <2>4. req[r].pc = "clearing" => MayServe'
    BY <2>1, <2>2 DEF SingleUse, MayServe
  <2>5. QED
    BY <2>2, <2>3, <2>4, Zenon DEF SingleUse, Checked
<1>4. CASE \/ \E r \in Requests, password \in Passwords : ReplaceUser(r, password)
           \/ Tick \/ UNCHANGED vars
  <2>1. UNCHANGED <<otp, uses, deaths, req>>
    BY <1>4 DEF ReplaceUser, Tick, vars, observed
  <2>2. QED
    BY <2>1, Zenon DEF SingleUse, MayServe
<1>5. QED
  BY <1>1, <1>2, <1>3, <1>4 DEF Next

(* One request at a time: a verification serves one reset, and one more    *)
(* for every request that died, and none once a new OTP has voided it.     *)
THEOREM OtpServesOneReset ==
    ASSUME OneRequest
    PROVE  Spec => SingleUseButForDeaths
<1>1. SingleUse => \A r \in Requests : Resets(r) => uses # NULL /\ uses <= deaths
  BY DEF SingleUse, MayServe, Resets, Checked
<1>2. Inv /\ Throttle /\ [Next]_vars => Throttle'
  BY ThrottleNext DEF OneSaver, OneRequest
<1>3. Inv /\ Throttle /\ SingleUse /\ [Next]_vars => SingleUse'
  BY SingleUseNext
<1>4. QED
  BY <1>1, <1>2, <1>3, ThrottleInit, SingleUseInit, Invariant, PTL DEF Spec,
     SingleUseButForDeaths

-----------------------------------------------------------------------------
(* Reuse.                                                                  *)

(* The last passwords of a sequence are in the table, each one among its   *)
(* newest rows: the slack is the length of the sequence and the number of  *)
(* rows that nothing in it stands for.                                     *)
Remembers(rows, seq, slack) ==
    \A i \in 1..Len(seq) : i + Depth > slack =>
        \E row \in rows : row.hashed_password = seq[i] /\ Rank(rows, row) + i <= slack

IsNewest(rows, password) ==
    \E row \in rows : row.hashed_password = password /\ Rank(rows, row) = 0

LEMMA MoreSlack ==
    ASSUME NEW rows, IsFiniteSet(rows), NEW seq \in Seq(Passwords), NEW slack \in Nat,
           Remembers(rows, seq, slack)
    PROVE  Remembers(rows, seq, slack + 1)
<1>1. Len(seq) \in Nat /\ Depth \in Nat /\ \A row \in rows : Rank(rows, row) \in Nat
  BY LimitsAssumption, RankType
<1> SUFFICES ASSUME NEW i \in 1..Len(seq), i + Depth > slack + 1
             PROVE  \E row \in rows :
                      row.hashed_password = seq[i] /\ Rank(rows, row) + i <= slack + 1
  BY DEF Remembers
<1>2. PICK row \in rows : row.hashed_password = seq[i] /\ Rank(rows, row) + i <= slack
  BY <1>1 DEF Remembers
<1>3. Rank(rows, row) + i <= slack + 1
  BY <1>1, <1>2
<1>4. QED
  BY <1>2, <1>3

(* A new entry pushes the others one rank down.                            *)
LEMMA EntryRanks ==
    ASSUME Inv, NEW password \in Passwords, NEW entry,
           entry = [id |-> recorded + 1, hashed_password |-> password]
    PROVE  LET rows == password_history \cup {entry}
           IN  /\ IsNewest(rows, password)
               /\ \A row \in password_history : Rank(rows, row) = Rank(password_history, row) + 1
<1> DEFINE rows == password_history \cup {entry}
<1>1. /\ entry \notin password_history /\ entry.hashed_password = password
      /\ Above(rows, entry) = {}
      /\ \A row \in password_history : Above(rows, row) = Above(password_history, row) \cup {entry}
  BY NewEntry
<1>2. Rank(rows, entry) = 0
  BY <1>1, FS_EmptySet DEF Rank
<1>3. \A row \in password_history : Rank(rows, row) = Rank(password_history, row) + 1
  <2> SUFFICES ASSUME NEW row \in password_history
               PROVE  Rank(rows, row) = Rank(password_history, row) + 1
    OBVIOUS
  <2>1. IsFiniteSet(Above(password_history, row))
    BY RankType DEF Inv, Keyed
  <2>2. entry \notin Above(password_history, row)
    BY <1>1 DEF Above
  <2>3. Above(rows, row) = Above(password_history, row) \cup {entry}
    BY <1>1
  <2>4. Cardinality(Above(password_history, row) \cup {entry})
          = Cardinality(Above(password_history, row)) + 1
    BY <2>1, <2>2, FS_AddElement
  <2>5. QED
    BY <2>3, <2>4 DEF Rank
<1>4. QED
  BY <1>1, <1>2, <1>3 DEF IsNewest

LEMMA EntryRemembers ==
    ASSUME Inv, NEW password \in Passwords, NEW entry,
           entry = [id |-> recorded + 1, hashed_password |-> password],
           NEW slack \in Nat, Remembers(password_history, replaced, slack)
    PROVE  Remembers(password_history \cup {entry}, replaced, slack + 1)
<1> DEFINE rows == password_history \cup {entry}
<1>1. /\ Len(replaced) \in Nat /\ Depth \in Nat
      /\ \A row \in password_history : Rank(password_history, row) \in Nat
  BY LimitsAssumption, RankType DEF Inv, Types, Keyed
<1>2. \A row \in password_history : Rank(rows, row) = Rank(password_history, row) + 1
  BY EntryRanks
<1>3. password_history \subseteq rows
  OBVIOUS
<1> HIDE DEF rows
<1> SUFFICES ASSUME NEW i \in 1..Len(replaced), i + Depth > slack + 1
             PROVE  \E row \in rows :
                      row.hashed_password = replaced[i] /\ Rank(rows, row) + i <= slack + 1
  BY DEF Remembers, rows
<1>4. PICK row \in password_history :
        row.hashed_password = replaced[i] /\ Rank(password_history, row) + i <= slack
  BY <1>1 DEF Remembers
<1>5. Rank(rows, row) + i <= slack + 1
  BY <1>1, <1>2, <1>4
<1>6. QED
  BY <1>3, <1>4, <1>5

(* Trimming to the newest rows loses none of the passwords to remember.    *)
LEMMA TrimRanks ==
    ASSUME NEW rows, Keyed(rows), NEW x \in Newest(rows, Depth)
    PROVE  /\ Rank(Newest(rows, Depth), x) <= Rank(rows, x)
           /\ Rank(Newest(rows, Depth), x) \in Nat /\ Rank(rows, x) \in Nat
<1>1. Newest(rows, Depth) \in SUBSET rows
  BY DEF Newest
<1>2. IsFiniteSet(rows) /\ IsFiniteSet(Newest(rows, Depth))
  BY <1>1, FS_Subset DEF Keyed
<1>3. Above(Newest(rows, Depth), x) \in SUBSET Above(rows, x)
  BY <1>1 DEF Above
<1>4. QED
  BY <1>2, <1>3, RankType, FS_Subset DEF Rank

LEMMA TrimRemembers ==
    ASSUME NEW rows, Keyed(rows), NEW seq \in Seq(Passwords), NEW slack \in Nat,
           Remembers(rows, seq, slack)
    PROVE  Remembers(Newest(rows, Depth), seq, slack)
<1>1. Len(seq) \in Nat /\ Depth \in Nat /\ \A row \in rows : Rank(rows, row) \in Nat
  BY LimitsAssumption, RankType DEF Keyed
<1> SUFFICES ASSUME NEW i \in 1..Len(seq), i + Depth > slack
             PROVE  \E row \in Newest(rows, Depth) :
                      /\ row.hashed_password = seq[i]
                      /\ Rank(Newest(rows, Depth), row) + i <= slack
  BY DEF Remembers
<1>2. PICK row \in rows : row.hashed_password = seq[i] /\ Rank(rows, row) + i <= slack
  BY DEF Remembers
<1>3. Rank(rows, row) < Depth
  BY <1>1, <1>2
<1>4. row \in Newest(rows, Depth)
  BY <1>3 DEF Newest, Rank, Above
<1>5. Rank(Newest(rows, Depth), row) + i <= slack
  BY <1>1, <1>2, <1>4, TrimRanks
<1>6. QED
  BY <1>2, <1>4, <1>5

LEMMA TrimKeepsNewest ==
    ASSUME NEW rows, Keyed(rows), NEW password, IsNewest(rows, password)
    PROVE  IsNewest(Newest(rows, Depth), password)
<1>1. PICK row \in rows : row.hashed_password = password /\ Rank(rows, row) = 0
  BY DEF IsNewest
<1>2. row \in Newest(rows, Depth)
  BY <1>1, LimitsAssumption DEF Newest, Rank, Above
<1>3. Rank(Newest(rows, Depth), row) = 0
  BY <1>1, <1>2, TrimRanks
<1>4. QED
  BY <1>1, <1>2, <1>3 DEF IsNewest

(* Deleting by the ids that were read leaves exactly the newest rows.      *)
LEMMA KeptAreNewest ==
    ASSUME NEW rows, Keyed(rows)
    PROVE  {row \in rows : row.id \in Ids(Newest(rows, Depth))} = Newest(rows, Depth)
BY DEF Keyed, Ids, Newest

LEMMA SetRemembers ==
    ASSUME NEW rows, IsFiniteSet(rows), NEW seq \in Seq(Passwords), NEW password \in Passwords,
           NEW slack \in Nat, slack >= Len(seq) + 1, Remembers(rows, seq, slack),
           IsNewest(rows, password)
    PROVE  Remembers(rows, Append(seq, password), slack)
<1> DEFINE after == Append(seq, password)
<1>1. /\ Len(seq) \in Nat /\ Len(after) = Len(seq) + 1 /\ after[Len(seq) + 1] = password
      /\ \A i \in 1..Len(seq) : after[i] = seq[i]
  OBVIOUS
<1> HIDE DEF after
<1> SUFFICES ASSUME NEW i \in 1..Len(after), i + Depth > slack
             PROVE  \E row \in rows :
                      row.hashed_password = after[i] /\ Rank(rows, row) + i <= slack
  BY DEF Remembers, after
<1>2. CASE i \in 1..Len(seq)
  BY <1>1, <1>2 DEF Remembers
<1>3. CASE i = Len(seq) + 1
  <2>1. PICK row \in rows : row.hashed_password = password /\ Rank(rows, row) = 0
    BY DEF IsNewest
  <2>2. Rank(rows, row) + i <= slack
    BY <1>1, <1>3, <2>1
  <2>3. QED
    BY <1>1, <1>3, <2>1, <2>2
<1>4. QED
  BY <1>1, <1>2, <1>3

-----------------------------------------------------------------------------
(* A reset whose history entry is for the password it is about to replace. *)
Pending(x) == x.pc \in {"trimming", "deleting", "setting"}

Slack ==
    Len(replaced) + deaths + IF \E r \in Requests : Pending(req[r]) THEN 1 ELSE 0

(* The new password has passed the check.                                  *)
Accepted(password) ==
    /\ password # hashed_password
    /\ \A i \in 1..Len(replaced) :
        i + Depth > Len(replaced) + deaths => replaced[i] # password

(* What a reset knows at each of its steps.                                *)
Knows(x) ==
    /\ x.pc \in Resetting \ {"clearing"} => x.current = hashed_password
    /\ x.pc \in {"recording", "trimming", "deleting", "setting"} => Accepted(x.new)
    /\ Pending(x) => IsNewest(password_history, hashed_password)
    /\ x.pc = "deleting" => x.keep = Ids(Newest(password_history, Depth))

Reuse ==
    /\ Remembers(password_history, replaced, Slack)
    /\ \A r \in Requests : Knows(req[r])

LEMMA IdleKnows == Knows(Idle) /\ ~Pending(Idle)
BY IdleFits DEF Knows, Pending, Resetting

LEMMA ReuseInit == Init => Reuse
<1> SUFFICES ASSUME Init PROVE Reuse
  OBVIOUS
<1>1. replaced = <<>> /\ \A r \in Requests : req[r] = Idle
  BY DEF Init
<1>2. Remembers(password_history, replaced, Slack)
  BY <1>1 DEF Remembers
<1>3. QED
  BY <1>1, <1>2, IdleKnows DEF Reuse

LEMMA SlackIs ==
    ASSUME OneRequest, Inv, NEW r \in Requests
    PROVE  /\ Slack \in Nat
           /\ Pending(req[r]) => Slack = Len(replaced) + deaths + 1
           /\ ~Pending(req[r]) => Slack = Len(replaced) + deaths
<1>1. (\E s \in Requests : Pending(req[s])) <=> Pending(req[r])
  BY DEF OneRequest
<1>2. Len(replaced) \in Nat /\ deaths \in Nat
  BY DEF Inv, Types
<1>3. QED
  BY <1>1, <1>2 DEF Slack

LEMMA SlackIsNext ==
    ASSUME OneRequest, Inv', NEW r \in Requests
    PROVE  /\ Slack' \in Nat
           /\ Pending(req'[r]) => Slack' = Len(replaced') + deaths' + 1
           /\ ~Pending(req'[r]) => Slack' = Len(replaced') + deaths'
<1>1. (\E s \in Requests : Pending(req[s]))' <=> Pending(req'[r])
  BY DEF OneRequest, Pending
<1>2. Len(replaced') \in Nat /\ deaths' \in Nat
  BY DEF Inv, Types
<1>3. Slack' = Len(replaced') + deaths'
                 + IF (\E s \in Requests : Pending(req[s]))' THEN 1 ELSE 0
  BY DEF Slack
<1>4. QED
  BY <1>1, <1>2, <1>3

(* A step that changes neither the history nor the passwords, after which  *)
(* the only request still knows what it must.                              *)
LEMMA ReuseKept ==
    ASSUME OneRequest, Inv, Reuse, Inv', NEW r \in Requests,
           UNCHANGED <<password_history, replaced, hashed_password, deaths>>,
           Pending(req'[r]) <=> Pending(req[r]),
           Knows(req'[r])
    PROVE  Reuse'
<1>1. Slack' = Slack
  BY SlackIs, SlackIsNext
<1>2. Remembers(password_history, replaced, Slack)'
  BY <1>1 DEF Reuse, Remembers, Rank, Above
<1>3. \A s \in Requests : s = r
  BY DEF OneRequest
<1>4. Knows(req[r])'
  BY DEF Knows, Accepted, Pending, IsNewest, Rank, Above, Newest, Ids
<1>5. QED
  BY <1>2, <1>3, <1>4 DEF Reuse

(* The request ends before it has recorded anything, or after the reset.   *)
LEMMA EndReuse ==
    ASSUME OneRequest, Inv, Reuse, Inv', NEW r \in Requests, Finish(r), ~Pending(req[r]),
           UNCHANGED <<password_history, replaced, hashed_password, deaths>>
    PROVE  Reuse'
<1>1. req'[r] = Idle
  BY FinishIs
<1>2. QED
  BY <1>1, IdleKnows, ReuseKept

LEMMA CheckReuseAccepts ==
    ASSUME OneRequest, Inv, Reuse, NEW r \in Requests, req[r].pc = "comparing",
           req[r].new # req[r].current,
           \A row \in recent_for_admin(password_history) : row.hashed_password # req[r].new
    PROVE  Accepted(req[r].new)
<1>1. /\ req[r].current = hashed_password /\ ~Pending(req[r])
      /\ Remembers(password_history, replaced, Slack)
  BY DEF Reuse, Knows, Resetting, Pending
<1>2. /\ Slack = Len(replaced) + deaths /\ Len(replaced) \in Nat /\ deaths \in Nat
      /\ Depth \in Nat /\ \A row \in password_history : Rank(password_history, row) \in Nat
  BY <1>1, SlackIs, LimitsAssumption, RankType DEF Inv, Types, Keyed
<1>3. ASSUME NEW i \in 1..Len(replaced), i + Depth > Len(replaced) + deaths
      PROVE  replaced[i] # req[r].new
  <2>1. PICK row \in password_history :
          row.hashed_password = replaced[i] /\ Rank(password_history, row) + i <= Slack
    BY <1>1, <1>2, <1>3 DEF Remembers
  <2>2. Rank(password_history, row) < Depth
    BY <1>2, <1>3, <2>1
  <2>3. row \in recent_for_admin(password_history)
    BY <2>2 DEF recent_for_admin, Newest, Rank, Above
  <2>4. QED
    BY <2>1, <2>3
<1>4. QED
  BY <1>1, <1>3 DEF Accepted

LEMMA CheckReuseReuse ==
    ASSUME OneRequest, Inv, Reuse, Inv', NEW r \in Requests, CheckReuse(r)
    PROVE  Reuse'
<1>1. req[r].pc = "comparing" /\ ~Pending(req[r])
      /\ UNCHANGED <<password_history, replaced, hashed_password, deaths>>
  BY DEF CheckReuse, Pending, observed
<1>2. CASE /\ req[r].new # req[r].current
           /\ \A row \in recent_for_admin(password_history) : row.hashed_password # req[r].new
           /\ Goto(r, "recording")
  <2>1. Accepted(req[r].new)
    BY <1>1, <1>2, CheckReuseAccepts
  <2>2. req'[r].pc = "recording" /\ req'[r].new = req[r].new /\ req'[r].current = req[r].current
    BY <1>2, GotoIs
  <2>3. req[r].current = hashed_password
    BY <1>1 DEF Reuse, Knows, Resetting
  <2>4. Knows(req'[r]) /\ ~Pending(req'[r])
    BY <2>1, <2>2, <2>3 DEF Knows, Pending
  <2>5. QED
    BY <1>1, <2>4, ReuseKept
<1>3. CASE Finish(r)
  BY <1>1, <1>3, EndReuse
<1>4. QED
  BY <1>2, <1>3 DEF CheckReuse

LEMMA RecordHistoryReuse ==
    ASSUME OneRequest, Inv, Reuse, Inv', NEW r \in Requests, RecordHistory(r)
    PROVE  Reuse'
<1> DEFINE entry == [id |-> recorded + 1, hashed_password |-> req[r].current]
<1>1. /\ req[r].pc = "recording" /\ ~Pending(req[r])
      /\ password_history' = password_history \cup {entry}
      /\ UNCHANGED <<replaced, hashed_password, deaths>>
      /\ req'[r].pc = "trimming" /\ Pending(req'[r])
      /\ req'[r].new = req[r].new /\ req'[r].current = req[r].current
  BY GotoIs DEF RecordHistory, Pending, observed
<1>2. /\ req[r].current = hashed_password /\ Accepted(req[r].new)
      /\ Remembers(password_history, replaced, Slack)
  BY <1>1 DEF Reuse, Knows, Resetting
<1>3. hashed_password \in Passwords /\ Slack \in Nat /\ Len(replaced) \in Nat /\ deaths \in Nat
  BY SlackIs DEF Inv, Types
<1>4. Slack' = Slack + 1
  BY <1>1, <1>3, SlackIs, SlackIsNext
<1>5. Remembers(password_history', replaced, Slack + 1) /\ IsNewest(password_history', hashed_password)
  BY <1>1, <1>2, <1>3, EntryRemembers, EntryRanks
<1> HIDE DEF entry
<1>6. Remembers(password_history, replaced, Slack)'
  BY <1>1, <1>4, <1>5 DEF Remembers, Rank, Above
<1>7. Knows(req[r])'
  <2>1. IsNewest(password_history, hashed_password)'
    BY <1>1, <1>5 DEF IsNewest, Rank, Above
  <2>2. Accepted(req[r].new)'
    BY <1>1, <1>2 DEF Accepted
  <2>3. QED
    BY <1>1, <1>2, <2>1, <2>2 DEF Knows
<1>8. QED
  BY <1>6, <1>7 DEF Reuse, OneRequest

LEMMA TrimHistoryReuse ==
    ASSUME OneRequest, Inv, Reuse, Inv', NEW r \in Requests, TrimHistory(r)
    PROVE  Reuse'
<1> DEFINE kept == Newest(password_history, Depth)
<1>1. /\ req[r].pc = "deleting" /\ Pending(req[r])
      /\ UNCHANGED <<replaced, hashed_password, deaths>>
      /\ req'[r].pc = "setting" /\ Pending(req'[r])
      /\ req'[r].new = req[r].new /\ req'[r].current = req[r].current
  BY DEF TrimHistory, Pending, observed, Inv, Types, RequestType
<1>2. /\ req[r].current = hashed_password /\ Accepted(req[r].new)
      /\ IsNewest(password_history, hashed_password)
      /\ req[r].keep = Ids(kept)
      /\ Remembers(password_history, replaced, Slack)
  BY <1>1 DEF Reuse, Knows, Resetting
<1>3. Keyed(password_history) /\ Slack \in Nat /\ replaced \in Seq(Passwords)
  BY SlackIs DEF Inv, Types
<1>4. password_history' = kept
  <2>1. password_history' = IF req[r].keep = {} THEN password_history
                            ELSE {row \in password_history : row.id \in req[r].keep}
    BY DEF TrimHistory
  <2>2. req[r].keep # {}
    BY <1>2, <1>3, LimitsAssumption, SomeRowIsNewest DEF IsNewest, Ids
  <2>3. {row \in password_history : row.id \in Ids(kept)} = kept
    BY <1>3, KeptAreNewest
  <2>4. QED
    BY <1>2, <2>1, <2>2, <2>3
<1>5. Remembers(kept, replaced, Slack) /\ IsNewest(kept, hashed_password)
  BY <1>2, <1>3, TrimRemembers, TrimKeepsNewest
<1> HIDE DEF kept
<1>6. Slack' = Slack
  BY <1>1, SlackIs, SlackIsNext
<1>7. Remembers(password_history, replaced, Slack)'
  BY <1>1, <1>4, <1>5, <1>6 DEF Remembers, Rank, Above
<1>8. Knows(req[r])'
  <2>1. IsNewest(password_history, hashed_password)'
    BY <1>1, <1>4, <1>5 DEF IsNewest, Rank, Above
  <2>2. Accepted(req[r].new)'
    BY <1>1, <1>2 DEF Accepted
  <2>3. QED
    BY <1>1, <1>2, <2>1, <2>2 DEF Knows
<1>9. QED
  BY <1>7, <1>8 DEF Reuse, OneRequest

LEMMA SetPasswordReuse ==
    ASSUME OneRequest, Inv, Reuse, Inv', NEW r \in Requests, SetPassword(r)
    PROVE  Reuse'
<1>1. /\ req[r].pc = "setting" /\ Pending(req[r])
      /\ UNCHANGED <<password_history, deaths>>
      /\ replaced' = Append(replaced, hashed_password)
      /\ req'[r].pc = "clearing" /\ ~Pending(req'[r])
  BY GotoIs DEF SetPassword, Pending
<1>2. IsNewest(password_history, hashed_password) /\ Remembers(password_history, replaced, Slack)
  BY <1>1 DEF Reuse, Knows
<1>3. /\ hashed_password \in Passwords /\ replaced \in Seq(Passwords) /\ deaths \in Nat
      /\ IsFiniteSet(password_history)
  BY DEF Inv, Types, Keyed
<1>4. Len(replaced) \in Nat /\ Len(replaced') = Len(replaced) + 1
  BY <1>1, <1>3
<1>5. Slack' = Slack /\ Slack \in Nat /\ Slack >= Len(replaced) + 1
  BY <1>1, <1>3, <1>4, SlackIs, SlackIsNext
<1>6. Remembers(password_history, Append(replaced, hashed_password), Slack)
  BY <1>2, <1>3, <1>5, SetRemembers
<1>7. Remembers(password_history, replaced, Slack)'
  BY <1>1, <1>5, <1>6 DEF Remembers, Rank, Above
<1>8. Knows(req[r])'
  BY <1>1 DEF Knows, Pending
<1>9. QED
  BY <1>7, <1>8 DEF Reuse, OneRequest

(* A death costs at most the place of one entry.                           *)
LEMMA DieReuse ==
    ASSUME OneRequest, Inv, Reuse, Inv', NEW r \in Requests, Die(r)
    PROVE  Reuse'
<1>1. /\ req'[r] = Idle /\ deaths' = deaths + 1
      /\ UNCHANGED <<password_history, hashed_password, replaced>>
  BY FinishIs DEF Die, observed
<1>2. /\ deaths \in Nat /\ Len(replaced) \in Nat /\ replaced \in Seq(Passwords)
      /\ IsFiniteSet(password_history) /\ Slack \in Nat
  BY SlackIs DEF Inv, Types, Keyed
<1>3. Slack' = Slack \/ Slack' = Slack + 1
  BY <1>1, <1>2, IdleKnows, SlackIs, SlackIsNext
<1>4. Remembers(password_history, replaced, Slack')
  BY <1>2, <1>3, MoreSlack DEF Reuse
<1>5. Remembers(password_history, replaced, Slack)'
  BY <1>1, <1>4 DEF Remembers, Rank, Above
<1>6. Knows(req[r])'
  <2>1. req'[r].pc = "idle"
    BY <1>1, IdleFits
  <2>2. QED
    BY <2>1 DEF Knows, Pending, Resetting
<1>7. QED
  BY <1>5, <1>6 DEF Reuse, OneRequest

(* replace_user sets the password while no reset is under way.             *)
LEMMA ReplaceUserReuse ==
    ASSUME OneRequest, Inv, Reuse, Inv', NEW r \in Requests, NEW password \in Passwords,
           ReplaceUser(r, password)
    PROVE  Reuse'
<1>1. req[r].pc = "idle" /\ UNCHANGED <<req, password_history, replaced, deaths>>
  BY DEF ReplaceUser, observed
<1>2. ~Pending(req[r]) /\ req'[r] = req[r]
  BY <1>1 DEF Pending
<1>3. Slack' = Slack
  BY <1>1, <1>2, SlackIs, SlackIsNext
<1>4. Remembers(password_history, replaced, Slack)'
  BY <1>1, <1>3 DEF Reuse, Remembers, Rank, Above
<1>5. Knows(req[r])'
  BY <1>1 DEF Knows, Pending, Resetting
<1>6. QED
  BY <1>4, <1>5 DEF Reuse, OneRequest

LEMMA ReuseNext ==
    ASSUME OneRequest, Inv, Reuse, Inv', [Next]_vars
    PROVE  Reuse'
<1>1. ASSUME NEW r \in Requests, OtpStep(r) PROVE Reuse'
  <2>1. /\ req'[r].pc \in {"saving", "idle"} /\ req[r].pc \in {"saving", "idle"}
        /\ UNCHANGED <<password_history, replaced, hashed_password, deaths>>
    <3>1. CASE GenerateOtp(r) \/ VerifyOtp(r)
      BY <3>1 DEF GenerateOtp, VerifyOtp, Saving, observed, Inv, Types, Idle
    <3>2. CASE SaveOtp(r)
      BY <3>2, FinishIs DEF SaveOtp
    <3>3. QED
      BY <1>1, <3>1, <3>2 DEF OtpStep
  <2>2. Knows(req'[r]) /\ ~Pending(req'[r]) /\ ~Pending(req[r])
    BY <2>1 DEF Knows, Pending, Resetting
  <2>3. QED
    BY <2>1, <2>2, ReuseKept
<1>2. ASSUME NEW r \in Requests, ResetStep(r) PROVE Reuse'
  <2>1. CASE \E password \in Passwords : UpdatePassword(r, password)
    <3>1. /\ req[r].pc = "idle" /\ req'[r].pc = "checking" /\ req'[r].current = hashed_password
          /\ UNCHANGED <<password_history, replaced, hashed_password, deaths>>
      BY <2>1 DEF UpdatePassword, observed, Inv, Types, Idle
    <3>2. Knows(req'[r]) /\ ~Pending(req'[r]) /\ ~Pending(req[r])
      BY <3>1 DEF Knows, Pending
    <3>3. QED
      BY <3>1, <3>2, ReuseKept
  <2>2. CASE CheckOtp(r)
    <3>1. req[r].pc = "checking" /\ ~Pending(req[r])
          /\ UNCHANGED <<password_history, replaced, hashed_password, deaths>>
      BY <2>2 DEF CheckOtp, observed, Pending
    <3>2. CASE Goto(r, "comparing")
      <4>1. req'[r].pc = "comparing" /\ req'[r].current = req[r].current
        BY <3>2, GotoIs
      <4>2. req[r].current = hashed_password
        BY <3>1 DEF Reuse, Knows, Resetting
      <4>3. Knows(req'[r]) /\ ~Pending(req'[r])
        BY <4>1, <4>2 DEF Knows, Pending
      <4>4. QED
        BY <3>1, <4>3, ReuseKept
    <3>3. CASE Finish(r)
      BY <3>1, <3>3, EndReuse
    <3>4. QED
      BY <2>2, <3>2, <3>3 DEF CheckOtp
  <2>3. CASE ReadKept(r)
    <3>1. /\ req[r].pc = "trimming" /\ req'[r].pc = "deleting"
          /\ req'[r].keep = Ids(Newest(password_history, Depth))
          /\ req'[r].new = req[r].new /\ req'[r].current = req[r].current
          /\ UNCHANGED <<password_history, replaced, hashed_password, deaths>>
      BY <2>3 DEF ReadKept, recent_for_admin, observed, Inv, Types, RequestType
    <3>2. Knows(req'[r]) /\ Pending(req'[r]) /\ Pending(req[r])
      BY <3>1 DEF Reuse, Knows, Pending, Resetting
    <3>3. QED
      BY <3>1, <3>2, ReuseKept
  <2>4. CASE DeleteOtp(r)
    <3>1. Finish(r) /\ ~Pending(req[r])
          /\ UNCHANGED <<password_history, replaced, hashed_password, deaths>>
      BY <2>4 DEF DeleteOtp, Pending
    <3>2. QED
      BY <3>1, EndReuse
  <2>5. QED
    BY <1>2, <2>1, <2>2, <2>3, <2>4, CheckReuseReuse, RecordHistoryReuse, TrimHistoryReuse,
       SetPasswordReuse DEF ResetStep
<1>3. CASE Tick \/ UNCHANGED vars
  <2>1. UNCHANGED <<req, password_history, replaced, hashed_password, deaths>>
    BY <1>3 DEF Tick, vars, observed
  <2>2. Slack' = Slack
    BY <2>1 DEF Slack, Pending
  <2>3. Remembers(password_history, replaced, Slack)'
    BY <2>1, <2>2 DEF Reuse, Remembers, Rank, Above
  <2>4. \A s \in Requests : Knows(req[s])'
    <3>1. TAKE s \in Requests
    <3>2. Knows(req[s])
      BY DEF Reuse
    <3>3. QED
      BY <2>1, <3>2 DEF Knows, Accepted, Pending, IsNewest, Rank, Above, Newest, Ids
  <2>5. QED
    BY <2>3, <2>4 DEF Reuse
<1>4. QED
  BY <1>1, <1>2, <1>3, DieReuse, ReplaceUserReuse DEF Next

(* One request at a time: a reset sets neither the current password nor    *)
(* one of the last Depth replaced ones, less one for every request that    *)
(* died half-way, for every history depth and number of deaths.            *)
THEOREM NoPasswordComesBack ==
    ASSUME OneRequest
    PROVE  Spec => NoRecentReuse
<1>1. Reuse => \A r \in Requests : Resets(r) =>
        /\ req[r].new # hashed_password
        /\ \A i \in 1..Len(replaced) :
            i + Depth > Len(replaced) + deaths => replaced[i] # req[r].new
  BY DEF Reuse, Knows, Accepted, Resets
<1>2. Inv /\ Reuse /\ Inv' /\ [Next]_vars => Reuse'
  BY ReuseNext
<1>3. QED
  BY <1>1, <1>2, ReuseInit, Invariant, PTL DEF Spec, NoRecentReuse
=============================================================================

------------------------ MODULE PasswordResetProofs ------------------------
(***************************************************************************)
(* Proofs about PasswordReset for any number of requests at a time, and    *)
(* any passwords, limits and deaths: types and the length of the history.  *)
(***************************************************************************)
EXTENDS PasswordReset, FiniteSetTheorems, FunctionTheorems, TLAPS

-----------------------------------------------------------------------------
(* The newest rows of a table.                                             *)

(* A finite table with an id of its own for each row.                      *)
Keyed(rows) ==
    /\ IsFiniteSet(rows)
    /\ \A x \in rows : x.id \in Nat
    /\ \A x, y \in rows : x.id = y.id => x = y

Above(rows, x) == {y \in rows : y.id > x.id}

Rank(rows, x) == Cardinality(Above(rows, x))

LEMMA RankType ==
    ASSUME NEW rows, IsFiniteSet(rows), NEW x
    PROVE  IsFiniteSet(Above(rows, x)) /\ Rank(rows, x) \in Nat
<1>1. Above(rows, x) \in SUBSET rows
  BY DEF Above
<1>2. QED
  BY <1>1, FS_Subset, FS_CardinalityType DEF Rank

(* Newer rows rank lower.                                                  *)
LEMMA RankOrder ==
    ASSUME NEW rows, Keyed(rows), NEW x \in rows, NEW y \in rows, x.id < y.id
    PROVE  Rank(rows, y) < Rank(rows, x)
<1>1. /\ IsFiniteSet(rows) /\ x.id \in Nat /\ y.id \in Nat
      /\ \A z \in rows : z.id \in Nat
  BY DEF Keyed
<1>2. IsFiniteSet(Above(rows, y)) /\ Rank(rows, y) \in Nat
      /\ IsFiniteSet(Above(rows, x)) /\ Rank(rows, x) \in Nat
  BY <1>1, RankType
<1>3. y \notin Above(rows, y) /\ Above(rows, y) \cup {y} \in SUBSET Above(rows, x)
  BY <1>1 DEF Above
<1>4. Cardinality(Above(rows, y) \cup {y}) = Rank(rows, y) + 1
  BY <1>2, <1>3, FS_AddElement DEF Rank
<1>5. Cardinality(Above(rows, y) \cup {y}) <= Rank(rows, x)
  BY <1>2, <1>3, FS_Subset DEF Rank
<1>6. QED
  BY <1>2, <1>4, <1>5

LEMMA RanksDiffer ==
    ASSUME NEW rows, Keyed(rows), NEW x \in rows, NEW y \in rows, Rank(rows, x) = Rank(rows, y)
    PROVE  x = y
<1>1. x.id \in Nat /\ y.id \in Nat /\ Rank(rows, x) \in Nat /\ Rank(rows, y) \in Nat
  BY RankType DEF Keyed
<1>2. ~(x.id < y.id) /\ ~(y.id < x.id)
  BY <1>1, RankOrder
<1>3. QED
  BY <1>1, <1>2 DEF Keyed

LEMMA NewestIsShort ==
    ASSUME NEW rows, Keyed(rows), NEW n \in Nat
    PROVE  /\ IsFiniteSet(Newest(rows, n)) /\ Cardinality(Newest(rows, n)) <= n
           /\ IsFiniteSet(Ids(Newest(rows, n))) /\ Cardinality(Ids(Newest(rows, n))) <= n
<1> DEFINE kept == Newest(rows, n)
           rank == [x \in kept |-> Rank(rows, x)]
<1>1. kept \subseteq rows /\ \A x \in kept : Rank(rows, x) \in 0..(n - 1)
  <2>1. kept \subseteq rows /\ \A x \in kept : Rank(rows, x) < n
    BY DEF Newest, Rank, Above
  <2>2. QED
    BY <2>1, RankType DEF Keyed
<1>2. \A x, y \in kept : Rank(rows, x) = Rank(rows, y) => x = y
  BY <1>1, RanksDiffer
<1> HIDE DEF kept
<1>3. rank \in Injection(kept, 0..(n - 1))
  BY <1>1, <1>2 DEF Injection, IsInjective
<1>4. IsFiniteSet(0..(n - 1)) /\ Cardinality(0..(n - 1)) = n
  BY FS_Interval
<1>5. IsFiniteSet(kept) /\ Cardinality(kept) <= n /\ Cardinality(kept) \in Nat
  BY <1>3, <1>4, FS_Injection, FS_CardinalityType
<1>6. [x \in kept |-> x.id] \in Surjection(kept, Ids(kept))
  BY DEF Surjection, Ids
<1>7. IsFiniteSet(Ids(kept)) /\ Cardinality(Ids(kept)) <= Cardinality(kept)
  BY <1>5, <1>6, FS_Surjection
<1>8. Cardinality(Ids(kept)) \in Nat
  BY <1>7, FS_CardinalityType
<1>9. QED
  BY <1>5, <1>7, <1>8 DEF kept

(* A table that is not empty has a newest row: the ranks of its rows are   *)
(* as many numbers below its cardinality as it has rows.                   *)
LEMMA SomeRowIsNewest ==
    ASSUME NEW rows, Keyed(rows), NEW n \in Nat \ {0}, rows # {}
    PROVE  Newest(rows, n) # {}
<1> DEFINE size == Cardinality(rows)
           rank == [x \in rows |-> Rank(rows, x)]
<1>1. IsFiniteSet(rows) /\ size \in Nat /\ size # 0
  BY FS_CardinalityType, FS_EmptySet DEF Keyed
<1>2. \A x \in rows : Rank(rows, x) \in 0..(size - 1)
  <2> SUFFICES ASSUME NEW x \in rows PROVE Rank(rows, x) \in 0..(size - 1)
    OBVIOUS
  <2>1. x \notin Above(rows, x) /\ Above(rows, x) \cup {x} \in SUBSET rows
    BY DEF Above, Keyed
  <2>2. IsFiniteSet(Above(rows, x)) /\ Rank(rows, x) \in Nat
    BY <1>1, RankType
  <2>3. Rank(rows, x) + 1 <= size
    BY <1>1, <2>1, <2>2, FS_AddElement, FS_Subset DEF Rank
  <2>4. QED
    BY <1>1, <2>2, <2>3
<1> HIDE DEF size
<1>3. rank \in Injection(rows, 0..(size - 1))
  <2>1. \A x, y \in rows : Rank(rows, x) = Rank(rows, y) => x = y
    BY RanksDiffer
  <2>2. QED
    BY <1>2, <2>1 DEF Injection, IsInjective
<1>4. IsFiniteSet(0..(size - 1)) /\ Cardinality(0..(size - 1)) = Cardinality(rows)
  BY <1>1, FS_Interval DEF size
<1>5. rank \in Surjection(rows, 0..(size - 1))
  BY <1>3, <1>4, FS_Injection
<1>6. PICK x \in rows : Rank(rows, x) = 0
  <2>1. 0 \in 0..(size - 1)
    BY <1>1
  <2>2. \E x \in rows : rank[x] = 0
    BY <1>5, <2>1 DEF Surjection
  <2>3. QED
    BY <2>2
<1>7. x \in Newest(rows, n)
  BY <1>6 DEF Newest, Rank, Above
<1>8. QED
  BY <1>7

(* Keeping the rows of so many ids leaves so many rows.                    *)
LEMMA KeptIsShort ==
    ASSUME NEW rows, Keyed(rows), NEW keep, IsFiniteSet(keep)
    PROVE  LET kept == {row \in rows : row.id \in keep}
           IN  IsFiniteSet(kept) /\ Cardinality(kept) <= Cardinality(keep)
<1> DEFINE kept == {row \in rows : row.id \in keep}
           id == [x \in kept |-> x.id]
<1>1. \A x \in kept : x \in rows /\ x.id \in keep
  OBVIOUS
<1> HIDE DEF kept
<1>2. id \in Injection(kept, keep)
  <2>1. id \in [kept -> keep] /\ DOMAIN id = kept /\ \A x \in kept : id[x] = x.id
    BY <1>1
  <2> HIDE DEF id
  <2>2. QED
    BY <1>1, <2>1 DEF Injection, IsInjective, Keyed
<1>3. QED
  BY <1>2, FS_Injection DEF kept

-----------------------------------------------------------------------------
(* Any number of requests at a time.                                       *)

Resetting ==
    {"checking", "comparing", "recording", "trimming", "deleting", "setting", "clearing"}

(* What a request may be, whatever the others do.                          *)
Fits(x) ==
    /\ x \in RequestType
    /\ x.pc = "saving" =>
        /\ x.op \in {"generate", "verify"}
        /\ x.obj \in PasswordResetOtp
        /\ x.op = "generate" => x.obj.expires_at - OtpExpiry \in Nat
    /\ x.pc \in Resetting => x.current \in Passwords /\ x.new \in Passwords
    /\ x.pc = "deleting" => IsFiniteSet(x.keep) /\ Cardinality(x.keep) <= Depth

(* A history in which a request has an entry of its own still to trim.     *)
Trims(x) == x.pc = "trimming" \/ (x.pc = "deleting" /\ x.keep # {})

Trimming == {r \in Requests : Trims(req[r])}

Types ==
    /\ otp \in PasswordResetOtp \cup {NULL}
    /\ hashed_password \in Passwords
    /\ password_history \subseteq PasswordHistory
    /\ req \in [Requests -> RequestType]
    /\ now \in Nat /\ recorded \in Nat /\ deaths \in Nat
    /\ granted \in Seq(Nat) /\ uses \in Nat \cup {NULL} /\ replaced \in Seq(Passwords)

Short ==
    /\ IsFiniteSet(Trimming)
    /\ Cardinality(password_history) <= Depth + deaths + Cardinality(Trimming)

Inv ==
    /\ Types
    /\ \A r \in Requests : Fits(req[r])
    /\ Keyed(password_history)
    /\ \A row \in password_history : row.id <= recorded
    /\ Short

LEMMA IdleFits == Fits(Idle) /\ ~Trims(Idle) /\ Idle.pc = "idle"
BY DEF Fits, Idle, RequestType, Resetting, Trims

LEMMA InitInv == Init => Inv
<1> SUFFICES ASSUME Init PROVE Inv
  OBVIOUS
<1>1. \A r \in Requests : req[r] = Idle
  BY DEF Init
<1>2. Types
  <2>1. req \in [Requests -> RequestType]
    BY IdleFits DEF Init, Fits
  <2>2. granted \in Seq(Nat) /\ replaced \in Seq(Passwords)
    BY DEF Init
  <2>3. QED
    BY <2>1, <2>2 DEF Init, Types
<1>3. Trimming = {}
  BY <1>1, IdleFits DEF Trimming
<1>4. Keyed(password_history) /\ Short
  BY <1>3, FS_EmptySet, LimitsAssumption DEF Init, Keyed, Short
<1>5. QED
  BY <1>1, <1>2, <1>4, IdleFits DEF Inv, Init

LEMMA RequestFits ==
    ASSUME Inv, NEW r \in Requests
    PROVE  Fits(req[r]) /\ req[r] \in RequestType
BY DEF Inv, Types

(* How many requests have an entry to trim after a step of one of them.    *)
LEMMA TrimmingChanges ==
    ASSUME Inv, NEW r \in Requests, NEW x, req' = [req EXCEPT ![r] = x]
    PROVE  /\ IsFiniteSet(Trimming')
           /\ Cardinality(Trimming) \in Nat /\ Cardinality(Trimming') \in Nat
           /\ (Trims(x) <=> Trims(req[r])) => Cardinality(Trimming') = Cardinality(Trimming)
           /\ Trims(x) /\ ~Trims(req[r]) => Cardinality(Trimming') = Cardinality(Trimming) + 1
           /\ ~Trims(x) /\ Trims(req[r]) => Cardinality(Trimming') = Cardinality(Trimming) - 1
<1>1. /\ req \in [Requests -> RequestType] /\ IsFiniteSet(Trimming)
      /\ \A s \in Requests : req'[s] = IF s = r THEN x ELSE req[s]
  BY DEF Inv, Types, Short
<1>2. Trimming' = {s \in Requests : Trims(req'[s])}
  BY DEF Trimming, Trims
<1>3. r \in Trimming <=> Trims(req[r])
  BY DEF Trimming
<1>4. CASE Trims(x)
  <2>1. Trimming' = Trimming \cup {r}
    BY <1>1, <1>2, <1>4 DEF Trimming
  <2>2. QED
    BY <1>1, <1>3, <1>4, <2>1, FS_AddElement, FS_CardinalityType
<1>5. CASE ~Trims(x)
  <2>1. Trimming' = Trimming \ {r}
    BY <1>1, <1>2, <1>5 DEF Trimming
  <2>2. QED
    BY <1>1, <1>3, <1>5, <2>1, FS_RemoveElement, FS_CardinalityType
<1>6. QED
  BY <1>4, <1>5

(* A step of one request that leaves the history alone.                    *)
LEMMA RequestStep ==
    ASSUME Inv, NEW r \in Requests, NEW x, req' = [req EXCEPT ![r] = x], Fits(x), Types',
           UNCHANGED <<password_history, recorded>>, deaths' >= deaths,
           Trims(req[r]) /\ ~Trims(x) => deaths' = deaths + 1 \/ password_history = {},
           Trims(x) => Trims(req[r])
    PROVE  Inv'
<1>1. \A s \in Requests : Fits(req[s])'
  <2>1. \A s \in Requests : Fits(req'[s])
    BY DEF Inv, Types
  <2>2. QED
    BY <2>1 DEF Fits
<1>2. Keyed(password_history)' /\ \A row \in password_history' : row.id <= recorded'
  BY DEF Inv, Keyed
<1>3. Short'
  <2>1. Cardinality(password_history) \in Nat /\ deaths \in Nat /\ deaths' \in Nat
        /\ Cardinality({}) = 0 /\ Depth \in Nat
    BY LimitsAssumption, FS_CardinalityType, FS_EmptySet DEF Inv, Keyed, Types
  <2>2. Cardinality(password_history) <= Depth + deaths + Cardinality(Trimming)
    BY DEF Inv, Short
  <2>3. IsFiniteSet(Trimming') /\ Cardinality(Trimming') \in Nat /\ Cardinality(Trimming) \in Nat
    BY TrimmingChanges
  <2>4. Cardinality(password_history) <= Depth + deaths' + Cardinality(Trimming')
    <3>1. CASE Trims(x) <=> Trims(req[r])
      <4>1. Cardinality(Trimming') = Cardinality(Trimming)
        BY <3>1, TrimmingChanges
      <4>2. QED
        BY <2>1, <2>2, <2>3, <4>1
    <3>2. CASE Trims(req[r]) /\ ~Trims(x)
      <4>1. Cardinality(Trimming') = Cardinality(Trimming) - 1
        BY <3>2, TrimmingChanges
      <4>2. CASE deaths' = deaths + 1
        BY <2>1, <2>2, <2>3, <4>1, <4>2
      <4>3. CASE password_history = {}
        <5>1. Cardinality(password_history) = 0
          BY <2>1, <4>3
        <5>2. QED
          BY <2>1, <2>3, <5>1
      <4>4. QED
        BY <3>2, <4>2, <4>3
    <3>3. QED
      BY <3>1, <3>2
  <2>5. QED
    BY <2>3, <2>4 DEF Short
<1>4. QED
  BY <1>1, <1>2, <1>3 DEF Inv

LEMMA FitsInTypes ==
    ASSUME Inv, NEW r \in Requests, NEW x, Fits(x)
    PROVE  [req EXCEPT ![r] = x] \in [Requests -> RequestType]
BY DEF Inv, Types, Fits

Saved(op, was, obj) == [Idle EXCEPT !.op = op, !.pc = "saving", !.was = was, !.obj = obj]

LEMMA SavingFits ==
    ASSUME NEW op \in {"generate", "verify"}, NEW was \in PasswordResetOtp \cup {NULL},
           NEW obj \in PasswordResetOtp,
           op = "generate" => obj.expires_at - OtpExpiry \in Nat
    PROVE  LET x == Saved(op, was, obj)
           IN  /\ Fits(x) /\ ~Trims(x)
               /\ x.pc = "saving" /\ x.op = op /\ x.was = was /\ x.obj = obj
<1> DEFINE x == Saved(op, was, obj)
<1>1. x \in RequestType /\ x.pc = "saving" /\ x.op = op /\ x.was = was /\ x.obj = obj
  BY DEF Saved, Idle, RequestType
<1> HIDE DEF x
<1>2. Fits(x) /\ ~Trims(x)
  BY <1>1 DEF Fits, Resetting, Trims
<1>3. QED
  BY <1>1, <1>2 DEF x

LEMMA FreshFits ==
    ASSUME now \in Nat
    PROVE  /\ FreshOtp \in PasswordResetOtp
           /\ FreshOtp.expires_at = now + OtpExpiry /\ FreshOtp.request_count = 1
           /\ FreshOtp.window_started_at = now /\ FreshOtp.verified = FALSE
<1>1. now + OtpExpiry \in Nat /\ 1 \in 1..MaxPerWindow
  BY LimitsAssumption
<1> DEFINE expiry == now + OtpExpiry
<1> HIDE DEF expiry
<1>2. FreshOtp = [expires_at |-> expiry, request_count |-> 1,
                  window_started_at |-> now, verified |-> FALSE]
  BY DEF FreshOtp, expiry
<1>3. QED
  BY <1>1, <1>2 DEF PasswordResetOtp, expiry

(* The row of a granted OTP request.                                       *)
LEMMA NextOtpFits ==
    ASSUME now \in Nat, NEW row \in PasswordResetOtp \cup {NULL}, ~Throttled(row)
    PROVE  /\ NextOtp(row) \in PasswordResetOtp
           /\ NextOtp(row).expires_at = now + OtpExpiry
           /\ NextOtp(row).verified = FALSE
           /\ row = NULL \/ WindowPassed(row) =>
                NextOtp(row).request_count = 1 /\ NextOtp(row).window_started_at = now
           /\ row # NULL /\ ~WindowPassed(row) =>
                /\ NextOtp(row).request_count = row.request_count + 1
                /\ NextOtp(row).window_started_at = row.window_started_at
<1>1. CASE row = NULL \/ WindowPassed(row)
  <2>1. NextOtp(row) = FreshOtp
    BY <1>1 DEF NextOtp
  <2>2. QED
    BY <1>1, <2>1, FreshFits
<1>2. CASE row # NULL /\ ~WindowPassed(row)
  <2> DEFINE expiry == now + OtpExpiry
             n == row.request_count + 1
  <2>1. expiry \in Nat /\ n \in 1..MaxPerWindow /\ row \in PasswordResetOtp
    BY <1>2, LimitsAssumption DEF Throttled, PasswordResetOtp
  <2>2. NextOtp(row) = [row EXCEPT !.expires_at = expiry, !.request_count = n, !.verified = FALSE]
    BY <1>2 DEF NextOtp
  <2> HIDE DEF expiry, n
  <2>3. /\ NextOtp(row) \in PasswordResetOtp
        /\ NextOtp(row).expires_at = expiry /\ NextOtp(row).request_count = n
        /\ NextOtp(row).verified = FALSE
        /\ NextOtp(row).window_started_at = row.window_started_at
    BY <2>1, <2>2 DEF PasswordResetOtp
  <2>4. QED
    BY <1>2, <2>3 DEF expiry, n
<1>3. QED
  BY <1>1, <1>2

LEMMA GenerateOtpInv == ASSUME Inv, NEW r \in Requests, GenerateOtp(r) PROVE Inv'
<1> DEFINE x == Saved("generate", otp, NextOtp(otp))
<1>1. otp \in PasswordResetOtp \cup {NULL} /\ now \in Nat /\ ~Throttled(otp)
  BY DEF Inv, Types, GenerateOtp
<1>2. NextOtp(otp) \in PasswordResetOtp /\ NextOtp(otp).expires_at = now + OtpExpiry
  BY <1>1, NextOtpFits
<1>3. NextOtp(otp).expires_at - OtpExpiry \in Nat
  BY <1>1, <1>2, LimitsAssumption
<1>4. Fits(x) /\ ~Trims(x)
  BY <1>1, <1>2, <1>3, SavingFits
<1>5. req' = [req EXCEPT ![r] = x] /\ req[r].pc = "idle"
      /\ UNCHANGED <<otp, hashed_password, password_history, now, recorded, deaths, granted,
                     uses, replaced>>
  BY DEF GenerateOtp, Saving, Saved, observed
<1> HIDE DEF x
<1>6. Types' /\ ~Trims(req[r]) /\ deaths' >= deaths
  BY <1>4, <1>5, FitsInTypes DEF Inv, Types, Trims
<1>7. QED
  BY <1>4, <1>5, <1>6, RequestStep

LEMMA VerifyOtpInv == ASSUME Inv, NEW r \in Requests, VerifyOtp(r) PROVE Inv'
<1> DEFINE obj == [otp EXCEPT !.verified = TRUE]
           x == Saved("verify", otp, obj)
<1>1. otp \in PasswordResetOtp
  BY DEF Inv, Types, VerifyOtp
<1>2. obj \in PasswordResetOtp
  BY <1>1 DEF PasswordResetOtp
<1>3. req' = [req EXCEPT ![r] = x] /\ req[r].pc = "idle"
      /\ UNCHANGED <<otp, hashed_password, password_history, now, recorded, deaths, granted,
                     uses, replaced>>
  BY DEF VerifyOtp, Saving, Saved, observed
<1> HIDE DEF obj
<1>4. Fits(x) /\ ~Trims(x)
  BY <1>1, <1>2, SavingFits
<1> HIDE DEF x
<1>5. Types' /\ ~Trims(req[r]) /\ deaths' >= deaths
  BY <1>3, <1>4, FitsInTypes DEF Inv, Types, Trims
<1>6. QED
  BY <1>3, <1>4, <1>5, RequestStep

(* The columns of a saved row.                                             *)
LEMMA UpdatedFits ==
    ASSUME NEW stored \in PasswordResetOtp, NEW was \in PasswordResetOtp,
           NEW obj \in PasswordResetOtp
    PROVE  /\ Updated(stored, was, obj) \in PasswordResetOtp
           /\ stored = was => Updated(stored, was, obj) = obj
<1> DEFINE a == Column(stored.expires_at, was.expires_at, obj.expires_at)
           b == Column(stored.request_count, was.request_count, obj.request_count)
           c == Column(stored.window_started_at, was.window_started_at, obj.window_started_at)
           d == Column(stored.verified, was.verified, obj.verified)
<1>1. a \in Nat /\ b \in 1..MaxPerWindow /\ c \in Nat
  BY DEF Column, PasswordResetOtp
<1>2. d \in BOOLEAN
  BY Zenon DEF Column, PasswordResetOtp
<1>3. stored = was =>
        a = obj.expires_at /\ b = obj.request_count /\ c = obj.window_started_at
  BY DEF Column
<1>4. stored = was => d = obj.verified
  BY Zenon DEF Column
<1>5. Updated(stored, was, obj) =
        [expires_at |-> a, request_count |-> b, window_started_at |-> c, verified |-> d]
  BY Zenon DEF Updated
<1>6. obj = [expires_at |-> obj.expires_at, request_count |-> obj.request_count,
             window_started_at |-> obj.window_started_at, verified |-> obj.verified]
  BY DEF PasswordResetOtp
<1> HIDE DEF a, b, c, d
<1>7. Updated(stored, was, obj) \in PasswordResetOtp
  BY <1>1, <1>2, <1>5 DEF PasswordResetOtp
<1>8. QED
  BY <1>3, <1>4, <1>5, <1>6, <1>7

(* A request that ends without anything of its own in the history.         *)
LEMMA FinishStep ==
    ASSUME Inv, NEW r \in Requests, Finish(r), Types',
           UNCHANGED <<password_history, recorded>>,
           (deaths' = deaths /\ ~Trims(req[r])) \/ deaths' = deaths + 1
    PROVE  Inv'
<1>1. deaths' >= deaths
  BY DEF Inv, Types
<1>2. QED
  BY <1>1, IdleFits, RequestStep DEF Finish

LEMMA SaveOtpInv == ASSUME Inv, NEW r \in Requests, SaveOtp(r) PROVE Inv'
<1>1. req[r].pc = "saving" /\ Finish(r)
      /\ UNCHANGED <<hashed_password, password_history, now, recorded, deaths, replaced>>
  BY DEF SaveOtp
<1>2. /\ req[r].obj \in PasswordResetOtp /\ req[r].was \in PasswordResetOtp \cup {NULL}
      /\ req[r].op = "generate" => req[r].obj.expires_at - OtpExpiry \in Nat
      /\ req[r].op \in {"generate", "verify"}
  BY <1>1, RequestFits DEF Fits, RequestType
<1>3. otp' \in PasswordResetOtp \cup {NULL} /\ granted' \in Seq(Nat) /\ uses' \in Nat \cup {NULL}
  <2>1. CASE (req[r].was = NULL) = (otp = NULL)
    <3>1. otp' \in PasswordResetOtp \cup {NULL}
      BY <1>2, <2>1, UpdatedFits DEF SaveOtp, Inv, Types
    <3>2. uses' = (IF req[r].op = "verify" THEN 0 ELSE NULL)
          /\ granted' = IF req[r].op = "verify" THEN granted
                        ELSE Append(granted, req[r].obj.expires_at - OtpExpiry)
      BY <2>1, Zenon DEF SaveOtp
    <3>3. uses' \in Nat \cup {NULL}
      BY <3>2
    <3>4. granted \in Seq(Nat)
      BY DEF Inv, Types
    <3>5. granted' \in Seq(Nat)
      BY <1>2, <3>2, <3>4
    <3>6. QED
      BY <3>1, <3>3, <3>5
  <2>2. CASE ~((req[r].was = NULL) = (otp = NULL))
    BY <2>2 DEF SaveOtp, Inv, Types
  <2>3. QED
    BY <2>1, <2>2
<1>4. Types' /\ ~Trims(req[r])
  BY <1>1, <1>3, IdleFits, FitsInTypes DEF Inv, Types, Finish, Trims
<1>5. QED
  BY <1>1, <1>4, FinishStep

LEMMA UpdatePasswordInv ==
    ASSUME Inv, NEW r \in Requests, NEW password \in Passwords, UpdatePassword(r, password)
    PROVE  Inv'
<1> DEFINE x == [Idle EXCEPT !.op = "update", !.pc = "checking",
                             !.current = hashed_password, !.new = password]
<1>1. hashed_password \in Passwords
  BY DEF Inv, Types
<1>2. x \in RequestType /\ x.pc = "checking" /\ x.current = hashed_password
      /\ x.new = password
  BY <1>1 DEF Idle, RequestType
<1>3. req' = [req EXCEPT ![r] = x] /\ req[r].pc = "idle"
      /\ UNCHANGED <<otp, hashed_password, password_history, now, recorded, deaths, granted,
                     uses, replaced>>
  BY DEF UpdatePassword, observed
<1> HIDE DEF x
<1>4. Fits(x) /\ ~Trims(x)
  BY <1>1, <1>2 DEF Fits, Trims, Resetting
<1>5. Types' /\ ~Trims(req[r]) /\ deaths' >= deaths
  BY <1>3, <1>4, FitsInTypes DEF Inv, Types, Trims
<1>6. QED
  BY <1>3, <1>4, <1>5, RequestStep

(* A reset that goes on, with or without an entry in the history.          *)
LEMMA GotoFits ==
    ASSUME Inv, NEW r \in Requests, NEW pc \in Resetting \ {"deleting"}, req[r].pc \in Resetting
    PROVE  LET x == [req[r] EXCEPT !.pc = pc]
           IN  /\ Fits(x) /\ (Trims(x) <=> pc = "trimming")
               /\ x.pc = pc /\ x.current = req[r].current /\ x.new = req[r].new
<1> DEFINE x == [req[r] EXCEPT !.pc = pc]
<1>1. Fits(req[r])
  BY RequestFits
<1>2. x \in RequestType /\ x.pc = pc /\ x.current = req[r].current /\ x.new = req[r].new
  BY <1>1 DEF Fits, RequestType, Resetting
<1> HIDE DEF x
<1>3. Fits(x) /\ (Trims(x) <=> pc = "trimming")
  BY <1>1, <1>2 DEF Fits, Resetting, Trims
<1>4. QED
  BY <1>2, <1>3 DEF x

(* A step of a reset that writes nothing to the history.                   *)
LEMMA GotoStep ==
    ASSUME Inv, NEW r \in Requests, NEW pc \in Resetting \ {"deleting", "trimming"},
           req[r].pc \in Resetting, ~Trims(req[r]), Goto(r, pc), Types',
           UNCHANGED <<password_history, recorded, deaths>>
    PROVE  Inv'
<1> DEFINE x == [req[r] EXCEPT !.pc = pc]
<1>1. Fits(x) /\ ~Trims(x)
  BY GotoFits DEF Resetting
<1>2. req' = [req EXCEPT ![r] = x]
  BY DEF Goto
<1> HIDE DEF x
<1>3. deaths' >= deaths
  BY DEF Inv, Types
<1>4. QED
  BY <1>1, <1>2, <1>3, RequestStep

LEMMA GotoTypes ==
    ASSUME Inv, NEW r \in Requests, NEW pc \in Resetting \ {"deleting"}, req[r].pc \in Resetting,
           Goto(r, pc)
    PROVE  req' \in [Requests -> RequestType]
<1> DEFINE x == [req[r] EXCEPT !.pc = pc]
<1>1. Fits(x) /\ req' = [req EXCEPT ![r] = x]
  BY GotoFits DEF Goto
<1> HIDE DEF x
<1>2. QED
  BY <1>1, FitsInTypes

LEMMA FinishTypes ==
    ASSUME Inv, NEW r \in Requests, Finish(r)
    PROVE  req' \in [Requests -> RequestType]
BY IdleFits, FitsInTypes DEF Finish

LEMMA CheckOtpInv == ASSUME Inv, NEW r \in Requests, CheckOtp(r) PROVE Inv'
<1>1. req[r].pc = "checking" /\ ~Trims(req[r]) /\ (Goto(r, "comparing") \/ Finish(r))
      /\ UNCHANGED <<otp, hashed_password, password_history, now, recorded, deaths, granted,
                     uses, replaced>>
  BY DEF CheckOtp, observed, Trims
<1>2. Types'
  BY <1>1, GotoTypes, FinishTypes DEF Resetting, Inv, Types
<1>3. QED
  BY <1>1, <1>2, GotoStep, FinishStep DEF Resetting

LEMMA CheckReuseInv == ASSUME Inv, NEW r \in Requests, CheckReuse(r) PROVE Inv'
<1>1. req[r].pc = "comparing" /\ ~Trims(req[r]) /\ (Goto(r, "recording") \/ Finish(r))
      /\ UNCHANGED <<otp, hashed_password, password_history, now, recorded, deaths, granted,
                     uses, replaced>>
  BY DEF CheckReuse, observed, Trims
<1>2. Types'
  BY <1>1, GotoTypes, FinishTypes DEF Resetting, Inv, Types
<1>3. QED
  BY <1>1, <1>2, GotoStep, FinishStep DEF Resetting

LEMMA SetPasswordInv == ASSUME Inv, NEW r \in Requests, SetPassword(r) PROVE Inv'
<1>1. req[r].pc = "setting" /\ ~Trims(req[r]) /\ Goto(r, "clearing")
      /\ hashed_password' = req[r].new /\ uses' = (IF uses = NULL THEN NULL ELSE uses + 1)
      /\ replaced' = Append(replaced, hashed_password)
      /\ UNCHANGED <<otp, password_history, now, recorded, deaths, granted>>
  BY DEF SetPassword, Trims
<1>2. hashed_password' \in Passwords
  BY <1>1, RequestFits DEF Fits, Resetting
<1>3. replaced' \in Seq(Passwords)
  BY <1>1 DEF Inv, Types
<1>4. Types'
  BY <1>1, <1>2, <1>3, GotoTypes DEF Resetting, Inv, Types
<1>5. QED
  BY <1>1, <1>4, GotoStep DEF Resetting

LEMMA DeleteOtpInv == ASSUME Inv, NEW r \in Requests, DeleteOtp(r) PROVE Inv'
<1>1. req[r].pc = "clearing" /\ ~Trims(req[r]) /\ Finish(r) /\ otp' = NULL /\ granted' = <<>>
      /\ UNCHANGED <<hashed_password, password_history, now, recorded, deaths, uses, replaced>>
  BY DEF DeleteOtp, Trims
<1>2. granted' \in Seq(Nat)
  BY <1>1
<1>3. Types'
  BY <1>1, <1>2, FinishTypes DEF Inv, Types
<1>4. QED
  BY <1>1, <1>3, FinishStep

LEMMA DieInv == ASSUME Inv, NEW r \in Requests, Die(r) PROVE Inv'
<1>1. Finish(r) /\ deaths' = deaths + 1
      /\ UNCHANGED <<otp, hashed_password, password_history, now, recorded, granted, uses,
                     replaced>>
  BY DEF Die, observed
<1>2. Types'
  BY <1>1, FinishTypes DEF Inv, Types
<1>3. QED
  BY <1>1, <1>2, FinishStep

(* A step in which no request moves.                                       *)
LEMMA QuietStep ==
    ASSUME Inv, UNCHANGED <<req, password_history, recorded, deaths>>, Types'
    PROVE  Inv'
<1>1. \A r \in Requests : Fits(req[r])'
  BY DEF Inv, Fits
<1>2. Trimming' = Trimming
  BY DEF Trimming, Trims
<1>3. QED
  BY <1>1, <1>2 DEF Inv, Short, Keyed

-----------------------------------------------------------------------------
(* Steps that change the history.                                          *)

(* A new entry ranks first, and every other one lower by one.              *)
LEMMA NewEntry ==
    ASSUME Inv, NEW password \in Passwords, NEW entry,
           entry = [id |-> recorded + 1, hashed_password |-> password]
    PROVE  LET rows == password_history \cup {entry}
           IN  /\ entry \in PasswordHistory /\ entry \notin password_history
               /\ Keyed(rows) /\ (\A row \in rows : row.id <= recorded + 1)
               /\ Cardinality(rows) = Cardinality(password_history) + 1
               /\ Above(rows, entry) = {}
               /\ \A row \in password_history :
                    Above(rows, row) = Above(password_history, row) \cup {entry}
<1>1. /\ recorded \in Nat /\ IsFiniteSet(password_history)
      /\ \A row \in password_history : row.id \in Nat /\ row.id <= recorded
      /\ \A x, y \in password_history : x.id = y.id => x = y
  BY DEF Inv, Types, Keyed
<1>2. entry \in PasswordHistory /\ entry.id = recorded + 1
  BY <1>1 DEF PasswordHistory
<1>3. \A row \in password_history : row.id < entry.id
  BY <1>1, <1>2
<1>4. entry \notin password_history
  BY <1>1, <1>2
<1>5. Keyed(password_history \cup {entry})
  BY <1>1, <1>2, <1>3, FS_AddElement DEF Keyed
<1>6. Cardinality(password_history \cup {entry}) = Cardinality(password_history) + 1
  BY <1>1, <1>4, FS_AddElement
<1>7. \A row \in password_history \cup {entry} : row.id <= recorded + 1
  BY <1>1, <1>2
<1>8. Above(password_history \cup {entry}, entry) = {}
  BY <1>1, <1>2, <1>3 DEF Above
<1>9. \A row \in password_history :
        Above(password_history \cup {entry}, row) = Above(password_history, row) \cup {entry}
  BY <1>3 DEF Above
<1>10. QED
  BY <1>2, <1>4, <1>5, <1>6, <1>7, <1>8, <1>9

LEMMA RecordHistoryInv == ASSUME Inv, NEW r \in Requests, RecordHistory(r) PROVE Inv'
<1> DEFINE entry == [id |-> recorded + 1, hashed_password |-> req[r].current]
           x == [req[r] EXCEPT !.pc = "trimming"]
<1>1. req[r].pc = "recording" /\ ~Trims(req[r]) /\ Goto(r, "trimming")
      /\ recorded' = recorded + 1 /\ password_history' = password_history \cup {entry}
      /\ UNCHANGED <<otp, hashed_password, now, deaths, granted, uses, replaced>>
  BY DEF RecordHistory, observed, Trims
<1>2. req[r].current \in Passwords
  BY <1>1, RequestFits DEF Fits, Resetting
<1>3. Fits(x) /\ Trims(x) /\ req' = [req EXCEPT ![r] = x]
  BY <1>1, GotoFits DEF Resetting, Goto
<1> HIDE DEF x
<1>4. /\ entry \in PasswordHistory
      /\ Keyed(password_history') /\ (\A row \in password_history' : row.id <= recorded')
      /\ Cardinality(password_history') = Cardinality(password_history) + 1
  BY <1>1, <1>2, NewEntry
<1> HIDE DEF entry
<1>5. req' \in [Requests -> RequestType]
  BY <1>3, FitsInTypes
<1>6. Types'
  BY <1>1, <1>4, <1>5 DEF Inv, Types
<1>7. \A s \in Requests : Fits(req[s])'
  <2>1. \A s \in Requests : Fits(req'[s])
    BY <1>3 DEF Inv, Types
  <2>2. QED
    BY <2>1 DEF Fits
<1>8. Short'
  <2>1. IsFiniteSet(Trimming') /\ Cardinality(Trimming') = Cardinality(Trimming) + 1
        /\ Cardinality(Trimming) \in Nat
    BY <1>1, <1>3, TrimmingChanges
  <2>2. Cardinality(password_history) \in Nat /\ deaths \in Nat /\ Depth \in Nat
    BY LimitsAssumption, FS_CardinalityType DEF Inv, Keyed, Types
  <2>3. Cardinality(password_history) <= Depth + deaths + Cardinality(Trimming)
    BY DEF Inv, Short
  <2>4. Cardinality(password_history') <= Depth + deaths + Cardinality(Trimming')
    BY <1>4, <2>1, <2>2, <2>3
  <2>5. QED
    BY <1>1, <2>1, <2>4 DEF Short
<1>9. QED
  BY <1>4, <1>6, <1>7, <1>8 DEF Inv

LEMMA ReadKeptInv == ASSUME Inv, NEW r \in Requests, ReadKept(r) PROVE Inv'
<1> DEFINE keep == Ids(recent_for_admin(password_history))
           x == [req[r] EXCEPT !.pc = "deleting", !.keep = keep]
<1>1. req[r].pc = "trimming" /\ req' = [req EXCEPT ![r] = x]
      /\ UNCHANGED <<otp, hashed_password, password_history, now, recorded, deaths, granted,
                     uses, replaced>>
  BY DEF ReadKept, observed
<1>2. Keyed(password_history) /\ Depth \in Nat \ {0}
  BY LimitsAssumption DEF Inv
<1>3. IsFiniteSet(keep) /\ Cardinality(keep) <= Depth
  BY <1>2, NewestIsShort DEF recent_for_admin
<1>4. keep \subseteq Nat
  BY <1>2 DEF Ids, recent_for_admin, Newest, Keyed
<1>5. keep = {} => password_history = {}
  BY <1>2, SomeRowIsNewest DEF Ids, recent_for_admin
<1> HIDE DEF keep
<1>6. /\ x \in RequestType /\ x.pc = "deleting" /\ x.keep = keep
      /\ x.current = req[r].current /\ x.new = req[r].new
  BY <1>4, RequestFits DEF RequestType
<1> HIDE DEF x
<1>7. Fits(x)
  BY <1>1, <1>3, <1>6, RequestFits DEF Fits, Resetting
<1>8. Trims(req[r]) /\ (Trims(x) \/ password_history = {})
  BY <1>1, <1>5, <1>6 DEF Trims
<1>9. Types' /\ deaths' >= deaths
  BY <1>1, <1>7, FitsInTypes DEF Inv, Types
<1>10. QED
  BY <1>1, <1>7, <1>8, <1>9, RequestStep

LEMMA TrimHistoryInv == ASSUME Inv, NEW r \in Requests, TrimHistory(r) PROVE Inv'
<1> DEFINE x == [req[r] EXCEPT !.pc = "setting", !.keep = {}]
           kept == {row \in password_history : row.id \in req[r].keep}
<1>1. req[r].pc = "deleting" /\ req' = [req EXCEPT ![r] = x]
      /\ password_history' = (IF req[r].keep = {} THEN password_history ELSE kept)
      /\ UNCHANGED <<otp, hashed_password, now, recorded, deaths, granted, uses, replaced>>
  BY DEF TrimHistory, observed
<1>2. /\ x \in RequestType /\ x.pc = "setting" /\ x.current = req[r].current
      /\ x.new = req[r].new
  BY RequestFits DEF RequestType
<1> HIDE DEF x
<1>3. Fits(x) /\ ~Trims(x)
  BY <1>1, <1>2, RequestFits DEF Fits, Resetting, Trims
<1>4. req' \in [Requests -> RequestType]
  BY <1>1, <1>3, FitsInTypes
<1>5. Types'
  BY <1>1, <1>4 DEF Inv, Types
<1>6. CASE req[r].keep = {}
  <2>1. ~Trims(req[r]) /\ password_history' = password_history /\ deaths' >= deaths
    BY <1>1, <1>6 DEF Trims, Inv, Types
  <2>2. QED
    BY <1>1, <1>3, <1>5, <2>1, RequestStep
<1>7. CASE req[r].keep # {}
  <2>1. IsFiniteSet(req[r].keep) /\ Cardinality(req[r].keep) <= Depth
    BY <1>1, RequestFits DEF Fits
  <2>2. Keyed(password_history)
    BY DEF Inv
  <2>3. IsFiniteSet(kept) /\ Cardinality(kept) <= Cardinality(req[r].keep)
    BY <2>1, <2>2, KeptIsShort
  <2>4. password_history' = kept /\ kept \subseteq password_history
    BY <1>1, <1>7
  <2> HIDE DEF kept
  <2>5. Keyed(password_history') /\ \A row \in password_history' : row.id <= recorded'
    BY <1>1, <2>2, <2>3, <2>4 DEF Keyed, Inv
  <2>6. \A s \in Requests : Fits(req[s])'
    <3>1. \A s \in Requests : Fits(req'[s])
      BY <1>1, <1>3 DEF Inv, Types
    <3>2. QED
      BY <3>1 DEF Fits
  <2>7. Short'
    <3>1. IsFiniteSet(Trimming') /\ Cardinality(Trimming') \in Nat
      BY <1>1, TrimmingChanges
    <3>2. Cardinality(kept) \in Nat /\ Cardinality(req[r].keep) \in Nat
          /\ deaths \in Nat /\ Depth \in Nat
      BY <2>1, <2>3, LimitsAssumption, FS_CardinalityType DEF Inv, Types
    <3>3. Cardinality(kept) <= Depth + deaths + Cardinality(Trimming')
      BY <2>1, <2>3, <3>1, <3>2
    <3>4. QED
      BY <1>1, <2>4, <3>1, <3>3 DEF Short
  <2>8. QED
    BY <1>5, <2>5, <2>6, <2>7 DEF Inv
<1>8. QED
  BY <1>6, <1>7

-----------------------------------------------------------------------------
LEMMA NextInv == Inv /\ [Next]_vars => Inv'
<1> SUFFICES ASSUME Inv, [Next]_vars PROVE Inv'
  OBVIOUS
<1>1. ASSUME NEW r \in Requests, OtpStep(r) PROVE Inv'
  BY <1>1, GenerateOtpInv, VerifyOtpInv, SaveOtpInv DEF OtpStep
<1>2. ASSUME NEW r \in Requests, ResetStep(r) PROVE Inv'
  BY <1>2, UpdatePasswordInv, CheckOtpInv, CheckReuseInv, RecordHistoryInv, ReadKeptInv,
     TrimHistoryInv, SetPasswordInv, DeleteOtpInv DEF ResetStep
<1>3. ASSUME NEW r \in Requests, NEW password \in Passwords, ReplaceUser(r, password)
      PROVE  Inv'
  <2>1. Types' /\ UNCHANGED <<req, password_history, recorded, deaths>>
    BY <1>3 DEF ReplaceUser, observed, Inv, Types
  <2>2. QED
    BY <2>1, QuietStep
<1>4. CASE Tick
  <2>1. Types' /\ UNCHANGED <<req, password_history, recorded, deaths>>
    BY <1>4 DEF Tick, observed, Inv, Types
  <2>2. QED
    BY <2>1, QuietStep
<1>5. CASE UNCHANGED vars
  <2>1. Types' /\ UNCHANGED <<req, password_history, recorded, deaths>>
    BY <1>5 DEF vars, observed, Inv, Types
  <2>2. QED
    BY <2>1, QuietStep
<1>6. QED
  BY <1>1, <1>2, <1>3, <1>4, <1>5, DieInv DEF Next

LEMMA Invariant == Spec => []Inv
BY InitInv, NextInv, PTL DEF Spec

(* Rows, copies and counters keep their types in every interleaving: the   *)
(* stale copies that requests write back never push request_count past the *)
(* limit.                                                                  *)
THEOREM TypeCorrect == Spec => []TypeOK
<1>1. Inv => TypeOK
  BY DEF Inv, Types, TypeOK
<1>2. QED
  BY <1>1, Invariant, PTL

(* The history stays short however many resets trim it at a time, although *)
(* each one deletes by a list of ids that it has read before: it never     *)
(* exceeds Depth by more than the requests that died half-way.             *)
THEOREM HistoryStaysShort == Spec => []HistoryTrimmed
<1>1. Inv => HistoryTrimmed
  <2> SUFFICES ASSUME Inv, \A r \in Requests : req[r].pc = "idle"
               PROVE  Cardinality(password_history) <= Depth + deaths
    BY DEF HistoryTrimmed
  <2>1. Trimming = {}
    BY DEF Trimming, Trims
  <2>2. Cardinality(password_history) <= Depth + deaths + 0
    BY <2>1, FS_EmptySet DEF Inv, Short
  <2>3. deaths \in Nat /\ Depth \in Nat
    BY LimitsAssumption DEF Inv, Types
  <2>4. QED
    BY <2>2, <2>3
<1>2. QED
  BY <1>1, Invariant, PTL
=============================================================================

------------------------- MODULE AuditOutboxProofs -------------------------
(***************************************************************************)
(* Theorems about AuditOutbox, for any number of events and promoters and  *)
(* any batch size.                                                         *)
(***************************************************************************)
EXTENDS AuditOutbox, FiniteSetTheorems, TLAPS

(* The rows of a chain, in the order they were added.                      *)
PrevHash(rows, i) == IF i = 1 THEN <<>> ELSE rows[i-1].entry_hash

Linked(rows) ==
    \A i \in 1..Len(rows) :
        /\ rows[i].seq = i
        /\ rows[i].prev_hash = PrevHash(rows, i)
        /\ rows[i].entry_hash = entry_digest(PrevHash(rows, i), chain_fields(rows[i]))

(* Only the holder of the advisory lock has uncommitted entries, and they  *)
(* continue the committed chain.                                           *)
LockInv ==
    \A p \in Promoters :
        /\ pc[p] = "chaining" => chain_lock = p
        /\ pc[p] # "chaining" => inserted[p] = <<>>

ChainInv ==
    /\ TypeOK
    /\ LockInv
    /\ Linked(audit_logs)
    /\ \A p \in Promoters : Linked(Visible(p))

(* The tip of a linked chain is its last row.                              *)
LEMMA TipOfLinked ==
    ASSUME NEW rows \in Seq(AuditLog), Linked(rows)
    PROVE  /\ TipSeq(rows) = Len(rows)
           /\ TipHash(rows) = PrevHash(rows, Len(rows) + 1)
           /\ TipHash(rows) \in Hashes
<1> DEFINE S == {0} \cup {rows[i].seq : i \in 1..Len(rows)}
<1>1. Len(rows) \in S /\ \A x \in S : x \in Nat /\ Len(rows) >= x
  <2>1. \A i \in 1..Len(rows) : rows[i].seq = i
    BY DEF Linked
  <2>2. S = 0..Len(rows)
    BY <2>1
  <2> QED
    BY <2>2
<1>2. TipSeq(rows) = Len(rows)
  <2>1. \A m \in S : (\A x \in S : m >= x) => m = Len(rows)
    BY <1>1
  <2>2. \E m \in S : \A x \in S : m >= x
    BY <1>1
  <2> QED
    BY <2>1, <2>2 DEF TipSeq, Max
<1>3. CASE rows = <<>>
  <2>1. Len(rows) = 0
    BY <1>3
  <2>2. TipHash(rows) = <<>>
    BY <2>1 DEF TipHash
  <2>3. PrevHash(rows, Len(rows) + 1) = <<>>
    BY <2>1 DEF PrevHash
  <2>4. <<>> \in Hashes
    BY DEF Hashes
  <2> QED
    BY <1>2, <2>2, <2>3, <2>4
<1>4. CASE rows # <<>>
  <2>1. Len(rows) \in 1..Len(rows) /\ rows[Len(rows)].seq = Len(rows)
    BY <1>4 DEF Linked
  <2>2. \A i \in 1..Len(rows) : rows[i].seq = Len(rows) => i = Len(rows)
    BY DEF Linked
  <2>3. TipHash(rows) = rows[Len(rows)].entry_hash
    BY <1>2, <2>1, <2>2 DEF TipHash
  <2>4. rows[Len(rows)] \in AuditLog
    BY <2>1
  <2> QED
    BY <1>2, <2>1, <2>3, <2>4 DEF PrevHash, AuditLog
<1> QED
  BY <1>3, <1>4

(* An entry chained onto a linked chain extends it.                        *)
LEMMA ExtendLinked ==
    ASSUME NEW rows \in Seq(AuditLog), Linked(rows), NEW e \in Events,
           created_at \in [Events -> Nat]
    PROVE  /\ ChainedEntry(rows, e) \in AuditLog
           /\ ChainedEntry(rows, e).event = e
           /\ Linked(Append(rows, ChainedEntry(rows, e)))
<1> DEFINE n == Len(rows)
           fields == [seq |-> n + 1, event |-> e, created_at |-> created_at[e]]
           row == ChainedEntry(rows, e)
           longer == Append(rows, row)
<1>1. /\ TipSeq(rows) = n
      /\ TipHash(rows) = PrevHash(rows, n + 1)
      /\ TipHash(rows) \in Hashes
  BY TipOfLinked
<1>2. fields \in Fields
  BY DEF Fields
<1>3. entry_digest(TipHash(rows), fields) \in Hashes
  BY <1>1, <1>2 DEF entry_digest, Hashes
<1>4. row = [seq |-> n + 1, event |-> e, created_at |-> created_at[e],
             prev_hash |-> TipHash(rows),
             entry_hash |-> entry_digest(TipHash(rows), fields)]
  BY <1>1 DEF ChainedEntry
<1>5. row \in AuditLog /\ row.event = e
  <2> HIDE DEF row, fields
  <2> QED
    BY <1>1, <1>3, <1>4 DEF AuditLog
<1>6. chain_fields(row) = fields
  BY <1>4 DEF chain_fields
<1>7. /\ longer \in Seq(AuditLog)
      /\ Len(longer) = n + 1
      /\ longer[n + 1] = row
      /\ \A i \in 1..n : longer[i] = rows[i]
  <2> HIDE DEF row
  <2> QED
    BY <1>5
<1>8. \A i \in 1..(n + 1) : PrevHash(longer, i) = PrevHash(rows, i)
  <2> HIDE DEF row
  <2> QED
    BY <1>7 DEF PrevHash
<1>9. Linked(longer)
  <2> SUFFICES ASSUME NEW i \in 1..(n + 1)
               PROVE  /\ longer[i].seq = i
                      /\ longer[i].prev_hash = PrevHash(longer, i)
                      /\ longer[i].entry_hash =
                            entry_digest(PrevHash(longer, i), chain_fields(longer[i]))
    BY <1>7 DEF Linked
  <2>1. CASE i = n + 1
    <3>1. /\ row.seq = n + 1
          /\ row.prev_hash = TipHash(rows)
          /\ row.entry_hash = entry_digest(TipHash(rows), fields)
      BY <1>4
    <3> HIDE DEF row, fields
    <3> QED
      BY <1>1, <1>6, <1>7, <1>8, <2>1, <3>1
  <2>2. CASE i \in 1..n
    BY <1>7, <1>8, <2>2 DEF Linked
  <2> QED
    BY <2>1, <2>2
<1> QED
  BY <1>5, <1>9

-----------------------------------------------------------------------------
(* Every variable has its type, and a lock is held only by a promoter      *)
(* inside its transaction; the fit of the batch to the chain goes with it. *)
LEMMA InitChainInv == Init => ChainInv
<1> SUFFICES ASSUME Init PROVE ChainInv
  OBVIOUS
<1> USE DEF Init
<1>1. TypeOK
  BY DEF TypeOK, Stages, PromoterStates
<1>2. LockInv
  BY DEF LockInv
<1>3. Len(<<>>) = 0 /\ <<>> \o <<>> = <<>>
  OBVIOUS
<1>4. Linked(<<>>)
  BY <1>3 DEF Linked
<1>5. \A p \in Promoters : Visible(p) = <<>>
  BY <1>3 DEF Visible
<1> QED
  BY <1>1, <1>2, <1>4, <1>5 DEF ChainInv

(* The end of a pass gives the promoter back its empty hands.              *)
LEMMA EndPassChainInv ==
    ASSUME ChainInv, NEW p \in Promoters, EndPass(p), UNCHANGED requestVars,
           intents' \subseteq Events, interrupts' \in Nat,
           \/ audit_logs' = audit_logs
           \/ audit_logs' = Visible(p) /\ pc[p] = "chaining"
    PROVE  ChainInv'
<1> USE DEF ChainInv
<1>1. /\ pc' = [pc EXCEPT ![p] = "sleeping"]
      /\ batch' = [batch EXCEPT ![p] = {}]
      /\ inserted' = [inserted EXCEPT ![p] = <<>>]
      /\ chain_lock' = IF chain_lock = p THEN NoOne ELSE chain_lock
  BY DEF EndPass
<1>2. audit_logs' \in Seq(AuditLog)
  <2>1. Visible(p) \in Seq(AuditLog)
    BY DEF Visible, TypeOK
  <2> QED
    BY <2>1 DEF TypeOK
<1>3. TypeOK'
  <2>1. inserted' \in [Promoters -> Seq(AuditLog)]
    BY <1>1 DEF TypeOK
  <2>2. chain_lock' \in {q \in Promoters : pc'[q] = "chaining"} \cup {NoOne}
    BY <1>1, PromoterAssumption DEF TypeOK
  <2> QED
    BY <1>1, <1>2, <2>1, <2>2 DEF TypeOK, requestVars, PromoterStates
<1>4. LockInv'
  BY <1>1, PromoterAssumption DEF LockInv, TypeOK
<1>5. Linked(audit_logs')
  OBVIOUS
<1>6. ASSUME NEW q \in Promoters PROVE Linked(Visible(q)')
  <2>1. CASE inserted'[q] = <<>>
    <3>1. Visible(q)' = audit_logs'
      BY <1>2, <2>1 DEF Visible
    <3> QED
      BY <1>5, <3>1
  <2>2. CASE inserted'[q] # <<>>
    <3>1. q # p /\ pc[q] = "chaining"
      BY <1>1, <2>2 DEF TypeOK, LockInv
    <3>2. pc[p] # "chaining"
      BY <3>1 DEF LockInv
    <3>3. Visible(q)' = Visible(q)
      BY <1>1, <3>1, <3>2 DEF Visible, TypeOK
    <3> QED
      BY <3>3
  <2> QED
    BY <2>1, <2>2
<1> QED
  BY <1>3, <1>4, <1>5, <1>6

(* The requests touch neither the chain nor the promoters.                 *)
LEMMA RequestStepChainInv ==
    ASSUME ChainInv, NEW e \in Events, RequestStep(e)
    PROVE  ChainInv'
<1>1. UNCHANGED <<audit_logs, promoterVars, interrupts>>
  BY DEF RequestStep, Act, Stamp, WriteIntent, LoseIntent
<1>2. /\ stage' \in [Events -> Stages]
      /\ clock' \in Nat
      /\ created_at' \in [Events -> Nat]
      /\ intents' \subseteq Events
  <2>1. CASE Act(e) \/ LoseIntent(e)
    BY <2>1 DEF Act, LoseIntent, ChainInv, TypeOK, Stages
  <2>2. CASE Stamp(e)
    BY <2>2 DEF Stamp, ChainInv, TypeOK, Stages
  <2>3. CASE WriteIntent(e)
    BY <2>3 DEF WriteIntent, ChainInv, TypeOK, Stages
  <2> QED
    BY <2>1, <2>2, <2>3 DEF RequestStep
<1>3. TypeOK'
  BY <1>1, <1>2 DEF ChainInv, TypeOK, promoterVars
<1> QED
  BY <1>1, <1>3 DEF ChainInv, LockInv, Visible, promoterVars

LEMMA NextChainInv == ChainInv /\ [Next]_vars => ChainInv'
<1> SUFFICES ASSUME ChainInv, [Next]_vars PROVE ChainInv'
  OBVIOUS
<1>1. ASSUME NEW e \in Events, RequestStep(e) PROVE ChainInv'
  BY <1>1, RequestStepChainInv
<1>2. ASSUME NEW p \in Promoters, Wake(p) PROVE ChainInv'
  <2>1. TypeOK'
    BY <1>2 DEF ChainInv, TypeOK, Wake, PromoterStates, requestVars
  <2>2. LockInv'
    BY <1>2 DEF ChainInv, LockInv, TypeOK, Wake
  <2> QED
    BY <1>2, <2>1, <2>2 DEF ChainInv, Wake, Visible
<1>3. ASSUME NEW p \in Promoters, SessionMissing(p) \/ OutboxEmpty(p) \/ RejectBatch(p)
      PROVE  ChainInv'
  BY <1>3, EndPassChainInv
     DEF SessionMissing, OutboxEmpty, RejectBatch, ChainInv, TypeOK
<1>4. ASSUME NEW p \in Promoters, FetchBatch(p) PROVE ChainInv'
  <2>1. Oldest(intents) \subseteq Events
    BY DEF Oldest, ChainInv, TypeOK
  <2>2. TypeOK'
    BY <1>4, <2>1 DEF ChainInv, TypeOK, FetchBatch, PromoterStates, requestVars
  <2>3. LockInv'
    BY <1>4 DEF ChainInv, LockInv, TypeOK, FetchBatch
  <2> QED
    BY <1>4, <2>2, <2>3 DEF ChainInv, FetchBatch, Visible
<1>5. ASSUME NEW p \in Promoters, AcquireChainLock(p) PROVE ChainInv'
  <2>1. \A q \in Promoters : pc[q] # "chaining"
    BY <1>5, PromoterAssumption DEF AcquireChainLock, ChainInv, LockInv
  <2>2. TypeOK'
    BY <1>5 DEF ChainInv, TypeOK, AcquireChainLock, PromoterStates, requestVars
  <2>3. LockInv'
    BY <1>5, <2>1 DEF ChainInv, LockInv, TypeOK, AcquireChainLock
  <2> QED
    BY <1>5, <2>2, <2>3 DEF ChainInv, AcquireChainLock, Visible
<1>6. ASSUME NEW p \in Promoters, ChainEntry(p) PROVE ChainInv'
  <2>1. PICK e \in Unchained(p) :
            inserted' = [inserted EXCEPT ![p] = Append(@, ChainedEntry(Visible(p), e))]
    BY <1>6 DEF ChainEntry
  <2>2. /\ e \in Events
        /\ Visible(p) \in Seq(AuditLog)
        /\ inserted[p] \in Seq(AuditLog)
        /\ audit_logs \in Seq(AuditLog)
        /\ created_at \in [Events -> Nat]
    BY DEF ChainInv, TypeOK, Unchained, Visible
  <2> DEFINE row == ChainedEntry(Visible(p), e)
  <2>3. row \in AuditLog /\ Linked(Append(Visible(p), row))
    BY <2>2, ExtendLinked DEF ChainInv
  <2> HIDE DEF row
  <2>4. /\ inserted' = [inserted EXCEPT ![p] = Append(inserted[p], row)]
        /\ inserted'[p] = Append(inserted[p], row)
        /\ \A q \in Promoters \ {p} : inserted'[q] = inserted[q]
    BY <2>1 DEF row, ChainInv, TypeOK
  <2>5. UNCHANGED <<requestVars, intents, audit_logs, pc, batch, chain_lock, interrupts>>
    BY <1>6 DEF ChainEntry
  <2>6. TypeOK'
    BY <2>2, <2>3, <2>4, <2>5 DEF ChainInv, TypeOK, requestVars
  <2>7. LockInv'
    BY <1>6, <2>4, <2>5 DEF ChainEntry, ChainInv, LockInv
  <2>8. audit_logs \o Append(inserted[p], row) = Append(Visible(p), row)
    BY <2>2, <2>3 DEF Visible
  <2>9. \A q \in Promoters : Linked(Visible(q)')
    BY <2>3, <2>4, <2>5, <2>8 DEF ChainInv, Visible
  <2> QED
    BY <2>5, <2>6, <2>7, <2>9 DEF ChainInv
<1>7. ASSUME NEW p \in Promoters, CommitBatch(p) PROVE ChainInv'
  BY <1>7, EndPassChainInv DEF CommitBatch, ChainInv, TypeOK
<1>8. ASSUME NEW p \in Promoters, Interrupt(p) PROVE ChainInv'
  BY <1>8, EndPassChainInv DEF Interrupt, ChainInv, TypeOK
<1>9. CASE UNCHANGED vars
  BY <1>9 DEF vars, ChainInv, TypeOK, LockInv, Visible
<1> QED
  BY <1>1, <1>2, <1>3, <1>4, <1>5, <1>6, <1>7, <1>8, <1>9 DEF Next, PromoterStep

(* ChainInv holds in every state, with any number of promoters, whatever   *)
(* interleaving of their statements and whatever is cancelled.             *)
THEOREM ChainInvariance == Spec => []ChainInv
  BY InitChainInv, NextChainInv, PTL DEF Spec

(* TypeOK is an invariant: in particular the advisory lock always belongs  *)
(* to nobody or to a promoter inside its transaction.                      *)
THEOREM TypeCorrect == Spec => []TypeOK
<1>1. ChainInv => TypeOK
  BY DEF ChainInv
<1> QED
  BY <1>1, ChainInvariance, PTL

(* The verifier never finds a problem: promote_audit_intents keeps the     *)
(* chain linear and sealed, because the tip is read under the lock.        *)
THEOREM ChainVerifies == Spec => []VerifyClean
<1>1. ChainInv => VerifyClean
  <2> SUFFICES ASSUME ChainInv, NEW i \in 1..Len(audit_logs),
                      NEW prev_hash \in WalkedHashes(i)
               PROVE  /\ audit_logs[i].prev_hash = prev_hash
                      /\ audit_logs[i].entry_hash =
                            entry_digest(prev_hash, chain_fields(audit_logs[i]))
    BY DEF VerifyClean
  <2>1. Len(audit_logs) \in Nat /\ \A j \in 1..Len(audit_logs) : audit_logs[j].seq = j
    BY DEF ChainInv, TypeOK, Linked
  <2>2. \A j \in Preceding(i) : i # 1 /\ j = i - 1
    <3> SUFFICES ASSUME NEW j \in Preceding(i) PROVE i # 1 /\ j = i - 1
      OBVIOUS
    <3>1. j \in 1..Len(audit_logs) /\ j # i /\ audit_logs[j].seq <= audit_logs[i].seq
      BY DEF Preceding
    <3>2. j < i
      BY <2>1, <3>1
    <3>3. i - 1 \in 1..Len(audit_logs) \ {i}
      BY <2>1, <3>1, <3>2
    <3>4. ~(audit_logs[j].seq < audit_logs[i - 1].seq /\ audit_logs[i - 1].seq < audit_logs[i].seq)
      BY <3>3 DEF Preceding
    <3> QED
      BY <2>1, <3>1, <3>2, <3>3, <3>4
  <2>3. prev_hash = PrevHash(audit_logs, i)
    <3>1. CASE \E j \in Preceding(i) : prev_hash = audit_logs[j].entry_hash
      BY <2>2, <3>1 DEF PrevHash
    <3>2. CASE /\ prev_hash = <<>>
               /\ \A j \in 1..Len(audit_logs) : audit_logs[j].seq >= audit_logs[i].seq
      <4>1. 1 \in 1..Len(audit_logs) /\ audit_logs[1].seq >= audit_logs[i].seq
        BY <2>1, <3>2
      <4>2. i = 1
        BY <2>1, <4>1
      <4> QED
        BY <3>2, <4>2 DEF PrevHash
    <3> QED
      BY <3>1, <3>2 DEF WalkedHashes
  <2> QED
    BY <2>3 DEF ChainInv, Linked
<1> QED
  BY <1>1, ChainInvariance, PTL

-----------------------------------------------------------------------------
(* Promotion loses nothing.                                                *)

Written == {e \in Events : stage[e] = "intended"}

EventsOf(rows) == {rows[i].event : i \in 1..Len(rows)}

(* The batches and the entries made of them stem from durable intents.     *)
AccountInv ==
    /\ EvidenceAccounted
    /\ \A p \in Promoters :
        /\ batch[p] \subseteq Written
        /\ EventsOf(inserted[p]) \subseteq batch[p]

LEMMA EventsOfConcat ==
    ASSUME NEW s \in Seq(AuditLog), NEW t \in Seq(AuditLog)
    PROVE  EventsOf(s \o t) = EventsOf(s) \cup EventsOf(t)
<1> DEFINE st == s \o t
<1>1. Len(st) = Len(s) + Len(t) /\ Len(s) \in Nat /\ Len(t) \in Nat
  OBVIOUS
<1>2. \A i \in 1..Len(st) : st[i] = IF i <= Len(s) THEN s[i] ELSE t[i - Len(s)]
  OBVIOUS
<1>3. \A i \in 1..Len(s) : i \in 1..Len(st) /\ st[i] = s[i]
  BY <1>1, <1>2
<1>4. \A i \in 1..Len(t) : i + Len(s) \in 1..Len(st) /\ st[i + Len(s)] = t[i]
  BY <1>1, <1>2
<1>5. \A i \in 1..Len(st) :
        \/ i \in 1..Len(s) /\ st[i] = s[i]
        \/ i - Len(s) \in 1..Len(t) /\ st[i] = t[i - Len(s)]
  BY <1>1, <1>2
<1> HIDE DEF st
<1>6. ASSUME NEW x \in EventsOf(st) PROVE x \in EventsOf(s) \cup EventsOf(t)
  <2>1. PICK i \in 1..Len(st) : x = st[i].event
    BY DEF EventsOf
  <2> QED
    BY <1>5, <2>1 DEF EventsOf
<1>7. ASSUME NEW x \in EventsOf(s) PROVE x \in EventsOf(st)
  BY <1>3 DEF EventsOf
<1>8. ASSUME NEW x \in EventsOf(t) PROVE x \in EventsOf(st)
  BY <1>4 DEF EventsOf
<1> QED
  BY <1>6, <1>7, <1>8 DEF st

LEMMA EventsOfAppend ==
    ASSUME NEW s \in Seq(AuditLog), NEW row \in AuditLog
    PROVE  EventsOf(Append(s, row)) = EventsOf(s) \cup {row.event}
<1>1. <<row>> \in Seq(AuditLog) /\ Append(s, row) = s \o <<row>>
  OBVIOUS
<1>2. EventsOf(<<row>>) = {row.event}
  BY DEF EventsOf
<1> QED
  BY <1>1, <1>2, EventsOfConcat

LEMMA InitAccountInv == Init => AccountInv
<1> SUFFICES ASSUME Init PROVE AccountInv
  OBVIOUS
<1>1. EventsOf(<<>>) = {}
  BY DEF EventsOf
<1> QED
  BY <1>1 DEF Init, AccountInv, EvidenceAccounted, Evidenced, Written, EventsOf

(* What a chained entry adds to its transaction.                           *)
LEMMA ChainEntryInserts ==
    ASSUME ChainInv, NEW p \in Promoters, ChainEntry(p)
    PROVE  \E e \in Unchained(p), row \in AuditLog :
              /\ row.event = e
              /\ inserted' = [inserted EXCEPT ![p] = Append(inserted[p], row)]
              /\ inserted'[p] = Append(inserted[p], row)
              /\ EventsOf(inserted'[p]) = EventsOf(inserted[p]) \cup {e}
              /\ \A q \in Promoters \ {p} : inserted'[q] = inserted[q]
<1>1. PICK e \in Unchained(p) :
        inserted' = [inserted EXCEPT ![p] = Append(@, ChainedEntry(Visible(p), e))]
  BY DEF ChainEntry
<1>2. /\ e \in Events
      /\ Visible(p) \in Seq(AuditLog)
      /\ inserted \in [Promoters -> Seq(AuditLog)]
      /\ created_at \in [Events -> Nat]
  BY DEF ChainInv, TypeOK, Unchained, Visible
<1> DEFINE row == ChainedEntry(Visible(p), e)
<1>3. row \in AuditLog /\ row.event = e
  BY <1>2, ExtendLinked DEF ChainInv
<1> HIDE DEF row
<1>4. /\ inserted' = [inserted EXCEPT ![p] = Append(inserted[p], row)]
      /\ inserted'[p] = Append(inserted[p], row)
      /\ \A q \in Promoters \ {p} : inserted'[q] = inserted[q]
  BY <1>1, <1>2 DEF row
<1>5. EventsOf(inserted'[p]) = EventsOf(inserted[p]) \cup {e}
  BY <1>2, <1>3, <1>4, EventsOfAppend
<1> QED
  BY <1>3, <1>4, <1>5

LEMMA NextAccountInv == ChainInv /\ AccountInv /\ [Next]_vars => AccountInv'
<1> SUFFICES ASSUME ChainInv, AccountInv, [Next]_vars PROVE AccountInv'
  OBVIOUS
<1>0. EventsOf(<<>>) = {} /\ Evidenced = EventsOf(audit_logs)
  BY DEF EventsOf, Evidenced
<1>1. ASSUME NEW e \in Events, Act(e) \/ Stamp(e) \/ LoseIntent(e) PROVE AccountInv'
  <2>1. UNCHANGED <<intents, audit_logs, batch, inserted>> /\ Written' = Written
    BY <1>1 DEF Act, Stamp, LoseIntent, promoterVars, Written, ChainInv, TypeOK
  <2> QED
    BY <2>1 DEF AccountInv, EvidenceAccounted, Evidenced, Written, EventsOf
<1>2. ASSUME NEW e \in Events, WriteIntent(e) PROVE AccountInv'
  <2>1. /\ UNCHANGED <<audit_logs, batch, inserted>>
        /\ intents' = intents \cup {e}
        /\ Written' = Written \cup {e}
    BY <1>2 DEF WriteIntent, promoterVars, Written, ChainInv, TypeOK
  <2> QED
    BY <2>1 DEF AccountInv, EvidenceAccounted, Evidenced, Written, EventsOf
<1>3. ASSUME NEW p \in Promoters, Wake(p) \/ AcquireChainLock(p) PROVE AccountInv'
  BY <1>3 DEF Wake, AcquireChainLock, AccountInv, requestVars, EvidenceAccounted,
              Evidenced, Written, EventsOf
<1>4. ASSUME NEW p \in Promoters, FetchBatch(p) PROVE AccountInv'
  <2>1. inserted[p] = <<>>
    BY <1>4 DEF FetchBatch, ChainInv, LockInv
  <2>2. Oldest(intents) \subseteq Written
    BY DEF Oldest, AccountInv, EvidenceAccounted, Written
  <2>3. batch' = [batch EXCEPT ![p] = Oldest(intents)] /\ batch \in [Promoters -> SUBSET Events]
    BY <1>4 DEF FetchBatch, ChainInv, TypeOK
  <2>4. UNCHANGED <<stage, intents, audit_logs, inserted>>
    BY <1>4 DEF FetchBatch, requestVars
  <2>5. \A q \in Promoters : EventsOf(inserted[q]) \subseteq batch'[q] /\ batch'[q] \subseteq Written
    BY <1>0, <2>1, <2>2, <2>3 DEF AccountInv
  <2> QED
    BY <2>4, <2>5 DEF AccountInv, EvidenceAccounted, Evidenced, Written, EventsOf
<1>5. ASSUME NEW p \in Promoters, ChainEntry(p) PROVE AccountInv'
  <2>1. PICK e \in Unchained(p) :
          /\ EventsOf(inserted'[p]) = EventsOf(inserted[p]) \cup {e}
          /\ \A q \in Promoters \ {p} : inserted'[q] = inserted[q]
    BY <1>5, ChainEntryInserts
  <2>2. e \in batch[p]
    BY DEF Unchained
  <2>3. UNCHANGED <<stage, intents, audit_logs, batch>>
    BY <1>5 DEF ChainEntry, requestVars
  <2>4. \A q \in Promoters : EventsOf(inserted'[q]) \subseteq batch[q]
    BY <2>1, <2>2 DEF AccountInv
  <2> QED
    BY <2>3, <2>4 DEF AccountInv, EvidenceAccounted, Evidenced, Written, EventsOf
<1>6. ASSUME NEW p \in Promoters, EndPass(p), UNCHANGED stage, EvidenceAccounted'
      PROVE  AccountInv'
  <2>1. /\ batch' = [batch EXCEPT ![p] = {}]
        /\ inserted' = [inserted EXCEPT ![p] = <<>>]
    BY <1>6 DEF EndPass
  <2>2. batch \in [Promoters -> SUBSET Events] /\ inserted \in [Promoters -> Seq(AuditLog)]
    BY DEF ChainInv, TypeOK
  <2>3. Written' = Written
    BY <1>6 DEF Written
  <2>4. \A q \in Promoters : /\ batch'[q] \subseteq Written
                            /\ EventsOf(inserted'[q]) \subseteq batch'[q]
    BY <1>0, <2>1, <2>2 DEF AccountInv
  <2> QED
    BY <1>6, <2>3, <2>4 DEF AccountInv, EventsOf
<1>7. ASSUME NEW p \in Promoters,
             SessionMissing(p) \/ OutboxEmpty(p) \/ RejectBatch(p) \/ Interrupt(p)
      PROVE  AccountInv'
  <2>1. EndPass(p) /\ UNCHANGED <<stage, intents, audit_logs>>
    BY <1>7 DEF SessionMissing, OutboxEmpty, RejectBatch, Interrupt, requestVars
  <2>2. EvidenceAccounted'
    BY <2>1 DEF AccountInv, EvidenceAccounted, Evidenced
  <2> QED
    BY <1>6, <2>1, <2>2
<1>8. ASSUME NEW p \in Promoters, CommitBatch(p) PROVE AccountInv'
  <2>1. /\ EndPass(p) /\ UNCHANGED stage
        /\ audit_logs' = audit_logs \o inserted[p]
        /\ intents' = intents \ batch[p]
        /\ Unchained(p) = {}
    BY <1>8 DEF CommitBatch, requestVars, Visible
  <2>2. batch[p] = EventsOf(inserted[p])
    BY <2>1 DEF Unchained, AccountInv, EventsOf
  <2>3. EventsOf(audit_logs') = Evidenced \cup batch[p]
    BY <1>0, <2>1, <2>2, EventsOfConcat DEF ChainInv, TypeOK
  <2>4. Evidenced' = Evidenced \cup batch[p]
    BY <2>3 DEF Evidenced, EventsOf
  <2>5. EvidenceAccounted'
    BY <2>1, <2>4 DEF AccountInv, EvidenceAccounted, Written
  <2> QED
    BY <1>6, <2>1, <2>5
<1>9. CASE UNCHANGED vars
  BY <1>9 DEF vars, AccountInv, EvidenceAccounted, Evidenced, Written, EventsOf
<1> QED
  BY <1>1, <1>2, <1>3, <1>4, <1>5, <1>7, <1>8, <1>9 DEF Next, RequestStep, PromoterStep

(* No durable intent is ever lost and no evidence appears from nowhere,    *)
(* for any number of promoters racing over the same intents.               *)
THEOREM NothingLost == Spec => []EvidenceAccounted
<1>1. Spec => []AccountInv
  BY InitAccountInv, NextAccountInv, ChainInvariance, PTL DEF Spec
<1>2. AccountInv => EvidenceAccounted
  BY DEF AccountInv
<1> QED
  BY <1>1, <1>2, PTL

-----------------------------------------------------------------------------
(* One promoter at most is bound to a session: the guarantee that races    *)
(* over the same batch take away.                                          *)

OnePromoter == \A p, q \in SessionBound : p = q

Distinct(rows) ==
    \A i, j \in 1..Len(rows) : rows[i].event = rows[j].event => i = j

(* What the promoter has read stays in the outbox until it commits.        *)
SingleInv ==
    /\ Distinct(audit_logs)
    /\ intents \cap EventsOf(audit_logs) = {}
    /\ \A p \in Promoters :
        /\ p \notin SessionBound => pc[p] \in {"sleeping", "passing"} /\ batch[p] = {}
        /\ batch[p] \subseteq intents
        /\ Distinct(inserted[p])

LEMMA DistinctConcat ==
    ASSUME NEW s \in Seq(AuditLog), NEW t \in Seq(AuditLog),
           Distinct(s), Distinct(t), EventsOf(s) \cap EventsOf(t) = {}
    PROVE  Distinct(s \o t)
<1> DEFINE st == s \o t
<1>1. Len(st) = Len(s) + Len(t) /\ Len(s) \in Nat /\ Len(t) \in Nat
  OBVIOUS
<1>2. \A i \in 1..Len(st) : st[i] = IF i <= Len(s) THEN s[i] ELSE t[i - Len(s)]
  OBVIOUS
<1>3. \A i \in 1..Len(st) :
        \/ i \in 1..Len(s) /\ st[i] = s[i]
        \/ i - Len(s) \in 1..Len(t) /\ st[i] = t[i - Len(s)] /\ i > Len(s)
  BY <1>1, <1>2
<1> HIDE DEF st
<1>4. SUFFICES ASSUME NEW i \in 1..Len(st), NEW j \in 1..Len(st),
                      st[i].event = st[j].event
               PROVE  i = j
  BY DEF Distinct, st
<1>5. \A k \in 1..Len(s), l \in 1..Len(t) : s[k].event # t[l].event
  BY DEF EventsOf
<1>6. CASE i \in 1..Len(s) /\ j \in 1..Len(s)
  BY <1>1, <1>3, <1>4, <1>6 DEF Distinct
<1>7. CASE i \notin 1..Len(s) /\ j \notin 1..Len(s)
  <2>1. i - Len(s) = j - Len(s)
    BY <1>3, <1>4, <1>7 DEF Distinct
  <2> QED
    BY <1>1, <2>1
<1>8. CASE i \in 1..Len(s) /\ j \notin 1..Len(s)
  BY <1>1, <1>3, <1>4, <1>5, <1>8
<1>9. CASE i \notin 1..Len(s) /\ j \in 1..Len(s)
  BY <1>1, <1>3, <1>4, <1>5, <1>9
<1> QED
  BY <1>6, <1>7, <1>8, <1>9

LEMMA InitSingleInv == Init => SingleInv
<1> SUFFICES ASSUME Init PROVE SingleInv
  OBVIOUS
<1>1. Distinct(<<>>) /\ EventsOf(<<>>) = {}
  BY DEF Distinct, EventsOf
<1> QED
  BY <1>1 DEF Init, SingleInv

LEMMA NextSingleInv ==
    ASSUME BatchesApart, ChainInv, AccountInv, SingleInv, [Next]_vars
    PROVE  SingleInv'
<1>0. Distinct(<<>>) /\ EventsOf(<<>>) = {} /\ Evidenced = EventsOf(audit_logs)
  BY DEF Distinct, EventsOf, Evidenced
<1>1. ASSUME NEW e \in Events, Act(e) \/ Stamp(e) \/ LoseIntent(e) PROVE SingleInv'
  BY <1>1 DEF Act, Stamp, LoseIntent, promoterVars, SingleInv, Distinct, EventsOf
<1>2. ASSUME NEW e \in Events, WriteIntent(e) PROVE SingleInv'
  <2>1. e \notin EventsOf(audit_logs)
    BY <1>0, <1>2 DEF WriteIntent, AccountInv, EvidenceAccounted
  <2> QED
    BY <1>2, <2>1 DEF WriteIntent, promoterVars, SingleInv, Distinct, EventsOf
<1>3. ASSUME NEW p \in Promoters, Wake(p) \/ AcquireChainLock(p) PROVE SingleInv'
  <2>1. UNCHANGED <<intents, audit_logs, batch, inserted>>
    BY <1>3 DEF Wake, AcquireChainLock
  <2>2. \A q \in Promoters : q \notin SessionBound => pc'[q] \in {"sleeping", "passing"}
    BY <1>3 DEF Wake, AcquireChainLock, SingleInv, ChainInv, TypeOK
  <2> QED
    BY <2>1, <2>2 DEF SingleInv, Distinct, EventsOf
<1>4. ASSUME NEW p \in Promoters, FetchBatch(p) PROVE SingleInv'
  <2>1. Oldest(intents) \subseteq intents
    BY DEF Oldest
  <2>2. /\ batch' = [batch EXCEPT ![p] = Oldest(intents)]
        /\ pc' = [pc EXCEPT ![p] = "fetched"]
        /\ p \in SessionBound
        /\ UNCHANGED <<intents, audit_logs, inserted>>
    BY <1>4 DEF FetchBatch
  <2>3. \A q \in Promoters :
          /\ q \notin SessionBound => pc'[q] = pc[q] /\ batch'[q] = batch[q]
          /\ batch'[q] \subseteq intents
    BY <2>1, <2>2 DEF SingleInv, ChainInv, TypeOK
  <2> QED
    BY <2>2, <2>3 DEF SingleInv, Distinct, EventsOf
<1>5. ASSUME NEW p \in Promoters, ChainEntry(p) PROVE SingleInv'
  <2>1. PICK e \in Unchained(p), row \in AuditLog :
          /\ row.event = e
          /\ inserted'[p] = Append(inserted[p], row)
          /\ \A q \in Promoters \ {p} : inserted'[q] = inserted[q]
    BY <1>5, ChainEntryInserts
  <2>2. inserted[p] \in Seq(AuditLog)
    BY DEF ChainInv, TypeOK
  <2>3. row.event \notin EventsOf(inserted[p])
    BY <2>1 DEF Unchained, EventsOf
  <2>4. Distinct(inserted'[p])
    BY <2>1, <2>2, <2>3 DEF SingleInv, Distinct, EventsOf
  <2>5. UNCHANGED <<intents, audit_logs, batch, pc>>
    BY <1>5 DEF ChainEntry
  <2>6. \A q \in Promoters : Distinct(inserted'[q])
    BY <2>1, <2>4 DEF SingleInv
  <2>7. Distinct(audit_logs') /\ intents' \cap EventsOf(audit_logs') = {}
    BY <2>5 DEF SingleInv
  <2>8. \A q \in Promoters :
          /\ q \notin SessionBound => pc'[q] \in {"sleeping", "passing"} /\ batch'[q] = {}
          /\ batch'[q] \subseteq intents'
    BY <2>5 DEF SingleInv
  <2> QED
    BY <2>6, <2>7, <2>8 DEF SingleInv, Distinct, EventsOf
<1>6. ASSUME NEW p \in Promoters, EndPass(p),
             Distinct(audit_logs'), intents' \cap EventsOf(audit_logs') = {},
             \A q \in Promoters \ {p} : batch[q] \subseteq intents'
      PROVE  SingleInv'
  <2>1. /\ pc' = [pc EXCEPT ![p] = "sleeping"]
        /\ batch' = [batch EXCEPT ![p] = {}]
        /\ inserted' = [inserted EXCEPT ![p] = <<>>]
    BY <1>6 DEF EndPass
  <2>2. \A q \in Promoters :
          /\ q \notin SessionBound => pc'[q] \in {"sleeping", "passing"} /\ batch'[q] = {}
          /\ batch'[q] \subseteq intents'
          /\ Distinct(inserted'[q])
    BY <1>0, <1>6, <2>1 DEF SingleInv, ChainInv, TypeOK
  <2> QED
    BY <1>6, <2>2 DEF SingleInv, Distinct, EventsOf
<1>7. ASSUME NEW p \in Promoters,
             SessionMissing(p) \/ OutboxEmpty(p) \/ RejectBatch(p) \/ Interrupt(p)
      PROVE  SingleInv'
  <2>1. EndPass(p) /\ UNCHANGED <<intents, audit_logs>>
    BY <1>7 DEF SessionMissing, OutboxEmpty, RejectBatch, Interrupt
  <2> QED
    BY <1>6, <2>1 DEF SingleInv
<1>8. ASSUME NEW p \in Promoters, CommitBatch(p) PROVE SingleInv'
  <2>1. /\ EndPass(p)
        /\ audit_logs' = audit_logs \o inserted[p]
        /\ intents' = intents \ batch[p]
        /\ Unchained(p) = {}
        /\ pc[p] = "chaining"
    BY <1>8 DEF CommitBatch, Visible
  <2>2. batch[p] = EventsOf(inserted[p])
    BY <2>1 DEF Unchained, AccountInv, EventsOf
  <2>3. audit_logs \in Seq(AuditLog) /\ inserted[p] \in Seq(AuditLog)
    BY DEF ChainInv, TypeOK
  <2>4. EventsOf(audit_logs') = EventsOf(audit_logs) \cup batch[p]
    BY <2>1, <2>2, <2>3, EventsOfConcat
  <2>5. Distinct(audit_logs')
    BY <2>1, <2>2, <2>3, DistinctConcat DEF SingleInv
  <2>6. \A q \in Promoters \ {p} : batch[q] \subseteq intents \ batch[p]
    BY DEF SingleInv, BatchesApart
  <2> QED
    BY <1>6, <2>1, <2>4, <2>5, <2>6 DEF SingleInv
<1>9. CASE UNCHANGED vars
  BY <1>9 DEF vars, SingleInv, Distinct, EventsOf
<1> QED
  BY <1>1, <1>2, <1>3, <1>4, <1>5, <1>7, <1>8, <1>9 DEF Next, RequestStep, PromoterStep

LEMMA SingleInvariance == Spec /\ []BatchesApart => []SingleInv
<1>1. BatchesApart /\ ChainInv /\ AccountInv /\ SingleInv /\ [Next]_vars => SingleInv'
  BY NextSingleInv
<1> QED
  BY <1>1, InitSingleInv, InitAccountInv, NextAccountInv, ChainInvariance, PTL DEF Spec

(* However many promoters there are, evidence is not duplicated as long as *)
(* no two of them hold the same event in their batches: a crash, a         *)
(* rollback or a cancelled pass retries a batch without duplicating any    *)
(* event.                                                                  *)
THEOREM BatchesApartNeverDuplicate ==
    Spec /\ []BatchesApart => []OneRowPerAction
<1>1. SingleInv => OneRowPerAction
  BY DEF SingleInv, OneRowPerAction, Distinct, EventsOf, Evidenced
<1> QED
  BY <1>1, SingleInvariance, PTL

(* A single promoter with a session, which is what the code starts, shares *)
(* no batch with anybody: a promoter without one never reads any.          *)
LEMMA OnePromoterKeepsApart == ASSUME OnePromoter PROVE Spec => []BatchesApart
<1> DEFINE Bound == \A p \in Promoters : batch[p] # {} => p \in SessionBound
<1>1. Init => Bound
  BY DEF Init
<1>2. ChainInv /\ Bound /\ [Next]_vars => Bound'
  <2> SUFFICES ASSUME ChainInv, Bound, [Next]_vars PROVE Bound'
    OBVIOUS
  <2>0. batch \in [Promoters -> SUBSET Events]
    BY DEF ChainInv, TypeOK
  <2>1. ASSUME NEW p \in Promoters, FetchBatch(p) PROVE Bound'
    BY <2>0, <2>1 DEF FetchBatch
  <2>2. ASSUME NEW p \in Promoters, EndPass(p) PROVE Bound'
    BY <2>0, <2>2 DEF EndPass
  <2>3. CASE UNCHANGED batch
    BY <2>3
  <2>4. \/ UNCHANGED batch
        \/ \E p \in Promoters : FetchBatch(p) \/ EndPass(p)
    BY DEF Next, RequestStep, Act, Stamp, WriteIntent, LoseIntent, promoterVars, PromoterStep,
       Wake, SessionMissing, OutboxEmpty, AcquireChainLock, ChainEntry, CommitBatch,
       RejectBatch, Interrupt, vars
  <2> QED
    BY <2>1, <2>2, <2>3, <2>4
<1>3. Bound => BatchesApart
  BY DEF OnePromoter, BatchesApart
<1> QED
  BY <1>1, <1>2, <1>3, ChainInvariance, PTL DEF Spec

(* With one promoter, evidence is never duplicated.                        *)
THEOREM OnePromoterNeverDuplicates ==
    ASSUME OnePromoter PROVE Spec => []OneRowPerAction
BY OnePromoterKeepsApart, BatchesApartNeverDuplicate, PTL

-----------------------------------------------------------------------------
(* The outbox implements the evidence log.                                 *)

EventSeq(rows) == [i \in 1..Len(rows) |-> rows[i].event]

LEMMA EventSeqType ==
    ASSUME NEW rows \in Seq(AuditLog)
    PROVE  /\ EventSeq(rows) \in Seq(Events)
           /\ Len(EventSeq(rows)) = Len(rows)
           /\ {EventSeq(rows)[i] : i \in 1..Len(EventSeq(rows))} = EventsOf(rows)
<1>1. Len(rows) \in Nat /\ \A i \in 1..Len(rows) : rows[i].event \in Events
  <2>1. Len(rows) \in Nat /\ \A i \in 1..Len(rows) : rows[i] \in AuditLog
    OBVIOUS
  <2> QED
    BY <2>1 DEF AuditLog
<1>2. EventSeq(rows) \in Seq(Events) /\ Len(EventSeq(rows)) = Len(rows)
  BY <1>1 DEF EventSeq
<1> QED
  BY <1>2 DEF EventSeq, EventsOf

LEMMA EventSeqConcat ==
    ASSUME NEW s \in Seq(AuditLog), NEW t \in Seq(AuditLog)
    PROVE  EventSeq(s \o t) = EventSeq(s) \o EventSeq(t)
<1> DEFINE st == s \o t
           left == EventSeq(st)
           right == EventSeq(s) \o EventSeq(t)
<1>1. /\ st \in Seq(AuditLog) /\ Len(st) = Len(s) + Len(t)
      /\ Len(s) \in Nat /\ Len(t) \in Nat
      /\ \A i \in 1..Len(st) : st[i] = IF i <= Len(s) THEN s[i] ELSE t[i - Len(s)]
  OBVIOUS
<1> HIDE DEF st
<1>2. /\ EventSeq(s) \in Seq(Events) /\ Len(EventSeq(s)) = Len(s)
      /\ EventSeq(t) \in Seq(Events) /\ Len(EventSeq(t)) = Len(t)
      /\ left \in Seq(Events) /\ Len(left) = Len(st)
  BY <1>1, EventSeqType
<1>3. /\ right \in Seq(Events) /\ Len(right) = Len(st)
      /\ \A i \in 1..Len(st) :
            right[i] = IF i <= Len(s) THEN EventSeq(s)[i] ELSE EventSeq(t)[i - Len(s)]
  <2>1. ASSUME NEW a \in Seq(Events), NEW b \in Seq(Events)
        PROVE  /\ a \o b \in Seq(Events) /\ Len(a \o b) = Len(a) + Len(b)
               /\ \A i \in 1..(Len(a) + Len(b)) :
                    (a \o b)[i] = IF i <= Len(a) THEN a[i] ELSE b[i - Len(a)]
    OBVIOUS
  <2> DEFINE es == EventSeq(s)
             et == EventSeq(t)
  <2>2. es \in Seq(Events) /\ et \in Seq(Events) /\ Len(es) = Len(s) /\ Len(et) = Len(t)
    BY <1>2
  <2> HIDE DEF es, et
  <2>3. /\ es \o et \in Seq(Events) /\ Len(es \o et) = Len(st)
        /\ \A i \in 1..Len(st) :
              (es \o et)[i] = IF i <= Len(s) THEN es[i] ELSE et[i - Len(s)]
    <3>1. /\ es \o et \in Seq(Events) /\ Len(es \o et) = Len(es) + Len(et)
          /\ \A i \in 1..(Len(es) + Len(et)) :
               (es \o et)[i] = IF i <= Len(es) THEN es[i] ELSE et[i - Len(es)]
      BY <2>1, <2>2, Zenon
    <3>2. Len(es) + Len(et) = Len(st)
      BY <1>1, <2>2
    <3> QED
      BY <3>1, <3>2, <2>2, Zenon
  <2> QED
    BY <2>3 DEF es, et
<1>4. \A i \in 1..Len(st) : left[i] = right[i]
  <2> SUFFICES ASSUME NEW i \in 1..Len(st) PROVE left[i] = right[i]
    OBVIOUS
  <2>1. left[i] = st[i].event
    BY DEF EventSeq
  <2>2. CASE i <= Len(s)
    <3>1. i \in 1..Len(s)
      BY <1>1, <2>2
    <3>2. EventSeq(s)[i] = s[i].event
      BY <3>1 DEF EventSeq
    <3> QED
      BY <1>1, <1>3, <2>1, <2>2, <3>2
  <2>3. CASE ~(i <= Len(s))
    <3>1. i - Len(s) \in 1..Len(t)
      BY <1>1, <2>3
    <3>2. EventSeq(t)[i - Len(s)] = t[i - Len(s)].event
      BY <3>1 DEF EventSeq
    <3> QED
      BY <1>1, <1>3, <2>1, <2>3, <3>2
  <2> QED
    BY <2>2, <2>3
<1> HIDE DEF left, right
<1>5. left = right
  <2>1. ASSUME NEW a \in Seq(Events), NEW b \in Seq(Events), Len(a) = Len(b),
               \A i \in 1..Len(a) : a[i] = b[i]
        PROVE  a = b
    BY <2>1
  <2> QED
    BY <1>2, <1>3, <1>4, <2>1
<1> QED
  BY <1>5 DEF left, right, st

(* Rows without a repetition are an ordering of their events.              *)
LEMMA EventSeqOrders ==
    ASSUME NEW rows \in Seq(AuditLog), Distinct(rows)
    PROVE  EventSeq(rows) \in Evidence!Orderings(EventsOf(rows))
<1> DEFINE n == Len(rows)
           s == EventSeq(rows)
<1>1. n \in Nat /\ s \in [1..n -> EventsOf(rows)]
  BY DEF EventSeq, EventsOf
<1>2. \A i, j \in 1..n : s[i] = s[j] => i = j
  BY DEF EventSeq, Distinct
<1>3. \A x \in EventsOf(rows) : \E i \in 1..n : s[i] = x
  BY DEF EventSeq, EventsOf
<1> HIDE DEF n, s
<1>4. s \in Bijection(1..n, EventsOf(rows))
  BY <1>1, <1>2, <1>3 DEF Bijection, Injection, IsInjective, Surjection
<1>5. Cardinality(EventsOf(rows)) = n
  BY <1>1, <1>4, FS_CountingElements DEF ExistsBijection
<1>6. Evidence!Orderings(EventsOf(rows)) =
        {f \in [1..n -> EventsOf(rows)] : \A i, j \in 1..n : f[i] = f[j] => i = j}
  <2>1. Evidence!Cardinality(EventsOf(rows)) = Cardinality(EventsOf(rows))
    BY DEF Evidence!Cardinality, Cardinality
  <2> QED
    BY <1>5, <2>1 DEF Evidence!Orderings
<1> QED
  BY <1>1, <1>2, <1>6 DEF s

LEMMA InitImplements == Init => Evidence!Init
  BY DEF Init, Evidence!Init, EventSeq

LEMMA NextImplements ==
    ASSUME BatchesApart, ChainInv, AccountInv, SingleInv, [Next]_vars
    PROVE  [Evidence!Next]_(Evidence!vars)
<1>0. /\ audit_logs \in Seq(AuditLog)
      /\ \A p \in Promoters : inserted[p] \in Seq(AuditLog) /\ batch[p] \subseteq intents
      /\ \A p \in Promoters : Distinct(inserted[p])
  BY DEF ChainInv, TypeOK, SingleInv
<1>1. CASE UNCHANGED <<intents, audit_logs>>
  BY <1>1 DEF Evidence!vars
<1>2. ASSUME NEW e \in Events, WriteIntent(e) PROVE Evidence!Accept(e)
  <2>1. e \notin intents \cup Evidenced
    BY <1>2 DEF WriteIntent, AccountInv, EvidenceAccounted
  <2>2. e \notin Evidence!Claimed
    <3>1. Evidence!Claimed = intents \cup EventsOf(audit_logs)
      BY <1>0, EventSeqType DEF Evidence!Claimed, EventSeq
    <3> QED
      BY <2>1, <3>1 DEF Evidenced, EventsOf
  <2>3. intents' = intents \cup {e} /\ audit_logs' = audit_logs
    BY <1>2 DEF WriteIntent
  <2> QED
    BY <2>2, <2>3 DEF Evidence!Accept
<1>3. ASSUME NEW p \in Promoters, CommitBatch(p)
      PROVE  Evidence!Forge \/ UNCHANGED <<intents, audit_logs>>
  <2>1. /\ audit_logs' = audit_logs \o inserted[p] /\ intents' = intents \ batch[p]
        /\ Unchained(p) = {}
    BY <1>3 DEF CommitBatch, Visible
  <2>2. batch[p] = EventsOf(inserted[p])
    BY <2>1 DEF Unchained, AccountInv, EventsOf
  <2>3. CASE batch[p] = {}
    <3>1. Len(inserted[p]) = 0
      <4>1. Len(inserted[p]) \in Nat
        BY <1>0
      <4>2. 1 \in 1..Len(inserted[p]) => inserted[p][1].event \in batch[p]
        BY <2>2 DEF EventsOf
      <4> QED
        BY <2>3, <4>1, <4>2
    <3>2. inserted[p] = <<>>
      BY <1>0, <3>1
    <3> QED
      BY <1>0, <2>1, <2>3, <3>2
  <2>4. CASE batch[p] # {}
    <3>1. EventSeq(inserted[p]) \in Evidence!Orderings(batch[p])
      BY <1>0, <2>2, EventSeqOrders
    <3>2. EventSeq(audit_logs') = EventSeq(audit_logs) \o EventSeq(inserted[p])
      BY <1>0, <2>1, EventSeqConcat
    <3>3. batch[p] \in (SUBSET intents) \ {{}}
      BY <1>0, <2>4
    <3> QED
      BY <2>1, <3>1, <3>2, <3>3 DEF Evidence!Forge, EventSeq
  <2> QED
    BY <2>3, <2>4
<1>4. \/ UNCHANGED <<intents, audit_logs>>
      \/ \E e \in Events : WriteIntent(e)
      \/ \E p \in Promoters : CommitBatch(p)
  BY DEF Next, RequestStep, Act, Stamp, LoseIntent, PromoterStep, Wake, SessionMissing,
     OutboxEmpty, FetchBatch, AcquireChainLock, ChainEntry, RejectBatch, Interrupt, vars
<1> QED
  BY <1>1, <1>2, <1>3, <1>4 DEF Evidence!Next

(* While batches keep apart, every step of the outbox is a step of the     *)
(* evidence log or none: an intent is accepted once, and a batch leaves    *)
(* the outbox and becomes evidence, each event once, in a single step.     *)
(* The fairness of the log is checked by TLC alone.                        *)
THEOREM OutboxImplementsEvidence == Spec /\ []BatchesApart => Evidence!Spec
<1>1. Spec => []AccountInv
  BY InitAccountInv, NextAccountInv, ChainInvariance, PTL DEF Spec
<1>2. BatchesApart /\ ChainInv /\ AccountInv /\ SingleInv /\ [Next]_vars
        => [Evidence!Next]_(Evidence!vars)
  BY NextImplements
<1> QED
  BY <1>1, <1>2, SingleInvariance, InitImplements, ChainInvariance, PTL DEF Spec, Evidence!Spec

(* One promoter, as the code starts it, is enough for that.                *)
THEOREM OnePromoterImplementsEvidence ==
    ASSUME OnePromoter PROVE Spec => Evidence!Spec
BY OnePromoterKeepsApart, OutboxImplementsEvidence, PTL
-----------------------------------------------------------------------------
(* The forwarder as main.py:41 starts it.                                  *)

(* A promoter without a database session gets no further than get_session. *)
GetsNowhere ==
    /\ audit_logs = <<>>
    /\ pc \in [Promoters -> {"sleeping", "passing"}]

(* WithoutSessionNothingIsChained: promoters outside db_session(), however *)
(* many and whatever the requests write, never chain an event             *)
(* (database/session.py:13): the audit trail stays empty.                  *)
THEOREM WithoutSessionNothingIsChained ==
    ASSUME SessionBound = {}
    PROVE  Spec => [](audit_logs = <<>>)
<1>1. Init => GetsNowhere
  BY DEF Init, GetsNowhere
<1>2. GetsNowhere /\ [Next]_vars => GetsNowhere'
  <2> SUFFICES ASSUME GetsNowhere, [Next]_vars PROVE GetsNowhere'
    OBVIOUS
  <2>1. ASSUME NEW e \in Events, RequestStep(e) PROVE GetsNowhere'
    BY <2>1 DEF RequestStep, Act, Stamp, WriteIntent, LoseIntent, promoterVars, GetsNowhere
  <2>2. ASSUME NEW p \in Promoters, Wake(p) \/ SessionMissing(p) PROVE GetsNowhere'
    BY <2>2 DEF Wake, SessionMissing, EndPass, GetsNowhere
  <2>3. ASSUME NEW p \in Promoters,
               \/ OutboxEmpty(p) \/ FetchBatch(p) \/ AcquireChainLock(p)
               \/ ChainEntry(p) \/ CommitBatch(p) \/ RejectBatch(p) \/ Interrupt(p)
        PROVE  FALSE
    BY <2>3 DEF OutboxEmpty, FetchBatch, AcquireChainLock, ChainEntry, CommitBatch,
       RejectBatch, Interrupt, GetsNowhere
  <2>4. CASE UNCHANGED vars
    BY <2>4 DEF vars, GetsNowhere
  <2> QED
    BY <2>1, <2>2, <2>3, <2>4 DEF Next, PromoterStep
<1>3. GetsNowhere => audit_logs = <<>>
  BY DEF GetsNowhere
<1> QED
  BY <1>1, <1>2, <1>3, PTL DEF Spec
=============================================================================

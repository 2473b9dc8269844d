---------------------------- MODULE AuditOutbox ----------------------------
(***************************************************************************)
(* The audit trail: a request claims an event (services/audit_service.py), *)
(* the claim is stored as a Pending Audit Intent, and promoters turn       *)
(* batches of intents into the hash chain audit_logs                       *)
(* (repositories/audit_repository.py, main.py).  Requests and promoters    *)
(* interleave at every await; the database is PostgreSQL under READ        *)
(* COMMITTED, where an uncommitted insert is visible to its own            *)
(* transaction alone and a transaction-level advisory lock is freed by the *)
(* commit or the rollback.                                                 *)
(***************************************************************************)
EXTENDS Naturals, Sequences, FiniteSets, FiniteSetsExt

CONSTANTS
    Events,         \* consequential actions, each performed at most once
    Unfit,          \* events with a field wider than its audit_logs column
    Promoters,      \* the tasks that run promote_intents
    SessionBound,   \* those that run it inside db_session()
    NoOne,          \* nobody holds the advisory lock
    BatchSize,      \* _PROMOTE_BATCH_SIZE
    MaxInterrupts   \* bound on cancelled or crashed passes

ASSUME EventsAssumption == IsFiniteSet(Events)
ASSUME UnfitAssumption == Unfit \subseteq Events
ASSUME PromoterAssumption == SessionBound \subseteq Promoters /\ NoOne \notin Promoters
ASSUME BatchAssumption == BatchSize \in Nat \ {0}
ASSUME InterruptAssumption == MaxInterrupts \in Nat

VARIABLES
    stage,          \* how far the request of each event has come
    clock,          \* time, advanced by every utcnow() of record
    created_at,     \* the timestamp record took for each event
    intents,        \* committed rows of audit_intents
    audit_logs,     \* committed rows of audit_logs, in commit order
    pc,             \* what each promoter is waiting for
    batch,          \* the intents each promoter has read
    inserted,       \* rows each promoter's open transaction has added
    chain_lock,     \* holder of pg_advisory_xact_lock(_CHAIN_LOCK_KEY)
    interrupts      \* passes cancelled so far

requestVars == <<stage, clock, created_at>>
promoterVars == <<pc, batch, inserted, chain_lock>>
vars == <<stage, clock, created_at, intents, audit_logs,
          pc, batch, inserted, chain_lock, interrupts>>

-----------------------------------------------------------------------------
(* The chain.                                                              *)

(* chain_fields: what a row seals.  The columns other than seq and         *)
(* created_at are determined by the event.                                 *)
Fields == [seq : Nat, event : Events, created_at : Nat]

(* A collision-free digest of (previous hash, fields) is as good as the    *)
(* history it seals; the empty history is the missing hash of an empty     *)
(* chain, which entry_digest turns into ''.                                *)
Hashes == Seq(Fields)

AuditLog == [seq : Nat, event : Events, created_at : Nat,
             prev_hash : Hashes, entry_hash : Hashes]

chain_fields(row) ==
    [seq |-> row.seq, event |-> row.event, created_at |-> row.created_at]

entry_digest(prev_hash, fields) == Append(prev_hash, fields)

(* coalesce(max(seq), 0) over the rows a transaction sees.                 *)
TipSeq(rows) == Max({0} \cup {rows[i].seq : i \in 1..Len(rows)})

(* entry_hash of the row at the tip, absent when there is none.            *)
TipHash(rows) ==
    IF \E i \in 1..Len(rows) : rows[i].seq = TipSeq(rows)
    THEN rows[CHOOSE i \in 1..Len(rows) : rows[i].seq = TipSeq(rows)].entry_hash
    ELSE <<>>

(* One iteration of _chain_entries: the entry that extends the tip.        *)
ChainedEntry(rows, e) ==
    LET fields == [seq |-> TipSeq(rows) + 1, event |-> e, created_at |-> created_at[e]]
    IN  [seq |-> fields.seq, event |-> fields.event, created_at |-> fields.created_at,
         prev_hash |-> TipHash(rows),
         entry_hash |-> entry_digest(TipHash(rows), fields)]

(* ORDER BY created_at LIMIT _PROMOTE_BATCH_SIZE over the outbox.          *)
Oldest(S) ==
    {e \in S : Cardinality({f \in S : created_at[f] < created_at[e]}) < BatchSize}

-----------------------------------------------------------------------------
(* The request: the action commits, then record claims it.                 *)

Stages == {"none", "acted", "stamped", "intended", "unrecorded"}

(* The consequential action has committed; its handler has yet to call     *)
(* record.                                                                 *)
Act(e) ==
    /\ stage[e] = "none"
    /\ stage' = [stage EXCEPT ![e] = "acted"]
    /\ UNCHANGED <<clock, created_at, intents, audit_logs, promoterVars, interrupts>>

(* record takes utcnow() before the intent is written.                     *)
Stamp(e) ==
    /\ stage[e] = "acted"
    /\ stage' = [stage EXCEPT ![e] = "stamped"]
    /\ clock' = clock + 1
    /\ created_at' = [created_at EXCEPT ![e] = clock + 1]
    /\ UNCHANGED <<intents, audit_logs, promoterVars, interrupts>>

(* create_audit_intent commits the row.                                    *)
WriteIntent(e) ==
    /\ stage[e] = "stamped"
    /\ stage' = [stage EXCEPT ![e] = "intended"]
    /\ intents' = intents \cup {e}
    /\ UNCHANGED <<clock, created_at, audit_logs, promoterVars, interrupts>>

(* record swallows any exception of the write, and a request that dies     *)
(* after its own commit never gets to the write.                           *)
LoseIntent(e) ==
    /\ stage[e] \in {"acted", "stamped"}
    /\ stage' = [stage EXCEPT ![e] = "unrecorded"]
    /\ UNCHANGED <<clock, created_at, intents, audit_logs, promoterVars, interrupts>>

-----------------------------------------------------------------------------
(* The promoter: one pass of _audit_forwarder around promote_audit_intents.*)

PromoterStates == {"sleeping", "passing", "fetched", "chaining"}

Visible(p) == audit_logs \o inserted[p]

Unchained(p) == batch[p] \ {inserted[p][i].event : i \in 1..Len(inserted[p])}

(* A flush of an entry wider than its columns is refused by the database.  *)
FlushFails(p) == \E i \in 1..Len(inserted[p]) : inserted[p][i].event \in Unfit

(* The pass is over: the transaction is closed, and its lock with it.      *)
EndPass(p) ==
    /\ pc' = [pc EXCEPT ![p] = "sleeping"]
    /\ batch' = [batch EXCEPT ![p] = {}]
    /\ inserted' = [inserted EXCEPT ![p] = <<>>]
    /\ chain_lock' = IF chain_lock = p THEN NoOne ELSE chain_lock

Wake(p) ==
    /\ pc[p] = "sleeping"
    /\ pc' = [pc EXCEPT ![p] = "passing"]
    /\ UNCHANGED <<requestVars, intents, audit_logs, batch, inserted, chain_lock, interrupts>>

(* get_session raises when no session is bound to the task; the forwarder  *)
(* logs it and sleeps.                                                     *)
SessionMissing(p) ==
    /\ pc[p] = "passing"
    /\ p \notin SessionBound
    /\ EndPass(p)
    /\ UNCHANGED <<requestVars, intents, audit_logs, interrupts>>

OutboxEmpty(p) ==
    /\ pc[p] = "passing"
    /\ p \in SessionBound
    /\ intents = {}
    /\ EndPass(p)
    /\ UNCHANGED <<requestVars, intents, audit_logs, interrupts>>

(* The oldest intents are read before the advisory lock is asked for.      *)
FetchBatch(p) ==
    /\ pc[p] = "passing"
    /\ p \in SessionBound
    /\ intents # {}
    /\ batch' = [batch EXCEPT ![p] = Oldest(intents)]
    /\ pc' = [pc EXCEPT ![p] = "fetched"]
    /\ UNCHANGED <<requestVars, intents, audit_logs, inserted, chain_lock, interrupts>>

(* Mutant of AcquireChainLock: pg_try_advisory_xact_lock, answer ignored.  *)
AcquireChainLockUnguarded(p) ==
    /\ pc[p] = "fetched"
    /\ chain_lock' = p
    /\ pc' = [pc EXCEPT ![p] = "chaining"]
    /\ UNCHANGED <<requestVars, intents, audit_logs, batch, inserted, interrupts>>

(* SELECT pg_advisory_xact_lock waits until nobody holds the lock.         *)
AcquireChainLock(p) ==
    /\ pc[p] = "fetched"
    /\ chain_lock = NoOne
    /\ chain_lock' = p
    /\ pc' = [pc EXCEPT ![p] = "chaining"]
    /\ UNCHANGED <<requestVars, intents, audit_logs, batch, inserted, interrupts>>

(* The next entry of the batch, oldest first, chained onto the tip as this *)
(* transaction sees it.  The two SELECTs of the code are one step: no      *)
(* other transaction adds a row while the lock is held (LockInv).          *)
ChainEntry(p) ==
    /\ pc[p] = "chaining"
    /\ ~FlushFails(p)
    /\ \E e \in Unchained(p) :
        /\ \A f \in Unchained(p) : created_at[e] <= created_at[f]
        /\ inserted' = [inserted EXCEPT ![p] = Append(@, ChainedEntry(Visible(p), e))]
    /\ UNCHANGED <<requestVars, intents, audit_logs, pc, batch, chain_lock, interrupts>>

(* Mutant of CommitBatch: the outbox is emptied by a second query instead  *)
(* of the rows that were read.                                             *)
CommitBatchRequeried(p) ==
    /\ pc[p] = "chaining"
    /\ Unchained(p) = {}
    /\ ~FlushFails(p)
    /\ audit_logs' = Visible(p)
    /\ intents' = intents \ Oldest(intents)
    /\ EndPass(p)
    /\ UNCHANGED <<requestVars, interrupts>>

(* Mutant of CommitBatch: the promoted intents stay in the outbox.         *)
CommitBatchKeepsIntents(p) ==
    /\ pc[p] = "chaining"
    /\ Unchained(p) = {}
    /\ ~FlushFails(p)
    /\ audit_logs' = Visible(p)
    /\ EndPass(p)
    /\ UNCHANGED <<requestVars, intents, interrupts>>

(* Inserts and deletes commit together.  Deleting an intent that another   *)
(* promoter has deleted since it was read is only a warning.               *)
CommitBatch(p) ==
    /\ pc[p] = "chaining"
    /\ Unchained(p) = {}
    /\ ~FlushFails(p)
    /\ audit_logs' = Visible(p)
    /\ intents' = intents \ batch[p]
    /\ EndPass(p)
    /\ UNCHANGED <<requestVars, interrupts>>

(* The insert of an unfit entry fails when it is flushed and takes the     *)
(* whole batch down with it.                                               *)
RejectBatch(p) ==
    /\ pc[p] = "chaining"
    /\ FlushFails(p)
    /\ EndPass(p)
    /\ UNCHANGED <<requestVars, intents, audit_logs, interrupts>>

(* Mutant of Interrupt: one commit per entry, so that the entries chained  *)
(* so far survive it.                                                      *)
InterruptPerEntryCommit(p) ==
    /\ pc[p] \in {"fetched", "chaining"}
    /\ interrupts < MaxInterrupts
    /\ interrupts' = interrupts + 1
    /\ audit_logs' = Visible(p)
    /\ EndPass(p)
    /\ UNCHANGED <<requestVars, intents>>

(* Mutant of Interrupt: a session-level lock, which no rollback frees.     *)
InterruptKeepsLock(p) ==
    /\ pc[p] \in {"fetched", "chaining"}
    /\ interrupts < MaxInterrupts
    /\ interrupts' = interrupts + 1
    /\ pc' = [pc EXCEPT ![p] = "sleeping"]
    /\ batch' = [batch EXCEPT ![p] = {}]
    /\ inserted' = [inserted EXCEPT ![p] = <<>>]
    /\ UNCHANGED <<requestVars, intents, audit_logs, chain_lock>>

(* The task is cancelled, its process dies or its connection drops: the    *)
(* transaction is rolled back.                                             *)
Interrupt(p) ==
    /\ pc[p] \in {"fetched", "chaining"}
    /\ interrupts < MaxInterrupts
    /\ interrupts' = interrupts + 1
    /\ EndPass(p)
    /\ UNCHANGED <<requestVars, intents, audit_logs>>

-----------------------------------------------------------------------------
Init ==
    /\ stage = [e \in Events |-> "none"]
    /\ clock = 0
    /\ created_at = [e \in Events |-> 0]
    /\ intents = {}
    /\ audit_logs = <<>>
    /\ pc = [p \in Promoters |-> "sleeping"]
    /\ batch = [p \in Promoters |-> {}]
    /\ inserted = [p \in Promoters |-> <<>>]
    /\ chain_lock = NoOne
    /\ interrupts = 0

RequestStep(e) == Act(e) \/ Stamp(e) \/ WriteIntent(e) \/ LoseIntent(e)

(* The steps of one loop iteration, cancellation aside.                    *)
PromoterStep(p) ==
    \/ Wake(p)
    \/ SessionMissing(p)
    \/ OutboxEmpty(p)
    \/ FetchBatch(p)
    \/ AcquireChainLock(p)
    \/ ChainEntry(p)
    \/ CommitBatch(p)
    \/ RejectBatch(p)

Next ==
    \/ \E e \in Events : RequestStep(e)
    \/ \E p \in Promoters : PromoterStep(p) \/ Interrupt(p)

Spec == Init /\ [][Next]_vars

(* The event loop keeps scheduling the forwarder's task, and PostgreSQL    *)
(* grants a free advisory lock to its waiters in turn.                     *)
FairSpec ==
    /\ Spec
    /\ \A p \in Promoters : WF_vars(PromoterStep(p)) /\ SF_vars(AcquireChainLock(p))

-----------------------------------------------------------------------------
(* Type correctness of every table and task; the advisory lock is held by  *)
(* nobody or by a promoter that is inside its transaction.                 *)
TypeOK ==
    /\ stage \in [Events -> Stages]
    /\ clock \in Nat
    /\ created_at \in [Events -> Nat]
    /\ intents \subseteq Events
    /\ audit_logs \in Seq(AuditLog)
    /\ pc \in [Promoters -> PromoterStates]
    /\ batch \in [Promoters -> SUBSET Events]
    /\ inserted \in [Promoters -> Seq(AuditLog)]
    /\ chain_lock \in {p \in Promoters : pc[p] = "chaining"} \cup {NoOne}
    /\ interrupts \in Nat

(* The walk of verify() in verify_audit_chain.py: the rows ORDER BY seq,    *)
(* which leaves rows of one seq in any order; nothing in the schema keeps  *)
(* seq unique.  These rows may come right before row i in the list...      *)
Preceding(i) ==
    {j \in 1..Len(audit_logs) \ {i} :
        /\ audit_logs[j].seq <= audit_logs[i].seq
        /\ \A k \in 1..Len(audit_logs) \ {i} :
              ~(audit_logs[j].seq < audit_logs[k].seq /\ audit_logs[k].seq < audit_logs[i].seq)}

(* ...so these hashes may be the walk's prev_hash when it gets there.      *)
WalkedHashes(i) ==
    {audit_logs[j].entry_hash : j \in Preceding(i)} \cup
    {h \in {<<>>} : \A j \in 1..Len(audit_logs) : audit_logs[j].seq >= audit_logs[i].seq}

(* verify() reports nothing, in whatever order it gets rows of one seq:    *)
(* each row links to the row that precedes it in the list, and its own     *)
(* hash recomputes from that hash and its fields.  A fork - two rows of    *)
(* one seq on one prev_hash - is a report.                                 *)
VerifyClean ==
    \A i \in 1..Len(audit_logs) : \A prev_hash \in WalkedHashes(i) :
        /\ audit_logs[i].prev_hash = prev_hash
        /\ audit_logs[i].entry_hash = entry_digest(prev_hash, chain_fields(audit_logs[i]))

(* The promotion of a batch never loses an event: from the moment the      *)
(* intent is durable, the event is in the outbox or in the chain, whatever *)
(* is cancelled, rolled back or read twice; and the chain holds no event   *)
(* whose intent was never written.                                         *)
Evidenced == {audit_logs[i].event : i \in 1..Len(audit_logs)}

EvidenceAccounted ==
    {e \in Events : stage[e] = "intended"} = intents \cup Evidenced

(* "One hashed, hash-chained row per consequential action"                 *)
(* (models/audit_log.py:1), "without duplicating evidence"                 *)
(* (repositories/audit_repository.py:68): no event has two rows, and none  *)
(* with a row is still waiting to be promoted again.                       *)
OneRowPerAction ==
    /\ \A i, j \in 1..Len(audit_logs) : audit_logs[i].event = audit_logs[j].event => i = j
    /\ intents \cap Evidenced = {}

(* Nothing in the code sees to this when there are two promoters: a batch  *)
(* is read before the lock is asked for.  It holds with a single one, and  *)
(* would hold with any number if the lock came first, or if the rows of a  *)
(* batch were locked and skipped.                                          *)
BatchesApart == \A p, q \in Promoters : p # q => batch[p] \cap batch[q] = {}

(* "Promote Pending Audit Intents into chained Audit Entries until         *)
(* shutdown" (main.py:23): a durable intent ends up in the chain.          *)
EveryIntentPromoted ==
    \A e \in Events : (e \in intents) ~> (e \in Evidenced)

(* The outbox as an implementation of what the audit trail promises.       *)
Evidence == INSTANCE AuditEvidence WITH
    pending <- intents,
    evidence <- [i \in 1..Len(audit_logs) |-> audit_logs[i].event]

ImplementsEvidence == Evidence!FairSpec
=============================================================================

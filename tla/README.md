# Platform Admin: a TLA+ verification of the backend

The repository is a FastAPI backend: Platform Admins log in, manage each other,
roles and screens, read an append-only audit trail and export it to xlsx. All
shared state is in PostgreSQL (and one directory of export files); every HTTP
request is an asyncio task with a SQLAlchemy session of its own, so tasks
interleave at every `await`, and nearly every repository call is a transaction
of its own. What is hard in this code follows from that: rows are read in one
transaction and written in a later one, requests die between two commits, and a
background task works on the same rows as the requests.

## Inventory

| Component (under `src/app/`) | State | Operations | What makes it correct | Module |
|---|---|---|---|---|
| Audit outbox and chain: `services/audit_service.py`, `repositories/audit_repository.py`, `models/audit_log.py`, `utils/audit_chain.py`, forwarder in `main.py` | `audit_intents`, `audit_logs`, advisory lock | `record`, `promote_audit_intents`, the forwarder's loop | a durable intent is never lost, is chained once, is chained at all; the chain verifies | `AuditOutbox`, `AuditEvidence` |
| Chain verifier: `database/scripts/verify_audit_chain.py` | none | `verify` | it reports nothing on a chain the code has written | `VerifyClean` of `AuditOutbox` |
| Authentication: `services/auth_service.py`, `core/security.py`, `api/v1/auth.py` | `platform_admins` (lockout, `current_refresh_jti`) | login, refresh, logout | what lifts a lockout; a revoked token buys nothing; stale copies revive nothing | `AdminAccounts`, `AccountOperations` |
| Management of admins: `services/user_service.py` | `platform_admins` (status, password) | create, PATCH, PUT, DELETE | an active admin remains; deactivation ends the session | `AdminAccounts`, `AccountOperations`; creation in `RoleCatalog` |
| Password reset: `services/auth_service.py`, `otp_repository`, `password_history_repository` | `password_reset_otps`, `password_history` | `generate_otp`, `verify_otp`, `update_password` | single use but for what deaths cost, throttle, no reuse | `PasswordReset` |
| Exports: `services/export_service.py`, `xlsx_writer.py` | `exports`, files | create, generate, mark failed, download, expire | READY is complete, the lifecycle goes forward, PENDING ends but for the errors nothing marks | `ExportJob` |
| Keyset streams of the exports: `repositories/export_repository.py`, `xlsx_writer.py` | a cursor and the writer's buffer | count against the cap, chunks of two streams | in list order, no row twice, none missed that matched throughout, all of them written and counted | `KeysetStream`, `RowSweep` |
| Roles, screens, permissions: `role_service`, `screen_service`, `rbac_service`, `api/deps.py`, `database/scripts/seed_*.py` | `roles`, `screens`, `role_screens`, `platform_admin_roles` | CRUD, replacing permissions, `require_permission`, seeding | super_admin keeps its access and gets every screen, replacing replaces | `RoleCatalog` |
| Middleware, redaction, schemas, pagination, errors, logging, tracing, health, migrations | per request or none | | unit-tested functions of one request | not modelled |

How they interact: every consequential handler calls `audit_service.record`
after its own commit; `get_current_admin` guards every managing request with
the session pointer of `platform_admins`; `update_password` writes the account,
the history and the OTP row in separate transactions; `download_export` calls
the generator that the background task runs, too; `require_permission` reads
the tables that roles, screens, admins and the seeds write. The hard behaviours are
listed line by line in `PROJECT.json` under `hazards`.

## Modelling conventions

- **Transactions.** PostgreSQL under READ COMMITTED: a step reads committed
  rows; what a transaction writes becomes visible at its commit. An `UPDATE`
  takes the row's lock until then (`row_lock` in `AdminAccounts`).
- **Unit of work.** A session keeps the objects it has loaded
  (`expire_on_commit=False`) and its `UPDATE` holds the columns that differ
  from what was loaded. `Updated(stored, was, obj)` says this, and much of what
  holds under concurrency rests on it.
- **Data.** A password is a model value, a token is its position among the
  sessions issued, a hash is the history it seals (no collisions), a row of an
  export is one in a count. Fields no property tells apart are left out.
- **Mutants.** A definition commented "Mutant of X" is what a plausible bug
  would make of X. No specification uses it; it shows that a property is able
  to fail.

## Modules

### `AuditOutbox` and `AuditEvidence`

`AuditEvidence` is the promise: events are accepted, and each accepted event is
forged into the evidence, exactly once, sooner or later. `AuditOutbox` is the
code. A request goes `Act` (the business commit), `Stamp` (`utcnow()` in
`record`), `WriteIntent` (the outbox row), or loses its event on the way
(`LoseIntent`: `record` swallows every exception). A promoter goes `Wake`,
`SessionMissing` / `OutboxEmpty` / `FetchBatch`, `AcquireChainLock`,
`ChainEntry` per event, then `CommitBatch`, `RejectBatch` (a field wider than
its column) or `Interrupt` (cancellation, crash). `Promoters` without a session
(`Promoters \ SessionBound`) are tasks started like the one in `main.py:41`.
`VerifyClean` is the walk of `verify()`: `seq` has no unique index, so the walk
may meet rows of one `seq` in any order, and `Preceding` holds every row that
may come right before a given one. A fork of the chain is a report, as in the
code.

Fairness: `WF` on a promoter's step (the event loop schedules the task, and
`sleep(1.0)` ends), `SF` on `AcquireChainLock` (PostgreSQL queues the waiters of
an advisory lock). Requests and interrupts are not fair.

### `AdminAccounts` and `AccountOperations`

`AccountOperations` is the promise: each login, refresh, logout, reset and
managing operation takes effect at one instant, on the row as it is then (a
login by the clock it read at or before that instant). It decides only on the
row the operation changes; that the requester holds a current session is a guard
of `AdminAccounts` alone. `AdminAccounts` is the code: rows of
`platform_admins` under login, refresh, logout, reset, PATCH (`deactivate`,
`activate`), PUT (`replace`) and DELETE. A request's `pc` says before which `await` it stands; `was` and `obj` are the row it loaded and the
object it has changed. `Autoflush` is the flush before the permission query in
`login`; `GuardLastActive` is `_guard_last_active_admin`, after which the status
is set in a later statement; `Save` and `IssueSession` are the commits.

The services take no lock between read and commit, so the promise is kept only
while requests do not get in each other's way. `Isolated` is the conjunction of
the two conditions under which it is kept: `OnePerAdmin` (no two requests have the
same admin's row in hand) and `OneDeactivation` (no two requests are
between the count of active admins and the commit that relies on it). They
restrict the interleavings and no request: any number of them may run, and the
two violation runs are interleavings they exclude. What `Isolated` would hide of
lockouts and deactivations is stated for all interleavings instead
(`LockoutStands`, `DeactivationEndsSession`), with the stale requests that may
undo them named in the property.

### `PasswordReset`

One account. `SaveOtp` is `otp_repository.save` for both `generate_otp` and
`verify_otp`, with the refusals of an insert that finds a row and of an update
that finds none. `update_password` is eight steps, one per `await`, from
`UpdatePassword` to `DeleteOtp`; `Die` may end it between any two.
`password_history` is a set of rows whose ids follow `created_at`; `Newest` is
`ORDER BY created_at DESC LIMIT n`, which the reuse check and `trim` share.
`granted`, `uses` and `replaced` only record what has happened; `uses` is the
number of resets the latest verification has served, `NULL` once it is void.

### `ExportJob`

One export. `Background` is the task of `_spawn_generation`; it and the
downloads run the same `StreamRows`, `ReplaceFile`, `CommitReady`.
A creation is three steps: `CreateExport` commits the row, which is then
refreshed, and `SpawnGeneration` starts the task and lets clients know the id
(`known`). `RequestFails` is an error at a commit or at that refresh; it leaves
a row that nobody works on (`Orphaned`). `ReadForMark` and `CommitFailed` are
the failure marker in its new session, and `MarkingFails` an error in the marker
itself, which `_generate_task` logs and swallows (`unmarked`).
`overlapped` records whether two writers were ever under way at a time.
Fairness: `WF` on the background task's steps, and on `SpawnGeneration`: the
event loop resumes the request after its refresh. `StreamRows` is one step here and
yields a number of rows; `KeysetStream` takes it apart.

### `KeysetStream` and `RowSweep`

`RowSweep` is the promise: one sweep over the rows in list order passes every
place once and lists the row that is there and matches as its place is passed.
`KeysetStream` is the code, for either module: `CountRows` (the count against
the cap), then `FetchChunk` per query of `stream_platform_admins` or
`stream_audit_logs`, with the conditions of its cursor (`PastCursor`) and what
the writer makes of the answer (`WriteChunk`, `WriteLastChunk`). Query and
writing are one step because there is no `await` between the answer and the
next query. Between two chunks other requests `Insert` rows, anywhere in the
order (a request takes `created_at` before it commits, and the promoter takes
over the time of the intent, so rows appear behind later ones), and
`ChangeAdmin` changes what the filter looks at; an audit row never changes.
`stable` and `seen` only record which rows matched throughout and since the
count. The writer opens no file here: `ReplaceFile` of `ExportJob` does.

Fairness: `WF` on `FetchChunk` (the event loop resumes the generating task after
each query). Inserts and changes are not fair, nor are they bounded by anything
but the rows there are.

### `RoleCatalog`

Roles, screens, the permissions between them and who has `super_admin`. A
screen code `S{n}` is its number. A request goes from read to read
(`EnsureNameAvailable`, `ValidateScreenCodes`, `NextScreenCode`, ...) to its
commit (`CommitCreate`, `SaveRole`, `CommitScreen`, ...). Replacing permissions
is taken apart further, because PostgreSQL lets two of them overlap:
`FlushRole` is the autoflush of changed fields before the `DELETE` and takes
the row's lock, `BeginDelete` its snapshot, `FinishDelete` its wait for a
concurrent `DELETE` of the same rows, `CommitReplacement` the inserts and the
commit, which the primary key and the foreign key may refuse. A step that finds
what the code refuses is not enabled; `Fail` ends the request as the exception
does, and may do so at any other await. `Seed` is a run of a seeding script.
A request starts only if some admin holds the permission its route requires.

Two replacements that change nothing but permissions merge: neither `DELETE`
sees the rows the other one inserts. `NoStrayPermission` says what still holds
then. A change of a role's description alone would take the lock as well and is
not distinguished from no change; that only allows more interleavings.

## Runs

| Run | Instance | Shows |
|---|---|---|
| `outbox_safety` | 3 events (one unfit), the deployed forwarder and two promoters, batch 2, one interrupt | `VerifyClean`, `EvidenceAccounted` in all interleavings |
| `outbox_single` | 3 events, one promoter, two interrupts | `OneRowPerAction`, `EveryIntentPromoted`, and that `AuditOutbox` implements `AuditEvidence` with its fairness |
| `outbox_deployed` | the forwarder as `main.py` starts it | violation of `EveryIntentPromoted` |
| `accounts_isolated` | 2 admins, 2 requests, explored as far as `Isolated` holds (a `CONSTRAINT`), 2 failures to a lockout, time 0..3 | last active admin, revoked tokens, and that `AdminAccounts` implements `AccountOperations` |
| `accounts_concurrent` | 2 admins, 2 requests, 1 failure to a lockout, time 0..1 | in all interleavings: `OnlyFreshSessions`, `OwnColumnsOnly`, `DeactivationEndsSession`, `LockoutStands` |
| `accounts_last_admin` | the same | violation of `SomeActiveAdmin` |
| `accounts_revoked_refresh` | 1 admin, 2 requests | violation of `RevokedTokenBuysNothing` |
| `reset_serial` | 4 passwords, depth 2, limit 2 per window of 3, expiry 2, time 0..4, two deaths | throttle, history, single use, reuse |
| `reset_single_use` | 2 requests, no death, no time | violation of `OtpSingleUse` |
| `export_life` | background task and 2 clients, two errors, one death, lost file and expiry | completeness, row count, lifecycle, and that PENDING ends |
| `stream_chunks` | both lists, filtered or not, 4 rows, 2 times, chunk 2, buffer 3, cap 3 | order, completeness, count and cap of the rows, that every chunk lies past the last one (`StreamAdvances`), that the stream ends, and that `KeysetStream` implements `RowSweep` |
| `catalog_concurrent` | 2 roles, 3 names, 2 screens (one seeded), 2 admins, 2 requests, 2 replacements | types and foreign keys, `SuperAdminKeepsAccess`, `SuperAdminSeesEveryScreen`, `NoStrayPermission` |

The bounds are the smallest at which each case occurs. A batch smaller than the
events leaves some for the next pass; two interrupts let a retried batch be
interrupted again; two sessions per run let one supersede the other; a lockout
of two ticks within time 0..3 is locked, expired and locked again; depth 2 with
four entries trims twice, and two deaths empty the reuse check. `MaxFailed = 1`
in `accounts_concurrent` makes every wrong password lock (the counter stays 0):
the counter itself is covered by `accounts_isolated` and, for every limit, by
the theorem. A lockout of one tick within time 0..1 is there, expires, and is
followed by another one while a login that has read the first is under way: all
four stale requests that `LockoutStands` and `DeactivationEndsSession` except do
occur within these bounds. Two errors in `export_life` let a generation and then
its marker fail. Two roles, one of them super_admin, and a third name let a rename race
another request for its name; two replacements overlap or follow each other, and
the two lists that clients ask for name different screens, so that overlapping
replacements do merge;
two admins let one create the other. Four rows and two times put rows with one
`created_at` on both sides of a chunk's border; chunk 2 and buffer 3 make the
buffer keep a row over a chunk and flush in the middle of one, and cap 3 is
reached, passed and, by a row that comes later, exceeded. `CHECK_DEADLOCK FALSE`
in `stream_chunks`: the stream ends, and an audit log that is full stays as it is.
`CHECK_DEADLOCK FALSE` in the two
concurrent runs of two admins: when both have been deactivated nobody can act
any more, which is the finding `accounts_last_admin`. `CHECK_DEADLOCK FALSE` in
`export_life`: an export without a generation, or that no client knows, may come
to rest. Symmetry is used only in
runs without liveness.

## Findings

1. **The forwarder has no session** (`main.py:41`). `current_session` is unset
   in the task that `lifespan` creates, so every pass raises in `get_session`
   and nothing is ever promoted.
2. **Two deactivations can leave no active admin** (`user_service.py:30`).
3. **A revoked refresh token can still buy a session** (`auth_service.py:145`)
   when the revocation commits between check and commit of a refresh.
4. **One verification can serve two resets** (`auth_service.py:230`).

Known limits of the code that contradict no line of the repository, or whose line
is too vague to refute; each is in the model, and the properties say exactly how
far it goes:

- `promote_audit_intents` reads its batch (`audit_repository.py:71`) before it
  takes the advisory lock, so two promoters may chain the same intents twice.
  The backend starts one promoter per process; the theorems about
  `OneRowPerAction` and the refinement assume that no two batches in hand have an
  event in common (`BatchesApart`), which a single promoter guarantees
  (`OnePromoter`, as `outbox_single` has). Without that the chain still verifies
  and nothing is lost (`outbox_safety`).
- An intent that does not fit the columns of `audit_logs` makes every batch that
  holds it fail, and blocks the intents behind it. `outbox_safety` has one and
  shows that nothing is lost; that everything else is promoted is checked only
  without one (`Unfit = {}` in `outbox_single`).
- An inactive admin comes to have a session, which a reactivation revives, in two
  ways: a login or refresh that read the admin while active issues its session
  after the deactivation; or a deactivation that read the row before a login began
  its session leaves `current_refresh_jti` out of its `UPDATE`, since nothing has
  changed in its copy. `DeactivationEndsSession` shows that there is no third.
- A lockout is lifted early by a login that had read an expired lockout of the
  same admin before, and is replaced by that of a login whose wrong password, on
  an older copy, reaches the limit as well. A login that has read an unlocked row
  has no `locked_until` to write and lifts nothing (`LockoutStands`).
- An export stays PENDING after an error that `_generate_task` does not mark: in
  the refresh before the spawn, in the marker itself, or when a task dies.
  `ExportSettles` shows that there is no other way.
- Overlapping writers of one export may write FAILED over READY or READY over
  EXPIRED, and leave a count that is not the file's.
- A file exceeds the cap ("max 100k rows/file", `config.py:49`) by the rows that
  arrive between the count and the last chunk, and by no others
  (`CapExceededByArrivalsOnly`).
- A reset that dies between the password and the deletion of the OTP row leaves
  a verification that serves once more: one reset per death
  (`SingleUseButForDeaths`).

## Proofs

TLAPS proves, for every value of the constants their assumptions allow:

- `AuditOutboxProofs`: `TypeCorrect`, `ChainVerifies` (`VerifyClean`) and
  `NothingLost` (`EvidenceAccounted`) for any promoters. The inductive invariant
  says that the committed rows carry `seq` 1, 2, 3, ... and that each
  `entry_hash` is the history of the rows up to it; that only the holder of the
  lock has uncommitted rows, and they extend the committed ones in the same way;
  and that a batch holds only events whose intent was written. `VerifyClean`
  alone is not inductive: it does not know what a promoter is about to commit.
  That `seq` counts the rows is also why the walk never has a choice.
  While batches keep apart, what a promoter has read stays in the outbox until
  it commits. From that follow `BatchesApartNeverDuplicate` (`OneRowPerAction`)
  and `OutboxImplementsEvidence`: every step of the outbox is a step of
  `AuditEvidence` or a stutter (the safety part of `ImplementsEvidence`). One
  promoter, cancelled at will, keeps its batches apart, so both hold for it
  unconditionally (`OnePromoterNeverDuplicates`,
  `OnePromoterImplementsEvidence`). `WithoutSessionNothingIsChained` is the
  first finding for every number of forwarders and events: the trail stays empty.
- `AdminAccountsProofs`: for all interleavings, `TypeCorrect`,
  `SessionsStayRevoked` (`OnlyFreshSessions`) and `CommitsKeepToTheirColumns`
  (`OwnColumnsOnly`), `DeactivationRevokes` (`DeactivationEndsSession`) and
  `LockoutIsNotLifted` (`LockoutStands`). The invariant relates what a request
  has changed in its copy to its operation and `pc`: the session pointer it
  writes is NULL or the one it loaded; the password and status differ from what
  it loaded only where the operation sets them; and only a login, a reset or a
  replacement changes `locked_until`, the login only to clear a lockout it has
  found expired or to set one. A commit then changes these columns of the stored
  row, or leaves out those that its copy does not change, which gives the stale
  requests that the two properties name. `GuardKeepsAnActiveAdmin`
  (`SomeActiveAdmin`) needs only `OneDeactivation`: a request about to commit a
  deactivation leaves another active admin, whatever else interleaves. With
  `OnePerAdmin`, what a request has loaded is what is stored until it commits
  (`Faithful`), from which `IsolatedRevokedTokenBuysNothing` follows.
- `AccountOperationsProofs`: `RequestsImplementOperations`
  (`ImplementsOperations`). The linearization point of a request is its commit
  (for a refused login of an inactive account, the commit of the audit intent):
  there the columns it changed, written over the stored row, are those that
  the atomic operation computes from the stored row; every other step stutters.
  The condition says what a lock on the row, and one on the count, would have to
  ensure.
- `PasswordResetProofs`, for any number of requests: `TypeCorrect`, and
  `HistoryStaysShort` (`HistoryTrimmed`). The history never has more rows than
  its depth, one per dead request and one per request that has recorded its
  entry and not yet trimmed (`Trimming`); that `trim` deletes by ids it read
  before is harmless because ids only grow.
- `PasswordResetSerialProofs`, for any number of deaths: `ThrottleHolds`
  (`WindowsThrottled`) while no two requests are between their read of the OTP
  row and its save (`OneSaver`); resets and their deletion of the row may
  interleave, because a save then finds no row and is refused. The stored row
  counts the grants of its window, and a request about to save has counted its
  own. With one request at a time (`OneRequest`): `OtpServesOneReset`
  (`SingleUseButForDeaths`; a verified row stands for a verification that has
  served no more resets than requests have died, and one more only until the
  reset deletes the row) and `NoPasswordComesBack` (`NoRecentReuse`). For the
  last, `Remembers` says that each of the last passwords that resets replaced
  ranks among the newest rows of the history, with a slack of one rank for every
  request that died. These two need all of `OneRequest`: an OTP requested or a
  password replaced in the middle of a reset breaks them.
- `ExportJobProofs`: `TypeCorrect`, `ReadyRowsAreComplete` (`ReadyIsComplete`),
  `CountMatchesFile` (`RowCountMatchesFile`) and `LifecycleGoesForward`
  (`LifecycleForward`). The invariant has a part for every interleaving (what a
  task changes in its copy, and which columns a row has been given) and one that
  holds until two writers overlap (what a task has loaded is there still, and
  at most one file is between disk and row).
- `KeysetStreamProofs`: all safety properties of the run, and `ChunksSweep`
  (`ImplementsSweep`), for any rows, times, chunk size, buffer and cap. The
  invariant: what has been listed is at or before the cursor, and a stable row
  at or before the cursor has been listed. This is why the next chunk may start
  right behind the cursor, whatever was inserted on either side of it.
  `StreamNeverFallsBack` (`StreamAdvances`) says that the cursor only moves
  forward; with finitely many places that is why the stream ends, which itself
  (`StreamEnds`) stays with TLC.
- `RoleCatalogProofs`: `TypeCorrect`, `SuperAdminAlwaysHasAccess`
  (`SuperAdminKeepsAccess`), `EveryScreenIsSuperAdmins`
  (`SuperAdminSeesEveryScreen`) and `ReplacementsReplace`
  (`NoStrayPermission`). `Holds` says what a request may hold at each await,
  and `HoldsGrows` that it stays true whatever another request commits, because
  a commit only ever lets the tables grow (`Grows`): rows of roles and screens
  stay, the same role stays super_admin, new permissions are recent or its. So each
  action is proved alone. The argument for super_admin: a request was allowed
  by somebody who has it, so it exists while any request runs, and the unique
  index then keeps every other role from its name; what is on its way to it has
  passed the protection and carries its name, "active" and no permissions. That
  its screens are complete (`Complete`) is needed for the next request, which is
  why none of the four properties is inductive alone.
  `ReplacementsAreExact` takes "replace permissions" at its word: while no two
  requests replace the permissions of one role at a time (`ReplacementsApart`),
  an ordinary role permits exactly one of the lists that clients have sent. The
  invariant behind it (`SeenAll`) is that a `DELETE` whose snapshot was taken has
  seen all rows there are when it commits. Without the condition lists merge, and
  only `NoStrayPermission` remains.

The assumptions on constants are the named `ASSUME`s of the modules (positive
limits, `NULL` outside the data, finite sets where something is counted), which
TLC evaluates in every run. Conditions on interleavings are hypotheses of the
theorems that need them, as `[]Condition` on the behaviour (`OneRequest` and
`OnePromoter`, which speak of constants, as assumptions of the theorem):

| Condition | Excludes | Without it |
|---|---|---|
| `BatchesApart` | two promoters with one event in hand | an event is chained twice |
| `OneDeactivation` | two requests between count and commit | finding 2 (`accounts_last_admin`) |
| `OnePerAdmin` | two requests with one admin's row in hand | finding 3 (`accounts_revoked_refresh`), and requests are no longer atomic (`ImplementsOperations`) |
| `OneSaver` | two requests between read and save of an OTP row | the throttle admits one more per overlap |
| `OneRequest` | two requests on one account's reset | finding 4 (`reset_single_use`) |
| `ReplacementsApart` | two replacements of one role's permissions | their lists merge |

The code enforces none of them: they say exactly which overlaps the properties
depend on. Each is satisfied by every behaviour in which requests follow each
other, and the weaker ones by far more.

Only model-checked: liveness (`EveryIntentPromoted`, `ExportSettles`,
`StreamEnds`) and the fairness in the refinement of `AuditEvidence`, which are out
of TLAPS's reach. That `Answers` of a nonempty remainder is nonempty needs an
induction over sorted finite sets and stays with TLC, too. Every safety property
of a passing run is also a theorem.

## Plan

1. Done: `AuditOutbox` with `AuditEvidence`, `AdminAccounts` with
   `AccountOperations`, `RoleCatalog`, `PasswordReset`, `ExportJob`, `KeysetStream`
   with `RowSweep`; proofs of all their safety properties and of the safety part
   of the three refinements, under the weakest conditions on interleavings found.
2. Emails as keys: an OTP row belongs to an email, which an admin may give up
   and another take over. No document says what should hold then.
3. `RoleCatalog`: the effective permissions of roles other than super_admin, once
   a route assigns any, and `seed_admin --reset`.

## Not modelled

Middleware, redaction, schemas, pagination, error envelopes, logging, tracing
and health have no state that outlives a request. Migrations are run by an
operator, once; `seed_admin --reset` wipes the admins whose access `RoleCatalog`
speaks of, before a clean reseed. The uniqueness of emails is decided by a unique
index alone (the check before it only chooses the message), so emails are left
out. The paged lists read and change nothing. Of the requester of an export
only the download matters, not who he is. Screen codes that are not
`S{n}` never take part in numbering and are left out. The expiry of JWTs only refuses more
than the model does. The widths of columns enter as the set `Unfit`.

-------------------------- MODULE ExportJobProofs --------------------------
(***************************************************************************)
(* Proofs about ExportJob, for any number of requests, failures, deaths    *)
(* and lost files: a READY row is complete, and while no two tasks write   *)
(* at a time its count is right and its lifecycle goes forward.            *)
(***************************************************************************)
EXTENDS ExportJob, TLAPS

(* The places where a task holds a copy of the row; those of _generate.    *)
Holders == {"streaming", "replacing", "committing", "marking", "expiring"}

Generating == {"streaming", "replacing", "committing"}

(* What was there when the copy was loaded is there still.                 *)
Older(was, row) ==
    /\ was.row_count # NULL => row.row_count # NULL
    /\ was.file_path => row.file_path
    /\ was.expires_at # NULL => row.expires_at # NULL

(* What a task may be, whatever the others do.                             *)
Fits(x) ==
    /\ x \in TaskType
    /\ x.pc \in Holders =>
        export # NULL /\ x.was \in Export /\ x.obj \in Export /\ Older(x.was, export)
    /\ x.pc \in Generating => x.obj = x.was
    /\ x.pc \in {"replacing", "committing"} => x.rows \in Nat
    /\ x.pc = "marking" => x.was.status = "pending" /\ x.obj = [x.was EXCEPT !.status = "failed"]
    /\ x.pc = "expiring" => Expired(x.was) /\ x.obj = [x.was EXCEPT !.status = "expired"]
    /\ x.pc \in {"spawned", "failing", "serving"} => export # NULL
    /\ x.pc = "creating" => export = NULL
    /\ x.pc = "refreshing" => export # NULL /\ ~known
    /\ x.pc = "committing" /\ lost = 0 => file # NULL

(* What it is besides as long as no two tasks have been about to write.    *)
Undisturbed(x) ==
    /\ x.pc \in Holders => x.was = export
    /\ x.pc \in Generating => x.was.status # "expired"
    /\ x.pc = "spawned" => export.status = "pending"
    /\ x.pc = "committing" /\ deaths = 0 /\ failures = 0 /\ file # NULL => file = x.rows

Types ==
    /\ export \in Export \cup {NULL}
    /\ file \in Nat \cup {NULL}
    /\ matching \in Nat /\ now \in Nat
    /\ task \in [Tasks -> TaskType]
    /\ failures \in Nat /\ deaths \in Nat /\ lost \in Nat
    /\ known \in BOOLEAN /\ unmarked \in BOOLEAN /\ overlapped \in BOOLEAN

(* The places of create_export, and the one request that may be there.     *)
Creating == {"creating", "refreshing"}

OneCreation ==
    \A t, u \in Tasks : task[t].pc \in Creating /\ task[u].pc \in Creating => t = u

(* Until clients know of the export only its creation is going on.         *)
Hidden ==
    /\ known => export # NULL
    /\ ~known => /\ \A t \in Tasks : task[t].pc \in Creating \cup {"idle"}
                 /\ export \in {NULL, Pending}

(* A committed row whose file has been written, by the count and the       *)
(* status.                                                                 *)
RowCounts ==
    deaths = 0 /\ failures = 0 /\ file # NULL =>
        /\ export # NULL
        /\ (\A t \in Tasks : task[t].pc # "committing") => export.row_count = file

Solo ==
    /\ \A t \in Tasks : Undisturbed(task[t])
    /\ \A t, u \in Tasks : t # u => ~(Writing(t) /\ Writing(u))
    /\ export # NULL /\ export.status = "expired" => Expired(export)
    /\ RowCounts

Inv ==
    /\ Types
    /\ \A t \in Tasks : Fits(task[t])
    /\ OneCreation
    /\ Hidden
    /\ ReadyIsComplete
    /\ ~overlapped => Solo

LEMMA IdleIsATask == Idle \in TaskType
BY DEF Idle, TaskType

LEMMA InitInv == Init => Inv
<1> SUFFICES ASSUME Init PROVE Inv
  OBVIOUS
<1>1. \A t \in Tasks : task[t] = Idle /\ task[t].pc = "idle"
  BY DEF Init, Idle
<1>2. Types
  BY IdleIsATask DEF Init, Types
<1>3. \A t \in Tasks : Fits(task[t]) /\ Undisturbed(task[t]) /\ ~Writing(t)
  BY <1>1, IdleIsATask DEF Fits, Undisturbed, Holders, Generating, Writing
<1>4. QED
  BY <1>1, <1>2, <1>3 DEF Init, Inv, OneCreation, Creating, Hidden, ReadyIsComplete, Solo, RowCounts

-----------------------------------------------------------------------------
(* Steps of one task that leave the row and the file alone.                *)

(* overlapped is set whenever two tasks are about to write.                *)
Watched == overlapped' = (overlapped \/ \E t, u \in Tasks : t # u /\ Writing(t)' /\ Writing(u)')

LEMMA TaskStep ==
    ASSUME Inv, Watched, NEW t \in Tasks, NEW x,
           task' = [task EXCEPT ![t] = x],
           UNCHANGED <<export, file, matching, now, lost, known>>, unmarked' \in BOOLEAN,
           failures' \in Nat, deaths' \in Nat,
           failures' = 0 => failures = 0, deaths' = 0 => deaths = 0,
           Fits(x),
           ~overlapped => Undisturbed(x),
           x.pc \in Creating => \A u \in Tasks \ {t} : task[u].pc \notin Creating,
           known \/ x.pc \in Creating \cup {"idle"},
           failures' = 0 /\ deaths' = 0 => (x.pc = "committing" <=> task[t].pc = "committing")
    PROVE  Inv'
<1>1. Types /\ task \in [Tasks -> TaskType] /\ x \in TaskType
  BY DEF Inv, Types, Fits
<1>2. task'[t] = x /\ \A u \in Tasks \ {t} : task'[u] = task[u]
  BY <1>1
<1>3. Types'
  BY <1>1 DEF Types, Watched
<1>4. \A u \in Tasks : Fits(task[u])'
  <2>1. \A u \in Tasks : Fits(task'[u])
    BY <1>2 DEF Inv
  <2>2. QED
    BY <2>1 DEF Fits, Expired, Older
<1>5. OneCreation'
  BY <1>2 DEF Inv, OneCreation
<1>6. ReadyIsComplete' /\ Hidden'
  BY <1>2 DEF Inv, ReadyIsComplete, Hidden
<1>7. ASSUME ~overlapped' PROVE Solo'
  <2>1. ~overlapped /\ Solo /\ \A u, v \in Tasks : u # v => ~(Writing(u)' /\ Writing(v)')
    BY <1>7 DEF Watched, Inv
  <2>2. \A u \in Tasks : Undisturbed(task'[u])
    BY <1>2, <2>1 DEF Solo
  <2>3. \A u \in Tasks : Undisturbed(task[u])'
    BY <2>2 DEF Undisturbed
  <2>4. (export # NULL /\ export.status = "expired" => Expired(export))'
    BY <2>1 DEF Solo, Expired
  <2>5. RowCounts'
    <3> SUFFICES ASSUME deaths' = 0, failures' = 0, file # NULL
                 PROVE  /\ export # NULL
                        /\ (\A u \in Tasks : task'[u].pc # "committing") => export.row_count = file
      BY DEF RowCounts
    <3>1. \A u \in Tasks : task'[u].pc = "committing" <=> task[u].pc = "committing"
      BY <1>2
    <3>2. QED
      BY <2>1, <3>1 DEF Solo, RowCounts
  <2>6. QED
    BY <2>1, <2>3, <2>4, <2>5 DEF Solo
<1>8. QED
  BY <1>3, <1>4, <1>5, <1>6, <1>7 DEF Inv

(* A task that is done, with no file of its own between disk and row.      *)
LEMMA FinishStep ==
    ASSUME Inv, Watched, NEW t \in Tasks, Finish(t),
           UNCHANGED <<export, file, matching, now, lost, known>>, unmarked' \in BOOLEAN,
           failures' \in Nat, deaths' \in Nat,
           failures' = 0 => failures = 0, deaths' = 0 => deaths = 0,
           failures' = 0 /\ deaths' = 0 => task[t].pc # "committing"
    PROVE  Inv'
<1>1. Fits(Idle) /\ Undisturbed(Idle) /\ Idle.pc = "idle"
  BY IdleIsATask DEF Idle, Fits, Undisturbed, Holders, Generating
<1>2. QED
  BY <1>1, TaskStep DEF Finish, Creating

LEMMA TaskFits ==
    ASSUME Inv, NEW t \in Tasks
    PROVE  /\ task[t] \in TaskType
           /\ Fits(task[t])
           /\ ~overlapped => Undisturbed(task[t])
           /\ failures \in Nat /\ deaths \in Nat /\ unmarked \in BOOLEAN
           /\ export \in Export \cup {NULL}
           /\ task[t].pc \notin Creating \cup {"idle"} => known
BY DEF Inv, Types, Solo, Hidden

LEMMA CountRowsInv == ASSUME Inv, Watched, NEW c \in Clients, CountRows(c) PROVE Inv'
<1>1. c \in Tasks /\ (\A u \in Tasks : task[u].pc = "idle")
  BY DEF Tasks, CountRows
<1>2. CASE matching <= MaxRows
  <2> DEFINE x == [task[c] EXCEPT !.pc = "creating"]
  <2>1. x.pc = "creating" /\ x \in TaskType
    BY <1>1, TaskFits DEF TaskType
  <2>2. Fits(x) /\ Undisturbed(x)
    BY <2>1 DEF Fits, Undisturbed, Holders, Generating, CountRows
  <2>3. task' = [task EXCEPT ![c] = x]
    BY <1>2 DEF CountRows, Goto
  <2> HIDE DEF x
  <2>4. QED
    BY <1>1, <2>1, <2>2, <2>3, TaskFits, TaskStep DEF CountRows, World, Creating
<1>3. CASE ~(matching <= MaxRows)
  BY <1>1, <1>3, TaskFits, FinishStep DEF CountRows, World
<1>4. QED
  BY <1>2, <1>3

(* A task that loads the row and is about to change its copy.              *)
LEMMA HoldingFits ==
    ASSUME Inv, export # NULL, NEW pc \in {"streaming", "marking", "expiring"},
           NEW obj \in Export,
           pc = "streaming" => obj = export,
           pc = "streaming" /\ ~overlapped => export.status # "expired",
           pc = "marking" => export.status = "pending" /\ obj = [export EXCEPT !.status = "failed"],
           pc = "expiring" => Expired(export) /\ obj = [export EXCEPT !.status = "expired"]
    PROVE  LET x == [pc |-> pc, was |-> export, obj |-> obj, rows |-> NULL]
           IN  Fits(x) /\ (~overlapped => Undisturbed(x))
<1> DEFINE x == [pc |-> pc, was |-> export, obj |-> obj, rows |-> NULL]
<1>1. export \in Export
  BY DEF Inv, Types
<1>2. x \in TaskType /\ x.pc = pc /\ x.was = export /\ x.obj = obj
  BY <1>1 DEF TaskType
<1> HIDE DEF x
<1>3. Fits(x)
  BY <1>1, <1>2 DEF Fits, Holders, Generating, Older
<1>4. ~overlapped => Undisturbed(x)
  BY <1>2 DEF Undisturbed, Holders, Generating
<1>5. QED
  BY <1>3, <1>4 DEF x

LEMMA HoldingStep ==
    ASSUME Inv, Watched, NEW t \in Tasks, export # NULL,
           NEW pc \in {"streaming", "marking", "expiring"}, NEW obj \in Export,
           Holding(t, pc, obj),
           task[t].pc # "committing", known,
           UNCHANGED <<export, file, World, failures, deaths>>,
           pc = "streaming" => obj = export,
           pc = "streaming" /\ ~overlapped => export.status # "expired",
           pc = "marking" => export.status = "pending" /\ obj = [export EXCEPT !.status = "failed"],
           pc = "expiring" => Expired(export) /\ obj = [export EXCEPT !.status = "expired"]
    PROVE  Inv'
<1> DEFINE x == [pc |-> pc, was |-> export, obj |-> obj, rows |-> NULL]
<1>1. Fits(x) /\ (~overlapped => Undisturbed(x))
  BY HoldingFits
<1>2. task' = [task EXCEPT ![t] = x] /\ x.pc = pc
  BY DEF Holding
<1> HIDE DEF x
<1>3. QED
  BY <1>1, <1>2, TaskFits, TaskStep DEF World, Creating

LEMMA StartGenerationInv == ASSUME Inv, Watched, StartGeneration PROVE Inv'
<1>1. Background \in Tasks /\ task[Background].pc = "spawned"
  BY DEF Tasks, StartGeneration
<1>2. export # NULL /\ export \in Export /\ known /\ (~overlapped => export.status = "pending")
  BY <1>1, TaskFits DEF Fits, Undisturbed, Creating
<1>3. QED
  BY <1>1, <1>2, HoldingStep DEF StartGeneration, World

LEMMA ReadForMarkInv == ASSUME Inv, Watched, ReadForMark PROVE Inv'
<1>1. Background \in Tasks /\ task[Background].pc = "failing"
  BY DEF Tasks, ReadForMark
<1>2. export # NULL /\ export \in Export /\ known
  BY <1>1, TaskFits DEF Fits, Creating
<1>3. CASE export.status = "pending"
  <2>1. [export EXCEPT !.status = "failed"] \in Export
    BY <1>2 DEF Export, ExportStatus
  <2>2. QED
    BY <1>1, <1>2, <1>3, <2>1, HoldingStep DEF ReadForMark, World
<1>4. CASE export.status # "pending"
  BY <1>1, <1>4, TaskFits, FinishStep DEF ReadForMark, World
<1>5. QED
  BY <1>3, <1>4

LEMMA DownloadInv == ASSUME Inv, Watched, NEW c \in Clients, Download(c) PROVE Inv'
<1>1. c \in Tasks /\ task[c].pc = "idle" /\ export # NULL /\ export \in Export /\ known
  BY TaskFits DEF Tasks, Download
<1>2. CASE Expired(export)
  <2>1. [export EXCEPT !.status = "expired"] \in Export
    BY <1>1 DEF Export, ExportStatus
  <2>2. QED
    BY <1>1, <1>2, <2>1, HoldingStep DEF Download, World
<1>3. CASE ~Expired(export) /\ export.status = "ready" /\ file # NULL
  <2> DEFINE x == [task[c] EXCEPT !.pc = "serving"]
  <2>1. x.pc = "serving" /\ x \in TaskType
    BY <1>1, TaskFits DEF TaskType
  <2>2. Fits(x) /\ Undisturbed(x)
    BY <1>1, <2>1 DEF Fits, Undisturbed, Holders, Generating
  <2>3. task' = [task EXCEPT ![c] = x]
    BY <1>3 DEF Download, Goto
  <2> HIDE DEF x
  <2>4. QED
    BY <1>1, <2>1, <2>2, <2>3, TaskFits, TaskStep DEF Download, World, Creating
<1>4. CASE ~Expired(export) /\ ~(export.status = "ready" /\ file # NULL)
  <2>1. ~overlapped => export.status # "expired"
    BY <1>1, <1>4 DEF Inv, Solo
  <2>2. QED
    BY <1>1, <1>4, <2>1, HoldingStep DEF Download, World
<1>5. QED
  BY <1>2, <1>3, <1>4

LEMMA StreamRowsInv == ASSUME Inv, Watched, NEW t \in Tasks, StreamRows(t) PROVE Inv'
<1> DEFINE x == [task[t] EXCEPT !.pc = "replacing", !.rows = matching]
<1>1. task[t].pc = "streaming" /\ matching \in Nat
  BY DEF StreamRows, Inv, Types
<1>2. x.pc = "replacing" /\ x.rows = matching /\ x.was = task[t].was /\ x.obj = task[t].obj
      /\ x \in TaskType
  BY <1>1, TaskFits DEF TaskType
<1>3. task' = [task EXCEPT ![t] = x]
  BY DEF StreamRows
<1> HIDE DEF x
<1>4. Fits(x) /\ (~overlapped => Undisturbed(x))
  BY <1>1, <1>2, TaskFits DEF Fits, Undisturbed, Holders, Generating
<1>5. QED
  BY <1>1, <1>2, <1>3, <1>4, TaskFits, TaskStep DEF StreamRows, World, Creating

LEMMA GenerationFailsInv == ASSUME Inv, Watched, NEW t \in Tasks, GenerationFails(t) PROVE Inv'
<1>1. failures' \in Nat /\ failures' # 0 /\ deaths' = deaths /\ export # NULL /\ known
  <2>1. failures' = failures + 1 /\ deaths' = deaths /\ failures \in Nat
    BY DEF GenerationFails, Inv, Types
  <2>2. task[t].pc \in Holders /\ Fits(task[t])
    BY DEF GenerationFails, Holders, Inv
  <2>3. export # NULL
    BY <2>2 DEF Fits
  <2>4. known
    BY <2>2, TaskFits DEF Holders, Creating
  <2>5. QED
    BY <2>1, <2>3, <2>4
<1>2. CASE t = Background
  <2> DEFINE x == [Idle EXCEPT !.pc = "failing"]
  <2>1. x.pc = "failing" /\ x \in TaskType
    BY DEF Idle, TaskType
  <2>2. task' = [task EXCEPT ![t] = x]
    BY <1>2 DEF GenerationFails
  <2> HIDE DEF x
  <2>3. Fits(x) /\ Undisturbed(x)
    BY <1>1, <2>1 DEF Fits, Undisturbed, Holders, Generating
  <2>4. QED
    BY <1>1, <2>1, <2>2, <2>3, TaskFits, TaskStep DEF GenerationFails, World, Creating
<1>3. CASE t # Background
  BY <1>1, <1>3, TaskFits, FinishStep DEF GenerationFails, World, Finish
<1>4. QED
  BY <1>2, <1>3

LEMMA RequestFailsInv == ASSUME Inv, Watched, NEW c \in Clients, RequestFails(c) PROVE Inv'
<1>1. c \in Tasks /\ failures' \in Nat /\ failures' # 0 /\ deaths' = deaths
  BY DEF Tasks, RequestFails, Inv, Types
<1>2. QED
  BY <1>1, TaskFits, FinishStep DEF RequestFails, World

LEMMA MarkingFailsInv == ASSUME Inv, Watched, MarkingFails PROVE Inv'
<1>1. Background \in Tasks /\ failures' \in Nat /\ failures' # 0 /\ deaths' = deaths
  BY DEF Tasks, MarkingFails, Inv, Types
<1>2. QED
  BY <1>1, TaskFits, FinishStep DEF MarkingFails

LEMMA ServeInv == ASSUME Inv, Watched, NEW c \in Clients, Serve(c) PROVE Inv'
<1>1. c \in Tasks /\ task[c].pc = "serving"
  BY DEF Tasks, Serve
<1>2. QED
  BY <1>1, TaskFits, FinishStep DEF Serve, World

LEMMA DieInv == ASSUME Inv, Watched, NEW t \in Tasks, Die(t) PROVE Inv'
<1>1. deaths' \in Nat /\ deaths' # 0 /\ failures' = failures /\ failures \in Nat
  BY TaskFits DEF Die
<1>2. QED
  BY <1>1, TaskFits, FinishStep DEF Die, World

-----------------------------------------------------------------------------
(* Steps that commit the row.                                              *)

(* A writer commits and lets go of its copy: what the row has is kept.     *)
LEMMA CommitStep ==
    ASSUME Inv, Watched, NEW t \in Tasks, NEW x \in TaskType,
           task' = [task EXCEPT ![t] = x], x.pc \in {"idle", "serving"},
           task[t].pc \in {"committing", "marking", "expiring"},
           export \in Export, export' \in Export, Older(export, export'),
           UNCHANGED <<file, World, failures, deaths>>,
           ReadyIsComplete',
           ~overlapped => RowCounts' /\ (export'.status = "expired" => Expired(export'))
    PROVE  Inv'
<1>1. Types /\ task \in [Tasks -> TaskType]
  BY DEF Inv, Types
<1>2. task'[t] = x /\ \A u \in Tasks \ {t} : task'[u] = task[u]
  BY <1>1
<1>3. Types'
  BY <1>1 DEF Types, Watched, World
<1>4. export # NULL /\ export' # NULL
  BY NullAssumption
<1>5. \A u \in Tasks : Fits(task[u])'
  <2> SUFFICES ASSUME NEW u \in Tasks PROVE Fits(task[u])'
    OBVIOUS
  <2>1. CASE u = t
    BY <1>2, <1>4, <2>1 DEF Fits, Holders, Generating
  <2>2. CASE u # t
    <3> DEFINE y == task[u]
    <3>1. Fits(y) /\ y \in TaskType /\ task'[u] = y
      BY <1>2, <2>2, TaskFits
    <3> HIDE DEF y
    <3>2. y.pc \in Holders => Older(y.was, export')
      BY <3>1 DEF Fits, Older
    <3>3. y.pc = "expiring" => y.was.expires_at # NULL /\ y.was.expires_at <= now'
      BY <3>1 DEF Fits, Expired, World
    <3>4. QED
      BY <1>4, <3>1, <3>2, <3>3 DEF Fits, Expired, World
  <2>3. QED
    BY <2>1, <2>2
<1>6. OneCreation' /\ Hidden'
  <2>1. known
    BY TaskFits DEF Creating
  <2>2. QED
    BY <1>2, <1>4, <2>1 DEF Inv, OneCreation, Hidden, Creating, World
<1>7. ASSUME ~overlapped' PROVE Solo'
  <2>1. ~overlapped /\ Solo /\ \A u, v \in Tasks : u # v => ~(Writing(u)' /\ Writing(v)')
    BY <1>7 DEF Watched, Inv
  <2>2. Writing(t)
    BY DEF Writing
  <2>3. \A u \in Tasks \ {t} : ~Writing(u)
    BY <2>1, <2>2 DEF Solo
  <2>4. \A u \in Tasks : Undisturbed(task[u])'
    BY <1>2, <2>3 DEF Undisturbed, Writing, Holders, Generating
  <2>5. (export # NULL /\ export.status = "expired" => Expired(export))'
    BY <2>1 DEF Expired, World
  <2>6. QED
    BY <2>1, <2>4, <2>5 DEF Solo
<1>8. QED
  BY <1>3, <1>5, <1>6, <1>7 DEF Inv

LEMMA ReadyFits ==
    ASSUME Inv, NEW t \in Tasks, task[t].pc = "committing",
           NEW row, row = Updated(export, task[t].was, Ready(task[t].obj, task[t].rows))
    PROVE  /\ export \in Export /\ row \in Export /\ Older(export, row)
           /\ row.file_path /\ row.row_count # NULL /\ row.expires_at # NULL
           /\ ~overlapped => row.status = "ready" /\ row.row_count = task[t].rows
                             /\ export.status # "expired"
<1> DEFINE was == task[t].was
           rows == task[t].rows
           until == now + Ttl
           obj == [was EXCEPT !.status = "ready", !.row_count = rows, !.file_path = TRUE,
                              !.expires_at = until]
<1>1. export \in Export /\ was \in Export /\ rows \in Nat /\ Older(was, export)
      /\ task[t].obj = was
  BY TaskFits DEF Fits, Holders, Generating
<1>2. until \in Nat
  BY LimitsAssumption DEF Inv, Types
<1>3. row = Updated(export, was, obj)
  BY <1>1 DEF Ready
<1>4. ~overlapped => was = export /\ was.status # "expired"
  BY TaskFits DEF Undisturbed, Holders, Generating
<1> HIDE DEF was, rows, until
<1>5. obj \in Export /\ obj.status = "ready" /\ obj.row_count = rows /\ obj.file_path = TRUE
      /\ obj.expires_at = until /\ rows # NULL /\ until # NULL
  BY <1>1, <1>2, NullAssumption DEF Export, ExportStatus
<1> HIDE DEF obj
<1> DEFINE a == Column(export.status, was.status, "ready")
           b == Column(export.row_count, was.row_count, rows)
           d == Column(export.file_path, was.file_path, TRUE)
           e == Column(export.expires_at, was.expires_at, until)
<1>6. row = [status |-> a, row_count |-> b, file_path |-> d, expires_at |-> e]
  BY <1>3, <1>5, Zenon DEF Updated
<1>7. b \in Nat /\ e \in Nat
  BY <1>1, <1>2, <1>5, NullAssumption DEF Column, Export, Older
<1>8. a \in ExportStatus
  BY <1>1 DEF Column, Export, ExportStatus
<1>9. d = TRUE
  <2>1. export.file_path \in BOOLEAN /\ was.file_path \in BOOLEAN
        /\ (was.file_path => export.file_path)
    BY <1>1 DEF Export, Older
  <2>2. QED
    BY <2>1, Zenon DEF Column
<1> HIDE DEF a, b, d, e
<1>10. row \in Export /\ row.file_path = TRUE /\ row.row_count \in Nat /\ row.expires_at \in Nat
  BY <1>6, <1>7, <1>8, <1>9 DEF Export
<1>11. row.row_count # NULL /\ row.expires_at # NULL
  BY <1>10, NullAssumption
<1>12. Older(export, row)
  BY <1>10, <1>11 DEF Older
<1>13. ~overlapped => row.status = "ready" /\ row.row_count = rows
  BY <1>1, <1>3, <1>4, <1>5 DEF Updated, Column
<1>14. QED
  BY <1>1, <1>4, <1>10, <1>11, <1>12, <1>13 DEF rows

LEMMA CommitReadyInv == ASSUME Inv, Watched, NEW t \in Tasks, CommitReady(t) PROVE Inv'
<1> DEFINE x == IF t = Background THEN Idle ELSE [Idle EXCEPT !.pc = "serving"]
<1>1. task[t].pc = "committing"
      /\ export' = Updated(export, task[t].was, Ready(task[t].obj, task[t].rows))
      /\ task' = [task EXCEPT ![t] = x]
  BY DEF CommitReady
<1>2. x \in TaskType /\ x.pc \in {"idle", "serving"}
  BY DEF Idle, TaskType
<1> HIDE DEF x
<1>3. /\ export \in Export /\ export' \in Export /\ Older(export, export')
      /\ export'.file_path /\ export'.row_count # NULL /\ export'.expires_at # NULL
      /\ ~overlapped => export'.status = "ready" /\ export'.row_count = task[t].rows
  BY <1>1, ReadyFits
<1>4. UNCHANGED <<file, World, failures, deaths>>
  BY DEF CommitReady, World
<1>5. ReadyIsComplete'
  <2>1. lost = 0 => file # NULL
    BY <1>1, TaskFits DEF Fits
  <2>2. QED
    BY <1>3, <1>4, <2>1 DEF ReadyIsComplete, World
<1>6. ~overlapped => RowCounts'
  <2>1. ~overlapped /\ deaths = 0 /\ failures = 0 /\ file # NULL => file = task[t].rows
    BY <1>1, TaskFits DEF Undisturbed
  <2>2. QED
    BY <1>3, <1>4, <2>1, NullAssumption DEF RowCounts
<1>7. QED
  BY <1>1, <1>2, <1>3, <1>4, <1>5, <1>6, CommitStep

(* A commit of nothing but a status, FAILED or EXPIRED.                    *)
LEMMA StatusFits ==
    ASSUME Inv, NEW t \in Tasks, NEW status \in {"failed", "expired"},
           task[t].pc \in {"marking", "expiring"},
           task[t].obj = [task[t].was EXCEPT !.status = status],
           NEW row, row = Updated(export, task[t].was, task[t].obj)
    PROVE  /\ export \in Export /\ row \in Export /\ Older(export, row)
           /\ row.row_count = export.row_count /\ row.file_path = export.file_path
           /\ row.expires_at = export.expires_at
           /\ row.status \in {export.status, status}
           /\ ~overlapped => row.status = status /\ task[t].was = export
<1> DEFINE was == task[t].was
           obj == [was EXCEPT !.status = status]
<1>1. export \in Export /\ was \in Export
  BY TaskFits DEF Fits, Holders
<1>2. row = Updated(export, was, obj)
  OBVIOUS
<1>3. ~overlapped => was = export
  BY TaskFits DEF Undisturbed, Holders
<1> HIDE DEF was
<1>4. obj \in Export /\ obj.status = status /\ obj.row_count = was.row_count
      /\ obj.file_path = was.file_path /\ obj.expires_at = was.expires_at
  BY <1>1 DEF Export, ExportStatus
<1> HIDE DEF obj
<1>5. row \in Export
  BY <1>1, <1>2, <1>4 DEF Updated, Column, Export, ExportStatus
<1>6. row.row_count = export.row_count /\ row.file_path = export.file_path
      /\ row.expires_at = export.expires_at /\ row.status \in {export.status, status}
  BY <1>1, <1>2, <1>4 DEF Updated, Column
<1>7. ~overlapped => row.status = status
  BY <1>2, <1>3, <1>4 DEF Updated, Column
<1>8. QED
  BY <1>1, <1>3, <1>5, <1>6, <1>7 DEF Older, was

(* The row and the file are as complete, and as counted, as they were.     *)
LEMMA StatusStep ==
    ASSUME Inv, Watched, NEW t \in Tasks, NEW status \in {"failed", "expired"},
           task[t].pc \in {"marking", "expiring"},
           task[t].obj = [task[t].was EXCEPT !.status = status],
           status = "expired" => task[t].pc = "expiring",
           export' = Updated(export, task[t].was, task[t].obj),
           Finish(t),
           UNCHANGED <<file, World, failures, deaths>>
    PROVE  Inv'
<1>1. /\ export \in Export /\ export' \in Export /\ Older(export, export')
      /\ export'.row_count = export.row_count /\ export'.file_path = export.file_path
      /\ export'.expires_at = export.expires_at
      /\ export'.status \in {export.status, status}
      /\ ~overlapped => export'.status = status /\ task[t].was = export
  BY StatusFits
<1>2. ReadyIsComplete'
  BY <1>1, NullAssumption DEF Inv, ReadyIsComplete, World
<1>3. ~overlapped => RowCounts'
  <2> SUFFICES ASSUME ~overlapped, deaths = 0, failures = 0, file # NULL,
                      \A u \in Tasks : task'[u].pc # "committing"
               PROVE  export'.row_count = file
    BY <1>1, NullAssumption DEF RowCounts
  <2>1. \A u \in Tasks : task[u].pc # "committing"
    BY DEF Finish, Inv, Types
  <2>2. QED
    BY <1>1, <2>1 DEF Inv, Solo, RowCounts
<1>4. ~overlapped /\ export'.status = "expired" => Expired(export')
  <2>1. status = "expired" => Expired(task[t].was)
    BY TaskFits DEF Fits
  <2>2. QED
    BY <1>1, <2>1 DEF Expired
<1>5. Idle.pc = "idle"
  BY DEF Idle
<1>6. QED
  BY <1>1, <1>2, <1>3, <1>4, <1>5, IdleIsATask, CommitStep DEF Finish

LEMMA CommitFailedInv == ASSUME Inv, Watched, CommitFailed PROVE Inv'
<1>1. Background \in Tasks /\ task[Background].pc = "marking"
  BY DEF Tasks, CommitFailed
<1>2. task[Background].obj = [task[Background].was EXCEPT !.status = "failed"]
  BY <1>1, TaskFits DEF Fits
<1>3. QED
  BY <1>1, <1>2, StatusStep DEF CommitFailed, World

LEMMA CommitExpiredInv == ASSUME Inv, Watched, NEW c \in Clients, CommitExpired(c) PROVE Inv'
<1>1. c \in Tasks /\ task[c].pc = "expiring"
  BY DEF Tasks, CommitExpired
<1>2. task[c].obj = [task[c].was EXCEPT !.status = "expired"]
  BY <1>1, TaskFits DEF Fits
<1>3. QED
  BY <1>1, <1>2, StatusStep DEF CommitExpired, World

-----------------------------------------------------------------------------
(* The creation of the row, and steps of the world.                        *)

LEMMA CreateExportInv == ASSUME Inv, Watched, NEW c \in Clients, CreateExport(c) PROVE Inv'
<1>1. c \in Tasks /\ task[c].pc = "creating" /\ export' = Pending
      /\ UNCHANGED <<file, World, failures, deaths>>
  BY DEF Tasks, CreateExport
<1>2. export = NULL /\ ~known
  BY <1>1, TaskFits DEF Fits, Inv, Hidden
<1>3. \A u \in Tasks \ {c} : task[u].pc = "idle" /\ task[u] \in TaskType
  BY <1>1, <1>2 DEF Inv, Types, OneCreation, Hidden, Creating, Fits
<1>4. Pending \in Export /\ Pending # NULL /\ Pending.status = "pending"
  <2>1. Pending \in Export
    BY Zenon DEF Pending, Export, ExportStatus
  <2>2. Pending.status = "pending"
    BY DEF Pending
  <2>3. QED
    BY <2>1, <2>2, NullAssumption
<1> DEFINE x == [task[c] EXCEPT !.pc = "refreshing"]
<1>5. x \in TaskType /\ x.pc = "refreshing"
  BY <1>1, TaskFits DEF TaskType
<1>6. task' = [task EXCEPT ![c] = x]
  BY DEF CreateExport, Goto
<1> HIDE DEF x
<1>7. /\ task' \in [Tasks -> TaskType] /\ task'[c] = x
      /\ \A u \in Tasks \ {c} : task'[u].pc = "idle" /\ task'[u] \in TaskType
  BY <1>1, <1>3, <1>5, <1>6 DEF Inv, Types
<1>8. Types'
  BY <1>1, <1>4, <1>7 DEF Inv, Types, Watched, World
<1>9. \A u \in Tasks : Fits(task[u])'
  BY <1>1, <1>2, <1>4, <1>5, <1>7 DEF Fits, Holders, Generating, World
<1>10. OneCreation' /\ Hidden'
  BY <1>1, <1>2, <1>5, <1>7 DEF OneCreation, Hidden, Creating, World
<1>11. ReadyIsComplete'
  BY <1>1, <1>4 DEF ReadyIsComplete
<1>12. ASSUME ~overlapped' PROVE Solo'
  <2>1. ~overlapped /\ RowCounts
    BY <1>12 DEF Watched, Inv, Solo
  <2>2. \A u \in Tasks : Undisturbed(task[u])'
    BY <1>5, <1>7 DEF Undisturbed, Holders, Generating
  <2>3. \A u, v \in Tasks : u # v => ~(Writing(u)' /\ Writing(v)')
    BY <1>12 DEF Watched
  <2>4. RowCounts'
    BY <1>1, <1>2, <2>1 DEF RowCounts
  <2>5. QED
    BY <1>1, <1>4, <2>2, <2>3, <2>4 DEF Solo
<1>13. QED
  BY <1>8, <1>9, <1>10, <1>11, <1>12 DEF Inv

LEMMA SpawnGenerationInv ==
    ASSUME Inv, Watched, NEW c \in Clients, SpawnGeneration(c) PROVE Inv'
<1>1. c \in Tasks /\ Background \in Tasks /\ c # Background /\ task[c].pc = "refreshing"
      /\ known' = TRUE
      /\ UNCHANGED <<export, file, matching, now, lost, unmarked, failures, deaths>>
  BY TasksAssumption DEF Tasks, SpawnGeneration
<1>2. export = Pending /\ export # NULL /\ ~known
  BY <1>1, TaskFits DEF Fits, Inv, Hidden
<1>3. \A u \in Tasks \ {c} : task[u].pc = "idle"
  BY <1>1, <1>2 DEF Inv, OneCreation, Hidden, Creating
<1>4. export.status = "pending"
  BY <1>2 DEF Pending
<1> DEFINE x == [task[Background] EXCEPT !.pc = "spawned"]
<1>5. x \in TaskType /\ x.pc = "spawned"
  BY <1>1, TaskFits DEF TaskType
<1>6. task' = [task EXCEPT ![c] = Idle, ![Background] = x]
  BY <1>1 DEF SpawnGeneration
<1> HIDE DEF x
<1>7. /\ task' \in [Tasks -> TaskType] /\ task'[Background] = x
      /\ \A u \in Tasks \ {Background} : task'[u].pc = "idle" /\ task'[u] \in TaskType
  BY <1>1, <1>3, <1>5, <1>6, IdleIsATask DEF Inv, Types, Idle
<1>8. Types'
  BY <1>1, <1>7 DEF Inv, Types, Watched
<1>9. \A u \in Tasks : Fits(task[u])'
  BY <1>1, <1>2, <1>5, <1>7 DEF Fits, Holders, Generating
<1>10. OneCreation' /\ Hidden'
  BY <1>1, <1>2, <1>5, <1>7 DEF OneCreation, Hidden, Creating
<1>11. ReadyIsComplete'
  BY <1>1, <1>4 DEF ReadyIsComplete
<1>12. ASSUME ~overlapped' PROVE Solo'
  <2>1. ~overlapped /\ RowCounts
    BY <1>12 DEF Watched, Inv, Solo
  <2>2. \A u \in Tasks : Undisturbed(task[u])'
    BY <1>1, <1>4, <1>5, <1>7 DEF Undisturbed, Holders, Generating
  <2>3. \A u, v \in Tasks : u # v => ~(Writing(u)' /\ Writing(v)')
    BY <1>12 DEF Watched
  <2>4. RowCounts'
    <3>1. \A u \in Tasks : task[u].pc # "committing"
      BY <1>1, <1>3
    <3>2. QED
      BY <1>1, <2>1, <3>1 DEF RowCounts
  <2>5. QED
    BY <1>1, <1>4, <2>2, <2>3, <2>4 DEF Solo
<1>13. QED
  BY <1>8, <1>9, <1>10, <1>11, <1>12 DEF Inv

LEMMA ReplaceFileInv == ASSUME Inv, Watched, NEW t \in Tasks, ReplaceFile(t) PROVE Inv'
<1> DEFINE x == [task[t] EXCEPT !.pc = "committing"]
<1>1. task[t].pc = "replacing" /\ file' = task[t].rows
      /\ UNCHANGED <<export, World, failures, deaths>>
  BY DEF ReplaceFile, World
<1>2. export # NULL /\ task[t].rows \in Nat /\ file' # NULL
  BY <1>1, TaskFits, NullAssumption DEF Fits, Holders
<1>3. x.pc = "committing" /\ x.rows = task[t].rows /\ x.was = task[t].was
      /\ x.obj = task[t].obj /\ x \in TaskType
  BY TaskFits DEF TaskType
<1>4. task' = [task EXCEPT ![t] = x]
  BY DEF ReplaceFile, Goto
<1> HIDE DEF x
<1>5. task' \in [Tasks -> TaskType] /\ task'[t] = x /\ \A u \in Tasks \ {t} : task'[u] = task[u]
  BY <1>3, <1>4 DEF Inv, Types
<1>6. Types'
  BY <1>1, <1>2, <1>5 DEF Inv, Types, Watched, World
<1>7. \A u \in Tasks : Fits(task[u])'
  <2> SUFFICES ASSUME NEW u \in Tasks PROVE Fits(task[u])'
    OBVIOUS
  <2>1. CASE u = t
    <3>1. Fits(task[t])
      BY TaskFits
    <3>2. /\ x.was \in Export /\ x.obj = x.was /\ x.rows \in Nat
          /\ Older(x.was, export')
      BY <1>1, <1>3, <3>1 DEF Fits, Holders, Generating
    <3>3. QED
      BY <1>1, <1>2, <1>3, <1>5, <2>1, <3>2 DEF Fits, Holders, Generating
  <2>2. CASE u # t
    <3> DEFINE y == task[u]
    <3>1. Fits(y) /\ task'[u] = y
      BY <1>5, <2>2, TaskFits
    <3>2. y.pc = "expiring" => Expired(y.was)'
      BY <1>1, <3>1 DEF Fits, Expired, World
    <3>3. QED
      BY <1>1, <1>2, <3>1, <3>2 DEF Fits, World
  <2>3. QED
    BY <2>1, <2>2
<1>8. OneCreation' /\ Hidden'
  <2>1. known
    BY <1>1, TaskFits DEF Creating
  <2>2. QED
    BY <1>1, <1>2, <1>3, <1>5, <2>1 DEF Inv, OneCreation, Hidden, Creating, World
<1>9. ReadyIsComplete'
  BY <1>1, <1>2 DEF Inv, ReadyIsComplete
<1>10. ASSUME ~overlapped' PROVE Solo'
  <2>1. ~overlapped /\ Solo /\ \A u, v \in Tasks : u # v => ~(Writing(u)' /\ Writing(v)')
    BY <1>10 DEF Watched, Inv
  <2>2. \A u \in Tasks \ {t} : ~Writing(u)
    BY <1>1, <2>1 DEF Solo, Writing
  <2>3. Undisturbed(task[t])'
    BY <1>1, <1>3, <1>5, <2>1, TaskFits DEF Undisturbed, Holders, Generating
  <2>4. \A u \in Tasks \ {t} : Undisturbed(task[u])'
    BY <1>5, <2>2 DEF Undisturbed, Writing, Holders, Generating
  <2>5. RowCounts'
    BY <1>1, <1>2, <1>3, <1>5 DEF RowCounts
  <2>6. QED
    BY <1>1, <2>1, <2>3, <2>4, <2>5 DEF Solo, Expired, World
<1>11. QED
  BY <1>6, <1>7, <1>8, <1>9, <1>10 DEF Inv

(* The world changes and no task moves.                                    *)
LEMMA WorldInv == ASSUME Inv, Watched, LoseFile \/ AddRow \/ Tick PROVE Inv'
<1>1. /\ UNCHANGED <<export, task, failures, deaths, known, unmarked>>
      /\ file' \in {file, NULL} /\ matching' \in Nat
      /\ now' \in Nat /\ now <= now' /\ lost' \in Nat
      /\ lost' = 0 => lost = 0 /\ file' = file
  BY DEF Inv, Types, LoseFile, AddRow, Tick
<1>2. Types'
  BY <1>1 DEF Inv, Types, Watched
<1>3. \A row \in Export : Expired(row) => Expired(row)'
  BY <1>1, NullAssumption DEF Expired, Export, Inv, Types
<1>4. \A u \in Tasks : Fits(task[u])'
  <2> SUFFICES ASSUME NEW u \in Tasks PROVE Fits(task[u])'
    OBVIOUS
  <2> DEFINE y == task[u]
  <2>1. Fits(y) /\ task'[u] = y
    BY <1>1, TaskFits
  <2>2. y.pc = "expiring" => Expired(y.was)'
    BY <1>1, <1>3, <2>1 DEF Fits, Holders
  <2>3. y.pc = "committing" /\ lost' = 0 => file' # NULL
    BY <1>1, <2>1 DEF Fits
  <2>4. QED
    BY <1>1, <2>1, <2>2, <2>3 DEF Fits, Older
<1>5. OneCreation' /\ Hidden'
  BY <1>1 DEF Inv, OneCreation, Hidden
<1>6. ReadyIsComplete'
  BY <1>1 DEF Inv, ReadyIsComplete
<1>7. ASSUME ~overlapped' PROVE Solo'
  <2>1. ~overlapped /\ Solo /\ \A u, v \in Tasks : u # v => ~(Writing(u)' /\ Writing(v)')
    BY <1>7 DEF Watched, Inv
  <2>2. \A u \in Tasks : Undisturbed(task[u])'
    BY <1>1, <2>1 DEF Solo, Undisturbed
  <2>3. (export # NULL /\ export.status = "expired" => Expired(export))'
    BY <1>1, <1>3, <2>1 DEF Solo, Inv, Types
  <2>4. RowCounts'
    BY <1>1, <2>1 DEF Solo, RowCounts
  <2>5. QED
    BY <2>1, <2>2, <2>3, <2>4 DEF Solo
<1>8. QED
  BY <1>2, <1>4, <1>5, <1>6, <1>7 DEF Inv

-----------------------------------------------------------------------------
LEMMA NextInv == Inv /\ [Next]_vars => Inv'
<1> SUFFICES ASSUME Inv, [Next]_vars PROVE Inv'
  OBVIOUS
<1>1. CASE Next
  <2>1. Watched /\ Step
    BY <1>1 DEF Next, Watched
  <2>2. CASE \E t \in Tasks : Generate(t)
    BY <2>1, <2>2, StreamRowsInv, ReplaceFileInv, CommitReadyInv, GenerationFailsInv DEF Generate
  <2>3. CASE BackgroundStep
    <3>1. Background \in Tasks
      BY DEF Tasks
    <3>2. QED
      BY <2>1, <2>2, <2>3, <3>1, StartGenerationInv, ReadForMarkInv, CommitFailedInv,
         MarkingFailsInv DEF BackgroundStep
  <2>4. CASE \E c \in Clients : ClientStep(c)
    <3>1. Clients \subseteq Tasks
      BY DEF Tasks
    <3>2. QED
      BY <2>1, <2>2, <2>4, <3>1, CountRowsInv, CreateExportInv, SpawnGenerationInv,
         RequestFailsInv, DownloadInv, CommitExpiredInv, ServeInv DEF ClientStep
  <2>5. QED
    BY <2>1, <2>3, <2>4, DieInv, WorldInv DEF Step
<1>2. CASE UNCHANGED vars
  <2>1. UNCHANGED <<export, file, World, task, failures, deaths, overlapped>>
    BY <1>2 DEF vars, World
  <2>2. Types' /\ OneCreation' /\ Hidden' /\ ReadyIsComplete'
    BY <2>1 DEF Inv, Types, OneCreation, Hidden, ReadyIsComplete, World
  <2>3. \A u \in Tasks : Fits(task[u])'
    BY <2>1 DEF Inv, Fits, Expired, Older, World
  <2>4. Solo => Solo'
    BY <2>1 DEF Solo, Undisturbed, Writing, Expired, RowCounts, World
  <2>5. QED
    BY <2>1, <2>2, <2>3, <2>4 DEF Inv
<1>3. QED
  BY <1>1, <1>2

LEMMA Invariant == Spec => []Inv
BY InitInv, NextInv, PTL DEF Spec

(* Every column, copy and counter keeps to its type: a status is always a  *)
(* value of the enumeration, whichever tasks have written it.              *)
THEOREM TypeCorrect == Spec => []TypeOK
<1>1. Inv => TypeOK
  BY DEF Inv, Types, TypeOK
<1>2. QED
  BY <1>1, Invariant, PTL

(* A READY export has its count, its expiry and, unless it has vanished,   *)
(* its file, however many downloads and tasks have written the row.        *)
THEOREM ReadyRowsAreComplete == Spec => []ReadyIsComplete
<1>1. Inv => ReadyIsComplete
  BY DEF Inv
<1>2. QED
  BY <1>1, Invariant, PTL

(* Without overlapping writers, failures and deaths, the row_count of a    *)
(* READY export is the number of rows in its file.                         *)
THEOREM CountMatchesFile == Spec => []RowCountMatchesFile
<1>1. Inv => RowCountMatchesFile
  <2> SUFFICES ASSUME Inv, file # NULL, ~overlapped, deaths = 0, failures = 0,
                      \A t \in Tasks : ~Writing(t)
               PROVE  export.row_count = file
    BY DEF RowCountMatchesFile
  <2>1. \A t \in Tasks : task[t].pc # "committing"
    BY DEF Writing
  <2>2. QED
    BY <2>1 DEF Inv, Solo, RowCounts
<1>2. QED
  BY <1>1, Invariant, PTL

(* Without overlapping writers an export goes forward only: READY to       *)
(* EXPIRED, and an expired link stays dead.                                *)
THEOREM LifecycleGoesForward == Spec => LifecycleForward
<1> DEFINE Forward == (export # NULL /\ ~overlapped') =>
              /\ export.status = "ready" => export'.status \in {"ready", "expired"}
              /\ export.status = "expired" => export'.status = "expired"
<1>1. Inv /\ [Next]_vars => [Forward]_vars
  <2> SUFFICES ASSUME Inv, Next, export # NULL, ~overlapped'
               PROVE  Forward
    OBVIOUS
  <2>1. ~overlapped /\ Step
    BY DEF Next
  <2>2. CASE \E t \in Tasks : CommitReady(t)
    <3>1. PICK t \in Tasks : CommitReady(t)
      BY <2>2
    <3>2. task[t].pc = "committing"
          /\ export' = Updated(export, task[t].was, Ready(task[t].obj, task[t].rows))
      BY <3>1 DEF CommitReady
    <3>3. QED
      BY <2>1, <3>2, ReadyFits
  <2>3. CASE CommitFailed
    <3>1. Background \in Tasks /\ task[Background].pc = "marking"
          /\ export' = Updated(export, task[Background].was, task[Background].obj)
      BY <2>3 DEF CommitFailed, Tasks
    <3>2. task[Background].obj = [task[Background].was EXCEPT !.status = "failed"]
          /\ task[Background].was.status = "pending"
      BY <3>1, TaskFits DEF Fits
    <3>3. QED
      BY <2>1, <3>1, <3>2, StatusFits
  <2>4. CASE \E c \in Clients : CommitExpired(c)
    <3>1. PICK c \in Clients : CommitExpired(c)
      BY <2>4
    <3>2. c \in Tasks /\ task[c].pc = "expiring"
          /\ export' = Updated(export, task[c].was, task[c].obj)
      BY <3>1 DEF CommitExpired, Tasks
    <3>3. task[c].obj = [task[c].was EXCEPT !.status = "expired"]
      BY <3>2, TaskFits DEF Fits
    <3>4. QED
      BY <2>1, <3>2, <3>3, StatusFits
  <2>5. CASE \E c \in Clients : CreateExport(c)
    <3>1. \A c \in Clients : c \in Tasks
      BY DEF Tasks
    <3>2. QED
      BY <2>5, <3>1, TaskFits DEF CreateExport, Fits
  <2>6. CASE UNCHANGED export
    BY <2>6
  <2>7. CASE \E t \in Tasks : StreamRows(t) \/ ReplaceFile(t) \/ GenerationFails(t) \/ Die(t)
    BY <2>6, <2>7 DEF StreamRows, ReplaceFile, GenerationFails, Die
  <2>8. CASE StartGeneration \/ ReadForMark \/ MarkingFails
    BY <2>6, <2>8 DEF StartGeneration, ReadForMark, MarkingFails
  <2>9. CASE \E c \in Clients : \/ CountRows(c) \/ SpawnGeneration(c) \/ RequestFails(c)
                                \/ Download(c) \/ Serve(c)
    BY <2>6, <2>9 DEF CountRows, SpawnGeneration, RequestFails, Download, Serve
  <2>10. CASE LoseFile \/ AddRow \/ Tick
    BY <2>6, <2>10 DEF LoseFile, AddRow, Tick
  <2>11. Background \in Tasks /\ \A c \in Clients : c \in Tasks
    BY DEF Tasks
  <2>12. QED
    BY <2>1, <2>2, <2>3, <2>4, <2>5, <2>7, <2>8, <2>9, <2>10, <2>11
       DEF Step, BackgroundStep, ClientStep, Generate
<1>2. QED
  BY <1>1, Invariant, PTL DEF Spec, LifecycleForward
=============================================================================

----------------------------- MODULE ExportJob -----------------------------
(***************************************************************************)
(* The life of one export (services/export_service.py): a request creates  *)
(* it and spawns a background task that writes the file; downloads serve   *)
(* the file, regenerate it when it is not there, and expire the link.      *)
(* Exports share nothing, so one is enough.  Every task works on its own   *)
(* copy of the row, and a commit writes the columns it has changed in it;  *)
(* _generate in a download finds the copy of the same session.             *)
(***************************************************************************)
EXTENDS Naturals, FiniteSets

CONSTANTS
    Clients,        \* requests running at a time
    Background,     \* the task of _spawn_generation
    NULL,           \* an empty column, no row, no file
    MaxRows,        \* settings.export_max_rows
    Ttl,            \* settings.export_link_ttl_hours, in ticks
    MaxMatching,    \* bound on the rows that match the filters
    MaxNow,         \* bound on time
    MaxFailures,    \* bound on the errors raised
    MaxDeaths,      \* bound on tasks that die
    MaxLost         \* bound on files that vanish from export_dir

ASSUME TasksAssumption == Background \notin Clients
ASSUME LimitsAssumption == MaxRows \in Nat /\ Ttl \in Nat \ {0}
ASSUME BoundsAssumption ==
    /\ MaxMatching \in Nat /\ MaxNow \in Nat
    /\ MaxFailures \in Nat /\ MaxDeaths \in Nat /\ MaxLost \in Nat

Tasks == Clients \cup {Background}

VARIABLES
    export,         \* the committed row
    file,           \* the number of rows in the file at file_path
    matching,       \* rows of the database that match the filters
    task,           \* what each task is doing
    now,            \* utcnow()
    failures,       \* errors raised
    deaths,         \* tasks that have died
    lost,           \* files that have vanished
    known,          \* the export's id has been given to clients
    unmarked,       \* marking the export as failed has failed
    overlapped      \* two tasks have been about to write the export at a time

vars == <<export, file, matching, task, now, failures, deaths, lost, known, unmarked,
          overlapped>>

-----------------------------------------------------------------------------
ExportStatus == {"pending", "ready", "failed", "expired"}

Export == [status : ExportStatus, row_count : Nat \cup {NULL}, file_path : BOOLEAN,
           expires_at : Nat \cup {NULL}]

ASSUME NullAssumption == NULL \notin Nat /\ NULL \notin Export

Pending == [status |-> "pending", row_count |-> NULL, file_path |-> FALSE,
            expires_at |-> NULL]

Column(stored, was, obj) == IF obj # was THEN obj ELSE stored

(* update_export: the UPDATE of a task that loaded "was" and holds "obj".  *)
Updated(stored, was, obj) ==
    [status |-> Column(stored.status, was.status, obj.status),
     row_count |-> Column(stored.row_count, was.row_count, obj.row_count),
     file_path |-> Column(stored.file_path, was.file_path, obj.file_path),
     expires_at |-> Column(stored.expires_at, was.expires_at, obj.expires_at)]

Expired(row) == row.expires_at # NULL /\ row.expires_at <= now

Idle == [pc |-> "idle", was |-> NULL, obj |-> NULL, rows |-> NULL]

(* A task at pc with a fresh copy of the row, and a change to that copy.   *)
Holding(t, pc, obj) ==
    task' = [task EXCEPT ![t] = [pc |-> pc, was |-> export, obj |-> obj, rows |-> NULL]]

Goto(t, pc) == task' = [task EXCEPT ![t].pc = pc]

Finish(t) == task' = [task EXCEPT ![t] = Idle]

(* The tasks whose commit or file write is still to come.                  *)
Writing(t) ==
    task[t].pc \in {"spawned", "streaming", "replacing", "committing", "failing", "marking",
                   "expiring"}

(* What the steps of one task leave alone, but for the two that spawn the  *)
(* generation and give up marking.                                         *)
World == <<matching, now, lost, known, unmarked>>

-----------------------------------------------------------------------------
(* create_export: the rows are counted and held against the cap, the row   *)
(* is committed, and after a refresh of it the generation is spawned and   *)
(* the client told the id.                                                 *)
CountRows(c) ==
    /\ export = NULL
    /\ \A t \in Tasks : task[t].pc = "idle"
    /\ IF matching <= MaxRows THEN Goto(c, "creating") ELSE Finish(c)
    /\ UNCHANGED <<export, file, World, failures, deaths>>

CreateExport(c) ==
    /\ task[c].pc = "creating"
    /\ export' = Pending
    /\ Goto(c, "refreshing")
    /\ UNCHANGED <<file, World, failures, deaths>>

(* Mutant of SpawnGeneration: the task is never started.                   *)
SpawnGenerationForgotten(c) ==
    /\ task[c].pc = "refreshing"
    /\ Finish(c)
    /\ known' = TRUE
    /\ UNCHANGED <<export, file, matching, now, lost, unmarked, failures, deaths>>

SpawnGeneration(c) ==
    /\ task[c].pc = "refreshing"
    /\ task' = [task EXCEPT ![c] = Idle, ![Background].pc = "spawned"]
    /\ known' = TRUE
    /\ UNCHANGED <<export, file, matching, now, lost, unmarked, failures, deaths>>

(* A commit of the request, or the refresh of the new row, raises, and the *)
(* request answers with an error.  A row that has been created stays       *)
(* PENDING, with no generation and no client that knows it.                *)
RequestFails(c) ==
    /\ task[c].pc \in {"creating", "refreshing", "expiring"}
    /\ failures < MaxFailures
    /\ failures' = failures + 1
    /\ Finish(c)
    /\ UNCHANGED <<export, file, World, deaths>>

-----------------------------------------------------------------------------
(* _generate, from the background task or a download.                      *)

StartGeneration ==
    /\ task[Background].pc = "spawned"
    /\ Holding(Background, "streaming", export)
    /\ UNCHANGED <<export, file, World, failures, deaths>>

(* Mutant of StreamRows: the file is opened for writing in its place.      *)
StreamRowsInPlace(t) ==
    /\ task[t].pc = "streaming"
    /\ task' = [task EXCEPT ![t].pc = "replacing", ![t].rows = matching]
    /\ file' = NULL
    /\ UNCHANGED <<export, World, failures, deaths>>

(* The rows are streamed into a temporary file of the task's own.          *)
StreamRows(t) ==
    /\ task[t].pc = "streaming"
    /\ task' = [task EXCEPT ![t].pc = "replacing", ![t].rows = matching]
    /\ UNCHANGED <<export, file, World, failures, deaths>>

(* os.replace: the file appears whole.                                     *)
ReplaceFile(t) ==
    /\ task[t].pc = "replacing"
    /\ file' = task[t].rows
    /\ Goto(t, "committing")
    /\ UNCHANGED <<export, World, failures, deaths>>

Ready(row, rows) ==
    [row EXCEPT !.status = "ready", !.row_count = rows, !.file_path = TRUE,
                !.expires_at = now + Ttl]

(* Mutant of CommitReady: rows matching now, as a second count would find. *)
CommitReadyRecounted(t) ==
    /\ task[t].pc = "committing"
    /\ LET obj == Ready(task[t].obj, matching)
       IN  /\ export' = Updated(export, task[t].was, obj)
           /\ task' = [task EXCEPT ![t] =
                        IF t = Background THEN Idle
                        ELSE [Idle EXCEPT !.pc = "serving"]]
    /\ UNCHANGED <<file, World, failures, deaths>>

(* The row becomes READY; a download goes on to serve the file.            *)
CommitReady(t) ==
    /\ task[t].pc = "committing"
    /\ LET obj == Ready(task[t].obj, task[t].rows)
       IN  /\ export' = Updated(export, task[t].was, obj)
           /\ task' = [task EXCEPT ![t] =
                        IF t = Background THEN Idle
                        ELSE [Idle EXCEPT !.pc = "serving"]]
    /\ UNCHANGED <<file, World, failures, deaths>>

(* The generation raises: the background task goes on to mark the export,  *)
(* a download answers with an error.                                       *)
GenerationFails(t) ==
    /\ task[t].pc \in {"streaming", "replacing", "committing"}
    /\ failures < MaxFailures
    /\ failures' = failures + 1
    /\ task' = [task EXCEPT ![t] = IF t = Background THEN [Idle EXCEPT !.pc = "failing"]
                                   ELSE Idle]
    /\ UNCHANGED <<export, file, World, deaths>>

(* Mutant of ReadForMark: a status the column takes and the enum lacks.    *)
ReadForMarkError ==
    /\ task[Background].pc = "failing"
    /\ IF export.status = "pending"
       THEN Holding(Background, "marking", [export EXCEPT !.status = "error"])
       ELSE Finish(Background)
    /\ UNCHANGED <<export, file, World, failures, deaths>>

(* A new session reads the row: only a PENDING export is marked.           *)
ReadForMark ==
    /\ task[Background].pc = "failing"
    /\ IF export.status = "pending"
       THEN Holding(Background, "marking", [export EXCEPT !.status = "failed"])
       ELSE Finish(Background)
    /\ UNCHANGED <<export, file, World, failures, deaths>>

CommitFailed ==
    /\ task[Background].pc = "marking"
    /\ export' = Updated(export, task[Background].was, task[Background].obj)
    /\ Finish(Background)
    /\ UNCHANGED <<file, World, failures, deaths>>

(* The marker's own read or commit raises: that is logged, and no more.    *)
MarkingFails ==
    /\ task[Background].pc \in {"failing", "marking"}
    /\ failures < MaxFailures
    /\ failures' = failures + 1
    /\ unmarked' = TRUE
    /\ Finish(Background)
    /\ UNCHANGED <<export, file, matching, now, lost, known, deaths>>

-----------------------------------------------------------------------------
(* download_export.                                                        *)

(* Mutant of Download: what is not there is regenerated before the link is *)
(* checked.                                                                *)
DownloadRegeneratesFirst(c) ==
    /\ task[c].pc = "idle"
    /\ export # NULL /\ known
    /\ IF export.status # "ready" \/ file = NULL
       THEN Holding(c, "streaming", export)
       ELSE IF Expired(export)
            THEN Holding(c, "expiring", [export EXCEPT !.status = "expired"])
            ELSE Goto(c, "serving")
    /\ UNCHANGED <<export, file, World, failures, deaths>>

(* The row is read and decides: expire the link, regenerate, or serve.     *)
Download(c) ==
    /\ task[c].pc = "idle"
    /\ export # NULL /\ known
    /\ IF Expired(export)
       THEN Holding(c, "expiring", [export EXCEPT !.status = "expired"])
       ELSE IF export.status = "ready" /\ file # NULL
            THEN Goto(c, "serving")
            ELSE Holding(c, "streaming", export)
    /\ UNCHANGED <<export, file, World, failures, deaths>>

CommitExpired(c) ==
    /\ task[c].pc = "expiring"
    /\ export' = Updated(export, task[c].was, task[c].obj)
    /\ Finish(c)
    /\ UNCHANGED <<file, World, failures, deaths>>

(* The file is sent, or not found after all.                               *)
Serve(c) ==
    /\ task[c].pc = "serving"
    /\ Finish(c)
    /\ UNCHANGED <<export, file, World, failures, deaths>>

-----------------------------------------------------------------------------
(* A request is cancelled, or the process dies under a task: nothing marks *)
(* the export, since a cancellation is no Exception.                       *)
Die(t) ==
    /\ task[t].pc # "idle"
    /\ deaths < MaxDeaths
    /\ deaths' = deaths + 1
    /\ Finish(t)
    /\ UNCHANGED <<export, file, World, failures>>

(* export_dir is cleaned, or does not outlive the host.                    *)
LoseFile ==
    /\ file # NULL
    /\ lost < MaxLost
    /\ lost' = lost + 1
    /\ file' = NULL
    /\ UNCHANGED <<export, matching, task, now, failures, deaths, known, unmarked>>

AddRow ==
    /\ matching < MaxMatching
    /\ matching' = matching + 1
    /\ UNCHANGED <<export, file, task, now, failures, deaths, lost, known, unmarked>>

Tick ==
    /\ now < MaxNow
    /\ now' = now + 1
    /\ UNCHANGED <<export, file, matching, task, failures, deaths, lost, known, unmarked>>

Init ==
    /\ export = NULL
    /\ file = NULL
    /\ matching = 0
    /\ task = [t \in Tasks |-> Idle]
    /\ now = 0
    /\ failures = 0
    /\ deaths = 0
    /\ lost = 0
    /\ known = FALSE
    /\ unmarked = FALSE
    /\ overlapped = FALSE

Generate(t) == StreamRows(t) \/ ReplaceFile(t) \/ CommitReady(t) \/ GenerationFails(t)

BackgroundStep ==
    \/ StartGeneration
    \/ Generate(Background)
    \/ ReadForMark
    \/ CommitFailed
    \/ MarkingFails

ClientStep(c) ==
    \/ CountRows(c)
    \/ CreateExport(c)
    \/ SpawnGeneration(c)
    \/ RequestFails(c)
    \/ Download(c)
    \/ Generate(c)
    \/ CommitExpired(c)
    \/ Serve(c)

Step ==
    \/ BackgroundStep
    \/ \E c \in Clients : ClientStep(c)
    \/ \E t \in Tasks : Die(t)
    \/ LoseFile
    \/ AddRow
    \/ Tick

(* overlapped watches for two writers.                                     *)
Next ==
    /\ Step
    /\ overlapped' = (overlapped \/ \E t, u \in Tasks : t # u /\ Writing(t)' /\ Writing(u)')

Spec == Init /\ [][Next]_vars

(* The event loop keeps running the spawned task, and the request that has *)
(* created the row up to the spawn.                                        *)
FairSpec ==
    /\ Spec
    /\ WF_vars(BackgroundStep /\ Next)
    /\ \A c \in Clients : WF_vars(SpawnGeneration(c) /\ Next)

-----------------------------------------------------------------------------
TaskType ==
    [pc : {"idle", "creating", "refreshing", "spawned", "streaming", "replacing",
           "committing", "failing", "marking", "expiring", "serving"},
     was : Export \cup {NULL}, obj : Export \cup {NULL}, rows : Nat \cup {NULL}]

(* Type correctness; the status column is a plain string, and only ever    *)
(* holds a value of the enumeration.                                       *)
TypeOK ==
    /\ export \in Export \cup {NULL}
    /\ file \in Nat \cup {NULL}
    /\ matching \in Nat /\ now \in Nat
    /\ task \in [Tasks -> TaskType]
    /\ failures \in Nat /\ deaths \in Nat /\ lost \in Nat
    /\ known \in BOOLEAN /\ unmarked \in BOOLEAN /\ overlapped \in BOOLEAN

(* "ready carries row count + expiry" (api/v1/exports.py:55), and a file   *)
(* unless it has vanished: whichever tasks have written which columns.     *)
ReadyIsComplete ==
    (export # NULL /\ export.status = "ready") =>
        /\ export.file_path
        /\ export.row_count # NULL
        /\ export.expires_at # NULL
        /\ lost = 0 => file # NULL

(* row_count is "the number of data rows written" (xlsx_writer.py:38),     *)
(* as long as no two tasks have overlapped and none has failed or died,    *)
(* possibly between the file and the row.                                  *)
RowCountMatchesFile ==
    ( /\ export # NULL /\ export.status = "ready" /\ file # NULL
      /\ ~overlapped /\ deaths = 0 /\ failures = 0
      /\ \A t \in Tasks : ~Writing(t) ) => export.row_count = file

(* "pending -> ready; expired after 24h" (models/enums.py:10): without     *)
(* overlapping writers an export that has been READY is never FAILED, and  *)
(* an expired link stays dead.                                             *)
LifecycleForward ==
    [][ (export # NULL /\ ~overlapped') =>
        /\ export.status = "ready" => export'.status \in {"ready", "expired"}
        /\ export.status = "expired" => export'.status = "expired" ]_vars

(* An export whose creation has raised after the commit: no generation is  *)
(* spawned and no client knows it.                                         *)
Orphaned == export # NULL /\ ~known /\ \A c \in Clients : task[c].pc # "refreshing"

(* From its commit on an export is PENDING only while its generation is    *)
(* under way or about to be spawned: it ends up READY or FAILED, however   *)
(* the generation fails.  It stays PENDING only when an error strikes      *)
(* outside what _generate_task marks: the refresh of the new row raises    *)
(* before the spawn, the marker itself raises (its error is swallowed), or *)
(* a task dies.                                                            *)
ExportSettles ==
    (export # NULL /\ export.status = "pending") ~>
        \/ export # NULL /\ export.status # "pending"
        \/ Orphaned \/ unmarked \/ deaths > 0
=============================================================================

---------------------------- MODULE KeysetStream ----------------------------
(***************************************************************************)
(* The rows of one export (repositories/export_repository.py): they are    *)
(* counted against the cap, then read in chunks, each of which asks for    *)
(* what comes after the last row of the one before, and written through a  *)
(* buffer into the sheet (services/xlsx_writer.py).  Between two chunks    *)
(* other requests insert and change rows.  Each query sees the rows        *)
(* committed by then.                                                      *)
(***************************************************************************)
EXTENDS Naturals, Sequences, FiniteSets, Functions

CONSTANTS
    Rows,           \* ids of rows; uuids come in no particular order
    Times,          \* values of created_at
    Values,         \* values of the column that is filtered (status, action)
    NULL,           \* no row, no filter, no cursor
    Filters,        \* stored filters; one that is no value filters nothing
    ChunkSize,      \* settings.export_stream_chunk_size
    CellChunk,      \* _CELL_CHUNK of the writer
    MaxRows         \* settings.export_max_rows

ASSUME OrderAssumption == Rows \subseteq Nat /\ Times \subseteq Nat
ASSUME NullAssumption == /\ NULL \notin Values
                         /\ NULL \notin [created_at : Times, value : Values]
                         /\ NULL \notin [created_at : Times, id : Rows]
ASSUME SizeAssumption ==
    ChunkSize \in Nat \ {0} /\ CellChunk \in Nat \ {0} /\ MaxRows \in Nat
ASSUME FiniteAssumption == IsFiniteSet(Rows)

VARIABLES
    module,         \* the exported list: "users" or "audit"
    filter,         \* the stored filter of the export
    table,          \* the committed rows of the module
    pc,             \* how far the export is
    counted,        \* the number that was held against the cap
    cursor,         \* created_at and id of the last row of the last chunk
    buffer, sheet,  \* rows in the writer's buffer, rows in the data sheet
    count,          \* rows written, the row_count of the export
    stable,         \* rows that have matched since the first chunk was read
    seen            \* rows that have matched since the count

vars == <<module, filter, table, pc, counted, cursor, buffer, sheet, count, stable, seen>>

stream == <<module, filter, pc, counted, cursor, buffer, sheet, count>>

-----------------------------------------------------------------------------
Row == [created_at : Times, value : Values]

Key == [created_at : Times, id : Rows]

KeyOf(r) == [created_at |-> table[r].created_at, id |-> r]

(* The filter that is applied: a stored value that is unknown, or "All",   *)
(* is none.                                                                *)
Wanted == IF filter \in Values THEN filter ELSE NULL

Matching ==
    {r \in Rows : table[r] # NULL /\ (Wanted = NULL \/ table[r].value = Wanted)}

Older(k, l) ==
    k.created_at < l.created_at \/ (k.created_at = l.created_at /\ k.id < l.id)

(* Mutant of Before: both lists oldest first.                              *)
BeforeOldestFirst(k, l) == Older(k, l)

(* The list order: admins oldest first, audit logs newest first.           *)
Before(k, l) == IF module = "users" THEN Older(k, l) ELSE Older(l, k)

(* Mutant of PastCursor: created_at alone.                                 *)
PastCursorByTime(r) ==
    \/ cursor = NULL
    \/ IF module = "users" THEN table[r].created_at > cursor.created_at
                           ELSE table[r].created_at < cursor.created_at

(* Mutant of PastCursor: the last row is asked for again.                  *)
PastCursorInclusive(r) ==
    cursor = NULL \/ KeyOf(r) = cursor \/ Before(cursor, KeyOf(r))

PastCursor(r) == cursor = NULL \/ Before(cursor, KeyOf(r))

(* Mutant of Remaining: the filter is lost with the conditions of the      *)
(* cursor.                                                                 *)
RemainingUnfiltered == {r \in Rows : table[r] # NULL /\ PastCursor(r)}

Remaining == {r \in Matching : PastCursor(r)}

InOrder(rows) ==
    \A i, j \in 1..Len(rows) : i < j => Before(KeyOf(rows[i]), KeyOf(rows[j]))

(* The answers to SELECT ... ORDER BY ... LIMIT ChunkSize.                 *)
Answers ==
    {rows \in UNION {[1..n -> Remaining] : n \in 0..ChunkSize} :
        /\ InOrder(rows)
        /\ IF Len(rows) = ChunkSize
           THEN \A r \in Remaining \ Range(rows) : Before(KeyOf(rows[ChunkSize]), KeyOf(r))
           ELSE Range(rows) = Remaining}

-----------------------------------------------------------------------------
(* create_export: the matching rows are counted and held against the cap.  *)
CountRows ==
    /\ pc = "counting"
    /\ counted' = Cardinality(Matching)
    /\ pc' = IF counted' > MaxRows THEN "refused" ELSE "streaming"
    /\ seen' = Matching
    /\ UNCHANGED <<module, filter, table, cursor, buffer, sheet, count, stable>>

(* The buffer goes to the sheet whenever it has CellChunk rows.            *)
Flushed(cells) == Len(cells) - (Len(cells) % CellChunk)

(* Mutant of WriteChunk: the buffer is not cleared.                        *)
WriteChunkUncleared(rows) ==
    LET cells == buffer \o rows
    IN  /\ cursor' = KeyOf(rows[Len(rows)])
        /\ sheet' = sheet \o SubSeq(cells, 1, Flushed(cells))
        /\ buffer' = cells
        /\ UNCHANGED pc

(* Mutant of WriteChunk: the next query starts from the same cursor.       *)
WriteChunkInPlace(rows) ==
    LET cells == buffer \o rows
    IN  /\ sheet' = sheet \o SubSeq(cells, 1, Flushed(cells))
        /\ buffer' = SubSeq(cells, Flushed(cells) + 1, Len(cells))
        /\ UNCHANGED <<cursor, pc>>

(* A full chunk: its rows pass through the buffer, its last row becomes    *)
(* the cursor.                                                             *)
WriteChunk(rows) ==
    LET cells == buffer \o rows
    IN  /\ cursor' = KeyOf(rows[Len(rows)])
        /\ sheet' = sheet \o SubSeq(cells, 1, Flushed(cells))
        /\ buffer' = SubSeq(cells, Flushed(cells) + 1, Len(cells))
        /\ UNCHANGED pc

(* Mutant of WriteLastChunk: what is left in the buffer is not written.    *)
WriteLastChunkUnflushed(rows) ==
    LET cells == buffer \o rows
    IN  /\ sheet' = sheet \o SubSeq(cells, 1, Flushed(cells))
        /\ buffer' = <<>>
        /\ pc' = "done"
        /\ UNCHANGED cursor

(* A short or empty chunk is the last one: all that is buffered is written *)
(* and the file saved.                                                     *)
WriteLastChunk(rows) ==
    /\ sheet' = sheet \o (buffer \o rows)
    /\ buffer' = <<>>
    /\ pc' = "done"
    /\ UNCHANGED cursor

(* Mutant of FetchChunk: an empty chunk does not end the loop.             *)
FetchChunkGoesOn ==
    /\ pc = "streaming"
    /\ \E rows \in Answers :
        /\ IF rows = <<>> THEN UNCHANGED <<cursor, sheet, buffer, pc>>
           ELSE IF Len(rows) = ChunkSize THEN WriteChunk(rows) ELSE WriteLastChunk(rows)
        /\ count' = count + Len(rows)
    /\ stable' = IF cursor = NULL THEN Matching ELSE stable
    /\ UNCHANGED <<module, filter, table, counted, seen>>

(* One query of the stream and the writing of its answer; there is no      *)
(* await between them.                                                     *)
FetchChunk ==
    /\ pc = "streaming"
    /\ \E rows \in Answers :
        /\ IF Len(rows) = ChunkSize THEN WriteChunk(rows) ELSE WriteLastChunk(rows)
        /\ count' = count + Len(rows)
    /\ stable' = IF cursor = NULL THEN Matching ELSE stable
    /\ UNCHANGED <<module, filter, table, counted, seen>>

-----------------------------------------------------------------------------
(* The other requests.  A row may commit behind rows with a later          *)
(* created_at: a request takes the time before it commits, the promoter    *)
(* takes over that of the intent.                                          *)
Watch ==
    /\ stable' = stable \cap Matching'
    /\ seen' = IF pc = "counting" THEN seen ELSE seen \cup Matching'

Insert(r, row) ==
    /\ table[r] = NULL
    /\ table' = [table EXCEPT ![r] = row]
    /\ UNCHANGED stream
    /\ Watch

(* update_user or delete_user; rows of the audit log never change.         *)
ChangeAdmin(r, v) ==
    /\ module = "users"
    /\ table[r] # NULL
    /\ table' = [table EXCEPT ![r].value = v]
    /\ UNCHANGED stream
    /\ Watch

Init ==
    /\ module \in {"users", "audit"}
    /\ filter \in Filters
    /\ table \in [Rows -> Row \cup {NULL}]
    /\ pc = "counting"
    /\ counted = 0
    /\ cursor = NULL
    /\ buffer = <<>> /\ sheet = <<>>
    /\ count = 0
    /\ stable = {} /\ seen = {}

Next ==
    \/ CountRows
    \/ FetchChunk
    \/ \E r \in Rows : \E row \in Row : Insert(r, row)
    \/ \E r \in Rows : \E v \in Values : ChangeAdmin(r, v)

Spec == Init /\ [][Next]_vars

(* The event loop resumes the generating task after each query.            *)
FairSpec == Spec /\ WF_vars(FetchChunk)

-----------------------------------------------------------------------------
Listed == sheet \o buffer

TypeOK ==
    /\ module \in {"users", "audit"}
    /\ filter \in Filters
    /\ table \in [Rows -> Row \cup {NULL}]
    /\ pc \in {"counting", "streaming", "done", "refused"}
    /\ counted \in Nat /\ count \in Nat
    /\ cursor \in Key \cup {NULL}
    /\ sheet \in Seq(Rows) /\ buffer \in Seq(Rows)
    /\ Len(buffer) < CellChunk
    /\ stable \subseteq Rows /\ seen \subseteq Rows

(* "Stream matching Platform Admins in list order (created_at ASC, id      *)
(* ASC)" (export_repository.py:91): whatever commits between two chunks,   *)
(* the rows come in list order, and none of them twice.                    *)
ListedOnceInOrder == InOrder(Listed)

(* No row is missed: what has matched from the first chunk to the last is  *)
(* in the sheet, wherever chunks end and whatever comes in between.        *)
StableRowsListed == pc = "done" => stable \subseteq Range(sheet)

(* "return the number of data rows written" (xlsx_writer.py:38): the count *)
(* that becomes row_count is the length of the sheet, nothing is left      *)
(* behind in the buffer.                                                   *)
CountIsWritten == pc = "done" => count = Len(sheet) /\ buffer = <<>>

(* The cap "max 100k rows/file" (core/config.py:49) is checked once, at    *)
(* the creation; the file exceeds it by no more rows than have begun to    *)
(* match since then.                                                       *)
CapExceededByArrivalsOnly ==
    pc \in {"streaming", "done"} =>
        count <= MaxRows + (Cardinality(seen) - counted)

(* What the stream may still list: rows past its cursor, or yet to come.   *)
Ahead == {r \in Rows : table[r] = NULL \/ PastCursor(r)}

(* Nothing that the other requests do puts work in front of the stream     *)
(* again, and every chunk ends it or leaves it less: the loop over the     *)
(* chunks (export_repository.py:105) takes a bounded number of queries.    *)
StreamAdvances ==
    [][/\ Ahead' \subseteq Ahead
       /\ pc = "streaming" /\ UNCHANGED table =>
            pc' = "done" \/ Ahead' # Ahead]_vars

(* The stream ends, though rows may keep coming behind its cursor: it has  *)
(* no chunk to read twice.                                                 *)
StreamEnds == pc = "streaming" ~> pc = "done"

(* The chunks implement the sweep: up to the cursor the places have been   *)
(* passed, and all of them once the stream has ended.                      *)
Swept ==
    IF pc = "done" THEN Key
    ELSE IF cursor = NULL THEN {}
    ELSE {k \in Key : ~Before(cursor, k)}

Sweeping == INSTANCE RowSweep WITH
    newest_first <- (module = "audit"),
    wanted <- Wanted,
    swept <- Swept,
    listed <- Listed

ImplementsSweep == Sweeping!Spec
=============================================================================

------------------------------ MODULE RowSweep ------------------------------
(***************************************************************************)
(* What the list in an export file is: one sweep over the rows in list     *)
(* order, while other requests insert and change rows.  Every place of the *)
(* order is passed once, and a row is listed if it is there and matches as *)
(* its place is passed.                                                    *)
(***************************************************************************)
EXTENDS Naturals, Sequences, Functions

CONSTANTS
    Rows,           \* the ids of the rows
    Times,          \* values of created_at
    Values,         \* values of the filtered column
    NULL

VARIABLES
    table,          \* the row of each id, or NULL
    newest_first,   \* the list order
    wanted,         \* the value asked for, NULL for all
    swept,          \* the places that have been passed
    listed          \* the rows listed so far

vars == <<table, newest_first, wanted, swept, listed>>

Row == [created_at : Times, value : Values]

Places == [created_at : Times, id : Rows]

Place(r) == [created_at |-> table[r].created_at, id |-> r]

Older(p, q) ==
    p.created_at < q.created_at \/ (p.created_at = q.created_at /\ p.id < q.id)

Before(p, q) == IF newest_first THEN Older(q, p) ELSE Older(p, q)

Matching ==
    {r \in Rows : table[r] # NULL /\ (wanted = NULL \/ table[r].value = wanted)}

(* S is all that comes up to some place of the list order.                 *)
InitialSegment(S) == \A p \in S, q \in Places : Before(q, p) => q \in S

InOrder(rows) ==
    \A i, j \in 1..Len(rows) : i < j => Before(Place(rows[i]), Place(rows[j]))

Init ==
    /\ table \in [Rows -> Row \cup {NULL}]
    /\ newest_first \in BOOLEAN
    /\ wanted \in Values \cup {NULL}
    /\ swept = {}
    /\ listed = <<>>

(* The sweep goes on over some places and lists the rows that match there. *)
Sweep ==
    /\ swept \subseteq swept' /\ swept' \subseteq Places
    /\ InitialSegment(swept')
    /\ LET rows == SubSeq(listed', Len(listed) + 1, Len(listed'))
       IN  /\ listed' = listed \o rows
           /\ InOrder(rows)
           /\ Range(rows) = {r \in Matching : Place(r) \in swept' \ swept}
    /\ UNCHANGED <<table, newest_first, wanted>>

(* Rows come, anywhere in the order, and change, keeping their place.      *)
Write ==
    /\ table' \in [Rows -> Row \cup {NULL}]
    /\ \A r \in Rows : table[r] # NULL =>
            table'[r] # NULL /\ table'[r].created_at = table[r].created_at
    /\ UNCHANGED <<newest_first, wanted, swept, listed>>

Next == Sweep \/ Write

Spec == Init /\ [][Next]_vars
=============================================================================

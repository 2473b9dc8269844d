------------------------- MODULE KeysetStreamProofs -------------------------
(***************************************************************************)
(* Proofs about KeysetStream, for any rows, chunk size, buffer size and    *)
(* cap: what the file lists, and that the chunks implement the sweep.      *)
(***************************************************************************)
EXTENDS KeysetStream, SequenceTheorems, FiniteSetTheorems, FunctionTheorems, TLAPS

-----------------------------------------------------------------------------
(* The list order.                                                         *)

LEMMA BeforeIsAnOrder ==
    ASSUME NEW k \in Key, NEW l \in Key, NEW c \in Key
    PROVE  /\ ~Before(k, k)
           /\ Before(k, l) => ~Before(l, k)
           /\ ~Before(c, k) /\ Before(c, l) => Before(k, l)
           /\ ~Before(c, k) /\ Before(l, k) => ~Before(c, l)
           /\ Before(k, l) /\ Before(l, c) => Before(k, c)
<1>1. /\ k.created_at \in Nat /\ l.created_at \in Nat /\ c.created_at \in Nat
      /\ k.id \in Nat /\ l.id \in Nat /\ c.id \in Nat
  BY OrderAssumption DEF Key
<1>2. QED
  BY <1>1 DEF Before, Older

LEMMA KeysAreKeys ==
    ASSUME TypeOK, NEW r \in Rows, table[r] # NULL
    PROVE  KeyOf(r) \in Key
BY DEF TypeOK, KeyOf, Key, Row

-----------------------------------------------------------------------------
(* Answers and the buffer.                                                 *)

LEMMA AnswersAreRows ==
    ASSUME NEW rows \in Answers
    PROVE  /\ rows \in Seq(Remaining) /\ rows \in Seq(Rows)
           /\ Len(rows) \in 0..ChunkSize
           /\ DOMAIN rows = 1..Len(rows)
           /\ \A i \in 1..Len(rows) : rows[i] \in Remaining
           /\ InOrder(rows)
           /\ Len(rows) = ChunkSize =>
                \A r \in Remaining \ Range(rows) : Before(KeyOf(rows[ChunkSize]), KeyOf(r))
           /\ Len(rows) # ChunkSize => Range(rows) = Remaining
<1>1. PICK n \in 0..ChunkSize : rows \in [1..n -> Remaining]
  BY DEF Answers
<1>2. n \in Nat
  BY SizeAssumption
<1>3. rows \in Seq(Remaining) /\ Len(rows) = n
  BY <1>1, <1>2
<1>4. Remaining \subseteq Rows
  BY DEF Remaining, Matching
<1>5. rows \in Seq(Rows)
  BY <1>3, <1>4, SeqMonotonic
<1>6. QED
  BY <1>1, <1>3, <1>5 DEF Answers

(* The rows of a chunk follow those listed so far, wherever the buffer     *)
(* stands.                                                                 *)
LEMMA WriteChunkLists ==
    ASSUME sheet \in Seq(Rows), buffer \in Seq(Rows), NEW rows \in Seq(Rows),
           WriteChunk(rows)
    PROVE  /\ Listed' = Listed \o rows
           /\ sheet' \in Seq(Rows) /\ buffer' \in Seq(Rows)
           /\ Len(buffer') < CellChunk
<1> DEFINE cells == buffer \o rows
           n == Flushed(cells)
<1>1. cells \in Seq(Rows) /\ Len(cells) \in Nat
  BY ConcatProperties, LenProperties
<1>2. Len(cells) % CellChunk \in 0..(CellChunk - 1) /\ Len(cells) % CellChunk <= Len(cells)
  <2> DEFINE l == Len(cells)
  <2>1. l \in Nat
    BY <1>1
  <2> HIDE DEF l
  <2>2. l % CellChunk \in 0..(CellChunk - 1) /\ l % CellChunk <= l
    BY <2>1, SizeAssumption, SMTT(30)
  <2>3. QED
    BY <2>2 DEF l
<1>3. n \in 0..Len(cells) /\ Len(cells) - n < CellChunk
  BY <1>1, <1>2, SizeAssumption DEF Flushed
<1> HIDE DEF n
<1>4. /\ sheet' = sheet \o SubSeq(cells, 1, n)
      /\ buffer' = SubSeq(cells, n + 1, Len(cells))
  BY DEF WriteChunk, n, cells
<1> HIDE DEF cells
<1>5. SubSeq(cells, 1, n) \o SubSeq(cells, n + 1, Len(cells)) = cells
  <2>1. SubSeq(cells, 1, Len(cells)) = cells
    BY <1>1, SubSeqFull
  <2>2. 1 \in 1..(Len(cells) + 1) /\ n \in (1 - 1)..Len(cells) /\ Len(cells) \in n..Len(cells)
    BY <1>1, <1>3
  <2>3. QED
    BY <1>1, <2>1, <2>2, ConcatAdjacentSubSeq
<1>6. SubSeq(cells, 1, n) \in Seq(Rows) /\ SubSeq(cells, n + 1, Len(cells)) \in Seq(Rows)
  <2>1. \A i \in 1..Len(cells) : cells[i] \in Rows
    BY <1>1, ElementOfSeq
  <2>2. /\ n \in Int /\ n + 1 \in Int /\ Len(cells) \in Int /\ 1 \in Int
        /\ \A i \in 1..n : cells[i] \in Rows
        /\ \A i \in (n + 1)..Len(cells) : cells[i] \in Rows
    BY <1>1, <1>3, <2>1
  <2>3. QED
    BY <2>2, SubSeqProperties
<1>7. Len(SubSeq(cells, n + 1, Len(cells))) < CellChunk
  BY <1>1, <1>3, SizeAssumption
<1>8. sheet' \o buffer' = sheet \o cells
  <2> DEFINE a == SubSeq(cells, 1, n)
             b == SubSeq(cells, n + 1, Len(cells))
  <2>1. a \in Seq(Rows) /\ b \in Seq(Rows) /\ a \o b = cells /\ sheet' = sheet \o a /\ buffer' = b
    BY <1>4, <1>5, <1>6
  <2> HIDE DEF a, b
  <2>2. \A s, t, u \in Seq(Rows) : (s \o t) \o u = s \o (t \o u)
    BY ConcatAssociative
  <2>3. QED
    BY <2>1, <2>2
<1>9. sheet \o cells = (sheet \o buffer) \o rows
  BY ConcatAssociative DEF cells
<1>10. sheet' \in Seq(Rows)
  BY <1>4, <1>6, ConcatProperties
<1>11. QED
  BY <1>4, <1>6, <1>7, <1>8, <1>9, <1>10 DEF Listed

LEMMA WriteLastChunkLists ==
    ASSUME sheet \in Seq(Rows), buffer \in Seq(Rows), NEW rows \in Seq(Rows),
           WriteLastChunk(rows)
    PROVE  /\ Listed' = Listed \o rows
           /\ sheet' \in Seq(Rows) /\ buffer' = <<>>
<1>1. buffer \o rows \in Seq(Rows)
  BY ConcatProperties
<1>2. sheet' \in Seq(Rows) /\ buffer' = <<>>
  BY <1>1, ConcatProperties DEF WriteLastChunk
<1>3. sheet' \o buffer' = sheet \o (buffer \o rows)
  BY <1>2, ConcatEmptySeq DEF WriteLastChunk
<1>4. sheet \o (buffer \o rows) = (sheet \o buffer) \o rows
  BY ConcatAssociative
<1>5. QED
  BY <1>2, <1>3, <1>4 DEF Listed

-----------------------------------------------------------------------------
(* The inductive invariant.  What has been listed is at or before the      *)
(* cursor, and a stable row that is at or before the cursor has been       *)
(* listed: this is why the next chunk may start right behind it.           *)

Covered(r) == cursor # NULL /\ ~Before(cursor, KeyOf(r))

Streamed ==
    /\ pc \in {"counting", "refused"} => cursor = NULL
    /\ cursor = NULL /\ pc # "done" => Listed = <<>> /\ stable = {}
    /\ pc = "streaming" => \A i \in 1..Len(Listed) : Covered(Listed[i])
    /\ pc = "streaming" => \A r \in stable : Covered(r) => r \in Range(Listed)
    /\ pc = "done" => stable \subseteq Range(Listed) /\ buffer = <<>>

Counted ==
    /\ count = Len(Listed)
    /\ pc \in {"streaming", "done"} =>
            counted <= MaxRows /\ Matching \subseteq seen /\ Range(Listed) \subseteq seen

Inv ==
    /\ TypeOK
    /\ InOrder(Listed)
    /\ \A i \in 1..Len(Listed) : table[Listed[i]] # NULL
    /\ stable \subseteq Matching
    /\ Streamed
    /\ Counted

LEMMA ListedRows ==
    ASSUME TypeOK
    PROVE  /\ Listed \in Seq(Rows) /\ Len(Listed) \in Nat
           /\ \A i \in 1..Len(Listed) : Listed[i] \in Rows
           /\ Range(Listed) = {Listed[i] : i \in 1..Len(Listed)}
<1>1. Listed \in Seq(Rows)
  BY ConcatProperties DEF TypeOK, Listed
<1>2. QED
  BY <1>1, LenProperties, ElementOfSeq, RangeEquality

LEMMA InitInv == Init => Inv
<1> SUFFICES ASSUME Init PROVE Inv
  OBVIOUS
<1>1. Listed = <<>>
  BY DEF Init, Listed
<1>2. Len(Listed) = 0 /\ 1..Len(Listed) = {}
  BY <1>1
<1>3. TypeOK
  BY SizeAssumption DEF Init, TypeOK
<1>4. QED
  BY <1>1, <1>2, <1>3 DEF Init, Inv, InOrder, Streamed, Counted

(* The count: from here on what matches is seen.                           *)
LEMMA CountRowsInv == Inv /\ CountRows => Inv'
<1> SUFFICES ASSUME Inv, CountRows PROVE Inv'
  OBVIOUS
<1>1. /\ TypeOK /\ Listed = <<>> /\ stable = {} /\ cursor = NULL
      /\ pc = "counting"
  BY DEF Inv, Streamed, CountRows
<1>2. Cardinality(Matching) \in Nat
  <2>1. Matching \in SUBSET Rows
    BY DEF Matching
  <2>2. QED
    BY <2>1, FiniteAssumption, FS_Subset, FS_CardinalityType
<1>3. TypeOK'
  BY <1>1, <1>2 DEF CountRows, TypeOK, Matching
<1>4. Listed' = Listed /\ Len(Listed) = 0 /\ Range(Listed) = {}
  BY <1>1 DEF CountRows, Listed, Range
<1>5. Matching' = Matching
  BY DEF CountRows, Matching, Wanted
<1>6. counted' \in Nat /\ (pc' = "streaming" => counted' <= MaxRows) /\ pc' # "done"
  BY <1>2, SizeAssumption DEF CountRows
<1>7. InOrder(Listed)' /\ \A i \in 1..Len(Listed') : (table[Listed[i]] # NULL)'
  BY <1>4 DEF InOrder
<1>8. Streamed'
  BY <1>1, <1>4, <1>6 DEF CountRows, Streamed
<1>9. Counted'
  BY <1>1, <1>4, <1>5, <1>6 DEF CountRows, Counted, Inv
<1>10. QED
  BY <1>1, <1>3, <1>4, <1>7, <1>8, <1>9 DEF Inv, CountRows

-----------------------------------------------------------------------------
(* A chunk.                                                                *)

(* What every chunk does, the last one included.                           *)
Fetched(rows) ==
    /\ rows \in Answers
    /\ pc = "streaming"
    /\ Listed' = Listed \o rows
    /\ count' = count + Len(rows)
    /\ stable' = IF cursor = NULL THEN Matching ELSE stable
    /\ UNCHANGED <<module, filter, table, counted, seen>>
    /\ sheet' \in Seq(Rows) /\ buffer' \in Seq(Rows) /\ Len(buffer') < CellChunk
    /\ \/ /\ Len(rows) = ChunkSize
          /\ cursor' = KeyOf(rows[ChunkSize])
          /\ pc' = "streaming"
       \/ /\ Len(rows) # ChunkSize
          /\ cursor' = cursor
          /\ buffer' = <<>>
          /\ pc' = "done"

LEMMA FetchChunkFetches ==
    ASSUME TypeOK, FetchChunk PROVE \E rows \in Answers : Fetched(rows)
<1>1. PICK rows \in Answers :
        /\ IF Len(rows) = ChunkSize THEN WriteChunk(rows) ELSE WriteLastChunk(rows)
        /\ count' = count + Len(rows)
  BY DEF FetchChunk
<1>2. rows \in Seq(Rows)
  BY AnswersAreRows
<1>3. sheet \in Seq(Rows) /\ buffer \in Seq(Rows)
  BY DEF TypeOK
<1>4. CASE Len(rows) = ChunkSize
  <2>1. WriteChunk(rows)
    BY <1>1, <1>4
  <2>2. cursor' = KeyOf(rows[ChunkSize]) /\ pc' = pc
    BY <2>1, <1>4 DEF WriteChunk
  <2>3. QED
    BY <1>1, <1>2, <1>3, <1>4, <2>1, <2>2, WriteChunkLists DEF Fetched, FetchChunk
<1>5. CASE Len(rows) # ChunkSize
  <2>1. WriteLastChunk(rows)
    BY <1>1, <1>5
  <2>2. cursor' = cursor /\ pc' = "done"
    BY <2>1 DEF WriteLastChunk
  <2>3. buffer' = <<>> /\ buffer' \in Seq(Rows) /\ Len(buffer') < CellChunk
    <3>1. buffer' = <<>>
      BY <1>2, <1>3, <2>1, WriteLastChunkLists
    <3>2. <<>> \in Seq(Rows) /\ Len(<<>>) = 0
      OBVIOUS
    <3>3. QED
      BY <3>1, <3>2, SizeAssumption
  <2>4. QED
    BY <1>1, <1>2, <1>3, <1>5, <2>1, <2>2, <2>3, WriteLastChunkLists DEF Fetched, FetchChunk
<1>6. QED
  BY <1>4, <1>5

(* The rows of a chunk come after everything that has been listed.         *)
LEMMA ChunkFollows ==
    ASSUME Inv, pc = "streaming", NEW r \in Remaining, NEW i \in 1..Len(Listed)
    PROVE  Before(KeyOf(Listed[i]), KeyOf(r))
<1>1. TypeOK /\ Covered(Listed[i]) /\ table[Listed[i]] # NULL
  BY DEF Inv, Streamed
<1>2. cursor # NULL /\ cursor \in Key /\ ~Before(cursor, KeyOf(Listed[i]))
  BY <1>1 DEF Covered, TypeOK
<1>3. r \in Rows /\ table[r] # NULL /\ Before(cursor, KeyOf(r))
  BY <1>2 DEF Remaining, Matching, PastCursor
<1>4. KeyOf(r) \in Key /\ KeyOf(Listed[i]) \in Key
  BY <1>1, <1>3, ListedRows, KeysAreKeys
<1>5. QED
  BY <1>2, <1>3, <1>4, BeforeIsAnOrder

(* What is listed after a chunk, position by position.                     *)
LEMMA ListedAfter ==
    ASSUME Inv, NEW rows \in Answers, Fetched(rows)
    PROVE  /\ Len(Listed') = Len(Listed) + Len(rows)
           /\ \A i \in 1..Len(Listed) : Listed'[i] = Listed[i]
           /\ \A i \in (Len(Listed) + 1)..Len(Listed') :
                i - Len(Listed) \in 1..Len(rows) /\ Listed'[i] = rows[i - Len(Listed)]
           /\ Range(Listed') = Range(Listed) \cup Range(rows)
<1>1. Listed \in Seq(Rows) /\ Len(Listed) \in Nat /\ rows \in Seq(Rows) /\ Len(rows) \in Nat
  BY ListedRows, AnswersAreRows, LenProperties DEF Inv
<1>2. Listed' = Listed \o rows
  BY DEF Fetched
<1>3. Range(Listed \o rows) = Range(Listed) \cup Range(rows)
  BY <1>1, RangeConcatenation
<1>4. /\ Len(Listed \o rows) = Len(Listed) + Len(rows)
      /\ \A i \in 1..(Len(Listed) + Len(rows)) :
            (Listed \o rows)[i] = IF i <= Len(Listed) THEN Listed[i] ELSE rows[i - Len(Listed)]
  BY <1>1, ConcatProperties
<1>5. QED
  BY <1>1, <1>2, <1>3, <1>4

LEMMA FetchedInOrder ==
    ASSUME Inv, NEW rows \in Answers, Fetched(rows)
    PROVE  InOrder(Listed)' /\ \A i \in 1..Len(Listed') : table'[Listed'[i]] # NULL
<1>1. pc = "streaming" /\ table' = table /\ module' = module
  BY DEF Fetched
<1>2. Len(Listed) \in Nat /\ Len(rows) \in Nat
  BY ListedRows, AnswersAreRows, LenProperties DEF Inv
<1>3. \A i, j \in 1..Len(Listed') : i < j => Before(KeyOf(Listed'[i]), KeyOf(Listed'[j]))
  <2> SUFFICES ASSUME NEW i \in 1..Len(Listed'), NEW j \in 1..Len(Listed'), i < j
               PROVE  Before(KeyOf(Listed'[i]), KeyOf(Listed'[j]))
    OBVIOUS
  <2>1. CASE j <= Len(Listed)
    <3>1. i \in 1..Len(Listed) /\ j \in 1..Len(Listed)
      BY <1>2, <2>1
    <3>2. Listed'[i] = Listed[i] /\ Listed'[j] = Listed[j]
      BY <3>1, ListedAfter
    <3>3. QED
      BY <3>1, <3>2 DEF Inv, InOrder
  <2>2. CASE i <= Len(Listed) /\ j > Len(Listed)
    <3>1. i \in 1..Len(Listed) /\ j \in (Len(Listed) + 1)..Len(Listed')
      BY <1>2, <2>2
    <3>2. Listed'[i] = Listed[i]
      BY <3>1, ListedAfter
    <3>3. j - Len(Listed) \in 1..Len(rows) /\ Listed'[j] = rows[j - Len(Listed)]
      BY <3>1, ListedAfter
    <3>4. Listed'[j] \in Remaining
      BY <3>3, AnswersAreRows
    <3>5. QED
      BY <1>1, <3>1, <3>2, <3>4, ChunkFollows
  <2>3. CASE i > Len(Listed)
    <3>1. i \in (Len(Listed) + 1)..Len(Listed') /\ j \in (Len(Listed) + 1)..Len(Listed')
      BY <1>2, <2>3
    <3>2. i - Len(Listed) \in 1..Len(rows) /\ Listed'[i] = rows[i - Len(Listed)]
      BY <3>1, ListedAfter
    <3>3. j - Len(Listed) \in 1..Len(rows) /\ Listed'[j] = rows[j - Len(Listed)]
      BY <3>1, ListedAfter
    <3>4. i - Len(Listed) < j - Len(Listed)
      BY <1>2
    <3>5. InOrder(rows)
      BY AnswersAreRows
    <3>6. QED
      BY <3>2, <3>3, <3>4, <3>5 DEF InOrder
  <2>4. QED
    BY <1>2, <2>1, <2>2, <2>3
<1>4. InOrder(Listed)'
  BY <1>1, <1>3 DEF InOrder, Before, KeyOf
<1>5. \A i \in 1..Len(Listed') : table[Listed'[i]] # NULL
  <2> SUFFICES ASSUME NEW i \in 1..Len(Listed') PROVE table[Listed'[i]] # NULL
    OBVIOUS
  <2>1. CASE i \in 1..Len(Listed)
    BY <2>1, ListedAfter DEF Inv
  <2>2. CASE i \in (Len(Listed) + 1)..Len(Listed')
    <3>1. Listed'[i] \in Remaining
      BY <2>2, ListedAfter, AnswersAreRows
    <3>2. QED
      BY <3>1 DEF Remaining, Matching
  <2>3. QED
    BY <1>2, <2>1, <2>2
<1>6. QED
  BY <1>1, <1>4, <1>5

(* Nothing stable is passed over: up to a new cursor, or for good.         *)
LEMMA FetchedStreamed ==
    ASSUME Inv, NEW rows \in Answers, Fetched(rows) PROVE Streamed'
<1>1. /\ pc = "streaming" /\ UNCHANGED <<module, filter, table>>
      /\ TypeOK
  BY DEF Fetched, Inv
<1>2. /\ cursor = NULL => Listed = <<>> /\ stable = {}
      /\ \A i \in 1..Len(Listed) : Covered(Listed[i])
      /\ \A r \in stable : Covered(r) => r \in Range(Listed)
      /\ stable \subseteq Matching
  BY <1>1 DEF Inv, Streamed
<1>3. /\ \A i \in 1..Len(rows) : rows[i] \in Remaining
      /\ InOrder(rows)
      /\ Range(Listed') = Range(Listed) \cup Range(rows)
      /\ Len(rows) \in Nat /\ Len(Listed) \in Nat
  BY <1>1, AnswersAreRows, ListedAfter, ListedRows, LenProperties
<1>4. /\ stable' \subseteq Matching
      /\ \A r \in stable' : Covered(r) => r \in Range(Listed)
  BY <1>2 DEF Fetched, Covered
<1>5. \A r \in Matching : r \in Rows /\ table[r] # NULL /\ KeyOf(r) \in Key
  BY <1>1, KeysAreKeys DEF Matching
<1>6. \A r \in stable' : r \in Remaining \/ r \in Range(Listed)
  BY <1>4, <1>5 DEF Remaining, PastCursor, Covered
<1>7. CASE Len(rows) = ChunkSize
  <2>1. ChunkSize \in 1..Len(rows) /\ rows[ChunkSize] \in Remaining
    BY <1>3, <1>7, SizeAssumption
  <2> DEFINE last == KeyOf(rows[ChunkSize])
  <2>2. last \in Key /\ cursor' = last /\ pc' = "streaming"
    BY <1>5, <1>7, <2>1 DEF Fetched, Remaining
  <2>3. cursor' # NULL
    BY <2>2, NullAssumption DEF Key
  <2>4. \A r \in Matching : Covered(r)' <=> ~Before(last, KeyOf(r))
    BY <1>1, <2>2, <2>3 DEF Covered, Before, KeyOf
  <2>5. \A r \in Remaining \ Range(rows) : Before(last, KeyOf(r))
    BY <1>7, AnswersAreRows
  <2> HIDE DEF last
  <2>6. \A r \in stable' : Covered(r)' => r \in Range(Listed')
    BY <1>3, <1>4, <1>6, <2>4, <2>5
  <2>7. \A i \in 1..Len(Listed') : Covered(Listed[i])'
    <3> SUFFICES ASSUME NEW i \in 1..Len(Listed') PROVE ~Before(last, KeyOf(Listed'[i]))
      BY <1>1, <2>2, <2>3 DEF Covered, Before, KeyOf
    <3>1. CASE i \in 1..Len(Listed)
      <4>1. Listed'[i] = Listed[i] /\ table[Listed[i]] # NULL /\ Listed[i] \in Rows
        BY <1>1, <3>1, ListedAfter, ListedRows DEF Inv
      <4>2. Before(KeyOf(Listed[i]), last)
        BY <1>1, <2>1, <3>1, ChunkFollows DEF last
      <4>3. KeyOf(Listed[i]) \in Key
        BY <1>1, <4>1, KeysAreKeys
      <4>4. QED
        BY <2>2, <4>1, <4>2, <4>3, BeforeIsAnOrder
    <3>2. CASE i \in (Len(Listed) + 1)..Len(Listed')
      <4>1. PICK j \in 1..Len(rows) : Listed'[i] = rows[j]
        BY <3>2, ListedAfter
      <4>2. KeyOf(rows[j]) \in Key
        BY <1>3, <1>5, <4>1 DEF Remaining
      <4>3. CASE j = ChunkSize
        BY <2>2, <4>1, <4>3, BeforeIsAnOrder DEF last
      <4>4. CASE j # ChunkSize
        <5>1. j < ChunkSize
          BY <1>7, <4>1, <4>4, SizeAssumption
        <5>2. Before(KeyOf(rows[j]), last)
          BY <1>3, <2>1, <4>1, <5>1 DEF InOrder, last
        <5>3. QED
          BY <2>2, <4>1, <4>2, <5>2, BeforeIsAnOrder
      <4>5. QED
        BY <4>3, <4>4
    <3>3. QED
      BY <1>3, <3>1, <3>2, ListedAfter
  <2>8. QED
    BY <2>2, <2>3, <2>6, <2>7 DEF Streamed
<1>8. CASE Len(rows) # ChunkSize
  <2>1. Range(rows) = Remaining /\ pc' = "done" /\ buffer' = <<>>
    BY <1>8, AnswersAreRows DEF Fetched
  <2>2. stable' \subseteq Range(Listed')
    BY <1>3, <1>6, <2>1
  <2>3. QED
    BY <2>1, <2>2 DEF Streamed
<1>9. QED
  BY <1>7, <1>8

LEMMA FetchedCounted ==
    ASSUME Inv, NEW rows \in Answers, Fetched(rows) PROVE Counted'
<1>1. /\ count = Len(Listed) /\ counted <= MaxRows
      /\ Matching \subseteq seen /\ Range(Listed) \subseteq seen
  BY DEF Inv, Counted, Fetched
<1>2. Range(rows) \subseteq Matching
  BY AnswersAreRows DEF Range, Remaining
<1>3. Matching' = Matching
  BY DEF Fetched, Matching, Wanted
<1>4. Len(Listed') = Len(Listed) + Len(rows) /\ Range(Listed') = Range(Listed) \cup Range(rows)
  BY ListedAfter
<1>5. QED
  BY <1>1, <1>2, <1>3, <1>4 DEF Fetched, Counted

LEMMA FetchChunkInv == Inv /\ FetchChunk => Inv'
<1> SUFFICES ASSUME Inv, FetchChunk PROVE Inv'
  OBVIOUS
<1>1. TypeOK
  BY DEF Inv
<1>2. PICK rows \in Answers : Fetched(rows)
  BY <1>1, FetchChunkFetches
<1>3. stable' \subseteq Matching /\ Matching' = Matching
  BY <1>2 DEF Inv, Fetched, Matching, Wanted
<1>4. cursor' \in Key \cup {NULL}
  <2>1. ASSUME Len(rows) = ChunkSize PROVE KeyOf(rows[ChunkSize]) \in Key
    <3>1. rows[ChunkSize] \in Remaining
      BY <2>1, AnswersAreRows, SizeAssumption
    <3>2. QED
      BY <1>1, <3>1, KeysAreKeys DEF Remaining, Matching
  <2>2. QED
    BY <1>1, <1>2, <2>1 DEF Fetched, TypeOK
<1>5. count' \in Nat
  BY <1>1, <1>2, AnswersAreRows, SizeAssumption DEF Fetched, TypeOK
<1>6. TypeOK'
  BY <1>1, <1>2, <1>3, <1>4, <1>5 DEF Fetched, TypeOK, Matching
<1>7. QED
  BY <1>2, <1>3, <1>6, FetchedInOrder, FetchedStreamed, FetchedCounted DEF Inv

-----------------------------------------------------------------------------
(* The other requests: rows come and change, and keep their place.         *)

Written ==
    /\ table' \in [Rows -> Row \cup {NULL}]
    /\ \A r \in Rows : table[r] # NULL =>
            table'[r] # NULL /\ table'[r].created_at = table[r].created_at
    /\ UNCHANGED stream
    /\ Watch

LEMMA InsertWrites ==
    ASSUME TypeOK, NEW r \in Rows, NEW row \in Row, Insert(r, row)
    PROVE  Written
BY DEF Insert, TypeOK, Written

LEMMA ChangeAdminWrites ==
    ASSUME TypeOK, NEW r \in Rows, NEW v \in Values, ChangeAdmin(r, v)
    PROVE  Written
<1>1. table[r] \in Row /\ table' = [table EXCEPT ![r].value = v]
  BY DEF ChangeAdmin, TypeOK
<1>2. [table[r] EXCEPT !.value = v] \in Row
  BY <1>1 DEF Row
<1>3. [table[r] EXCEPT !.value = v] # NULL
  BY <1>2, NullAssumption DEF Row
<1>4. [table[r] EXCEPT !.value = v].created_at = table[r].created_at
  BY <1>1 DEF Row
<1>5. table' = [table EXCEPT ![r] = [table[r] EXCEPT !.value = v]]
  BY <1>1
<1>6. QED
  BY <1>2, <1>3, <1>4, <1>5 DEF ChangeAdmin, TypeOK, Written

LEMMA WrittenInv == Inv /\ Written => Inv'
<1> SUFFICES ASSUME Inv, Written PROVE Inv'
  OBVIOUS
<1>1. /\ TypeOK /\ UNCHANGED <<module, filter, pc, counted, cursor, buffer, sheet, count>>
      /\ Listed' = Listed
  BY DEF Inv, Written, stream, Listed
<1>2. \A r \in Rows : table[r] # NULL => table'[r] # NULL /\ KeyOf(r)' = KeyOf(r)
  BY DEF Written, KeyOf
<1>3. \A k, l : Before(k, l)' = Before(k, l)
  BY <1>1 DEF Before
<1>4. \A i \in 1..Len(Listed) :
        Listed[i] \in Rows /\ table[Listed[i]] # NULL /\ table'[Listed[i]] # NULL
  BY <1>1, <1>2, ListedRows DEF Inv
<1>5. \A r \in Rows : table[r] # NULL => (Covered(r)' <=> Covered(r))
  BY <1>1, <1>2 DEF Covered, Before
<1>6. /\ stable' = stable \cap Matching' /\ stable \subseteq Matching
      /\ seen' = IF pc = "counting" THEN seen ELSE seen \cup Matching'
      /\ Matching' \subseteq Rows
  BY DEF Inv, Written, Watch, Matching
<1>7. TypeOK'
  BY <1>1, <1>6 DEF Written, TypeOK
<1>8. InOrder(Listed)'
  <2>1. \A i, j \in 1..Len(Listed) : i < j => Before(KeyOf(Listed[i]), KeyOf(Listed[j]))
    BY DEF Inv, InOrder
  <2>2. \A i \in 1..Len(Listed) :
          table'[Listed[i]].created_at = table[Listed[i]].created_at
    BY <1>4 DEF Written
  <2>3. QED
    BY <1>1, <2>1, <2>2 DEF InOrder, Before, KeyOf
<1>9. Streamed'
  <2>1. Streamed /\ \A r \in stable : r \in Rows /\ table[r] # NULL
    BY <1>6 DEF Inv, Matching
  <2>2. pc = "streaming" => \A r \in stable' : Covered(r)' => r \in Range(Listed)
    <3> SUFFICES ASSUME pc = "streaming", NEW r \in stable', Covered(r)' PROVE r \in Range(Listed)
      OBVIOUS
    <3>1. r \in stable /\ r \in Rows /\ table[r] # NULL
      BY <1>6, <2>1
    <3>2. Covered(r)
      BY <1>5, <3>1
    <3>3. QED
      BY <2>1, <3>1, <3>2 DEF Streamed
  <2>3. pc = "streaming" => \A i \in 1..Len(Listed) : Covered(Listed[i])'
    BY <1>1, <1>4, <1>5, <2>1 DEF Streamed
  <2>4. QED
    BY <1>1, <1>6, <2>1, <2>2, <2>3 DEF Streamed
<1>10. Counted'
  BY <1>1, <1>6 DEF Inv, Counted
<1>11. QED
  BY <1>1, <1>4, <1>6, <1>7, <1>8, <1>9, <1>10 DEF Inv

LEMMA NextInv == Inv /\ [Next]_vars => Inv'
<1> SUFFICES ASSUME Inv, [Next]_vars PROVE Inv'
  OBVIOUS
<1>1. CASE CountRows
  BY <1>1, CountRowsInv
<1>2. CASE FetchChunk
  BY <1>2, FetchChunkInv
<1>3. CASE \E r \in Rows : \E row \in Row : Insert(r, row)
  BY <1>3, InsertWrites, WrittenInv DEF Inv
<1>4. CASE \E r \in Rows : \E v \in Values : ChangeAdmin(r, v)
  BY <1>4, ChangeAdminWrites, WrittenInv DEF Inv
<1>5. CASE UNCHANGED vars
  BY <1>5 DEF vars, Inv, TypeOK, Listed, InOrder, Before, KeyOf, Matching, Wanted,
              Streamed, Covered, Counted
<1>6. QED
  BY <1>1, <1>2, <1>3, <1>4, <1>5 DEF Next

LEMMA Invariant == Spec => []Inv
BY InitInv, NextInv, PTL DEF Spec

-----------------------------------------------------------------------------
(* The file, for any table and any interleaving.                           *)

(* Types; in particular the writer's buffer never holds a full block.      *)
THEOREM TypeCorrect == Spec => []TypeOK
<1>1. Inv => TypeOK
  BY DEF Inv
<1>2. QED
  BY <1>1, Invariant, PTL

(* The two keyset streams list rows in list order, none of them twice.     *)
THEOREM NoRowTwice == Spec => []ListedOnceInOrder
<1>1. Inv => ListedOnceInOrder
  BY DEF Inv, ListedOnceInOrder
<1>2. QED
  BY <1>1, Invariant, PTL

(* No row that matches throughout is missed at the border of two chunks.   *)
THEOREM NoRowMissed == Spec => []StableRowsListed
<1>1. Inv => StableRowsListed
  <2> SUFFICES ASSUME Inv, pc = "done" PROVE stable \subseteq Range(sheet)
    BY DEF StableRowsListed
  <2>1. stable \subseteq Range(Listed) /\ buffer = <<>> /\ sheet \in Seq(Rows)
    BY DEF Inv, Streamed, TypeOK
  <2>2. Listed = sheet
    BY <2>1, ConcatEmptySeq DEF Listed
  <2>3. QED
    BY <2>1, <2>2
<1>2. QED
  BY <1>1, Invariant, PTL

(* The row count of the writer is the length of the sheet.                 *)
THEOREM CountIsExact == Spec => []CountIsWritten
<1>1. Inv => CountIsWritten
  <2> SUFFICES ASSUME Inv, pc = "done" PROVE count = Len(sheet) /\ buffer = <<>>
    BY DEF CountIsWritten
  <2>1. count = Len(Listed) /\ buffer = <<>> /\ sheet \in Seq(Rows)
    BY DEF Inv, Streamed, Counted, TypeOK
  <2>2. Listed = sheet
    BY <2>1, ConcatEmptySeq DEF Listed
  <2>3. QED
    BY <2>1, <2>2
<1>2. QED
  BY <1>1, Invariant, PTL

(* A sequence without repetition is no longer than a set that holds it.    *)
LEMMA ListedFitsSeen ==
    ASSUME Inv, pc \in {"streaming", "done"} PROVE Len(Listed) <= Cardinality(seen)
<1>1. /\ Listed \in Seq(Rows) /\ Len(Listed) \in Nat
      /\ \A i \in 1..Len(Listed) : Listed[i] \in Rows /\ KeyOf(Listed[i]) \in Key
      /\ Range(Listed) = {Listed[i] : i \in 1..Len(Listed)}
  BY ListedRows, KeysAreKeys DEF Inv
<1>2. Range(Listed) \subseteq seen
  BY DEF Inv, Counted
<1>3. Listed \in [1..Len(Listed) -> seen]
  BY <1>1, <1>2, LenProperties
<1>4. \A i, j \in 1..Len(Listed) : Listed[i] = Listed[j] => i = j
  <2> SUFFICES ASSUME NEW i \in 1..Len(Listed), NEW j \in 1..Len(Listed), i < j
               PROVE  Listed[i] # Listed[j]
    BY <1>1
  <2>1. Before(KeyOf(Listed[i]), KeyOf(Listed[j]))
    BY DEF Inv, InOrder
  <2>2. QED
    BY <1>1, <2>1, BeforeIsAnOrder
<1>5. Listed \in Injection(1..Len(Listed), seen)
  BY <1>3, <1>4, Fun_IsInj
<1>6. IsFiniteSet(seen)
  BY FiniteAssumption, FS_Subset DEF Inv, TypeOK
<1>7. Cardinality(1..Len(Listed)) <= Cardinality(seen)
  BY <1>5, <1>6, FS_Injection
<1>8. Cardinality(1..Len(Listed)) = Len(Listed)
  BY <1>1, FS_Interval
<1>9. QED
  BY <1>7, <1>8

(* The file exceeds the cap by no more than what has arrived since.        *)
THEOREM CapIsExceededByArrivals == Spec => []CapExceededByArrivalsOnly
<1>1. Inv => CapExceededByArrivalsOnly
  <2> SUFFICES ASSUME Inv, pc \in {"streaming", "done"}
               PROVE  count <= MaxRows + (Cardinality(seen) - counted)
    BY DEF CapExceededByArrivalsOnly
  <2>1. count = Len(Listed) /\ counted <= MaxRows /\ counted \in Nat /\ count \in Nat
    BY DEF Inv, Counted, TypeOK
  <2>2. count <= Cardinality(seen)
    BY <2>1, ListedFitsSeen
  <2>3. Cardinality(seen) \in Nat
    BY FiniteAssumption, FS_Subset, FS_CardinalityType DEF Inv, TypeOK
  <2>4. QED
    BY <2>1, <2>2, <2>3, SizeAssumption
<1>2. QED
  BY <1>1, Invariant, PTL

-----------------------------------------------------------------------------
(* Progress.                                                               *)

(* The last row of a full chunk was ahead and is behind the new cursor.    *)
LEMMA ChunkAdvances ==
    ASSUME Inv, NEW rows \in Answers, Fetched(rows), Len(rows) = ChunkSize
    PROVE  Ahead' \subseteq Ahead /\ Ahead' # Ahead
<1> DEFINE last == rows[ChunkSize]
           key == KeyOf(last)
<1>1. TypeOK /\ table' = table /\ module' = module
  BY DEF Inv, Fetched
<1>2. /\ last \in Rows /\ table[last] # NULL /\ PastCursor(last)
      /\ cursor' = key /\ key \in Key /\ key # NULL
  <2>1. last \in Remaining /\ cursor' = key
    BY AnswersAreRows, SizeAssumption DEF Fetched
  <2>2. last \in Rows /\ table[last] # NULL /\ PastCursor(last)
    BY <2>1 DEF Remaining, Matching
  <2>3. key \in Key
    BY <1>1, <2>2, KeysAreKeys
  <2>4. QED
    BY <2>1, <2>2, <2>3, NullAssumption DEF Key
<1>3. \A r \in Rows : KeyOf(r)' = KeyOf(r)
  BY <1>1 DEF KeyOf
<1>4. \A k, l : Before(k, l)' = Before(k, l)
  BY <1>1 DEF Before
<1> HIDE DEF key, last
<1>5. \A r \in Rows : PastCursor(r)' <=> Before(key, KeyOf(r))
  BY <1>1, <1>2 DEF PastCursor, KeyOf, Before
<1>6. ASSUME NEW r \in Ahead' PROVE r \in Ahead
  <2>1. r \in Rows /\ (table[r] = NULL \/ Before(key, KeyOf(r)))
    BY <1>1, <1>5, <1>6 DEF Ahead
  <2>2. CASE table[r] # NULL /\ cursor # NULL
    <3>1. KeyOf(r) \in Key /\ cursor \in Key /\ Before(cursor, key) /\ Before(key, KeyOf(r))
      BY <1>1, <1>2, <2>1, <2>2, KeysAreKeys DEF TypeOK, PastCursor, key
    <3>2. Before(cursor, KeyOf(r))
      BY <1>2, <3>1, BeforeIsAnOrder
    <3>3. QED
      BY <2>1, <3>2 DEF Ahead, PastCursor
  <2>3. QED
    BY <2>1, <2>2 DEF Ahead, PastCursor
<1>7. last \in Ahead
  BY <1>2 DEF Ahead
<1>8. last \notin Ahead'
  <2>1. ~Before(key, KeyOf(last)) /\ table'[last] # NULL
    BY <1>1, <1>2, BeforeIsAnOrder DEF key
  <2>2. QED
    BY <1>2, <1>5, <2>1 DEF Ahead
<1>9. QED
  BY <1>6, <1>7, <1>8

LEMMA FetchAdvances ==
    ASSUME Inv, FetchChunk
    PROVE  Ahead' \subseteq Ahead /\ (pc' = "done" \/ Ahead' # Ahead)
<1>1. PICK rows \in Answers : Fetched(rows)
  BY FetchChunkFetches DEF Inv
<1>2. CASE Len(rows) = ChunkSize
  BY <1>1, <1>2, ChunkAdvances
<1>3. CASE Len(rows) # ChunkSize
  <2>1. pc' = "done" /\ UNCHANGED <<cursor, table, module>>
    BY <1>1, <1>3 DEF Fetched
  <2>2. Ahead' = Ahead
    BY <2>1 DEF Ahead, PastCursor, KeyOf, Before
  <2>3. QED
    BY <2>1, <2>2
<1>4. QED
  BY <1>2, <1>3

(* A row that comes was still to come; one that changes keeps its place.   *)
LEMMA WrittenAdvances ==
    ASSUME Inv, Written
    PROVE  /\ Ahead' \subseteq Ahead
           /\ pc = "streaming" /\ UNCHANGED table => UNCHANGED vars
<1>1. UNCHANGED <<module, filter, pc, counted, cursor, buffer, sheet, count>>
  BY DEF Written, stream
<1>2. ASSUME NEW r \in Ahead' PROVE r \in Ahead
  <2>1. r \in Rows /\ (table[r] # NULL => table'[r] # NULL /\ KeyOf(r)' = KeyOf(r))
    BY <1>2 DEF Ahead, Written, KeyOf
  <2>2. CASE table[r] # NULL
    BY <1>1, <1>2, <2>1, <2>2 DEF Ahead, PastCursor, Before
  <2>3. QED
    BY <2>1, <2>2 DEF Ahead
<1>3. ASSUME pc = "streaming", UNCHANGED table PROVE UNCHANGED <<stable, seen>>
  <2>1. Matching' = Matching
    BY <1>1, <1>3 DEF Matching, Wanted
  <2>2. stable \subseteq Matching /\ Matching \subseteq seen
    BY <1>3 DEF Inv, Counted
  <2>3. QED
    BY <1>3, <2>1, <2>2 DEF Written, Watch
<1>4. QED
  BY <1>1, <1>2, <1>3 DEF vars

(* Together with the finite number of rows this bounds the queries of one  *)
(* stream, whatever other requests commit meanwhile.                       *)
THEOREM StreamNeverFallsBack == Spec => StreamAdvances
<1>1. ASSUME Inv, [Next]_vars
      PROVE  [/\ Ahead' \subseteq Ahead
              /\ pc = "streaming" /\ UNCHANGED table =>
                   pc' = "done" \/ Ahead' # Ahead]_vars
  <2>1. CASE CountRows
    BY <2>1 DEF CountRows, Ahead, PastCursor, KeyOf, Before
  <2>2. CASE FetchChunk
    BY <1>1, <2>2, FetchAdvances
  <2>3. CASE Written
    BY <1>1, <2>3, WrittenAdvances
  <2>4. CASE UNCHANGED vars
    BY <2>4
  <2>5. QED
    BY <1>1, <2>1, <2>2, <2>3, <2>4, InsertWrites, ChangeAdminWrites DEF Next, Inv
<1>2. QED
  BY <1>1, Invariant, PTL DEF Spec, StreamAdvances

-----------------------------------------------------------------------------
(* Every step of the stream is a step of the sweep, or none.               *)

LEMMA SamePlaces ==
    /\ Sweeping!Places = Key
    /\ Sweeping!Matching = Matching
    /\ \A r : Sweeping!Place(r) = KeyOf(r)
BY DEF Sweeping!Places, Key, Sweeping!Matching, Matching, Sweeping!Place, KeyOf

LEMMA InitSweeps == Init => Sweeping!Init
<1> SUFFICES ASSUME Init PROVE Sweeping!Init
  OBVIOUS
<1>1. Swept = {} /\ Listed = <<>>
  BY DEF Init, Swept, Listed
<1>2. Wanted \in Values \cup {NULL}
  BY DEF Wanted
<1>3. table \in [Rows -> Sweeping!Row \cup {NULL}]
  BY DEF Init, Row, Sweeping!Row
<1>4. QED
  BY <1>1, <1>2, <1>3 DEF Sweeping!Init

(* The places that a chunk passes are those of its rows and of all that    *)
(* do not match.                                                           *)
LEMMA FetchSweeps == Inv /\ Inv' /\ FetchChunk => Sweeping!Sweep
<1> SUFFICES ASSUME Inv, Inv', FetchChunk PROVE Sweeping!Sweep
  OBVIOUS
<1>1. TypeOK /\ TypeOK'
  BY DEF Inv
<1>2. PICK rows \in Answers : Fetched(rows)
  BY <1>1, FetchChunkFetches
<1>3. /\ pc = "streaming" /\ UNCHANGED <<module, filter, table>>
      /\ pc' \in {"streaming", "done"}
      /\ module \in {"users", "audit"}
  BY <1>1, <1>2 DEF Fetched, TypeOK
<1>4. \A k, l : (Sweeping!Before(k, l) <=> Before(k, l)) /\ (Before(k, l)' <=> Before(k, l))
                /\ (Sweeping!Before(k, l)' <=> Before(k, l))
  BY <1>3 DEF Before, Older, Sweeping!Before, Sweeping!Older
<1>5. \A r \in Remaining : r \in Matching /\ r \in Rows /\ table[r] # NULL /\ KeyOf(r) \in Key
  BY <1>1, KeysAreKeys DEF Remaining, Matching
<1>6. \A k \in Key : k \in Swept <=> cursor # NULL /\ ~Before(cursor, k)
  BY <1>3 DEF Swept
<1>7. \A k \in Key : k \in Swept' <=> pc' = "done" \/ (cursor' # NULL /\ ~Before(cursor', k))
  BY <1>4 DEF Swept
<1>8. Swept \subseteq Key /\ Swept' \subseteq Key
  BY DEF Swept
<1>9. cursor \in Key \cup {NULL} /\ cursor' \in Key \cup {NULL}
  BY <1>1 DEF TypeOK
<1>10. ASSUME pc' = "streaming"
       PROVE  /\ cursor' = KeyOf(rows[ChunkSize]) /\ Len(rows) = ChunkSize
              /\ rows[ChunkSize] \in Remaining
              /\ cursor' \in Key /\ cursor' # NULL
              /\ cursor # NULL => Before(cursor, cursor')
  <2>1. Len(rows) = ChunkSize /\ cursor' = KeyOf(rows[ChunkSize])
    BY <1>2, <1>10 DEF Fetched
  <2>2. rows[ChunkSize] \in Remaining
    BY <2>1, AnswersAreRows, SizeAssumption
  <2>3. cursor' \in Key
    BY <1>5, <2>1, <2>2
  <2>4. cursor' # NULL
    BY <2>3, NullAssumption DEF Key
  <2>5. cursor # NULL => Before(cursor, cursor')
    BY <2>1, <2>2 DEF Remaining, PastCursor
  <2>6. QED
    BY <2>1, <2>2, <2>3, <2>4, <2>5
<1>11. Swept \subseteq Swept'
  <2> SUFFICES ASSUME NEW k \in Key, k \in Swept PROVE k \in Swept'
    BY <1>8
  <2>1. cursor # NULL /\ ~Before(cursor, k) /\ cursor \in Key
    BY <1>6, <1>9
  <2>2. CASE pc' = "done"
    BY <1>7, <2>2
  <2>3. CASE pc' = "streaming"
    <3>1. ~Before(cursor', k)
      BY <1>10, <2>1, <2>3, BeforeIsAnOrder
    <3>2. QED
      BY <1>7, <1>10, <2>3, <3>1
  <2>4. QED
    BY <1>3, <2>2, <2>3
<1>12. Sweeping!InitialSegment(Swept')
  <2> SUFFICES ASSUME NEW p \in Swept', NEW q \in Key, Before(q, p) PROVE q \in Swept'
    BY <1>4, SamePlaces DEF Sweeping!InitialSegment
  <2>1. CASE pc' = "done"
    BY <1>7, <2>1
  <2>2. CASE pc' = "streaming"
    <3>1. p \in Key /\ ~Before(cursor', p) /\ cursor' \in Key /\ cursor' # NULL
      BY <1>7, <1>8, <1>10, <2>2
    <3>2. ~Before(cursor', q)
      BY <3>1, BeforeIsAnOrder
    <3>3. QED
      BY <1>7, <3>1, <3>2
  <2>3. QED
    BY <1>3, <2>1, <2>2
<1>13. Range(rows) = {r \in Matching : KeyOf(r) \in Swept' \ Swept}
  <2>1. ASSUME NEW r \in Matching
        PROVE  /\ r \in Rows /\ KeyOf(r) \in Key
               /\ r \in Remaining <=> KeyOf(r) \notin Swept
    <3>1. r \in Rows /\ KeyOf(r) \in Key
      BY <1>1, KeysAreKeys DEF Matching
    <3>2. QED
      BY <1>6, <3>1 DEF Remaining, PastCursor
  <2>2. Range(rows) = {rows[i] : i \in 1..Len(rows)} /\ Range(rows) \subseteq Remaining
    BY AnswersAreRows DEF Range
  <2>3. CASE pc' = "done"
    <3>1. Range(rows) = Remaining
      BY <1>2, <2>3, AnswersAreRows DEF Fetched
    <3>2. QED
      BY <1>5, <1>7, <2>1, <2>3, <3>1
  <2>4. CASE pc' = "streaming"
    <3>1. ASSUME NEW r \in Remaining, r \notin Range(rows) PROVE KeyOf(r) \notin Swept'
      <4>1. Before(cursor', KeyOf(r))
        BY <1>10, <2>4, <3>1, AnswersAreRows
      <4>2. QED
        BY <1>5, <1>7, <2>4, <4>1
    <3>2. ASSUME NEW i \in 1..Len(rows) PROVE KeyOf(rows[i]) \in Swept'
      <4>1. rows[i] \in Remaining /\ KeyOf(rows[i]) \in Key
        BY <1>5, <3>2, AnswersAreRows
      <4>2. ~Before(cursor', KeyOf(rows[i]))
        <5>1. CASE i = ChunkSize
          BY <1>10, <2>4, <5>1, BeforeIsAnOrder
        <5>2. CASE i # ChunkSize
          <6>1. i < ChunkSize /\ ChunkSize \in 1..Len(rows)
            BY <1>10, <2>4, <3>2, <5>2, SizeAssumption
          <6>2. Before(KeyOf(rows[i]), KeyOf(rows[ChunkSize]))
            BY <3>2, <6>1, AnswersAreRows DEF InOrder
          <6>3. QED
            BY <1>10, <2>4, <4>1, <6>2, BeforeIsAnOrder
        <5>3. QED
          BY <5>1, <5>2
      <4>3. QED
        BY <1>7, <1>10, <2>4, <4>1, <4>2
    <3>3. QED
      BY <1>5, <2>1, <2>2, <3>1, <3>2
  <2>5. QED
    BY <1>3, <2>3, <2>4
<1>14. SubSeq(Listed', Len(Listed) + 1, Len(Listed')) = rows /\ Listed' = Listed \o rows
  <2>1. Listed \in Seq(Rows) /\ rows \in Seq(Rows) /\ Listed' = Listed \o rows
    BY <1>1, <1>2, ListedRows, AnswersAreRows DEF Fetched
  <2>2. Len(Listed \o rows) = Len(Listed) + Len(rows) /\ Len(Listed) \in Nat /\ Len(rows) \in Nat
    BY <2>1, ConcatProperties, LenProperties
  <2>3. CASE rows = <<>>
    <3>1. Len(rows) = 0
      BY <2>3
    <3>2. SubSeq(Listed', Len(Listed) + 1, Len(Listed')) = <<>>
      BY <2>1, <2>2, <3>1, SubSeqEmpty
    <3>3. QED
      BY <2>1, <2>3, <3>2
  <2>4. CASE rows # <<>>
    <3>1. Len(rows) \in Nat \ {0}
      BY <2>1, <2>2, <2>4, EmptySeq
    <3>2. SubSeq(Listed \o rows, Len(Listed) + 1, Len(Listed) + Len(rows))
            = SubSeq(rows, (Len(Listed) + 1) - Len(Listed), (Len(Listed) + Len(rows)) - Len(Listed))
      BY <2>1, <2>2, <3>1, SubSeqOfConcat2
    <3>3. (Len(Listed) + 1) - Len(Listed) = 1 /\ (Len(Listed) + Len(rows)) - Len(Listed) = Len(rows)
      BY <2>2
    <3>4. SubSeq(rows, 1, Len(rows)) = rows
      BY <2>1, SubSeqFull
    <3>5. QED
      BY <2>1, <2>2, <3>2, <3>3, <3>4
  <2>5. QED
    BY <2>3, <2>4
<1>15. Sweeping!InOrder(rows)
  BY <1>4, AnswersAreRows, SamePlaces DEF Sweeping!InOrder, InOrder
<1>16. Wanted' = Wanted
  BY <1>3 DEF Wanted
<1>17. Range(rows) = {r \in Sweeping!Matching : Sweeping!Place(r) \in Swept' \ Swept}
  BY <1>13, SamePlaces
<1>18. Swept' \subseteq Sweeping!Places
  BY <1>8, SamePlaces
<1>19. UNCHANGED <<table, module = "audit", Wanted>>
  BY <1>3, <1>16
<1>20. /\ Listed' = Listed \o SubSeq(Listed', Len(Listed) + 1, Len(Listed'))
       /\ Sweeping!InOrder(SubSeq(Listed', Len(Listed) + 1, Len(Listed')))
       /\ Range(SubSeq(Listed', Len(Listed) + 1, Len(Listed')))
            = {r \in Sweeping!Matching : Sweeping!Place(r) \in Swept' \ Swept}
  BY <1>14, <1>15, <1>17
<1>21. QED
  BY <1>11, <1>12, <1>18, <1>19, <1>20 DEF Sweeping!Sweep, Sweeping!Range, Range

LEMMA WrittenSweeps == Inv /\ Written => Sweeping!Write
<1> SUFFICES ASSUME Inv, Written PROVE Sweeping!Write
  OBVIOUS
<1>1. UNCHANGED <<module, filter, pc, cursor, sheet, buffer>>
  BY DEF Written, stream
<1>2. Swept' = Swept /\ Listed' = Listed /\ Wanted' = Wanted
  BY <1>1 DEF Swept, Listed, Wanted, Before
<1>3. QED
  BY <1>1, <1>2 DEF Written, Sweeping!Write, Row, Sweeping!Row

LEMMA NextSweeps == Inv /\ Inv' /\ [Next]_vars => [Sweeping!Next]_Sweeping!vars
<1> SUFFICES ASSUME Inv, Inv', [Next]_vars PROVE [Sweeping!Next]_Sweeping!vars
  OBVIOUS
<1>1. CASE CountRows
  <2>1. UNCHANGED <<module, filter, table, cursor, sheet, buffer>> /\ pc = "counting"
    BY <1>1 DEF CountRows
  <2>2. pc' # "done"
    BY <1>1 DEF CountRows
  <2>3. Swept' = Swept /\ Listed' = Listed /\ Wanted' = Wanted
    BY <2>1, <2>2 DEF Swept, Listed, Wanted, Before
  <2>4. QED
    BY <2>1, <2>3 DEF Sweeping!vars
<1>2. CASE FetchChunk
  BY <1>2, FetchSweeps DEF Sweeping!Next
<1>3. CASE \E r \in Rows : \E row \in Row : Insert(r, row)
  BY <1>3, InsertWrites, WrittenSweeps DEF Inv, Sweeping!Next
<1>4. CASE \E r \in Rows : \E v \in Values : ChangeAdmin(r, v)
  BY <1>4, ChangeAdminWrites, WrittenSweeps DEF Inv, Sweeping!Next
<1>5. CASE UNCHANGED vars
  BY <1>5 DEF vars, Sweeping!vars, Swept, Listed, Wanted, Before
<1>6. QED
  BY <1>1, <1>2, <1>3, <1>4, <1>5 DEF Next

(* The chunked streams implement a single sweep over the changing table.   *)
THEOREM ChunksSweep == Spec => ImplementsSweep
BY Invariant, InitSweeps, NextSweeps, PTL DEF Spec, ImplementsSweep, Sweeping!Spec
=============================================================================

------------------------ MODULE KnowledgeIndexProofs ------------------------
(***************************************************************************)
(* What is proved about KnowledgeIndex, for any number of runs of the      *)
(* script, any files, and any chunk sizes: what is committed for a         *)
(* document is always the whole result of one run.                         *)
(***************************************************************************)
EXTENDS KnowledgeIndex, TLAPS

\* The chunks find every passage that starts before a position.
Found(pieces, bound, s, length) ==
  \A i \in Nat : i < bound =>
    \E k \in DOMAIN pieces : Holds(pieces[k], i, s, length)

\* Both ends of the chunks ascend.
Ascending(pieces) ==
  \A j, k \in DOMAIN pieces : j < k =>
    pieces[j].from < pieces[k].from /\ pieces[j].to < pieces[k].to

\* All chunks of a text.
Whole(pieces, s, length) ==
  /\ pieces # <<>>
  /\ Found(pieces, length, s, length)
  /\ Ascending(pieces)

\* The loop of the chunker: what is before the next chunk is found, and that
\* chunk will reach further than all before it.
Loop(pieces, next, s, length) ==
  /\ pieces \in Seq(Piece)
  /\ next \in Nat /\ length \in Nat /\ next < length
  /\ s \in [max : Nat, overlap : Nat] /\ s.overlap < s.max
  /\ Found(pieces, next, s, length)
  /\ Ascending(pieces)
  /\ \A k \in DOMAIN pieces : /\ pieces[k].from < next
                              /\ pieces[k].to < next + s.max
                              /\ pieces[k].to < length

ChunkLoop(w) ==
  /\ doc[w] \in Docs
  /\ setting[w] \in Settings
  /\ Loop(chunks[w], start[w], setting[w], Size(w))

\* From the loop's end to the commit the chunks are whole.
ChunksReady(w) ==
  /\ doc[w] \in Docs
  /\ setting[w] \in Settings
  /\ Whole(chunks[w], setting[w], Size(w))

\* A transaction deletes all rows of the document, and inserts its chunks.
Replacing(w) ==
  /\ gone[w] = DOMAIN stored[doc[w]]
  /\ \A k \in DOMAIN added[w] : k \in DOMAIN chunks[w] /\ added[w][k] = chunks[w][k]

HandsClean(w) ==
  doc[w] = NoDoc /\ start[w] = 0 /\ chunks[w] = <<>>

IngesterInv(w) ==
  /\ pc[w] \in {"idle", "next"} => HandsClean(w)
  /\ pc[w] = "next" => setting[w] \in Settings
  /\ pc[w] = "chunk" => ChunkLoop(w)
  /\ pc[w] \in {"upsert", "delete", "insert", "commit"} => ChunksReady(w)
  /\ pc[w] \in {"insert", "commit"} => Replacing(w)
  /\ pc[w] \notin {"insert", "commit"} => added[w] = <<>>
  /\ pc[w] = "insert" => Len(added[w]) < Len(chunks[w])
  /\ pc[w] = "commit" => Len(added[w]) = Len(chunks[w])

\* No two transactions have the same document.
RowLocked ==
  \A v, w \in Ingesters :
    InTransaction(v) /\ InTransaction(w) /\ doc[v] = doc[w] => v = w

\* Every document is the whole result of the run that stored it.
StoredWhole ==
  \A d \in documents : by[d] \in Settings /\ Whole(stored[d], by[d], Length[d[2]])

IndexInv ==
  /\ TypeOK
  /\ \A w \in Ingesters : IngesterInv(w)
  /\ RowLocked
  /\ StoredWhole


-----------------------------------------------------------------------------
(* The loop of the chunker, by itself.                                     *)

LEMMA Appended ==
  ASSUME NEW S, NEW q \in Seq(S), NEW e \in S
  PROVE  LET more == Append(q, e) IN
         /\ more \in Seq(S) /\ more # <<>>
         /\ DOMAIN more = DOMAIN q \cup {Len(q) + 1}
         /\ more[Len(q) + 1] = e
         /\ \A k \in DOMAIN q : /\ more[k] = q[k] /\ q[k] \in S
                                /\ k \in Nat /\ k < Len(q) + 1
<1>1. /\ Append(q, e) \in Seq(S)
      /\ Len(q) \in Nat /\ DOMAIN q = 1..Len(q)
      /\ Len(Append(q, e)) = Len(q) + 1
      /\ DOMAIN Append(q, e) = 1..Len(q) + 1
  OBVIOUS
<1>2. Append(q, e)[Len(q) + 1] = e
  OBVIOUS
<1>3. \A k \in DOMAIN q : Append(q, e)[k] = q[k] /\ q[k] \in S
  OBVIOUS
<1>4. QED BY <1>1, <1>2, <1>3

\* A chunk behind all others, in both ends, keeps them ascending.
LEMMA AscendingAppended ==
  ASSUME NEW q \in Seq(Piece), NEW e \in Piece, Ascending(q),
         \A k \in DOMAIN q : q[k].from < e.from /\ q[k].to < e.to
  PROVE  Ascending(Append(q, e))
<1> DEFINE more == Append(q, e)
<1>1. /\ DOMAIN more = DOMAIN q \cup {Len(q) + 1}
      /\ more[Len(q) + 1] = e
      /\ \A k \in DOMAIN q : more[k] = q[k] /\ k \in Nat /\ k < Len(q) + 1
  BY Appended
<1>2. Len(q) + 1 \in Nat
  OBVIOUS
<1> HIDE DEF more
<1>3. SUFFICES ASSUME NEW j \in DOMAIN more, NEW k \in DOMAIN more, j < k
               PROVE  more[j].from < more[k].from /\ more[j].to < more[k].to
  BY DEF Ascending, more
<1>4. j \in DOMAIN q
  BY <1>1, <1>2, <1>3
<1>5. CASE k \in DOMAIN q
  BY <1>1, <1>3, <1>4, <1>5 DEF Ascending
<1>6. CASE k = Len(q) + 1
  BY <1>1, <1>4, <1>6
<1>7. QED BY <1>1, <1>5, <1>6

\* Passages found stay found, and the new chunk finds those that start in it
\* and either end in it or with the text.
LEMMA FoundAppended ==
  ASSUME NEW q \in Seq(Piece), NEW e \in Piece, NEW s, NEW length,
         NEW next \in Nat, Found(q, e.from, s, length),
         \A i \in Nat : e.from <= i /\ i < next => Holds(e, i, s, length)
  PROVE  Found(Append(q, e), next, s, length)
<1> DEFINE more == Append(q, e)
<1>1. /\ DOMAIN more = DOMAIN q \cup {Len(q) + 1}
      /\ more[Len(q) + 1] = e
      /\ \A k \in DOMAIN q : more[k] = q[k]
  BY Appended
<1> HIDE DEF more
<1>2. SUFFICES ASSUME NEW i \in Nat, i < next
               PROVE  \E k \in DOMAIN more : Holds(more[k], i, s, length)
  BY DEF Found, more
<1>3. e.from \in Nat
  BY DEF Piece
<1>4. CASE i < e.from
  BY <1>1, <1>4 DEF Found
<1>5. CASE e.from <= i
  BY <1>1, <1>2, <1>5
<1>6. QED BY <1>3, <1>4, <1>5

\* A chunk that ends before the text does keeps the loop going.
LEMMA AnotherRound ==
  ASSUME NEW pieces, NEW from, NEW s, NEW length, Loop(pieces, from, s, length),
         from + s.max < length
  PROVE  Loop(Append(pieces, [from |-> from, to |-> from + s.max]),
              (from + s.max) - s.overlap, s, length)
<1> DEFINE piece == [from |-> from, to |-> from + s.max]
           more == Append(pieces, piece)
           next == (from + s.max) - s.overlap
<1>1. /\ from \in Nat /\ length \in Nat /\ s.max \in Nat /\ s.overlap \in Nat
      /\ next \in Nat /\ from < next /\ next < length
      /\ from + s.max < next + s.max
      /\ piece \in Piece /\ piece.from = from /\ piece.to = from + s.max
      /\ pieces \in Seq(Piece)
  BY DEF Loop, Piece
<1>2. Found(more, next, s, length)
  <2>1. \A i \in Nat : from <= i /\ i < next => Holds(piece, i, s, length)
    BY <1>1 DEF Holds
  <2>2. QED BY <1>1, <2>1, FoundAppended DEF Loop
<1>3. Ascending(more)
  BY <1>1, AscendingAppended DEF Loop
<1>4. /\ more \in Seq(Piece)
      /\ \A k \in DOMAIN more : more[k] = piece \/ \E j \in DOMAIN pieces : more[k] = pieces[j]
      /\ \A j \in DOMAIN pieces : pieces[j] \in Piece
  BY <1>1, Appended
<1> HIDE DEF more, piece
<1>5. \A k \in DOMAIN more : /\ more[k].from < next
                             /\ more[k].to < next + s.max
                             /\ more[k].to < length
  <2> TAKE k \in DOMAIN more
  <2>1. CASE more[k] = piece
    BY <1>1, <2>1
  <2>2. ASSUME NEW j \in DOMAIN pieces, more[k] = pieces[j]
        PROVE  more[k].from < next /\ more[k].to < next + s.max /\ more[k].to < length
    <3>1. /\ pieces[j].from < from
          /\ pieces[j].to < from + s.max
          /\ pieces[j].to < length
      BY DEF Loop
    <3>2. pieces[j].from \in Nat /\ pieces[j].to \in Nat
      BY <1>4 DEF Piece
    <3>3. QED BY <1>1, <2>2, <3>1, <3>2
  <2>3. QED BY <1>4, <2>1, <2>2
<1>6. QED
  BY <1>1, <1>2, <1>3, <1>4, <1>5 DEF Loop, more, piece

\* A chunk that reaches the end of the text makes them whole.
LEMMA LastRound ==
  ASSUME NEW pieces, NEW from, NEW s, NEW length, Loop(pieces, from, s, length),
         from + s.max >= length
  PROVE  /\ Append(pieces, [from |-> from, to |-> length]) \in Seq(Piece)
         /\ Whole(Append(pieces, [from |-> from, to |-> length]), s, length)
<1> DEFINE piece == [from |-> from, to |-> length]
           more == Append(pieces, piece)
<1>1. /\ from \in Nat /\ length \in Nat
      /\ piece \in Piece /\ piece.from = from /\ piece.to = length
      /\ pieces \in Seq(Piece)
  BY DEF Loop, Piece
<1>2. Found(more, length, s, length)
  <2>1. \A i \in Nat : from <= i /\ i < length => Holds(piece, i, s, length)
    BY <1>1 DEF Holds
  <2>2. QED BY <1>1, <2>1, FoundAppended DEF Loop
<1>3. Ascending(more)
  BY <1>1, AscendingAppended DEF Loop
<1>4. more \in Seq(Piece) /\ more # <<>>
  BY <1>1, Appended
<1>5. QED
  BY <1>2, <1>3, <1>4 DEF Whole

-----------------------------------------------------------------------------
(* The invariant, step by step.                                            *)

Same(v) ==
  /\ pc'[v] = pc[v] /\ setting'[v] = setting[v] /\ doc'[v] = doc[v]
  /\ start'[v] = start[v] /\ chunks'[v] = chunks[v]
  /\ gone'[v] = gone[v] /\ added'[v] = added[v]

\* A step of one run leaves what the others hold alone.
LEMMA OthersSame ==
  ASSUME TypeOK, NEW w \in Ingesters, Start(w) \/ Progress(w) \/ Abort(w)
  PROVE  \A v \in Ingesters \ {w} : Same(v)
BY DEF TypeOK, Progress, Same, Start, Read, Return, Chunk, Upsert, Delete,
       Insert, Commit, Abort, Exit, Drop, Goto

\* What holds of a run still holds if nobody touched it and, while it has a
\* transaction open, its document.
LEMMA IngesterKept ==
  ASSUME NEW v \in Ingesters, IngesterInv(v), Same(v),
         pc[v] \in {"insert", "commit"} => stored'[doc[v]] = stored[doc[v]]
  PROVE  IngesterInv(v)'
BY DEF IngesterInv, Same, HandsClean, ChunkLoop, ChunksReady, Replacing, Size

\* A step that commits nothing and opens no transaction.
LEMMA QuietStep ==
  ASSUME IndexInv, TypeOK', NEW w \in Ingesters,
         \A v \in Ingesters \ {w} : Same(v),
         UNCHANGED <<documents, stored, by>>,
         IngesterInv(w)',
         InTransaction(w)' => InTransaction(w) /\ doc'[w] = doc[w]
  PROVE  IndexInv'
<1>1. \A v \in Ingesters : IngesterInv(v)'
  BY IngesterKept DEF IndexInv
<1>2. RowLocked'
  BY DEF IndexInv, RowLocked, InTransaction, Same
<1>3. StoredWhole'
  BY DEF IndexInv, StoredWhole
<1>4. QED BY <1>1, <1>2, <1>3 DEF IndexInv

\* A run that ends has clean hands.
LEMMA ExitClean ==
  ASSUME TypeOK, NEW w \in Ingesters, Exit(w)
  PROVE  /\ IngesterInv(w)' /\ ~InTransaction(w)'
         /\ pc' \in [Ingesters ->
              {"idle", "next", "chunk", "upsert", "delete", "insert", "commit"}]
         /\ setting' \in [Ingesters -> Settings \cup {NoSetting}]
         /\ todo' \in [Ingesters -> SUBSET Paths]
         /\ doc' \in [Ingesters -> Docs \cup {NoDoc}]
         /\ start' \in [Ingesters -> Nat]
         /\ chunks' \in [Ingesters -> Seq(Piece)]
         /\ gone' \in [Ingesters -> SUBSET Nat]
         /\ added' \in [Ingesters -> Seq(Piece)]
BY DEF TypeOK, Exit, Drop, Goto, IngesterInv, HandsClean, InTransaction

LEMMA StartKeeps ==
  ASSUME IndexInv, NEW w \in Ingesters, Start(w)
  PROVE  IndexInv'
<1>1. TypeOK'
  BY DEF IndexInv, TypeOK, Start, Goto, Listed
<1>2. IngesterInv(w)' /\ ~InTransaction(w)'
  BY DEF IndexInv, TypeOK, Start, Goto, IngesterInv, HandsClean, InTransaction
<1>3. UNCHANGED <<documents, stored, by>>
  BY DEF Start
<1>4. QED BY <1>1, <1>2, <1>3, OthersSame, QuietStep DEF IndexInv

LEMMA ReadKeeps ==
  ASSUME IndexInv, NEW w \in Ingesters, Read(w)
  PROVE  IndexInv'
<1>1. UNCHANGED <<files, edits, faults, documents, stored, by>>
  BY DEF Read
<1>2. PICK p \in First(w) :
        \/ /\ files[p] = Missing
           /\ Exit(w)
        \/ /\ files[p] # Missing
           /\ todo' = [todo EXCEPT ![w] = @ \ {p}]
           /\ \/ /\ Length[files[p]] = 0
                 /\ UNCHANGED <<pc, doc>>
              \/ /\ Length[files[p]] > 0
                 /\ doc' = [doc EXCEPT ![w] = <<p, files[p]>>]
                 /\ Goto(w, "chunk")
           /\ UNCHANGED <<setting, start, chunks, gone, added>>
  BY DEF Read
<1>3. CASE Exit(w)
  <2>1. TypeOK'
    BY <1>1, <1>3, ExitClean DEF IndexInv, TypeOK
  <2>2. QED
    BY <1>1, <1>3, <2>1, ExitClean, OthersSame, QuietStep DEF IndexInv, Progress
<1>4. CASE /\ files[p] # Missing
           /\ Length[files[p]] = 0
           /\ todo' = [todo EXCEPT ![w] = @ \ {p}]
           /\ UNCHANGED <<pc, doc, setting, start, chunks, gone, added>>
  <2>1. TypeOK'
    BY <1>1, <1>4 DEF IndexInv, TypeOK
  <2>2. Same(w)
    BY <1>4 DEF Same
  <2>3. IngesterInv(w)'
    BY <1>1, <2>2, IngesterKept DEF IndexInv
  <2>4. InTransaction(w)' => InTransaction(w) /\ doc'[w] = doc[w]
    BY <1>4 DEF InTransaction
  <2>5. QED
    BY <1>1, <2>1, <2>3, <2>4, OthersSame, QuietStep DEF IndexInv, Progress
<1>5. CASE /\ files[p] # Missing
           /\ Length[files[p]] > 0
           /\ todo' = [todo EXCEPT ![w] = @ \ {p}]
           /\ doc' = [doc EXCEPT ![w] = <<p, files[p]>>]
           /\ Goto(w, "chunk")
           /\ UNCHANGED <<setting, start, chunks, gone, added>>
  <2>1. /\ p \in Paths /\ files[p] \in Texts
        /\ Length[files[p]] \in Nat
        /\ <<p, files[p]>> \in Docs
    BY <1>5, IndexAssumption DEF IndexInv, TypeOK, First, Docs
  <2>2. TypeOK'
    BY <1>1, <1>5, <2>1 DEF IndexInv, TypeOK, Goto
  <2>3. /\ pc'[w] = "chunk" /\ doc'[w] = <<p, files[p]>> /\ pc[w] = "next"
        /\ start'[w] = 0 /\ chunks'[w] = <<>> /\ added'[w] = <<>>
        /\ setting'[w] \in Settings
    BY <1>5 DEF Read, IndexInv, TypeOK, Goto, IngesterInv, HandsClean
  <2>4. setting'[w] \in [max : Nat, overlap : Nat] /\ setting'[w].overlap < setting'[w].max
    BY <2>3, IndexAssumption
  <2>5. Size(w)' = Length[files[p]]
    BY <2>3 DEF Size
  <2>6. Loop(<<>>, 0, setting'[w], Length[files[p]])
    BY <1>5, <2>1, <2>4 DEF Loop, Found, Ascending
  <2>7. IngesterInv(w)'
    BY <2>1, <2>3, <2>5, <2>6 DEF IngesterInv, ChunkLoop
  <2>8. ~InTransaction(w)'
    BY <2>3 DEF InTransaction
  <2>9. QED
    BY <1>1, <2>2, <2>7, <2>8, OthersSame, QuietStep DEF IndexInv, Progress
<1>6. QED BY <1>2, <1>3, <1>4, <1>5

LEMMA ReturnKeeps ==
  ASSUME IndexInv, NEW w \in Ingesters, Return(w)
  PROVE  IndexInv'
<1>1. Exit(w) /\ UNCHANGED <<files, edits, faults, documents, stored, by>>
  BY DEF Return
<1>2. TypeOK'
  BY <1>1, ExitClean DEF IndexInv, TypeOK
<1>3. QED
  BY <1>1, <1>2, ExitClean, OthersSame, QuietStep DEF IndexInv, Progress

LEMMA AbortKeeps ==
  ASSUME IndexInv, NEW w \in Ingesters, Abort(w)
  PROVE  IndexInv'
<1>1. Exit(w) /\ UNCHANGED <<files, edits, documents, stored, by>>
  BY DEF Abort
<1>2. faults' \in 0..MaxFaults
  BY IndexAssumption DEF Abort, IndexInv, TypeOK
<1>3. TypeOK'
  BY <1>1, <1>2, ExitClean DEF IndexInv, TypeOK
<1>4. QED
  BY <1>1, <1>3, ExitClean, OthersSame, QuietStep DEF IndexInv

LEMMA ChunkKeeps ==
  ASSUME IndexInv, NEW w \in Ingesters, Chunk(w)
  PROVE  IndexInv'
<1> DEFINE full == start[w] + setting[w].max
           last == [from |-> start[w], to |-> Size(w)]
           piece == [from |-> start[w], to |-> full]
<1>1. /\ pc[w] = "chunk"
      /\ UNCHANGED <<files, edits, faults, documents, stored, by,
                     setting, todo, doc, gone, added>>
      /\ Size(w)' = Size(w)
  BY DEF Chunk, Size
<1>2. /\ doc[w] \in Docs /\ setting[w] \in Settings /\ added[w] = <<>>
      /\ Loop(chunks[w], start[w], setting[w], Size(w))
  BY <1>1 DEF IndexInv, IngesterInv, ChunkLoop
<1>3. full \in Nat /\ Size(w) \in Nat /\ last \in Piece /\ piece \in Piece
  BY <1>2 DEF Loop, Piece
<1>4. CASE /\ full >= Size(w)
           /\ chunks' = [chunks EXCEPT ![w] = Append(@, last)]
           /\ Goto(w, "upsert")
           /\ UNCHANGED start
  <2>1. Append(chunks[w], last) \in Seq(Piece)
        /\ Whole(Append(chunks[w], last), setting[w], Size(w))
    BY <1>2, <1>4, LastRound
  <2>2. TypeOK'
    BY <1>1, <1>4, <2>1 DEF IndexInv, TypeOK, Goto
  <2>3. pc'[w] = "upsert" /\ chunks'[w] = Append(chunks[w], last)
    BY <1>4 DEF IndexInv, TypeOK, Goto
  <2>4. IngesterInv(w)'
    BY <1>1, <1>2, <2>1, <2>3 DEF IngesterInv, ChunksReady
  <2>5. ~InTransaction(w)'
    BY <2>3 DEF InTransaction
  <2>6. QED
    BY <1>1, <2>2, <2>4, <2>5, OthersSame, QuietStep DEF IndexInv, Progress
<1>5. CASE /\ full < Size(w)
           /\ chunks' = [chunks EXCEPT ![w] = Append(@, piece)]
           /\ start' = [start EXCEPT ![w] = full - setting[w].overlap]
           /\ UNCHANGED pc
  <2>1. Loop(Append(chunks[w], piece), full - setting[w].overlap, setting[w], Size(w))
    BY <1>2, <1>5, AnotherRound
  <2>2. TypeOK'
    BY <1>1, <1>5, <2>1 DEF IndexInv, TypeOK, Loop
  <2>3. /\ pc'[w] = "chunk" /\ chunks'[w] = Append(chunks[w], piece)
        /\ start'[w] = full - setting[w].overlap
    BY <1>1, <1>5 DEF IndexInv, TypeOK
  <2>4. IngesterInv(w)'
    BY <1>1, <1>2, <2>1, <2>3 DEF IngesterInv, ChunkLoop
  <2>5. ~InTransaction(w)'
    BY <2>3 DEF InTransaction
  <2>6. QED
    BY <1>1, <2>2, <2>4, <2>5, OthersSame, QuietStep DEF IndexInv, Progress
<1>6. QED BY <1>4, <1>5 DEF Chunk

\* The run that gets the row is the only one in a transaction with it.
LEMMA UpsertKeeps ==
  ASSUME IndexInv, NEW w \in Ingesters, Upsert(w)
  PROVE  IndexInv'
<1>1. /\ pc[w] = "upsert" /\ pc'[w] = "delete"
      /\ \A v \in Ingesters : InTransaction(v) => doc[v] # doc[w]
      /\ UNCHANGED <<documents, stored, by, doc, setting, chunks, added>>
      /\ \A v \in Ingesters \ {w} : Same(v)
  BY OthersSame DEF IndexInv, TypeOK, Upsert, Goto, Progress
<1>2. TypeOK'
  BY DEF IndexInv, TypeOK, Upsert, Goto
<1>3. IngesterInv(w)'
  BY <1>1 DEF IndexInv, IngesterInv, ChunksReady, Size
<1>4. \A v \in Ingesters : IngesterInv(v)'
  BY <1>1, <1>3, IngesterKept DEF IndexInv
<1>5. RowLocked'
  <2>1. SUFFICES ASSUME NEW u \in Ingesters, NEW v \in Ingesters,
                        InTransaction(u)', InTransaction(v)', doc[u] = doc[v]
                 PROVE  u = v
    BY <1>1 DEF RowLocked
  <2>2. \A x \in Ingesters \ {w} : InTransaction(x)' => InTransaction(x)
    BY <1>1 DEF InTransaction, Same
  <2>3. QED BY <1>1, <2>1, <2>2 DEF IndexInv, RowLocked
<1>6. StoredWhole'
  BY <1>1 DEF IndexInv, StoredWhole
<1>7. QED BY <1>2, <1>4, <1>5, <1>6 DEF IndexInv

LEMMA DeleteKeeps ==
  ASSUME IndexInv, NEW w \in Ingesters, Delete(w)
  PROVE  IndexInv'
<1>1. /\ pc[w] = "delete" /\ pc'[w] = "insert"
      /\ gone'[w] = DOMAIN stored[doc[w]]
      /\ UNCHANGED <<documents, stored, by, doc, setting, chunks, added>>
  BY DEF IndexInv, TypeOK, Delete, Goto
<1>2. ChunksReady(w) /\ added[w] = <<>>
  BY <1>1 DEF IndexInv, IngesterInv
<1>3. stored[doc[w]] \in Seq(Piece) /\ chunks[w] \in Seq(Piece)
  BY <1>2 DEF IndexInv, TypeOK, ChunksReady
<1>4. TypeOK'
  BY <1>3 DEF IndexInv, TypeOK, Delete, Goto
<1>5. IngesterInv(w)'
  <2>1. Len(chunks[w]) > 0
    BY <1>2, <1>3 DEF ChunksReady, Whole
  <2>2. QED
    BY <1>1, <1>2, <1>3, <2>1 DEF IngesterInv, ChunksReady, Replacing, Size
<1>6. InTransaction(w) /\ doc'[w] = doc[w]
  BY <1>1 DEF InTransaction
<1>7. QED
  BY <1>1, <1>4, <1>5, <1>6, OthersSame, QuietStep DEF IndexInv, Progress

\* The rows that are in the way are deleted.
LEMMA NothingTaken ==
  ASSUME IndexInv, NEW w \in Ingesters, pc[w] = "insert"
  PROVE  ~Taken(w)
BY DEF IndexInv, IngesterInv, Replacing, Taken

LEMMA InsertKeeps ==
  ASSUME IndexInv, NEW w \in Ingesters, Insert(w)
  PROVE  IndexInv'
<1> DEFINE n == NextIndex(w)
           more == Append(added[w], chunks[w][n])
<1>1. /\ pc[w] = "insert" /\ ~Taken(w)
      /\ UNCHANGED <<files, edits, faults, documents, stored, by,
                     setting, todo, doc, start, chunks, gone>>
      /\ added' = [added EXCEPT ![w] = more]
      /\ \/ n = Len(chunks[w]) /\ Goto(w, "commit")
         \/ n # Len(chunks[w]) /\ UNCHANGED pc
  BY NothingTaken DEF Insert
<1>2. /\ ChunksReady(w) /\ Replacing(w) /\ Len(added[w]) < Len(chunks[w])
      /\ added[w] \in Seq(Piece) /\ chunks[w] \in Seq(Piece)
  BY <1>1 DEF IndexInv, IngesterInv, TypeOK
<1>3. n \in 1..Len(chunks[w]) /\ n = Len(added[w]) + 1 /\ chunks[w][n] \in Piece
  BY <1>2 DEF NextIndex
<1>4. /\ more \in Seq(Piece) /\ Len(more) = n
      /\ \A k \in DOMAIN more : k \in DOMAIN chunks[w] /\ more[k] = chunks[w][k]
  <2>1. /\ more \in Seq(Piece) /\ Len(more) = n
        /\ DOMAIN more = DOMAIN added[w] \cup {n}
        /\ more[n] = chunks[w][n]
        /\ \A k \in DOMAIN added[w] : more[k] = added[w][k]
    BY <1>2, <1>3, Appended
  <2>2. n \in DOMAIN chunks[w]
    BY <1>2, <1>3
  <2> HIDE DEF more, n
  <2>3. QED BY <1>2, <2>1, <2>2 DEF Replacing
<1> HIDE DEF more, n
<1>5. TypeOK'
  BY <1>1, <1>4 DEF IndexInv, TypeOK, Goto
<1>6. added'[w] = more
  BY <1>1 DEF IndexInv, TypeOK
<1>7. \/ n = Len(chunks[w]) /\ pc'[w] = "commit"
      \/ n < Len(chunks[w]) /\ pc'[w] = "insert"
  <2>1. n = Len(chunks[w]) \/ n < Len(chunks[w])
    BY <1>2, <1>3
  <2>2. QED BY <1>1, <2>1 DEF IndexInv, TypeOK, Goto
<1>8. ChunksReady(w)' /\ Replacing(w)'
  BY <1>1, <1>2, <1>4, <1>6 DEF ChunksReady, Replacing, Size
<1>9. IngesterInv(w)'
  BY <1>1, <1>4, <1>6, <1>7, <1>8 DEF IngesterInv
<1>10. InTransaction(w) /\ doc'[w] = doc[w]
  BY <1>1 DEF InTransaction
<1>11. QED
  BY <1>1, <1>5, <1>9, <1>10, OthersSame, QuietStep DEF IndexInv, Progress

\* What is committed is what the run cut.
LEMMA MergedIsChunks ==
  ASSUME IndexInv, NEW w \in Ingesters, pc[w] = "commit"
  PROVE  Merged(w) = chunks[w]
<1>1. /\ Replacing(w) /\ Len(added[w]) = Len(chunks[w])
      /\ added[w] \in Seq(Piece) /\ chunks[w] \in Seq(Piece)
  BY DEF IndexInv, IngesterInv, TypeOK
<1>2. DOMAIN added[w] = DOMAIN chunks[w]
  BY <1>1
<1>3. Merged(w) = [i \in DOMAIN chunks[w] |-> chunks[w][i]]
  BY <1>1, <1>2 DEF Merged, Replacing
<1>4. QED BY <1>1, <1>3

LEMMA CommitKeeps ==
  ASSUME IndexInv, NEW w \in Ingesters, Commit(w)
  PROVE  IndexInv'
<1>1. /\ pc[w] = "commit"
      /\ documents' = documents \cup {doc[w]}
      /\ stored' = [stored EXCEPT ![doc[w]] = chunks[w]]
      /\ by' = [by EXCEPT ![doc[w]] = setting[w]]
      /\ UNCHANGED <<files, edits, faults, setting, todo>>
      /\ \A v \in Ingesters \ {w} : Same(v)
  BY MergedIsChunks, OthersSame DEF Commit, IndexInv, Progress
<1>2. ChunksReady(w) /\ chunks[w] \in Seq(Piece)
  BY <1>1 DEF IndexInv, IngesterInv, TypeOK
<1>3. TypeOK'
  BY <1>1, <1>2 DEF IndexInv, TypeOK, Commit, Goto, Drop, ChunksReady
<1>4. IngesterInv(w)' /\ ~InTransaction(w)'
  BY <1>1, <1>2 DEF IndexInv, TypeOK, Commit, Goto, Drop, ChunksReady,
                    IngesterInv, HandsClean, InTransaction
<1>5. ASSUME NEW v \in Ingesters \ {w} PROVE IngesterInv(v)'
  <2>1. pc[v] \in {"insert", "commit"} => doc[v] # doc[w]
    BY <1>1 DEF IndexInv, RowLocked, InTransaction
  <2>2. pc[v] \in {"insert", "commit"} => stored'[doc[v]] = stored[doc[v]]
    BY <1>1, <2>1 DEF IndexInv, TypeOK, IngesterInv, ChunksReady
  <2>3. QED BY <1>1, <2>2, IngesterKept DEF IndexInv
<1>6. RowLocked'
  BY <1>1, <1>4 DEF IndexInv, RowLocked, InTransaction, Same
<1>7. StoredWhole'
  <2>1. SUFFICES ASSUME NEW d \in documents'
                 PROVE  by'[d] \in Settings /\ Whole(stored'[d], by'[d], Length[d[2]])
    BY DEF StoredWhole
  <2>2. CASE d = doc[w]
    BY <1>1, <1>2, <2>2 DEF ChunksReady, Size, IndexInv, TypeOK
  <2>3. CASE d # doc[w]
    BY <1>1, <2>3 DEF IndexInv, TypeOK, StoredWhole
  <2>4. QED BY <2>2, <2>3
<1>8. QED BY <1>3, <1>4, <1>5, <1>6, <1>7 DEF IndexInv

LEMMA EditKeeps ==
  ASSUME IndexInv, NEW p \in Paths, Edit(p)
  PROVE  IndexInv'
<1>1. TypeOK'
  BY IndexAssumption DEF IndexInv, TypeOK, Edit, local
<1>2. UNCHANGED <<documents, stored, by, local>>
  BY DEF Edit
<1>3. \A v \in Ingesters : IngesterInv(v)'
  BY <1>2, IngesterKept DEF IndexInv, Same, local
<1>4. QED
  BY <1>1, <1>2, <1>3 DEF IndexInv, RowLocked, InTransaction, StoredWhole, local

LEMMA IndexInvariant == Spec => []IndexInv
<1>1. Init => IndexInv
  <2> SUFFICES ASSUME Init PROVE IndexInv
    OBVIOUS
  <2>1. TypeOK
    BY IndexAssumption DEF Init, TypeOK
  <2>2. \A w \in Ingesters : IngesterInv(w)
    BY DEF Init, IngesterInv, HandsClean
  <2>3. RowLocked /\ StoredWhole
    BY DEF Init, RowLocked, InTransaction, StoredWhole
  <2>4. QED BY <2>1, <2>2, <2>3 DEF IndexInv
<1>2. IndexInv /\ [Next]_vars => IndexInv'
  <2> SUFFICES ASSUME IndexInv, [Next]_vars PROVE IndexInv'
    OBVIOUS
  <2>1. CASE UNCHANGED vars
    <3>1. UNCHANGED <<files, edits, faults, documents, stored, by, local>>
      BY <2>1 DEF vars
    <3>2. \A v \in Ingesters : IngesterInv(v)'
      BY <3>1, IngesterKept DEF IndexInv, Same, local
    <3>3. QED
      BY <3>1, <3>2 DEF IndexInv, TypeOK, RowLocked, InTransaction, StoredWhole, local
  <2>2. CASE Next
    BY <2>2, StartKeeps, ReadKeeps, ReturnKeeps, ChunkKeeps, UpsertKeeps,
       DeleteKeeps, InsertKeeps, CommitKeeps, AbortKeeps, EditKeeps
       DEF Next, Progress
  <2>3. QED BY <2>1, <2>2
<1>3. QED BY <1>1, <1>2, PTL DEF Spec

-----------------------------------------------------------------------------
\* The variables keep their types: in particular what a transaction leaves is
\* a gapless sequence of chunks.
THEOREM TypeCorrect == Spec => []TypeOK
<1>1. IndexInv => TypeOK
  BY DEF IndexInv
<1>2. QED BY <1>1, IndexInvariant, PTL

\* Every passage of a committed document no longer than the overlap of the run that
\* stored it and one lies in one of its chunks, for all texts and chunk sizes and
\* however many runs of the script overlap, fail or are interrupted.
THEOREM PassagesAreFound == Spec => []PassagesWhole
<1>1. IndexInv => PassagesWhole
  <2> SUFFICES ASSUME IndexInv, NEW d \in documents
               PROVE  \A i \in 0..Length[d[2]] - 1 :
                        \E k \in DOMAIN stored[d] : Holds(stored[d][k], i, by[d], Length[d[2]])
    BY DEF PassagesWhole
  <2>1. Found(stored[d], Length[d[2]], by[d], Length[d[2]])
    BY DEF IndexInv, StoredWhole, Whole
  <2>2. Length[d[2]] \in Nat
    BY IndexAssumption DEF IndexInv, TypeOK, Docs
  <2>3. QED BY <2>1, <2>2 DEF Found
<1>2. QED BY <1>1, IndexInvariant, PTL

\* No chunk of a committed document lies inside another.
THEOREM NoChunkIsLeftOver == Spec => []NoSurplus
<1>1. IndexInv => NoSurplus
  BY DEF IndexInv, StoredWhole, Whole, Ascending, NoSurplus
<1>2. QED BY <1>1, IndexInvariant, PTL

\* No insertion meets a row with its index, thanks to the row of the document
\* that every transaction locks first.
THEOREM InsertionsAreFree == Spec => []InsertsFree
<1>1. IndexInv => InsertsFree
  BY NothingTaken DEF InsertsFree
<1>2. QED BY <1>1, IndexInvariant, PTL

=============================================================================

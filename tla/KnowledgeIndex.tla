--------------------------- MODULE KnowledgeIndex ---------------------------
(***************************************************************************)
(* scripts/ingest_knowledge.py over PgVectorRepository.index_document.     *)
(* Runs of the script read files, cut them into overlapping chunks, and    *)
(* replace the chunks of one document per transaction.  Anyone may start   *)
(* the script, with chunk sizes of their own, while another run is under   *)
(* way, and searches read the committed rows at any time.  A document is a *)
(* path with one content: a file that changes becomes another document.    *)
(***************************************************************************)
EXTENDS Naturals, Sequences

CONSTANTS
  Ingesters,  \* runs of the script
  Paths,      \* files, numbered in the order of their paths
  Texts,      \* contents; a content stands for its hash as well
  Length,     \* characters of a content
  Missing,    \* no file at this path
  Settings,   \* --max-chars and --overlap-chars
  MaxEdits,   \* bound of the changes to files
  MaxFaults   \* bound of the number of failures

Docs == Paths \X Texts
Piece == [from : Nat, to : Nat]  \* characters from..to - 1 of a content

\* TextChunker refuses an overlap that reaches the size of a chunk.
ASSUME IndexAssumption ==
  /\ Paths \subseteq Nat
  /\ Length \in [Texts -> Nat]
  /\ Missing \notin Texts
  /\ Settings \subseteq [max : Nat, overlap : Nat]
  /\ \A s \in Settings : s.overlap < s.max
  /\ MaxEdits \in Nat
  /\ MaxFaults \in Nat

VARIABLES
  files,      \* the directory
  edits,      \* changes so far
  faults,     \* failures so far
  documents,  \* knowledge_documents
  stored,     \* knowledge_chunks of each document, by chunk_index + 1
  by,         \* history: the settings of the run that stored them
  pc,         \* "next" file, "chunk", then the statements of a transaction
  setting,
  todo,       \* files of the list still to come
  doc,        \* the document in hand
  start,      \* of its next chunk
  chunks,     \* its chunks so far
  gone,       \* rows the open transaction deleted, by chunk_index + 1
  added       \* rows it inserted

local == <<pc, setting, todo, doc, start, chunks, gone, added>>
vars == <<files, edits, faults, documents, stored, by, local>>

NoDoc == <<>>
NoSetting == [max |-> 0, overlap |-> 0]

TypeOK ==
  /\ files \in [Paths -> Texts \cup {Missing}]
  /\ edits \in 0..MaxEdits
  /\ faults \in 0..MaxFaults
  /\ documents \in SUBSET Docs
  /\ stored \in [Docs -> Seq(Piece)]
  /\ by \in [Docs -> Settings \cup {NoSetting}]
  /\ pc \in [Ingesters ->
       {"idle", "next", "chunk", "upsert", "delete", "insert", "commit"}]
  /\ setting \in [Ingesters -> Settings \cup {NoSetting}]
  /\ todo \in [Ingesters -> SUBSET Paths]
  /\ doc \in [Ingesters -> Docs \cup {NoDoc}]
  /\ start \in [Ingesters -> Nat]
  /\ chunks \in [Ingesters -> Seq(Piece)]
  /\ gone \in [Ingesters -> SUBSET Nat]
  /\ added \in [Ingesters -> Seq(Piece)]

Init ==
  /\ files \in [Paths -> Texts \cup {Missing}]
  /\ edits = 0
  /\ faults = 0
  /\ documents = {}
  /\ stored = [d \in Docs |-> <<>>]
  /\ by = [d \in Docs |-> NoSetting]
  /\ pc = [w \in Ingesters |-> "idle"]
  /\ setting = [w \in Ingesters |-> NoSetting]
  /\ todo = [w \in Ingesters |-> {}]
  /\ doc = [w \in Ingesters |-> NoDoc]
  /\ start = [w \in Ingesters |-> 0]
  /\ chunks = [w \in Ingesters |-> <<>>]
  /\ gone = [w \in Ingesters |-> {}]
  /\ added = [w \in Ingesters |-> <<>>]

-----------------------------------------------------------------------------
Goto(w, label) == pc' = [pc EXCEPT ![w] = label]
Listed == {p \in Paths : files[p] # Missing}
First(w) == {p \in todo[w] : \A q \in todo[w] : p <= q}
Size(w) == Length[doc[w][2]]

\* Back to the list, with the document and its transaction out of hand.
Drop(w) ==
  /\ doc' = [doc EXCEPT ![w] = NoDoc]
  /\ start' = [start EXCEPT ![w] = 0]
  /\ chunks' = [chunks EXCEPT ![w] = <<>>]
  /\ gone' = [gone EXCEPT ![w] = {}]
  /\ added' = [added EXCEPT ![w] = <<>>]

\* The script returns or raises; an open transaction is rolled back.
Exit(w) ==
  /\ Goto(w, "idle")
  /\ setting' = [setting EXCEPT ![w] = NoSetting]
  /\ todo' = [todo EXCEPT ![w] = {}]
  /\ Drop(w)

Start(w) ==
  /\ pc[w] = "idle"
  /\ \E s \in Settings : setting' = [setting EXCEPT ![w] = s]
  /\ todo' = [todo EXCEPT ![w] = Listed]
  /\ Goto(w, "next")
  /\ UNCHANGED <<files, edits, faults, documents, stored, by,
                 doc, start, chunks, gone, added>>

\* Bug: an empty file ends the run.
BugRead(w) ==
  /\ pc[w] = "next"
  /\ \E p \in First(w) :
       IF files[p] = Missing \/ Length[files[p]] = 0
       THEN Exit(w)
       ELSE /\ todo' = [todo EXCEPT ![w] = @ \ {p}]
            /\ doc' = [doc EXCEPT ![w] = <<p, files[p]>>]
            /\ Goto(w, "chunk")
            /\ UNCHANGED <<setting, start, chunks, gone, added>>
  /\ UNCHANGED <<files, edits, faults, documents, stored, by>>

\* The next file of the list.  One that was removed since the list was made
\* raises and ends the run; an empty one has no chunks and is passed over.
Read(w) ==
  /\ pc[w] = "next"
  /\ \E p \in First(w) :
       \/ /\ files[p] = Missing
          /\ Exit(w)
       \/ /\ files[p] # Missing
          /\ todo' = [todo EXCEPT ![w] = @ \ {p}]
          /\ \/ /\ Length[files[p]] = 0
                /\ UNCHANGED <<pc, doc>>
             \/ /\ Length[files[p]] > 0
                /\ doc' = [doc EXCEPT ![w] = <<p, files[p]>>]
                /\ Goto(w, "chunk")
          /\ UNCHANGED <<setting, start, chunks, gone, added>>
  /\ UNCHANGED <<files, edits, faults, documents, stored, by>>

Return(w) ==
  /\ pc[w] = "next"
  /\ todo[w] = {}
  /\ Exit(w)
  /\ UNCHANGED <<files, edits, faults, documents, stored, by>>

\* Bug: the next chunk starts where this one ends.
BugChunk(w) ==
  /\ pc[w] = "chunk"
  /\ LET full == start[w] + setting[w].max
         end == IF full < Size(w) THEN full ELSE Size(w) IN
       /\ chunks' = [chunks EXCEPT ![w] = Append(@, [from |-> start[w], to |-> end])]
       /\ start' = [start EXCEPT ![w] = end]
       /\ IF end = Size(w) THEN Goto(w, "upsert") ELSE UNCHANGED pc
  /\ UNCHANGED <<files, edits, faults, documents, stored, by,
                 setting, todo, doc, gone, added>>

\* One round of the loop of TextChunker.chunk.
Chunk(w) ==
  /\ pc[w] = "chunk"
  /\ LET full == start[w] + setting[w].max IN
       \/ /\ full >= Size(w)
          /\ chunks' = [chunks EXCEPT
                          ![w] = Append(@, [from |-> start[w], to |-> Size(w)])]
          /\ Goto(w, "upsert")
          /\ UNCHANGED start
       \/ /\ full < Size(w)
          /\ chunks' = [chunks EXCEPT
                          ![w] = Append(@, [from |-> start[w], to |-> full])]
          /\ start' = [start EXCEPT ![w] = full - setting[w].overlap]
          /\ UNCHANGED pc
  /\ UNCHANGED <<files, edits, faults, documents, stored, by,
                 setting, todo, doc, gone, added>>

-----------------------------------------------------------------------------
\* The statements of index_document, read committed.

InTransaction(w) == pc[w] \in {"delete", "insert", "commit"}

\* Bug: ON CONFLICT DO NOTHING, which locks no row that is already there.
BugUpsert(w) ==
  /\ pc[w] = "upsert"
  /\ doc[w] \in documents \/ \A v \in Ingesters : InTransaction(v) => doc[v] # doc[w]
  /\ Goto(w, "delete")
  /\ UNCHANGED <<files, edits, faults, documents, stored, by,
                 setting, todo, doc, start, chunks, gone, added>>

\* INSERT ... ON CONFLICT DO UPDATE: locks the row of the document, and waits
\* for the end of any transaction that has it.
Upsert(w) ==
  /\ pc[w] = "upsert"
  /\ \A v \in Ingesters : InTransaction(v) => doc[v] # doc[w]
  /\ Goto(w, "delete")
  /\ UNCHANGED <<files, edits, faults, documents, stored, by,
                 setting, todo, doc, start, chunks, gone, added>>

\* Bug: only the rows about to be replaced are deleted.
BugDelete(w) ==
  /\ pc[w] = "delete"
  /\ gone' = [gone EXCEPT ![w] = DOMAIN stored[doc[w]] \cap DOMAIN chunks[w]]
  /\ Goto(w, "insert")
  /\ UNCHANGED <<files, edits, faults, documents, stored, by,
                 setting, todo, doc, start, chunks, added>>

\* DELETE sees the rows committed by now.
Delete(w) ==
  /\ pc[w] = "delete"
  /\ gone' = [gone EXCEPT ![w] = DOMAIN stored[doc[w]]]
  /\ Goto(w, "insert")
  /\ UNCHANGED <<files, edits, faults, documents, stored, by,
                 setting, todo, doc, start, chunks, added>>

\* The chunk_index + 1 of the row to insert, and whether it is taken.
NextIndex(w) == Len(added[w]) + 1
Taken(w) == NextIndex(w) \in DOMAIN stored[doc[w]] \ gone[w]

\* One row; UNIQUE (document_id, chunk_index) raises.
Insert(w) ==
  /\ pc[w] = "insert"
  /\ \/ /\ Taken(w)
        /\ Exit(w)
     \/ /\ ~Taken(w)
        /\ added' = [added EXCEPT ![w] = Append(@, chunks[w][NextIndex(w)])]
        /\ \/ /\ NextIndex(w) = Len(chunks[w])
              /\ Goto(w, "commit")
           \/ /\ NextIndex(w) # Len(chunks[w])
              /\ UNCHANGED pc
        /\ UNCHANGED <<setting, todo, doc, start, chunks, gone>>
  /\ UNCHANGED <<files, edits, faults, documents, stored, by>>

\* What the document's rows are once the transaction is committed.
Merged(w) ==
  LET old == stored[doc[w]] IN
  [i \in (DOMAIN old \ gone[w]) \cup DOMAIN added[w] |->
     IF i \in DOMAIN added[w] THEN added[w][i] ELSE old[i]]

\* The end of the connection's context commits.
Commit(w) ==
  /\ pc[w] = "commit"
  /\ documents' = documents \cup {doc[w]}
  /\ stored' = [stored EXCEPT ![doc[w]] = Merged(w)]
  /\ by' = [by EXCEPT ![doc[w]] = setting[w]]
  /\ Goto(w, "next")
  /\ Drop(w)
  /\ UNCHANGED <<files, edits, faults, setting, todo>>

\* A statement fails, a file is not UTF-8, or the script is interrupted.
Abort(w) ==
  /\ pc[w] # "idle"
  /\ faults < MaxFaults
  /\ faults' = faults + 1
  /\ Exit(w)
  /\ UNCHANGED <<files, edits, documents, stored, by>>

\* Somebody writes or removes a file.
Edit(p) ==
  /\ edits < MaxEdits
  /\ edits' = edits + 1
  /\ \E t \in Texts \cup {Missing} : /\ t # files[p]
                                     /\ files' = [files EXCEPT ![p] = t]
  /\ UNCHANGED <<faults, documents, stored, by, local>>

-----------------------------------------------------------------------------
Progress(w) ==
  Read(w) \/ Return(w) \/ Chunk(w) \/ Upsert(w) \/ Delete(w) \/ Insert(w) \/ Commit(w)

Next ==
  \/ \E w \in Ingesters : Start(w) \/ Progress(w) \/ Abort(w)
  \/ \E p \in Paths : Edit(p)

Spec == Init /\ [][Next]_vars

\* A run that was started goes on, and PostgreSQL serves those who wait for a
\* row in turn.  Nothing makes anybody start one.
FairSpec ==
  Spec /\ \A w \in Ingesters : WF_vars(Progress(w)) /\ SF_vars(Upsert(w))

-----------------------------------------------------------------------------
\* A chunk holds the passage of overlap + 1 characters at position i, or what
\* is left of the text there.
Holds(piece, i, s, length) ==
  /\ piece.from <= i
  /\ i + s.overlap + 1 <= piece.to \/ piece.to = length

\* Whatever runs overlap and wherever they stop, what is stored of a document is
\* complete and cut with the overlap its run was given: every passage no longer
\* than that overlap and one lies in one of the chunks.  It says nothing of what a
\* search returns, which is no more than 1000 characters of a chunk.
PassagesWhole ==
  \A d \in documents : \A i \in 0..Length[d[2]] - 1 :
    \E k \in DOMAIN stored[d] : Holds(stored[d][k], i, by[d], Length[d[2]])

\* No chunk of a document lies inside another: rows of an earlier ingestion
\* with other sizes never stay behind the rows of a later one.
NoSurplus ==
  \A d \in documents : \A j, k \in DOMAIN stored[d] : j < k =>
    /\ stored[d][j].from < stored[d][k].from
    /\ stored[d][j].to < stored[d][k].to

\* No run ever breaks UNIQUE (document_id, chunk_index) on another's rows or on
\* those of the last ingestion.
InsertsFree == \A w \in Ingesters : pc[w] = "insert" => ~Taken(w)

\* Once nothing fails and nobody touches the files, a run indexes all that is
\* still on its list, empty files in between or not.
Calm(w) == /\ faults = MaxFaults
           /\ edits = MaxEdits
           /\ \A p \in todo[w] : files[p] # Missing

ListIsIndexed ==
  \A w \in Ingesters, p \in Paths :
    (Calm(w) /\ p \in todo[w] /\ Length[files[p]] > 0)
      ~> <<p, files[p]>> \in documents

=============================================================================

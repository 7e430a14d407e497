---------------------------- MODULE DocIngestion ----------------------------
(***************************************************************************)
(* Indexing of uploaded documents: POST /ingestion/document and            *)
(* /ingestion/document/retry schedule a background run; a run reads the    *)
(* file, awaits the chunk contexts and the embeddings, and then, in one    *)
(* stretch of code without an await, replaces the document's rows in MySQL *)
(* and its vectors in Chroma.                                              *)
(*                                                                         *)
(* One uvicorn worker runs one event loop.  A coroutine keeps the loop     *)
(* between two awaits: `loop' names the run whose synchronous section is   *)
(* under way.  The section is split at every durable effect (one vector    *)
(* added, one vector deleted, one commit), because a call may fail there   *)
(* and the process may die there; no other coroutine runs in between.      *)
(***************************************************************************)
EXTENDS Naturals

CONSTANTS
    Doc,            \* knowledge_document_id
    Run,            \* accepted requests, each one a background task
    Tag,            \* task_id values of the access-control snapshot
    MaxChunks,      \* bound on the chunks cut from one file
    ContextEnabled, \* settings.chunk_context_enabled
    Faults,         \* the kinds of failure this instance injects
    NoTag,          \* task_id IS NULL
    Idle            \* no coroutine holds the event loop

FaultKinds ==
    {"read", "context", "embed", "stage", "add", "add_applied", "usage",
     "commit", "commit_lost", "mark", "delete", "crash"}

ASSUME MaxChunksAssumption == MaxChunks \in Nat \ {0}
ASSUME ContextAssumption == ContextEnabled \in BOOLEAN
ASSUME FaultsAssumption == Faults \subseteq FaultKinds
ASSUME SentinelAssumption == Idle \notin Run /\ NoTag \notin Tag

VARIABLES
    docs,     \* MySQL: analysis_status of each document, "NONE" without a row
    docTag,   \* MySQL: knowledge_documents.task_id
    rows,     \* MySQL: committed document_chunks rows of the documents
    lastId,   \* MySQL: the last AUTO_INCREMENT value of document_chunks.id
    vectors,  \* Chroma: vector id and the chunk_id in its metadata
    seen,     \* MySQL: the states of rows that sessions still open may see
    bm25,     \* the BM25 index of the workspace, if there is one: the rows it is
              \* built from, and those that were committed when it was
    inFlight, \* _IN_FLIGHT
    loop,     \* the run holding the event loop, or Idle
    pc,       \* where each run stands
    job,      \* what each accepted request asked for
    size,     \* number of chunks of the run
    base,     \* AUTO_INCREMENT value before the run's flush
    added,    \* how many vector ids are in added_vector_ids
    old,      \* old_vector_ids
    todo      \* vector ids that _delete_vectors has still to delete

mysql == <<docs, docTag, rows, lastId, seen>>
local == <<size, base, added, old, todo>>
vars == <<docs, docTag, rows, lastId, seen, vectors, bm25, inFlight, loop, pc,
          job, size, base, added, old, todo>>

Status == {"NONE", "PENDING", "COMPLETED", "FAILED"}
Job == [doc : Doc, tag : Tag \cup {NoTag}, retry : BOOLEAN]
VectorId == Run \X Nat
Row == [id : Nat, doc : Doc, tag : Tag \cup {NoTag}, vid : VectorId]
Vector == [vid : VectorId, chunk : Nat]
Index == [from : SUBSET Row, since : SUBSET Row]

\* Awaiting: suspended at an await.  Sync: inside a synchronous section.
Awaiting == {"context", "embedding"}
Sync == {"adding", "empty", "compensating", "marking", "cleanup"}
Active == Awaiting \cup Sync
Finished == {"done", "failed", "dropped", "lost"}
PC == {"new", "queued"} \cup Active \cup Finished

NoJob == [doc |-> "none"]

TypeOK ==
    /\ docs \in [Doc -> Status]
    /\ docTag \in [Doc -> Tag \cup {NoTag}]
    /\ rows \subseteq Row
    /\ lastId \in Nat
    /\ vectors \subseteq Vector
    /\ seen \subseteq SUBSET Row
    /\ bm25 \subseteq Index
    /\ inFlight \subseteq Doc
    /\ loop \in Run \cup {Idle}
    /\ pc \in [Run -> PC]
    /\ job \in [Run -> Job \cup {NoJob}]
    /\ \A r \in Run : pc[r] # "new" => job[r] \in Job
    /\ size \in [Run -> 0..MaxChunks]
    /\ base \in [Run -> Nat]
    /\ added \in [Run -> 0..MaxChunks]
    /\ old \in [Run -> SUBSET VectorId]
    /\ todo \in [Run -> SUBSET VectorId]

-----------------------------------------------------------------------------
\* uuid4 never repeats: the k-th vector id of a run is the pair <<run, k>>.
RowsOf(d) == {row \in rows : row.doc = d}
Vids(R) == {row.vid : row \in R}
NewRow(r, k) == [id |-> base[r] + k, doc |-> job[r].doc,
                 tag |-> job[r].tag, vid |-> <<r, k>>]
NewRows(r) == {NewRow(r, k) : k \in 1..size[r]}
NewVector(r, k) == [vid |-> <<r, k>>, chunk |-> base[r] + k]

Init ==
    /\ docs = [d \in Doc |-> "NONE"]
    /\ docTag = [d \in Doc |-> NoTag]
    /\ rows = {}
    /\ lastId = 0
    /\ vectors = {}
    /\ seen = {{}}
    /\ bm25 = {}
    /\ inFlight = {}
    /\ loop = Idle
    /\ pc = [r \in Run |-> "new"]
    /\ job = [r \in Run |-> NoJob]
    /\ size = [r \in Run |-> 0]
    /\ base = [r \in Run |-> 0]
    /\ added = [r \in Run |-> 0]
    /\ old = [r \in Run |-> {}]
    /\ todo = [r \in Run |-> {}]

-----------------------------------------------------------------------------
\* The two endpoints.

Schedule(r, d, t, again) ==
    /\ pc[r] = "new"
    /\ pc' = [pc EXCEPT ![r] = "queued"]
    /\ job' = [job EXCEPT ![r] = [doc |-> d, tag |-> t, retry |-> again]]

\* POST /ingestion/document.  An existing row keeps its status and task_id;
\* the run carries `request.task_id or doc.task_id'.
Upload(r, d, t) ==
    /\ loop = Idle
    /\ IF docs[d] = "NONE"
         THEN /\ docs' = [docs EXCEPT ![d] = "PENDING"]
              /\ docTag' = [docTag EXCEPT ![d] = t]
              /\ Schedule(r, d, t, FALSE)
         ELSE /\ UNCHANGED <<docs, docTag>>
              /\ Schedule(r, d, IF t = NoTag THEN docTag[d] ELSE t, FALSE)
    /\ UNCHANGED <<rows, lastId, seen, vectors, bm25, inFlight, loop>>
    /\ UNCHANGED local

\* POST /ingestion/document/retry: 404 without a row, 409 when the document is
\* COMPLETED or in flight in this process.
Retry(r, d) ==
    /\ loop = Idle
    /\ docs[d] \notin {"NONE", "COMPLETED"}
    /\ d \notin inFlight
    /\ Schedule(r, d, docTag[d], TRUE)
    /\ UNCHANGED <<mysql, vectors, bm25, inFlight, loop>>
    /\ UNCHANGED local

-----------------------------------------------------------------------------
\* ingest_document up to the first await.

\* The guard of ingest_document: the task returns without a trace.
Skip(r) ==
    /\ loop = Idle
    /\ pc[r] = "queued"
    /\ job[r].doc \in inFlight
    /\ pc' = [pc EXCEPT ![r] = "dropped"]
    /\ UNCHANGED <<mysql, vectors, bm25, inFlight, loop, job>>
    /\ UNCHANGED local

\* Variant: the in-flight guard is missing.
BeginUnguarded(r) ==
    /\ loop = Idle
    /\ pc[r] = "queued"
    /\ inFlight' = inFlight \cup {job[r].doc}
    /\ UNCHANGED <<mysql, vectors, bm25, job, base, added, todo>>

Begin(r) ==
    /\ loop = Idle
    /\ pc[r] = "queued"
    /\ job[r].doc \notin inFlight
    /\ inFlight' = inFlight \cup {job[r].doc}
    /\ UNCHANGED <<mysql, vectors, bm25, job, base, added, todo>>

\* The file cannot be read or chunked.
StartUnreadable(r) ==
    /\ "read" \in Faults
    /\ Begin(r)
    /\ pc' = [pc EXCEPT ![r] = "marking"]
    /\ loop' = r
    /\ UNCHANGED <<size, old>>

\* The file gives no chunk: _run returns an empty list at once.
StartEmpty(r) ==
    /\ Begin(r)
    /\ pc' = [pc EXCEPT ![r] = "empty"]
    /\ loop' = r
    /\ UNCHANGED <<size, old>>

\* The file gives chunks.  With chunk contexts the reuse map is read first,
\* which opens the session's read view: what the store step will find as the
\* old rows is settled here.
StartChunks(r) ==
    /\ Begin(r)
    /\ \E n \in 1..MaxChunks : size' = [size EXCEPT ![r] = n]
    /\ IF ContextEnabled
         THEN /\ pc' = [pc EXCEPT ![r] = "context"]
              /\ old' = [old EXCEPT ![r] = Vids(RowsOf(job[r].doc))]
         ELSE /\ pc' = [pc EXCEPT ![r] = "embedding"]
              /\ UNCHANGED old
    /\ UNCHANGED loop

ContextsReady(r) ==
    /\ loop = Idle
    /\ pc[r] = "context"
    /\ pc' = [pc EXCEPT ![r] = "embedding"]
    /\ UNCHANGED <<mysql, vectors, bm25, inFlight, loop, job>>
    /\ UNCHANGED local

\* The reuse map, the context generation or the embedding raises.
AwaitFails(r) ==
    /\ loop = Idle
    /\ \/ pc[r] = "context" /\ "context" \in Faults
       \/ pc[r] = "embedding" /\ "embed" \in Faults
    /\ pc' = [pc EXCEPT ![r] = "marking"]
    /\ loop' = r
    /\ UNCHANGED <<mysql, vectors, bm25, inFlight, job>>
    /\ UNCHANGED local

-----------------------------------------------------------------------------
\* The store step of _run.

\* Variant: ids are handed out again after a rollback.
FirstIdReused == IF rows = {} THEN 0
                 ELSE (CHOOSE w \in rows : \A x \in rows : w.id >= x.id).id

\* InnoDB does not take AUTO_INCREMENT values back.
FirstId == lastId

\* Variants: the last vector is forgotten; every vector of the document is taken.
CompensationButLast(r) == {<<r, k>> : k \in 1..(added[r] - 1)}
CompensationByDocument(r) == old[r] \cup {<<r, k>> : k \in 1..added[r]}

\* What the store step takes back when it fails: added_vector_ids.
Compensation(r) == {<<r, k>> : k \in 1..added[r]}

\* Select the old rows, delete them in the session, insert the new ones and
\* flush: AUTO_INCREMENT values are consumed, nothing is committed.
Stage(r) ==
    /\ loop = Idle
    /\ pc[r] = "embedding"
    /\ loop' = r
    /\ pc' = [pc EXCEPT ![r] = "adding"]
    /\ old' = IF ContextEnabled THEN old
              ELSE [old EXCEPT ![r] = Vids(RowsOf(job[r].doc))]
    /\ base' = [base EXCEPT ![r] = FirstId]
    /\ lastId' = FirstId + size[r]
    /\ UNCHANGED <<docs, docTag, rows, seen, vectors, bm25, inFlight, job,
                   size, added, todo>>

\* A statement of the store step raises before the first vector is added.
StageFails(r) ==
    /\ "stage" \in Faults
    /\ loop = Idle
    /\ pc[r] = "embedding"
    /\ loop' = r
    /\ pc' = [pc EXCEPT ![r] = "compensating"]
    /\ UNCHANGED <<mysql, vectors, bm25, inFlight, job>>
    /\ UNCHANGED local

AddVector(r) ==
    /\ pc[r] = "adding"
    /\ added[r] < size[r]
    /\ vectors' = vectors \cup {NewVector(r, added[r] + 1)}
    /\ added' = [added EXCEPT ![r] = @ + 1]
    /\ UNCHANGED <<mysql, bm25, inFlight, loop, pc, job, size, base, old, todo>>

\* vector_store.add raises: the id was not appended to added_vector_ids, whether
\* or not Chroma applied the write.
AddFails(r) ==
    /\ pc[r] = "adding"
    /\ added[r] < size[r]
    /\ \E applied \in BOOLEAN :
         /\ (IF applied THEN "add_applied" ELSE "add") \in Faults
         /\ vectors' = vectors \cup IF applied THEN {NewVector(r, added[r] + 1)} ELSE {}
    /\ pc' = [pc EXCEPT ![r] = "compensating"]
    /\ todo' = [todo EXCEPT ![r] = Compensation(r)]
    /\ UNCHANGED <<mysql, bm25, inFlight, loop, job, size, base, added, old>>

\* log_embedding_usage raises.
UsageFails(r) ==
    /\ "usage" \in Faults
    /\ pc[r] = "adding"
    /\ added[r] = size[r]
    /\ pc' = [pc EXCEPT ![r] = "compensating"]
    /\ todo' = [todo EXCEPT ![r] = Compensation(r)]
    /\ UNCHANGED <<mysql, vectors, bm25, inFlight, loop, job,
                   size, base, added, old>>

-----------------------------------------------------------------------------
\* _ingest_and_mark after _run.

\* A run that produced no chunk goes straight to the commit; one that added all
\* its vectors has logged its usage and dropped the BM25 index and the cached
\* answers of the workspace.
AtCommit(r) ==
    \/ pc[r] = "empty"
    \/ pc[r] = "adding" /\ added[r] = size[r]

\* Variant: the store step does not invalidate.
InvalidatedNever(r) == bm25

Invalidated(r) == IF pc[r] = "adding" THEN {} ELSE bm25

\* Variant: the old rows stay.
CommittedKeepsOld(r) ==
    /\ rows' = IF pc[r] = "empty" THEN rows ELSE rows \cup NewRows(r)
    /\ seen' = seen \cup {rows'}
    /\ docs' = [docs EXCEPT ![job[r].doc] = "COMPLETED"]

\* What the transaction leaves in MySQL: the DELETE is issued only when the
\* SELECT found old rows, and removes every row of the document there now.
Committed(r) ==
    /\ rows' = IF pc[r] = "empty" THEN rows
               ELSE (IF old[r] = {} THEN rows ELSE rows \ RowsOf(job[r].doc))
                        \cup NewRows(r)
    /\ seen' = seen \cup {rows'}
    /\ docs' = [docs EXCEPT ![job[r].doc] = "COMPLETED"]

\* Variant: a failed run stays in _IN_FLIGHT.
LeaveLeaks(r, outcome) ==
    /\ pc' = [pc EXCEPT ![r] = outcome]
    /\ inFlight' = IF outcome = "failed" THEN inFlight ELSE inFlight \ {job[r].doc}
    /\ loop' = Idle

\* The end of ingest_document: the run leaves _IN_FLIGHT and the loop.
Leave(r, outcome) ==
    /\ pc' = [pc EXCEPT ![r] = outcome]
    /\ inFlight' = inFlight \ {job[r].doc}
    /\ loop' = Idle

Commit(r) ==
    /\ AtCommit(r)
    /\ Committed(r)
    /\ bm25' = Invalidated(r)
    /\ IF pc[r] = "empty" \/ old[r] = {}
         THEN Leave(r, "done") /\ UNCHANGED todo
         ELSE /\ pc' = [pc EXCEPT ![r] = "cleanup"]
              /\ todo' = [todo EXCEPT ![r] = old[r]]
              /\ UNCHANGED <<inFlight, loop>>
    /\ UNCHANGED <<docTag, lastId, vectors, job, size, base, added, old>>

\* The commit raises: refused by MySQL, or applied and its reply lost.
CommitFails(r) ==
    /\ AtCommit(r)
    /\ \/ "commit" \in Faults /\ UNCHANGED <<rows, docs, seen>>
       \/ "commit_lost" \in Faults /\ Committed(r)
    /\ bm25' = Invalidated(r)
    /\ pc' = [pc EXCEPT ![r] = "marking"]
    /\ UNCHANGED <<docTag, lastId, vectors, inFlight, loop, job>>
    /\ UNCHANGED local

\* Variant: the handler rolls back and writes no status.
MarkNothing(r) ==
    /\ pc[r] = "marking"
    /\ Leave(r, "failed")
    /\ UNCHANGED <<mysql, vectors, bm25, job>>
    /\ UNCHANGED local

\* The handler of _ingest_and_mark: rollback, FAILED, commit; that may fail too.
MarkFailed(r) ==
    /\ pc[r] = "marking"
    /\ \/ docs' = [docs EXCEPT ![job[r].doc] = "FAILED"]
       \/ "mark" \in Faults /\ UNCHANGED docs
    /\ Leave(r, "failed")
    /\ UNCHANGED <<docTag, rows, lastId, seen, vectors, bm25, job>>
    /\ UNCHANGED local

\* One iteration of _delete_vectors, which ignores an individual failure.
DeleteVector(r) ==
    /\ pc[r] \in {"compensating", "cleanup"}
    /\ \E v \in todo[r] :
         /\ todo' = [todo EXCEPT ![r] = @ \ {v}]
         /\ \/ vectors' = {x \in vectors : x.vid # v}
            \/ "delete" \in Faults /\ UNCHANGED vectors
    /\ UNCHANGED <<mysql, bm25, inFlight, loop, pc, job, size, base, added, old>>

\* _delete_vectors returns: the store step re-raises, or the run is over.
DeletesDone(r) ==
    /\ todo[r] = {}
    /\ \/ /\ pc[r] = "compensating"
          /\ pc' = [pc EXCEPT ![r] = "marking"]
          /\ UNCHANGED <<inFlight, loop>>
       \/ /\ pc[r] = "cleanup"
          /\ Leave(r, "done")
    /\ UNCHANGED <<mysql, vectors, bm25, job>>
    /\ UNCHANGED local

-----------------------------------------------------------------------------
\* The rest of the process.

\* A search or a chat builds the BM25 index when there is none or its ttl is over.
\* It selects in its own session, which sees the rows as they were when it began;
\* that may have been before commits and invalidations that came since.  Nothing
\* is kept of an empty workspace.
Rebuild ==
    /\ loop = Idle
    /\ \E view \in seen \ {{}} : bm25' = {[from |-> view, since |-> rows]}
    /\ UNCHANGED <<mysql, vectors, inFlight, loop, pc, job>>
    /\ UNCHANGED local

\* The process dies and is started again: background tasks, sessions, _IN_FLIGHT
\* and the index are gone; MySQL and Chroma stay.
Crash ==
    /\ "crash" \in Faults
    /\ pc' = [r \in Run |-> IF pc[r] = "queued" \/ pc[r] \in Active
                            THEN "lost" ELSE pc[r]]
    /\ loop' = Idle
    /\ inFlight' = {}
    /\ bm25' = {} /\ seen' = {rows}
    /\ UNCHANGED <<docs, docTag, rows, lastId, vectors, job>>
    /\ UNCHANGED local

Request(r) ==
    \E d \in Doc : \/ \E t \in Tag \cup {NoTag} : Upload(r, d, t)
                   \/ Retry(r, d)

Work(r) ==
    \/ Skip(r) \/ StartUnreadable(r) \/ StartEmpty(r) \/ StartChunks(r)
    \/ ContextsReady(r) \/ AwaitFails(r)
    \/ Stage(r) \/ StageFails(r) \/ AddVector(r) \/ AddFails(r) \/ UsageFails(r)
    \/ Commit(r) \/ CommitFails(r) \/ MarkFailed(r)
    \/ DeleteVector(r) \/ DeletesDone(r)

Next == (\E r \in Run : Request(r) \/ Work(r)) \/ Rebuild \/ Crash

Spec == Init /\ [][Next]_vars

\* The event loop resumes every coroutine that can go on, and every external
\* call of a run returns or times out.
FairSpec == Spec /\ \A r \in Run : WF_vars(Work(r))

-----------------------------------------------------------------------------
\* Properties.

\* A committed chunk can always be found: its vector is in Chroma under the
\* row's own id.  Adding before the commit and deleting only after it keeps this
\* through every failure and crash (_ingest_and_mark, the store step of _run).
RowsHaveVectors ==
    \A row \in rows : [vid |-> row.vid, chunk |-> row.id] \in vectors

\* The rows of a document are all the chunks of one run and of no other:
\* re-indexing never mixes two versions and never leaves half of one.
DocumentsWhole ==
    \A d \in Doc : RowsOf(d) # {} =>
        \E r \in Run : job[r].doc = d /\ RowsOf(d) = NewRows(r)

\* A vector hit is resolved through its chunk_id: when a row has that id, it is
\* the row the vector was made for, also for vectors that a failed or crashed
\* run left behind (a rolled-back AUTO_INCREMENT value is never given again).
HitsResolveHome ==
    \A v \in vectors, row \in rows : v.chunk = row.id => v.vid = row.vid

\* No BM25 index outlives a commit that changes the rows: the store step
\* invalidates before it, and no request runs between the two.  So the index of a
\* session that began after the last commit is the current one, and a stale one,
\* which a session that began before can build, is gone with the next indexing.
IndexSinceCommit == loop = Idle => \A i \in bm25 : i.since = rows

\* _IN_FLIGHT holds the documents of the runs under way, no more and no less: a
\* leaked entry would refuse the document until the process restarts.
InFlightExact == inFlight = {job[r].doc : r \in {q \in Run : pc[q] \in Active}}

\* The rows a run is going to replace are still the document's rows when it
\* replaces them, although they may have been read two awaits earlier.
SnapshotCurrent ==
    \A r \in Run : pc[r] = "adding" => old[r] = Vids(RowsOf(job[r].doc))

\* The searchable index of each document is replaced in one step by a newer
\* block of chunks (SearchIndex), whatever happens on the way.
Served == [d \in Doc |->
    {row.id : row \in {w \in RowsOf(d) :
                          [vid |-> w.vid, chunk |-> w.id] \in vectors}}]
Consumed == IF loop # Idle /\ pc[loop] = "adding" THEN base[loop] ELSE lastId
Abstract == INSTANCE SearchIndex WITH served <- Served, high <- Consumed
Replacement == Abstract!Spec

\* A new document does not stay PENDING, unless the process dies or the FAILED
\* mark itself cannot be written.
StatusSettles == \A d \in Doc : docs[d] = "PENDING" ~> docs[d] # "PENDING"
=============================================================================

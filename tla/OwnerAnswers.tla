---------------------------- MODULE OwnerAnswers ----------------------------
(***************************************************************************)
(* Indexing of owners' answers (owner_answer_ingestion.py) next to that of *)
(* documents: POST /ingestion/owner-answer schedules a background run,     *)
(* which awaits the embeddings and then adds rows and vectors in one       *)
(* stretch of code without an await.  Unlike a document's run it looks for *)
(* nothing it may have to replace, and takes no vector back when it fails. *)
(* A crash, which leaves what a failure at the same place leaves, is left  *)
(* to DocIngestion.                                                        *)
(***************************************************************************)
EXTENDS DocIngestion

CONSTANTS
    Answer,          \* accepted requests, each one a background task
    Confirmation,    \* confirmation_id
    MaxAnswerChunks, \* bound on the chunks cut from one answer
    AnswerFaults,    \* the kinds of failure injected into the runs of answers
    None             \* no request yet

ASSUME AnswerAssumption == Answer \cap Run = {} /\ Idle \notin Answer
ASSUME AnswerChunksAssumption == MaxAnswerChunks \in Nat \ {0}
ASSUME AnswerFaultsAssumption ==
    AnswerFaults \subseteq {"embed", "stage", "add", "usage", "commit"}
ASSUME ConfirmationAssumption == Confirmation \cap Doc = {} /\ None \notin Confirmation

VARIABLES
    apc,      \* where the run of each answer stands
    of,       \* its confirmation_id
    asize,    \* its chunks
    abase,    \* AUTO_INCREMENT value before its flush
    aadded    \* vectors it has added

avars == <<apc, of, asize, abase, aadded>>
allVars == <<vars, avars>>

AnswersInit ==
    /\ Init
    /\ apc = [a \in Answer |-> "new"]
    /\ of = [a \in Answer |-> None]
    /\ asize = [a \in Answer |-> 0] /\ abase = [a \in Answer |-> 0]
    /\ aadded = [a \in Answer |-> 0]

AnswerRows(a) == {[id |-> abase[a] + k, doc |-> of[a], tag |-> NoTag, vid |-> <<a, k>>]
                  : k \in 1..asize[a]}
AnswerVector(a, k) == [vid |-> <<a, k>>, chunk |-> abase[a] + k]

\* POST /ingestion/owner-answer: no confirmation is refused, also not a second time.
Submit(a) ==
    /\ loop = Idle
    /\ apc[a] = "new"
    /\ \E c \in Confirmation : of' = [of EXCEPT ![a] = c]
    /\ apc' = [apc EXCEPT ![a] = "queued"]
    /\ UNCHANGED <<vars, asize, abase, aadded>>

\* Question and answer are cut into chunks: their labels alone give one.
StartAnswer(a) ==
    /\ loop = Idle
    /\ apc[a] = "queued"
    /\ \E n \in 1..MaxAnswerChunks : asize' = [asize EXCEPT ![a] = n]
    /\ apc' = [apc EXCEPT ![a] = "embedding"]
    /\ UNCHANGED <<vars, of, abase, aadded>>

\* The embedder or the flush raises.  The handler of ingest_owner_answer logs the
\* exception, and the session rolls back.
AnswerEmbedFails(a) ==
    /\ {"embed", "stage"} \cap AnswerFaults # {}
    /\ loop = Idle
    /\ apc[a] = "embedding"
    /\ apc' = [apc EXCEPT ![a] = "failed"]
    /\ UNCHANGED <<vars, of, asize, abase, aadded>>

\* Variant: the rows are committed where they are flushed.
StageAnswerCommitted(a) ==
    /\ loop = Idle
    /\ apc[a] = "embedding"
    /\ loop' = a
    /\ apc' = [apc EXCEPT ![a] = "adding"]
    /\ abase' = [abase EXCEPT ![a] = lastId]
    /\ lastId' = lastId + asize[a]
    /\ rows' = rows \cup {[id |-> lastId + k, doc |-> of[a], tag |-> NoTag,
                           vid |-> <<a, k>>] : k \in 1..asize[a]}
    /\ seen' = seen \cup {rows'}
    /\ UNCHANGED <<docs, docTag, vectors, bm25, inFlight, pc, job, local,
                   of, asize, aadded>>

\* The rows are inserted and flushed: ids are consumed, nothing is committed.
StageAnswer(a) ==
    /\ loop = Idle
    /\ apc[a] = "embedding"
    /\ loop' = a
    /\ apc' = [apc EXCEPT ![a] = "adding"]
    /\ abase' = [abase EXCEPT ![a] = lastId]
    /\ lastId' = lastId + asize[a]
    /\ UNCHANGED <<docs, docTag, rows, seen, vectors, bm25, inFlight, pc, job, local,
                   of, asize, aadded>>

AddAnswerVector(a) ==
    /\ apc[a] = "adding"
    /\ aadded[a] < asize[a]
    /\ vectors' = vectors \cup {AnswerVector(a, aadded[a] + 1)}
    /\ aadded' = [aadded EXCEPT ![a] = @ + 1]
    /\ UNCHANGED <<mysql, bm25, inFlight, loop, pc, job, local, apc, of, asize, abase>>

\* vector_store.add or log_embedding_usage raises.
StoreAnswerFails(a) ==
    /\ apc[a] = "adding"
    /\ IF aadded[a] < asize[a] THEN "add" \in AnswerFaults ELSE "usage" \in AnswerFaults
    /\ apc' = [apc EXCEPT ![a] = "failed"]
    /\ loop' = Idle
    /\ UNCHANGED <<mysql, vectors, bm25, inFlight, pc, job, local,
                   of, asize, abase, aadded>>

\* The index of the workspace is dropped, and the caller commits.
AnswerInvalidated(a) == bm25' = {}

CommitAnswer(a) ==
    /\ apc[a] = "adding"
    /\ aadded[a] = asize[a]
    /\ AnswerInvalidated(a)
    /\ rows' = rows \cup AnswerRows(a)
    /\ seen' = seen \cup {rows'}
    /\ apc' = [apc EXCEPT ![a] = "done"]
    /\ loop' = Idle
    /\ UNCHANGED <<docs, docTag, lastId, vectors, inFlight, pc, job, local,
                   of, asize, abase, aadded>>

\* The index is dropped and the commit raises.
CommitAnswerFails(a) ==
    /\ "commit" \in AnswerFaults
    /\ apc[a] = "adding"
    /\ aadded[a] = asize[a]
    /\ AnswerInvalidated(a)
    /\ apc' = [apc EXCEPT ![a] = "failed"]
    /\ loop' = Idle
    /\ UNCHANGED <<mysql, vectors, inFlight, pc, job, local, of, asize, abase, aadded>>

WorkAnswer(a) ==
    \/ StartAnswer(a) \/ AnswerEmbedFails(a) \/ StageAnswer(a) \/ AddAnswerVector(a)
    \/ StoreAnswerFails(a) \/ CommitAnswer(a) \/ CommitAnswerFails(a)

AnswersNext ==
    \/ Next /\ UNCHANGED avars
    \/ \E a \in Answer : Submit(a) \/ WorkAnswer(a)

AnswersFairSpec ==
    /\ AnswersInit /\ [][AnswersNext]_allVars
    /\ \A r \in Run : WF_allVars(Work(r) /\ UNCHANGED avars)
    /\ \A a \in Answer : WF_allVars(WorkAnswer(a))

-----------------------------------------------------------------------------
\* Properties.

\* The vectors of answers that failed: nobody takes them back.
Abandoned == {v \in Answer \X (1..MaxAnswerChunks) :
                 apc[v[1]] = "failed" /\ v[2] <= aadded[v[1]]}

\* When no call applies its effect and reports a failure, Chroma holds the vectors of
\* the committed rows and, besides them, exactly those that answers had added before
\* they failed; what documents' runs left halfway was taken back.
IndexExplained ==
    loop = Idle =>
        /\ Vids(rows) \subseteq Vids(vectors)
        /\ Vids(vectors) \ Vids(rows) = Abandoned

\* An accepted answer's run ends, and then all of the answer can be found or none of
\* it, whatever becomes of a second submission of the same confirmation.
AnswersEnd ==
    \A a \in Answer : apc[a] = "queued" ~>
        \/ apc[a] = "done" /\ AnswerRows(a) \subseteq rows
        \/ apc[a] = "failed" /\ AnswerRows(a) \cap rows = {}
=============================================================================

# Specifications of devbridge-ai-engine

TLA+ modules of the AI engine in `src/app` (a FastAPI service that indexes documents, Git
commits and owner answers of a workspace and answers questions over them), the TLC
configurations that check them on small instances, and theorems that TLAPS checks for every
instance.  `PROJECT.json` maps every definition to the lines it was translated
from, lists the runs, the mutations each property has been tried against, the hazards of the
code, and the findings.

    tlc -workers 2 -config doc_faults.cfg MCDocIngestion.tla     (any run of the table below)
    tlapm DocIngestionProofs.tla                                 (any module of proofs)

## 1. The system

One uvicorn worker runs one asyncio event loop.  MySQL (SQLAlchemy sessions, REPEATABLE READ,
no autoflush) and Chroma are called *synchronously*: a coroutine gives way only at an `await` or
where it yields a piece of a stream.  So two things are hard and everything else is sequential:
what happens at awaits, and what a failure or a crash between two durable effects leaves, since
MySQL and Chroma share no transaction.  Background tasks live in the process and die with it.

| Component | State | Operations | Hard because |
|---|---|---|---|
| Document ingestion (`pipelines/document_ingestion.py`, `api/ingestion.py`) | `knowledge_documents.analysis_status`, `document_chunks`, vectors, `_IN_FLIGHT` | upload, retry, read and cut the file, contexts, embeddings, store, commit, compensate, clean up | overlapping uploads of one document; a failure or crash between vectors and rows |
| Git ingestion (`pipelines/git_ingestion.py`) | `git_commits`, chunks, `git_commit_analyses`, vectors, `usage_logs` | batches: a savepoint for each commit, concurrent analyses, save, commit | snapshots older than another batch's commit; row locks waited for on the only loop; partial failure |
| Owner answers (`pipelines/owner_answer_ingestion.py`) | chunks and vectors | index one answer | a failure between vectors and rows that nobody takes back; a submission that comes twice |
| Chat pipeline (`core/chat_pipeline.py`, `api/chat.py`) | nothing of its own; a session for each request | rewrite, embed, look up, verify, retrieve, rerank, judge, stream, store | everything is read before some await and used after it |
| Semantic cache (`core/cache/semantic_cache.py`) | entries, order by namespace, LRU by workspace, generation by workspace | lookup, mark_hit, remove, store, invalidate, clear | entries are kept by chats across awaits; two orders that must agree |
| Cache verifier (`core/cache/verifier.py`) | budget of the day | acquire, verify | concurrent chats, midnight |
| Retriever (`core/rag/retriever.py`) | none | vector and keyword search, access filter, refetch, RRF | pages that are exactly full, filters before and after the merge |
| BM25 index manager (`core/rag/bm25_index.py`) | an index by workspace with a time to live | build from the caller's session, search, invalidate | the session may be older than the invalidation |
| Reranker, grounding (`core/rag/reranker.py`, `grounding.py`) | none | ask a model for an order, for a verdict | the model answers anything |
| Chunk contexts (`core/rag/chunk_context.py`) | a semaphore and counters for one document | one task a chunk, retries after 429 | slots through failures and back-offs |
| LLM provider (`core/llm/provider.py`, `core/metrics.py`) | events in `llm_calls` | five kinds of calls, one streaming | cancellation, a generator nobody asks again |
| Conversation history (`core/utils/token_counter.py`) | none | cut the conversation to a budget | boundaries, turns cut in half |
| Chunker (`core/rag/chunker.py`) | none | cut a text by its type, merge, slide a window, guess offsets | texts the patterns cut apart and the joins put together otherwise |
| Embedder (`core/embeddings/embedder.py`) | none | embed in batches | batches, and the zip of rows and vectors in its callers |
| Analyses (`pipelines/document_analysis.py`, `workspace_summary.py`, `_analyze_commit`) | none | ask the model, or answer by rules | a model that fails, a file that changes between two readings |
| Sessions and connections (`db/session.py`, `api/*.py`) | 15 connections, worker threads | lend a connection from the first statement to a commit, rollback or close | a statement that finds the pool empty stops the event loop for up to 30 s |
| Training data export (`pipelines/export_training_data.py`) | one file for a workspace and version | write it | exports in several threads at once |
| Evaluations (`scripts/eval`) | records | count hits and verdicts, recommend a threshold | they decide in their own code what the engine decides in its own |
| Prompts, tokenizer, configuration, tables | none that is shared | | not modelled, see section 8 |

How they meet: an indexing run calls `semantic_cache.invalidate_workspace` and
`bm25_index.invalidate` in the same stretch of code as its commit; a chat reads the cache, the
index, the rows of its session and the vectors of Chroma; retrieval can rebuild the BM25 index;
chats and Git batches write the usage and event logs.  Requests and background tasks borrow the
connections of one pool, on one loop.

## 2. Modules

| Module | Models | Abstract or detailed |
|---|---|---|
| `SearchIndex` | what document indexing promises to a search | abstract |
| `DocIngestion` | uploads, retries and runs of document indexing, with failures and crashes | implements `SearchIndex` |
| `OwnerAnswers` | indexing of owners' answers next to that of documents | extends `DocIngestion` |
| `CommitIndex` | what Git indexing promises to a search | abstract |
| `GitIngestion` | batches of commits as MySQL transactions | implements `CommitIndex` |
| `SemanticCacheOps` | the cache as a value and its operations | used by the next two |
| `SemanticCache` | the cache under every order of calls, with a clock | |
| `CacheEval` | the evaluation that recommends the threshold of the cache | extends `SemanticCache` |
| `ChatPipeline` | chats, the cache, the BM25 index, the verifier's budget, and indexing, on one loop | composes |
| `Retrieval` | one question: search, filter, merge, refetch, rerank, verdict | |
| `GroundingEval` | the evaluation of the verdict | extends `Retrieval` |
| `ChunkContext` | contexts for the chunks of a document | |
| `Chunker` | `chunk_document` | operators |
| `Embedder` | from a text to its rows: chunks, batches of embeddings, the zip | extends `Chunker` |
| `History` | `truncate_history` over the turns of a chat | |
| `LlmCalls` | calls of the models and their events | |
| `Analyses` | analyses of documents and commits, summaries of workspaces | extends `LlmCalls` |
| `TrainingExport` | exports that write one file | |
| `Requests` | requests, their background tasks and exports between the event loop, the worker threads and the pool of connections | extends `TrainingExport` |
| `MC...` | instances of these for TLC | |
| `DocIngestionProofs` | theorems about `DocIngestion` and `OwnerAnswers` | |
| `SemanticCacheProofs` | theorems about `SemanticCache` and `CacheEval` | |
| `RetrievalProofs` | theorems about `Retrieval` and `GroundingEval` | |
| `AnalysesProofs` | theorems about `Analyses` and so about `LlmCalls` | |
| `SharingProofs` | theorems about `Requests`, `TrainingExport` and `ChunkContext` | |
| `TextsProofs` | theorems about `Chunker`, `Embedder` and `History` | |
| `GitIngestionProofs`, `ChatPipelineProofs` | theorems about the module of that name | |

### DocIngestion

`docs`, `docTag`, `rows`, `lastId` are the tables (committed state only; `lastId` is the
AUTO_INCREMENT counter, which InnoDB does not take back on rollback), `vectors` is Chroma,
`inFlight` is `_IN_FLIGHT`.  `bm25` is the BM25 index, if there is one: the rows it was built
from, which are those the session that asked for it sees, and, as history, the rows committed when it
was built; `seen` has every state of the rows that an open session may still see, so `Rebuild` can
build from a view older than the last commit.  (The semantic cache is in `ChatPipeline`.)
`loop` is the run inside a synchronous section: while it is set no other coroutine runs, but a
crash or a failure can happen after each durable effect, so the store step is one action per
vector (`AddVector`, `AddFails`), then `Commit` or `CommitFails`, then one action per deleted
vector.  `Upload` and `Retry` are the two endpoints; `Skip` is the `_IN_FLIGHT` guard;
`StartUnreadable`, `StartEmpty`, `StartChunks` are the outcomes of reading and cutting the file;
`ContextsReady`, `AwaitFails` are the awaits; `Stage` selects the old rows, deletes them in the
session, inserts and flushes; `MarkFailed` is the handler that writes FAILED.  With chunk
contexts the read view opens at `StartChunks`, which is why `old` is settled there.  A vector id
is a pair (run, number): `uuid4` never repeats.  The failures are named in `FaultKinds`;
`add_applied` and `commit_lost` are calls that take effect and report an error.

### OwnerAnswers

A run of an answer shares the rows, vectors, index and the event loop of `DocIngestion`, whose
actions go on beside it.  `Submit` refuses nothing, also not a confirmation that was submitted
before; `StageAnswer` to `CommitAnswer` is one stretch without an await, again one action per
vector.  Nothing looks for older rows, and nothing takes a vector back: a failed answer leaves those
it had added (`IndexExplained` says that nothing else is left), and a second submission a second
copy.  A crash leaves what a failure at the same place leaves; `doc_faults` has the crashes.

### GitIngestion

A batch is one transaction: `view` is its snapshot plus its own writes, `locks` the commit rows it
has written, `new` whether the open savepoint has inserted the current commit.  Phase 1 goes
through the commits (`LookupAuthor`, `Insert`, `Reuse`, `Skip`, `Index` and their failing
counterparts), phase 2 is `Analyze`, phase 3 and the end are `Finish`, `FinishFails`.  A
statement that needs a row locked by another open batch blocks the only event loop, so the holder
cannot release it and the wait ends in a timeout: that is `InsertFails` and `SkipFails` when
`Held`.  InnoDB is simplified in three points: locks are on commit rows only (gap locks on empty
ranges are left out, they lead to the same timeouts), the snapshot is taken at the first SELECT of
the batch, and a lock of an inserted row that is rolled back to a savepoint is released.
`bm25` and `seen` are as in `DocIngestion`.
`undeleted` is a history variable: vectors whose deletion failed.  Of a commit a search finds the
committed chunks that have a vector (`Findable`).  `CommitIndex` says of these alone that a batch
publishes its commits in one step, each with one whole block of chunks, and that nothing published
changes; the only step of a batch that is not a stutter there is its commit, although its vectors are
written one commit at a time.

### ChatPipeline

An action is what a chat does between two awaits.  `pc` says where it is suspended: `rewriting`,
`embedding`, `verifying`, `judging` (which includes reranking), `streaming`, `replaying`.  `view`
is what its session sees: nothing before its first SELECT, and then the rows of that moment.
A version stands for one source with all its chunks, and a search returns all versions there are.
`Ingest` and `IngestFails` are an indexing run of any of the three pipelines in its last stretch of
code: invalidate, then commit or not; `ForeignIngest` is one in another worker, which invalidates
nothing here.  `settings` is chosen once, so that one instance covers several configurations and a
theorem covers all.  `basis` and `calls` are history: the rows an answer was written from, and
the verification calls of each day.

### Retrieval and the two evaluations

`Retrieval` draws the two rankings, the rows, the access scope and the model's answers once and then
follows `retrieve` (with and without BM25), `_rrf_merge`, `parse_ranking` and `assess`; RRF scores
are compared as fractions.  Sorting is by ranks (`InOrder`: the k-th element has k - 1 before it), which
says what Python's stable `sorted` returns without saying how.  A judge's reply is `yes`, `no`, `failed`, `unparsable`, or `malformed`:
JSON that is no object, or whose confidence is no number, on which `assess` raises.

`GroundingEval` computes for the same question what `grounding_eval.py` collects and counts.  It
claims agreement for the settings the evaluation has (no access control, no reranking), for the same
question text; the evaluation asks the original question where a chat may ask a rewritten one.
`CacheEval` computes what `cache_eval_metrics.py` recommends as threshold, for every way of labelling
the pairs of questions, and compares it with lookups in every reachable cache.  Similarities and
thresholds are whole numbers in a table, so rounding of floats is left out.

### Chunker, Embedder and History

A text is a sequence of pieces, cut apart by separators; a piece has a length and a role (a header's
mark, the head of a definition or of a file's diff, the last statement with its `;`).  So a
position is a number, a segment is an interval of the text plus characters that were added, and the
regular expressions of the five splitters become the ranges they cut.  `ChunkDocument` composes
splitting, `MergeSmallSegments`, `SlidingWindow` and the guessed offsets of `SegmentsToChunks`.
The operators were compared with the real `chunk_document`, its two sizes patched, on 14945
texts built from pieces: they agree in every chunk and offset.  `Embedder` sends the chunks in
batches, lets one answer lack a vector, and zips rows with vectors as the callers do.  `History` has
the conversation as numbers of tokens, grown by a turn at a time.

### LlmCalls and Analyses

`LlmCalls` has for each call where it is, what the provider has reported (`billed`) and what was noted
for the event (`usage`); a streaming call is suspended at a yield and may be left there.  The two
differ after `Misshapen` alone: `_parse_response` takes the text before the tokens, so a response
without a text at its place raises with nothing noted, whatever usage it reports.  A stream is read as
`call_main_stream` reads it, in Anthropic's protocol.  `Analyses` puts the analyses on top: an
analysis is a call of kind `structured` or none, and its answer is a record of what a reader of the
answer can tell (`mode`, `model`, `summary`, `risk`, `next`).  A text is known by its worst
risk term.  The file changes at any time, so that the preview for the prompt and the one for the
rules may differ.  `NormalizedOfCommit` prefers LOW to MEDIUM and `Normalized` does not: the code has
both orders.

### Requests

`at` is where a request or its background task is, `held` the sessions that have a connection:
`<<r, "own">>` from `get_db`, `<<r, "run">>` from `SessionLocal()`.  `Stretch` gives for each stage
the session whose statement begins the next stretch of code, and whether the stretch ends in a
commit.  When the pool is empty the statement `Waits`, and then the loop does nothing else until a
worker thread gives a connection back (`Granted`) or 30 seconds are over (`TimesOut`).  `late` is
the one point at which versions of FastAPI differ: from 0.106 a dependency with `yield` was left
before the response was sent, since 0.118 it is left after the background tasks.  A chat under the
early exit goes on with a session that is closed already; it takes a new connection, which comes back
when the session is collected, taken here to be the end of the stream.

`ChunkContext` has a state for each task and the free slots of the semaphore.  `SemanticCacheOps`
follows `SemanticCache` method by method on a record of `entry` (the entries by key), `order` (keys
by namespace), `lru` (keys by workspace), `gen` and `next`; a similarity is a number from a table.
`TrainingExport` has the file as blocks, each known by the export that wrote it.

## 3. Runs

All runs use the `MC` module of their component.  The bounds are the smallest at which every
action is taken and every hazard of `PROJECT.json` can occur.

| Run | Instance | Shows |
|---|---|---|
| `doc_faults` | 2 documents, 3 requests, up to 2 chunks, chunk contexts on, every kind of failure but an add that is not applied, crash; 5.3 million states | `RowsHaveVectors`, `HitsResolveHome`, `InFlightExact`, `DocumentsWhole`, and `Replacement`: the module implements `SearchIndex` |
| `doc_live` | 1 document with 2 requests, 2 answers of one confirmation with up to 2 chunks, no contexts, no crash, failures that leave nothing half reported | `IndexExplained`, `IndexSinceCommit`, and under fairness `StatusSettles`, `AnswersEnd` |
| `cache_calls` | 2 workspaces, 3 namespaces, 2 questions, limit 2, 3 stores; thresholds 1 to 3 with all 16 labellings of the pairs | `NothingOutlivesInvalidation`, `LookupCorrect`, `EvictsLeastRecent`, `RecommendationHolds` |
| `chat_verify` | 3 chats, 2 questions, 2 versions, 2 days, one verification a day; 4.6 million states | `StoredAnswersFresh`, `WithinDailyLimit` |
| `chat_settings` | 2 chats, restricted and unrestricted, documents and owner answers, three configurations; 5.3 million states | `Bm25Current`, `RetrievalComplete`, `HitsRevalidated` |
| `git_batches` | 2 batches, 4 payloads over 2 commits, one of them with a row beforehand, three configurations, every failure, crash | `CommitsWhole`, `VectorsExplained`, `IndexSinceCommit`, `CapRespected`, `BatchesEnd`, and `Publication`: the module implements `CommitIndex` |
| `ret_search` | every ranking of up to 4 chunks, every choice of rows and scope, answers of up to 3 numbers, three configurations, every reply of the judge | `OnlyAllowed`, `ShortMeansExhausted`, `BothRankingsRespected`, `EvalTellsVerdict` |
| `ctx_calls` | 4 chunks, 2 slots, 2 retries | `WithinConcurrency`, `ContextsEnd` |
| `llm_calls` | 2 calls of 4 kinds, 2 pieces, either of them an analysis of any kind, in every mode, with and without a key and a known model | `RecordedOnce`, `AnswersAttributed`, `MissingIsUrgent` |
| `texts` | every text of up to 4 pieces of 3 lengths in 6 types, chunks of at most 10 with an overlap of 3, batches of 2; conversations of 3 turns with messages from nothing to more than the budget; 2.8 million states | `NothingLost`, `OffsetsTell`, `RowsHaveTheirVectors`, `KeepsLongestEnd` |
| `requests` | 2 requests of 5 kinds, 1 or 2 connections, 2 worker threads, both ways to leave `get_db`, next to a short and a long export | `CrowdedWaits`, `EverythingEnds`, `RerunRepairs` |
| `chat_verify_claim` | as `chat_verify` | a counterexample, section 6 |

Why the bounds are enough.  A document needs two runs to overlap and a third to come between or
after them; two chunks are the least at which a store step can stop halfway; a second document
tells whether one document's runs touch another's.  An `add` that fails without being applied leaves
less behind than one that is, and is left to `doc_live` and the proofs.  Three chats are the least at which two chats
need the verification of an answer a third has stored.  Two commits with a batch that repeats one
reach every pair of batch positions; the caps are exceeded by the second commit.  A ranking of four
chunks is longer than a page of two, and its refetched page holds all of it.  A piece of a text is
too small to stand alone (1), of a size of its own (8), or longer than a chunk so that windows
overlap (18), and four of them are merged on both sides of one that is not.  Two requests with two
sessions each over one or two connections reach every way in which the pool is empty, and the long
export leaves blocks behind the end of the short one.  Two answers of one confirmation are a
submission and its repetition.

`IndexSinceCommit` says that an index does not outlive a commit, not that it is current: a session
that began before the commit may build a stale one after it (section 6), and how far that reaches is
the question of `Bm25Current` in `ChatPipeline`, where sessions begin at the lines they begin at.
`RecordedOnce` says which responses lose their tokens, and `AnswersAttributed` which failures have no
event.

Some properties hold in part of the configurations only, and say so: `StoredAnswersFresh` with one
worker; `Bm25Current` with one worker and either the cache without verification or neither the
cache nor restricted access; `RetrievalComplete` with the cache and without verification.  In the
other configurations the code really behaves otherwise (section 6).

Every property of a passing run was tried against a mutation of a mapped definition that a slip in
the code could be (a dropped guard, an off-by-one, a missing reset), and TLC finds each violated.
The mutated forms are in the modules as "Variant" definitions; no action uses them.

Deadlock is checked in `cache_calls` only, where a lookup is always possible: in the other modules
the requests of an instance are finite, and the system may stop when they are served.  What must
not stop halfway is said by `StatusSettles`, `AnswersEnd`, `BatchesEnd`, `ContextsEnd` and
`EverythingEnds`.

## 4. Fairness

`DocIngestion`, `OwnerAnswers`, `GitIngestion` and `ChunkContext` assume weak fairness of the steps of
each run, batch or task (`FairSpec`, `AnswersFairSpec`).  The code justifies it: the event loop
resumes every coroutine whose await is over, the clients of models and embedders have timeouts, and
a MySQL lock wait ends in an error.  `RequestsSpec` assumes it of the steps of each request that has
come, of the closing of a session in a worker thread, and of an export that has the file open:
the loop and the threads run what can run, a timer ends each wait for a connection, and a writer
gets on.  Nothing is assumed of clients, retries, crashes or the clock, and no strong fairness
anywhere.  `StatusSettles` assumes that the process lives: after a crash a PENDING document stays
PENDING until someone asks for a retry.

## 5. Proofs

TLAPS checks these for every set of documents, requests, chats, chunks and commits, every limit,
every ranking and every set of failures.  They rest on the assumptions named in the modules, which
TLC evaluates in the runs: the types of the constants, that the sentinels differ from the values
(`SentinelAssumption`, `AnswerAssumption`, `IdleAssumption`, `RequestsAssumption`, `NoKeyAssumption`),
that a ranking names a chunk once (`RankingAssumption`; a vector store and an index do), that
the sizes of `Retrieval` are positive with `_OVERFETCH_FACTOR` at most `_OVERFETCH_MAX_FACTOR`
(`SizeAssumption`; the code has 3 and 12), and that the overlap of `Chunker` is positive and at most half
of a chunk (`SizeAssumption` there; the code has 200 of 1500 and 100 of 800).  Both halves of the last
are needed: with no overlap the last window could hold nothing but the `;` that was added, and with
more than half a window would share characters with the next but one.  Thresholds and similarities
are integers.

`DocIngestionProofs`.  `TypeCorrect` is inductive by itself.  The safety invariants are not: a
commit keeps `RowsHaveVectors` only if all vectors of the run have been added (`AddedInv`), and a
deletion only if no vector on the list belongs to a row (`TodoInv`), which in turn needs that the
old rows of a run are still its document's rows (`SnapshotInv`), that a run that has not committed
owns no row (`FreshInv`), that runs under way never share a document (`FlightInv`) and that only
the holder of the loop is in a synchronous section (`LoopInv`).  `IInv` is their conjunction with
`RowsInv`, `IndexInv` and the properties; there is one lemma per conjunct and one step per action.
From it follow `RowsAlwaysHaveVectors`, `DocumentsAlwaysWhole`, `NoIndexOutlivesCommit`,
`InFlightAlwaysExact` and `SnapshotsStayCurrent`.  `HitsAlwaysResolveHome` needs in addition that
the ids of the run at its store step are the highest ones (`IdInv`), so that a vector left behind
never shares an id with a later row.  `Refinement` proves `Spec => Replacement`: the chunks that
can be found for a document are replaced whole, in the one step of the commit, by a block of new
ids; every other step is a stutter or uses ids up.

Its last section is about `OwnerAnswers`.  `NoIndexOutlivesAnswer` needs no more than that every
step that changes rows drops the index before another request can run.  `IndexIsExplained` is for the failures after which a
document's run takes back what it did (`Clean`: no call applies its effect and reports a failure,
neither a commit nor a delete fails, the process lives); with the others the code does leave vectors
that nothing explains.  `AInv` says more than the property, which speaks of an idle loop only: at
every moment the vectors without a row are those that the holder of the loop has still to deal with
(`Held`) and those that failed answers left (`Abandoned`).  A commit keeps this because a vector id
tells the document or answer it is for (`OwnersInv`), and because the old rows of a run are all rows of
its document (`SnapshotInv`, and `FlightInv` for it).

`ChatPipelineProofs`.  The cache operations are reduced to what they do to the entries: an
operation keeps a part of them (`Part`), a store adds one, an invalidation leaves none.  `Base`
holds for all settings: generations never exceed the cache's, and with the cache no session begins
before the embedding has arrived.  `CachedAnswersFresh` then rests on `CurrentSessions`: a chat
whose generation is still the cache's sees the rows committed now, since each indexing run raises
the generation in the step in which it commits.  `HitsAreRevalidated`, `IndexIsCurrent` and
`RetrievesAll` rest on where sessions begin (`LateSessions`, `EarlySessions`); `BudgetHolds` on the
counter being that of its day.

`SharingProofs`, of `ChunkContext`.  `IInv` counts: slots free and slots held add up to the limit, and calls are
the tasks that have started plus the retries less those still backing off.  From it follow
`StaysWithinConcurrency` and `CallsAreAccounted` (of a counter, so no run repeats it); the cardinalities use
`FiniteSetTheorems`.

`AnalysesProofs`, of `Analyses` and so of the calls in it.  A call is followed by itself: `CallInv`
says of one call that before its end it has left no event and no answer and has noted what was
reported (`Unrecorded`), that only a request leaves its one event (`Recorded1`), that an analysis that
waits was to ask the model, has a key and knows it (`Attempted`), and what its answer says (`Agreed`).  `OneCall` lifts this to
all calls, since a step touches one; `Moves` is all that a step of `LlmCalls` does to its call, so
that the analyses need not look into the streams.  From `IInv` follow `EveryRequestRecorded`,
`AnswersAgree` and `MissingAlwaysUrgent`.

`GitIngestionProofs`.  `TypeInv` has the types and, for each batch, what its place in the run says
of its variables.  `VectorsAccounted` and `NoIndexOutlivesBatch` follow from `VectorInv`: a committed
chunk has its vector and is of a batch that has committed (`ChunksInv`), and the vectors of a batch are
those of the chunks in its view or could not be deleted (`TraceInv`).  `CommitsAreWhole` needs to
compare batches with each other: no two have written one commit (`LocksExclude`), a committed row
has chunks of one indexing unless it was there beforehand (`DbInv`), and what a batch sees is what
was committed when its snapshot was taken plus what it wrote (`RowsInv`), so that a commit that
another batch had inserted meanwhile runs into the unique key and not into a second indexing.  `CapHolds` compares two orders of the
same commits.  `BatchesPublishWhole` is the refinement of `CommitIndex`; it needs `BlockInv` besides: a
batch has one whole block of its own in each commit it has indexed and none in the one whose
embeddings it awaits, and nothing of a batch is committed before its end.

`SharingProofs`, of `Requests` and `TrainingExport`.  `PoolInv` ties each connection to a stage of the request that has it
(`ConnectionsAccounted`).  `StandsStillOnlyInACrowd` counts: with no connection free the sessions that
hold them map to requests in progress, one to one or two to one, and the request that waits is one
of them.  `ExportRerunRepairs` follows an export that has met no other from its opening to its end.

`SemanticCacheProofs`.  An operation of the cache is a value, so the lemmas say of each what it
makes of the entries and of the two orders.  `Inv` is that the orders list the live entries
exactly and once, and that the order of a workspace is the order of use (`before`, a history
variable).  `InvalidationHolds`, `LookupsAreCorrect` and `EvictionsAreLru` follow, and
`RecommendationsHold` from the counts of `CacheEval`.  Removing keys from an order is a recursive
function; that it keeps what it should is shown by induction over the length, as a fact about the set of
lengths for which it holds.

`RetrievalProofs`.  The first part says what `InOrder` returns: for a strict order on a finite set
each rank is taken by exactly one element, since the elements below one are fewer than those below a
later one.  From it: what filtering, `_rrf_merge` and `parse_ranking` keep, and that none of them
names a chunk twice.  `IInv` says what the request has found, how far its page has grown, where its
chunks come from and what the verdict rests on.  `AllowedOnly`, `ShortOnesAreExhausted`,
`BothAreRespected` and `EvaluationTells` follow.  For `BothAreRespected` the scores are compared as
fractions: a chunk before another in both pages has the higher score also when the filter has changed
the ranks of one page and not of the other, since it changes them in order.

`TextsProofs`, of `History`, `Chunker` and `Embedder`.  These modules compute by recursion over a
sequence, so the proofs are inductions over an interval, as a fact about the set of places for which a
statement holds (`IntervalInduction`), and each recursive function is first shown to exist.
`HistoryKeepsLongestEnd` says of each place of the scan that what is left is the budget less the
total of what fits (`ScanKnows`).  For the chunker there is one lemma a stage, each about any text.
The ranges of a cut follow each other and leave no piece out (`Tiles`), whether they are cut further or not; the
segments of every strategy are in order and cover every piece (`SegmentsCover`); a merged segment is
a run of segments, in order, and one that joins several is no longer than a chunk (`MergedGroups`); the windows
over a long one cover it, end before the next but one begins, and are as many as the loop makes
(`WindowsAreOver`).  `Placed` then goes through the merged segments: where the next one is looked for
(`offset`) is no further than the end of the last one and the line breaks that joins have added so far, and each
chunk is of one merged segment, within its place.  `IndexingLosesNothing` and `IndexingOffsetsTell`
follow from it.  `RowsKeepTheirVectors` rests on `Embedded`: at every moment the vectors are those of the texts
sent, in order, all of them or all but one.

Model-checked only, and why.  Liveness (`StatusSettles`, `AnswersEnd`, `BatchesEnd`, `ContextsEnd`,
`EverythingEnds`): the proof system has no rule for fairness here.  Every safety property that a
run checks is proved.  `TypeOK` is proved for
`DocIngestion`, `GitIngestion`, `Retrieval`, `Embedder` (`IndexingTypeCorrect`) and, as part of an
invariant, for `ChunkContext`, `Requests` and `History`; in the other modules it documents the shape of the state, and no run lists it.

## 6. Findings

One has a run of its own: in `chat_verify_claim` the cited chunks of a cached answer are looked up
before the verification call and not after it, so an answer whose chunks were replaced during the
call is replayed.

Further points where code and documents differ, met while translating; the models contain the
behaviour, no run is spent on them:

- A document uploaded again stays COMPLETED while its new content waits (`api/ingestion.py:45`,
  against line 42), and a file without text leaves its old chunks and is COMPLETED
  (`document_ingestion.py:193`, against lines 32-33).
- A retry that was accepted may start on a document another run has completed
  (`api/ingestion.py:168`); an upload with another `task_id` tags the chunks and not the document
  (`api/ingestion.py:93`); a vector that Chroma applied although `add` raised is not taken back
  (`document_ingestion.py:315`).
- Two overlapping batches that meet a `git_commits` row without chunks both insert them
  (`git_ingestion.py:538`, against the docstring at line 11); `CommitsWhole` shows that the unique key
  prevents it where the row is new.
- A commit that another batch has committed since the snapshot fails on the unique key instead of
  being reused (`git_ingestion.py:465`); a commit sent again overwrites its completed analysis
  (`:884`) and keeps its old sensitivity (`:538`); a refresh that fails when its savepoint is
  released has used a slot of the cap (`:256`); overlapping transactions lose usage
  (`db/session.py:66`).
- A session that began before an indexing run can rebuild the BM25 index from its old rows, after the
  invalidation (`bm25_index.py:119` and `:148`), and the stale index stays until the next indexing or
  the end of its ttl: with verification, or without the cache and with restricted access.  The
  `Rebuild` of both ingestion modules does so.
- A response that has usage but no text at its place, or lacks a number, raises in `_parse_response`
  (`provider.py:207-219`) before any token is noted (`:290-292`, and alike in the other functions), so
  llm_calls has 0 tokens for it; the event has an error.
- An answer by the rules with the mode `llm_fallback` has no event in llm_calls when there was no key
  (`document_analysis.py:141`; a summary and a commit are not attempted then, and a summary says
  `fallback`) or when the model's prefix is unknown (`provider.py:106`).
- A history of which nothing fits the budget counts as a first turn (`chat_pipeline.py:86`);
  a citation of an owner answer cannot be built, and the chat ends in an error (`schemas/chat.py:56`).
- One similar chunk lets every keyword hit into the context (`grounding.py:55`); the hybrid order
  is that of RRF and not of similarity (`retriever.py:309`).
- A streamed call abandoned between two pieces is recorded without an error (`provider.py:387`).
- The protected first turn comes on top of the budget, and the cut may fall between a question and
  its answer (`token_counter.py:57-66`).
- A judge's reply that is JSON but no object, or whose confidence is no number, raises outside the
  `try` that makes the verdict fail open (`grounding.py:77-91`).
- An answer with fewer vectors than texts loses the last chunks silently, and shifts the vectors
  behind the gap (`document_ingestion.py:277`).  `_normalize_risk_level` reads "LOW or MEDIUM" as
  MEDIUM for a document (`document_analysis.py:377`) and as LOW for a commit (`git_ingestion.py:933`).
- A segment merged over a blank line is not found in the text again, and its offsets are guessed from
  the end of the one before (`chunker.py:124`); a segment that is found has its own, unless a join has
  added line breaks before it.  A `;` is added to a last SQL statement that had none.
- A statement that finds the pool empty stops the loop for 30 s, a document's run whose two waits time
  out leaves its status as it was, and a Git run waits once for every commit.  With the late exit of
  `get_db` an upload needs two connections at a time, so that as few as eight uploads can wait.
- Exports of one dataset version at the same time can leave blocks of both in the file
  (`export_training_data.py:58`); an owner's answer submitted twice is indexed twice, and a failed one
  leaves vectors without rows (`owner_answer_ingestion.py:99`).

## 7. Plan

Done: document and Git ingestion, each with its abstract specification, and owner answers; the semantic
cache, and the chat pipeline that composes it with indexing; retrieval; chunker and
embedder; the calls of the models with the analyses on top; requests, connections and exports; the
evaluations that set a threshold or count verdicts.  Proved: every safety property that a run checks.
Left, in this order:

1. An abstract cache (a set of fresh answers) that `SemanticCache` implements, with the refinement
   proved.
2. A composition of `Requests` with the runs of `DocIngestion`: what a wait that stops the loop leaves
   of a document.

## 8. Not modelled

Prompts, heuristics, wording and the tokenizer; configuration, start-up, keys and migrations; the
declarations of tables and requests, whose constraints are in the guards of the modules; metrics,
except the event of a model call; the contents of chunks; the scores of BM25 and of embeddings, which
are arbitrary rankings.  Of the evaluations, the sweeps of the verification judge and of direct hits,
repetitions, rates, latencies and rendering, and the scripts whose figures nothing in the engine is
set from; of the export, the scrubbing of a record.  Probes and tests were read as references.  More
than one worker process appears only as indexing that does not invalidate here.

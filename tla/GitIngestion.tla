---------------------------- MODULE GitIngestion ----------------------------
(***************************************************************************)
(* Batches of Git commits (pipelines/git_ingestion.py) on one event loop.  *)
(*                                                                         *)
(* A batch is one background task with one MySQL transaction: its first    *)
(* SELECT fixes the rows it sees (REPEATABLE READ), each commit of the     *)
(* batch is a savepoint, and everything is committed at the end.  It       *)
(* suspends for the author lookup, for embeddings and for the analyses; in *)
(* between it keeps the event loop ("loop") and the locks on the rows it   *)
(* has written ("locks").  A statement that needs a row another open batch *)
(* has locked blocks the loop, so the lock is never released and the wait  *)
(* times out.                                                              *)
(***************************************************************************)
EXTENDS Integers, FiniteSets, FiniteSetsExt, SequencesExt

CONSTANTS
    Batch,       \* background tasks
    Hash,        \* commit hashes
    Payloads,    \* the sequences of hashes Spring sends
    Existing,    \* commits that have a GIT_COMMITS row and no chunk
    ChunkCount,  \* chunks of a commit
    SizeOf,      \* _commit_size_key, as a number
    Settings,    \* the configurations the process may be started with
    Faults,      \* what may go wrong: "embed", "store", "cleanup", "analysis",
                 \* "upsert", "commit", "crash"
    NoUsage, NoAnalysis, Idle, None

ASSUME PayloadAssumption == Payloads \subseteq Seq(Hash)
ASSUME CountAssumption == ChunkCount \in Nat \ {0}
ASSUME SizeAssumption == SizeOf \in [Hash -> Nat]
ASSUME SettingsAssumption ==
    Settings \subseteq [llm : BOOLEAN, cap : Nat, priority : {"order", "size"}]
ASSUME ExistingAssumption == Existing \subseteq Hash
ASSUME IdleAssumption == Idle \notin Batch /\ NoAnalysis \notin {"llm", "fallback"}

VARIABLES
    settings, \* get_settings(), read when the process starts
    db,       \* committed: row, chunks and analysis of each commit
    usage,    \* committed: tokens of the day's row in usage_logs, or NoUsage
    vectors,  \* Chroma
    undeleted,\* history: vectors whose deletion has failed
    seen,     \* MySQL: the sets of committed chunks that open sessions may see
    bm25,     \* the BM25 index of the workspace, if there is one: the chunks it is
              \* built from, and those that were committed when it was
    loop,     \* the batch that has the event loop, or Idle
    pc,       \* where each batch is suspended, or its result
    batch,    \* its payload: the commits
    at,       \* index of its current commit
    view,     \* the rows and the usage its transaction sees
    locks,    \* the commits whose rows it has written
    new,      \* its current savepoint has inserted the commit's row
    indexed,  \* the commits that are through phase 1
    failed,   \* the indices in failures
    attempts, \* llm_attempts
    tokens    \* total_tokens, one for each embedded commit

own == <<batch, at, view, locks, new, indexed, failed, attempts, tokens>>
stores == <<settings, db, usage, seen, vectors, undeleted>>
vars == <<settings, db, usage, seen, vectors, undeleted, bm25, loop, pc, batch, at,
          view, locks, new, indexed, failed, attempts, tokens>>

LlmEnabled == settings.llm     \* _is_llm_analysis_enabled
Cap == settings.cap            \* commit_analysis_max_per_batch, 0 for no limit
Priority == settings.priority  \* commit_analysis_cap_priority

Chunk == Batch \X Nat \X (1..ChunkCount)
Row == [exists : BOOLEAN, chunks : SUBSET Chunk,
        analysis : {"llm", "fallback", NoAnalysis}]
Item == [index : Nat, hash : Hash, llm : BOOLEAN]
Suspended == {"author", "embedding", "analyzing"}
Active == Suspended \cup {"next"}
Committed == {"completed", "partial", "failed"}
Ended == Committed \cup {"broken", "dead"}

TypeOK ==
    /\ settings \in Settings
    /\ db \in [Hash -> Row]
    /\ usage \in Nat \cup {NoUsage}
    /\ vectors \subseteq Chunk /\ undeleted \subseteq Chunk
    /\ seen \subseteq SUBSET Chunk
    /\ bm25 \subseteq [from : SUBSET Chunk, since : SUBSET Chunk]
    /\ loop \in Batch \cup {Idle}
    /\ pc \in [Batch -> {"new", "queued"} \cup Active \cup Ended]
    /\ batch \in [Batch -> {None} \cup Payloads]
    /\ at \in [Batch -> Nat]
    /\ view \in [Batch -> [rows : [Hash -> Row], usage : Nat \cup {NoUsage}]]
    /\ locks \in [Batch -> SUBSET Hash]
    /\ new \in [Batch -> BOOLEAN]
    /\ \A b \in Batch : \A k \in DOMAIN indexed[b] : indexed[b][k] \in Item
    /\ failed \in [Batch -> SUBSET Nat]
    /\ attempts \in [Batch -> Nat] /\ tokens \in [Batch -> Nat]
    /\ \A b \in Batch : pc[b] = "next" <=> loop = b

EmptyDb == [h \in Hash |-> [exists |-> h \in Existing, chunks |-> {},
                            analysis |-> NoAnalysis]]

Init ==
    /\ settings \in Settings
    /\ db = EmptyDb /\ vectors = {} /\ undeleted = {} /\ seen = {{}} /\ bm25 = {}
    /\ usage \in {NoUsage, 0}   \* other pipelines may have logged before
    /\ loop = Idle
    /\ pc = [b \in Batch |-> "new"]
    /\ batch = [b \in Batch |-> None]
    /\ at = [b \in Batch |-> 1]
    /\ view = [b \in Batch |-> [rows |-> EmptyDb, usage |-> NoUsage]]
    /\ locks = [b \in Batch |-> {}]
    /\ new = [b \in Batch |-> FALSE]
    /\ indexed = [b \in Batch |-> <<>>]
    /\ failed = [b \in Batch |-> {}]
    /\ attempts = [b \in Batch |-> 0]
    /\ tokens = [b \in Batch |-> 0]

-----------------------------------------------------------------------------
\* Helpers.

\* What is committed.
Chunks == UNION {db[h].chunks : h \in Hash}

Commits(b) == batch[b]
Current(b) == Commits(b)[at[b]]
Mine(b) == view[b].rows[Current(b)]
ChunksOf(b, i) == {<<b, i, n>> : n \in 1..ChunkCount}

\* Another open transaction has written the commit's row.
Held(b, h) == \E c \in Batch \ {b} : h \in locks[c]

\* The batch awaits or ends: other tasks can run.
Suspend(b, where) == pc' = [pc EXCEPT ![b] = where] /\ loop' = Idle
GoOn(b) ==
    /\ pc' = [pc EXCEPT ![b] = "next"]
    /\ loop' = b
    /\ at' = [at EXCEPT ![b] = @ + 1]
    /\ new' = [new EXCEPT ![b] = FALSE]

\* Variant: the attempts are compared one too late.
CappedLate(b) == Cap > 0 /\ attempts[b] > Cap

\* _select_llm_commit_indices: the largest commits, the earlier of equal ones.
Preselected(b) ==
    LET s == Commits(b)
        before(i) == {j \in DOMAIN s : \/ SizeOf[s[j]] > SizeOf[s[i]]
                                       \/ SizeOf[s[j]] = SizeOf[s[i]] /\ j < i}
    IN {i \in DOMAIN s : Cardinality(before(i)) < Cap}

\* The current commit gets no LLM analysis.
Capped(b) ==
    /\ Cap > 0
    /\ IF Priority = "size" THEN at[b] \notin Preselected(b) ELSE attempts[b] >= Cap

Attempt(b) == LlmEnabled /\ ~Capped(b)
CountAttempt(b) ==
    attempts' = [attempts EXCEPT ![b] = IF Attempt(b) THEN @ + 1 ELSE @]
Append1(b) ==
    indexed' = [indexed EXCEPT ![b] =
        Append(@, [index |-> at[b], hash |-> Current(b), llm |-> Attempt(b)])]

-----------------------------------------------------------------------------
\* A batch is accepted and its task begins.

Accept(b) ==
    /\ pc[b] = "new" /\ loop = Idle
    /\ \E s \in Payloads : batch' = [batch EXCEPT ![b] = s]
    /\ pc' = [pc EXCEPT ![b] = "queued"]
    /\ UNCHANGED <<stores, bm25, loop, at, view, locks, new, indexed, failed,
                   attempts, tokens>>

\* The transaction begins with the SELECT of the first commit.
Start(b) ==
    /\ pc[b] = "queued" /\ loop = Idle
    /\ pc' = [pc EXCEPT ![b] = "next"] /\ loop' = b
    /\ view' = [view EXCEPT ![b] = [rows |-> db, usage |-> usage]]
    /\ UNCHANGED <<stores, bm25, batch, at, locks, new, indexed, failed,
                   attempts, tokens>>

-----------------------------------------------------------------------------
\* Phase 1: one commit after the other, each in a savepoint.

\* The batch has the event loop and a commit to process.
AtCommit(b) == pc[b] = "next" /\ at[b] <= Len(Commits(b))

\* _get_or_create_git_commit without a row: the author is looked up first.
LookupAuthor(b) ==
    /\ AtCommit(b) /\ ~Mine(b).exists
    /\ Suspend(b, "author")
    /\ UNCHANGED <<stores, bm25, own>>

\* The row can be inserted now: after the lookup, or at once without an e-mail.
AtInsert(b) ==
    \/ pc[b] = "author" /\ loop = Idle
    \/ AtCommit(b) /\ ~Mine(b).exists

Insert(b) ==
    /\ AtInsert(b)
    /\ ~Held(b, Current(b)) /\ ~db[Current(b)].exists
    /\ view' = [view EXCEPT ![b].rows[Current(b)].exists = TRUE]
    /\ locks' = [locks EXCEPT ![b] = @ \cup {Current(b)}]
    /\ new' = [new EXCEPT ![b] = TRUE]
    /\ Suspend(b, "embedding")
    /\ UNCHANGED <<stores, bm25, batch, at, indexed, failed, attempts, tokens>>

\* Another batch has inserted the commit since the snapshot: a duplicate key, or
\* a lock wait that times out.
InsertFails(b) ==
    /\ AtInsert(b)
    /\ Held(b, Current(b)) \/ db[Current(b)].exists
    /\ GoOn(b)
    /\ failed' = [failed EXCEPT ![b] = @ \cup {at[b]}]
    /\ UNCHANGED <<stores, bm25, batch, view, locks, indexed, attempts, tokens>>

\* Variant: the chunks of a commit that is there are not looked for.
HasChunksNever(b) == FALSE

\* existing_chunks.
HasChunks(b) == Mine(b).chunks # {}

\* A commit with a row and without chunks is embedded.
Reuse(b) ==
    /\ AtCommit(b) /\ Mine(b).exists /\ ~HasChunks(b)
    /\ Suspend(b, "embedding")
    /\ UNCHANGED <<stores, bm25, own>>

\* A commit with chunks is only refreshed, when the savepoint is released; what
\* Spring sends may leave the row as it is.
Skip(b) ==
    /\ AtCommit(b) /\ Mine(b).exists /\ HasChunks(b)
    /\ \E changed \in BOOLEAN :
         /\ changed => ~Held(b, Current(b))
         /\ locks' = [locks EXCEPT ![b] = IF changed THEN @ \cup {Current(b)} ELSE @]
    /\ GoOn(b) /\ CountAttempt(b) /\ Append1(b)
    /\ UNCHANGED <<stores, bm25, batch, view, failed, tokens>>

\* The refresh meets a row another batch has refreshed and times out, after the
\* attempt has been counted.
SkipFails(b) ==
    /\ AtCommit(b) /\ Mine(b).exists /\ HasChunks(b)
    /\ Held(b, Current(b))
    /\ GoOn(b) /\ CountAttempt(b)
    /\ failed' = [failed EXCEPT ![b] = @ \cup {at[b]}]
    /\ UNCHANGED <<stores, bm25, batch, view, locks, indexed, tokens>>

\* Variant: the session is committed after each commit, not its savepoint released.
IndexCommitted(b) ==
    /\ pc[b] = "embedding" /\ loop = Idle
    /\ new[b] \/ ~Held(b, Current(b))
    /\ view' = [view EXCEPT ![b].rows[Current(b)].chunks = @ \cup ChunksOf(b, at[b])]
    /\ db' = [db EXCEPT ![Current(b)].exists = TRUE,
                        ![Current(b)].chunks = @ \cup ChunksOf(b, at[b])]
    /\ seen' = seen \cup {Chunks'}
    /\ vectors' = vectors \cup ChunksOf(b, at[b])
    /\ tokens' = [tokens EXCEPT ![b] = @ + 1]
    /\ locks' = [locks EXCEPT ![b] = {}]
    /\ GoOn(b) /\ CountAttempt(b) /\ Append1(b)
    /\ UNCHANGED <<settings, usage, undeleted, bm25, batch, failed>>

\* The embeddings arrive: refresh, chunk rows, vectors, release.
Index(b) ==
    /\ pc[b] = "embedding" /\ loop = Idle
    /\ \E changed \in BOOLEAN :
         /\ changed /\ ~new[b] => ~Held(b, Current(b))
         /\ locks' = [locks EXCEPT ![b] = IF changed THEN @ \cup {Current(b)} ELSE @]
    /\ view' = [view EXCEPT ![b].rows[Current(b)].chunks = @ \cup ChunksOf(b, at[b])]
    /\ vectors' = vectors \cup ChunksOf(b, at[b])
    /\ tokens' = [tokens EXCEPT ![b] = @ + 1]
    /\ GoOn(b) /\ CountAttempt(b) /\ Append1(b)
    /\ UNCHANGED <<settings, db, usage, seen, undeleted, bm25, batch, failed>>

\* Variant: nothing is deleted.
CleanedNothing(b, V) == V

\* _cleanup_vectors: the vectors recorded for the current commit are deleted.
Cleaned(b, V) == V \ ChunksOf(b, at[b])

\* The savepoint is rolled back; with an inserted row goes its lock.
RolledBack(b) ==
    IF new[b]
    THEN /\ view' = [view EXCEPT ![b].rows[Current(b)].exists = FALSE]
         /\ locks' = [locks EXCEPT ![b] = @ \ {Current(b)}]
    ELSE UNCHANGED <<view, locks>>

\* Variant: the commit is tried again.
IndexFailsRetried(b) ==
    /\ pc[b] = "embedding" /\ loop = Idle
    /\ RolledBack(b)
    /\ pc' = [pc EXCEPT ![b] = "next"] /\ loop' = b
    /\ new' = [new EXCEPT ![b] = FALSE]
    /\ UNCHANGED <<stores, bm25, batch, at, indexed, failed, attempts, tokens>>

\* The call for embeddings, a statement or a vector fails: vectors this commit
\* has added are deleted, unless that fails too.
IndexFails(b) ==
    /\ pc[b] = "embedding" /\ loop = Idle
    /\ \/ "embed" \in Faults /\ UNCHANGED <<vectors, undeleted>>
       \/ ~new[b] /\ Held(b, Current(b)) /\ UNCHANGED <<vectors, undeleted>>
       \/ /\ "store" \in Faults
          /\ \E left \in SUBSET ChunksOf(b, at[b]) :
               /\ left # {} => "cleanup" \in Faults
               /\ vectors' = Cleaned(b, vectors \cup ChunksOf(b, at[b])) \cup left
               /\ undeleted' = undeleted \cup left
    /\ RolledBack(b)
    /\ failed' = [failed EXCEPT ![b] = @ \cup {at[b]}]
    /\ GoOn(b)
    /\ UNCHANGED <<settings, db, usage, seen, bm25, batch, indexed, attempts, tokens>>

-----------------------------------------------------------------------------
\* Phases 2 and 3, and the end of the transaction.

\* Every commit has been through phase 1.
PhaseOver(b) == pc[b] = "next" /\ at[b] > Len(Commits(b))

\* _analyze_commits_concurrently, when there is something to analyze.
Analyze(b) ==
    /\ PhaseOver(b) /\ indexed[b] # <<>>
    /\ Suspend(b, "analyzing")
    /\ UNCHANGED <<stores, bm25, own>>

\* The rest runs without an await: after the analyses, or at once.
AtEnd(b) ==
    \/ pc[b] = "analyzing" /\ loop = Idle
    \/ PhaseOver(b) /\ indexed[b] = <<>>

\* Items whose analysis row cannot be inserted: another batch has inserted one
\* since the snapshot, or holds the commit's row.
Blocked(b) ==
    {k \in DOMAIN indexed[b] :
        LET h == indexed[b][k].hash IN
        /\ view[b].rows[h].analysis = NoAnalysis
        /\ db[h].analysis # NoAnalysis \/ Held(b, h)}

\* What the analysis of an item can be.
Outcomes(item) == {"fallback"} \cup (IF item.llm THEN {"llm"} ELSE {})

\* COMPLETED, PARTIAL or FAILED, from the commits of all phases that failed.
Result(b, lost) ==
    LET count == Cardinality(failed[b]) + Cardinality(lost) IN
    IF count = 0 THEN "completed"
    ELSE IF count >= Len(Commits(b)) THEN "failed" ELSE "partial"

\* The rows after the commit: the batch's own chunks, and for each commit the
\* analysis of its last item that was saved.
Written(b, saved, how) ==
    [h \in Hash |->
        LET mine == {v \in view[b].rows[h].chunks : v[1] = b}
            ks == {k \in saved : indexed[b][k].hash = h}
        IN [exists |-> db[h].exists \/ view[b].rows[h].exists,
            chunks |-> db[h].chunks \cup mine,
            analysis |-> IF ks = {} THEN db[h].analysis ELSE how[Max(ks)]]]

\* log_embedding_usage adds to the tokens of the snapshot.
Logged(b) ==
    IF tokens[b] = 0 THEN usage
    ELSE IF view[b].usage = NoUsage THEN tokens[b] ELSE view[b].usage + tokens[b]

\* The usage row of the day was inserted by another batch since the snapshot.
UsageClash(b) == tokens[b] > 0 /\ view[b].usage = NoUsage /\ usage # NoUsage

\* Variant: a batch with a failure leaves the index.
InvalidatedIfClean(b) ==
    bm25' = IF indexed[b] # <<>> /\ failed[b] = {} THEN {} ELSE bm25

\* The index, and the cached answers with it, are dropped when something was indexed.
Invalidated(b) == bm25' = IF indexed[b] # <<>> THEN {} ELSE bm25

\* The analyses are saved and the transaction is committed.
Finish(b) ==
    /\ AtEnd(b) /\ ~UsageClash(b)
    /\ \E raised \in SUBSET DOMAIN indexed[b] :
       \E unsaved \in SUBSET (DOMAIN indexed[b] \ raised) :
         LET lost == raised \cup unsaved
             saved == DOMAIN indexed[b] \ lost
         IN /\ raised # {} => "analysis" \in Faults
            /\ Blocked(b) \subseteq lost
            /\ unsaved \subseteq Blocked(b) \/ "upsert" \in Faults
            /\ \E how \in [saved -> {"llm", "fallback"}] :
                 /\ \A k \in saved : how[k] \in Outcomes(indexed[b][k])
                 /\ db' = Written(b, saved, how)
            /\ Suspend(b, Result(b, lost))
    /\ seen' = seen \cup {Chunks'}
    /\ usage' = Logged(b)
    /\ Invalidated(b)
    /\ locks' = [locks EXCEPT ![b] = {}]
    /\ UNCHANGED <<settings, vectors, undeleted, batch, at, view, new, indexed, failed, attempts, tokens>>

\* The commit fails and with it the whole batch; its vectors stay.
FinishFails(b) ==
    /\ AtEnd(b)
    /\ UsageClash(b) \/ "commit" \in Faults
    /\ Suspend(b, "broken")
    /\ Invalidated(b)
    /\ locks' = [locks EXCEPT ![b] = {}]
    /\ UNCHANGED <<stores, batch, at, view, new, indexed, failed, attempts, tokens>>

-----------------------------------------------------------------------------
\* The surroundings.

\* A search or a chat builds the BM25 index from the chunks its own session sees,
\* which are those committed when it began; of none it keeps nothing.
Rebuild ==
    /\ loop = Idle
    /\ \E snapshot \in seen \ {{}} : bm25' = {[from |-> snapshot, since |-> Chunks]}
    /\ UNCHANGED <<stores, loop, pc, own>>

\* The process dies; a batch may have added some vectors of its current commit.
Crash ==
    /\ "crash" \in Faults
    /\ pc' = [b \in Batch |-> IF pc[b] \in Active \cup {"queued"} THEN "dead" ELSE pc[b]]
    /\ pc' # pc
    /\ \/ UNCHANGED vectors
       \/ \E b \in Batch : /\ pc[b] = "embedding" /\ loop = Idle
                           /\ \E some \in SUBSET ChunksOf(b, at[b]) :
                                vectors' = vectors \cup some
    /\ loop' = Idle /\ bm25' = {} /\ seen' = {Chunks}
    /\ locks' = [b \in Batch |-> {}]
    /\ UNCHANGED <<settings, db, usage, undeleted, batch, at, view, new, indexed, failed, attempts, tokens>>

Work(b) ==
    \/ Start(b) \/ LookupAuthor(b) \/ Insert(b) \/ InsertFails(b)
    \/ Reuse(b) \/ Skip(b) \/ SkipFails(b) \/ Index(b) \/ IndexFails(b)
    \/ Analyze(b) \/ Finish(b) \/ FinishFails(b)

Next == (\E b \in Batch : Accept(b) \/ Work(b)) \/ Rebuild \/ Crash

Spec == Init /\ [][Next]_vars

\* The event loop resumes every task that can go on, and every call and lock
\* wait of a batch returns or times out.
FairSpec == Spec /\ \A b \in Batch : WF_vars(Work(b))

-----------------------------------------------------------------------------
\* Properties.

\* Commits are indexed whole and once: a batch reported COMPLETED has left chunks
\* and an analysis of each of its commits, whichever phase of which batch wrote
\* them, and the chunks of a commit that had no row beforehand come from one
\* indexing, however many batches bring it at the same time.
CommitsWhole ==
    /\ \A b \in Batch : pc[b] = "completed" =>
          \A h \in ToSet(Commits(b)) : db[h].chunks # {} /\ db[h].analysis # NoAnalysis
    /\ \A h \in Hash \ Existing : \A v, w \in db[h].chunks : v[1] = w[1] /\ v[2] = w[2]

\* No BM25 index outlives a commit of new chunks, also that of a batch which is
\* only partly successful: a session that began before it can still build a stale
\* one, but not one that began after it.
IndexSinceCommit == loop = Idle => \A i \in bm25 : i.since = Chunks

\* A committed chunk has its vector through every failure and crash, as a failing
\* commit of a batch takes back its own vectors only; a vector without a chunk
\* could not be deleted, or comes from a batch that is still open, failed to
\* commit or died with the process.
VectorsExplained ==
    /\ Chunks \subseteq vectors
    /\ \A v \in vectors \ Chunks :
          v \in undeleted \/ pc[v[1]] \in Active \cup {"broken", "dead"}

\* No batch asks the model for more analyses than the cap; with the priority
\* "size" no commit goes without one for the sake of a smaller one.
CapRespected ==
    \A b \in Batch :
        LET asked == {k \in DOMAIN indexed[b] : indexed[b][k].llm}
            sizeOf(k) == SizeOf[indexed[b][k].hash]
        IN /\ Cap > 0 => Cardinality(asked) <= Cap
           /\ (LlmEnabled /\ Priority = "size") =>
                 \A k \in asked, m \in DOMAIN indexed[b] \ asked : sizeOf(k) >= sizeOf(m)

\* What a search finds of each commit appears whole, in one step with the rest of
\* its batch, and stays as it is (CommitIndex), whichever commits of the batch fail
\* and whatever other batches do meanwhile.
Findable == [h \in Hash |-> db[h].chunks \cap vectors]
Position == UNION {DOMAIN s : s \in Payloads}
Promised == INSTANCE CommitIndex WITH
    Commit <- Hash, Unindexed <- Existing, found <- Findable,
    BlocksOf <- [b \in Batch |-> {ChunksOf(b, i) : i \in Position}]
Publication == Promised!Spec

\* Every accepted batch comes to an end, whatever fails.
BatchesEnd == \A b \in Batch : pc[b] = "queued" ~> pc[b] \in Ended
=============================================================================

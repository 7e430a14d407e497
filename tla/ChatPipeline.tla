---------------------------- MODULE ChatPipeline ----------------------------
(***************************************************************************)
(* Chats (chat_pipeline.run) next to indexing, on one event loop.          *)
(*                                                                         *)
(* An action is what a chat does between two awaits, so actions interleave *)
(* where the code suspends and nowhere else.  Each chat has a database     *)
(* session; under REPEATABLE READ its first SELECT fixes the rows it sees  *)
(* until it ends.  Chats share the BM25 index of the workspace, the        *)
(* semantic cache and the daily budget of verification calls.              *)
(*                                                                         *)
(* A chunk of the model is one version of a source with all its chunks;    *)
(* the versions number at most top_k, so that a search ranks all of them.  *)
(***************************************************************************)
EXTENDS SemanticCacheOps

CONSTANTS
    Chat,            \* requests
    Here,            \* the one workspace
    Restricted,      \* namespaces whose AccessFilter is not is_unrestricted
    Kinds,           \* source_type values: "document", "owner_answer"
    CandidateFloor,  \* semantic_cache_candidate_threshold
    Settings,        \* the configurations the process may be started with
    NoIndex, NoView, NoHit,           \* nothing yet
    MaxVersions, MaxGen, MaxClock, MaxDay  \* bounds of the instance

ASSUME SettingsAssumption ==
    Settings \subseteq [cache : BOOLEAN, verify : BOOLEAN, bm25 : BOOLEAN,
                         workers : BOOLEAN, limit : Nat]
ASSUME FloorAssumption == CandidateFloor \in Int
ASSUME BoundAssumption == MaxDay \in Nat
ASSUME PlaceAssumption == Here \in Workspace /\ \A ns \in Namespace : WorkspaceOf[ns] = Here
ASSUME RestrictedAssumption == Restricted \subseteq Namespace

VARIABLES
    settings, \* get_settings(), read when the process starts
    corpus,   \* MySQL and Chroma: the committed versions
    lastId,   \* the last version number
    bm25,     \* BM25IndexManager._indices of the workspace, or NoIndex
    cache,    \* get_semantic_cache()
    clock,    \* time.monotonic()
    day,      \* date.today()
    budget,   \* VerifyBudget._date and _count
    calls,    \* history: verification calls made on each day
    pc,       \* where each chat is suspended, or how it ended
    req,      \* its namespace, its question, and whether some of its history
              \* survives truncate_history
    view,     \* the versions its session sees, NoView before the first SELECT
    gen,      \* cache_generation
    hit,      \* the entry lookup gave it: key and answer
    raw,      \* bm25_raw
    used      \* the retrieved versions, and whether one came from the vectors

shared == <<settings, corpus, lastId, bm25, cache>>
time == <<clock, day>>
spent == <<budget, calls>>
vars == <<settings, corpus, lastId, bm25, cache, clock, day, budget, calls,
          pc, req, view, gen, hit, raw, used>>

CacheEnabled == settings.cache    \* semantic_cache_enabled
VerifyEnabled == settings.verify  \* semantic_cache_verify_enabled
Bm25Enabled == settings.bm25      \* bm25_enabled
MultiWorker == settings.workers   \* other workers index, and do not invalidate here
DailyLimit == settings.limit      \* semantic_cache_verify_daily_limit, 0 for none

Version == [id : Nat, to : SUBSET Restricted, kind : Kinds]
Answer == [basis : SUBSET Version, cited : SUBSET Version]
Suspended == {"rewriting", "embedding", "verifying", "judging", "streaming"}
Ended == {"answered", "unanswered", "error", "gone"}

TypeOK ==
    /\ settings \in Settings
    /\ corpus \subseteq Version /\ lastId \in Nat
    /\ bm25 = NoIndex \/ bm25 \in SUBSET Version
    /\ \A k \in Live(cache) : /\ cache.entry[k].ns \in Namespace
                              /\ cache.entry[k].query \in Query
                              /\ cache.entry[k].answer \in Answer
    /\ clock \in Nat /\ day \in Nat
    /\ budget \in [date : Nat \cup {-1}, count : Nat]
    /\ calls \in [0..MaxDay -> Nat]
    /\ pc \in [Chat -> {"new", "replaying"} \cup Suspended \cup Ended]
    /\ \A x \in Chat : pc[x] # "new" =>
          req[x] \in [ns : Namespace, query : Query, kept : BOOLEAN]
    /\ \A x \in Chat : view[x] = NoView \/ view[x] \in SUBSET Version
    /\ gen \in [Chat -> Nat]
    /\ \A x \in Chat : pc[x] \in {"verifying", "replaying"} =>
          hit[x].answer \in Answer
    /\ \A x \in Chat : raw[x] # NoIndex /\ raw[x] \subseteq Version
    /\ used \in [Chat -> [versions : SUBSET Version, near : BOOLEAN]]

Init ==
    /\ settings \in Settings
    /\ corpus = {} /\ lastId = 0 /\ bm25 = NoIndex /\ cache = EmptyCache
    /\ clock = 0 /\ day = 0
    /\ budget = [date |-> -1, count |-> 0]
    /\ calls = [d \in 0..MaxDay |-> 0]
    /\ pc = [x \in Chat |-> "new"]
    /\ req = [x \in Chat |-> NoHit]
    /\ view = [x \in Chat |-> NoView]
    /\ gen = [x \in Chat |-> 0]
    /\ hit = [x \in Chat |-> NoHit]
    /\ raw = [x \in Chat |-> {}]
    /\ used = [x \in Chat |-> [versions |-> {}, near |-> FALSE]]

-----------------------------------------------------------------------------
\* What a chat reads.

Goto(x, where) == pc' = [pc EXCEPT ![x] = where]

\* The rows of x's session from now on.
Seen(x) == IF view[x] = NoView THEN corpus ELSE view[x]

Visible(ns, V) == {v \in V : ns \notin Restricted \/ ns \in v.to}

\* _get_or_build: a missing index is built from the caller's session; without
\* rows there is none, and nothing is cached.
IndexFor(x) == IF bm25 # NoIndex THEN bm25
               ELSE IF Seen(x) = {} THEN NoIndex ELSE Seen(x)

\* The hits of a keyword search: the question's words occur or they do not.
KeywordHits(index) == {{}} \cup (IF index = NoIndex THEN {} ELSE {index})

\* retrieve, from the vector search on, for a chat that may have searched the
\* keywords already.  With restricted access the keywords may be searched a
\* second time (the ACL refetch).  Chroma gives the vectors there are now; what
\* is not visible in the session is dropped.
Retrieve(x) ==
    LET ns == req[x].ns IN
    /\ view' = [view EXCEPT ![x] = Seen(x)]
    /\ \E searchNow \in BOOLEAN :
         /\ searchNow => Bm25Enabled /\ (CacheEnabled \/ ns \in Restricted)
         /\ CacheEnabled /\ Bm25Enabled => searchNow
         /\ bm25' = IF searchNow THEN IndexFor(x) ELSE bm25
         /\ \E R \in (IF searchNow THEN KeywordHits(IndexFor(x)) ELSE {raw[x]}) :
              /\ raw' = [raw EXCEPT ![x] = R]
              /\ LET found == Visible(ns, Seen(x) \cap (corpus \cup R)) IN
                 /\ used' = [used EXCEPT ![x] =
                                [versions |-> found, near |-> found \cap corpus # {}]]
                 /\ Goto(x, IF found = {} THEN "unanswered" ELSE "judging")

\* Variant: the session is used before the question is embedded.
PrepareReadsFirst(x) ==
    /\ Goto(x, "embedding")
    /\ view' = [view EXCEPT ![x] = corpus]
    /\ UNCHANGED <<bm25, raw>>

\* Up to the await of the question's embedding.  Without the cache the keyword
\* search runs first, while the embedding is under way.
Prepare(x) ==
    /\ Goto(x, "embedding")
    /\ IF CacheEnabled \/ ~Bm25Enabled
         THEN UNCHANGED <<bm25, view, raw>>
         ELSE /\ bm25' = IndexFor(x)
              /\ view' = IF bm25 # NoIndex THEN view
                         ELSE [view EXCEPT ![x] = corpus]
              /\ \E R \in KeywordHits(IndexFor(x)) : raw' = [raw EXCEPT ![x] = R]

\* POST /chat, up to the first await.  A history that truncate_history empties
\* counts as a first turn.
Arrive(x) ==
    /\ pc[x] = "new"
    /\ \E ns \in Namespace, q \in Query, kept \in BOOLEAN :
         /\ req' = [req EXCEPT ![x] = [ns |-> ns, query |-> q, kept |-> kept]]
         /\ IF kept
              THEN Goto(x, "rewriting") /\ UNCHANGED <<bm25, view, raw>>
              ELSE Prepare(x)
    /\ UNCHANGED <<settings, corpus, lastId, cache, time, spent, gen, hit, used>>

\* query_rewriter.rewrite returns: the model's question or the original.
Rewritten(x) ==
    /\ pc[x] = "rewriting"
    /\ \E q \in Query : req' = [req EXCEPT ![x].query = q]
    /\ Prepare(x)
    /\ UNCHANGED <<settings, corpus, lastId, cache, time, spent, gen, hit, used>>

\* The embedding arrives and there is no cache to look in.
SearchUncached(x) ==
    /\ pc[x] = "embedding"
    /\ ~CacheEnabled
    /\ Retrieve(x)
    /\ UNCHANGED <<settings, corpus, lastId, cache, time, spent, req, gen, hit>>

-----------------------------------------------------------------------------
\* The cache lookup: everything from the embedding to the next await.

LookupFloor == IF VerifyEnabled /\ CandidateFloor <= Threshold
               THEN CandidateFloor ELSE Threshold

Looked(x) == Scanned(cache, req[x].ns, clock)
FoundKey(x) == Found(Looked(x), req[x].ns, req[x].query, LookupFloor)
FoundAnswer(x) == Looked(x).entry[FoundKey(x)].answer
AfterLookup(x) == Touched(Looked(x), req[x].query, FoundKey(x))
IsHit(x) == ~(SimilarityOf(Looked(x), req[x].query, FoundKey(x)) < Threshold)

\* Variant: the cited chunks are not looked up again.
AccessOkUnchecked(x) == TRUE

\* _allowed_chunk_ids: every cited chunk exists and the request may see it.
AccessOk(x) == FoundAnswer(x).cited \subseteq Visible(req[x].ns, Seen(x))

\* Variant: a new day is never remembered, so every call starts a new count.
SpentEachTime(today) == 0

\* VerifyBudget: what has been spent of the day's limit.
Spent(today) == IF budget.date = today THEN budget.count ELSE 0
MayVerify == DailyLimit = 0 \/ Spent(day) < DailyLimit

Capture(x) == gen' = [gen EXCEPT ![x] = cache.gen[Here]]

\* Lookup, keep the generation, and miss.
LookupMiss(x) ==
    /\ pc[x] = "embedding" /\ CacheEnabled
    /\ FoundKey(x) = NoKey
    /\ Capture(x)
    /\ cache' = Looked(x)
    /\ Retrieve(x)
    /\ UNCHANGED <<settings, corpus, lastId, time, spent, req, hit>>

\* The entry cites a chunk that is gone or out of reach: removed, and a miss.
LookupDenied(x) ==
    /\ pc[x] = "embedding" /\ CacheEnabled
    /\ FoundKey(x) # NoKey /\ ~AccessOk(x)
    /\ Capture(x)
    /\ cache' = Remove(AfterLookup(x), FoundKey(x))
    /\ Retrieve(x)
    /\ UNCHANGED <<settings, corpus, lastId, time, spent, req, hit>>

\* At the threshold the entry is replayed at once.
LookupHit(x) ==
    /\ pc[x] = "embedding" /\ CacheEnabled
    /\ FoundKey(x) # NoKey /\ AccessOk(x) /\ IsHit(x)
    /\ Capture(x)
    /\ cache' = AfterLookup(x)
    /\ view' = [view EXCEPT ![x] = Seen(x)]
    /\ hit' = [hit EXCEPT ![x] = [key |-> FoundKey(x), answer |-> FoundAnswer(x)]]
    /\ Goto(x, "replaying")
    /\ UNCHANGED <<settings, corpus, lastId, bm25, time, spent, req, raw, used>>

\* Below it, with a call left in the day's budget, the entry is verified.
LookupCandidate(x) ==
    /\ pc[x] = "embedding" /\ CacheEnabled
    /\ FoundKey(x) # NoKey /\ AccessOk(x) /\ ~IsHit(x) /\ MayVerify
    /\ Capture(x)
    /\ cache' = AfterLookup(x)
    /\ view' = [view EXCEPT ![x] = Seen(x)]
    /\ hit' = [hit EXCEPT ![x] = [key |-> FoundKey(x), answer |-> FoundAnswer(x)]]
    /\ budget' = IF DailyLimit = 0 THEN budget
                 ELSE [date |-> day, count |-> Spent(day) + 1]
    /\ calls' = [calls EXCEPT ![day] = @ + 1]
    /\ Goto(x, "verifying")
    /\ UNCHANGED <<settings, corpus, lastId, bm25, time, req, raw, used>>

\* The budget is exhausted: a miss without a call.
LookupOverBudget(x) ==
    /\ pc[x] = "embedding" /\ CacheEnabled
    /\ FoundKey(x) # NoKey /\ AccessOk(x) /\ ~IsHit(x) /\ ~MayVerify
    /\ Capture(x)
    /\ cache' = AfterLookup(x)
    /\ Retrieve(x)
    /\ UNCHANGED <<settings, corpus, lastId, time, spent, req, hit>>

-----------------------------------------------------------------------------
\* After the lookup.

\* verify_same_question says YES: the entry is replayed, and counts as used if
\* it is still there.
VerifyYes(x) ==
    /\ pc[x] = "verifying"
    /\ cache' = MarkHit(cache, hit[x].key)
    /\ Goto(x, "replaying")
    /\ UNCHANGED <<settings, corpus, lastId, bm25, time, spent, req, view, gen, hit, raw, used>>

\* NO, no parsable verdict, an error or a timeout: a miss.
VerifyNo(x) ==
    /\ pc[x] = "verifying"
    /\ Retrieve(x)
    /\ UNCHANGED <<settings, corpus, lastId, cache, time, spent, req, gen, hit>>

\* Citation accepts documents, commits and schemas.
Citable(x) == \A v \in used[x].versions : v.kind # "owner_answer"

\* The grounding verdict is in, and a citation cannot be built.
CitationFails(x) ==
    /\ pc[x] = "judging"
    /\ ~Citable(x)
    /\ Goto(x, "error")
    /\ UNCHANGED <<shared, time, spent, req, view, gen, hit, raw, used>>

\* Not groundable: the similarity filter or the model says so.
NotGroundable(x) ==
    /\ pc[x] = "judging"
    /\ Citable(x)
    /\ Goto(x, "unanswered")
    /\ UNCHANGED <<shared, time, spent, req, view, gen, hit, raw, used>>

\* Groundable; keyword hits alone have similarity 0 and never are.
Groundable(x) ==
    /\ pc[x] = "judging"
    /\ Citable(x) /\ used[x].near
    /\ Goto(x, "streaming")
    /\ UNCHANGED <<shared, time, spent, req, view, gen, hit, raw, used>>

\* The answer of a first turn may be cached.
FirstTurn(x) == ~req[x].kept

\* Variant: the generation is not compared.
UnchangedIgnored(x) == TRUE

\* No invalidation since the lookup.
Unchanged(x) == cache.gen[Here] = gen[x]
AnswerOf(x) == [basis |-> view[x], cited |-> used[x].versions]

\* The stream is complete and its answer is cached.
FinishStored(x) ==
    /\ pc[x] = "streaming"
    /\ CacheEnabled /\ FirstTurn(x) /\ Unchanged(x)
    /\ cache' = Store(cache, req[x].ns, req[x].query, AnswerOf(x), clock)
    /\ Goto(x, "answered")
    /\ UNCHANGED <<settings, corpus, lastId, bm25, time, spent, req, view, gen, hit, raw, used>>

\* The stream is complete and its answer is not cached: a later turn, a blank
\* answer, a grounding fallback, or an invalidation since the lookup.
FinishUnstored(x) ==
    /\ pc[x] = "streaming"
    /\ Goto(x, "answered")
    /\ UNCHANGED <<shared, time, spent, req, view, gen, hit, raw, used>>

\* The last piece of a cached answer is sent.
ReplayDone(x) ==
    /\ pc[x] = "replaying"
    /\ Goto(x, "answered")
    /\ UNCHANGED <<shared, time, spent, req, view, gen, hit, raw, used>>

\* A call or a statement raises, or the judge's reply is JSON that assess cannot
\* read; other errors of verification, reranking and grounding are turned into a
\* verdict.
Fail(x) ==
    /\ pc[x] \in Suspended
    /\ Goto(x, "error")
    /\ UNCHANGED <<shared, time, spent, req, view, gen, hit, raw, used>>

\* The client closes the stream.
Disconnect(x) ==
    /\ pc[x] \in Suspended \cup {"replaying"}
    /\ Goto(x, "gone")
    /\ UNCHANGED <<shared, time, spent, req, view, gen, hit, raw, used>>

-----------------------------------------------------------------------------
\* Indexing, time and expiry.

Local == <<pc, req, view, gen, hit, raw, used>>

\* A new version, alone or in place of older ones.
Publish ==
    /\ lastId < MaxVersions
    /\ lastId' = lastId + 1
    /\ \E old \in SUBSET corpus, to \in SUBSET Restricted, kind \in Kinds :
         corpus' = (corpus \ old) \cup {[id |-> lastId + 1, to |-> to, kind |-> kind]}

\* Variant: only the cached answers are dropped.
DroppedCacheOnly ==
    cache.gen[Here] < MaxGen /\ cache' = InvalidateWorkspace(cache, Here) /\ UNCHANGED bm25

\* An indexing run drops the BM25 index and the cached answers.
Dropped ==
    /\ cache.gen[Here] < MaxGen
    /\ cache' = InvalidateWorkspace(cache, Here)
    /\ bm25' = NoIndex

\* An indexing run of this worker invalidates and commits without an await.
Ingest == Dropped /\ Publish /\ UNCHANGED <<settings, time, spent, Local>>

\* The commit after the invalidation fails.
IngestFails == Dropped /\ UNCHANGED <<settings, corpus, lastId, time, spent, Local>>

\* An indexing run of another worker.
ForeignIngest ==
    MultiWorker /\ Publish /\ UNCHANGED <<settings, bm25, cache, time, spent, Local>>

\* bm25_cache_ttl_seconds have passed.
IndexExpires ==
    /\ bm25 # NoIndex
    /\ bm25' = NoIndex
    /\ UNCHANGED <<settings, corpus, lastId, cache, time, spent, Local>>

Tick ==
    /\ clock < MaxClock
    /\ clock' = clock + 1
    /\ UNCHANGED <<shared, day, spent, Local>>

NextDay ==
    /\ day < MaxDay
    /\ day' = day + 1
    /\ UNCHANGED <<shared, clock, spent, Local>>

Step(x) ==
    \/ Rewritten(x) \/ SearchUncached(x)
    \/ LookupMiss(x) \/ LookupDenied(x) \/ LookupHit(x)
    \/ LookupCandidate(x) \/ LookupOverBudget(x)
    \/ VerifyYes(x) \/ VerifyNo(x)
    \/ CitationFails(x) \/ NotGroundable(x) \/ Groundable(x)
    \/ FinishStored(x) \/ FinishUnstored(x) \/ ReplayDone(x) \/ Fail(x)

Next ==
    \/ \E x \in Chat : Arrive(x) \/ Step(x) \/ Disconnect(x)
    \/ Ingest \/ IngestFails \/ ForeignIngest \/ IndexExpires \/ Tick \/ NextDay

Spec == Init /\ [][Next]_vars

-----------------------------------------------------------------------------
\* Properties.

\* With one worker, whatever is cached was written from the rows committed now:
\* an answer that was being written while an indexing run invalidated is not
\* stored, although its session still sees the old rows.
StoredAnswersFresh ==
    ~MultiWorker =>
        \A k \in Live(cache) : cache.entry[k].answer.basis = corpus

\* A hit at the threshold cites only chunks that exist and that the request may
\* see at that moment, also when another worker has replaced them meanwhile.
HitsRevalidated ==
    [][\A x \in Chat : (pc[x] = "embedding" /\ pc'[x] = "replaying") =>
          hit'[x].answer.cited \subseteq Visible(req[x].ns, corpus)]_vars

\* Settings with which no index is built from a session that began before the
\* embedding or the verification call was awaited.
NoOldBuilds ==
    /\ ~MultiWorker
    /\ IF CacheEnabled THEN ~VerifyEnabled ELSE Restricted = {}

\* With those, no chat searches a BM25 index older than the rows.
Bm25Current == NoOldBuilds /\ bm25 # NoIndex => bm25 = corpus

\* With the cache and without verification nothing that is indexed and visible
\* is missed because the session began too early: when a chat has retrieved, it
\* has seen every version committed then.
RetrievalComplete ==
    [][CacheEnabled /\ ~VerifyEnabled =>
          \A x \in Chat : (pc[x] # "judging" /\ pc'[x] = "judging") =>
              used'[x].versions = Visible(req[x].ns, corpus)]_vars

\* The verification calls of a day stay within the limit.
WithinDailyLimit == DailyLimit > 0 => \A d \in 0..MaxDay : calls[d] <= DailyLimit

-----------------------------------------------------------------------------
\* What the repository says of the program and the program does not do.

\* docs/architecture.md:310-311 on a hit "the cited chunk_ids are checked to be
\* still within the access of the current request": also a hit that had to be
\* verified cites only chunks that exist when it is replayed.
VerifiedHitsExist ==
    [][\A x \in Chat : (pc[x] = "verifying" /\ pc'[x] = "replaying") =>
          hit[x].answer.cited \subseteq Visible(req[x].ns, corpus)]_vars
=============================================================================

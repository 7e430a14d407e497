------------------------- MODULE ChatPipelineProofs -------------------------
(***************************************************************************)
(* Theorems about ChatPipeline, for every set of chats, questions and      *)
(* namespaces, every similarity and every limit: what is cached rests on   *)
(* the rows committed now; a hit cites chunks that exist; a BM25 index is   *)
(* current where no old session can build it; the budget holds.            *)
(***************************************************************************)
EXTENDS ChatPipeline, TLAPS

-----------------------------------------------------------------------------
\* The cache operations on the entries alone.

Shape(c) ==
    /\ DOMAIN c = {"entry", "order", "lru", "gen", "next"}
    /\ c.gen \in [Workspace -> Nat]

\* d has some of the entries of c, and the same generations.
Part(c, d) ==
    /\ Shape(d)
    /\ d.gen = c.gen
    /\ Live(d) \subseteq Live(c)
    /\ \A k \in Live(d) : d.entry[k] = c.entry[k]

LEMMA PartTransitive ==
    ASSUME NEW b, NEW c, NEW d, Part(b, c), Part(c, d)
    PROVE  Part(b, d)
BY DEF Part

LEMMA DropPart ==
    ASSUME NEW c, NEW K, Shape(c)
    PROVE  Part(c, Drop(c, K))
BY DEF Shape, Part, Drop, Live

LEMMA BumpPart ==
    ASSUME NEW c, NEW k, Shape(c)
    PROVE  Part(c, Bump(c, k))
BY DEF Shape, Part, Bump, Live

LEMMA ScannedPart ==
    ASSUME NEW c, NEW ns, NEW now, Shape(c)
    PROVE  Part(c, Scanned(c, ns, now))
BY DropPart DEF Scanned

LEMMA TouchedPart ==
    ASSUME NEW c, NEW q, NEW k, Shape(c)
    PROVE  Part(c, Touched(c, q, k))
<1>1. Part(c, c)
  BY DEF Part
<1> QED
  BY <1>1, BumpPart DEF Touched

LEMMA MarkHitPart ==
    ASSUME NEW c, NEW k, Shape(c)
    PROVE  Part(c, MarkHit(c, k))
<1>1. Part(c, c)
  BY DEF Part
<1> QED
  BY <1>1, BumpPart DEF MarkHit

LEMMA RemovePart ==
    ASSUME NEW c, NEW k, Shape(c)
    PROVE  Part(c, Remove(c, k))
BY DropPart DEF Remove

\* A store adds one entry and keeps some of the others.
LEMMA StoreAdds ==
    ASSUME NEW c, NEW ns \in Namespace, NEW q, NEW answer, NEW now, Shape(c)
    PROVE  LET d == Store(c, ns, q, answer, now)
           IN /\ Shape(d)
              /\ d.gen = c.gen
              /\ \A k \in Live(d) :
                    \/ d.entry[k].ns = ns /\ d.entry[k].answer = answer
                    \/ k \in Live(c) /\ d.entry[k] = c.entry[k]
<1> DEFINE w == WorkspaceOf[ns]
           new == [ns |-> ns, query |-> q, at |-> now, answer |-> answer]
           added == [c EXCEPT !.entry = [j \in DOMAIN @ \cup {c.next} |->
                                            IF j = c.next THEN new ELSE @[j]],
                              !.order[ns] = Append(@, c.next),
                              !.lru[w] = Append(@, c.next),
                              !.next = c.next + 1]
<1>1. /\ Shape(added) /\ added.gen = c.gen
      /\ added.entry = [j \in Live(c) \cup {c.next} |->
                            IF j = c.next THEN new ELSE c.entry[j]]
  BY DEF Shape, Live
<1>2. Part(added, Drop(added, Overflow(added.lru[w])))
  BY <1>1, DropPart
<1>3. Store(c, ns, q, answer, now) = Drop(added, Overflow(added.lru[w]))
  BY DEF Store
<1>4. \A k \in Live(added) :
         \/ added.entry[k].ns = ns /\ added.entry[k].answer = answer
         \/ k \in Live(c) /\ added.entry[k] = c.entry[k]
  BY <1>1 DEF Live
<1> HIDE DEF added
<1> QED
  BY <1>1, <1>2, <1>3, <1>4 DEF Part

\* After an invalidation nothing of the workspace is left.
LEMMA InvalidateEmpties ==
    ASSUME NEW c, Shape(c), \A k \in Live(c) : c.entry[k].ns \in Namespace
    PROVE  LET d == InvalidateWorkspace(c, Here)
           IN /\ Shape(d)
              /\ Live(d) = {}
              /\ d.gen[Here] = c.gen[Here] + 1
<1>1. LiveIn(c, Here) = Live(c)
  BY PlaceAssumption DEF LiveIn
<1> QED
  BY <1>1, PlaceAssumption DEF InvalidateWorkspace, Shape, Live

-----------------------------------------------------------------------------
\* The inductive invariant.

Domains ==
    /\ DOMAIN pc = Chat /\ DOMAIN req = Chat /\ DOMAIN view = Chat
    /\ DOMAIN gen = Chat /\ DOMAIN hit = Chat /\ DOMAIN used = Chat

Requests == \A x \in Chat : pc[x] # "new" =>
                req[x] \in [ns : Namespace, query : Query, kept : BOOLEAN]

CacheShape == Shape(cache) /\ \A k \in Live(cache) : cache.entry[k].ns \in Namespace

\* A chat's generation is one the cache has had.
Generations == \A x \in Chat : gen[x] \in Nat /\ gen[x] <= cache.gen[Here]

\* With the cache, no session begins before the embedding has arrived.
LateSessions ==
    CacheEnabled => \A x \in Chat :
        pc[x] \in {"new", "rewriting", "embedding"} => view[x] = NoView

Base == Domains /\ Requests /\ CacheShape /\ Generations /\ LateSessions

\* With one worker, a chat whose generation is still the current one sees the rows committed now.
CurrentSessions ==
    \A x \in Chat :
        (/\ ~MultiWorker /\ CacheEnabled
         /\ pc[x] \in {"verifying", "judging", "streaming"}
         /\ gen[x] = cache.gen[Here]) => view[x] = corpus

-----------------------------------------------------------------------------
\* What the steps of a chat have in common.

Lookup(x) ==
    \/ LookupMiss(x) \/ LookupDenied(x) \/ LookupHit(x)
    \/ LookupCandidate(x) \/ LookupOverBudget(x)

\* Steps that only move the chat on.
Quiet(x) ==
    \/ CitationFails(x) \/ NotGroundable(x) \/ Groundable(x)
    \/ FinishUnstored(x) \/ ReplayDone(x) \/ Fail(x) \/ Disconnect(x)

\* Steps of indexing and time.
Background == Ingest \/ IngestFails \/ ForeignIngest \/ IndexExpires \/ Tick \/ NextDay

\* The steps of the next-state relation, grouped as the proofs treat them.
LEMMA NextCases ==
    ASSUME Next
    PROVE  \/ \E x \in Chat :
                 \/ Arrive(x) \/ Rewritten(x) \/ SearchUncached(x) \/ Lookup(x)
                 \/ VerifyYes(x) \/ VerifyNo(x) \/ FinishStored(x) \/ Quiet(x)
           \/ Background
BY DEF Next, Step, Lookup, Quiet, Background

\* No step changes the settings.
LEMMA SettingsFixed ==
    ASSUME [Next]_vars
    PROVE  /\ settings' = settings
           /\ CacheEnabled' = CacheEnabled /\ VerifyEnabled' = VerifyEnabled
           /\ MultiWorker' = MultiWorker /\ DailyLimit' = DailyLimit
<1>1. settings' = settings
  <2>1. CASE UNCHANGED vars
    BY <2>1 DEF vars
  <2>2. ASSUME NEW x \in Chat,
               \/ Arrive(x) \/ Rewritten(x) \/ SearchUncached(x) \/ Lookup(x)
               \/ VerifyYes(x) \/ VerifyNo(x) \/ FinishStored(x)
        PROVE  settings' = settings
    BY <2>2 DEF Arrive, Rewritten, SearchUncached, Lookup, LookupMiss, LookupDenied,
                LookupHit, LookupCandidate, LookupOverBudget, VerifyYes, VerifyNo,
                FinishStored
  <2>3. ASSUME NEW x \in Chat, Quiet(x) PROVE settings' = settings
    BY <2>3 DEF Quiet, CitationFails, NotGroundable, Groundable, FinishUnstored,
                ReplayDone, Fail, Disconnect, shared
  <2>4. CASE Background
    BY <2>4 DEF Background, Ingest, IngestFails, ForeignIngest, IndexExpires, Tick,
                NextDay, shared
  <2> QED
    BY <2>1, <2>2, <2>3, <2>4, NextCases
<1> QED
  BY <1>1 DEF CacheEnabled, VerifyEnabled, MultiWorker, DailyLimit

LEMMA RetrieveGives ==
    ASSUME NEW x \in Chat, Retrieve(x)
    PROVE  /\ view' = [view EXCEPT ![x] = Seen(x)]
           /\ \E w \in {"unanswered", "judging"} : pc' = [pc EXCEPT ![x] = w]
           /\ bm25' = bm25 \/ bm25' = IndexFor(x)
           /\ \E u : used' = [used EXCEPT ![x] = u]
BY DEF Retrieve, Goto

LEMMA PrepareGives ==
    ASSUME NEW x \in Chat, Prepare(x), Domains
    PROVE  /\ pc' = [pc EXCEPT ![x] = "embedding"]
           /\ CacheEnabled => view' = view /\ bm25' = bm25
           /\ DOMAIN view' = Chat
BY DEF Prepare, Goto, Domains

LEMMA ArriveGives ==
    ASSUME NEW x \in Chat, Arrive(x), Domains
    PROVE  /\ pc[x] = "new"
           /\ \E r \in [ns : Namespace, query : Query, kept : BOOLEAN] :
                 req' = [req EXCEPT ![x] = r]
           /\ \E w \in {"rewriting", "embedding"} : pc' = [pc EXCEPT ![x] = w]
           /\ CacheEnabled => view' = view /\ bm25' = bm25
           /\ DOMAIN view' = Chat
           /\ UNCHANGED <<settings, corpus, lastId, cache, time, spent, gen, hit, used>>
BY PrepareGives DEF Arrive, Goto, Domains

LEMMA LookupGives ==
    ASSUME NEW x \in Chat, Lookup(x), CacheShape
    PROVE  /\ pc[x] = "embedding" /\ CacheEnabled
           /\ \E w \in {"unanswered", "judging", "verifying", "replaying"} :
                 pc' = [pc EXCEPT ![x] = w]
           /\ view' = [view EXCEPT ![x] = Seen(x)]
           /\ gen' = [gen EXCEPT ![x] = cache.gen[Here]]
           /\ bm25' = bm25 \/ bm25' = IndexFor(x)
           /\ Part(cache, cache')
           /\ \E h : hit' = [hit EXCEPT ![x] = h] \/ hit' = hit
           /\ \E u : used' = [used EXCEPT ![x] = u] \/ used' = used
           /\ UNCHANGED <<corpus, req>>
<1>1. Part(cache, Looked(x))
  BY ScannedPart DEF CacheShape, Looked
<1>2. Part(Looked(x), AfterLookup(x))
  BY <1>1, TouchedPart DEF Part, AfterLookup
<1>3. Part(AfterLookup(x), Remove(AfterLookup(x), FoundKey(x)))
  BY <1>2, RemovePart DEF Part
<1>4. Part(cache, AfterLookup(x)) /\ Part(cache, Remove(AfterLookup(x), FoundKey(x)))
  BY <1>1, <1>2, <1>3, PartTransitive
<1>5. CASE LookupMiss(x)
  BY <1>1, <1>5, RetrieveGives DEF LookupMiss, Capture
<1>6. CASE LookupDenied(x)
  BY <1>4, <1>6, RetrieveGives DEF LookupDenied, Capture
<1>7. CASE LookupHit(x)
  BY <1>4, <1>7 DEF LookupHit, Capture, Goto
<1>8. CASE LookupCandidate(x)
  BY <1>4, <1>8 DEF LookupCandidate, Capture, Goto
<1>9. CASE LookupOverBudget(x)
  BY <1>4, <1>9, RetrieveGives DEF LookupOverBudget, Capture
<1> QED
  BY <1>5, <1>6, <1>7, <1>8, <1>9 DEF Lookup

LEMMA QuietGives ==
    ASSUME NEW x \in Chat, Quiet(x)
    PROVE  /\ pc[x] # "new"
           /\ \E w \in {"error", "unanswered", "answered", "gone", "streaming"} :
                 /\ pc' = [pc EXCEPT ![x] = w]
                 /\ w = "streaming" => pc[x] = "judging"
           /\ UNCHANGED <<shared, time, spent, req, view, gen, hit, used>>
BY DEF Quiet, CitationFails, NotGroundable, Groundable, FinishUnstored, ReplayDone,
       Fail, Disconnect, Goto, Suspended

\* Indexing leaves the chats alone; it empties the cache or does not touch it.
LEMMA BackgroundGives ==
    ASSUME Background, CacheShape
    PROVE  /\ UNCHANGED Local
           /\ \/ UNCHANGED <<corpus, cache>>
              \/ MultiWorker /\ UNCHANGED cache
              \/ /\ Shape(cache') /\ Live(cache') = {}
                 /\ cache'.gen[Here] = cache.gen[Here] + 1
                 /\ bm25' = NoIndex
<1>1. ASSUME Dropped
      PROVE  /\ Shape(cache') /\ Live(cache') = {}
             /\ cache'.gen[Here] = cache.gen[Here] + 1
             /\ bm25' = NoIndex
  BY <1>1, InvalidateEmpties DEF Dropped, CacheShape
<1>2. CASE Ingest
  BY <1>1, <1>2 DEF Ingest
<1>3. CASE IngestFails
  BY <1>1, <1>3 DEF IngestFails
<1>4. CASE ForeignIngest
  BY <1>4 DEF ForeignIngest
<1>5. CASE IndexExpires \/ Tick \/ NextDay
  BY <1>5 DEF IndexExpires, Tick, NextDay, shared
<1> QED
  BY <1>2, <1>3, <1>4, <1>5 DEF Background

-----------------------------------------------------------------------------
\* What no step disturbs, with other workers or without.

LEMMA InitBase == Init => Base
<1> SUFFICES ASSUME Init PROVE Base
  OBVIOUS
<1>1. CacheShape
  BY DEF Init, EmptyCache, CacheShape, Shape, Live
<1>2. Generations
  BY PlaceAssumption DEF Init, EmptyCache, Generations
<1> QED
  BY <1>1, <1>2 DEF Init, Base, Domains, Requests, LateSessions

LEMMA NextBase == Base /\ [Next]_vars => Base'
<1> SUFFICES ASSUME Base, [Next]_vars PROVE Base'
  OBVIOUS
<1> USE SettingsFixed DEF Base
<1>1. ASSUME NEW x \in Chat, Arrive(x) PROVE Base'
  <2>1. Domains' /\ CacheShape' /\ Generations'
    BY <1>1, ArriveGives DEF Domains, CacheShape, Generations
  <2>2. Requests'
    BY <1>1, ArriveGives DEF Domains, Requests
  <2>3. LateSessions'
    BY <1>1, ArriveGives DEF Domains, LateSessions
  <2> QED
    BY <2>1, <2>2, <2>3
<1>2. ASSUME NEW x \in Chat, Rewritten(x) PROVE Base'
  <2>1. Domains' /\ CacheShape' /\ Generations'
    BY <1>2, PrepareGives DEF Rewritten, Domains, CacheShape, Generations
  <2>2. Requests'
    BY <1>2, PrepareGives DEF Rewritten, Domains, Requests
  <2>3. LateSessions'
    BY <1>2, PrepareGives DEF Rewritten, Domains, LateSessions
  <2> QED
    BY <2>1, <2>2, <2>3
<1>3. ASSUME NEW x \in Chat, SearchUncached(x) PROVE Base'
  <2>1. Domains' /\ CacheShape' /\ Generations'
    BY <1>3, RetrieveGives DEF SearchUncached, Domains, CacheShape, Generations
  <2>2. Requests' /\ LateSessions'
    BY <1>3, RetrieveGives DEF SearchUncached, Domains, Requests, LateSessions
  <2> QED
    BY <2>1, <2>2
<1>4. ASSUME NEW x \in Chat, Lookup(x) PROVE Base'
  <2>1. Domains'
    BY <1>4, LookupGives DEF Domains
  <2>2. CacheShape'
    BY <1>4, LookupGives DEF CacheShape, Part
  <2>3. Generations'
    <3>1. cache.gen[Here] \in Nat /\ cache'.gen = cache.gen
      BY <1>4, LookupGives, PlaceAssumption DEF CacheShape, Shape, Part
    <3> QED
      BY <1>4, <3>1, LookupGives DEF Domains, Generations
  <2>4. Requests' /\ LateSessions'
    BY <1>4, LookupGives DEF Domains, Requests, LateSessions
  <2> QED
    BY <2>1, <2>2, <2>3, <2>4
<1>5. ASSUME NEW x \in Chat, VerifyYes(x) PROVE Base'
  <2>1. Part(cache, cache')
    BY <1>5, MarkHitPart DEF VerifyYes, CacheShape
  <2>2. CacheShape' /\ Generations'
    BY <1>5, <2>1 DEF VerifyYes, Part, CacheShape, Generations
  <2> QED
    BY <1>5, <2>2 DEF VerifyYes, Goto, Domains, Requests, LateSessions
<1>6. ASSUME NEW x \in Chat, VerifyNo(x) PROVE Base'
  <2>1. Domains' /\ CacheShape' /\ Generations'
    BY <1>6, RetrieveGives DEF VerifyNo, Domains, CacheShape, Generations
  <2>2. Requests' /\ LateSessions'
    BY <1>6, RetrieveGives DEF VerifyNo, Domains, Requests, LateSessions
  <2> QED
    BY <2>1, <2>2
<1>7. ASSUME NEW x \in Chat, FinishStored(x) PROVE Base'
  <2>1. req[x].ns \in Namespace
    BY <1>7 DEF FinishStored, Requests
  <2>2. CacheShape' /\ cache'.gen = cache.gen
    BY <1>7, <2>1, StoreAdds DEF FinishStored, CacheShape
  <2> QED
    BY <1>7, <2>2 DEF FinishStored, Goto, Domains, Requests, Generations, LateSessions
<1>8. ASSUME NEW x \in Chat, Quiet(x) PROVE Base'
  <2>1. CacheShape' /\ Generations'
    BY <1>8, QuietGives DEF shared, CacheShape, Generations
  <2> QED
    BY <1>8, <2>1, QuietGives DEF Domains, Requests, LateSessions
<1>9. ASSUME Background PROVE Base'
  <2>1. cache' = cache \/ (/\ Shape(cache') /\ Live(cache') = {}
                           /\ cache'.gen[Here] = cache.gen[Here] + 1)
    BY <1>9, BackgroundGives
  <2>2. CacheShape'
    BY <2>1 DEF CacheShape
  <2>3. Generations'
    BY <1>9, <2>1, BackgroundGives, PlaceAssumption
       DEF Local, Generations, CacheShape, Shape
  <2> QED
    BY <1>9, <2>2, <2>3, BackgroundGives DEF Local, Domains, Requests, LateSessions
<1>10. ASSUME UNCHANGED vars PROVE Base'
  BY <1>10 DEF vars, Domains, Requests, CacheShape, Generations, LateSessions
<1> QED
  BY <1>1, <1>2, <1>3, <1>4, <1>5, <1>6, <1>7, <1>8, <1>9, <1>10, NextCases

\* Every reachable state has its shape: records are well formed, and sessions that
\* are open see rows that were committed once.
THEOREM BaseHolds == Spec => []Base
BY InitBase, NextBase, PTL DEF Spec

-----------------------------------------------------------------------------
\* One worker: what is cached rests on the rows committed now.

FreshInv == CurrentSessions /\ StoredAnswersFresh

LEMMA InitFresh == Init => FreshInv
BY DEF Init, FreshInv, CurrentSessions, StoredAnswersFresh, EmptyCache, Live

\* Removing entries and changing their order leaves the rest fresh.
LEMMA PartFresh ==
    ASSUME StoredAnswersFresh, Part(cache, cache'), UNCHANGED corpus,
           MultiWorker' = MultiWorker
    PROVE  StoredAnswersFresh'
BY DEF StoredAnswersFresh, Part

LEMMA NextFresh == Base /\ FreshInv /\ [Next]_vars => FreshInv'
<1> SUFFICES ASSUME Base, FreshInv, [Next]_vars, ~MultiWorker PROVE FreshInv'
  BY SettingsFixed DEF FreshInv, CurrentSessions, StoredAnswersFresh
<1> USE SettingsFixed DEF Base, FreshInv
<1>1. ASSUME NEW x \in Chat, Arrive(x) PROVE FreshInv'
  BY <1>1, ArriveGives DEF Domains, CurrentSessions, StoredAnswersFresh
<1>2. ASSUME NEW x \in Chat, Rewritten(x) PROVE FreshInv'
  BY <1>2, PrepareGives DEF Rewritten, Domains, CurrentSessions, StoredAnswersFresh
<1>3. ASSUME NEW x \in Chat, SearchUncached(x) PROVE FreshInv'
  BY <1>3, RetrieveGives DEF SearchUncached, CurrentSessions, StoredAnswersFresh
<1>4. ASSUME NEW x \in Chat, Lookup(x) PROVE FreshInv'
  <2>1. StoredAnswersFresh'
    BY <1>4, LookupGives, PartFresh
  <2>2. view' = [view EXCEPT ![x] = corpus]
    BY <1>4, LookupGives DEF LateSessions, Seen
  <2>3. CurrentSessions'
    BY <1>4, <2>2, LookupGives DEF Domains, CurrentSessions, Part
  <2> QED
    BY <2>1, <2>3
<1>5. ASSUME NEW x \in Chat, VerifyYes(x) PROVE FreshInv'
  <2>1. Part(cache, cache')
    BY <1>5, MarkHitPart DEF VerifyYes, CacheShape
  <2>2. StoredAnswersFresh'
    BY <1>5, <2>1, PartFresh DEF VerifyYes
  <2>3. CurrentSessions'
    BY <1>5, <2>1 DEF VerifyYes, Goto, Part, Domains, CurrentSessions
  <2> QED
    BY <2>2, <2>3
<1>6. ASSUME NEW x \in Chat, VerifyNo(x) PROVE FreshInv'
  <2>1. StoredAnswersFresh'
    BY <1>6 DEF VerifyNo, StoredAnswersFresh
  <2>2. CurrentSessions'
    BY <1>6, RetrieveGives DEF VerifyNo, Seen, Domains, CurrentSessions
  <2> QED
    BY <2>1, <2>2
<1>7. ASSUME NEW x \in Chat, FinishStored(x) PROVE FreshInv'
  <2>1. req[x].ns \in Namespace /\ CacheEnabled /\ pc[x] = "streaming"
    BY <1>7 DEF FinishStored, Requests
  <2>2. AnswerOf(x).basis = corpus
    BY <1>7, <2>1 DEF FinishStored, Unchanged, AnswerOf, CurrentSessions
  <2>3. /\ cache'.gen = cache.gen
        /\ \A k \in Live(cache') :
              \/ cache'.entry[k].answer = AnswerOf(x)
              \/ k \in Live(cache) /\ cache'.entry[k] = cache.entry[k]
    BY <1>7, <2>1, StoreAdds DEF FinishStored, CacheShape
  <2>4. StoredAnswersFresh'
    BY <1>7, <2>2, <2>3 DEF FinishStored, StoredAnswersFresh
  <2>5. CurrentSessions'
    BY <1>7, <2>3 DEF FinishStored, Goto, Domains, CurrentSessions
  <2> QED
    BY <2>4, <2>5
<1>8. ASSUME NEW x \in Chat, Quiet(x) PROVE FreshInv'
  BY <1>8, QuietGives DEF shared, Domains, CurrentSessions, StoredAnswersFresh
<1>9. ASSUME Background PROVE FreshInv'
  <2>1. CASE UNCHANGED <<corpus, cache>>
    BY <1>9, <2>1, BackgroundGives DEF Local, CurrentSessions, StoredAnswersFresh
  <2>2. CASE Live(cache') = {} /\ cache'.gen[Here] = cache.gen[Here] + 1
    <3>1. \A x \in Chat : gen'[x] # cache'.gen[Here]
      BY <1>9, <2>2, BackgroundGives, PlaceAssumption
         DEF Local, Generations, CacheShape, Shape
    <3> QED
      BY <2>2, <3>1 DEF CurrentSessions, StoredAnswersFresh
  <2> QED
    BY <1>9, <2>1, <2>2, BackgroundGives
<1>10. ASSUME UNCHANGED vars PROVE FreshInv'
  BY <1>10 DEF vars, CurrentSessions, StoredAnswersFresh
<1> QED
  BY <1>1, <1>2, <1>3, <1>4, <1>5, <1>6, <1>7, <1>8, <1>9, <1>10, NextCases

\* With one worker, an answer in the cache was written from the rows committed
\* now, however chats and indexing runs interleave.
THEOREM CachedAnswersFresh == Spec => []StoredAnswersFresh
<1>1. FreshInv => StoredAnswersFresh
  BY DEF FreshInv
<1>2. Base /\ FreshInv /\ [Next]_vars => FreshInv'
  BY NextFresh
<1> QED
  BY <1>1, <1>2, InitFresh, BaseHolds, PTL DEF Spec

-----------------------------------------------------------------------------
\* Hits at the threshold.

\* The one step from the lookup to a replay has looked up the cited chunks in
\* rows that are read now.
LEMMA HitStep ==
    Base /\ [Next]_vars =>
        \A x \in Chat : (pc[x] = "embedding" /\ pc'[x] = "replaying") =>
            hit'[x].answer.cited \subseteq Visible(req[x].ns, corpus)
<1> SUFFICES ASSUME Base, [Next]_vars, NEW x \in Chat,
                    pc[x] = "embedding", pc'[x] = "replaying"
             PROVE  hit'[x].answer.cited \subseteq Visible(req[x].ns, corpus)
  OBVIOUS
<1> USE DEF Base
<1>1. ~UNCHANGED vars
  BY DEF vars
<1>2. ~Background
  BY BackgroundGives DEF Local
<1>3. PICK y \in Chat :
         \/ Arrive(y) \/ Rewritten(y) \/ SearchUncached(y) \/ Lookup(y)
         \/ VerifyYes(y) \/ VerifyNo(y) \/ FinishStored(y) \/ Quiet(y)
  BY <1>1, <1>2, NextCases
<1>4. ~Arrive(y)
  BY ArriveGives DEF Domains
<1>5. ~Rewritten(y)
  BY PrepareGives DEF Rewritten, Domains
<1>6. ~SearchUncached(y)
  BY RetrieveGives DEF SearchUncached, Domains
<1>7. ~VerifyYes(y) /\ ~FinishStored(y)
  BY DEF VerifyYes, FinishStored, Goto, Domains
<1>8. ~VerifyNo(y)
  BY RetrieveGives DEF VerifyNo, Domains
<1>9. ~Quiet(y)
  BY QuietGives DEF Domains
<1>10. y = x /\ LookupHit(x)
  <2>1. Lookup(y)
    BY <1>3, <1>4, <1>5, <1>6, <1>7, <1>8, <1>9
  <2>2. y = x
    BY <2>1, LookupGives DEF Domains
  <2>3. ~LookupMiss(x) /\ ~LookupDenied(x) /\ ~LookupOverBudget(x)
    BY RetrieveGives DEF LookupMiss, LookupDenied, LookupOverBudget, Domains
  <2>4. ~LookupCandidate(x)
    BY DEF LookupCandidate, Goto, Domains
  <2> QED
    BY <2>1, <2>2, <2>3, <2>4 DEF Lookup
<1>11. Seen(x) = corpus
  BY <1>10 DEF LookupHit, LateSessions, Seen
<1>12. FoundAnswer(x).cited \subseteq Visible(req[x].ns, corpus)
  BY <1>10, <1>11 DEF LookupHit, AccessOk
<1> QED
  BY <1>10, <1>12 DEF LookupHit, Domains

\* A hit at the threshold cites only chunks that exist and that the request may
\* see, whatever other workers index.
THEOREM HitsAreRevalidated == Spec => HitsRevalidated
BY BaseHolds, HitStep, PTL DEF Spec, HitsRevalidated

-----------------------------------------------------------------------------
\* Where the BM25 index cannot be outdated.

NeverVerifying == ~VerifyEnabled => \A x \in Chat : pc[x] # "verifying"

\* No session begins before the question is final.
EarlySessions == \A x \in Chat : pc[x] \in {"new", "rewriting"} => view[x] = NoView

SearchInv == NeverVerifying /\ EarlySessions

LEMMA NoCandidate ==
    ASSUME NEW x \in Chat, LookupCandidate(x)
    PROVE  VerifyEnabled
BY DEF LookupCandidate, FoundKey, Found, IsHit, LookupFloor

LEMMA InitSearch == Init => SearchInv /\ Bm25Current
BY DEF Init, SearchInv, NeverVerifying, EarlySessions, Bm25Current

LEMMA NextSearch == Base /\ SearchInv /\ [Next]_vars => SearchInv'
<1> SUFFICES ASSUME Base, SearchInv, [Next]_vars PROVE SearchInv'
  OBVIOUS
<1> USE SettingsFixed DEF Base, SearchInv
<1>1. ASSUME NEW x \in Chat, Arrive(x) PROVE SearchInv'
  <2>1. view' = view \/ pc' = [pc EXCEPT ![x] = "embedding"]
    BY <1>1, PrepareGives DEF Arrive
  <2>2. \A y \in Chat : y # x => view'[y] = view[y]
    BY <1>1 DEF Arrive, Prepare, Domains
  <2> QED
    BY <1>1, <2>1, <2>2, ArriveGives DEF Domains, NeverVerifying, EarlySessions
<1>2. ASSUME NEW x \in Chat, Rewritten(x) PROVE SearchInv'
  <2>1. \A y \in Chat : y # x => view'[y] = view[y]
    BY <1>2 DEF Rewritten, Prepare, Domains
  <2> QED
    BY <1>2, <2>1, PrepareGives DEF Rewritten, Domains, NeverVerifying, EarlySessions
<1>3. ASSUME NEW x \in Chat, SearchUncached(x) \/ VerifyNo(x) PROVE SearchInv'
  BY <1>3, RetrieveGives
     DEF SearchUncached, VerifyNo, Domains, NeverVerifying, EarlySessions
<1>4. ASSUME NEW x \in Chat, Lookup(x) PROVE SearchInv'
  <2>1. EarlySessions'
    BY <1>4, LookupGives DEF Domains, EarlySessions
  <2>2. VerifyEnabled \/ pc'[x] # "verifying"
    <3>1. CASE LookupCandidate(x)
      BY <3>1, NoCandidate
    <3>2. CASE LookupHit(x)
      BY <3>2 DEF LookupHit, Goto, Domains
    <3>3. CASE LookupMiss(x) \/ LookupDenied(x) \/ LookupOverBudget(x)
      BY <3>3, RetrieveGives DEF LookupMiss, LookupDenied, LookupOverBudget, Domains
    <3> QED
      BY <1>4, <3>1, <3>2, <3>3 DEF Lookup
  <2>3. NeverVerifying'
    BY <1>4, <2>2, LookupGives DEF Domains, NeverVerifying
  <2> QED
    BY <2>1, <2>3
<1>5. ASSUME NEW x \in Chat, VerifyYes(x) \/ FinishStored(x) PROVE SearchInv'
  BY <1>5 DEF VerifyYes, FinishStored, Goto, Domains, NeverVerifying, EarlySessions
<1>6. ASSUME NEW x \in Chat, Quiet(x) PROVE SearchInv'
  BY <1>6, QuietGives DEF Domains, NeverVerifying, EarlySessions
<1>7. ASSUME Background \/ UNCHANGED vars PROVE SearchInv'
  BY <1>7, BackgroundGives DEF Local, vars, NeverVerifying, EarlySessions
<1> QED
  BY <1>1, <1>2, <1>3, <1>4, <1>5, <1>6, <1>7, NextCases

LEMMA NextCurrent == Base /\ SearchInv /\ Bm25Current /\ [Next]_vars => Bm25Current'
<1> SUFFICES ASSUME Base, SearchInv, Bm25Current, [Next]_vars, NoOldBuilds
             PROVE  Bm25Current'
  BY SettingsFixed DEF Bm25Current, NoOldBuilds
<1> USE DEF Base, SearchInv
<1>1. ASSUME NEW x \in Chat, Seen(x) = corpus, UNCHANGED corpus,
             bm25' = bm25 \/ bm25' = IndexFor(x)
      PROVE  Bm25Current'
  BY <1>1 DEF Bm25Current, IndexFor
<1>2. ASSUME NEW x \in Chat, Prepare(x), view[x] = NoView, UNCHANGED corpus
      PROVE  Bm25Current'
  BY <1>1, <1>2 DEF Prepare, Seen
<1>3. ASSUME NEW x \in Chat, Arrive(x) PROVE Bm25Current'
  BY <1>2, <1>3 DEF Arrive, EarlySessions, Bm25Current
<1>4. ASSUME NEW x \in Chat, Rewritten(x) PROVE Bm25Current'
  BY <1>2, <1>4 DEF Rewritten, EarlySessions
<1>5. ASSUME NEW x \in Chat, SearchUncached(x) PROVE Bm25Current'
  <2>1. bm25' = bm25
    BY <1>5 DEF SearchUncached, Retrieve, NoOldBuilds
  <2> QED
    BY <1>5, <2>1 DEF SearchUncached, Bm25Current
<1>6. ASSUME NEW x \in Chat, Lookup(x) PROVE Bm25Current'
  <2>1. Seen(x) = corpus
    BY <1>6, LookupGives DEF LateSessions, Seen
  <2> QED
    BY <1>1, <1>6, <2>1, LookupGives
<1>7. ASSUME NEW x \in Chat, VerifyYes(x) \/ FinishStored(x) PROVE Bm25Current'
  BY <1>7 DEF VerifyYes, FinishStored, Bm25Current
<1>8. ASSUME NEW x \in Chat, VerifyNo(x) PROVE Bm25Current'
  <2>1. ~CacheEnabled /\ Restricted = {}
    BY <1>8 DEF VerifyNo, NeverVerifying, NoOldBuilds
  <2>2. bm25' = bm25
    BY <1>8, <2>1 DEF VerifyNo, Retrieve
  <2> QED
    BY <1>8, <2>2 DEF VerifyNo, Bm25Current
<1>9. ASSUME NEW x \in Chat, Quiet(x) PROVE Bm25Current'
  BY <1>9, QuietGives DEF shared, Bm25Current
<1>10. ASSUME Background PROVE Bm25Current'
  BY <1>10 DEF Background, Ingest, IngestFails, Dropped, ForeignIngest,
               IndexExpires, Tick, NextDay, shared, Bm25Current, NoOldBuilds
<1>11. ASSUME UNCHANGED vars PROVE Bm25Current'
  BY <1>11 DEF vars, Bm25Current
<1> QED
  BY <1>3, <1>4, <1>5, <1>6, <1>7, <1>8, <1>9, <1>10, <1>11, NextCases

\* With one worker, and either the cache without verification or neither cache
\* nor restricted access, no chat searches a BM25 index older than the rows.
THEOREM IndexIsCurrent == Spec => []Bm25Current
<1>1. Base /\ SearchInv /\ Bm25Current /\ [Next]_vars => Bm25Current'
  BY NextCurrent
<1> QED
  BY <1>1, InitSearch, NextSearch, BaseHolds, PTL DEF Spec

\* The one step to the grounding verdict, without verification, is a retrieval
\* in rows that are read now.
LEMMA RetrievalStep ==
    Base /\ SearchInv /\ [Next]_vars /\ CacheEnabled /\ ~VerifyEnabled =>
        \A x \in Chat : (pc[x] # "judging" /\ pc'[x] = "judging") =>
            used'[x].versions = Visible(req[x].ns, corpus)
<1> SUFFICES ASSUME Base, SearchInv, [Next]_vars, CacheEnabled, ~VerifyEnabled,
                    NEW x \in Chat, pc[x] # "judging", pc'[x] = "judging"
             PROVE  used'[x].versions = Visible(req[x].ns, corpus)
  OBVIOUS
<1> USE DEF Base, SearchInv
<1>1. ~UNCHANGED vars /\ ~Background
  BY BackgroundGives DEF vars, Local
<1>2. PICK y \in Chat :
         \/ Arrive(y) \/ Rewritten(y) \/ SearchUncached(y) \/ Lookup(y)
         \/ VerifyYes(y) \/ VerifyNo(y) \/ FinishStored(y) \/ Quiet(y)
  BY <1>1, NextCases
<1>3. ~Arrive(y) /\ ~Rewritten(y)
  BY ArriveGives, PrepareGives DEF Rewritten, Domains
<1>4. ~SearchUncached(y) /\ ~VerifyNo(y)
  BY DEF SearchUncached, VerifyNo, NeverVerifying
<1>5. ~VerifyYes(y) /\ ~FinishStored(y)
  BY DEF VerifyYes, FinishStored, Goto, Domains
<1>6. ~Quiet(y)
  BY QuietGives DEF Domains
<1>7. Lookup(y) /\ y = x
  BY <1>2, <1>3, <1>4, <1>5, <1>6, LookupGives DEF Domains
<1>8. Retrieve(x)
  <2>1. ~LookupHit(x) /\ ~LookupCandidate(x)
    BY DEF LookupHit, LookupCandidate, Goto, Domains
  <2> QED
    BY <1>7, <2>1 DEF Lookup, LookupMiss, LookupDenied, LookupOverBudget
<1>9. Seen(x) = corpus
  BY <1>7, LookupGives DEF LateSessions, Seen
<1>10. PICK R : used'[x].versions = Visible(req[x].ns, Seen(x) \cap (corpus \cup R))
  <2> DEFINE found(R) == Visible(req[x].ns, Seen(x) \cap (corpus \cup R))
  <2>1. \E R : used' = [used EXCEPT ![x] =
                   [versions |-> found(R), near |-> found(R) \cap corpus # {}]]
    BY <1>8 DEF Retrieve
  <2> HIDE DEF found
  <2>2. \E R : used'[x].versions = found(R)
    BY <2>1 DEF Domains
  <2> QED
    BY <2>2 DEF found
<1>11. corpus \cap (corpus \cup R) = corpus
  OBVIOUS
<1> QED
  BY <1>9, <1>10, <1>11

\* With the cache and without verification a chat that retrieves misses nothing
\* that is committed and visible at that moment.
THEOREM RetrievesAll == Spec => RetrievalComplete
<1> QED
  BY RetrievalStep, InitSearch, NextSearch, BaseHolds, PTL DEF Spec, RetrievalComplete

-----------------------------------------------------------------------------
\* The budget of verification calls.

\* The counter counts the calls of its day; later days have none yet, and every
\* earlier day stayed within the limit.
BudgetInv ==
    /\ day \in 0..MaxDay /\ DailyLimit \in Nat
    /\ calls \in [0..MaxDay -> Nat]
    /\ budget.date \in Int /\ budget.count \in Nat
    /\ budget.date <= day
    /\ DailyLimit > 0 =>
         /\ \A d \in 0..MaxDay : d > budget.date => calls[d] = 0
         /\ budget.date >= 0 => calls[budget.date] = budget.count
         /\ \A d \in 0..MaxDay : calls[d] <= DailyLimit

LEMMA InitBudget == Init => BudgetInv
BY BoundAssumption, SettingsAssumption DEF Init, BudgetInv, DailyLimit

LEMMA NextBudget == BudgetInv /\ [Next]_vars => BudgetInv'
<1> SUFFICES ASSUME BudgetInv, [Next]_vars PROVE BudgetInv'
  OBVIOUS
<1> USE SettingsFixed
<1>1. ASSUME UNCHANGED <<day, spent>> PROVE BudgetInv'
  BY <1>1 DEF spent, BudgetInv
<1>2. ASSUME NEW x \in Chat, LookupCandidate(x) PROVE BudgetInv'
  <2>1. /\ MayVerify /\ day' = day
        /\ budget' = IF DailyLimit = 0 THEN budget
                     ELSE [date |-> day, count |-> Spent(day) + 1]
        /\ calls' = [calls EXCEPT ![day] = @ + 1]
    BY <1>2 DEF LookupCandidate, time
  <2>2. calls' \in [0..MaxDay -> Nat] /\ calls'[day] = calls[day] + 1
    BY <2>1 DEF BudgetInv
  <2>3. CASE DailyLimit = 0
    BY <2>1, <2>2, <2>3 DEF BudgetInv
  <2>4. CASE DailyLimit # 0
    <3>1. calls[day] = Spent(day) /\ Spent(day) \in Nat /\ Spent(day) < DailyLimit
      BY <2>1, <2>4 DEF BudgetInv, Spent, MayVerify
    <3>2. budget'.date = day /\ budget'.count = calls'[day]
      BY <2>1, <2>2, <2>4, <3>1
    <3>3. \A d \in 0..MaxDay : calls'[d] <= DailyLimit
      BY <2>1, <2>2, <2>4, <3>1 DEF BudgetInv
    <3>4. \A d \in 0..MaxDay : d > day => calls'[d] = 0
      BY <2>1, <2>4 DEF BudgetInv
    <3> QED
      BY <2>1, <2>2, <3>1, <3>2, <3>3, <3>4 DEF BudgetInv
  <2> QED
    BY <2>3, <2>4
<1>3. ASSUME NextDay PROVE BudgetInv'
  BY <1>3, BoundAssumption DEF NextDay, spent, BudgetInv
<1>4. ASSUME Background, ~NextDay PROVE UNCHANGED <<day, spent>>
  BY <1>4 DEF Background, Ingest, IngestFails, ForeignIngest, IndexExpires, Tick, time
<1>5. ASSUME NEW x \in Chat, Lookup(x), ~LookupCandidate(x) PROVE UNCHANGED <<day, spent>>
  BY <1>5 DEF Lookup, LookupMiss, LookupDenied, LookupHit, LookupOverBudget, time
<1>6. ASSUME NEW x \in Chat,
             \/ Arrive(x) \/ Rewritten(x) \/ SearchUncached(x)
             \/ VerifyYes(x) \/ VerifyNo(x) \/ FinishStored(x) \/ Quiet(x)
      PROVE  UNCHANGED <<day, spent>>
  BY <1>6, QuietGives DEF Arrive, Rewritten, SearchUncached, VerifyYes, VerifyNo,
                          FinishStored, time
<1> QED
  BY <1>1, <1>2, <1>3, <1>4, <1>5, <1>6, NextCases DEF vars, spent

\* The verification calls of no day exceed the limit.
THEOREM BudgetHolds == Spec => []WithinDailyLimit
<1>1. BudgetInv => WithinDailyLimit
  BY DEF BudgetInv, WithinDailyLimit
<1> QED
  BY <1>1, InitBudget, NextBudget, PTL DEF Spec
=============================================================================

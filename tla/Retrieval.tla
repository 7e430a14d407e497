------------------------------ MODULE Retrieval ------------------------------
(***************************************************************************)
(* What one question retrieves: the hybrid search with access control of   *)
(* core/rag/retriever.py, the LLM reranking of core/rag/reranker.py and    *)
(* the verdict of core/rag/grounding.py, in the order chat_pipeline.run    *)
(* calls them.  What other tasks do meanwhile is the matter of             *)
(* ChatPipeline; here the rankings of one question are arbitrary and fixed.*)
(***************************************************************************)
EXTENDS Integers, Sequences, FiniteSets, FiniteSetsExt, SequencesExt

CONSTANTS
    Chunk,            \* chunk ids
    VectorRankings,   \* what Chroma may answer: chunk ids, the nearest first
    KeywordRankings,  \* what BM25 may answer: chunk ids with a positive score
    Settings,         \* bm25_enabled and rerank_enabled, as they may be set
    Candidates,       \* rerank_candidates
    FinalTopK,        \* _FINAL_TOP_K
    OverfetchFactor,  \* _OVERFETCH_FACTOR
    MaxFactor,        \* _OVERFETCH_MAX_FACTOR
    MaxRefetch,       \* _ACL_MAX_REFETCH
    RrfK,             \* _RRF_K
    Answers           \* the rankings the model may answer, numbers from 1 on

\* A ranking names a chunk once; the reranking model may name one more often.
ASSUME RankingAssumption ==
    /\ VectorRankings \cup KeywordRankings \subseteq Seq(Chunk)
    /\ \A s \in VectorRankings \cup KeywordRankings :
          \A i, j \in DOMAIN s : s[i] = s[j] => i = j
    /\ Answers \subseteq Seq(Int)
ASSUME SizeAssumption ==
    /\ {Candidates, FinalTopK, OverfetchFactor, MaxFactor, MaxRefetch, RrfK} \subseteq Nat \ {0}
    /\ OverfetchFactor <= MaxFactor
ASSUME SettingsAssumption == Settings \subseteq [bm25 : BOOLEAN, rerank : BOOLEAN]

VARIABLES
    settings,    \* get_settings()
    vec, bm,     \* the rankings; Chroma may hold orphans, an index old rows
    near,        \* how many of vec reach grounding_similarity_threshold
    rows,        \* the rows of document_chunks
    allowed,     \* the rows in the access scope of the request
    restricted,  \* access is not is_unrestricted
    pc,
    factor,      \* overfetch factor of the current page
    refetches,   \* refetch_count
    chunks,      \* the retrieved, then the reranked chunks
    stage,       \* RerankResult.stage
    reply        \* what the judging model has answered, "none" before

input == <<settings, vec, bm, near, rows, allowed, restricted>>
vars == <<settings, vec, bm, near, rows, allowed, restricted, pc, factor, refetches, chunks, stage,
          reply>>

Bm25Enabled == settings.bm25
RerankEnabled == settings.rerank

\* top_k of the search: the reranker's candidates, or what the answer uses.
TopK == IF RerankEnabled THEN Candidates ELSE FinalTopK

Before == {"searching", "reranking", "judging"}
Verdicts == {"groundable", "not_groundable"}

\* Replies of the judge: an object with both keys, an error, no JSON or a key that
\* is missing, and JSON that is no object or has no number for a confidence.
Replies == {"yes", "no", "failed", "unparsable", "malformed"}

TypeOK ==
    /\ settings \in Settings
    /\ vec \in VectorRankings /\ bm \in KeywordRankings \cup {<<>>}
    /\ near \in 0..Len(vec)
    /\ allowed \subseteq rows /\ rows \subseteq Chunk
    /\ restricted \in BOOLEAN
    /\ pc \in Before \cup Verdicts \cup {"raised"}
    /\ factor \in OverfetchFactor..MaxFactor /\ refetches \in 0..MaxRefetch
    /\ chunks \in Seq(Chunk) /\ Cardinality(ToSet(chunks)) = Len(chunks)
    /\ stage \in {"none", "disabled", "skipped_few", "fallback", "applied"}
    /\ reply \in Replies \cup {"none"}

Init ==
    /\ settings \in Settings
    /\ vec \in VectorRankings
    /\ bm \in IF Bm25Enabled THEN KeywordRankings ELSE {<<>>}
    /\ near \in 0..Len(vec)
    /\ rows \in SUBSET Chunk
    /\ restricted \in BOOLEAN
    /\ allowed \in IF restricted THEN SUBSET rows ELSE {rows}
    /\ pc = "searching"
    /\ factor = OverfetchFactor
    /\ refetches = 0
    /\ chunks = <<>>
    /\ stage = "none" /\ reply = "none"

-----------------------------------------------------------------------------
\* The pages of the two searches, and their merging.

First(s, n) == SubSeq(s, 1, Min({n, Len(s)}))

\* The members of S in the order of the pairs in before: the k-th has k - 1 before
\* it.  (A relation instead of the operator SetToSortSeq takes can be reasoned about.)
InOrder(S, before) ==
    [k \in 1..Cardinality(S) |->
        CHOOSE x \in S : Cardinality({y \in S : <<y, x>> \in before}) = k - 1]
Less(S) == {p \in S \X S : p[1] < p[2]}

\* The elements of s at the positions in I, in their order.
At(s, I) == LET at == InOrder(I, Less(I)) IN [k \in 1..Cardinality(I) |-> s[at[k]]]
Keep(s, S) == At(s, {i \in DOMAIN s : s[i] \in S})

\* The page of each search; without BM25 an unrestricted search takes top_k.
FetchK == IF Bm25Enabled \/ restricted THEN TopK * factor ELSE TopK

VectorPage == First(vec, FetchK)
KeywordPage == First(bm, FetchK)

\* Variant: keyword hits are not filtered.
FilteredVectorsOnly(page) == IF page = KeywordPage THEN page ELSE Keep(page, allowed)

\* _allowed_chunk_ids, before the merge and only for restricted access.
Filtered(page) == IF restricted THEN Keep(page, allowed) ELSE page

\* The RRF score of c as a fraction.  A vector hit counts with its rank among the
\* hits left by the filter, a keyword hit with its rank in the whole page.
Rrf(c, vs, ks) ==
    LET i == RrfK + CHOOSE i \in DOMAIN vs : vs[i] = c
        j == RrfK + CHOOSE j \in DOMAIN ks : ks[j] = c
    IN IF c \notin ToSet(ks) THEN <<1, i>>
       ELSE IF c \notin ToSet(vs) THEN <<1, j>>
       ELSE <<i + j, i * j>>

\* Variant: the lowest score first.
GreaterReversed(p, q) == p[1] * q[2] < q[1] * p[2]

Greater(p, q) == p[1] * q[2] > q[1] * p[2]

\* Order of insertion into rrf_scores: vector hits, then keyword hits.
Inserted(vs, ks) == vs \o Keep(ks, ToSet(ks) \ ToSet(vs))

\* _rrf_merge: sorted() keeps the order of insertion among equal scores.
RrfMerge(vs, ks, hits) ==
    LET s == Inserted(vs, hits)
        score(m) == Rrf(s[m], vs, ks)
        ahead == {p \in (DOMAIN s) \X (DOMAIN s) :
                     \/ Greater(score(p[1]), score(p[2]))
                     \/ ~Greater(score(p[2]), score(p[1])) /\ p[1] < p[2]}
        order == InOrder(DOMAIN s, ahead)
    IN [k \in DOMAIN s |-> s[order[k]]]

Merged == First(RrfMerge(Filtered(VectorPage), KeywordPage, Filtered(KeywordPage)), TopK)

\* _vector_only_retrieve: the order of the vectors.
Nearest == First(Filtered(VectorPage), TopK)

Results == IF Bm25Enabled THEN Merged ELSE Nearest

-----------------------------------------------------------------------------
\* retrieve.

\* Variant: only the vector search is asked.
PageFullVectors == Len(VectorPage) >= FetchK

\* candidates_full: a search may have more than its page.
PageFull == Len(VectorPage) >= FetchK \/ Len(KeywordPage) >= FetchK

NextFactor == Min({factor * 2, MaxFactor})

\* The filter left too little and there may be more: larger pages, once.
MustRefetch ==
    /\ restricted
    /\ Len(Results) < TopK
    /\ PageFull
    /\ refetches < MaxRefetch
    /\ NextFactor > factor

Refetch ==
    /\ pc = "searching" /\ MustRefetch
    /\ refetches' = refetches + 1
    /\ factor' = NextFactor
    /\ UNCHANGED <<input, pc, chunks, stage, reply>>

\* _build_retrieved_chunks: hits without a row are dropped.
WithRow(s) == Keep(s, rows)

Retrieve ==
    /\ pc = "searching" /\ Bm25Enabled /\ ~MustRefetch
    /\ chunks' = WithRow(Merged)
    /\ pc' = "reranking"
    /\ UNCHANGED <<input, factor, refetches, stage, reply>>

\* The path without BM25 drops hits without a row by itself.
RetrieveByVectors ==
    /\ pc = "searching" /\ ~Bm25Enabled /\ ~MustRefetch
    /\ chunks' = WithRow(Nearest)
    /\ pc' = "reranking"
    /\ UNCHANGED <<input, factor, refetches, stage, reply>>

-----------------------------------------------------------------------------
\* rerank and assess.

\* The model's order is filled up with candidates it left out, in their order.
Filled(order, n) ==
    LET rest == (1..n) \ ToSet(order) IN order \o InOrder(rest, Less(rest))

\* Numbers of candidates, each where the model first names it.
Valid(answer, n) ==
    At(answer, {k \in DOMAIN answer :
                  /\ answer[k] \in 1..n
                  /\ \A m \in 1..(k - 1) : answer[m] # answer[k]})

\* parse_ranking
ParseRanking(answer, n) == First(Filled(Valid(answer, n), n), FinalTopK)

Rerank ==
    /\ pc = "reranking"
    /\ \/ /\ ~RerankEnabled
          /\ chunks' = First(chunks, FinalTopK) /\ stage' = "disabled"
       \/ /\ RerankEnabled /\ Len(chunks) <= FinalTopK
          /\ chunks' = First(chunks, FinalTopK) /\ stage' = "skipped_few"
       \/ /\ RerankEnabled /\ Len(chunks) > FinalTopK
          /\ \/ chunks' = First(chunks, FinalTopK) /\ stage' = "fallback"
             \/ \E answer \in Answers :
                  /\ Valid(answer, Len(chunks)) # <<>>
                  /\ chunks' = LET order == ParseRanking(answer, Len(chunks))
                               IN [k \in DOMAIN order |-> chunks[order[k]]]
                  /\ stage' = "applied"
    /\ pc' = "judging"
    /\ UNCHANGED <<input, factor, refetches, reply>>

\* similarity_score: a hit of BM25 alone has 0, below any threshold.
Near(c) == \E i \in 1..near : vec[i] = c /\ i <= Len(VectorPage)

\* assess, the first filter: too far from the question, or nothing found.  The
\* model is not asked.
TooFar ==
    /\ pc = "judging"
    /\ \A c \in ToSet(chunks) : ~Near(c)
    /\ pc' = "not_groundable"
    /\ UNCHANGED <<input, factor, refetches, chunks, stage, reply>>

\* A failed call and a reply that cannot be read count as a yes; what is read as
\* JSON and is no such object raises outside the try.
Verdict(r) ==
    CASE r = "no" -> "not_groundable"
      [] r = "malformed" -> "raised"
      [] OTHER -> "groundable"

\* assess, the second stage: the model decides.
Judge ==
    /\ pc = "judging"
    /\ \E c \in ToSet(chunks) : Near(c)
    /\ \E r \in Replies : reply' = r /\ pc' = Verdict(r)
    /\ UNCHANGED <<input, factor, refetches, chunks, stage>>

Next == Refetch \/ Retrieve \/ RetrieveByVectors \/ Rerank \/ TooFar \/ Judge

Spec == Init /\ [][Next]_vars

-----------------------------------------------------------------------------
\* Properties.

\* Nothing outside the access scope, and nothing without a row, is used for an
\* answer, whichever search found it and in whatever order the model put it.
OnlyAllowed ==
    \A c \in ToSet(chunks) : c \in rows /\ (restricted => c \in allowed)

Retrieved == pc = "reranking"

\* A restricted question goes short only when it has everything: every chunk it
\* may see that either ranking has within the refetched page.
ShortMeansExhausted ==
    (Retrieved /\ restricted /\ Len(chunks) < TopK) =>
        LET page == TopK * Min({OverfetchFactor * 2, MaxFactor})
        IN (ToSet(First(vec, page)) \cup ToSet(First(bm, page))) \cap allowed
               \subseteq ToSet(chunks)

Ahead(s, c, d) == \E i, j \in DOMAIN s : i < j /\ s[i] = c /\ s[j] = d

\* A chunk both searches rank before another is never left behind it.
BothRankingsRespected ==
    Retrieved =>
        \A c, d \in ToSet(VectorPage) \cap ToSet(KeywordPage) :
            (/\ Ahead(vec, c, d) /\ Ahead(bm, c, d)
             /\ c \in rows /\ (restricted => c \in allowed)
             /\ d \in ToSet(chunks)) => Ahead(chunks, c, d)
=============================================================================

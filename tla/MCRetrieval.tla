---------------------------- MODULE MCRetrieval ----------------------------
(***************************************************************************)
(* Small instances of GroundingEval.  Chunk ids are numbers; as their      *)
(* names mean nothing, Chroma may be taken to rank them 1, 2, ...          *)
(***************************************************************************)
EXTENDS GroundingEval

MCVectorRankings == {[i \in 1..n |-> i] : n \in 0..Cardinality(Chunk)}

Injective(s) == \A i, j \in DOMAIN s : i # j => s[i] # s[j]
MCKeywordRankings ==
    {s \in UNION {[1..n -> Chunk] : n \in 0..Cardinality(Chunk)} : Injective(s)}

\* Hybrid search, hybrid search with reranking, vectors alone.
MCSettings == {[bm25 |-> TRUE, rerank |-> FALSE], [bm25 |-> TRUE, rerank |-> TRUE],
               [bm25 |-> FALSE, rerank |-> FALSE]}

\* 0 and 9 name no candidate.
MCAnswers == UNION {[1..n -> {0, 1, 2, 3, 9}] : n \in 1..3}
=============================================================================

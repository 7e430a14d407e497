---------------------------- MODULE GroundingEval ----------------------------
(***************************************************************************)
(* The offline evaluation of the verdict                                   *)
(* (scripts/eval/grounding_eval.py) next to the verdict itself: for a      *)
(* question and a reply of the judge, what the evaluation counts and what  *)
(* a chat does.  The evaluation searches with top_k = 5, without access    *)
(* control and without reranking, and asks the judge whatever the          *)
(* similarity is, so that every threshold can be tried on the records.     *)
(***************************************************************************)
EXTENDS Retrieval

\* retriever.retrieve(question, workspace_id, db, top_k=5).
CollectedChunks ==
    LET k == FinalTopK * OverfetchFactor
    IN WithRow(First(IF Bm25Enabled
                     THEN RrfMerge(First(vec, k), First(bm, k), First(bm, k))
                     ELSE First(vec, FinalTopK), FinalTopK))

\* max(similarity_score) reaches the threshold.
TopSimilar ==
    \E c \in ToSet(CollectedChunks) :
        \E i \in 1..near : vec[i] = c /\ i <= FinalTopK * OverfetchFactor

\* The record of a case for a reply of the judge; a malformed one ends the
\* collection.
Record(r) ==
    [similar |-> TopSimilar,
     fallback |-> r \in {"failed", "unparsable"},
     groundable |-> r = "yes"]

\* Variant: the fallback is not counted as a yes.
EffectiveAsRecorded(record) == record.groundable

\* _effective_llm_groundable
EffectiveLlmGroundable(record) == record.fallback \/ record.groundable

\* _final_decision
FinalDecision(record) == record.similar /\ EffectiveLlmGroundable(record)

\* What the evaluation counts for a question is what a chat decides about it with
\* the same reply of the judge, as long as the chat does not rerank and its access
\* is not restricted; a question the evaluation counts as refused whatever the
\* judge says is refused without a call.
EvalTellsVerdict ==
    (~restricted /\ ~RerankEnabled /\ pc \in Verdicts) =>
        \A r \in Replies \ {"malformed"} :
            (reply \in {r, "none"}) => (pc = "groundable" <=> FinalDecision(Record(r)))
=============================================================================

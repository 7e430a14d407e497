------------------------------ MODULE CacheEval ------------------------------
(***************************************************************************)
(* The offline evaluation of the cache (scripts/eval/cache_eval.py and     *)
(* cache_eval_metrics.py): pairs of questions, labelled as meaning the     *)
(* same or not, are counted at every threshold of a sweep, and one         *)
(* threshold is recommended for semantic_cache_threshold.  The evaluation  *)
(* knows pairs; a cache holds many questions at once.                      *)
(***************************************************************************)
EXTENDS SemanticCache

CONSTANTS
    SweepThresholds,  \* SWEEP_THRESHOLDS, scaled as the similarities are
    Labellings        \* what the pairs may mean: functions from pairs to BOOLEAN

ASSUME SweepAssumption == SweepThresholds \subseteq Int
ASSUME LabelAssumption == \A same \in Labellings : DOMAIN same \subseteq Query \X Query

\* Variant: a pair at the threshold is no hit.
HitAbove(pair, t) == Similarity[pair] > t

\* similarity >= threshold
Hit(pair, t) == Similarity[pair] >= t

\* sweep: the pairs of a labelling that hit, of either kind.
SameHits(same, t) == {p \in DOMAIN same : same[p] /\ Hit(p, t)}
FalseHits(same, t) == {p \in DOMAIN same : ~same[p] /\ Hit(p, t)}

\* Both kinds occur; without one of them a rate is None.
HasRates(same) == {same[p] : p \in DOMAIN same} = BOOLEAN

\* The rows with a false_hit_rate of at most 0.
Eligible(same) ==
    IF HasRates(same) THEN {t \in SweepThresholds : FalseHits(same, t) = {}} ELSE {}

\* recommend_threshold, strict: the highest hit rate, the lowest of equal ones, or
\* none.
Recommended(same) ==
    {t \in Eligible(same) :
        \A u \in Eligible(same) :
            LET m == Cardinality(SameHits(same, t))
                n == Cardinality(SameHits(same, u))
            IN m > n \/ (m = n /\ t <= u)}

Recommendation == [same \in Labellings |-> Recommended(same)]

-----------------------------------------------------------------------------
\* Properties.

\* The strict recommendation keeps its promise in a cache that is in use: whatever
\* was stored, evicted and expired before, a lookup at the recommended threshold
\* finds only an answer to a question of the same meaning, and it finds one
\* whenever the evaluation has counted a hit with a question that is still cached.
RecommendationHolds ==
    \A same \in Labellings : \A t \in Recommendation[same] :
        \A ns \in Namespace, q \in Query :
            LET c == Scanned(cache, ns, clock)
                k == Found(c, ns, q, t)
                cached == {c.entry[j].query : j \in {i \in Live(c) : c.entry[i].ns = ns}}
            IN \A old \in cached : <<q, old>> \in DOMAIN same =>
                   /\ <<q, old>> \in SameHits(same, t) => k # NoKey
                   /\ (k # NoKey /\ c.entry[k].query = old) => same[<<q, old>>]
=============================================================================

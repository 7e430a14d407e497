--------------------------- MODULE MCChatPipeline ---------------------------
(***************************************************************************)
(* Instances of ChatPipeline for TLC: one workspace; the similarity of two *)
(* questions is enough for a verification and too low for a hit.           *)
(***************************************************************************)
EXTENDS ChatPipeline, TLC

CONSTANTS w1, n1, n2, q1, q2

InHere == [ns \in Namespace |-> Here]
MCSimilarity == [p \in Query \X Query |-> IF p[1] = p[2] THEN 2 ELSE 1]
Symmetry == Permutations(Chat)

\* Cache, verification, one verification call a day.
Verifying == [cache |-> TRUE, verify |-> TRUE, bm25 |-> TRUE, workers |-> FALSE,
              limit |-> 1]
Plain == [Verifying EXCEPT !.verify = FALSE]
Uncached == [Verifying EXCEPT !.cache = FALSE]

VerifyingSettings == {Verifying}
\* The cache without verification, no cache, and a second worker.
FeatureSettings == {Plain, Uncached, [Plain EXCEPT !.workers = TRUE]}
=============================================================================

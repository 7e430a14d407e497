--------------------------- MODULE MCSemanticCache --------------------------
(***************************************************************************)
(* Instances of SemanticCache for TLC: two questions that are close enough *)
(* for verification, and far enough not to be an immediate hit.            *)
(***************************************************************************)
EXTENDS CacheEval, TLC

CONSTANTS w1, w2, n1, n2, n3, q1, q2

\* Two namespaces share a workspace, a third has one of its own.
TwoWorkspaces == (n1 :> w1) @@ (n2 :> w1) @@ (n3 :> w2)

\* The questions are interchangeable, and so are the two shared namespaces.
Symmetry == Permutations({n1, n2}) \cup Permutations(Query)

MCSimilarity == [p \in Query \X Query |-> IF p[1] = p[2] THEN 2 ELSE 1]

\* Every way to label the pairs, those of a question with itself included.
AllLabellings == [Query \X Query -> BOOLEAN]
=============================================================================

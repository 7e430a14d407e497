--------------------------- MODULE MCGitIngestion ---------------------------
(***************************************************************************)
(* Instances of GitIngestion for TLC: overlapping batches of two commits,  *)
(* among them batches that name a commit twice.                            *)
(***************************************************************************)
EXTENDS GitIngestion

CONSTANTS h1, h2

Overlapping == {<<h1, h2>>, <<h2, h1>>, <<h1, h1>>, <<h2, h2>>}
Sizes == [h \in Hash |-> IF h = h1 THEN 1 ELSE 2]

\* No model; a cap taken in the order of the batch; a cap for the largest commits.
AllSettings == {[llm |-> FALSE, cap |-> 0, priority |-> "order"],
                [llm |-> TRUE, cap |-> 1, priority |-> "order"],
                [llm |-> TRUE, cap |-> 1, priority |-> "size"]}

AllFaults == {"embed", "store", "cleanup", "analysis", "upsert", "commit", "crash"}
=============================================================================

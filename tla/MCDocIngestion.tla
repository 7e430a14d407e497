--------------------------- MODULE MCDocIngestion ---------------------------
(***************************************************************************)
(* Instances of DocIngestion for TLC.                                      *)
(***************************************************************************)
EXTENDS DocIngestion, TLC

\* Requests and documents are interchangeable in the safety run.
Symmetry == Permutations(Run) \cup Permutations(Doc)

\* Every kind of failure, and crashes.  An add that fails and is not applied, which
\* leaves less behind than one that is, is left to MCOwnerAnswers.
MostFaults == FaultKinds \ {"add"}
=============================================================================

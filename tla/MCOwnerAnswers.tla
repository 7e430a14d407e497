--------------------------- MODULE MCOwnerAnswers ---------------------------
(***************************************************************************)
(* Two requests for a document and two answers, of one confirmation or of  *)
(* two.                                                                    *)
(***************************************************************************)
EXTENDS OwnerAnswers

\* Failures after which a document's run takes back what it did: no call applies its
\* effect and reports a failure, and neither a commit nor a delete fails.
CleanFaults == {"read", "context", "embed", "stage", "add", "usage"}
=============================================================================

------------------------------ MODULE MCTexts ------------------------------
(***************************************************************************)
(* What is cut to a size before a model sees it: a document, or the        *)
(* conversation of a chat.  They do not meet: a behaviour has one or the   *)
(* other.                                                                  *)
(***************************************************************************)
EXTENDS Embedder, History

TextsInit == IndexingInit /\ Init
TextsNext == \/ history = <<>> /\ Indexing /\ UNCHANGED vars
             \/ at = "new" /\ Next /\ UNCHANGED indexing
TextsSpec == TextsInit /\ [][TextsNext]_<<indexing, vars>>
=============================================================================

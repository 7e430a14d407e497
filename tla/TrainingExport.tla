--------------------------- MODULE TrainingExport ---------------------------
(***************************************************************************)
(* The export of training data (pipelines/export_training_data.py) to the  *)
(* file of one workspace and dataset version.  The endpoint is a plain     *)
(* function, so several exports write at the same time, each from a worker *)
(* thread.  A file is a sequence of blocks, each known by its export: what *)
(* fits in a buffer of the writer.                                         *)
(***************************************************************************)
EXTENDS Integers, Sequences, FiniteSets, SequencesExt

CONSTANTS
    Export,  \* requests to export one workspace and dataset version
    Size,    \* blocks of each export: a request has at least one record
    Hole     \* a block nobody wrote

ASSUME SizeAssumption == Size \in [Export -> Nat \ {0}]

VARIABLES
    blocks,   \* the file
    written,  \* blocks an export has written
    open,     \* exports that have the file open
    ended,    \* exports that have been answered or have failed
    alone     \* history: exports that have met no other since they opened

eVars == <<blocks, written, open, ended, alone>>

ExportInit ==
    /\ blocks = <<>>
    /\ written = [e \in Export |-> 0]
    /\ open = {} /\ ended = {} /\ alone = {}

\* Variant: the file is opened for appending.
Kept == blocks

\* write_text opens with "w": whatever the file holds is gone.
Truncated == <<>>

\* The records are scrubbed and laid out before the file is opened.
Open(e) ==
    /\ e \notin open \cup ended
    /\ blocks' = Truncated
    /\ open' = open \cup {e}
    /\ alone' = IF open = {} THEN {e} ELSE {}
    /\ UNCHANGED <<written, ended>>

\* A block goes to the writer's own position.
Put(e) ==
    /\ e \in open /\ written[e] < Size[e]
    /\ LET n == written[e] + 1 IN
       /\ blocks' = [i \in 1..IF n > Len(blocks) THEN n ELSE Len(blocks) |->
                       CASE i = n -> e
                         [] i # n /\ i <= Len(blocks) -> blocks[i]
                         [] OTHER -> Hole]
       /\ written' = [written EXCEPT ![e] = n]
    /\ UNCHANGED <<open, ended, alone>>

Ends(e) ==
    /\ open' = open \ {e}
    /\ ended' = ended \cup {e}
    /\ UNCHANGED <<blocks, written>>

\* Everything is written: the summary is returned.
Finish(e) ==
    /\ e \in open /\ written[e] = Size[e]
    /\ Ends(e)
    /\ UNCHANGED alone

\* An OSError: what is written stays.
Break(e) ==
    /\ e \in open /\ written[e] < Size[e]
    /\ Ends(e)
    /\ alone' = alone \ {e}

ExportNext == \E e \in Export : Open(e) \/ Put(e) \/ Finish(e) \/ Break(e)

\* An export that has met no other and is answered leaves exactly its records,
\* whatever longer, broken or interleaved exports have left in the file before.
RerunRepairs ==
    \A e \in alone \cap ended :
        open = {} => blocks = [i \in 1..Size[e] |-> e]
=============================================================================

---------------------------- MODULE CommitIndex -----------------------------
(***************************************************************************)
(* What Git indexing promises to a search: all commits a batch has indexed *)
(* appear in one step, each with one whole block of chunks, and what a     *)
(* search can find of a commit never changes afterwards.  A commit that    *)
(* had a row beforehand, without chunks, may get a whole block from each   *)
(* of several batches.                                                     *)
(***************************************************************************)
CONSTANTS
    Commit,
    Unindexed,  \* the commits with a row beforehand
    Batch,
    BlocksOf    \* for each batch the blocks of chunks it may add

VARIABLE found  \* the chunks that a search can find of each commit

Init == found = [c \in Commit |-> {}]

\* Nothing of the batch can be found yet.
Unseen(b) == \A c \in Commit : found[c] \cap UNION BlocksOf[b] = {}

\* The commits of "block" get a block each, no two of them the same one.
Publish(b, block) ==
    /\ Unseen(b)
    /\ \A c \in DOMAIN block : found[c] = {} \/ c \in Unindexed
    /\ \A c, d \in DOMAIN block : c # d => block[c] \cap block[d] = {}
    /\ found' = [c \in Commit |->
                    IF c \in DOMAIN block THEN found[c] \cup block[c] ELSE found[c]]

Next ==
    \E b \in Batch, C \in SUBSET Commit :
        \E block \in [C -> BlocksOf[b]] : Publish(b, block)

Spec == Init /\ [][Next]_found
=============================================================================

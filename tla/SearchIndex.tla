---------------------------- MODULE SearchIndex -----------------------------
(***************************************************************************)
(* What document indexing promises to a search: the chunks that can be     *)
(* found for a document are one block of consecutive chunk ids, and a      *)
(* block is replaced in one step by a block of ids never used before.  A   *)
(* search never finds a mixture of two versions, half of a version, or a   *)
(* version that was replaced already.                                      *)
(***************************************************************************)
EXTENDS Naturals

CONSTANTS
    Doc,       \* the documents
    MaxChunks  \* bound on the chunks of one version

VARIABLES
    served,  \* the chunk ids that a search can find for each document
    high     \* the last chunk id given out

vars == <<served, high>>

Init ==
    /\ served = [d \in Doc |-> {}]
    /\ high = 0

\* A new version of the document is served, whole and at once.
Publish(d) ==
    /\ high' \in high + 1 .. high + MaxChunks
    /\ served' = [served EXCEPT ![d] = high + 1 .. high']

\* Ids given out to a version that is never served.
Burn ==
    /\ high' \in high + 1 .. high + MaxChunks
    /\ UNCHANGED served

Next == Burn \/ \E d \in Doc : Publish(d)

Spec == Init /\ [][Next]_vars
=============================================================================

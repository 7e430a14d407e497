--------------------------- MODULE MCChunkContext ---------------------------
(***************************************************************************)
(* Four chunks and two slots: up to two tasks wait while two call, and     *)
(* either of those may back off.                                           *)
(***************************************************************************)
EXTENDS ChunkContext
=============================================================================

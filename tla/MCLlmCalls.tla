----------------------------- MODULE MCLlmCalls -----------------------------
(***************************************************************************)
(* Two calls of any kind, any of them made by an analysis; a streamed      *)
(* answer has up to two pieces.                                            *)
(***************************************************************************)
EXTENDS Analyses, TLC

CONSTANTS c1, c2

Symmetric == Permutations(Call)
=============================================================================

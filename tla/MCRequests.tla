----------------------------- MODULE MCRequests -----------------------------
(***************************************************************************)
(* Two requests over one or two connections, and a long and a short export *)
(* over two workers.                                                       *)
(***************************************************************************)
EXTENDS Requests, TLC

CONSTANTS e1, e2

Sizes == (e1 :> 1) @@ (e2 :> 2)
=============================================================================

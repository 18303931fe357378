----------------------------- MODULE MCGitState -----------------------------
(***************************************************************************)
(* `motus wrap' below the root of a work tree, or outside of one.          *)
(***************************************************************************)
EXTENDS GitState

CONSTANTS p1, c1, c2

Below == [p \in Proc |-> "below"]
=============================================================================

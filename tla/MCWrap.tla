------------------------------- MODULE MCWrap -------------------------------
(***************************************************************************)
(* `motus wrap' of one command with one chunk on each stream and clock     *)
(* readings before, at and after each other.                               *)
(***************************************************************************)
EXTENDS WrapCommand

MCTime == {1, 2}

\* Where time does not matter.
MCOneTime == {1}
=============================================================================

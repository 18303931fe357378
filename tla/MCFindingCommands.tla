------------------------- MODULE MCFindingCommands -------------------------
(***************************************************************************)
(* One user who adds a finding, and two who close one.                     *)
(***************************************************************************)
EXTENDS FindingCommands

CONSTANTS a1, c1, c2
=============================================================================

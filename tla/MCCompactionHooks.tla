------------------------- MODULE MCCompactionHooks -------------------------
(***************************************************************************)
(* Instances of CompactionHooks for TLC.                                   *)
(***************************************************************************)
EXTENDS CompactionHooks

CONSTANTS p1, p2
=============================================================================

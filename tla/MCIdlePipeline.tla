-------------------------- MODULE MCIdlePipeline ---------------------------
(***************************************************************************)
(* Instances of IdlePipeline for TLC.                                      *)
(***************************************************************************)
EXTENDS IdlePipeline, TLC

CONSTANTS alice, bob, p1, p2

\* Sessions may change places, and so may processes.
Symmetry == Permutations({alice, bob}) \cup Permutations({p1, p2})
=============================================================================

------------------------------ MODULE MCGrouper ------------------------------
(***************************************************************************)
(* Instances of Grouper for TLC.  Which process, group or path is which    *)
(* does not matter.                                                        *)
(***************************************************************************)
EXTENDS Grouper, TLC

Symmetry == Permutations(Procs) \cup Permutations(Groups) \cup Permutations(Paths)
=============================================================================

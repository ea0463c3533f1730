---------------------------- MODULE MCCollector ----------------------------
(***************************************************************************)
(* Instances of Collector for TLC.  Which of several calls comes first     *)
(* does not matter for safety, nor does the name of a group.               *)
(***************************************************************************)
EXTENDS Collector, TLC

Symmetry == Permutations(Calls) \cup Permutations(Groups)
=============================================================================

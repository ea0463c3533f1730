------------------------------ MODULE MCTracker ------------------------------
(***************************************************************************)
(* Instances of Tracker for TLC: "web" is a name the namer matches, "sh"   *)
(* one it does not.  MCNameGroup names groups as the command line does,    *)
(* MCBlankGroup as a template that evaluates to the empty string.          *)
(***************************************************************************)
EXTENDS Tracker

MCNames      == {"sh", "web"}
MCMatched    == {"web"}
MCGroups     == {"web"}
MCNameGroup  == [name \in MCMatched |-> "web"]

MCBlankGroups == {""}
MCBlankGroup  == [name \in MCMatched |-> ""]
=============================================================================

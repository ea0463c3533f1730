--------------------------- MODULE MCCgroupPaths ---------------------------
(***************************************************************************)
(* Instances of CgroupPaths for TLC: a tree two levels deep with two names *)
(* "s" and "t", and patterns as in the README.                             *)
(***************************************************************************)
EXTENDS CgroupPaths

MCNames == {"s", "t"}

Lit(name)   == [kind |-> "literal", matches |-> {name}]
Glob(names) == [kind |-> "glob", matches |-> names]
Bad         == [kind |-> "bad", matches |-> {}]

(* /   /[   /s/t*   /*/*   and   /*/t                                       *)
MCMixed == << <<>>, <<Bad>>, <<Lit("s"), Glob({"t"})>>,
              <<Glob(MCNames), Glob(MCNames)>>, <<Glob(MCNames), Lit("t")>> >>

(* /*/*                                                                    *)
MCPods == << <<Glob(MCNames), Glob(MCNames)>> >>
=============================================================================

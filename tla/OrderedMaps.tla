---------------------------- MODULE OrderedMaps ----------------------------
(***************************************************************************)
(* Maps whose keys are set one after another, a later value over an        *)
(* earlier one: what a loop with m[k] = v leaves in a Go map.  The parsers *)
(* of cgroup files, the rules of a config and the captures of regular      *)
(* expressions are kept in such maps.                                      *)
(***************************************************************************)
EXTENDS Integers, Sequences

NoKeys == [k \in {} |-> 0]

(* m[key] = val.                                                           *)
Set(map, key, val) ==
    [k \in DOMAIN map \cup {key} |-> IF k = key THEN val ELSE map[k]]

(* One such setting, which is passed over unless it is ok.                 *)
Setting(ok, key, val) == [k \in IF ok THEN {key} ELSE {} |-> val]

(* All that new has is set in map.                                         *)
SetAllOf(map, new) ==
    [k \in DOMAIN map \cup DOMAIN new |->
        IF k \in DOMAIN new THEN new[k] ELSE map[k]]

(* A sequence of settings, into a map there is.                            *)
SetOver(map, sets) ==
    LET after[i \in 0..Len(sets)] ==
            IF i = 0 THEN map ELSE SetAllOf(after[i - 1], sets[i])
    IN  after[Len(sets)]

(* And into a new one.                                                     *)
SetInOrder(sets) == SetOver(NoKeys, sets)
=============================================================================

----------------------------- MODULE CgroupPaths -----------------------------
(***************************************************************************)
(* The cgroups that are read by path, whether or not a process of theirs   *)
(* is in a group: ExpandPattern (cgroup/reader.go) turns each configured   *)
(* pattern into paths, by one directory listing per path and wildcard, and *)
(* collectPaths (collector/cgroup_collector.go) reads what it found.  Pods *)
(* come and go between any two of these steps.                             *)
(*                                                                         *)
(* A path is the sequence of its segments, the root the empty one.  A      *)
(* segment of a pattern is known by the names path.Match matches with it;  *)
(* without a wildcard it is one name.                                      *)
(***************************************************************************)
EXTENDS Integers, Sequences, FiniteSets

CONSTANTS
    Names,        \* names of cgroups
    MaxDepth,     \* bound: depth of the tree
    Patterns,     \* cgroups.paths: a sequence of patterns
    MaxPaths,     \* cgroups.max_paths, 200 when not configured
    MaxDropped,   \* bound: no scrape starts after this many dropped patterns
    MaxChanges,   \* bound: cgroups created or removed
    MaxFaults     \* bound: listings and checks that fail

Segment == {s \in [kind : {"literal", "glob", "bad"}, matches : SUBSET Names] :
               s.kind = "literal" => \E name \in Names : s.matches = {name}}
Path    == UNION {[1..n -> Names] : n \in 0..MaxDepth}
Root    == <<>>

ASSUME PatternsAssumption == Patterns \in Seq(Seq(Segment))
(* It follows from the bounds, by induction.                               *)
ASSUME PathsAreFinite == IsFiniteSet(Path)
ASSUME PathsBounds == /\ IsFiniteSet(Names)
                      /\ MaxDepth \in Nat
                      /\ MaxPaths \in Int
                      /\ MaxDropped \in Nat
                      /\ MaxChanges \in Nat
                      /\ MaxFaults \in Nat

VARIABLES
    tree,           \* the cgroups there are, directories under the root
    pc,             \* idle, or what is done with the current pattern
    current,        \* the pattern collectPaths is at
    segment,        \* the segment ExpandPattern is at
    paths,          \* what the segments before it expand to
    todo,           \* paths of them still to be listed, checked or read
    next,           \* what was listed, or checked, so far
    patternDropped, \* the counter
    series,         \* history: <<pattern, path>> sent in this scrape
    stable,         \* history: cgroups there all the time since ...
    ever,           \* history: ... or at some time since ExpandPattern began
    missed,         \* history: paths whose listing or check failed since then
    changes,
    faults

expandVars == <<pc, current, segment, paths, todo, next, patternDropped, series>>
vars == <<tree, expandVars, stable, ever, changes, faults, missed>>

Parent(p)    == SubSeq(p, 1, Len(p) - 1)
IsDir(p)     == p \in tree \/ p = Root
PrefixClosed == {t \in SUBSET (Path \ {Root}) :
                    \A p \in t : Parent(p) \in t \cup {Root}}

TypeOK ==
    /\ tree \in PrefixClosed
    /\ pc \in {"idle", "expand", "list", "confirm", "read"}
    /\ current \in 1..Len(Patterns) + 1
    /\ segment \in Nat \ {0}
    /\ paths \cup next \subseteq Seq(Names)
    /\ todo \subseteq paths
    /\ patternDropped \in Nat
    /\ series \subseteq (1..Len(Patterns)) \X Path
    /\ stable \subseteq tree
    /\ tree \subseteq ever /\ ever \subseteq Path
    /\ missed \subseteq Seq(Names)
    /\ changes \in 0..MaxChanges /\ faults \in 0..MaxFaults

Init ==
    /\ tree \in PrefixClosed
    /\ pc = "idle"
    /\ current = 1 /\ segment = 1
    /\ paths = {} /\ todo = {} /\ next = {}
    /\ patternDropped = 0
    /\ series = {}
    /\ stable = tree /\ ever = tree /\ missed = {}
    /\ changes = 0 /\ faults = 0

-----------------------------------------------------------------------------
(* Mutants: what definitions below would be with a bug in the code.        *)

(* A listing that fails ends the loop, instead of going on to the next.    *)
DropOutLast(p) ==
    /\ p \in todo
    /\ faults < MaxFaults
    /\ faults' = faults + 1
    /\ missed' = missed \cup {p}
    /\ todo' = {}
    /\ UNCHANGED <<tree, pc, current, segment, paths, next, patternDropped,
                   series, stable, ever, changes>>

(* The loop over the paths does not move on.                               *)
ListAgain(p) ==
    /\ pc = "list"
    /\ p \in todo
    /\ UNCHANGED vars

(* The limit is not looked at, or is one less.                             *)
TooManyNever == FALSE
TooManyAt    == MaxPaths > 0 /\ Cardinality(next) >= MaxPaths

(* What is left of a pattern is not checked to be there.                   *)
ConfirmAny(p) ==
    /\ pc = "confirm"
    /\ p \in todo
    /\ todo' = todo \ {p}
    /\ next' = next \cup {p}
    /\ UNCHANGED <<tree, pc, current, segment, paths, patternDropped, series,
                   stable, ever, changes, faults, missed>>

-----------------------------------------------------------------------------
(* The kubelet creates a cgroup, or removes one that has no child.         *)
Create(p) ==
    /\ p \in Path \ (tree \cup {Root}) /\ IsDir(Parent(p))
    /\ tree' = tree \cup {p}
    /\ ever' = ever \cup {p}
    /\ UNCHANGED stable

Remove(p) ==
    /\ p \in tree /\ \A q \in tree : Len(q) > 0 => Parent(q) # p
    /\ tree' = tree \ {p}
    /\ stable' = stable \ {p}
    /\ UNCHANGED ever

Churn ==
    /\ changes < MaxChanges
    /\ changes' = changes + 1
    /\ \E p \in Path : Create(p) \/ Remove(p)
    /\ UNCHANGED <<expandVars, faults, missed>>

-----------------------------------------------------------------------------
(* collectPaths goes on to a pattern, and ExpandPattern begins with it.    *)
Begin(i) ==
    /\ current' = i
    /\ segment' = 1
    /\ paths' = {Root} /\ todo' = {} /\ next' = {}
    /\ stable' = tree /\ ever' = tree /\ missed' = {}
    /\ pc' = IF i <= Len(Patterns) THEN "expand" ELSE "idle"
    /\ UNCHANGED <<tree, changes, faults>>

StartScrape ==
    /\ pc = "idle"
    /\ patternDropped <= MaxDropped
    /\ Begin(1)
    /\ series' = {}
    /\ UNCHANGED patternDropped

(* An error of ExpandPattern: the pattern contributes nothing.             *)
Drop ==
    /\ patternDropped' = patternDropped + 1
    /\ Begin(current + 1)
    /\ UNCHANGED series

pattern == Patterns[current]

(* The pattern has no segment, as "/" has none.                            *)
RefuseRoot ==
    /\ pc = "expand"
    /\ pattern = <<>>
    /\ Drop

(* A segment without a wildcard is taken literally.                        *)
Literal ==
    /\ pc = "expand"
    /\ segment <= Len(pattern)
    /\ pattern[segment].kind = "literal"
    /\ paths' = {Append(p, name) : p \in paths, name \in pattern[segment].matches}
    /\ segment' = segment + 1
    /\ UNCHANGED <<tree, pc, current, todo, next, patternDropped, series, stable,
                   ever, changes, faults, missed>>

Wildcard ==
    /\ pc = "expand"
    /\ segment <= Len(pattern)
    /\ pattern[segment].kind # "literal"
    /\ pc' = "list"
    /\ todo' = paths
    /\ next' = {}
    /\ UNCHANGED <<tree, current, segment, paths, patternDropped, series, stable,
                   ever, changes, faults, missed>>

(* childDirs.  A path that is not, or no longer, there has no children.    *)
Children(p) == {Append(p, name) : name \in Names} \cap tree

Matching(p) == {q \in Children(p) : q[Len(q)] \in pattern[segment].matches}

Keep(found) ==
    /\ next' = next \cup found
    /\ UNCHANGED <<tree, pc, current, segment, paths, patternDropped, series,
                   stable, ever, changes>>

List(p) ==
    /\ pc = "list"
    /\ p \in todo
    /\ pattern[segment].kind = "bad" => Children(p) = {}
    /\ todo' = todo \ {p}
    /\ Keep(Matching(p))
    /\ UNCHANGED <<faults, missed>>

(* The listing of a cgroup that is there fails, or its check below does,   *)
(* and it drops out.                                                       *)
DropOut(p) ==
    /\ p \in todo
    /\ faults < MaxFaults
    /\ faults' = faults + 1
    /\ missed' = missed \cup {p}
    /\ todo' = todo \ {p}
    /\ Keep({})

ListFails(p) == pc = "list" /\ DropOut(p)

(* path.Match rejects the segment, once there is a name to match it with.  *)
BadPattern(p) ==
    /\ pc = "list"
    /\ p \in todo
    /\ pattern[segment].kind = "bad" /\ Children(p) # {}
    /\ Drop

TooMany == MaxPaths > 0 /\ Cardinality(next) > MaxPaths

TooManyMatches ==
    /\ pc = "list"
    /\ todo = {}
    /\ TooMany
    /\ Drop

SegmentDone ==
    /\ pc = "list"
    /\ todo = {}
    /\ ~TooMany
    /\ paths' = next
    /\ segment' = segment + 1
    /\ next' = {}
    /\ pc' = "expand"
    /\ UNCHANGED <<tree, current, todo, patternDropped, series, stable, ever,
                   changes, faults, missed>>

(* The paths are checked to be directories, one by one.                    *)
Expanded ==
    /\ pc = "expand"
    /\ pattern # <<>> /\ segment > Len(pattern)
    /\ pc' = "confirm"
    /\ todo' = paths
    /\ UNCHANGED <<tree, current, segment, paths, next, patternDropped, series,
                   stable, ever, changes, faults, missed>>

Confirm(p) ==
    /\ pc = "confirm"
    /\ p \in todo
    /\ todo' = todo \ {p}
    /\ Keep(IF IsDir(p) THEN {p} ELSE {})
    /\ UNCHANGED <<faults, missed>>

(* Stat fails on a cgroup that is there, which is passed over as well.     *)
ConfirmFails(p) == pc = "confirm" /\ DropOut(p)

Confirmed ==
    /\ pc = "confirm"
    /\ todo = {}
    /\ pc' = "read"
    /\ paths' = next
    /\ todo' = next
    /\ UNCHANGED <<tree, current, segment, next, patternDropped, series, stable,
                   ever, changes, faults, missed>>

(* collectOne: whatever can be read of the cgroup is sent.                 *)
Read(p) ==
    /\ pc = "read"
    /\ p \in todo
    /\ todo' = todo \ {p}
    /\ series' = IF IsDir(p) THEN series \cup {<<current, p>>} ELSE series
    /\ UNCHANGED <<tree, pc, current, segment, paths, next, patternDropped,
                   stable, ever, changes, faults, missed>>

PatternDone ==
    /\ pc = "read"
    /\ todo = {}
    /\ Begin(current + 1)
    /\ UNCHANGED <<patternDropped, series>>

-----------------------------------------------------------------------------
(* The program ends, at any moment, and its supervisor starts it anew.     *)
Restart ==
    /\ Begin(Len(Patterns) + 1)
    /\ patternDropped' = 0
    /\ series' = {}

CollectPaths ==
    \/ RefuseRoot
    \/ Literal
    \/ Wildcard
    \/ \E p \in todo : List(p) \/ ListFails(p) \/ BadPattern(p)
    \/ TooManyMatches
    \/ SegmentDone
    \/ Expanded
    \/ \E p \in todo : Confirm(p) \/ ConfirmFails(p) \/ Read(p)
    \/ Confirmed
    \/ PatternDone

Next == Churn \/ StartScrape \/ CollectPaths \/ Restart

Spec == Init /\ [][Next]_vars

(* A scrape that has begun goes on.                                        *)
FairSpec == Spec /\ WF_vars(CollectPaths)

-----------------------------------------------------------------------------
(* Properties.                                                             *)

(* The cgroups among S that the first n segments of a pattern match.       *)
MatchedIn(S, pat, n) ==
    {p \in S : Len(p) = n /\ \A k \in 1..n : p[k] \in pat[k].matches}

(* No cgroup is left out in silence: if a pattern is not dropped, it reads *)
(* every cgroup it matches that was there all along (README.md 485,        *)
(* docs/design-cgroupv2.md 79: dropped, not truncated).                    *)
NoSilentGap ==
    pc = "read" => MatchedIn(stable, pattern, Len(pattern)) \subseteq paths

(* A cgroup that is left out is one whose check failed, or lies below one  *)
(* whose listing failed: a failure hides nothing beside it (reader.go 184, *)
(* 209).                                                                   *)
Below(q, m) == Len(m) <= Len(q) /\ \A k \in 1..Len(m) : q[k] = m[k]
Missed(q)   == \E m \in missed : Below(q, m)

GapsAreBelowFailures ==
    pc = "read" =>
        \A q \in MatchedIn(stable, pattern, Len(pattern)) \ paths : Missed(q)

(* Nor is one read that the pattern does not match, at exactly its depth,  *)
(* or that was gone before the expansion began.                            *)
NothingElse ==
    pc = "read" => paths \subseteq MatchedIn(ever, pattern, Len(pattern))

(* A path that a pattern matches, at exactly its depth.                    *)
Matches(p, pat) ==
    Len(p) = Len(pat) /\ \A k \in 1..Len(pat) : p[k] \in pat[k].matches

(* A pattern never contributes more cgroups than max_paths.                *)
WithinMaxPaths ==
    MaxPaths > 0 =>
        \A i \in 1..Len(Patterns) :
            Cardinality({s \in series : s[1] = i}) <= MaxPaths

(* A pattern is dropped for a reason an operator can act on only: it is    *)
(* the root, it is malformed, or it, or a part of it that ends in a        *)
(* wildcard, did match too many cgroups.                                   *)
DroppedForCause ==
    [][patternDropped' > patternDropped =>
          \/ pattern = <<>>
          \/ \E k \in 1..Len(pattern) :
                \/ pattern[k].kind = "bad"
                \/ /\ pattern[k].kind = "glob" /\ MaxPaths > 0
                   /\ Cardinality(MatchedIn(ever, pattern, k)) > MaxPaths]_vars

(* Every scrape ends, whatever the kubelet does meanwhile.                 *)
ScrapeEnds == pc # "idle" ~> pc = "idle"

-----------------------------------------------------------------------------
(* The inductive invariant behind all but ScrapeEnds.                      *)
Fits(p, n) == Len(p) = n /\ \A k \in 1..n : p[k] \in pattern[k].matches

(* All that is held matches the pattern as far as it got, and what was     *)
(* listed or confirmed was there.                                          *)
ExpandInv ==
    /\ pc # "idle" => current <= Len(Patterns)
    /\ pc = "expand" => /\ segment <= Len(pattern) + 1
                        /\ todo = {} /\ next = {}
                        /\ \A p \in paths : Fits(p, segment - 1)
    /\ pc = "list" => /\ segment <= Len(pattern)
                      /\ \A p \in paths : Fits(p, segment - 1)
                      /\ pattern[segment].kind # "literal"
                      /\ \A p \in next : p \in ever /\ Fits(p, segment)
    /\ pc \in {"confirm", "read"} => pattern # <<>> /\ segment = Len(pattern) + 1
    /\ pc = "confirm" => /\ \A p \in paths : Fits(p, Len(pattern))
                         /\ next \subseteq paths \cap ever
    /\ pc = "read" => \A p \in paths : p \in ever /\ Fits(p, Len(pattern))

(* What was there all along is in the paths, or, while they are listed or  *)
(* confirmed, it or its parent is still to come; or it was missed.         *)
StableClosed == \A p \in stable : Parent(p) \in stable \cup {Root}

OnItsWay ==
    /\ pc = "expand" =>
          \A q \in stable \cup {Root} :
             Fits(q, segment - 1) => q \in paths \/ Missed(q)
    /\ pc = "list" =>
          \A q \in stable :
             Fits(q, segment) => q \in next \/ Parent(q) \in todo \/ Missed(q)
    /\ pc = "confirm" =>
          \A q \in stable :
             Fits(q, Len(pattern)) => q \in next \cup todo \/ Missed(q)
    /\ pc = "read" =>
          \A q \in stable :
             Fits(q, Len(pattern)) => q \in paths \/ Missed(q)

(* Series are of patterns read before, or of paths being read.             *)
SeriesInv ==
    \A s \in series :
        /\ s[1] <= current
        /\ Matches(s[2], Patterns[s[1]])
        /\ s[1] = current => pc = "read" /\ s[2] \in paths

(* No step adds to the paths of a pattern but a wildcard.                  *)
LimitInv ==
    /\ IsFiniteSet(paths)
    /\ MaxPaths > 0 => /\ Cardinality(paths) <= MaxPaths \/ pc = "idle"
                       /\ WithinMaxPaths

PathsInv ==
    TypeOK /\ ExpandInv /\ StableClosed /\ OnItsWay /\ SeriesInv /\ LimitInv
=============================================================================

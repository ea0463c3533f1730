-------------------------- MODULE CgroupPathsProofs --------------------------
(***************************************************************************)
(* Proofs about CgroupPaths, for any tree, patterns and limit, and any     *)
(* number of changes and failures.                                         *)
(*                                                                         *)
(* PathsInv says what is held of a pattern while it is expanded.  It rests *)
(* on the tree being one: the parent of a cgroup that was there all along  *)
(* was there all along.                                                    *)
(***************************************************************************)
EXTENDS CgroupPaths, FiniteSetTheorems, SequenceTheorems, TLAPS

USE PathsBounds, PathsAreFinite

-----------------------------------------------------------------------------
(* Paths, patterns and finite sets.                                        *)

(* A path is a sequence of names, the root is the only one without any.    *)
LEMMA PathIsSeq == /\ Path \subseteq Seq(Names)
                   /\ \A p \in Path : p # Root => Len(p) > 0
                   /\ Root \in Seq(Names) /\ Len(Root) = 0
<1>1. Path \subseteq Seq(Names)
  BY SeqDef DEF Path
<1>2. \A p \in Path : p # Root => Len(p) > 0
  BY <1>1, EmptySeq DEF Root
<1> QED BY <1>1, <1>2, EmptySeq DEF Root

(* A path other than the root is its parent and one name.                  *)
LEMMA ParentParts ==
    ASSUME NEW q \in Seq(Names), Len(q) > 0
    PROVE  /\ Parent(q) \in Seq(Names) /\ Len(Parent(q)) = Len(q) - 1
           /\ \A k \in 1..Len(q) - 1 : Parent(q)[k] = q[k]
           /\ q[Len(q)] \in Names
           /\ q = Append(Parent(q), q[Len(q)])
<1>1. /\ Len(q) \in Nat
      /\ \A k \in 1..Len(q) : q[k] \in Names
  BY LenProperties, ElementOfSeq
<1>2. /\ Parent(q) \in Seq(Names) /\ Len(Parent(q)) = Len(q) - 1
      /\ \A k \in 1..Len(q) - 1 : Parent(q)[k] = q[k]
  <2> DEFINE n == Len(q) - 1
  <2>1. n \in Nat /\ \A i \in 1..n : q[i] \in Names
    BY <1>1
  <2>2. SubSeq(q, 1, n) = Parent(q)
    BY DEF Parent
  <2> HIDE DEF n
  <2>3. /\ SubSeq(q, 1, n) \in Seq(Names)
        /\ Len(SubSeq(q, 1, n)) = IF 1 <= n THEN n - 1 + 1 ELSE 0
        /\ \A i \in 1..n - 1 + 1 : SubSeq(q, 1, n)[i] = q[1 + i - 1]
    BY <2>1, SubSeqProperties
  <2>4. /\ Len(SubSeq(q, 1, n)) = n
        /\ \A i \in 1..n : SubSeq(q, 1, n)[i] = q[i]
    BY <2>1, <2>3
  <2> QED BY <2>2, <2>3, <2>4 DEF n
<1>3. q = Append(Parent(q), q[Len(q)])
  <2>1. /\ Append(Parent(q), q[Len(q)]) \in Seq(Names)
        /\ Len(Append(Parent(q), q[Len(q)])) = Len(q)
        /\ \A k \in 1..Len(q) : Append(Parent(q), q[Len(q)])[k] = q[k]
    BY <1>1, <1>2
  <2> QED BY <2>1, SeqEqual
<1> QED BY <1>1, <1>2, <1>3

(* A name appended to a path makes one longer by it.                       *)
LEMMA AppendParts ==
    ASSUME NEW p \in Seq(Names), NEW name \in Names
    PROVE  /\ Append(p, name) \in Seq(Names)
           /\ Len(Append(p, name)) = Len(p) + 1
           /\ \A k \in 1..Len(p) : Append(p, name)[k] = p[k]
           /\ Append(p, name)[Len(p) + 1] = name
           /\ Len(p) \in Nat
OBVIOUS

(* Patterns are sequences of segments; a literal one is one name.          *)
LEMMA PatternParts ==
    ASSUME NEW i \in 1..Len(Patterns)
    PROVE  /\ Patterns[i] \in Seq(Segment) /\ Len(Patterns[i]) \in Nat
           /\ Patterns[i] = <<>> <=> Len(Patterns[i]) = 0
           /\ \A k \in 1..Len(Patterns[i]) :
                 /\ Patterns[i][k].matches \subseteq Names
                 /\ Patterns[i][k].kind \in {"literal", "glob", "bad"}
                 /\ Patterns[i][k].kind = "literal" =>
                       \E name \in Names : Patterns[i][k].matches = {name}
<1>1. Patterns[i] \in Seq(Segment)
  BY PatternsAssumption, ElementOfSeq
<1>2. \A k \in 1..Len(Patterns[i]) : Patterns[i][k] \in Segment
  BY <1>1, ElementOfSeq
<1> QED BY <1>1, <1>2, LenProperties, EmptySeq DEF Segment

(* An image of a finite set is no larger.                                  *)
LEMMA ImageIsSmaller ==
    ASSUME NEW S, IsFiniteSet(S), NEW f, DOMAIN f = S
    PROVE  LET T == {f[x] : x \in S}
           IN  IsFiniteSet(T) /\ Cardinality(T) <= Cardinality(S)
<1> DEFINE T == {f[x] : x \in S}
<1> DEFINE g == [x \in S |-> f[x]]
<1>1. g \in Surjection(S, T)
  BY DEF Surjection
<1> QED BY <1>1, FS_Surjection

(* What fits the whole pattern matches it.                                 *)
LEMMA FitsIsMatches ==
    \A p : Fits(p, Len(pattern)) <=> Matches(p, pattern)
BY DEF Fits, Matches

-----------------------------------------------------------------------------
(* What the steps have in common.                                          *)

(* Nothing is held yet when the expansion of a pattern begins.             *)
LEMMA BeginInv ==
    ASSUME PathsInv, NEW i \in 1..Len(Patterns) + 1, Begin(i),
           patternDropped' \in Nat,
           \/ series' = {}
           \/ series' = series /\ pc # "idle" /\ current < i
    PROVE  PathsInv'
<1>1. /\ TypeOK /\ Len(Patterns) \in Nat
      /\ tree \subseteq Path \ {Root}
      /\ \A p \in tree : Parent(p) \in tree \cup {Root}
  BY PatternsAssumption, LenProperties DEF PathsInv, TypeOK, PrefixClosed
<1>2. /\ current' = i /\ segment' = 1 /\ paths' = {Root} /\ todo' = {} /\ next' = {}
      /\ stable' = tree /\ ever' = tree /\ missed' = {}
      /\ pc' = IF i <= Len(Patterns) THEN "expand" ELSE "idle"
      /\ UNCHANGED <<tree, changes, faults>>
  BY DEF Begin
<1>3. TypeOK'
  <2>1. series' \subseteq (1..Len(Patterns)) \X Path
    BY <1>1 DEF TypeOK
  <2>2. tree' \in PrefixClosed /\ ever' \subseteq Path
    BY <1>1, <1>2 DEF TypeOK
  <2> QED BY <1>1, <1>2, <2>1, <2>2, PathIsSeq DEF TypeOK
<1>4. ExpandInv'
  <2>1. i <= Len(Patterns) => Len(Patterns[i]) \in Nat
    BY <1>1, PatternParts
  <2> QED BY <1>1, <1>2, <2>1, PathIsSeq DEF ExpandInv, Fits, pattern
<1>5. StableClosed'
  BY <1>1, <1>2 DEF StableClosed
<1>6. OnItsWay'
  BY <1>1, <1>2, PathIsSeq DEF OnItsWay, Fits
<1>7. SeriesInv'
  <2>1. CASE series' = series /\ pc # "idle" /\ current < i
    <3>1. \A s \in series : s[1] \in Nat /\ s[1] <= current
      BY <1>1 DEF TypeOK, PathsInv, SeriesInv
    <3>2. current \in Nat
      BY <1>1 DEF TypeOK
    <3> QED BY <1>1, <1>2, <2>1, <3>1, <3>2 DEF PathsInv, SeriesInv
  <2> QED BY <2>1 DEF SeriesInv
<1>8. LimitInv'
  <2>1. IsFiniteSet({Root}) /\ Cardinality({Root}) = 1
    BY FS_Singleton
  <2>2. MaxPaths > 0 => WithinMaxPaths'
    <3>1. CASE series' = {}
      <4>1. \A k : {s \in series' : s[1] = k} = {}
        BY <3>1
      <4>2. Cardinality({}) = 0
        BY FS_EmptySet
      <4>3. \A k \in 1..Len(Patterns) : Cardinality({s \in series' : s[1] = k}) = 0
        BY <4>1, <4>2
      <4> QED BY <4>3 DEF WithinMaxPaths
    <3>2. CASE series' = series
      BY <3>2 DEF PathsInv, LimitInv, WithinMaxPaths
    <3> QED BY <3>1, <3>2
  <2> QED BY <1>2, <2>1, <2>2 DEF LimitInv
<1> QED BY <1>3, <1>4, <1>5, <1>6, <1>7, <1>8 DEF PathsInv

(* Series are safe in a step before any of the pattern are sent.           *)
LEMMA SeriesKept ==
    ASSUME SeriesInv, pc \notin {"read"}, UNCHANGED <<current, series>>
    PROVE  SeriesInv'
BY DEF SeriesInv

(* So is the limit, if the paths become no more.                           *)
LEMMA LimitKept ==
    ASSUME LimitInv, pc # "idle", UNCHANGED series, IsFiniteSet(paths'),
           \/ Cardinality(paths') <= Cardinality(paths)
           \/ MaxPaths > 0 => Cardinality(paths') <= MaxPaths
    PROVE  LimitInv'
<1>1. Cardinality(paths) \in Nat /\ Cardinality(paths') \in Nat
  BY FS_CardinalityType DEF LimitInv
<1>2. MaxPaths > 0 => WithinMaxPaths'
  BY DEF LimitInv, WithinMaxPaths
<1> QED BY <1>1, <1>2 DEF LimitInv

(* What was listed or confirmed is a finite set of cgroups.                *)
LEMMA NextIsFinite ==
    ASSUME PathsInv, pc \in {"list", "confirm"}
    PROVE  IsFiniteSet(next) /\ Cardinality(next) \in Nat
<1>1. next \in SUBSET Path
  BY DEF PathsInv, TypeOK, ExpandInv
<1> QED BY <1>1, FS_Subset, FS_CardinalityType

(* The facts of PathsInv the steps below start from.                       *)
LEMMA Held ==
    ASSUME PathsInv
    PROVE  /\ TypeOK /\ ExpandInv /\ StableClosed /\ OnItsWay /\ SeriesInv
           /\ LimitInv
           /\ tree \subseteq Path \ {Root} /\ stable \subseteq tree
           /\ tree \subseteq ever /\ ever \subseteq Path
           /\ paths \subseteq Seq(Names) /\ next \subseteq Seq(Names)
           /\ \A q \in tree : q \in Seq(Names) /\ Len(q) \in Nat /\ Len(q) > 0
           /\ pc # "idle" =>
                 /\ current \in 1..Len(Patterns) /\ Len(Patterns) \in Nat
                 /\ Len(pattern) \in Nat /\ segment \in Nat \ {0}
           /\ series \subseteq (1..Len(Patterns)) \X Path
           /\ faults \in 0..MaxFaults /\ changes \in 0..MaxChanges
           /\ missed \subseteq Seq(Names)
<1>1. Len(Patterns) \in Nat
  BY PatternsAssumption, LenProperties
<1>2. TypeOK /\ ExpandInv /\ tree \subseteq Path \ {Root}
  BY DEF PathsInv, TypeOK, PrefixClosed
<1>3. \A q \in tree : q \in Seq(Names) /\ Len(q) \in Nat /\ Len(q) > 0
  BY <1>2, PathIsSeq, LenProperties
<1>4. pc # "idle" => current \in 1..Len(Patterns)
  BY <1>1, <1>2 DEF TypeOK, ExpandInv
<1>5. pc # "idle" => Len(pattern) \in Nat
  BY <1>4, PatternParts DEF pattern
<1> QED BY <1>1, <1>2, <1>3, <1>4, <1>5 DEF PathsInv, TypeOK

(* What lies below a cgroup that was missed was missed, and stays so.      *)
LEMMA MissedBelow ==
    ASSUME PathsInv, NEW q \in Seq(Names), Len(q) > 0, Missed(Parent(q))
    PROVE  Missed(q)
<1>1. PICK m \in missed : Below(Parent(q), m)
  BY DEF Missed
<1>2. m \in Seq(Names) /\ Len(m) \in Nat /\ Len(q) \in Nat
  BY Held, LenProperties
<1>3. Below(q, m)
  BY <1>1, <1>2, ParentParts DEF Below
<1> QED BY <1>3 DEF Missed

LEMMA MissedKept ==
    ASSUME missed \subseteq missed'
    PROVE  \A q : Missed(q) => Missed(q)'
BY DEF Missed

-----------------------------------------------------------------------------
(* The steps.                                                              *)

(* A cgroup comes, or one without a child goes, and with it from stable.   *)
LEMMA ChurnKeeps == PathsInv /\ Churn => PathsInv'
<1> SUFFICES ASSUME PathsInv, Churn PROVE PathsInv'
  OBVIOUS
<1>1. PICK p \in Path : Create(p) \/ Remove(p)
  BY DEF Churn
<1>2. /\ UNCHANGED <<pc, current, segment, paths, todo, next, patternDropped,
                     series, faults, missed>>
      /\ changes' \in 0..MaxChanges
  BY Held DEF Churn, expandVars
<1>3. /\ tree' \subseteq Path \ {Root} /\ stable' \subseteq tree'
      /\ tree' \subseteq ever' /\ ever' \subseteq Path /\ ever \subseteq ever'
      /\ stable' \subseteq stable
  BY <1>1, Held DEF Create, Remove
<1>4. \A q \in tree' : Parent(q) \in tree' \cup {Root}
  <2>1. \A q \in tree : Parent(q) \in tree \cup {Root}
    BY DEF PathsInv, TypeOK, PrefixClosed
  <2>2. CASE Create(p)
    BY <2>1, <2>2 DEF Create, IsDir
  <2>3. CASE Remove(p)
    BY <2>1, <2>3, Held DEF Remove
  <2> QED BY <1>1, <2>2, <2>3
<1>5. StableClosed'
  <2>1. CASE Create(p)
    BY <2>1, Held DEF Create, StableClosed
  <2>2. CASE Remove(p)
    BY <2>2, Held DEF Remove, StableClosed
  <2> QED BY <1>1, <2>1, <2>2
<1>6. TypeOK'
  BY <1>2, <1>3, <1>4, Held DEF TypeOK, PrefixClosed
<1>7. ExpandInv' /\ SeriesInv' /\ LimitInv'
  BY <1>2, <1>3, Held DEF ExpandInv, SeriesInv, LimitInv, WithinMaxPaths, Fits,
                          pattern
<1>8. OnItsWay'
  BY <1>2, <1>3, Held DEF OnItsWay, Fits, pattern, Missed
<1> QED BY <1>5, <1>6, <1>7, <1>8 DEF PathsInv

(* A literal segment takes every path one level down.                      *)
LEMMA LiteralKeeps == PathsInv /\ Literal => PathsInv'
<1> SUFFICES ASSUME PathsInv, Literal PROVE PathsInv'
  OBVIOUS
<1>1. /\ pc = "expand" /\ segment \in 1..Len(pattern)
      /\ segment' = segment + 1
      /\ UNCHANGED <<tree, pc, current, todo, next, patternDropped, series,
                     stable, ever, changes, faults, missed, pattern>>
  BY Held DEF Literal, pattern
<1>2. PICK name \in Names : pattern[segment].matches = {name}
  <2>1. pattern[segment].kind = "literal"
    BY DEF Literal
  <2> QED BY <1>1, <2>1, Held, PatternParts DEF pattern
<1>3. paths' = {Append(p, name) : p \in paths}
  BY <1>2 DEF Literal
<1>4. todo = {}
  BY <1>1 DEF PathsInv, ExpandInv
<1>5. \A p \in paths : /\ p \in Seq(Names) /\ Append(p, name) \in Seq(Names)
                         /\ Len(p) \in Nat
                         /\ Len(Append(p, name)) = Len(p) + 1
                         /\ \A k \in 1..Len(p) : Append(p, name)[k] = p[k]
                         /\ Append(p, name)[Len(p) + 1] = name
  BY Held, AppendParts
<1>6. TypeOK'
  <2>1. paths' \subseteq Seq(Names)
    BY <1>3, <1>5
  <2>2. segment' \in Nat \ {0}
    BY <1>1
  <2> QED BY <1>1, <1>4, <2>1, <2>2, Held DEF TypeOK
<1>7. ExpandInv'
  <2>1. ASSUME NEW p \in paths PROVE Fits(Append(p, name), segment)
    <3>1. Len(p) = segment - 1 /\ \A k \in 1..segment - 1 : p[k] \in pattern[k].matches
      BY <1>1, Held DEF ExpandInv, Fits
    <3>2. \A k \in 1..segment : Append(p, name)[k] \in pattern[k].matches
      BY <1>1, <1>2, <1>5, <3>1
    <3> QED BY <1>1, <1>5, <3>1, <3>2 DEF Fits
  <2>2. /\ segment' - 1 = segment /\ segment' <= Len(pattern) + 1
        /\ Len(pattern) \in Nat
    BY <1>1, Held
  <2>3. \A q \in paths' : Fits(q, segment)
    BY <1>3, <2>1
  <2>4. \A q \in paths' : Fits(q, segment - 1)'
    BY <1>1, <2>2, <2>3 DEF Fits
  <2> QED BY <1>1, <1>4, <2>2, <2>4, Held DEF ExpandInv
<1>8. OnItsWay'
  <2> SUFFICES ASSUME NEW q \in stable \cup {Root}, Fits(q, segment), ~Missed(q)
               PROVE  q \in paths'
    BY <1>1, Held, MissedKept DEF OnItsWay, Fits
  <2>1. Len(q) = segment /\ \A k \in 1..segment : q[k] \in pattern[k].matches
    BY DEF Fits
  <2>2. q \in stable /\ q \in Seq(Names) /\ Len(q) > 0
    BY <1>1, <2>1, Held, PathIsSeq
  <2>3. q[segment] = name
    BY <1>1, <1>2, <2>1
  <2>4. /\ Len(Parent(q)) = segment - 1
        /\ \A k \in 1..segment - 1 : Parent(q)[k] = q[k]
        /\ q = Append(Parent(q), name)
    BY <2>1, <2>2, <2>3, ParentParts
  <2>5. Fits(Parent(q), segment - 1)
    BY <1>1, <2>1, <2>4 DEF Fits
  <2>6. Parent(q) \in paths
    BY <1>1, <2>2, <2>5, Held, MissedBelow DEF StableClosed, OnItsWay
  <2> QED BY <1>3, <2>4, <2>6
<1>9. SeriesInv'
  BY <1>1, Held, SeriesKept
<1>10. LimitInv'
  <2> DEFINE f == [p \in paths |-> Append(p, name)]
  <2>1. paths' = {f[p] : p \in paths}
    BY <1>3
  <2>2. IsFiniteSet(paths)
    BY Held DEF LimitInv
  <2>3. IsFiniteSet(paths') /\ Cardinality(paths') <= Cardinality(paths)
    BY <2>1, <2>2, ImageIsSmaller
  <2> QED BY <1>1, <2>3, Held, LimitKept
<1>11. StableClosed'
  BY <1>1, Held DEF StableClosed
<1> QED BY <1>6, <1>7, <1>8, <1>9, <1>10, <1>11 DEF PathsInv

(* A wildcard: every path is to be listed.                                 *)
LEMMA WildcardKeeps == PathsInv /\ Wildcard => PathsInv'
<1> SUFFICES ASSUME PathsInv, Wildcard PROVE PathsInv'
  OBVIOUS
<1>1. /\ pc = "expand" /\ segment \in 1..Len(pattern)
      /\ pattern[segment].kind # "literal"
      /\ pc' = "list" /\ todo' = paths /\ next' = {}
      /\ UNCHANGED <<tree, current, segment, paths, patternDropped, series,
                     stable, ever, changes, faults, missed, pattern>>
  BY Held DEF Wildcard, pattern
<1>2. TypeOK' /\ StableClosed'
  BY <1>1, Held DEF TypeOK, StableClosed
<1>3. ExpandInv'
  BY <1>1, Held DEF ExpandInv, Fits
<1>4. OnItsWay'
  <2> SUFFICES ASSUME NEW q \in stable, Fits(q, segment), ~Missed(q)
               PROVE  Parent(q) \in paths
    BY <1>1, MissedKept DEF OnItsWay, Fits
  <2>1. Len(q) = segment /\ \A k \in 1..segment : q[k] \in pattern[k].matches
    BY DEF Fits
  <2>2. q \in Seq(Names) /\ Len(q) > 0
    BY Held
  <2>3. Fits(Parent(q), segment - 1)
    BY <1>1, <2>1, <2>2, ParentParts DEF Fits
  <2> QED BY <1>1, <2>2, <2>3, Held, MissedBelow DEF StableClosed, OnItsWay
<1>5. SeriesInv' /\ LimitInv'
  <2>1. LimitInv'
    BY <1>1, Held DEF LimitInv, WithinMaxPaths
  <2> QED BY <1>1, <2>1, Held, SeriesKept
<1> QED BY <1>2, <1>3, <1>4, <1>5 DEF PathsInv

(* A path is listed: its children are found, or, if that fails, none.      *)
LEMMA ListKeeps ==
    ASSUME PathsInv, NEW p \in todo, List(p) \/ ListFails(p)
    PROVE  PathsInv'
<1>1. /\ pc = "list" /\ todo' = todo \ {p}
      /\ next' = next \/ next' = next \cup Matching(p)
      /\ UNCHANGED <<tree, pc, current, segment, paths, patternDropped, series,
                     stable, ever, changes, pattern>>
      /\ faults' \in 0..MaxFaults /\ missed \subseteq missed'
      /\ missed' \subseteq Seq(Names)
  BY Held DEF List, ListFails, DropOut, Keep, pattern, TypeOK
<1>2. \A q \in Matching(p) :
         /\ q \in tree /\ q \in ever /\ q \in Seq(Names)
         /\ Fits(q, segment)
  <2> SUFFICES ASSUME NEW q \in Matching(p)
               PROVE  /\ q \in tree /\ q \in ever /\ q \in Seq(Names)
                      /\ Fits(q, segment)
    OBVIOUS
  <2>1. /\ q \in tree /\ q[Len(q)] \in pattern[segment].matches
        /\ \E name \in Names : q = Append(p, name)
    BY DEF Matching, Children
  <2>2. PICK name \in Names : q = Append(p, name)
    BY <2>1
  <2>3. p \in paths /\ p \in Seq(Names)
    BY Held DEF TypeOK
  <2>4. Len(p) = segment - 1 /\ \A k \in 1..segment - 1 : p[k] \in pattern[k].matches
    BY <1>1, <2>3, Held DEF ExpandInv, Fits
  <2>5. Len(q) = Len(p) + 1 /\ \A k \in 1..Len(p) : q[k] = p[k]
    BY <2>2, <2>3, AppendParts
  <2>6. Len(q) = segment /\ \A k \in 1..segment : q[k] \in pattern[k].matches
    BY <1>1, <2>1, <2>4, <2>5, Held
  <2> QED BY <2>1, <2>6, Held DEF Fits
<1>3. \A q \in next' : q \in ever /\ q \in Seq(Names) /\ Fits(q, segment)
  BY <1>1, <1>2, Held DEF ExpandInv
<1>4. TypeOK'
  <2>1. next' \subseteq Seq(Names)
    BY <1>3
  <2> QED BY <1>1, <2>1, Held DEF TypeOK
<1>5. ExpandInv'
  BY <1>1, <1>3, Held DEF ExpandInv, Fits
<1>6. OnItsWay'
  <2> SUFFICES ASSUME NEW q \in stable, Fits(q, segment), ~Missed(q)
               PROVE  q \in next' \/ Parent(q) \in todo' \/ Missed(q)'
    BY <1>1, MissedKept DEF OnItsWay, Fits
  <2>1. q \in next \/ Parent(q) \in todo
    BY <1>1, Held DEF OnItsWay
  <2>2. CASE Parent(q) = p /\ List(p)
    <3>1. /\ q \in tree /\ q \in Seq(Names) /\ Len(q) > 0
          /\ Len(q) = segment /\ q[segment] \in pattern[segment].matches
      BY <1>1, Held DEF Fits
    <3>2. q \in Children(p)
      BY <2>2, <3>1, ParentParts DEF Children
    <3>3. q \in Matching(p)
      BY <3>1, <3>2 DEF Matching
    <3> QED BY <2>2, <3>3 DEF List, Keep
  <2>3. CASE Parent(q) = p /\ ListFails(p)
    <3>1. p \in missed'
      BY <2>3 DEF ListFails, DropOut
    <3>2. q \in Seq(Names) /\ Len(q) \in Nat /\ Len(q) > 0
      BY Held
    <3>3. Below(q, p)
      BY <2>3, <3>2, ParentParts DEF Below
    <3> QED BY <3>1, <3>3 DEF Missed
  <2> QED BY <1>1, <2>1, <2>2, <2>3
<1>7. SeriesInv' /\ StableClosed'
  BY <1>1, Held, SeriesKept DEF StableClosed
<1>8. LimitInv'
  BY <1>1, Held DEF LimitInv, WithinMaxPaths
<1> QED BY <1>4, <1>5, <1>6, <1>7, <1>8 DEF PathsInv

(* All paths are listed, and what they had is not too much.                *)
LEMMA SegmentDoneKeeps == PathsInv /\ SegmentDone => PathsInv'
<1> SUFFICES ASSUME PathsInv, SegmentDone PROVE PathsInv'
  OBVIOUS
<1>1. /\ pc = "list" /\ pc' = "expand" /\ todo = {} /\ ~TooMany
      /\ segment \in Nat \ {0} /\ segment <= Len(pattern)
      /\ paths' = next /\ segment' = segment + 1 /\ next' = {}
      /\ UNCHANGED <<tree, current, todo, patternDropped, series, stable, ever,
                     changes, faults, missed, pattern>>
  BY Held DEF SegmentDone, pattern, ExpandInv
<1>2. segment' - 1 = segment /\ segment' <= Len(pattern) + 1
  BY <1>1, Held
<1>3. TypeOK' /\ StableClosed'
  BY <1>1, Held DEF TypeOK, StableClosed
<1>4. ExpandInv'
  BY <1>1, <1>2, Held DEF ExpandInv, Fits
<1>5. OnItsWay'
  <2> SUFFICES ASSUME NEW q \in stable \cup {Root}, Fits(q, segment), ~Missed(q)
               PROVE  q \in next
    BY <1>1, <1>2, MissedKept DEF OnItsWay, Fits
  <2>1. q # Root
    BY <1>1, PathIsSeq DEF Fits
  <2> QED BY <1>1, <2>1, Held DEF OnItsWay
<1>6. SeriesInv'
  BY <1>1, Held, SeriesKept
<1>7. LimitInv'
  <2>1. MaxPaths > 0 => Cardinality(next) <= MaxPaths
    BY <1>1, NextIsFinite DEF TooMany
  <2> QED BY <1>1, <2>1, Held, NextIsFinite, LimitKept
<1> QED BY <1>3, <1>4, <1>5, <1>6, <1>7 DEF PathsInv

(* All segments are done: each path is to be checked.                      *)
LEMMA ExpandedKeeps == PathsInv /\ Expanded => PathsInv'
<1> SUFFICES ASSUME PathsInv, Expanded PROVE PathsInv'
  OBVIOUS
<1>1. /\ pc = "expand" /\ pc' = "confirm" /\ todo' = paths
      /\ pattern # <<>> /\ segment = Len(pattern) + 1
      /\ UNCHANGED <<tree, current, segment, paths, next, patternDropped, series,
                     stable, ever, changes, faults, missed, pattern>>
  BY Held DEF Expanded, pattern, ExpandInv
<1>2. segment - 1 = Len(pattern) /\ next = {}
  BY <1>1, Held DEF ExpandInv
<1>3. TypeOK' /\ StableClosed'
  BY <1>1, Held DEF TypeOK, StableClosed
<1>4. ExpandInv' /\ OnItsWay'
  BY <1>1, <1>2, Held DEF ExpandInv, OnItsWay, Fits, Missed
<1>5. SeriesInv' /\ LimitInv'
  <2>1. LimitInv'
    BY <1>1, Held DEF LimitInv, WithinMaxPaths
  <2> QED BY <1>1, <2>1, Held, SeriesKept
<1> QED BY <1>3, <1>4, <1>5 DEF PathsInv

(* A path is checked, and kept if it is a directory and Stat succeeds.     *)
LEMMA ConfirmKeeps ==
    ASSUME PathsInv, NEW p \in todo, Confirm(p) \/ ConfirmFails(p)
    PROVE  PathsInv'
<1>1. /\ pc = "confirm" /\ todo' = todo \ {p}
      /\ next' = next \/ (IsDir(p) /\ next' = next \cup {p})
      /\ UNCHANGED <<tree, pc, current, segment, paths, patternDropped, series,
                     stable, ever, changes, pattern>>
      /\ faults' \in 0..MaxFaults /\ missed \subseteq missed'
      /\ missed' \subseteq Seq(Names)
  <2>1. missed \subseteq Seq(Names) /\ p \in Seq(Names)
    BY Held DEF TypeOK
  <2>2. CASE Confirm(p) /\ IsDir(p)
    BY <2>1, <2>2, Held DEF Confirm, Keep, pattern
  <2>3. CASE Confirm(p) /\ ~IsDir(p)
    BY <2>1, <2>3, Held DEF Confirm, Keep, pattern
  <2>4. CASE ConfirmFails(p)
    BY <2>1, <2>4, Held DEF ConfirmFails, DropOut, Keep, pattern
  <2> QED BY <2>2, <2>3, <2>4
<1>2. /\ p \in paths /\ p \in Seq(Names) /\ Fits(p, Len(pattern))
      /\ Len(pattern) # 0
  <2>1. p \in paths /\ p \in Seq(Names) /\ Fits(p, Len(pattern)) /\ pattern # <<>>
    BY <1>1, Held DEF TypeOK, ExpandInv
  <2> QED BY <1>1, <2>1, Held, PatternParts DEF pattern
<1>3. p # Root
  BY <1>2, PathIsSeq DEF Fits
<1>4. IsDir(p) => p \in tree
  BY <1>3 DEF IsDir
<1>5. TypeOK' /\ StableClosed'
  BY <1>1, <1>2, Held DEF TypeOK, StableClosed
<1>6. ExpandInv'
  BY <1>1, <1>2, <1>4, Held DEF ExpandInv, Fits
<1>7. OnItsWay'
  <2> SUFFICES ASSUME NEW q \in stable, Fits(q, Len(pattern)), ~Missed(q)
               PROVE  q \in next' \cup todo' \/ Missed(q)'
    BY <1>1, MissedKept DEF OnItsWay, Fits
  <2>1. q \in next \cup todo /\ IsDir(q)
    BY <1>1, Held DEF OnItsWay, IsDir
  <2>2. CASE q = p /\ Confirm(p)
    BY <2>1, <2>2 DEF Confirm, Keep
  <2>3. CASE q = p /\ ConfirmFails(p)
    <3>1. p \in missed' /\ Len(p) \in Nat
      BY <1>2, <2>3, LenProperties DEF ConfirmFails, DropOut
    <3>2. Below(q, p)
      BY <2>3, <3>1 DEF Below
    <3> QED BY <3>1, <3>2 DEF Missed
  <2> QED BY <1>1, <2>1, <2>2, <2>3
<1>8. SeriesInv' /\ LimitInv'
  <2>1. LimitInv'
    BY <1>1, Held DEF LimitInv, WithinMaxPaths
  <2> QED BY <1>1, <2>1, Held, SeriesKept
<1> QED BY <1>5, <1>6, <1>7, <1>8 DEF PathsInv

(* The paths that are directories are to be read.                          *)
LEMMA ConfirmedKeeps == PathsInv /\ Confirmed => PathsInv'
<1> SUFFICES ASSUME PathsInv, Confirmed PROVE PathsInv'
  OBVIOUS
<1>1. /\ pc = "confirm" /\ pc' = "read" /\ todo = {}
      /\ paths' = next /\ todo' = next /\ next \subseteq paths
      /\ UNCHANGED <<tree, current, segment, next, patternDropped, series, stable,
                     ever, changes, faults, missed, pattern>>
  BY Held DEF Confirmed, pattern, ExpandInv
<1>2. TypeOK' /\ StableClosed'
  BY <1>1, Held DEF TypeOK, StableClosed
<1>3. ExpandInv' /\ OnItsWay'
  BY <1>1, Held DEF ExpandInv, OnItsWay, Fits, Missed
<1>4. SeriesInv'
  BY <1>1, Held, SeriesKept
<1>5. LimitInv'
  <2>1. IsFiniteSet(next) /\ Cardinality(next) <= Cardinality(paths)
    BY <1>1, Held, FS_Subset DEF LimitInv
  <2> QED BY <1>1, <2>1, Held, LimitKept
<1> QED BY <1>2, <1>3, <1>4, <1>5 DEF PathsInv

(* A path is read: if it is still there, it is one more series.            *)
LEMMA ReadKeeps ==
    ASSUME PathsInv, NEW p \in todo, Read(p)
    PROVE  PathsInv'
<1>1. /\ pc = "read" /\ todo' = todo \ {p}
      /\ series' = series \/ series' = series \cup {<<current, p>>}
      /\ UNCHANGED <<tree, pc, current, segment, paths, next, patternDropped,
                     stable, ever, changes, faults, missed, pattern>>
  BY DEF Read, pattern
<1>2. p \in paths /\ p \in Path /\ Fits(p, Len(pattern))
  BY <1>1, Held DEF TypeOK, ExpandInv
<1>3. TypeOK' /\ StableClosed'
  BY <1>1, <1>2, Held DEF TypeOK, StableClosed
<1>4. ExpandInv' /\ OnItsWay'
  BY <1>1, Held DEF ExpandInv, OnItsWay, Fits, Missed
<1>5. SeriesInv'
  <2>1. Matches(p, Patterns[current])
    BY <1>2, FitsIsMatches DEF pattern
  <2> QED BY <1>1, <1>2, <2>1, Held DEF SeriesInv
<1>6. LimitInv'
  <2>1. ASSUME NEW i \in 1..Len(Patterns), MaxPaths > 0
        PROVE  Cardinality({s \in series' : s[1] = i}) <= MaxPaths
    <3>1. CASE i # current
      <4>1. {s \in series' : s[1] = i} = {s \in series : s[1] = i}
        BY <1>1, <3>1
      <4> QED BY <2>1, <4>1, Held DEF LimitInv, WithinMaxPaths
    <3>2. CASE i = current
      <4> DEFINE f == [q \in paths |-> <<current, q>>]
      <4> DEFINE T == {f[q] : q \in paths}
      <4>1. IsFiniteSet(T) /\ Cardinality(T) <= Cardinality(paths)
        BY Held, ImageIsSmaller DEF LimitInv
      <4>2. {s \in series' : s[1] = i} \subseteq T
        BY <1>1, <1>3, <1>5, <3>2 DEF SeriesInv, TypeOK
      <4>3. Cardinality({s \in series' : s[1] = i}) <= Cardinality(T)
        BY <4>1, <4>2, FS_Subset
      <4>4. Cardinality(paths) <= MaxPaths
        BY <1>1, <2>1, Held DEF LimitInv
      <4>5. /\ Cardinality({s \in series' : s[1] = i}) \in Nat
            /\ Cardinality(T) \in Nat /\ Cardinality(paths) \in Nat
        BY <4>1, <4>2, Held, FS_Subset, FS_CardinalityType DEF LimitInv
      <4> QED BY <4>1, <4>3, <4>4, <4>5
    <3> QED BY <3>1, <3>2
  <2> QED BY <1>1, <2>1, Held DEF LimitInv, WithinMaxPaths
<1> QED BY <1>3, <1>4, <1>5, <1>6 DEF PathsInv

(* A pattern is dropped or done, a scrape starts, or the program does.     *)
LEMMA BeginningsKeep ==
    ASSUME PathsInv,
           \/ StartScrape \/ RefuseRoot \/ TooManyMatches \/ PatternDone \/ Restart
           \/ \E p \in todo : BadPattern(p)
    PROVE  PathsInv'
<1>1. patternDropped \in Nat /\ Len(Patterns) \in Nat /\ 1 \in 1..Len(Patterns) + 1
  BY PatternsAssumption, LenProperties, Held DEF TypeOK
<1>2. pc # "idle" => current \in Nat /\ current + 1 \in 1..Len(Patterns) + 1
  BY <1>1, Held
<1>3. CASE StartScrape
  BY <1>1, <1>3, BeginInv DEF StartScrape
<1>4. CASE Restart
  BY <1>1, <1>4, BeginInv DEF Restart
<1>5. CASE PatternDone
  <2>1. pc # "idle" /\ Begin(current + 1) /\ UNCHANGED <<patternDropped, series>>
    BY <1>5 DEF PatternDone
  <2> QED BY <1>1, <1>2, <2>1, BeginInv
<1>6. CASE RefuseRoot \/ TooManyMatches \/ \E p \in todo : BadPattern(p)
  <2>1. pc # "idle" /\ Drop
    BY <1>6 DEF RefuseRoot, TooManyMatches, BadPattern
  <2>2. Begin(current + 1) /\ series' = series /\ patternDropped' \in Nat
    BY <1>1, <2>1 DEF Drop
  <2> QED BY <1>2, <2>1, <2>2, BeginInv
<1> QED BY <1>3, <1>4, <1>5, <1>6

LEMMA PathsInit == Init => PathsInv
<1> SUFFICES ASSUME Init PROVE PathsInv
  OBVIOUS
<1>1. Len(Patterns) \in Nat
  BY PatternsAssumption, LenProperties
<1>2. TypeOK
  BY <1>1 DEF Init, TypeOK, PrefixClosed
<1>3. ExpandInv /\ OnItsWay /\ SeriesInv
  BY DEF Init, ExpandInv, OnItsWay, SeriesInv
<1>4. StableClosed
  BY DEF Init, StableClosed, PrefixClosed
<1>5. LimitInv
  <2>1. \A k \in 1..Len(Patterns) : {s \in series : s[1] = k} = {}
    BY DEF Init
  <2> QED BY <2>1, FS_EmptySet DEF Init, LimitInv, WithinMaxPaths
<1> QED BY <1>2, <1>3, <1>4, <1>5 DEF PathsInv

LEMMA PathsStep == PathsInv /\ [Next]_vars => PathsInv'
<1> SUFFICES ASSUME PathsInv, [Next]_vars PROVE PathsInv'
  OBVIOUS
<1>1. CASE Next
  BY <1>1, ChurnKeeps, LiteralKeeps, WildcardKeeps, ListKeeps, SegmentDoneKeeps,
     ExpandedKeeps, ConfirmKeeps, ConfirmedKeeps, ReadKeeps, BeginningsKeep
     DEF Next, CollectPaths
<1>2. CASE UNCHANGED vars
  BY <1>2 DEF vars, expandVars, PathsInv, TypeOK, ExpandInv, StableClosed,
              OnItsWay, SeriesInv, LimitInv, WithinMaxPaths, Fits, pattern,
              Missed
<1> QED BY <1>1, <1>2

-----------------------------------------------------------------------------
(* The inductive invariant, and what follows from it.                      *)

(* All that is held of a pattern matches it as far as it got, what was     *)
(* there all along is still on its way unless it was missed, and           *)
(* neither the paths nor the series of a pattern exceed the limit.         *)
THEOREM PathsInvariant == Spec => []PathsInv
BY PathsInit, PathsStep, PTL DEF Spec

(* The variables have their types, also while the tree changes.            *)
THEOREM PathsTypeCorrect == Spec => []TypeOK
<1>1. PathsInv => TypeOK
  BY DEF PathsInv
<1> QED BY <1>1, PathsInvariant, PTL

(* No pattern reads a cgroup it does not match, or that was gone before.   *)
THEOREM ReadsNothingElse == Spec => []NothingElse
<1>1. PathsInv => NothingElse
  BY Held DEF ExpandInv, NothingElse, MatchedIn, Fits
<1> QED BY <1>1, PathsInvariant, PTL

(* A pattern that is not dropped reads every cgroup it matches that was    *)
(* there all along, but for those whose check failed, or that lie below    *)
(* one whose listing failed (ExpandPattern, reader.go 184 and 209).        *)
THEOREM FailuresHideWhatIsBelow == Spec => []GapsAreBelowFailures
<1>1. PathsInv => GapsAreBelowFailures
  BY Held DEF OnItsWay, GapsAreBelowFailures, MatchedIn, Fits
<1> QED BY <1>1, PathsInvariant, PTL

(* A pattern sends series of no more cgroups than max_paths, although only *)
(* its wildcards are held against it.                                      *)
THEOREM PatternsWithinMaxPaths == Spec => []WithinMaxPaths
<1>1. PathsInv => WithinMaxPaths
  BY DEF PathsInv, LimitInv, WithinMaxPaths
<1> QED BY <1>1, PathsInvariant, PTL

Cause ==
    \/ pattern = <<>>
    \/ \E k \in 1..Len(pattern) :
          \/ pattern[k].kind = "bad"
          \/ /\ pattern[k].kind = "glob" /\ MaxPaths > 0
             /\ Cardinality(MatchedIn(ever, pattern, k)) > MaxPaths

(* The counter of dropped patterns grows where there is a cause only.      *)
LEMMA DropHasCause ==
    ASSUME PathsInv, Next, patternDropped' > patternDropped
    PROVE  Cause
<1>1. patternDropped \in Nat
  BY Held DEF TypeOK
<1>2. RefuseRoot \/ TooManyMatches \/ \E p \in todo : BadPattern(p)
  BY <1>1 DEF Next, CollectPaths, Churn, expandVars, StartScrape, Restart,
              Literal, Wildcard, List, ListFails, Keep, SegmentDone, Expanded,
              Confirm, ConfirmFails, DropOut, Confirmed, Read, PatternDone
<1>3. CASE RefuseRoot
  BY <1>3 DEF RefuseRoot, Cause
<1>4. pc = "list" => segment \in 1..Len(pattern)
  BY Held DEF ExpandInv
<1>5. CASE \E p \in todo : BadPattern(p)
  BY <1>4, <1>5 DEF BadPattern, Cause
<1>6. CASE TooManyMatches
  <2>1. pc = "list" /\ MaxPaths > 0 /\ Cardinality(next) > MaxPaths
    BY <1>6 DEF TooManyMatches, TooMany
  <2> DEFINE S == MatchedIn(ever, pattern, segment)
  <2>2. next \subseteq S /\ S \subseteq Path
    BY <2>1, Held DEF ExpandInv, Fits, MatchedIn
  <2>3. IsFiniteSet(S) /\ Cardinality(next) <= Cardinality(S)
    BY <2>2, FS_Subset
  <2>4. Cardinality(next) \in Nat /\ Cardinality(S) \in Nat
    BY <2>1, <2>3, NextIsFinite, FS_CardinalityType
  <2>5. Cardinality(S) > MaxPaths
    BY <2>1, <2>3, <2>4
  <2>6. pattern[segment].kind \in {"glob", "bad"}
    BY <1>4, <2>1, Held, PatternParts DEF ExpandInv, pattern
  <2> QED BY <1>4, <2>1, <2>5, <2>6 DEF Cause
<1> QED BY <1>2, <1>3, <1>5, <1>6

(* A pattern is dropped because it is the root, malformed or matches too   *)
(* many cgroups, and for no other reason.                                  *)
THEOREM DropsHaveCause == Spec => DroppedForCause
<1>1. PathsInv /\ [Next]_vars => [patternDropped' > patternDropped => Cause]_vars
  BY DropHasCause
<1>2. PathsInv /\ [Next]_vars =>
        [patternDropped' > patternDropped =>
          \/ pattern = <<>>
          \/ \E k \in 1..Len(pattern) :
                \/ pattern[k].kind = "bad"
                \/ /\ pattern[k].kind = "glob" /\ MaxPaths > 0
                   /\ Cardinality(MatchedIn(ever, pattern, k)) > MaxPaths]_vars
  BY <1>1 DEF Cause
<1> QED BY <1>2, PathsInvariant, PTL DEF Spec, DroppedForCause
=============================================================================

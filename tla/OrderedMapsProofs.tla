------------------------- MODULE OrderedMapsProofs -------------------------
(***************************************************************************)
(* What is in a map whose keys were set in order, for any number of        *)
(* settings: under each key the last value it was set to.                  *)
(*                                                                         *)
(* The proof that the map built step by step is what it should be takes    *)
(* the first step after which it is not (LeastNumber), since the induction *)
(* theorems of the library take an operator, which cannot be instantiated  *)
(* here.  The lemmas on numbers serve other modules as well.               *)
(***************************************************************************)
EXTENDS OrderedMaps, FiniteSetTheorems, WellFoundedInduction, TLAPS

-----------------------------------------------------------------------------
(* Numbers.                                                                *)

(* Among subsets of a finite set, some are minimal.                        *)
LEMMA SmallestSet ==
    ASSUME NEW S, IsFiniteSet(S), NEW F \in SUBSET SUBSET S, F # {}
    PROVE  \E T \in F : \A U \in F : U \subseteq T => U = T
<1>1. IsWellFoundedOn(StrictSubsetOrdering(S), F)
  <2>1. IsWellFoundedOn(StrictSubsetOrdering(S), FiniteSubsetsOf(S))
    BY FS_StrictSubsetOrderingWellFounded
  <2>2. F \subseteq FiniteSubsetsOf(S)
    BY FS_FiniteSubsetsOfFinite
  <2> QED BY <2>1, <2>2, IsWellFoundedOnSubset
<1>2. \E T \in F : \A U \in F : <<U, T>> \notin StrictSubsetOrdering(S)
  BY <1>1, WFMin
<1> QED BY <1>2 DEF StrictSubsetOrdering

(* So a set of natural numbers has a least one.                            *)
LEMMA LeastNumber ==
    ASSUME NEW S \in SUBSET Nat, S # {}
    PROVE  \E m \in S : \A n \in S : m <= n
<1>1. PICK top \in S : TRUE
  OBVIOUS
<1> DEFINE F == {0..m : m \in {n \in S : n <= top}}
           all == 0..top
<1>2. IsFiniteSet(all)
  BY FS_Interval
<1>3. F \in SUBSET SUBSET all /\ F # {}
  OBVIOUS
<1>4. PICK T \in F : \A U \in F : U \subseteq T => U = T
  <2> HIDE DEF F, all
  <2> QED BY <1>2, <1>3, SmallestSet
<1>5. PICK m \in S : m <= top /\ T = 0..m
  BY <1>4
<1>6. ASSUME NEW n \in S PROVE m <= n
  <2> SUFFICES ASSUME n < m PROVE FALSE
    OBVIOUS
  <2>1. 0..n \in F /\ 0..n \subseteq 0..m
    BY <1>5
  <2>2. m \notin 0..n /\ m \in 0..m
    OBVIOUS
  <2> QED BY <1>4, <1>5, <2>1, <2>2
<1> QED BY <1>6

(* And one that is bounded has a greatest one.                             *)
LEMMA GreatestNumber ==
    ASSUME NEW n \in Nat, NEW S \in SUBSET (0..n), S # {}
    PROVE  \E m \in S : \A i \in S : i <= m
<1> DEFINE D == {n - i : i \in S}
<1>1. D \in SUBSET Nat /\ D # {}
  <2>1. \A i \in S : n - i \in Nat
    OBVIOUS
  <2> QED BY <2>1
<1>2. PICK d \in D : \A e \in D : d <= e
  <2> HIDE DEF D
  <2> QED BY <1>1, LeastNumber
<1>3. PICK m \in S : d = n - m
  BY <1>2
<1>4. ASSUME NEW i \in S PROVE i <= m
  <2>1. n - i \in D /\ i \in 0..n /\ m \in 0..n
    OBVIOUS
  <2> QED BY <2>1, <1>2, <1>3
<1> QED BY <1>4

-----------------------------------------------------------------------------
(* Maps.                                                                   *)

(* Whatever is equal to itself as a function is one.                       *)
IsMap(map) == map = [k \in DOMAIN map |-> map[k]]

(* The i-th setting is the last that sets k.                               *)
SetAt(sets, k, i) ==
    /\ k \in DOMAIN sets[i]
    /\ \A j \in i + 1..Len(sets) : k \notin DOMAIN sets[j]

(* A map is what it was, with each key that was set at what it was set to  *)
(* last.                                                                   *)
LEMMA LastSetOverStays ==
    ASSUME NEW map, IsMap(map), NEW sets, Len(sets) \in Nat, NEW k
    PROVE  /\ IsMap(SetOver(map, sets))
           /\ k \in DOMAIN SetOver(map, sets) <=>
                 k \in DOMAIN map \/ \E i \in 1..Len(sets) : SetAt(sets, k, i)
           /\ \A i \in 1..Len(sets) :
                 SetAt(sets, k, i) => SetOver(map, sets)[k] = sets[i][k]
           /\ k \in DOMAIN SetOver(map, sets) =>
                 k \in DOMAIN map \/ \E i \in 1..Len(sets) : k \in DOMAIN sets[i]
<1> DEFINE n == Len(sets)
           at(key, m) == {i \in 1..m : key \in DOMAIN sets[i]}
           last(key, m) == CHOOSE i \in at(key, m) : \A j \in at(key, m) : j <= i
           keys(m) == UNION {DOMAIN sets[i] : i \in 1..m}
           val(key, m) == IF key \in keys(m) THEN sets[last(key, m)][key] ELSE map[key]
           closed == [m \in 0..n |-> [key \in DOMAIN map \cup keys(m) |-> val(key, m)]]
           next(f) == [i \in 0..n |->
              IF i = 0 THEN map ELSE SetAllOf(f[i - 1], sets[i])]
           after == CHOOSE f : f = next(f)
<1>1. ASSUME NEW m \in 0..n, NEW key, at(key, m) # {}
      PROVE  /\ last(key, m) \in at(key, m)
             /\ \A j \in at(key, m) : j <= last(key, m)
  <2>1. at(key, m) \in SUBSET (0..m) /\ m \in Nat
    OBVIOUS
  <2>2. \E i \in at(key, m) : \A j \in at(key, m) : j <= i
    <3> HIDE DEF at
    <3> QED BY <1>1, <2>1, GreatestNumber
  <2> HIDE DEF at
  <2> QED BY <2>2
<1>2. ASSUME NEW m \in 0..n, NEW key
      PROVE  at(key, m) # {} <=> key \in keys(m)
  OBVIOUS
<1>3. closed = next(closed)
  <2> SUFFICES ASSUME NEW m \in 0..n PROVE closed[m] = next(closed)[m]
    <3>1. closed = [m \in 0..n |-> closed[m]]
      <4> HIDE DEF keys, val
      <4> QED OBVIOUS
    <3> HIDE DEF closed
    <3>2. next(closed) = [m \in 0..n |-> next(closed)[m]]
      OBVIOUS
    <3> HIDE DEF next
    <3> QED BY <3>1, <3>2
  <2>1. CASE m = 0
    <3>1. keys(0) = {}
      OBVIOUS
    <3>2. closed[0] = [key \in DOMAIN map |-> map[key]]
      <4>1. closed[0] = [key \in DOMAIN map \cup keys(0) |-> val(key, 0)]
        OBVIOUS
      <4>2. \A key : val(key, 0) = map[key]
        <5> HIDE DEF keys, last
        <5> QED BY <3>1
      <4> HIDE DEF closed, val, keys
      <4> QED BY <3>1, <4>1, <4>2
    <3>3. closed[0] = map
      <4> HIDE DEF closed
      <4> QED BY <3>2 DEF IsMap
    <3> HIDE DEF closed
    <3> QED BY <2>1, <3>3
  <2>2. CASE m # 0
    <3>0. m - 1 \in 0..n /\ m \in 1..n
      BY <2>2
    <3>1. \A key : key \notin DOMAIN sets[m] => at(key, m) = at(key, m - 1)
      BY <3>0
    <3>2. keys(m) = keys(m - 1) \cup DOMAIN sets[m]
      BY <3>0
    <3>3. ASSUME NEW key \in DOMAIN sets[m] PROVE last(key, m) = m
      <4>1. m \in at(key, m) /\ \A j \in at(key, m) : j \in 1..m
        BY <3>0, <3>3
      <4>2. last(key, m) \in 1..m /\ m <= last(key, m)
        <5> HIDE DEF at, last
        <5> QED BY <1>1, <4>1
      <4> QED BY <4>2
    <3>4. \A key : key \notin DOMAIN sets[m] => last(key, m) = last(key, m - 1)
      BY <3>1
    <3>5. closed[m] = SetAllOf(closed[m - 1], sets[m])
      <4> HIDE DEF keys, last, at
      <4> QED BY <3>0, <3>2, <3>3, <3>4 DEF SetAllOf
    <3> HIDE DEF closed
    <3> QED BY <2>2, <3>5
  <2> QED BY <2>1, <2>2
<1>4. after = next(after)
  <2> HIDE DEF next, closed
  <2> QED BY <1>3
<1>5. after[n] = closed[n]
  <2> DEFINE bad == {m \in 0..n : after[m] # closed[m]}
  <2> SUFFICES ASSUME bad # {} PROVE FALSE
    <3> HIDE DEF after, closed
    <3> QED OBVIOUS
  <2>1. bad \in SUBSET Nat
    OBVIOUS
  <2>2. PICK m \in bad : \A o \in bad : m <= o
    <3> HIDE DEF bad
    <3> QED BY <2>1, LeastNumber
  <2>3. m \in 0..n /\ after[m] = next(after)[m] /\ closed[m] = next(closed)[m]
    <3> HIDE DEF next, after, closed
    <3> QED BY <1>3, <1>4, <2>2
  <2>4. after[m] # closed[m]
    BY <2>2
  <2> HIDE DEF after, closed
  <2>5. CASE m = 0
    BY <2>3, <2>4, <2>5
  <2>6. CASE m # 0
    <3>1. m - 1 \in 0..n /\ m - 1 < m
      BY <2>3, <2>6
    <3>2. after[m - 1] = closed[m - 1]
      BY <2>2, <3>1
    <3> QED BY <2>3, <2>4, <2>6, <3>2
  <2> QED BY <2>5, <2>6
<1>6. SetOver(map, sets) = after[n]
  BY DEF SetOver
<1>7. SetOver(map, sets) = [key \in DOMAIN map \cup keys(n) |-> val(key, n)]
  <2> HIDE DEF after
  <2> QED BY <1>5, <1>6
<1>8. ASSUME NEW i \in 1..n, SetAt(sets, k, i) PROVE k \in keys(n) /\ i = last(k, n)
  <2>1. i \in at(k, n) /\ n \in 0..n /\ k \in keys(n)
    BY <1>8 DEF SetAt
  <2>2. last(k, n) \in at(k, n) /\ i <= last(k, n)
    <3> HIDE DEF at, last
    <3> QED BY <1>1, <2>1
  <2> HIDE DEF last
  <2> QED BY <1>8, <2>1, <2>2 DEF SetAt
<1>9. ASSUME k \in keys(n) PROVE last(k, n) \in 1..n /\ SetAt(sets, k, last(k, n))
  <2>1. last(k, n) \in at(k, n) /\ \A j \in at(k, n) : j <= last(k, n)
    <3>1. n \in 0..n
      OBVIOUS
    <3> HIDE DEF at, last, keys
    <3> QED BY <3>1, <1>1, <1>2, <1>9
  <2> HIDE DEF last
  <2> QED BY <2>1 DEF SetAt
<1> HIDE DEF keys, last, at
<1>10. IsMap(SetOver(map, sets))
  BY <1>7 DEF IsMap
<1>11. DOMAIN SetOver(map, sets) = DOMAIN map \cup keys(n)
  BY <1>7
<1>12. ASSUME NEW i \in 1..n, SetAt(sets, k, i)
       PROVE  SetOver(map, sets)[k] = sets[i][k]
  BY <1>7, <1>8, <1>12
<1> QED BY <1>8, <1>9, <1>10, <1>11, <1>12 DEF SetAt

(* So a new map has what its keys were set to last.                        *)
LEMMA LastSetStays ==
    ASSUME NEW sets, Len(sets) \in Nat, NEW k
    PROVE  /\ IsMap(SetInOrder(sets))
           /\ k \in DOMAIN SetInOrder(sets) <=>
                 \E i \in 1..Len(sets) : SetAt(sets, k, i)
           /\ \A i \in 1..Len(sets) :
                 SetAt(sets, k, i) => SetInOrder(sets)[k] = sets[i][k]
<1>1. IsMap(NoKeys) /\ k \notin DOMAIN NoKeys
  BY DEF IsMap, NoKeys
<1> QED BY <1>1, LastSetOverStays DEF SetInOrder

(* A key that is set anywhere is set somewhere last.                       *)
LEMMA SomeSetIsLast ==
    ASSUME NEW sets, Len(sets) \in Nat, NEW k,
           NEW i \in 1..Len(sets), k \in DOMAIN sets[i]
    PROVE  \E j \in 1..Len(sets) : SetAt(sets, k, j)
<1> DEFINE at == {j \in 1..Len(sets) : k \in DOMAIN sets[j]}
<1>1. at \in SUBSET (0..Len(sets)) /\ at # {}
  OBVIOUS
<1>2. PICK last \in at : \A j \in at : j <= last
  <2> HIDE DEF at
  <2> QED BY <1>1, GreatestNumber
<1> QED BY <1>2 DEF SetAt
=============================================================================

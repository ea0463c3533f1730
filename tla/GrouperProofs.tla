---------------------------- MODULE GrouperProofs ----------------------------
(***************************************************************************)
(* Proofs about Grouper, for any processes, groups, paths and increments.  *)
(*                                                                         *)
(* CountsInv says where an increment is while it is on its way: in the     *)
(* groups of the scan, in the accumulator, or in both once accumulated.    *)
(* Of words it takes that a sum does not depend on when it wraps around,   *)
(* and that a word that stands for a negative number can be taken for it.  *)
(* PathsInv says what AddPath has seen so far, which is what makes the     *)
(* verdict on a group independent of the order of the updates.             *)
(* MembersInv says that a group has processes if updates went into it, and *)
(* SeriesInv that the threads it publishes are those in the accumulator;   *)
(* what a group keeps when it is empty, and why a thread's series falls,   *)
(* follow from them.                                                       *)
(***************************************************************************)
EXTENDS Grouper, TLAPS

USE PathsAssumption, NumbersAssumption

-----------------------------------------------------------------------------
(* Words.                                                                  *)
LEMMA WordType == /\ Word \in Nat /\ Word > 0
                  /\ 0 \in Words /\ Words \subseteq Nat
                  /\ Increments \subseteq Words
BY WordAssumption DEF Words

(* A multiple of Word that is less than Word is zero.                      *)
LEMMA NoMultiple ==
    ASSUME NEW k \in Int, NEW d \in Int, d < Word, -Word < d, d = Word * k
    PROVE  k = 0
<1>1. CASE k >= 1
  <2>1. Word * k >= Word
    BY <1>1, WordType
  <2> QED BY <2>1, WordType
<1>2. CASE k <= -1
  <2>1. Word * k <= -Word
    BY <1>2, WordType
  <2> QED BY <2>1, WordType
<1> QED BY <1>1, <1>2

LEMMA Division ==
    ASSUME NEW n \in Int
    PROVE  /\ n \div Word \in Int /\ n % Word \in 0..Word - 1
           /\ n = (Word * (n \div Word)) + (n % Word)
<1>1. Word \in Int /\ Word > 0
  BY WordType
<1> QED BY <1>1

LEMMA Remainder ==
    ASSUME NEW q \in Int, NEW r \in 0..Word - 1
    PROVE  ((Word * q) + r) % Word = r
<1> DEFINE n == (Word * q) + r
           k == q - (n \div Word)
           d == (n % Word) - r
<1>1. /\ n \div Word \in Int /\ n % Word \in 0..Word - 1
      /\ n = (Word * (n \div Word)) + (n % Word)
  BY WordType, Division
<1>2. k \in Int /\ d \in Int /\ d < Word /\ -Word < d
  BY <1>1, WordType
<1>3. Word * k = (Word * q) - (Word * (n \div Word))
  BY <1>1, WordType
<1>4. d = Word * k
  BY <1>1, <1>3, WordType
<1>5. k = 0
  <2> HIDE DEF k, d
  <2> QED BY <1>2, <1>4, NoMultiple
<1> QED BY <1>1, <1>4, <1>5, WordType

(* Add wraps around once at most.                                          *)
LEMMA AddWraps ==
    ASSUME NEW a \in Words, NEW b \in Words
    PROVE  /\ Add(a, b) \in Words
           /\ Add(a, b) = IF a + b < Word THEN a + b ELSE a + b - Word
<1>1. CASE a + b < Word
  <2>1. a + b \in 0..Word - 1 /\ a + b = (Word * 0) + (a + b)
    BY <1>1, WordType DEF Words
  <2> QED BY <1>1, <2>1, Remainder DEF Add, Words
<1>2. CASE ~(a + b < Word)
  <2>1. a + b - Word \in 0..Word - 1 /\ a + b = (Word * 1) + (a + b - Word)
    BY <1>2, WordType DEF Words
  <2> QED BY <1>2, <2>1, Remainder DEF Add, Words
<1> QED BY <1>1, <1>2

LEMMA AddInAnyOrder ==
    ASSUME NEW a \in Words, NEW b \in Words, NEW c \in Words
    PROVE  Add(Add(a, b), c) = Add(Add(a, c), b)
<1>1. /\ Add(a, b) \in Words /\ Add(a, c) \in Words
      /\ Add(a, b) = IF a + b < Word THEN a + b ELSE a + b - Word
      /\ Add(a, c) = IF a + c < Word THEN a + c ELSE a + c - Word
  BY AddWraps
<1>2. /\ Add(Add(a, b), c) = IF Add(a, b) + c < Word THEN Add(a, b) + c
                                                 ELSE Add(a, b) + c - Word
      /\ Add(Add(a, c), b) = IF Add(a, c) + b < Word THEN Add(a, c) + b
                                                 ELSE Add(a, c) + b - Word
  BY <1>1, AddWraps
<1> QED BY <1>1, <1>2, WordType DEF Words

LEMMA RemainderOfWord ==
    ASSUME NEW a \in Words
    PROVE  a % Word = a /\ Add(0, a) = a
<1>1. a \in 0..Word - 1 /\ a = (Word * 0) + a
  BY WordType DEF Words
<1> QED BY <1>1, Remainder DEF Add

(* To add a word is to add the number it stands for, negative or not.      *)
LEMMA AddSigned ==
    ASSUME NEW a \in Int, NEW w \in Words
    PROVE  /\ a % Word \in Words /\ Signed(w) \in Int
           /\ Add(a % Word, w) = (a + Signed(w)) % Word
<1> DEFINE q == a \div Word
           r == a % Word
<1>0. w \in 0..Word - 1 /\ Word \in Nat /\ Word > 0
  BY WordType DEF Words
<1>1. q \in Int /\ r \in 0..Word - 1 /\ a = (Word * q) + r
  BY Division
<1> HIDE DEF q, r
<1>2. PICK j \in {0, 1} : r + w - (Word * j) \in 0..Word - 1
  <2>1. CASE r + w < Word
    BY <1>0, <1>1, <2>1
  <2>2. CASE ~(r + w < Word)
    BY <1>0, <1>1, <2>2
  <2> QED BY <2>1, <2>2
<1>3. PICK i \in {0, 1} : Signed(w) = w - (Word * i)
  BY <1>0 DEF Signed
<1>4. Add(r, w) = r + w - (Word * j)
  <2>1. r + w = (Word * j) + (r + w - (Word * j))
    BY <1>0, <1>1, <1>2
  <2> QED BY <1>2, <2>1, Remainder DEF Add
<1>5. (a + Signed(w)) % Word = r + w - (Word * j)
  <2>1. /\ q + j - i \in Int
        /\ Word * (q + j - i) = (Word * q) + (Word * j) - (Word * i)
    BY <1>0, <1>1, <1>2, <1>3
  <2>2. a + Signed(w) = (Word * (q + j - i)) + (r + w - (Word * j))
    BY <1>0, <1>1, <1>2, <1>3, <2>1
  <2> QED BY <1>2, <2>1, <2>2, Remainder
<1>6. Signed(w) \in Int
  BY <1>0, <1>3
<1> QED BY <1>1, <1>4, <1>5, <1>6 DEF r, Words

(* Where a word falls, what was added is negative or has reached its end.  *)
LEMMA FallHasCause ==
    ASSUME NEW a \in Words, NEW m \in Int, Add(m % Word, a) < a
    PROVE  m < 0 \/ a + m >= Word
<1> SUFFICES ASSUME m >= 0, a + m < Word PROVE FALSE
  BY WordType DEF Words
<1>1. m \in Words
  BY WordType DEF Words
<1>2. Add(m % Word, a) = m + a
  <2>1. m % Word = m
    BY <1>1, RemainderOfWord
  <2>2. m + a < Word
    BY WordType DEF Words
  <2>3. Add(m, a) = m + a
    BY <1>1, <2>2, AddWraps
  <2> QED BY <2>1, <2>3
<1> QED BY <1>1, <1>2, WordType DEF Words

-----------------------------------------------------------------------------
(* groupadd.                                                               *)

LEMMA AddAmountsType ==
    ASSUME NEW grp \in Group, NEW u \in Update
    PROVE  /\ AddAmounts(grp, u) \in Group
           /\ AddAmounts(grp, u).counts = Add(grp.counts, u.latest)
           /\ AddAmounts(grp, u).procs = grp.procs + 1
           /\ AddAmounts(grp, u).threads = AddThreads(grp.threads, u.threads)
           /\ AddAmounts(grp, u).conflict = grp.conflict
           /\ AddAmounts(grp, u).path = grp.path
           /\ AddAmounts(grp, u).sawEmpty = grp.sawEmpty
<1>1. AddThreads(grp.threads, u.threads) \in Series
  <2> SUFFICES ASSUME NEW t \in ThreadNames
               PROVE  Plus(grp.threads[t], u.threads[t]) \in Words \cup {None}
    BY DEF AddThreads, Series
  <2>1. /\ grp.threads[t] \in Words \cup {None}
        /\ u.threads[t] \in Words \cup {None}
    BY WordType DEF Group, Series, Update
  <2> QED BY <2>1, AddWraps DEF Plus
<1>2. Earliest(grp.oldest, u.start) \in StartTimes \cup {ZeroTime}
  BY DEF Earliest, Group, Update
<1>3. AddOpenFDs(grp.openFDs, u.open) \in Nat
  <2>1. u.open \in Nat \cup {-1}
    BY DEF Update
  <2>2. grp.openFDs \in Nat
    BY DEF Group
  <2> QED BY <2>1, <2>2 DEF AddOpenFDs
<1>4. grp.procs + 1 \in Nat /\ Add(grp.counts, u.latest) \in Words
  <2>1. grp.procs \in Nat /\ grp.counts \in Words /\ u.latest \in Words
    BY WordType DEF Group, Update
  <2> QED BY <2>1, AddWraps
<1> QED BY <1>1, <1>2, <1>3, <1>4 DEF AddAmounts, Group

LEMMA GroupaddType ==
    ASSUME NEW grp \in Group, NEW u \in Update
    PROVE  /\ Groupadd(grp, u) \in Group
           /\ Groupadd(grp, u).counts = Add(grp.counts, u.latest)
           /\ Groupadd(grp, u).procs = grp.procs + 1
           /\ Groupadd(grp, u).threads = AddThreads(grp.threads, u.threads)
<1> DEFINE grp1 == AddAmounts(grp, u)
<1>1. /\ grp1 \in Group
      /\ grp1.counts = Add(grp.counts, u.latest)
      /\ grp1.procs = grp.procs + 1
      /\ grp1.threads = AddThreads(grp.threads, u.threads)
  BY AddAmountsType
<1>2. AddPath(grp1, u.path) \in Group
  BY <1>1 DEF AddPath, Group, Update
<1>3. /\ AddPath(grp1, u.path).counts = grp1.counts
      /\ AddPath(grp1, u.path).procs = grp1.procs
      /\ AddPath(grp1, u.path).threads = grp1.threads
  BY <1>1 DEF AddPath, Group
<1> QED BY <1>1, <1>2, <1>3 DEF Groupadd

-----------------------------------------------------------------------------
(* AddPath keeps what PathsInv says of a group, for any set S of the paths *)
(* seen before.                                                            *)
PathsSeen(grp, S) ==
    IF grp.conflict
    THEN \E x, y \in S : x # y
    ELSE /\ S \subseteq {grp.path}
         /\ grp.sawEmpty <=> NoPath \in S
         /\ grp.path # NoPath => grp.path \in S

LEMMA AddPathSeen ==
    ASSUME NEW grp \in Group, NEW path \in Paths \cup {NoPath}, NEW S,
           PathsSeen(grp, S)
    PROVE  PathsSeen(AddPath(grp, path), S \cup {path})
<1> DEFINE new == AddPath(grp, path)
<1>1. CASE grp.conflict
  BY <1>1 DEF AddPath, PathsSeen
<1>2. CASE ~grp.conflict /\ path = NoPath
  <2>1. /\ new.sawEmpty /\ new.path = grp.path
        /\ new.conflict = (grp.path # NoPath)
    BY <1>2 DEF AddPath, Group
  <2> QED BY <1>2, <2>1 DEF PathsSeen
<1>3. CASE ~grp.conflict /\ path # NoPath
  <2>1. /\ new.sawEmpty = grp.sawEmpty
        /\ new.path = (IF grp.path = NoPath THEN path ELSE grp.path)
        /\ new.conflict = \/ grp.path # NoPath /\ path # grp.path
                          \/ grp.sawEmpty
    BY <1>3 DEF AddPath, Group
  <2> QED BY <1>3, <2>1 DEF PathsSeen
<1> QED BY <1>1, <1>2, <1>3

LEMMA GroupaddSeen ==
    ASSUME NEW grp \in Group, NEW u \in Update, NEW S, PathsSeen(grp, S)
    PROVE  PathsSeen(Groupadd(grp, u), S \cup {u.path})
<1>1. PathsSeen(AddAmounts(grp, u), S)
  BY AddAmountsType DEF PathsSeen
<1>2. u.path \in Paths \cup {NoPath} /\ AddAmounts(grp, u) \in Group
  BY AddAmountsType DEF Update
<1> QED BY <1>1, <1>2, AddPathSeen DEF Groupadd

-----------------------------------------------------------------------------
LEMMA ZeroType == /\ ZeroGroup \in Group /\ NoThreads \in Series
                  /\ ZeroGroup.counts = 0 /\ ZeroGroup.procs = 0
                  /\ ~ZeroGroup.conflict /\ ~ZeroGroup.sawEmpty
                  /\ ZeroGroup.path = NoPath
                  /\ ZeroGroup.threads = NoThreads
                  /\ DOMAIN NoUpdates = {}
                  /\ NoUpdates \in UNION {[present -> Update] :
                                             present \in SUBSET Procs}
<1>1. NoThreads \in Series
  BY DEF NoThreads, Series
<1>2. ZeroGroup \in Group
  BY <1>1, WordType DEF ZeroGroup, Group, ZeroTime
<1>3. NoUpdates \in [{} -> Update] /\ {} \in SUBSET Procs
  BY DEF NoUpdates
<1> QED BY <1>1, <1>2, <1>3 DEF ZeroGroup, NoUpdates

(* Nothing was folded into the groups when groups() begins, or has ended.  *)
LEMMA NoGroupsInv ==
    ASSUME NoGroups
    PROVE  /\ \A g \in Groups : /\ groups'[g] = ZeroGroup
                                /\ groups'[g].counts = moved'[g] % Word
           /\ groups' \in [Groups -> Group] /\ moved' \in [Groups -> Int]
           /\ threadMoved' \in [Groups -> [ThreadNames -> Int]]
<1>1. 0 % Word = 0
  BY WordType, RemainderOfWord
<1> QED BY <1>1, ZeroType DEF NoGroups

LEMMA GrouperInit == Init => GrouperInv
<1> SUFFICES ASSUME Init PROVE GrouperInv
  OBVIOUS
<1>1. TypeOK
  <2>1. /\ updates \in UNION {[present -> Update] : present \in SUBSET Procs}
        /\ pending \in SUBSET DOMAIN updates
    BY ZeroType DEF Init
  <2>2. /\ groups \in [Groups -> Group] /\ published \in [Groups -> Group]
        /\ threadAccum \in [Groups -> Series]
    BY ZeroType DEF Init
  <2>3. /\ groupAccum \in [Groups -> Words] /\ delivered \in [Groups -> Words]
        /\ moved \in [Groups -> Int]
        /\ threadMoved \in [Groups -> [ThreadNames -> Int]]
    BY WordType DEF Init
  <2> QED BY <2>1, <2>2, <2>3 DEF Init, TypeOK
<1>2. CountsInv
  BY ZeroType, WordType, RemainderOfWord DEF Init, CountsInv
<1>3. PathsInv
  <2>1. \A g \in Groups : PathsOf(g) = {}
    BY ZeroType DEF Init, PathsOf, Folded
  <2> QED BY <2>1, ZeroType DEF Init, PathsInv
<1> QED BY <1>1, <1>2, <1>3 DEF GrouperInv

LEMMA ReportsStep == GrouperInv /\ TrackerReports => GrouperInv'
<1> SUFFICES ASSUME GrouperInv, TrackerReports PROVE GrouperInv'
  OBVIOUS
<1> USE DEF GrouperInv
<1>1. NoGroups
  BY DEF TrackerReports
<1>2. TypeOK'
  <2>1. updates' \in UNION {[present -> Update] : present \in SUBSET Procs}
    BY DEF TrackerReports
  <2> QED BY <1>1, <2>1, NoGroupsInv DEF TypeOK, TrackerReports
<1>3. CountsInv'
  <2>1. \A g \in Groups : groupAccum[g] \in Words
    BY DEF TypeOK
  <2> QED BY <1>1, <2>1, NoGroupsInv, ZeroType, RemainderOfWord
             DEF CountsInv, TrackerReports
<1>4. PathsInv'
  <2>1. \A g \in Groups : PathsOf(g)' = {}
    BY DEF TrackerReports, PathsOf, Folded
  <2> QED BY <1>1, <2>1, NoGroupsInv, ZeroType DEF PathsInv
<1> QED BY <1>2, <1>3, <1>4

LEMMA FoldStep == ASSUME NEW p \in Procs, GrouperInv, Fold(p) PROVE GrouperInv'
<1> USE DEF GrouperInv
<1> DEFINE u == updates[p]
           g0 == u.group
<1>1. u \in Update /\ g0 \in Groups
  BY DEF Fold, TypeOK, Update
<1>2. /\ Groupadd(groups[g0], u) \in Group
      /\ Groupadd(groups[g0], u).counts = Add(groups[g0].counts, u.latest)
      /\ Groupadd(groups[g0], u).procs = groups[g0].procs + 1
  BY <1>1, GroupaddType DEF TypeOK
<1>3. u.latest \in Words /\ \A t \in ThreadNames : u.threads[t] \in Words \cup {None}
  BY <1>1, WordType DEF Update
<1> HIDE DEF u, g0
<1>4. groups' = [groups EXCEPT ![g0] = Groupadd(groups[g0], u)]
  BY DEF Fold, u, g0
<1>5. /\ delivered' = [delivered EXCEPT ![g0] = Add(@, u.latest)]
      /\ moved' = [moved EXCEPT ![g0] = @ + Signed(u.latest)]
      /\ threadMoved' = [threadMoved EXCEPT ![g0] =
                            [t \in ThreadNames |->
                                IF u.threads[t] = None THEN @[t]
                                ELSE @[t] + Signed(u.threads[t])]]
  BY DEF Fold, u, g0
<1>6. TypeOK'
  <2>1. groups' \in [Groups -> Group] /\ delivered' \in [Groups -> Words]
    <3>1. Add(delivered[g0], u.latest) \in Words
      BY <1>1, <1>3, AddWraps DEF TypeOK
    <3> QED BY <1>1, <1>2, <1>4, <1>5, <3>1 DEF TypeOK
  <2>2. /\ pc' = pc /\ updates' = updates
        /\ pending' \in SUBSET DOMAIN updates'
    BY DEF Fold, TypeOK
  <2>3. UNCHANGED <<groupAccum, threadAccum, accumulated, published>>
    BY DEF Fold
  <2>4. removeEmptyGroups' \in BOOLEAN
    BY DEF Fold, TypeOK
  <2>5. moved' \in [Groups -> Int]
    <3>1. moved[g0] \in Int /\ Signed(u.latest) \in Int
      BY <1>1, <1>3, AddSigned DEF TypeOK
    <3> QED BY <1>1, <1>5, <3>1 DEF TypeOK
  <2>6. threadMoved' \in [Groups -> [ThreadNames -> Int]]
    <3>1. ASSUME NEW t \in ThreadNames, u.threads[t] # None
          PROVE  Signed(u.threads[t]) \in Int
      BY <1>3, <3>1, AddSigned
    <3>2. threadMoved \in [Groups -> [ThreadNames -> Int]]
      BY DEF TypeOK
    <3>3. [t \in ThreadNames |-> IF u.threads[t] = None THEN threadMoved[g0][t]
                                 ELSE threadMoved[g0][t] + Signed(u.threads[t])]
             \in [ThreadNames -> Int]
      BY <1>1, <3>1, <3>2
    <3> QED BY <1>5, <3>2, <3>3
  <2> QED BY <2>1, <2>2, <2>3, <2>4, <2>5, <2>6 DEF TypeOK
<1>7. CountsInv'
  <2> SUFFICES ASSUME NEW g \in Groups
               PROVE  /\ published'[g].counts = groupAccum'[g]
                      /\ groups'[g].procs = 0 => groups'[g].counts = 0
                      /\ pc' = "idle" => groupAccum'[g] = delivered'[g]
                      /\ pc' = "fold" => Add(groups'[g].counts, groupAccum'[g])
                                            = delivered'[g]
                      /\ groups'[g].counts = moved'[g] % Word
    BY DEF CountsInv
  <2>1. /\ pc = "fold" /\ pc' = "fold"
        /\ groupAccum' = groupAccum /\ published' = published
    BY DEF Fold
  <2>2. /\ groups[g].procs \in Nat /\ groups[g].counts \in Words
        /\ groupAccum[g] \in Words /\ delivered[g] \in Words /\ moved[g] \in Int
    BY DEF TypeOK, Group
  <2>3. /\ published[g].counts = groupAccum[g]
        /\ groups[g].procs = 0 => groups[g].counts = 0
        /\ Add(groups[g].counts, groupAccum[g]) = delivered[g]
        /\ groups[g].counts = moved[g] % Word
    BY <2>1 DEF CountsInv
  <2>4. CASE g = g0
    <3>1. groups'[g] = Groupadd(groups[g0], u)
      BY <1>1, <1>4, <2>4 DEF TypeOK
    <3>2. /\ delivered'[g] = Add(delivered[g], u.latest)
          /\ moved'[g] = moved[g] + Signed(u.latest)
      BY <1>1, <1>5, <2>4 DEF TypeOK
    <3>3. Add(groups'[g].counts, groupAccum[g]) = delivered'[g]
      BY <1>2, <1>3, <2>2, <2>3, <2>4, <3>1, <3>2, AddInAnyOrder
    <3>4. groups'[g].counts = moved'[g] % Word
      BY <1>2, <1>3, <2>2, <2>3, <2>4, <3>1, <3>2, AddSigned
    <3>5. groups'[g].procs # 0
      BY <1>2, <2>2, <2>4, <3>1
    <3> QED BY <2>1, <2>3, <3>3, <3>4, <3>5
  <2>5. CASE g # g0
    <3>1. /\ groups'[g] = groups[g] /\ delivered'[g] = delivered[g]
          /\ moved'[g] = moved[g]
      BY <1>4, <1>5, <2>5 DEF TypeOK
    <3> QED BY <2>1, <2>3, <3>1
  <2> QED BY <2>4, <2>5
<1>8. PathsInv'
  <2> SUFFICES ASSUME NEW g \in Groups
               PROVE  PathsSeen(groups'[g], PathsOf(g)')
    BY DEF PathsInv, PathsSeen
  <2>1. PathsSeen(groups[g], PathsOf(g))
    BY DEF PathsInv, PathsSeen
  <2>2. CASE g = g0
    <3>1. Folded(g)' = Folded(g) \cup {p}
      BY <2>2 DEF Fold, Folded, TypeOK, u, g0
    <3>2. PathsOf(g)' = PathsOf(g) \cup {u.path}
      BY <3>1 DEF PathsOf, Fold, u
    <3>3. groups'[g] = Groupadd(groups[g], u)
      BY <1>4, <2>2 DEF TypeOK
    <3>4. u.path \in Paths \cup {NoPath}
      BY <1>1 DEF Update
    <3>5. groups[g] \in Group
      BY DEF TypeOK
    <3> QED BY <1>1, <2>1, <3>2, <3>3, <3>4, <3>5, GroupaddSeen
  <2>3. CASE g # g0
    <3>1. Folded(g)' = Folded(g)
      BY <2>3 DEF Fold, Folded, TypeOK, u, g0
    <3>2. PathsOf(g)' = PathsOf(g)
      BY <3>1 DEF PathsOf, Fold
    <3>3. groups'[g] = groups[g]
      BY <1>4, <2>3 DEF TypeOK
    <3> QED BY <2>1, <3>2, <3>3
  <2> QED BY <2>2, <2>3
<1> QED BY <1>6, <1>7, <1>8

(* What is published of a group, and kept of it.                           *)
LEMMA TotalsType ==
    ASSUME TypeOK, NEW g \in Groups
    PROVE  /\ Total(g) \in Words /\ ThreadTotals(g) \in Series
           /\ [groups[g] EXCEPT !.counts = Total(g), !.threads = ThreadTotals(g)]
                 \in Group
           /\ [ZeroGroup EXCEPT !.counts = groupAccum[g]] \in Group
<1>1. groups[g] \in Group /\ groupAccum[g] \in Words /\ threadAccum[g] \in Series
  BY DEF TypeOK
<1>2. Total(g) \in Words
  BY <1>1, AddWraps DEF Group, Total
<1>3. ThreadTotals(g) \in Series
  <2> SUFFICES ASSUME NEW t \in ThreadNames, groups[g].threads[t] # None
               PROVE  Plus(groups[g].threads[t], threadAccum[g][t])
                         \in Words \cup {None}
    BY DEF ThreadTotals, Series
  <2>1. /\ groups[g].threads[t] \in Words
        /\ threadAccum[g][t] \in Words \cup {None}
    BY <1>1 DEF Group, Series
  <2> QED BY <2>1, AddWraps DEF Plus
<1>4. [groups[g] EXCEPT !.counts = Total(g), !.threads = ThreadTotals(g)] \in Group
  BY <1>1, <1>2, <1>3 DEF Group
<1>5. [ZeroGroup EXCEPT !.counts = groupAccum[g]] \in Group
  BY <1>1, ZeroType DEF Group
<1> QED BY <1>2, <1>3, <1>4, <1>5

LEMMA AccumulateStep == GrouperInv /\ Accumulate => GrouperInv'
<1> SUFFICES ASSUME GrouperInv, Accumulate PROVE GrouperInv'
  OBVIOUS
<1> USE DEF GrouperInv
<1>0. NoGroups
  BY DEF Accumulate
<1>1. TypeOK'
  <2>1. published' \in [Groups -> Group]
    <3>1. \A g \in Groups : published'[g] \in Group
      BY TotalsType, ZeroType DEF Accumulate
    <3> QED BY <3>1 DEF Accumulate
  <2>2. groupAccum' \in [Groups -> Words]
    BY TotalsType, WordType DEF Accumulate, TypeOK
  <2>3. threadAccum' \in [Groups -> Series]
    BY TotalsType, ZeroType DEF Accumulate, TypeOK
  <2>4. delivered' \in [Groups -> Words] /\ accumulated' \in SUBSET Groups
    BY WordType DEF Accumulate, TypeOK, Running
  <2>5. /\ groups' \in [Groups -> Group] /\ moved' \in [Groups -> Int]
        /\ threadMoved' \in [Groups -> [ThreadNames -> Int]]
    BY <1>0, NoGroupsInv
  <2>6. /\ removeEmptyGroups' \in BOOLEAN /\ pc' = "idle"
        /\ updates' = NoUpdates /\ pending' = {}
    BY DEF Accumulate, TypeOK
  <2>7. /\ updates' \in UNION {[present -> Update] : present \in SUBSET Procs}
        /\ pending' \in SUBSET DOMAIN updates'
    BY <2>6, ZeroType
  <2> QED BY <2>1, <2>2, <2>3, <2>4, <2>5, <2>6, <2>7 DEF TypeOK
<1>2. CountsInv'
  <2> SUFFICES ASSUME NEW g \in Groups
               PROVE  /\ published'[g].counts = groupAccum'[g]
                      /\ groupAccum'[g] = delivered'[g]
    BY <1>0, NoGroupsInv, ZeroType DEF CountsInv, Accumulate
  <2>1. /\ groups[g] \in Group /\ groups[g].procs \in Nat
        /\ groupAccum[g] \in Words
    BY DEF TypeOK, Group
  <2>2. /\ groups[g].procs = 0 => groups[g].counts = 0
        /\ Add(groups[g].counts, groupAccum[g]) = delivered[g]
    BY DEF CountsInv, Accumulate
  <2>3. CASE g \in Running
    <3>1. /\ groupAccum'[g] = Total(g)
          /\ published'[g] = [groups[g] EXCEPT !.counts = Total(g),
                                               !.threads = ThreadTotals(g)]
          /\ delivered'[g] = delivered[g]
      BY <2>3 DEF Accumulate, Empty
    <3>2. published'[g].counts = Total(g)
      BY <2>1, <3>1 DEF Group
    <3> QED BY <2>2, <3>1, <3>2 DEF Total
  <2>4. CASE g \notin Running
    <3>1. groups[g].counts = 0
      BY <2>1, <2>2, <2>4 DEF Running
    <3>2. CASE g \in Empty /\ removeEmptyGroups
      <4>1. /\ groupAccum'[g] = 0 /\ published'[g] = ZeroGroup
            /\ delivered'[g] = 0
        BY <2>4, <3>2 DEF Accumulate
      <4> QED BY <4>1, ZeroType
    <3>3. CASE ~(g \in Empty /\ removeEmptyGroups)
      <4>1. /\ groupAccum'[g] = groupAccum[g] /\ delivered'[g] = delivered[g]
            /\ published'[g] = [ZeroGroup EXCEPT !.counts = groupAccum[g]]
        BY <2>4, <3>3 DEF Accumulate
      <4>2. published'[g].counts = groupAccum[g]
        BY <4>1 DEF ZeroGroup
      <4>3. Add(0, groupAccum[g]) = groupAccum[g]
        BY <2>1, RemainderOfWord
      <4> QED BY <2>2, <3>1, <4>1, <4>2, <4>3
    <3> QED BY <3>2, <3>3
  <2> QED BY <2>3, <2>4
<1>3. PathsInv'
  <2>1. \A g \in Groups : PathsOf(g)' = {}
    BY ZeroType DEF PathsOf, Folded, Accumulate
  <2> QED BY <1>0, <2>1, NoGroupsInv, ZeroType DEF PathsInv
<1> QED BY <1>1, <1>2, <1>3

(* The invariants hold in every state: increments are where CountsInv says *)
(* and AddPath knows what PathsInv says, after any sequence of updates.    *)
THEOREM GrouperInvariant == Spec => []GrouperInv
<1>1. ASSUME GrouperInv, [Next]_vars PROVE GrouperInv'
  <2>1. CASE TrackerReports
    BY <1>1, <2>1, ReportsStep
  <2>2. ASSUME NEW p \in Procs, Fold(p) PROVE GrouperInv'
    BY <1>1, <2>2, FoldStep
  <2>3. CASE Accumulate
    BY <1>1, <2>3, AccumulateStep
  <2>4. CASE UNCHANGED vars
    <3>1. \A g \in Groups : PathsOf(g)' = PathsOf(g)
      BY <2>4 DEF vars, PathsOf, Folded
    <3>2. PathsInv'
      BY <1>1, <2>4, <3>1 DEF vars, GrouperInv, PathsInv
    <3>3. TypeOK' /\ CountsInv'
      BY <1>1, <2>4 DEF vars, GrouperInv, TypeOK, CountsInv
    <3> QED BY <3>2, <3>3 DEF GrouperInv
  <2> QED BY <1>1, <2>1, <2>2, <2>3, <2>4 DEF Next
<1> QED BY <1>1, GrouperInit, PTL DEF Spec

(* Between scans every group's counter is the sum of all increments that   *)
(* were folded into it since it is known, in whatever order, including     *)
(* those of processes that are gone (groupAccum, grouper.go 151-170).      *)
THEOREM NothingIsLost == Spec => []NothingLost
<1>1. GrouperInv => NothingLost
  BY DEF GrouperInv, CountsInv, NothingLost
<1> QED BY <1>1, GrouperInvariant, PTL

(* While its group stays, a counter goes down only if those of its         *)
(* processes did on balance, or at the end of the word: however the        *)
(* updates are ordered, and however often Sub and Add wrapped around       *)
(* (grouper.go 133).                                                       *)
THEOREM CountersFallWithCause == Spec => CountsFallWithCause
<1>1. ASSUME GrouperInv, [Next]_vars,
             NEW g \in accumulated \cap accumulated',
             published'[g].counts < published[g].counts
      PROVE  moved[g] < 0 \/ published[g].counts + moved[g] >= Word
  <2>0. g \in Groups
    BY <1>1 DEF GrouperInv, TypeOK
  <2>1. /\ published[g].counts \in Words /\ published[g].counts \in Nat
        /\ groups[g] \in Group /\ moved[g] \in Int
        /\ published[g].counts = groupAccum[g]
        /\ groups[g].counts = moved[g] % Word
    BY <1>1, <2>0, WordType DEF GrouperInv, TypeOK, CountsInv, Group
  <2>2. Accumulate
    <3>1. ~UNCHANGED published
      BY <1>1, <2>1
    <3> QED BY <1>1, <3>1 DEF Next, vars, TrackerReports, Fold
  <2>3. CASE g \in Running
    <3>1. published'[g] = [groups[g] EXCEPT !.counts = Total(g),
                                           !.threads = ThreadTotals(g)]
      BY <2>0, <2>2, <2>3 DEF Accumulate
    <3>2. published'[g].counts = Add(moved[g] % Word, published[g].counts)
      BY <2>1, <3>1 DEF Group, Total
    <3> QED BY <1>1, <2>1, <3>2, FallHasCause
  <2>4. CASE g \notin Running
    <3>1. published'[g] = [ZeroGroup EXCEPT !.counts = groupAccum[g]]
      BY <1>1, <2>0, <2>2, <2>4 DEF Accumulate
    <3>2. published'[g].counts = groupAccum[g]
      BY <3>1 DEF ZeroGroup
    <3> QED BY <1>1, <2>1, <3>2
  <2> QED BY <2>3, <2>4
<1>2. ASSUME GrouperInv, [Next]_vars
      PROVE  [\A g \in accumulated \cap accumulated' :
                published'[g].counts < published[g].counts =>
                    \/ moved[g] < 0
                    \/ published[g].counts + moved[g] >= Word]_vars
  BY <1>1, <1>2
<1> QED BY <1>2, GrouperInvariant, PTL DEF Spec, CountsFallWithCause

(* The verdict on the cgroup path of a group does not depend on the order  *)
(* of the updates: there is a conflict exactly if the processes differ.    *)
THEOREM ConflictFound == Spec => []ConflictIsDisagreement
<1>1. ASSUME GrouperInv, NEW g \in Groups
      PROVE  /\ groups[g].conflict = (\E x, y \in PathsOf(g) : x # y)
             /\ ~groups[g].conflict => PathsOf(g) \subseteq {groups[g].path}
  <2>1. groups[g].conflict \in BOOLEAN
    BY <1>1 DEF GrouperInv, TypeOK, Group
  <2>2. /\ groups[g].conflict => \E x, y \in PathsOf(g) : x # y
        /\ ~groups[g].conflict => PathsOf(g) \subseteq {groups[g].path}
    BY <1>1 DEF GrouperInv, PathsInv
  <2>3. PathsOf(g) \subseteq {groups[g].path} =>
           ~\E x, y \in PathsOf(g) : x # y
    OBVIOUS
  <2> QED BY <2>1, <2>2, <2>3
<1>2. GrouperInv => ConflictIsDisagreement
  BY <1>1 DEF ConflictIsDisagreement
<1> QED BY <1>2, GrouperInvariant, PTL

-----------------------------------------------------------------------------
(* A process more in a group is an update more folded into it.             *)
LEMMA MembersStep ==
    ASSUME GrouperInv, MembersInv, [Next]_vars
    PROVE  MembersInv'
<1>1. CASE TrackerReports
  <2>1. \A g \in Groups : Folded(g)' = {} /\ groups'[g].procs = 0
    BY <1>1, NoGroupsInv, ZeroType DEF TrackerReports, Folded
  <2> QED BY <2>1 DEF MembersInv
<1>2. ASSUME NEW p \in Procs, Fold(p) PROVE MembersInv'
  <2> SUFFICES ASSUME NEW g \in Groups
               PROVE  groups'[g].procs > 0 <=> Folded(g)' # {}
    BY DEF MembersInv
  <2>1. /\ updates[p] \in Update /\ updates[p].group \in Groups
        /\ groups[g] \in Group /\ groups[g].procs \in Nat /\ p \in DOMAIN updates
        /\ groups' = [groups EXCEPT ![updates[p].group] = Groupadd(@, updates[p])]
        /\ groups \in [Groups -> Group]
        /\ UNCHANGED updates /\ pending' = pending \ {p}
    BY <1>2 DEF Fold, GrouperInv, TypeOK, Update, Group
  <2>2. CASE g = updates[p].group
    <3>1. groups'[g] = Groupadd(groups[g], updates[p])
      BY <2>1, <2>2
    <3>2. groups'[g].procs = groups[g].procs + 1
      BY <2>1, <3>1, GroupaddType
    <3>3. p \in Folded(g)'
      BY <2>1, <2>2 DEF Folded
    <3> QED BY <2>1, <3>2, <3>3
  <2>3. CASE g # updates[p].group
    <3>1. groups'[g] = groups[g] /\ Folded(g)' = Folded(g)
      BY <2>1, <2>3 DEF Folded
    <3> QED BY <3>1 DEF MembersInv
  <2> QED BY <2>2, <2>3
<1>3. CASE UNCHANGED <<updates, pending, groups>>
  BY <1>3 DEF MembersInv, Folded
<1>4. CASE Accumulate
  <2>1. \A g \in Groups : Folded(g)' = {} /\ groups'[g].procs = 0
    BY <1>4, NoGroupsInv, ZeroType DEF Accumulate, Folded
  <2> QED BY <2>1 DEF MembersInv
<1> QED BY <1>1, <1>2, <1>3, <1>4 DEF Next, vars

(* The two halves of SeriesInv.                                            *)
LEMMA HistoryStep ==
    ASSUME GrouperInv, SeriesInv, [Next]_vars, NEW g \in Groups,
           NEW t \in ThreadNames, published'[g].threads[t] # None
    PROVE  threadAccum'[g][t] = published'[g].threads[t]
<1>1. CASE UNCHANGED <<published, threadAccum>>
  BY <1>1 DEF SeriesInv
<1>2. CASE Accumulate
  <2>1. groups[g] \in Group /\ ZeroGroup.threads[t] = None
    BY DEF GrouperInv, TypeOK, ZeroGroup, NoThreads
  <2>2. CASE g \in Running
    BY <1>2, <2>1, <2>2 DEF Accumulate, Group
  <2>3. CASE g \notin Running
    <3>1. published'[g].threads = ZeroGroup.threads
      BY <1>2, <2>3 DEF Accumulate, ZeroGroup
    <3> QED BY <2>1, <3>1
  <2> QED BY <2>2, <2>3
<1> QED BY <1>1, <1>2 DEF Next, TrackerReports, Fold, vars

SeriesOfScan(series, sum) == IF series = None THEN sum = 0 ELSE series = sum % Word

LEMMA ScanStep ==
    ASSUME GrouperInv, SeriesInv, [Next]_vars, NEW g \in Groups, NEW t \in ThreadNames
    PROVE  SeriesOfScan(groups'[g].threads[t], threadMoved'[g][t])
<1>0. /\ SeriesOfScan(groups[g].threads[t], threadMoved[g][t])
      /\ groups[g] \in Group /\ threadMoved[g][t] \in Int
      /\ groups[g].threads[t] \in Words \cup {None}
  BY DEF SeriesInv, SeriesOfScan, GrouperInv, TypeOK, Group, Series
<1>1. CASE NoGroups
  BY <1>1, NoGroupsInv, ZeroType DEF NoGroups, NoThreads, SeriesOfScan
<1>2. ASSUME NEW p \in Procs, Fold(p)
      PROVE  SeriesOfScan(groups'[g].threads[t], threadMoved'[g][t])
  <2> DEFINE u == updates[p]
             g0 == u.group
  <2>1. /\ u \in Update /\ g0 \in Groups /\ u.threads[t] \in Words \cup {None}
        /\ groups \in [Groups -> Group]
        /\ threadMoved \in [Groups -> [ThreadNames -> Int]]
    <3>1. /\ u \in Update /\ groups \in [Groups -> Group]
          /\ threadMoved \in [Groups -> [ThreadNames -> Int]]
      BY <1>2 DEF Fold, GrouperInv, TypeOK
    <3>2. /\ u.group \in Groups
          /\ u.threads \in [ThreadNames -> Increments \cup {None}]
      BY <3>1 DEF Update
    <3> QED BY <3>1, <3>2, WordType
  <2>2. /\ groups' = [groups EXCEPT ![g0] = Groupadd(groups[g0], u)]
        /\ threadMoved' = [threadMoved EXCEPT ![g0] =
                              [n \in ThreadNames |->
                                  IF u.threads[n] = None THEN @[n]
                                  ELSE @[n] + Signed(u.threads[n])]]
    BY <1>2 DEF Fold
  <2> HIDE DEF u, g0
  <2>3. CASE g # g0
    BY <1>0, <2>1, <2>2, <2>3
  <2>4. CASE g = g0
    <3>1. groups'[g].threads[t] = Plus(groups[g].threads[t], u.threads[t])
      <4>1. groups'[g] = Groupadd(groups[g], u)
        BY <2>1, <2>2, <2>4
      <4>2. groups'[g].threads = AddThreads(groups[g].threads, u.threads)
        BY <1>0, <2>1, <4>1, GroupaddType
      <4> QED BY <4>2 DEF AddThreads
    <3>2. threadMoved'[g][t] = IF u.threads[t] = None THEN threadMoved[g][t]
                               ELSE threadMoved[g][t] + Signed(u.threads[t])
      BY <2>1, <2>2, <2>4
    <3>3. CASE u.threads[t] = None
      BY <1>0, <3>1, <3>2, <3>3 DEF Plus
    <3>4. CASE u.threads[t] # None /\ groups[g].threads[t] # None
      <4>1. /\ groups[g].threads[t] \in Words /\ u.threads[t] \in Words
            /\ groups'[g].threads[t] = Add(groups[g].threads[t], u.threads[t])
            /\ groups'[g].threads[t] \in Words
        BY <1>0, <2>1, <3>1, <3>4, AddWraps DEF Plus
      <4>2. groups'[g].threads[t] = threadMoved'[g][t] % Word
        BY <1>0, <3>2, <3>4, <4>1, AddSigned DEF SeriesOfScan
      <4>3. groups'[g].threads[t] # None
        BY <4>1, WordType DEF None
      <4> QED BY <4>2, <4>3 DEF SeriesOfScan
    <3>5. CASE u.threads[t] # None /\ groups[g].threads[t] = None
      <4>1. u.threads[t] \in Words /\ groups'[g].threads[t] = u.threads[t]
        BY <2>1, <3>1, <3>5 DEF Plus
      <4>2. threadMoved'[g][t] = Signed(u.threads[t])
        <5>1. threadMoved[g][t] = 0
          BY <1>0, <3>5 DEF SeriesOfScan
        <5>2. Signed(u.threads[t]) \in Int
          BY <4>1, AddSigned
        <5> QED BY <3>2, <3>5, <5>1, <5>2
      <4>3. u.threads[t] = Signed(u.threads[t]) % Word
        <5>1. Add(0 % Word, u.threads[t]) = (0 + Signed(u.threads[t])) % Word
          BY <4>1, AddSigned
        <5>2. 0 % Word = 0 /\ Add(0, u.threads[t]) = u.threads[t]
          BY <4>1, WordType, RemainderOfWord
        <5>3. 0 + Signed(u.threads[t]) = Signed(u.threads[t])
          BY <4>1, AddSigned
        <5> QED BY <5>1, <5>2, <5>3
      <4> QED BY <3>5, <4>1, <4>2, <4>3 DEF SeriesOfScan
    <3> QED BY <3>3, <3>4, <3>5
  <2> QED BY <2>3, <2>4
<1>3. CASE UNCHANGED <<groups, threadMoved>>
  BY <1>0, <1>3
<1> QED BY <1>1, <1>2, <1>3 DEF Next, TrackerReports, Accumulate, vars

LEMMA SeriesStep ==
    ASSUME GrouperInv, SeriesInv, [Next]_vars
    PROVE  SeriesInv'
BY HistoryStep, ScanStep DEF SeriesInv, SeriesOfScan

(* An empty group keeps its counter and nothing else, unless empty groups  *)
(* are removed; whoever has a process is there (grouper.go 133).           *)
THEOREM EmptyGroupsStay == Spec => EmptyGroupsKeepCounts
<1>1. Init => MembersInv
  BY ZeroType DEF Init, MembersInv, Folded
<1>2. ASSUME GrouperInv, MembersInv, Accumulate, NEW g \in Groups
      PROVE  IF Folded(g) # {}
             THEN g \in accumulated' /\ published'[g].procs > 0
             ELSE /\ g \in accumulated' <=> g \in accumulated /\ ~removeEmptyGroups
                  /\ g \in accumulated' =>
                        published'[g] = [ZeroGroup EXCEPT
                                            !.counts = published[g].counts]
  <2>1. g \in Running <=> Folded(g) # {}
    BY <1>2 DEF MembersInv, Running
  <2>2. published[g].counts = groupAccum[g] /\ groups[g] \in Group
    BY <1>2 DEF GrouperInv, CountsInv, TypeOK
  <2>3. CASE g \in Running
    <3>1. g \in accumulated'
      BY <1>2, <2>3 DEF Accumulate, Empty
    <3>2. published'[g].procs = groups[g].procs
      BY <1>2, <2>2, <2>3 DEF Accumulate, Group
    <3> QED BY <2>1, <2>3, <3>1, <3>2 DEF Running
  <2>4. CASE g \notin Running
    BY <1>2, <2>1, <2>2, <2>4 DEF Accumulate, Empty
  <2> QED BY <2>3, <2>4
<1>3. GrouperInv /\ MembersInv /\ [Next]_vars =>
         [Accumulate =>
             \A g \in Groups :
                IF Folded(g) # {}
                THEN g \in accumulated' /\ published'[g].procs > 0
                ELSE /\ g \in accumulated' <=> g \in accumulated
                                               /\ ~removeEmptyGroups
                     /\ g \in accumulated' =>
                           published'[g] = [ZeroGroup EXCEPT
                                               !.counts = published[g].counts]]_vars
  BY <1>2
<1>4. GrouperInv /\ MembersInv /\ [Next]_vars => MembersInv'
  BY MembersStep
<1> QED BY <1>1, <1>3, <1>4, GrouperInvariant, PTL DEF Spec, EmptyGroupsKeepCounts

(* From one result that has a thread name to the next, its counter goes    *)
(* down only if those of its threads did on balance, or at the end of the  *)
(* word (threads(), grouper.go 187-222).                                   *)
THEOREM SeriesFallWithCause == Spec => ThreadsFallWithCause
<1>1. Init => SeriesInv
  BY ZeroType DEF Init, SeriesInv, NoThreads
<1>2. ASSUME GrouperInv, SeriesInv, [Next]_vars,
             NEW g \in accumulated \cap accumulated', NEW t \in ThreadNames,
             published[g].threads[t] # None, published'[g].threads[t] # None,
             published'[g].threads[t] < published[g].threads[t]
      PROVE  \/ threadMoved[g][t] < 0
             \/ published[g].threads[t] + threadMoved[g][t] >= Word
  <2>1. /\ g \in Groups /\ groups[g] \in Group
        /\ published[g].threads[t] \in Words /\ threadMoved[g][t] \in Int
        /\ groups[g].threads[t] \in Words \cup {None}
        /\ threadAccum[g][t] = published[g].threads[t]
    BY <1>2 DEF GrouperInv, TypeOK, Group, Series, SeriesInv
  <2>2. Accumulate
    <3>1. ~UNCHANGED published
      <4>1. published[g].threads[t] \in Int
        <5>1. Words \subseteq Int
          BY WordType
        <5> QED BY <2>1, <5>1
      <4>2. ~(published[g].threads[t] < published[g].threads[t])
        BY <4>1
      <4> QED BY <1>2, <4>2
    <3> QED BY <1>2, <3>1 DEF Next, vars, TrackerReports, Fold
  <2>3. g \in Running
    BY <1>2, <2>1, <2>2 DEF Accumulate, ZeroGroup, NoThreads
  <2>4. published'[g].threads[t] = ThreadTotals(g)[t]
    BY <2>1, <2>2, <2>3 DEF Accumulate, Group
  <2>5. groups[g].threads[t] # None
    BY <1>2, <2>4 DEF ThreadTotals
  <2>6. groups[g].threads[t] = threadMoved[g][t] % Word
    BY <1>2, <2>1, <2>5 DEF SeriesInv
  <2>7. published'[g].threads[t]
           = Add(threadMoved[g][t] % Word, published[g].threads[t])
    BY <1>2, <2>1, <2>4, <2>5, <2>6 DEF ThreadTotals, Plus
  <2> QED BY <1>2, <2>1, <2>7, FallHasCause
<1>3. GrouperInv /\ SeriesInv /\ [Next]_vars =>
         [\A g \in accumulated \cap accumulated', t \in ThreadNames :
             LET was == published[g].threads[t]
                 is  == published'[g].threads[t]
             IN  was # None /\ is # None /\ is < was =>
                     threadMoved[g][t] < 0 \/ was + threadMoved[g][t] >= Word]_vars
  BY <1>2
<1>4. GrouperInv /\ SeriesInv /\ [Next]_vars => SeriesInv'
  BY SeriesStep
<1> QED BY <1>1, <1>3, <1>4, GrouperInvariant, PTL DEF Spec, ThreadsFallWithCause
=============================================================================

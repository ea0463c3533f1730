---------------------------- MODULE NamerProofs ----------------------------
(***************************************************************************)
(* Proofs about Namer, for any config, any number of items, rules, regexps *)
(* and groups, and any processes in any order.                             *)
(*                                                                         *)
(* The captures of an item outlive the process they are from.  CapturesInv *)
(* says that they are under names of the item's own groups: since an item  *)
(* that matches has written all of those anew, in the order of its regexps *)
(* (LastSetOverStays), no name has anything of another process in it.      *)
(***************************************************************************)
EXTENDS Namer, OrderedMapsProofs

-----------------------------------------------------------------------------
(* Numbers and types.                                                      *)

LEMMA MinOf ==
    ASSUME NEW S \in SUBSET Nat, S # {}
    PROVE  Min(S) \in S /\ \A i \in S : Min(S) <= i
BY LeastNumber DEF Min

LEMMA MaxOf ==
    ASSUME NEW n \in Nat, NEW S \in SUBSET (0..n), S # {}
    PROVE  Max(S) \in S /\ \A i \in S : i <= Max(S)
<1>1. \E m \in S : \A i \in S : i <= m
  BY GreatestNumber
<1>2. \A m \in S : (\A i \in S : i <= m) <=> (\A i \in S : m >= i)
  OBVIOUS
<1> QED BY <1>1, <1>2 DEF Max

(* The parts of an item.                                                   *)
LEMMA ItemParts ==
    ASSUME NEW s \in Settings, NEW i \in DOMAIN s.items
    PROVE  /\ s.items[i] \in MatcherGroup
           /\ DOMAIN s.items = 1..Len(s.items) /\ Len(s.items) \in Nat
           /\ \A r \in ToSet(s.items[i].cmdline) : GroupNames(r) \in Seq(STRING)
<1>1. s.items \in Seq(MatcherGroup) /\ s.items[i] \in ToSet(s.items)
  BY SettingsAssumption DEF ToSet
<1> QED BY <1>1, SettingsAssumption

-----------------------------------------------------------------------------
(* Matching.                                                               *)

(* An executable is found by its base name, under the one rule that has it.*)
LEMMA ExesByRule ==
    ASSUME NEW rules \in Seq(STRING), NEW b
    PROVE  /\ b \in DOMAIN Exes(rules) <=>
                 \E i \in 1..Len(rules) : RuleBase(rules[i]) = b
           /\ b \in DOMAIN Exes(rules) =>
                 \E i \in 1..Len(rules) :
                    /\ RuleBase(rules[i]) = b
                    /\ Exes(rules)[b] = IF Slashed(rules[i]) THEN rules[i] ELSE Empty
<1> DEFINE val(e) == IF Slashed(e) THEN e ELSE Empty
           sets == [i \in 1..Len(rules) |-> Setting(TRUE, RuleBase(rules[i]), val(rules[i]))]
<1>1. Len(sets) = Len(rules) /\ Len(rules) \in Nat
  OBVIOUS
<1>2. \A i \in 1..Len(rules) :
         /\ b \in DOMAIN sets[i] <=> RuleBase(rules[i]) = b
         /\ b \in DOMAIN sets[i] => sets[i][b] = val(rules[i])
  BY DEF Setting
<1>3. Exes(rules) = SetInOrder(sets)
  BY DEF Exes
<1> HIDE DEF sets, val
<1>4. /\ b \in DOMAIN SetInOrder(sets) <=> \E i \in 1..Len(sets) : SetAt(sets, b, i)
      /\ \A i \in 1..Len(sets) :
            SetAt(sets, b, i) => SetInOrder(sets)[b] = sets[i][b]
  BY <1>1, LastSetStays
<1>5. \A i \in 1..Len(sets) : b \in DOMAIN sets[i] =>
         \E j \in 1..Len(sets) : SetAt(sets, b, j)
  BY <1>1, SomeSetIsLast
<1>6. \A i \in 1..Len(sets) : SetAt(sets, b, i) => b \in DOMAIN sets[i]
  BY DEF SetAt
<1> QED BY <1>1, <1>2, <1>3, <1>4, <1>5, <1>6 DEF val

(* So exe matches as documented, unless rules share a base name.           *)
LEMMA ExeDocumented ==
    ASSUME NEW item \in MatcherGroup, NEW p, ~SharedBase(item), p.argv # <<>>,
           NEW exe, exe = p.argv[1]
    PROVE  (/\ Base(exe) \in DOMAIN Exes(item.exe)
            /\ Exes(item.exe)[Base(exe)] \in {Empty, exe})
              <=> \E e \in ToSet(item.exe) :
                     IF Slashed(e) THEN p.argv[1] = e ELSE Base(p.argv[1]) = e
<1> DEFINE rules == item.exe
<1>1. rules \in Seq(STRING) /\ DOMAIN rules = 1..Len(rules)
  BY DEF MatcherGroup
<1>2. \A e : e \in ToSet(rules) <=> \E i \in 1..Len(rules) : e = rules[i]
  BY <1>1 DEF ToSet
<1>3. \A i, j \in 1..Len(rules) :
         RuleBase(rules[i]) = RuleBase(rules[j]) => rules[i] = rules[j]
  BY <1>1 DEF SharedBase
<1>4. /\ Base(exe) \in DOMAIN Exes(rules) <=>
            \E i \in 1..Len(rules) : RuleBase(rules[i]) = Base(exe)
      /\ Base(exe) \in DOMAIN Exes(rules) =>
            \E i \in 1..Len(rules) :
               /\ RuleBase(rules[i]) = Base(exe)
               /\ Exes(rules)[Base(exe)] = IF Slashed(rules[i]) THEN rules[i] ELSE Empty
  BY <1>1, ExesByRule
<1> HIDE DEF rules
<1>5. ASSUME Base(exe) \in DOMAIN Exes(rules), Exes(rules)[Base(exe)] \in {Empty, exe}
      PROVE  \E e \in ToSet(rules) : IF Slashed(e) THEN exe = e ELSE Base(exe) = e
  BY <1>2, <1>4, <1>5, SlashedAssumption DEF RuleBase
<1>6. ASSUME NEW e \in ToSet(rules), IF Slashed(e) THEN exe = e ELSE Base(exe) = e
      PROVE  /\ Base(exe) \in DOMAIN Exes(rules)
             /\ Exes(rules)[Base(exe)] \in {Empty, exe}
  <2>1. RuleBase(e) = Base(exe)
    BY <1>6 DEF RuleBase
  <2>2. Exes(rules)[Base(exe)] = IF Slashed(e) THEN e ELSE Empty
    BY <1>2, <1>3, <1>4, <2>1
  <2> QED BY <1>2, <1>4, <1>6, <2>1, <2>2
<1> QED BY <1>5, <1>6 DEF rules

(* The regexps found are all of them exactly if each is.                   *)
LEMMA FoundAll ==
    ASSUME NEW item \in MatcherGroup, NEW p
    PROVE  /\ Found(Matcher(item), p) \in 0..Len(item.cmdline)
           /\ Found(Matcher(item), p) = Len(item.cmdline) <=>
                 \A r \in ToSet(item.cmdline) : Submatch(r, p.argv) # <<>>
<1> DEFINE rs == item.cmdline
           missed == {i \in DOMAIN rs : Submatch(rs[i], p.argv) = <<>>}
<1>1. rs \in Seq(STRING) /\ DOMAIN rs = 1..Len(rs) /\ Len(rs) \in Nat
  BY DEF MatcherGroup
<1>2. Found(Matcher(item), p) = IF missed = {} THEN Len(rs) ELSE Min(missed) - 1
  BY DEF Found, Matcher
<1>3. missed = {} <=> \A r \in ToSet(rs) : Submatch(r, p.argv) # <<>>
  BY DEF ToSet
<1>4. missed \in SUBSET (1..Len(rs)) /\ missed \in SUBSET Nat
  BY <1>1
<1>5. missed # {} => Min(missed) \in 1..Len(rs)
  <2> HIDE DEF missed
  <2> QED BY <1>4, MinOf
<1> HIDE DEF missed, rs
<1>6. /\ Found(Matcher(item), p) \in 0..Len(rs)
      /\ Found(Matcher(item), p) = Len(rs) <=> missed = {}
  BY <1>1, <1>2, <1>5
<1> QED BY <1>3, <1>6 DEF rs

(* An item matches as documented, unless rules share a base name.          *)
LEMMA MatchIsDocumented ==
    ASSUME NEW item \in MatcherGroup, NEW p, ~SharedBase(item)
    PROVE  Match(Matcher(item), p) <=> Documented(item, p)
<1>1. CommMatch(Matcher(item), p) <=> ("comm" \in item.has => p.comm \in ToSet(item.comm))
  BY DEF CommMatch, Matcher
<1>2. ExeMatch(Matcher(item), p) <=>
         ("exe" \in item.has =>
            /\ p.argv # <<>>
            /\ \E e \in ToSet(item.exe) :
                  IF Slashed(e) THEN p.argv[1] = e ELSE Base(p.argv[1]) = e)
  <2>1. ExeMatch(Matcher(item), p) <=>
           ("exe" \in item.has =>
              /\ p.argv # <<>>
              /\ Base(p.argv[1]) \in DOMAIN Exes(item.exe)
              /\ Exes(item.exe)[Base(p.argv[1])] \in {Empty, p.argv[1]})
    BY DEF ExeMatch, Matcher
  <2>2. p.argv # <<>> =>
           ((/\ Base(p.argv[1]) \in DOMAIN Exes(item.exe)
             /\ Exes(item.exe)[Base(p.argv[1])] \in {Empty, p.argv[1]})
               <=> \E e \in ToSet(item.exe) :
                      IF Slashed(e) THEN p.argv[1] = e ELSE Base(p.argv[1]) = e)
    BY ExeDocumented
  <2> QED BY <2>1, <2>2
<1>3. CmdlineMatch(Matcher(item), p) <=>
         ("cmdline" \in item.has =>
            \A r \in ToSet(item.cmdline) : Submatch(r, p.argv) # <<>>)
  <2>1. CmdlineMatch(Matcher(item), p) <=>
           ("cmdline" \in item.has => Found(Matcher(item), p) = Len(item.cmdline))
    BY DEF CmdlineMatch, Matcher
  <2> QED BY <2>1, FoundAll
<1> QED BY <1>1, <1>2, <1>3 DEF Match, Documented

-----------------------------------------------------------------------------
(* Captures.                                                               *)

LastGroup(r, k) == Max({j \in DOMAIN GroupNames(r) : GroupNames(r)[j] = k})

(* A regexp writes under each name of its groups what the last of them     *)
(* captured.                                                               *)
LEMMA WrittenKeys ==
    ASSUME NEW r, GroupNames(r) \in Seq(STRING), NEW argv, NEW k
    PROVE  /\ k \in DOMAIN Write(r, argv) <=> k \in ToSet(GroupNames(r))
           /\ k \in DOMAIN Write(r, argv) =>
                 Write(r, argv)[k] = Submatch(r, argv)[LastGroup(r, k)]
<1> DEFINE names == GroupNames(r)
           sets == [i \in 1..Len(names) |-> Setting(TRUE, names[i], Submatch(r, argv)[i])]
           groups == {j \in DOMAIN names : names[j] = k}
<1>1. /\ Len(names) \in Nat /\ DOMAIN names = 1..Len(names)
      /\ Len(sets) = Len(names)
  OBVIOUS
<1>2. \A i \in 1..Len(names) :
         /\ k \in DOMAIN sets[i] <=> names[i] = k
         /\ k \in DOMAIN sets[i] => sets[i][k] = Submatch(r, argv)[i]
  BY DEF Setting
<1>3. Write(r, argv) = SetInOrder(sets)
  BY DEF Write
<1>4. k \in ToSet(names) <=> \E i \in 1..Len(names) : names[i] = k
  BY <1>1 DEF ToSet
<1> HIDE DEF sets
<1>5. /\ k \in DOMAIN SetInOrder(sets) <=> \E i \in 1..Len(sets) : SetAt(sets, k, i)
      /\ \A i \in 1..Len(sets) :
            SetAt(sets, k, i) => SetInOrder(sets)[k] = sets[i][k]
  BY <1>1, LastSetStays
<1>6. groups \in SUBSET (0..Len(names)) /\ (groups # {} <=> k \in ToSet(names))
  BY <1>1, <1>4
<1>7. groups # {} => Max(groups) \in groups /\ \A i \in groups : i <= Max(groups)
  <2> HIDE DEF groups, names
  <2> QED BY <1>1, <1>6, MaxOf
<1>8. groups # {} => Max(groups) \in 1..Len(sets) /\ SetAt(sets, k, Max(groups))
  <2> SUFFICES ASSUME groups # {}, NEW m, m = Max(groups)
               PROVE  m \in 1..Len(sets) /\ SetAt(sets, k, m)
    OBVIOUS
  <2>1. m \in 1..Len(names) /\ names[m] = k
    BY <1>1, <1>7
  <2>2. \A j \in m + 1..Len(names) : j \in 1..Len(names) /\ names[j] # k
    <3> SUFFICES ASSUME NEW j \in m + 1..Len(names), names[j] = k PROVE FALSE
      BY <2>1
    <3>1. j \in groups
      BY <1>1, <2>1
    <3>2. j <= m
      BY <1>7, <3>1
    <3> QED BY <2>1, <3>2
  <2> HIDE DEF names, groups
  <2> QED BY <1>1, <1>2, <2>1, <2>2 DEF SetAt
<1>9. \A i \in 1..Len(sets) : SetAt(sets, k, i) => k \in DOMAIN sets[i]
  BY DEF SetAt
<1>10. k \in DOMAIN Write(r, argv) => k \in ToSet(names)
  <2> HIDE DEF names
  <2> QED BY <1>1, <1>2, <1>3, <1>4, <1>5, <1>9
<1>11. ASSUME k \in ToSet(names)
       PROVE  /\ k \in DOMAIN Write(r, argv)
              /\ Write(r, argv)[k] = Submatch(r, argv)[Max(groups)]
  <2> DEFINE m == Max(groups)
  <2>1. m \in 1..Len(sets) /\ SetAt(sets, k, m)
    BY <1>6, <1>8, <1>11
  <2> HIDE DEF m, names
  <2>2. k \in DOMAIN Write(r, argv) /\ Write(r, argv)[k] = sets[m][k]
    BY <1>3, <1>5, <2>1
  <2>3. sets[m][k] = Submatch(r, argv)[m]
    BY <1>1, <1>2, <1>9, <2>1
  <2> QED BY <2>2, <2>3 DEF m
<1> QED BY <1>10, <1>11 DEF LastGroup

(* What an item may have in its captures, as of CapturesInv.               *)
OwnKeys(map, item) == IsMap(map) /\ \A k \in DOMAIN map : Lines(item, k) # {}

(* It stays so, and if the item matches every one of these keys has what   *)
(* its regexps captured from this process.                                 *)
LEMMA CapturedKeys ==
    ASSUME NEW item \in MatcherGroup, NEW p, NEW map, OwnKeys(map, item),
           \A r \in ToSet(item.cmdline) : GroupNames(r) \in Seq(STRING)
    PROVE  /\ OwnKeys(Captured(map, Matcher(item), p), item)
           /\ Match(Matcher(item), p) =>
                 \A k :
                    /\ k \in DOMAIN Captured(map, Matcher(item), p) <=> Lines(item, k) # {}
                    /\ Lines(item, k) # {} =>
                          Captured(map, Matcher(item), p)[k] = OwnCapture(item, p, k)
<1> DEFINE m == Matcher(item)
           rs == item.cmdline
           n == Found(m, p)
           sets == [i \in 1..n |-> Write(rs[i], p.argv)]
           tried == "cmdline" \in item.has /\ CommMatch(m, p) /\ ExeMatch(m, p)
<1>1. /\ rs \in Seq(STRING) /\ DOMAIN rs = 1..Len(rs) /\ Len(rs) \in Nat
      /\ \A i \in 1..Len(rs) : rs[i] \in ToSet(rs)
  BY DEF MatcherGroup, ToSet
<1>2. n \in 0..Len(rs) /\ n \in Nat
  BY <1>1, FoundAll
<1>3. Captured(map, m, p) = IF tried THEN SetOver(map, sets) ELSE map
  BY DEF Captured, Matcher
<1>4. \A k : Lines(item, k) =
         {i \in 1..Len(rs) : "cmdline" \in item.has /\ k \in ToSet(GroupNames(rs[i]))}
  BY <1>1 DEF Lines
<1>5. Match(m, p) => n = Len(rs) \/ "cmdline" \notin item.has
  BY DEF Match, CmdlineMatch, Matcher
<1>6. Match(m, p) => CommMatch(m, p) /\ ExeMatch(m, p)
  BY DEF Match
<1>7. \A k : \A i \in 1..Len(rs) :
         /\ k \in DOMAIN Write(rs[i], p.argv) <=> k \in ToSet(GroupNames(rs[i]))
         /\ k \in DOMAIN Write(rs[i], p.argv) =>
               Write(rs[i], p.argv)[k] = Submatch(rs[i], p.argv)[LastGroup(rs[i], k)]
  BY <1>1, WrittenKeys
<1>8. /\ Len(sets) = n
      /\ \A i \in 1..n : i \in 1..Len(rs) /\ sets[i] = Write(rs[i], p.argv)
  BY <1>2
<1> HIDE DEF sets, n, rs
<1>9. ASSUME NEW k
      PROVE  /\ IsMap(SetOver(map, sets))
             /\ k \in DOMAIN SetOver(map, sets) <=>
                   k \in DOMAIN map \/ \E i \in 1..n : SetAt(sets, k, i)
             /\ \A i \in 1..n : SetAt(sets, k, i) => SetOver(map, sets)[k] = sets[i][k]
             /\ k \in DOMAIN SetOver(map, sets) =>
                   k \in DOMAIN map \/ \E i \in 1..n : k \in DOMAIN sets[i]
  BY <1>2, <1>8, LastSetOverStays DEF OwnKeys
<1>10. OwnKeys(Captured(map, m, p), item)
  <2>1. CASE ~tried
    BY <1>3, <2>1
  <2>2. ASSUME tried, NEW k \in DOMAIN SetOver(map, sets)
        PROVE  Lines(item, k) # {}
    <3>1. CASE k \in DOMAIN map
      BY <3>1 DEF OwnKeys
    <3>2. CASE \E i \in 1..n : k \in DOMAIN sets[i]
      BY <1>4, <1>7, <1>8, <2>2, <3>2
    <3> QED BY <1>9, <2>2, <3>1, <3>2
  <2> QED BY <1>3, <1>9, <2>1, <2>2 DEF OwnKeys
<1>11. ASSUME Match(m, p), NEW k, Lines(item, k) # {}
       PROVE  /\ k \in DOMAIN Captured(map, m, p)
              /\ Captured(map, m, p)[k] = OwnCapture(item, p, k)
  <2> DEFINE last == Max(Lines(item, k))
  <2>1. tried /\ n = Len(rs)
    BY <1>4, <1>5, <1>6, <1>11
  <2>2. Lines(item, k) \in SUBSET (0..Len(rs))
    BY <1>4
  <2>3. last \in Lines(item, k) /\ \A i \in Lines(item, k) : i <= last
    BY <1>1, <1>11, <2>2, MaxOf
  <2> HIDE DEF last
  <2>4. last \in 1..n /\ last \in 1..Len(rs) /\ k \in DOMAIN sets[last]
    <3>1. last \in 1..Len(rs) /\ k \in ToSet(GroupNames(rs[last]))
      BY <1>4, <2>3
    <3> QED BY <1>7, <1>8, <2>1, <3>1
  <2>5. SetAt(sets, k, last)
    <3> SUFFICES ASSUME NEW j \in last + 1..n, k \in DOMAIN sets[j] PROVE FALSE
      BY <1>8, <2>4 DEF SetAt
    <3>1. j \in 1..n /\ j > last
      BY <2>4, <1>2
    <3>2. j \in Lines(item, k)
      BY <1>4, <1>7, <1>8, <2>1, <3>1
    <3> QED BY <2>3, <2>4, <3>1, <3>2
  <2>6. /\ k \in DOMAIN Captured(map, m, p)
        /\ Captured(map, m, p)[k] = sets[last][k]
    BY <1>3, <1>9, <2>1, <2>4, <2>5
  <2>7. sets[last][k] = Submatch(rs[last], p.argv)[LastGroup(rs[last], k)]
    BY <1>7, <1>8, <2>4
  <2>8. OwnCapture(item, p, k) = Submatch(rs[last], p.argv)[LastGroup(rs[last], k)]
    BY <1>11 DEF OwnCapture, LastGroup, last, rs
  <2> QED BY <2>6, <2>7, <2>8
<1> QED BY <1>10, <1>11 DEF OwnKeys

(* So its name is what this process alone makes of the template.           *)
LEMMA ExecuteOwn ==
    ASSUME NEW item \in MatcherGroup, NEW p, NEW map,
           \A k : /\ k \in DOMAIN map <=> Lines(item, k) # {}
                  /\ Lines(item, k) # {} => map[k] = OwnCapture(item, p, k)
    PROVE  Execute(Template(item), p, map) = OwnName(item, p)
<1> DEFINE parts == Template(item).parts
           keys == {part.key : part \in ToSet(parts)}
           own == [key \in keys |-> OwnCapture(item, p, key)]
           bad == {i \in DOMAIN parts : parts[i].field \notin Fields}
           n == IF bad = {} THEN Len(parts) ELSE Min(bad) - 1
<1>1. DOMAIN parts = 1..Len(parts) /\ Len(parts) \in Nat
  <2>1. item.name.parts \in Seq([field : STRING, key : STRING])
    BY DEF MatcherGroup
  <2>2. DOMAIN item.name.parts = 1..Len(item.name.parts) /\ Len(item.name.parts) \in Nat
    BY <2>1
  <2>3. DOMAIN DefaultTemplate.parts = 1..1 /\ Len(DefaultTemplate.parts) = 1
    <3>1. \A part : DOMAIN <<part>> = 1..1 /\ Len(<<part>>) = 1
      OBVIOUS
    <3> QED BY <3>1 DEF DefaultTemplate
  <2>4. Template(item) = DefaultTemplate \/ Template(item) = item.name
    BY DEF Template
  <2> HIDE DEF parts
  <2>5. parts = DefaultTemplate.parts \/ parts = item.name.parts
    BY <2>4 DEF parts
  <2> QED BY <2>2, <2>3, <2>5
<1>2. /\ Execute(Template(item), p, map) = [i \in 1..n |-> Param(parts[i], p, map)]
      /\ OwnName(item, p) = [i \in 1..n |-> Param(parts[i], p, own)]
  BY DEF Execute, OwnName
<1>3. bad \in SUBSET Nat /\ bad \subseteq 1..Len(parts)
  BY <1>1
<1>4. bad # {} => Min(bad) \in bad
  <2> HIDE DEF bad
  <2> QED BY <1>3, MinOf
<1>5. \A i \in 1..n : i \in DOMAIN parts
  <2>1. n \in Int /\ n <= Len(parts)
    <3>1. bad # {} => Min(bad) \in 1..Len(parts)
      BY <1>3, <1>4
    <3> HIDE DEF parts, bad
    <3> QED BY <1>1, <3>1
  <2> HIDE DEF parts, n
  <2> QED BY <1>1, <2>1
<1>6. ASSUME NEW i \in DOMAIN parts
      PROVE  Param(parts[i], p, map) = Param(parts[i], p, own)
  <2> DEFINE k == parts[i].key
  <2>1. k \in keys
    BY DEF ToSet
  <2>2. k \in DOMAIN own /\ own[k] = OwnCapture(item, p, k)
    <3> HIDE DEF keys, k
    <3> QED BY <2>1
  <2>3. Lines(item, k) = {} => OwnCapture(item, p, k) = NoText
    BY DEF OwnCapture
  <2>4. (IF k \in DOMAIN map THEN map[k] ELSE NoText)
           = (IF k \in DOMAIN own THEN own[k] ELSE NoText)
    <3> HIDE DEF own, k
    <3> QED BY <2>2, <2>3
  <2> HIDE DEF own, parts
  <2> QED BY <2>4 DEF Param
<1> HIDE DEF n, parts, own
<1> QED BY <1>2, <1>5, <1>6

-----------------------------------------------------------------------------
(* The invariant.                                                          *)

(* What an item that is asked leaves in its captures, and the name it      *)
(* gives.                                                                  *)
LEMMA ItemAnswers ==
    ASSUME NamerInv, phase = "items", NEW p, NEW i \in DOMAIN setting.items
    PROVE  /\ i \in DOMAIN captures /\ i \in DOMAIN matchers
           /\ OwnKeys(Captured(captures[i], matchers[i], p), setting.items[i])
           /\ Match(matchers[i], p) =>
                 Execute(matchers[i].template, p, Captured(captures[i], matchers[i], p))
                    = OwnName(setting.items[i], p)
<1> DEFINE item == setting.items[i]
<1>1. /\ item \in MatcherGroup
      /\ \A r \in ToSet(item.cmdline) : GroupNames(r) \in Seq(STRING)
  BY ItemParts DEF NamerInv, ConfigInv
<1>2. /\ i \in DOMAIN matchers /\ matchers[i] = Matcher(item)
      /\ i \in DOMAIN captures /\ OwnKeys(captures[i], item)
  BY DEF NamerInv, ConfigInv, CapturesInv, OwnKeys, IsMap
<1>3. matchers[i].template = Template(item)
  BY <1>2 DEF Matcher
<1> HIDE DEF item
<1>4. /\ OwnKeys(Captured(captures[i], Matcher(item), p), item)
      /\ Match(Matcher(item), p) =>
            \A k :
               /\ k \in DOMAIN Captured(captures[i], Matcher(item), p)
                     <=> Lines(item, k) # {}
               /\ Lines(item, k) # {} =>
                     Captured(captures[i], Matcher(item), p)[k] = OwnCapture(item, p, k)
  BY <1>1, <1>2, CapturedKeys
<1>5. Match(Matcher(item), p) =>
         Execute(Template(item), p, Captured(captures[i], Matcher(item), p))
            = OwnName(item, p)
  BY <1>1, <1>4, ExecuteOwn
<1> QED BY <1>2, <1>3, <1>4, <1>5 DEF item

(* The first item that matches is one of them.                             *)
LEMMA FirstMatches ==
    ASSUME NamerInv, phase = "items", NEW p
    PROVE  /\ FirstMatch(p) = 0 \/ FirstMatch(p) \in DOMAIN setting.items
           /\ FirstMatch(p) # 0 => Match(matchers[FirstMatch(p)], p)
<1> DEFINE fits == {i \in DOMAIN matchers : Match(matchers[i], p)}
<1>1. DOMAIN matchers = DOMAIN setting.items
  BY DEF NamerInv, ConfigInv
<1>2. DOMAIN setting.items = 1..Len(setting.items)
  BY SettingsAssumption DEF NamerInv, ConfigInv
<1>3. fits \in SUBSET Nat
  BY <1>1, <1>2
<1>4. fits # {} => Min(fits) \in fits
  <2> HIDE DEF fits
  <2> QED BY <1>3, MinOf
<1> QED BY <1>1, <1>4 DEF FirstMatch

LEMMA NamerInit == Init => NamerInv
BY DEF Init, NamerInv, ConfigInv, CapturesInv, AnswersInv

LEMMA StartSteps ==
    ASSUME NamerInv, ReadFile \/ ParseFlags
    PROVE  NamerInv'
<1>1. /\ phase = "start" /\ UNCHANGED <<setting, answers>>
      /\ phase' \in {"refused", "items", "flags"}
  BY DEF ReadFile, ParseFlags
<1>2. AnswersInv'
  BY <1>1 DEF NamerInv, AnswersInv
<1>3. CASE ReadFile
  <2>1. CapturesInv'
    BY <1>1, <1>3 DEF ReadFile, CapturesInv, NoKeys
  <2>2. ConfigInv'
    BY <1>1, <1>3 DEF ReadFile, NamerInv, ConfigInv
  <2> QED BY <1>2, <2>1, <2>2 DEF NamerInv
<1>4. CASE ParseFlags
  <2>1. phase' # "items" /\ ~setting.path
    BY <1>4 DEF ParseFlags
  <2>2. ASSUME phase' = "flags", setting.namemapping = <<>>
        PROVE  mapping' = [s \in setting.procnames \ {<<Empty>>} |-> <<>>]
    <3> DEFINE listed == [s \in setting.procnames \ {<<Empty>>} |-> <<>>]
               mapped == NameMapper(<<>>)
    <3>1. mapping' = SetAllOf(listed, mapped)
      BY <1>4, <2>2 DEF ParseFlags
    <3>2. DOMAIN mapped = {}
      <4> DEFINE sets == [i \in 1..Len(<<>>) \div 2 |->
                    Setting(TRUE, <<(<<>>)[2 * i - 1]>>, <<(<<>>)[2 * i]>>)]
      <4>1. mapped = SetInOrder(sets)
        BY DEF NameMapper
      <4>2. Len(sets) = 0
        OBVIOUS
      <4> HIDE DEF sets, mapped
      <4>3. \A k : k \in DOMAIN SetInOrder(sets) <=>
                      \E i \in 1..Len(sets) : SetAt(sets, k, i)
        BY <4>2, LastSetStays
      <4> QED BY <4>1, <4>2, <4>3
    <3> HIDE DEF mapped
    <3>3. SetAllOf(listed, mapped) = [s \in DOMAIN listed |-> listed[s]]
      <4> HIDE DEF listed
      <4> QED BY <3>2 DEF SetAllOf
    <3> QED BY <3>1, <3>3
  <2> QED BY <1>1, <1>2, <2>1, <2>2 DEF NamerInv, ConfigInv, CapturesInv
<1> QED BY <1>3, <1>4

(* Asking about a process changes no other answer, and not its own.        *)
LEMMA AskSteps ==
    ASSUME NamerInv, NEW p \in Procs, AskItems(p) \/ AskMapper(p)
    PROVE  /\ NamerInv'
           /\ \A q \in Procs : answers[q] # Unasked => answers'[q] = answers[q]
<1>1. UNCHANGED <<setting, phase, matchers, mapping>> /\ phase \in {"items", "flags"}
  BY DEF AskItems, AskMapper
<1>2. ConfigInv'
  BY <1>1 DEF NamerInv, ConfigInv
<1>3. \A q : FirstMatch(q)' = FirstMatch(q) /\ Answer(q)' = Answer(q)
  BY <1>1 DEF FirstMatch, Answer, Mapped, MapName
<1>4. CapturesInv'
  <2>1. CASE phase = "items"
    <3>1. captures' = [i \in DOMAIN captures |->
             IF FirstMatch(p) = 0 \/ i <= FirstMatch(p)
             THEN Captured(captures[i], matchers[i], p) ELSE captures[i]]
      BY <1>1, <2>1 DEF AskItems, AskMapper
    <3>2. DOMAIN captures = DOMAIN setting.items
      BY <2>1 DEF NamerInv, CapturesInv
    <3>3. ASSUME NEW i \in DOMAIN captures PROVE OwnKeys(captures'[i], setting.items[i])
      <4>1. OwnKeys(Captured(captures[i], matchers[i], p), setting.items[i])
        BY <2>1, <3>2, ItemAnswers
      <4>2. OwnKeys(captures[i], setting.items[i])
        BY <2>1 DEF NamerInv, CapturesInv, OwnKeys, IsMap
      <4> QED BY <3>1, <4>1, <4>2
    <3> QED BY <1>1, <3>1, <3>2, <3>3 DEF CapturesInv, OwnKeys, IsMap
  <2>2. CASE phase # "items"
    BY <1>1, <2>2 DEF CapturesInv
  <2> QED BY <2>1, <2>2
<1>5. answers' = [answers EXCEPT ![p] = Answer(p)]
  <2>1. CASE phase = "items"
    <3> DEFINE first == FirstMatch(p)
    <3>1. /\ answers' = [answers EXCEPT ![p] =
                  IF first = 0 THEN No
                  ELSE Yes(Execute(matchers[first].template, p, captures'[first]))]
          /\ captures' = [i \in DOMAIN captures |->
                IF first = 0 \/ i <= first
                THEN Captured(captures[i], matchers[i], p) ELSE captures[i]]
      BY <2>1 DEF AskItems, AskMapper
    <3>2. CASE first = 0
      BY <2>1, <3>1, <3>2 DEF Answer
    <3>3. CASE first # 0
      <4>1. first \in DOMAIN setting.items /\ Match(matchers[first], p)
        BY <2>1, <3>3, FirstMatches
      <4>2. first <= first
        BY <4>1, SettingsAssumption DEF NamerInv, ConfigInv
      <4> HIDE DEF first
      <4>3. captures'[first] = Captured(captures[first], matchers[first], p)
        BY <2>1, <3>1, <4>1, <4>2, ItemAnswers
      <4>4. Execute(matchers[first].template, p, captures'[first])
               = OwnName(setting.items[first], p)
        BY <2>1, <4>1, <4>3, ItemAnswers
      <4>5. answers' = [answers EXCEPT ![p] = Yes(OwnName(setting.items[first], p))]
        <5>1. answers' = [answers EXCEPT ![p] =
                 Yes(Execute(matchers[first].template, p, captures'[first]))]
          BY <3>1, <3>3
        <5> QED BY <4>4, <5>1
      <4>6. Answer(p) = Yes(OwnName(setting.items[first], p))
        BY <2>1, <3>3 DEF Answer, first
      <4> QED BY <4>5, <4>6
    <3> QED BY <3>2, <3>3
  <2>2. CASE phase = "flags"
    BY <2>2 DEF AskItems, AskMapper, Answer
  <2> QED BY <1>1, <2>1, <2>2
<1>6. \A q \in Procs : answers'[q] = IF q = p THEN Answer(p) ELSE answers[q]
  BY <1>5 DEF NamerInv, AnswersInv
<1>7. AnswersInv'
  BY <1>1, <1>3, <1>5, <1>6 DEF NamerInv, AnswersInv
<1>8. \A q \in Procs : answers[q] # Unasked => answers'[q] = answers[q]
  BY <1>6 DEF NamerInv, AnswersInv
<1> QED BY <1>2, <1>4, <1>7, <1>8 DEF NamerInv

LEMMA NamerStep == NamerInv /\ [Next]_vars => NamerInv'
<1> SUFFICES ASSUME NamerInv, [Next]_vars PROVE NamerInv'
  OBVIOUS
<1>1. CASE UNCHANGED vars
  <2>1. \A q : Answer(q)' = Answer(q)
    BY <1>1 DEF vars, FirstMatch, Answer, Mapped, MapName
  <2>2. ConfigInv' /\ CapturesInv'
    BY <1>1 DEF vars, NamerInv, ConfigInv, CapturesInv
  <2>3. AnswersInv'
    BY <1>1, <2>1 DEF vars, NamerInv, AnswersInv
  <2> QED BY <2>2, <2>3 DEF NamerInv
<1>2. CASE ReadFile \/ ParseFlags
  BY <1>2, StartSteps
<1>3. ASSUME NEW p \in Procs, AskItems(p) \/ AskMapper(p) PROVE NamerInv'
  BY <1>3, AskSteps
<1> QED BY <1>1, <1>2, <1>3 DEF Next

(* Nothing of another process is in what the namer keeps and answers:      *)
(* config.go 158-165 writes to a map that all of them share.               *)
THEOREM NamerInvariant == Spec => []NamerInv
<1> QED BY NamerInit, NamerStep, PTL DEF Spec

-----------------------------------------------------------------------------
(* What follows from it.                                                   *)

(* For any config, a process is named by the first item that matches it    *)
(* as documented, from its own command line (config.go 84-129).            *)
THEOREM NamesAsDocumented == Spec => []NamedAsDocumented
<1>1. NamerInv => NamedAsDocumented
  <2> SUFFICES ASSUME NamerInv, \A item \in ToSet(setting.items) : ~SharedBase(item),
                      NEW p \in Procs, answers[p] # Unasked
               PROVE  FollowsDocs(p)
    BY DEF NamedAsDocumented, AnyOfItsStrings
  <2>1. phase \in {"items", "flags"} /\ answers[p] = Answer(p)
    BY DEF NamerInv, AnswersInv
  <2>2. CASE phase = "items"
    <3> DEFINE fits == {i \in DOMAIN setting.items : Documented(setting.items[i], p)}
    <3>1. /\ setting \in Settings /\ setting.path
          /\ matchers = [i \in DOMAIN setting.items |-> Matcher(setting.items[i])]
      BY <2>2 DEF NamerInv, ConfigInv
    <3>2. ASSUME NEW i \in DOMAIN setting.items
          PROVE  Match(matchers[i], p) <=> Documented(setting.items[i], p)
      <4>1. setting.items[i] \in MatcherGroup
        BY <3>1, ItemParts
      <4>2. ~SharedBase(setting.items[i])
        BY DEF ToSet
      <4> QED BY <3>1, <4>1, <4>2, MatchIsDocumented
    <3>3. fits = {i \in DOMAIN matchers : Match(matchers[i], p)}
      BY <3>1, <3>2
    <3>4. FirstMatch(p) = IF fits = {} THEN 0 ELSE Min(fits)
      BY <3>3 DEF FirstMatch
    <3>5. fits # {} => Min(fits) # 0
      <4>1. fits \in SUBSET Nat /\ 0 \notin fits
        BY <3>1, SettingsAssumption
      <4> HIDE DEF fits
      <4> QED BY <4>1, MinOf
    <3> QED BY <2>1, <2>2, <3>1, <3>4, <3>5 DEF Answer, FollowsDocs
  <2>3. CASE phase = "flags"
    <3> SUFFICES ASSUME setting.namemapping = <<>>
                 PROVE  answers[p] = IF <<p.comm>> \in setting.procnames \ {<<Empty>>}
                                     THEN Yes(<<p.comm>>) ELSE No
      BY <2>3 DEF FollowsDocs, NamerInv, ConfigInv
    <3>1. mapping = [s \in setting.procnames \ {<<Empty>>} |-> <<>>]
      BY <2>3 DEF NamerInv, ConfigInv
    <3> QED BY <2>1, <2>3, <3>1 DEF Answer, Mapped, MapName
  <2> QED BY <2>1, <2>2, <2>3
<1> QED BY <1>1, NamerInvariant, PTL

(* Asked again, the namer says the same, whatever it was asked about in    *)
(* between, as -recheck counts on (tracker.go 461).                        *)
THEOREM AnswersStay == Spec => SameAnswerAgain
<1>1. NamerInv /\ [Next]_vars =>
         [\A p \in Procs : answers[p] # Unasked => answers'[p] = answers[p]]_vars
  <2> SUFFICES ASSUME NamerInv, Next
               PROVE  \A p \in Procs : answers[p] # Unasked => answers'[p] = answers[p]
    OBVIOUS
  <2>1. CASE ReadFile \/ ParseFlags
    BY <2>1 DEF ReadFile, ParseFlags
  <2>2. ASSUME NEW p \in Procs, AskItems(p) \/ AskMapper(p)
        PROVE  \A q \in Procs : answers[q] # Unasked => answers'[q] = answers[q]
    BY <2>2, AskSteps
  <2> QED BY <2>1, <2>2 DEF Next
<1> QED BY <1>1, NamerInvariant, PTL DEF Spec, SameAnswerAgain
=============================================================================

-------------------------- MODULE CgroupFilesProofs --------------------------
(***************************************************************************)
(* Proofs about CgroupFiles, for any configuration and for whatever the    *)
(* files hold, as long as the kernel may write it (FilesAssumption).       *)
(*                                                                         *)
(* The parsers set keys of a map line by line or field by field, and the   *)
(* last valid one stays: LastSetStays says so of SetInOrder, and what each *)
(* parser finds follows from it.                                           *)
(* FilesInv then says that each file is read once and none left out, and   *)
(* SentInv that what was sent is what was collected of the files read.     *)
(***************************************************************************)
EXTENDS CgroupFiles, OrderedMapsProofs

-----------------------------------------------------------------------------
(* The parsers.                                                            *)

(* A line has a number to set a key to, or Number is none.                 *)
LEMMA LineParts ==
    ASSUME NEW lines \in Seq(Line), NEW i \in 1..Len(lines)
    PROVE  /\ lines[i].head \in STRING
           /\ lines[i].fields \in Seq(Field)
           /\ lines[i].fields # <<>> => lines[i].fields[1].val \in Int
           /\ Number(lines[i]) \in Nat <=> IsPair(lines[i])
<1>1. lines[i] \in Line
  OBVIOUS
<1>2. lines[i].fields # <<>> => lines[i].fields[1] \in Field
  BY <1>1 DEF Line
<1>3. /\ lines[i].head \in STRING
      /\ lines[i].fields \in Seq(Field)
      /\ lines[i].fields # <<>> => lines[i].fields[1].val \in Int
  BY <1>1, <1>2 DEF Line, Field
<1>4. Len(lines[i].fields) = 1 => lines[i].fields # <<>>
  <2>1. Len(<<>>) = 0
    OBVIOUS
  <2> QED BY <2>1
<1>5. Number(lines[i]) \in Nat <=> IsPair(lines[i])
  BY <1>3, <1>4 DEF Number, Junk, IsPair
<1> QED BY <1>3, <1>5

(* A key of memory.stat and the like has the last number a line gives it   *)
(* (stat.go 65).                                                           *)
LEMMA ParsedKeyed ==
    ASSUME NEW lines \in Seq(Line), NEW k
    PROVE  /\ k \in DOMAIN ParseKeyed(lines) <=>
                 \E i \in 1..Len(lines) : lines[i].head = k /\ SaysKey(lines, i)
           /\ \A i \in 1..Len(lines) :
                 lines[i].head = k /\ SaysKey(lines, i) =>
                    ParseKeyed(lines)[k] = lines[i].fields[1].val
<1> DEFINE sets == [i \in 1..Len(lines) |->
               Setting(Number(lines[i]) \in Nat, lines[i].head, Number(lines[i]))]
<1>1. Len(sets) = Len(lines) /\ Len(lines) \in Nat
  OBVIOUS
<1>2. ParseKeyed(lines) = SetInOrder(sets)
  BY DEF ParseKeyed
<1>3. \A i \in 1..Len(lines) :
         /\ k \in DOMAIN sets[i] <=>
               lines[i].head = k /\ Number(lines[i]) \in Nat
         /\ k \in DOMAIN sets[i] => sets[i][k] = Number(lines[i])
  BY DEF Setting
<1>4. ASSUME NEW i \in 1..Len(lines)
      PROVE  SetAt(sets, k, i) <=> lines[i].head = k /\ SaysKey(lines, i)
  <2>1. \A j \in 1..Len(lines) : Number(lines[j]) \in Nat <=> IsPair(lines[j])
    BY LineParts
  <2>2. \A j \in i + 1..Len(lines) : j \in 1..Len(lines)
    OBVIOUS
  <2> HIDE DEF sets
  <2> QED BY <1>1, <1>3, <2>1, <2>2 DEF SetAt, SaysKey
<1> HIDE DEF sets
<1>5. \A i \in 1..Len(lines) : SaysKey(lines, i) =>
         Number(lines[i]) = lines[i].fields[1].val
  BY DEF SaysKey, IsPair, Number
<1>6. /\ k \in DOMAIN SetInOrder(sets) <=> \E i \in 1..Len(sets) : SetAt(sets, k, i)
      /\ \A i \in 1..Len(sets) : SetAt(sets, k, i) =>
            SetInOrder(sets)[k] = sets[i][k]
  BY <1>1, LastSetStays
<1>7. \A i \in 1..Len(lines) : SetAt(sets, k, i) => k \in DOMAIN sets[i]
  BY DEF SetAt
<1> QED BY <1>1, <1>2, <1>3, <1>4, <1>5, <1>6, <1>7

(* Of the fields of one line, the n-th is the last valid one with its key. *)
SaysOne(fields, n) ==
    /\ fields[n].key # Blank /\ fields[n].val >= 0
    /\ \A m \in n + 1..Len(fields) : fields[m].key = fields[n].key =>
          fields[m].val < 0

(* Of the fields of a line, the last valid one of a key stays (stat.go     *)
(* 92).                                                                    *)
LEMMA ParsedFields ==
    ASSUME NEW fields \in Seq(Field), NEW k
    PROVE  /\ k \in DOMAIN ParseFields(fields) <=>
                 \E n \in 1..Len(fields) : fields[n].key = k /\ SaysOne(fields, n)
           /\ \A n \in 1..Len(fields) :
                 fields[n].key = k /\ SaysOne(fields, n) =>
                    ParseFields(fields)[k] = fields[n].val
<1> DEFINE sets == [i \in 1..Len(fields) |->
               LET kv == fields[i] IN
               Setting(kv.key # Blank /\ kv.val \in Nat, kv.key, kv.val)]
<1>1. Len(sets) = Len(fields) /\ Len(fields) \in Nat
  OBVIOUS
<1>2. ParseFields(fields) = SetInOrder(sets)
  BY DEF ParseFields
<1>3. \A i \in 1..Len(fields) :
         /\ k \in DOMAIN sets[i] <=>
               fields[i].key = k /\ k # Blank /\ fields[i].val \in Nat
         /\ k \in DOMAIN sets[i] => sets[i][k] = fields[i].val
  BY DEF Setting
<1>4. \A i \in 1..Len(fields) : fields[i].val \in Int
  <2>1. \A i \in 1..Len(fields) : fields[i] \in Field
    OBVIOUS
  <2> QED BY <2>1 DEF Field
<1>5. ASSUME NEW i \in 1..Len(fields)
      PROVE  SetAt(sets, k, i) <=> fields[i].key = k /\ SaysOne(fields, i)
  <2>1. \A j \in i + 1..Len(fields) : j \in 1..Len(fields)
    OBVIOUS
  <2>2. \A j \in 1..Len(fields) :
           /\ fields[j].val \in Nat <=> fields[j].val >= 0
           /\ fields[j].val \notin Nat <=> fields[j].val < 0
    BY <1>4
  <2> HIDE DEF sets
  <2> QED BY <1>1, <1>3, <2>1, <2>2 DEF SetAt, SaysOne
<1> HIDE DEF sets
<1>6. /\ k \in DOMAIN SetInOrder(sets) <=> \E i \in 1..Len(sets) : SetAt(sets, k, i)
      /\ \A i \in 1..Len(sets) : SetAt(sets, k, i) =>
            SetInOrder(sets)[k] = sets[i][k]
  BY <1>1, LastSetStays
<1>7. \A i \in 1..Len(fields) : SetAt(sets, k, i) => k \in DOMAIN sets[i]
  BY DEF SetAt
<1> QED BY <1>1, <1>2, <1>3, <1>5, <1>6, <1>7

(* No later line is about the same device, or some and full.               *)
LastOfHead(lines, i) ==
    \A j \in i + 1..Len(lines) : lines[j].head # lines[i].head

(* A device, or some and full, has what its last line says (stat.go 108,   *)
(* psi.go 54).                                                             *)
LEMMA ParsedByHead ==
    ASSUME NEW lines \in Seq(Line), NEW sets, NEW k,
           Len(sets) = Len(lines),
           \A i \in 1..Len(lines) :
              DOMAIN sets[i] = {lines[i].head}
    PROVE  /\ k \in DOMAIN SetInOrder(sets) <=>
                 \E i \in 1..Len(lines) : lines[i].head = k /\ LastOfHead(lines, i)
           /\ \A i \in 1..Len(lines) :
                 lines[i].head = k /\ LastOfHead(lines, i) =>
                    SetInOrder(sets)[k] = sets[i][k]
<1>1. Len(sets) = Len(lines) /\ Len(lines) \in Nat
  OBVIOUS
<1>3. ASSUME NEW i \in 1..Len(lines)
      PROVE  SetAt(sets, k, i) <=> lines[i].head = k /\ LastOfHead(lines, i)
  <2>1. \A j \in i + 1..Len(lines) : j \in 1..Len(lines)
    OBVIOUS
  <2> QED BY <1>1, <2>1 DEF SetAt, LastOfHead
<1>4. /\ k \in DOMAIN SetInOrder(sets) <=> \E i \in 1..Len(sets) : SetAt(sets, k, i)
      /\ \A i \in 1..Len(sets) : SetAt(sets, k, i) =>
            SetInOrder(sets)[k] = sets[i][k]
  BY <1>1, LastSetStays
<1> QED BY <1>1, <1>3, <1>4

-----------------------------------------------------------------------------
(* What is sent of a file.                                                 *)

(* A series as a reader of the file would tell it.                         *)
Told(s) == <<s.head, s.key, s.val[1]>>

(* What the fields of a line tell, and what a line with one number tells.  *)
FieldTold(lines, t) ==
    \E i \in 1..Len(lines) : \E n \in 1..Len(lines[i].fields) :
       /\ SaysOne(lines[i].fields, n) /\ LastOfHead(lines, i)
       /\ t = <<lines[i].head, lines[i].fields[n].key, lines[i].fields[n].val>>

KeyTold(lines, t) ==
    \E i \in 1..Len(lines) :
       SaysKey(lines, i) /\ t = <<lines[i].head, Blank, lines[i].fields[1].val>>

(* What a series tells is what it was made of.                             *)
LEMMA ToldSeries ==
    ASSUME NEW f, NEW head, NEW key, NEW val, NEW unit
    PROVE  /\ Told(Series(f, head, key, val, unit)) = <<head, key, val>>
           /\ Series(f, head, key, val, unit).file = f
           /\ Series(f, head, key, val, unit).head = head
  BY DEF Told, Series

(* Says, for the files whose lines have several fields.                    *)
LEMMA SaysFields ==
    ASSUME NEW lines \in Seq(Line), NEW f \in Files["psi"] \cup {"io.stat"}, NEW t
    PROVE  t \in Says(f, lines) <=> FieldTold(lines, t)
<1> DEFINE fields == UNION {{i} \X DOMAIN lines[i].fields : i \in DOMAIN lines}
           of(i, n) == <<lines[i].head, lines[i].fields[n].key, lines[i].fields[n].val>>
<1>1. DOMAIN lines = 1..Len(lines)
      /\ \A i \in 1..Len(lines) : DOMAIN lines[i].fields = 1..Len(lines[i].fields)
  <2>1. \A i \in 1..Len(lines) : lines[i].fields \in Seq(Field)
    BY LineParts
  <2> QED BY <2>1
<1>2. \A p : p \in fields <=>
         \E i \in 1..Len(lines) : \E n \in 1..Len(lines[i].fields) : p = <<i, n>>
  BY <1>1
<1>3. Says(f, lines) = {of(p[1], p[2]) : p \in {p \in fields :
         SaysField(lines, p[1], p[2])}}
  BY DEF Says, Pressure
<1>4. \A i, n : SaysField(lines, i, n) <=>
         SaysOne(lines[i].fields, n) /\ LastOfHead(lines, i)
  BY DEF SaysField, SaysOne, LastOfHead
<1> HIDE DEF fields, of
<1>5. t \in Says(f, lines) <=>
         \E i \in 1..Len(lines) : \E n \in 1..Len(lines[i].fields) :
            SaysField(lines, i, n) /\ t = of(i, n)
  <2>1. t \in Says(f, lines) <=>
           \E p \in fields : SaysField(lines, p[1], p[2]) /\ t = of(p[1], p[2])
    BY <1>3
  <2>2. \A i, n : <<i, n>>[1] = i /\ <<i, n>>[2] = n
    OBVIOUS
  <2>3. ASSUME NEW p \in fields, SaysField(lines, p[1], p[2]), t = of(p[1], p[2])
        PROVE  \E i \in 1..Len(lines) : \E n \in 1..Len(lines[i].fields) :
                  SaysField(lines, i, n) /\ t = of(i, n)
    BY <2>3, <1>2
  <2>4. ASSUME NEW i \in 1..Len(lines), NEW n \in 1..Len(lines[i].fields),
               SaysField(lines, i, n), t = of(i, n)
        PROVE  <<i, n>> \in fields /\ SaysField(lines, <<i, n>>[1], <<i, n>>[2])
               /\ t = of(<<i, n>>[1], <<i, n>>[2])
    BY <2>4, <1>2
  <2> QED BY <2>1, <2>3, <2>4
<1> QED BY <1>4, <1>5 DEF of, FieldTold

(* collectMemory, collectCPU and collectPids send the keys they look for   *)
(* (cgroup_collector.go 463).                                              *)
LEMMA ToldOfKeyed ==
    ASSUME NEW lines \in Seq(Line), NEW f, NEW keys, NEW unit, NEW t
    PROVE  (\E s \in CollectKeyed(f, keys, ParseKeyed(lines), unit) : t = Told(s)) <=>
              KeyTold(lines, t) /\ t[1] \in keys
<1> DEFINE map == ParseKeyed(lines)
<1>1. (\E s \in CollectKeyed(f, keys, map, unit) : t = Told(s)) <=>
         \E k \in keys \cap DOMAIN map : t = <<k, Blank, map[k]>>
  <2> HIDE DEF map
  <2>1. \A s : s \in CollectKeyed(f, keys, map, unit) <=>
           \E k \in keys \cap DOMAIN map : s = Series(f, k, Blank, map[k], unit)
    BY DEF CollectKeyed
  <2>2. ASSUME NEW k
        PROVE  Told(Series(f, k, Blank, map[k], unit)) = <<k, Blank, map[k]>>
    BY DEF Told, Series
  <2>3. ASSUME NEW s \in CollectKeyed(f, keys, map, unit), t = Told(s)
        PROVE  \E k \in keys \cap DOMAIN map : t = <<k, Blank, map[k]>>
    BY <2>1, <2>2, <2>3
  <2>4. ASSUME NEW k \in keys \cap DOMAIN map, t = <<k, Blank, map[k]>>
        PROVE  \E s \in CollectKeyed(f, keys, map, unit) : t = Told(s)
    <3>1. Series(f, k, Blank, map[k], unit) \in CollectKeyed(f, keys, map, unit)
      BY <2>1
    <3>2. t = Told(Series(f, k, Blank, map[k], unit))
      BY <2>2, <2>4
    <3> QED BY <3>1, <3>2
  <2> QED BY <2>3, <2>4
<1>2. \A k : /\ k \in DOMAIN map <=>
                   \E i \in 1..Len(lines) : lines[i].head = k /\ SaysKey(lines, i)
             /\ \A i \in 1..Len(lines) :
                   lines[i].head = k /\ SaysKey(lines, i) =>
                      map[k] = lines[i].fields[1].val
  BY ParsedKeyed
<1> HIDE DEF map
<1>3. (\E k \in keys \cap DOMAIN map : t = <<k, Blank, map[k]>>) <=>
         \E i \in 1..Len(lines) :
            /\ SaysKey(lines, i) /\ lines[i].head \in keys
            /\ t = <<lines[i].head, Blank, lines[i].fields[1].val>>
  <2>1. ASSUME NEW k \in keys \cap DOMAIN map, t = <<k, Blank, map[k]>>
        PROVE  \E i \in 1..Len(lines) :
                  /\ SaysKey(lines, i) /\ lines[i].head \in keys
                  /\ t = <<lines[i].head, Blank, lines[i].fields[1].val>>
    <3>1. PICK i \in 1..Len(lines) : lines[i].head = k /\ SaysKey(lines, i)
      BY <1>2
    <3>2. map[k] = lines[i].fields[1].val
      BY <1>2, <3>1
    <3> QED BY <2>1, <3>1, <3>2
  <2>2. ASSUME NEW i \in 1..Len(lines), SaysKey(lines, i), lines[i].head \in keys,
               t = <<lines[i].head, Blank, lines[i].fields[1].val>>
        PROVE  \E k \in keys \cap DOMAIN map : t = <<k, Blank, map[k]>>
    <3>1. lines[i].head \in DOMAIN map /\ map[lines[i].head] = lines[i].fields[1].val
      BY <1>2, <2>2
    <3> QED BY <2>2, <3>1
  <2> QED BY <2>1, <2>2
<1>4. KeyTold(lines, t) /\ t[1] \in keys <=>
         \E i \in 1..Len(lines) :
            /\ SaysKey(lines, i) /\ lines[i].head \in keys
            /\ t = <<lines[i].head, Blank, lines[i].fields[1].val>>
  BY DEF KeyTold
<1> QED BY <1>1, <1>3, <1>4 DEF map

(* collectIO sends the counters it looks for, of each device               *)
(* (cgroup_collector.go 537).                                              *)
LEMMA ToldOfDevices ==
    ASSUME NEW lines \in Seq(Line), NEW f, NEW t
    PROVE  (\E s \in CollectIO(f, ParseIOStat(lines)) : t = Told(s)) <=>
              FieldTold(lines, t) /\ t[2] \in ioStatFields
<1> DEFINE devices == ParseIOStat(lines)
           vals == [i \in 1..Len(lines) |-> ParseFields(lines[i].fields)]
           sets == [i \in 1..Len(lines) |->
                       Setting(TRUE, lines[i].head, ParseFields(lines[i].fields))]
<1>1. (\E s \in CollectIO(f, devices) : t = Told(s)) <=>
         \E dev \in DOMAIN devices : \E k \in ioStatFields \cap DOMAIN devices[dev] :
            t = <<dev, k, devices[dev][k]>>
  <2> HIDE DEF devices
  <2>1. \A s : s \in CollectIO(f, devices) <=>
           \E dev \in DOMAIN devices :
              \E k \in ioStatFields \cap DOMAIN devices[dev] :
              s = Series(f, dev, k, devices[dev][k], 1)
    BY DEF CollectIO
  <2>2. \A dev, k : Told(Series(f, dev, k, devices[dev][k], 1)) =
           <<dev, k, devices[dev][k]>>
    BY ToldSeries
  <2> QED BY <2>1, <2>2
<1>2. /\ devices = SetInOrder(sets) /\ Len(sets) = Len(lines)
      /\ \A i \in 1..Len(lines) :
            /\ DOMAIN sets[i] = {lines[i].head}
            /\ sets[i][lines[i].head] = vals[i]
  BY DEF ParseIOStat, Setting
<1> HIDE DEF vals, sets
<1>3. \A dev : /\ dev \in DOMAIN devices <=>
                     \E i \in 1..Len(lines) :
                        lines[i].head = dev /\ LastOfHead(lines, i)
               /\ \A i \in 1..Len(lines) :
                     lines[i].head = dev /\ LastOfHead(lines, i) =>
                        devices[dev] = vals[i]
  <2> HIDE DEF devices
  <2> SUFFICES ASSUME NEW dev
               PROVE  /\ dev \in DOMAIN devices <=>
                            \E i \in 1..Len(lines) :
                               lines[i].head = dev /\ LastOfHead(lines, i)
                      /\ \A i \in 1..Len(lines) :
                            lines[i].head = dev /\ LastOfHead(lines, i) =>
                               devices[dev] = vals[i]
    OBVIOUS
  <2>1. /\ dev \in DOMAIN SetInOrder(sets) <=>
              \E i \in 1..Len(lines) : lines[i].head = dev /\ LastOfHead(lines, i)
        /\ \A i \in 1..Len(lines) :
              lines[i].head = dev /\ LastOfHead(lines, i) =>
                 SetInOrder(sets)[dev] = sets[i][dev]
    BY <1>2, ParsedByHead
  <2> QED BY <1>2, <2>1
<1> HIDE DEF devices
<1>4. (\E s \in CollectIO(f, devices) : t = Told(s)) <=>
         \E i \in 1..Len(lines) : LastOfHead(lines, i) /\
            \E k \in ioStatFields \cap DOMAIN vals[i] :
               t = <<lines[i].head, k, vals[i][k]>>
  BY <1>1, <1>3
<1>5. ASSUME NEW i \in 1..Len(lines), NEW k
      PROVE  /\ k \in DOMAIN vals[i] <=> \E n \in 1..Len(lines[i].fields) :
                    lines[i].fields[n].key = k /\ SaysOne(lines[i].fields, n)
             /\ \A n \in 1..Len(lines[i].fields) :
                   lines[i].fields[n].key = k /\ SaysOne(lines[i].fields, n) =>
                      vals[i][k] = lines[i].fields[n].val
  <2>1. lines[i].fields \in Seq(Field)
    BY LineParts
  <2>2. vals[i] = ParseFields(lines[i].fields)
    BY DEF vals
  <2> QED BY <2>1, <2>2, ParsedFields
<1>6. ASSUME NEW i \in 1..Len(lines)
      PROVE  (\E k \in ioStatFields \cap DOMAIN vals[i] :
                t = <<lines[i].head, k, vals[i][k]>>)
             <=> \E n \in 1..Len(lines[i].fields) :
                 /\ SaysOne(lines[i].fields, n)
                 /\ lines[i].fields[n].key \in ioStatFields
                 /\ t = <<lines[i].head, lines[i].fields[n].key, lines[i].fields[n].val>>
  BY <1>5
<1>7. FieldTold(lines, t) /\ t[2] \in ioStatFields <=>
         \E i \in 1..Len(lines) : LastOfHead(lines, i) /\
            \E n \in 1..Len(lines[i].fields) :
               /\ SaysOne(lines[i].fields, n)
               /\ lines[i].fields[n].key \in ioStatFields
               /\ t = <<lines[i].head, lines[i].fields[n].key, lines[i].fields[n].val>>
  BY DEF FieldTold
<1> QED BY <1>4, <1>6, <1>7 DEF devices

(* A pressure line that is well formed says all that is sent of it: no     *)
(* value is a zero the parser starts with (psi.go 76).                     *)
LEMMA WindowsSaid ==
    ASSUME NEW line \in Line, ~Malformed(line),
           Windows \subseteq {kv.key : kv \in ToSet(line.fields)}, NEW w \in Windows
    PROVE  \E n \in 1..Len(line.fields) :
              /\ line.fields[n].key = w /\ SaysOne(line.fields, n)
              /\ PSILine(line)[w] = line.fields[n].val
<1> DEFINE fields == line.fields
           at == {n \in 1..Len(fields) : fields[n].key = w}
<1>1. fields \in Seq(Field) /\ Len(fields) \in Nat
  BY DEF Line
<1>2. ToSet(fields) = {fields[n] : n \in 1..Len(fields)}
  BY <1>1 DEF ToSet
<1> HIDE DEF fields
<1>3. at # {} /\ at \in SUBSET (0..Len(fields))
  BY <1>1, <1>2 DEF fields
<1>4. PICK n \in at : \A m \in at : m <= n
  <2> HIDE DEF at
  <2> QED BY <1>1, <1>3, GreatestNumber
<1>5. \A m \in 1..Len(fields) : fields[m] \in Field
  BY <1>1
<1>6. \A m \in 1..Len(fields) : fields[m].val \in Int
  BY <1>5 DEF Field
<1>7. \A m \in 1..Len(fields) :
         fields[m].key # Blank /\ (fields[m].key \in Windows => fields[m].val >= 0)
  <2> SUFFICES ASSUME NEW m \in 1..Len(fields)
               PROVE  fields[m].key # Blank /\ (fields[m].key \in Windows =>
                         fields[m].val >= 0)
    OBVIOUS
  <2>1. fields[m] \in ToSet(line.fields) /\ fields[m].val \in Int
    BY <1>2, <1>6 DEF fields
  <2>2. fields[m].key # Blank /\ ~(fields[m].key \in Windows /\ fields[m].val < 0)
    BY <2>1 DEF Malformed
  <2> QED BY <2>1, <2>2
<1>8. SaysOne(fields, n) /\ fields[n].key = w
  <2>1. \A m \in n + 1..Len(fields) : m \in 1..Len(fields) /\ m \notin at
    BY <1>1, <1>4
  <2> QED BY <1>4, <1>7, <2>1 DEF SaysOne
<1>9. w \in DOMAIN ParseFields(fields) /\ ParseFields(fields)[w] = fields[n].val
  BY <1>1, <1>4, <1>8, ParsedFields
<1> QED BY <1>4, <1>8, <1>9 DEF PSILine, fields

(* collectPSI sends the values that are configured.                        *)
LEMMA ToldOfPressure ==
    ASSUME psiWindows \subseteq Windows, NEW lines \in Seq(Line), NEW f, NEW t,
           \A i \in 1..Len(lines) :
              /\ ~Malformed(lines[i])
              /\ Windows \subseteq {kv.key : kv \in ToSet(lines[i].fields)}
    PROVE  (\E s \in CollectPSI(f, ParsePSI(lines)) : t = Told(s)) <=>
              FieldTold(lines, t) /\ t[2] \in psiWindows
<1> DEFINE stats == ParsePSI(lines)
           unit(w) == IF w = "total" THEN microsecondsPerSecond ELSE 1
           sets == [i \in 1..Len(lines) |->
                       Setting(TRUE, lines[i].head, PSILine(lines[i]))]
<1>1. (\E s \in CollectPSI(f, stats) : t = Told(s)) <=>
         \E kind \in DOMAIN stats : \E w \in psiWindows :
            t = <<kind, w, stats[kind][w]>>
  <2> HIDE DEF stats
  <2>1. \A s : s \in CollectPSI(f, stats) <=>
           \E kind \in DOMAIN stats : \E w \in psiWindows :
              s = Series(f, kind, w, stats[kind][w], unit(w))
    BY DEF CollectPSI
  <2>2. \A kind, w : Told(Series(f, kind, w, stats[kind][w], unit(w))) =
           <<kind, w, stats[kind][w]>>
    BY DEF Told, Series
  <2> QED BY <2>1, <2>2
<1>2. stats = SetInOrder(sets)
  <2>1. ToSet(lines) = {lines[i] : i \in 1..Len(lines)}
    BY DEF ToSet
  <2> QED BY <2>1 DEF ParsePSI
<1>3. /\ Len(sets) = Len(lines)
      /\ \A i \in 1..Len(lines) :
            /\ DOMAIN sets[i] = {lines[i].head}
            /\ sets[i][lines[i].head] = PSILine(lines[i])
  BY DEF Setting
<1> HIDE DEF sets, stats
<1>4. ASSUME NEW kind
      PROVE  /\ kind \in DOMAIN stats <=>
                   \E i \in 1..Len(lines) :
                      lines[i].head = kind /\ LastOfHead(lines, i)
             /\ \A i \in 1..Len(lines) :
                   lines[i].head = kind /\ LastOfHead(lines, i) =>
                      stats[kind] = PSILine(lines[i])
  <2>1. /\ kind \in DOMAIN SetInOrder(sets) <=>
              \E i \in 1..Len(lines) : lines[i].head = kind /\ LastOfHead(lines, i)
        /\ \A i \in 1..Len(lines) :
              lines[i].head = kind /\ LastOfHead(lines, i) =>
                 SetInOrder(sets)[kind] = sets[i][kind]
    BY <1>3, ParsedByHead
  <2> QED BY <1>2, <1>3, <2>1
<1>5. (\E s \in CollectPSI(f, stats) : t = Told(s)) <=>
         \E i \in 1..Len(lines) : LastOfHead(lines, i) /\
            \E w \in psiWindows : t = <<lines[i].head, w, PSILine(lines[i])[w]>>
  BY <1>1, <1>4
<1>6. ASSUME NEW i \in 1..Len(lines)
      PROVE  (\E w \in psiWindows :
                t = <<lines[i].head, w, PSILine(lines[i])[w]>>) <=>
                \E n \in 1..Len(lines[i].fields) :
                   /\ SaysOne(lines[i].fields, n)
                   /\ lines[i].fields[n].key \in psiWindows
                   /\ t = <<lines[i].head, lines[i].fields[n].key, lines[i].fields[n].val>>
  <2> DEFINE fields == lines[i].fields
             psi == PSILine(lines[i])
  <2>0. lines[i] \in Line /\ fields \in Seq(Field)
    BY LineParts
  <2>1. ASSUME NEW n \in 1..Len(fields), SaysOne(fields, n), fields[n].key \in psiWindows
        PROVE  psi[fields[n].key] = fields[n].val
    <3>1. /\ fields[n].key \in DOMAIN ParseFields(fields)
          /\ ParseFields(fields)[fields[n].key] = fields[n].val
      <4> HIDE DEF fields
      <4> QED BY <2>0, <2>1, ParsedFields
    <3> QED BY <2>1, <3>1 DEF PSILine
  <2>2. ASSUME NEW w \in psiWindows
        PROVE  \E n \in 1..Len(fields) :
                  fields[n].key = w /\ SaysOne(fields, n) /\ psi[w] = fields[n].val
    BY <2>0, WindowsSaid
  <2> HIDE DEF fields, psi
  <2>3. (\E w \in psiWindows : t = <<lines[i].head, w, psi[w]>>) <=>
           \E n \in 1..Len(fields) :
              /\ SaysOne(fields, n) /\ fields[n].key \in psiWindows
              /\ t = <<lines[i].head, fields[n].key, fields[n].val>>
    BY <2>1, <2>2
  <2> QED BY <2>3 DEF fields, psi
<1>7. FieldTold(lines, t) /\ t[2] \in psiWindows <=>
         \E i \in 1..Len(lines) : LastOfHead(lines, i) /\
            \E n \in 1..Len(lines[i].fields) :
               /\ SaysOne(lines[i].fields, n)
               /\ lines[i].fields[n].key \in psiWindows
               /\ t = <<lines[i].head, lines[i].fields[n].key, lines[i].fields[n].val>>
  BY DEF FieldTold
<1> QED BY <1>5, <1>6, <1>7 DEF stats

(* A file with one value says that value, or none.                         *)
LEMMA ToldOfValue ==
    ASSUME NEW f \in ValueFiles, NEW content, KernelWrites(f, content), NEW lines,
           lines = content.lines, lines \in Seq(Line), lines # <<>>, NEW t
    PROVE  /\ Value(lines) \in Int
           /\ ParsePidsMax(lines) = {Value(lines)} \cap Nat
           /\ f # "pids.max" => ParseUint64(lines) = {Value(lines)} \cap Nat
           /\ t \in Says(f, lines) <=>
                 Value(lines) >= 0 /\ t = <<Blank, Blank, Value(lines)>>
<1>1. /\ Len(lines) = 1 /\ lines[1].head = Blank /\ Len(lines[1].fields) = 1
      /\ lines[1].fields[1].val = Unlimited => f = "pids.max"
  <2>1. ToSet(lines) = {lines[i] : i \in 1..Len(lines)}
    BY DEF ToSet
  <2>0. /\ Len(lines) <= 1
        /\ \A line \in ToSet(lines) :
              /\ line.head = Blank /\ Len(line.fields) = 1
              /\ line.fields[1].val = Unlimited => f = "pids.max"
    BY DEF KernelWrites
  <2>2. Len(lines) \in Nat /\ Len(lines) # 0
    OBVIOUS
  <2>3. lines[1] \in ToSet(lines)
    BY <2>0, <2>1, <2>2
  <2>4. Len(lines) = 1
    <3> DEFINE n == Len(lines)
    <3>1. n <= 1 /\ n \in Nat /\ n # 0
      BY <2>0, <2>2
    <3> HIDE DEF n
    <3>2. n = 1
      BY <3>1
    <3> QED BY <3>2 DEF n
  <2>5. /\ lines[1].head = Blank /\ Len(lines[1].fields) = 1
        /\ lines[1].fields[1].val = Unlimited => f = "pids.max"
    BY <2>0, <2>3
  <2> QED BY <2>4, <2>5
<1>2. Value(lines) = lines[1].fields[1].val /\ Value(lines) \in Int
         /\ lines[1].fields # <<>>
  <2>1. 1 \in 1..Len(lines) /\ lines[1].fields # <<>>
    BY <1>1
  <2>2. lines[1].fields[1].val \in Int
    BY <2>1, LineParts
  <2> QED BY <2>1, <2>2 DEF Value
<1>3. ParsePidsMax(lines) = {Value(lines)} \cap Nat
  BY DEF ParsePidsMax
<1>4. f # "pids.max" => ParseUint64(lines) = {Value(lines)} \cap Nat
  BY <1>1, <1>2 DEF ParseUint64
<1>5. Says(f, lines) = {<<lines[i].head, Blank, lines[i].fields[1].val>> :
                           i \in {i \in DOMAIN lines : SaysKey(lines, i)}}
  BY DEF Says, Pressure, ValueFiles, Files
<1>6. DOMAIN lines = {1} /\ (SaysKey(lines, 1) <=> Value(lines) >= 0)
  <2>1. DOMAIN lines = {1}
    BY <1>1
  <2>2. \A j \in 2..Len(lines) : FALSE
    BY <1>1
  <2> QED BY <1>1, <1>2, <2>1, <2>2 DEF SaysKey, IsPair
<1> QED BY <1>1, <1>2, <1>3, <1>4, <1>5, <1>6

(* An empty file gives no series; a file that fails, which has no lines,   *)
(* neither.                                                                *)
LEMMA NothingCollected ==
    ASSUME NEW f \in File
    PROVE  Collect(f, <<>>) = {}
<1>1. ParseUint64(<<>>) = {} /\ ParsePidsMax(<<>>) = {}
  BY DEF ParseUint64, ParsePidsMax
<1>2. ASSUME NEW sets, Len(sets) = 0 PROVE DOMAIN SetInOrder(sets) = {}
  BY <1>2, LastSetStays
<1>3. DOMAIN ParseKeyed(<<>>) = {}
  BY <1>2 DEF ParseKeyed
<1>4. DOMAIN ParseIOStat(<<>>) = {}
  BY <1>2 DEF ParseIOStat
<1>5. DOMAIN ParsePSI(<<>>) = {}
  BY <1>2 DEF ParsePSI, NoKeys
<1>6. /\ CollectPSI(f, ParsePSI(<<>>)) = {}
      /\ \A keys, unit : CollectKeyed(f, keys, ParseKeyed(<<>>), unit) = {}
      /\ CollectIO(f, ParseIOStat(<<>>)) = {}
      /\ CollectValue(f, {}) = {}
  BY <1>3, <1>4, <1>5 DEF CollectPSI, CollectKeyed, CollectIO, CollectValue
<1> QED BY <1>1, <1>6 DEF Collect

(* A series carries the name of its file.                                  *)
LEMMA CollectedOf ==
    ASSUME NEW f, NEW lines
    PROVE  \A s \in Collect(f, lines) : s.file = f
<1>1. /\ \A stats : \A s \in CollectPSI(f, stats) : s.file = f
      /\ \A vals : \A s \in CollectValue(f, vals) : s.file = f
      /\ \A keys, map, unit : \A s \in CollectKeyed(f, keys, map, unit) : s.file = f
      /\ \A devices : \A s \in CollectIO(f, devices) : s.file = f
  BY ToldSeries DEF CollectPSI, CollectValue, CollectKeyed, CollectIO
<1> QED BY <1>1 DEF Collect

(* Whatever an open and a read give, there are lines, or none.             *)
LEMMA ContentLines ==
    ASSUME NEW f, NEW content, KernelWrites(f, content)
    PROVE  content.lines \in Seq(Line)
<1>1. CASE content = Missing
  BY <1>1 DEF Missing
<1>2. CASE content \in [ok : {TRUE}, lines : Seq(Line)]
  BY <1>2
<1> QED BY <1>1, <1>2 DEF KernelWrites, Content

(* What is sent of one file is what it says and the configuration asks     *)
(* for.                                                                    *)
LEMMA CollectsWhatItSays ==
    ASSUME psiWindows \subseteq Windows, NEW f \in File, NEW content,
           KernelWrites(f, content), NEW lines, lines = content.lines, NEW t
    PROVE  (\E s \in Collect(f, lines) : t = Told(s)) <=>
              /\ t \in Says(f, lines)
              /\ ~(Pressure(f) /\ \E line \in ToSet(lines) : Malformed(line))
              /\ Wanted(f, t[1], t[2])
<1>1. lines \in Seq(Line) /\ ToSet(lines) = {lines[i] : i \in 1..Len(lines)}
  BY ContentLines DEF ToSet
<1>2. CASE Pressure(f)
  <2>1. Collect(f, lines) = CollectPSI(f, ParsePSI(lines))
    <3>1. f \in Files["psi"]
      BY <1>2 DEF Pressure
    <3> QED BY <3>1 DEF Collect, Files
  <2>2. CASE \E line \in ToSet(lines) : Malformed(line)
    <3>1. DOMAIN ParsePSI(lines) = {}
      BY <2>2 DEF ParsePSI, NoKeys
    <3>2. Collect(f, lines) = {}
      BY <2>1, <3>1 DEF CollectPSI
    <3> QED BY <1>2, <2>2, <3>2
  <2>3. CASE ~\E line \in ToSet(lines) : Malformed(line)
    <3>1. \A i \in 1..Len(lines) :
             /\ ~Malformed(lines[i])
             /\ Windows \subseteq {kv.key : kv \in ToSet(lines[i].fields)}
      BY <1>1, <1>2, <2>3 DEF KernelWrites, Pressure
    <3>2. (\E s \in Collect(f, lines) : t = Told(s)) <=>
             FieldTold(lines, t) /\ t[2] \in psiWindows
      BY <1>1, <2>1, <3>1, ToldOfPressure
    <3>3. t \in Says(f, lines) <=> FieldTold(lines, t)
      BY <1>1, <1>2, SaysFields DEF Pressure
    <3>4. Wanted(f, t[1], t[2]) <=> t[2] \in psiWindows
      BY <1>2 DEF Wanted, Pressure, Files
    <3> QED BY <2>3, <3>2, <3>3, <3>4
  <2> QED BY <2>2, <2>3
<1>3. CASE f = "io.stat"
  <2>1. Collect(f, lines) = CollectIO(f, ParseIOStat(lines)) /\ ~Pressure(f)
    BY <1>3 DEF Collect, Files, Pressure
  <2>2. t \in Says(f, lines) <=> FieldTold(lines, t)
    BY <1>1, <1>3, SaysFields
  <2>3. Wanted(f, t[1], t[2]) <=> t[2] \in ioStatFields
    BY <1>3 DEF Wanted, Pressure, Files
  <2>4. (\E s \in Collect(f, lines) : t = Told(s)) <=>
           FieldTold(lines, t) /\ t[2] \in ioStatFields
    BY <1>1, <2>1, ToldOfDevices
  <2> QED BY <2>1, <2>2, <2>3, <2>4
<1>4. ASSUME f \notin Files["psi"] \cup {"io.stat"}, NEW keys, NEW unit,
             Collect(f, lines) = CollectKeyed(f, keys, ParseKeyed(lines), unit),
             \A i \in 1..Len(lines) :
                SaysKey(lines, i) => (Wanted(f, lines[i].head, Blank) <=>
                   lines[i].head \in keys)
      PROVE  (\E s \in Collect(f, lines) : t = Told(s)) <=>
                t \in Says(f, lines) /\ Wanted(f, t[1], t[2])
  <2>1. t \in Says(f, lines) <=> KeyTold(lines, t)
    <3>1. DOMAIN lines = 1..Len(lines)
      BY <1>1
    <3>2. t \in Says(f, lines) <=>
             \E i \in {i \in 1..Len(lines) : SaysKey(lines, i)} :
                t = <<lines[i].head, Blank, lines[i].fields[1].val>>
      BY <1>4, <3>1 DEF Says, Pressure
    <3> QED BY <3>2 DEF KeyTold
  <2>2. (\E s \in Collect(f, lines) : t = Told(s)) <=>
           KeyTold(lines, t) /\ t[1] \in keys
    <3>1. (\E s \in CollectKeyed(f, keys, ParseKeyed(lines), unit) : t = Told(s)) <=>
             KeyTold(lines, t) /\ t[1] \in keys
      BY <1>1, ToldOfKeyed
    <3> QED BY <1>4, <3>1
  <2>3. KeyTold(lines, t) => (Wanted(f, t[1], t[2]) <=> t[1] \in keys)
    BY <1>4 DEF KeyTold
  <2> QED BY <2>1, <2>2, <2>3
<1>5. CASE f \in {"memory.events", "memory.stat", "cpu.stat", "pids.events"}
  <2>1. ~Pressure(f) /\ f \notin Files["psi"] \cup {"io.stat"}
    BY <1>5 DEF Pressure, Files
  <2>2. CASE f = "memory.events"
    <3>1. Collect(f, lines) =
             CollectKeyed(f, DOMAIN ParseKeyed(lines), ParseKeyed(lines), 1)
      BY <2>2 DEF Collect, Files
    <3>2. \A i \in 1..Len(lines) : SaysKey(lines, i) =>
             lines[i].head \in DOMAIN ParseKeyed(lines)
      BY <1>1, ParsedKeyed
    <3>3. \A head : Wanted(f, head, Blank)
      BY <2>2 DEF Wanted, Pressure, Files
    <3> QED BY <1>4, <2>1, <3>1, <3>2, <3>3
  <2>3. CASE f = "memory.stat"
    <3>1. Collect(f, lines) =
             CollectKeyed(f, ToSet(memStatFields), ParseKeyed(lines), 1)
      BY <2>3 DEF Collect, Files
    <3>2. \A head : Wanted(f, head, Blank) <=> head \in ToSet(memStatFields)
      BY <2>3 DEF Wanted, Pressure, Files
    <3> QED BY <1>4, <2>1, <3>1, <3>2
  <2>4. CASE f = "cpu.stat"
    <3>1. Collect(f, lines) = CollectKeyed(f, {"user_usec", "system_usec"},
                                           ParseKeyed(lines), microsecondsPerSecond)
      BY <2>4 DEF Collect, Files
    <3>2. \A head : Wanted(f, head, Blank) <=> head \in {"user_usec", "system_usec"}
      BY <2>4 DEF Wanted, Pressure, Files
    <3> QED BY <1>4, <2>1, <3>1, <3>2
  <2>5. CASE f = "pids.events"
    <3>1. Collect(f, lines) = CollectKeyed(f, {"max"}, ParseKeyed(lines), 1)
      BY <2>5 DEF Collect, Files
    <3>2. \A head : Wanted(f, head, Blank) <=> head \in {"max"}
      BY <2>5 DEF Wanted, Pressure, Files
    <3> QED BY <1>4, <2>1, <3>1, <3>2
  <2> QED BY <1>5, <2>2, <2>3, <2>4, <2>5
<1>6. CASE f \in ValueFiles
  <2>1. /\ ~Pressure(f) /\ Wanted(f, t[1], t[2])
        /\ Collect(f, lines) = CollectValue(f, IF f =
              "pids.max" THEN ParsePidsMax(lines)
                                                                ELSE ParseUint64(lines))
    BY <1>6 DEF Pressure, Wanted, Files, ValueFiles, Collect
  <2>2. CASE lines = <<>>
    <3>1. Says(f, lines) = {}
      <4>1. ~(Pressure(f) \/ f = "io.stat") /\ DOMAIN lines = {}
        BY <1>6, <2>2 DEF Pressure, Files, ValueFiles
      <4> QED BY <4>1 DEF Says
    <3> QED BY <2>2, <3>1, NothingCollected
  <2>3. CASE lines # <<>>
    <3>1. Collect(f, lines) = CollectValue(f, {Value(lines)} \cap Nat)
      BY <1>1, <1>6, <2>1, <2>3, ToldOfValue
    <3>2. \A v : Told(Series(f, Blank, Blank, v, 1)) = <<Blank, Blank, v>>
      BY ToldSeries
    <3>3. (\E s \in Collect(f, lines) : t = Told(s)) <=>
             Value(lines) \in Nat /\ t = <<Blank, Blank, Value(lines)>>
      BY <3>1, <3>2 DEF CollectValue
    <3>4. /\ Value(lines) \in Int
          /\ t \in Says(f, lines) <=>
                Value(lines) >= 0 /\ t = <<Blank, Blank, Value(lines)>>
      BY <1>1, <1>6, <2>3, ToldOfValue
    <3> QED BY <2>1, <3>3, <3>4
  <2> QED BY <2>2, <2>3
<1> QED BY <1>2, <1>3, <1>5, <1>6 DEF File, Order, ToSet, Pressure, Files, ValueFiles

-----------------------------------------------------------------------------
(* Which files are read.                                                   *)

(* The next file is the first, in order, of those still to be read.        *)
LEMMA NextIsToRead ==
    ASSUME todo \subseteq File, todo # {}
    PROVE  /\ NextFile \in todo
           /\ \E i \in DOMAIN Order : NextFile = Order[i] /\ \A j \in 1..i - 1 :
                 Order[j] \notin todo
<1>1. \E i \in 1..13 : Order[i] \in todo
  BY DEF File, Order, ToSet
<1>2. \E i \in 1..13 : Order[i] \in todo /\ \A j \in 1..i - 1 : Order[j] \notin todo
  BY <1>1 DEF Order
<1>3. DOMAIN Order = 1..13
  BY DEF Order
<1> QED BY <1>2, <1>3 DEF NextFile

(* The return in the middle of a family leaves out nothing: each of these  *)
(* files is the last of its family.                                        *)
LEMMA AfterIsRest ==
    ASSUME todo \subseteq File, todo # {}, NEW ok \in BOOLEAN
    PROVE  After(NextFile, ok) = todo \ {NextFile}
<1>1. PICK i \in DOMAIN Order : NextFile = Order[i] /\ \A j \in 1..i - 1 :
         Order[j] \notin todo
  BY NextIsToRead
<1>2. ASSUME NextFile \in Returns PROVE todo \cap FilesOf(FamilyOf(NextFile)) =
                {NextFile}
  BY NextIsToRead, <1>1, <1>2 DEF Returns, FilesOf, FamilyOf, Files, Order, Families
<1> QED BY <1>2 DEF After

(* The files to be read are files of the enabled families.                 *)
LEMMA EnabledAreFiles ==
    ASSUME FilesInv
    PROVE  /\ families \subseteq Families
           /\ FilesOf(families) \subseteq File
           /\ todo \subseteq File
<1>1. families \subseteq Families
  BY FilesAssumption DEF FilesInv
<1>2. FilesOf(Families) \subseteq File
  BY DEF FilesOf, Families, Files, File, ToSet, Order
<1> QED BY <1>1, <1>2 DEF FilesOf, FilesInv

(* A file that was read moves from todo to found.                          *)
LEMMA ReadFilesInv ==
    ASSUME FilesInv, todo # {}, NEW content, KernelWrites(NextFile, content),
           ReadFile(content)
    PROVE  FilesInv'
<1>1. todo \subseteq File /\ NextFile \in todo /\ NextFile \in File
  BY NextIsToRead, EnabledAreFiles
<1>2. todo' = todo \ {NextFile}
  <2>1. content \in Content
    BY DEF KernelWrites
  <2>2. content.ok \in BOOLEAN
    <3>1. CASE content = Missing
      BY <3>1 DEF Missing
    <3>2. CASE content \in [ok : {TRUE}, lines : Seq(Line)]
      BY <3>2
    <3> QED BY <2>1, <3>1, <3>2 DEF Content
  <2>3. todo' = After(NextFile, content.ok)
    BY DEF ReadFile
  <2> QED BY <1>1, <2>2, <2>3, AfterIsRest
<1>3. /\ DOMAIN found' = DOMAIN found \cup {NextFile}
      /\ found'[NextFile] = content
      /\ \A f \in DOMAIN found : f # NextFile => found'[f] = found[f]
  BY DEF ReadFile, Set
<1>4. UNCHANGED <<setting, families, psiWindows, memStatFields>>
  BY DEF ReadFile, config
<1> QED BY <1>1, <1>2, <1>3, <1>4 DEF FilesInv

(* What the model lets a file hold is what the kernel may write.           *)
LEMMA UsualFiles ==
    ASSUME NEW f \in File
    PROVE  /\ KernelWrites(f, Usual[f]) /\ KernelWrites(f, Missing)
           /\ \A content \in Unusual[f] : KernelWrites(f, content)
<1>1. KernelWrites(f, Missing)
  BY DEF KernelWrites, Missing, Content, ToSet
<1> QED BY <1>1, FilesAssumption

(* Every step keeps FilesInv.                                              *)
LEMMA FilesStep ==
    ASSUME FilesInv, [Next]_vars
    PROVE  FilesInv'
<1>1. CASE CollectOne
  BY <1>1 DEF CollectOne, FilesInv, config, Nothing
<1>2. todo \subseteq File /\ (todo # {} => NextFile \in File)
  BY NextIsToRead, EnabledAreFiles
<1>3. CASE ReadUsual
  BY <1>2, <1>3, UsualFiles, ReadFilesInv DEF ReadUsual
<1>4. CASE ReadUnusual
  BY <1>2, <1>4, UsualFiles, ReadFilesInv DEF ReadUnusual
<1>5. CASE ReadNothing
  BY <1>2, <1>5, UsualFiles, ReadFilesInv DEF ReadNothing
<1>6. CASE Churn
  BY <1>6 DEF Churn, FilesInv, config
<1>7. CASE UNCHANGED vars
  BY <1>7 DEF vars, FilesInv, config
<1> QED BY <1>1, <1>3, <1>4, <1>5, <1>6, <1>7 DEF Next

(* Each file of the enabled families is read once in a call, or still to   *)
(* be read.                                                                *)
THEOREM FilesInvariant == Spec => []FilesInv
<1>1. Init => FilesInv
  BY DEF Init, FilesInv, Nothing
<1> QED BY <1>1, FilesStep, PTL DEF Spec

(* A file that is missing, empty or malformed keeps no other one of the    *)
(* cgroup from being read (cgroup_collector.go 446 and 480).               *)
THEOREM NoneSkipped == Spec => []NoFileSkipped
<1>1. FilesInv => NoFileSkipped
  BY DEF FilesInv, NoFileSkipped
<1> QED BY <1>1, FilesInvariant, PTL

-----------------------------------------------------------------------------
(* What was sent in the end.                                               *)

(* The list of memory.stat fields, configured or not, is finite.           *)
LEMMA FieldsAreList ==
    ASSUME FilesInv
    PROVE  IsFiniteSet(DOMAIN memStatFields)
<1>1. setting.statFields \in Seq(STRING)
  BY FilesAssumption DEF FilesInv
<1>2. DOMAIN setting.statFields = 1..Len(setting.statFields)
      /\ Len(setting.statFields) \in Nat
  BY <1>1
<1>3. DOMAIN defaultMemoryStatFields = 1..5
  BY DEF defaultMemoryStatFields
<1>4. \A n \in Nat : IsFiniteSet(1..n)
  BY FS_Interval
<1> QED BY <1>2, <1>3, <1>4 DEF FilesInv, MemStatFields

(* So a series is sent a number of times.                                  *)
LEMMA CopiesAreCounted ==
    ASSUME IsFiniteSet(DOMAIN memStatFields), NEW s
    PROVE  Copies(s) \in Nat
<1> DEFINE at == {i \in DOMAIN memStatFields : memStatFields[i] = s.head}
<1>1. at \subseteq DOMAIN memStatFields
  OBVIOUS
<1>2. Cardinality(at) \in Nat
  <2> HIDE DEF at
  <2> QED BY <1>1, FS_Subset, FS_CardinalityType
<1> QED BY <1>2 DEF Copies

(* Reading a file sends what is collected of it, and only that.            *)
LEMMA ReadSentInv ==
    ASSUME FilesInv, SentInv, todo # {}, NEW content,
           KernelWrites(NextFile, content), ReadFile(content)
    PROVE  SentInv'
<1> DEFINE f == NextFile
           lines == content.lines
<1>1. f \in File /\ f \notin DOMAIN found
  BY NextIsToRead, EnabledAreFiles DEF FilesInv
<1>2. /\ DOMAIN found' = DOMAIN found \cup {f} /\ found'[f] = content
      /\ \A g \in DOMAIN found : found'[g] = found[g]
  BY <1>1 DEF ReadFile, Set
<1>3. \A g, text : Collect(g, text)' = Collect(g, text)
  BY DEF ReadFile, config, Collect, CollectPSI, CollectValue, CollectKeyed, CollectIO
<1>4. \A s : Copies(s)' = Copies(s)
  BY DEF ReadFile, config, Copies
<1>5. \A s \in DOMAIN sent : s.file \in DOMAIN found
  BY CollectedOf DEF SentInv
<1>6. \A s \in Collect(f, lines) : s.file = f /\ s \notin DOMAIN sent
  BY <1>1, <1>5, CollectedOf
<1>7. /\ DOMAIN sent' = DOMAIN sent \cup Collect(f, lines)
      /\ \A s \in DOMAIN sent' : sent'[s] = Copies(s)
  <2>1. CASE content.ok
    <3>1. sent' = sent (+) Emit(f, lines)
      BY <2>1 DEF ReadFile
    <3>2. /\ DOMAIN Emit(f, lines) = Collect(f, lines)
          /\ \A s \in Collect(f, lines) : Emit(f, lines)[s] = Copies(s)
      BY DEF Emit
    <3>3. \A s : Copies(s) \in Nat
      BY FieldsAreList, CopiesAreCounted
    <3> QED BY <3>1, <3>2, <3>3, <1>6 DEF SentInv, (+)
  <2>2. CASE ~content.ok
    <3>1. lines = <<>>
      <4>1. content \notin [ok : {TRUE}, lines : Seq(Line)]
        BY <2>2
      <4>2. content = Missing
        BY <4>1 DEF KernelWrites, Content
      <4> QED BY <4>2 DEF Missing
    <3>2. Collect(f, lines) = {} /\ sent' = sent
      BY <1>1, <2>2, <3>1, NothingCollected DEF ReadFile
    <3> QED BY <3>2 DEF SentInv
  <2> QED BY <2>1, <2>2
<1> HIDE DEF f, lines
<1>8. UNION {Collect(g, found'[g].lines) : g \in DOMAIN found'}
         = (UNION {Collect(g, found[g].lines) : g \in DOMAIN found})
              \cup Collect(f, lines)
  BY <1>1, <1>2 DEF lines
<1> QED BY <1>3, <1>4, <1>7, <1>8 DEF SentInv

(* Every step keeps SentInv.                                               *)
LEMMA SentStep ==
    ASSUME FilesInv, SentInv, [Next]_vars
    PROVE  SentInv'
<1>1. CASE CollectOne
  BY <1>1 DEF CollectOne, SentInv, Nothing, EmptyBag, SetToBag
<1>2. todo \subseteq File /\ (todo # {} => NextFile \in File)
  BY NextIsToRead, EnabledAreFiles
<1>3. CASE ReadUsual
  BY <1>2, <1>3, UsualFiles, ReadSentInv DEF ReadUsual
<1>4. CASE ReadUnusual
  BY <1>2, <1>4, UsualFiles, ReadSentInv DEF ReadUnusual
<1>5. CASE ReadNothing
  BY <1>2, <1>5, UsualFiles, ReadSentInv DEF ReadNothing
<1>6. ASSUME UNCHANGED <<config, sent, found>> PROVE SentInv'
  <2>1. \A g, text : Collect(g, text)' = Collect(g, text)
    BY <1>6 DEF config, Collect, CollectPSI, CollectValue, CollectKeyed, CollectIO
  <2>2. \A s : Copies(s)' = Copies(s)
    BY <1>6 DEF config, Copies
  <2> QED BY <1>6, <2>1, <2>2 DEF SentInv
<1> QED BY <1>1, <1>3, <1>4, <1>5, <1>6 DEF Next, Churn, vars

(* What was sent is what was collected of the files read, each series as   *)
(* often as its field is configured.                                       *)
THEOREM SentInvariant == Spec => []SentInv
<1>1. Init => SentInv
  BY DEF Init, SentInv, Nothing, EmptyBag, SetToBag
<1>2. FilesInv /\ SentInv /\ [Next]_vars => SentInv'
  BY SentStep
<1> QED BY <1>1, <1>2, FilesInvariant, PTL DEF Spec

(* What is sent of a file is what it says and the configuration asks for,  *)
(* whatever it holds: no series stands for a number the file does not hold *)
(* (cgroup_collector.go 459, 493, 546).                                    *)
THEOREM SentAsRead == Spec => []SentIsRead
<1>1. FilesInv /\ SentInv => SentIsRead
  <2> SUFFICES ASSUME FilesInv, SentInv, NEW f \in DOMAIN found
               PROVE  LET lines  == found[f].lines
                          broken == Pressure(f) /\ \E line \in ToSet(lines) :
                             Malformed(line)
                      IN  {<<s.head, s.key, s.val[1]>> :
                         s \in {s \in DOMAIN sent : s.file = f}}
                             = {t \in Says(f, lines) :
                                ~broken /\ Wanted(f, t[1], t[2])}
    BY DEF SentIsRead
  <2> DEFINE lines == found[f].lines
             broken == Pressure(f) /\ \E line \in ToSet(lines) : Malformed(line)
  <2>1. f \in File /\ KernelWrites(f, found[f])
    BY DEF FilesInv
  <2>2. psiWindows \subseteq Windows
    BY DEF FilesInv, ResolvePSIWindows, Windows
  <2>3. {s \in DOMAIN sent : s.file = f} = Collect(f, lines)
    BY CollectedOf DEF SentInv
  <2>4. \A t : (\E s \in Collect(f, lines) : t = Told(s)) <=>
                  /\ t \in Says(f, lines) /\ ~broken /\ Wanted(f, t[1], t[2])
    BY <2>1, <2>2, CollectsWhatItSays
  <2>5. {Told(s) : s \in Collect(f, lines)}
           = {t \in Says(f, lines) : ~broken /\ Wanted(f, t[1], t[2])}
    <3> HIDE DEF lines, broken
    <3> QED BY <2>4
  <2>6. {<<s.head, s.key, s.val[1]>> : s \in Collect(f, lines)} = {Told(s) :
           s \in Collect(f, lines)}
    <3> HIDE DEF lines
    <3> QED BY DEF Told
  <2> QED BY <2>3, <2>5, <2>6
<1> QED BY <1>1, FilesInvariant, SentInvariant, PTL

(* A set with more than one member has two.                                *)
LEMMA TwoMembers ==
    ASSUME NEW S, Cardinality(S) > 1
    PROVE  \E a, b \in S : a # b
<1>1. Cardinality({}) = 0 /\ \A x : Cardinality({x}) = 1
  BY FS_EmptySet, FS_Singleton
<1>2. PICK a \in S : TRUE
  <2>1. S # {}
    BY <1>1
  <2> QED BY <2>1
<1>3. S # {a}
  <2> SUFFICES ASSUME S = {a} PROVE FALSE
    OBVIOUS
  <2>1. Cardinality({a}) = 1
    BY <1>1
  <2> QED BY <2>1
<1> QED BY <1>2, <1>3

(* A cgroup sends a series twice only if the configured list of            *)
(* memory.stat fields names it twice (cgroup_collector.go 458).            *)
THEOREM RepeatsRefuse == Spec => []RefusedForRepeats
<1>1. FilesInv /\ SentInv => RefusedForRepeats
  <2> SUFFICES ASSUME FilesInv, SentInv, NEW s \in DOMAIN sent, sent[s] > 1
               PROVE  \E i, j \in DOMAIN setting.statFields :
                         /\ i # j /\ setting.statFields[i] = setting.statFields[j]
                         /\ \E r \in DOMAIN sent :
                               r.file = "memory.stat"
                                  /\ r.head = setting.statFields[i]
    BY DEF RefusedForRepeats, Refused
  <2>1. Copies(s) > 1
    BY DEF SentInv
  <2> DEFINE at == {i \in DOMAIN memStatFields : memStatFields[i] = s.head}
  <2>2. s.file = "memory.stat" /\ Cardinality(at) > 1
    BY <2>1 DEF Copies
  <2>4. memStatFields = MemStatFields(setting.statFields)
    BY DEF FilesInv
  <2>6. PICK i, j \in DOMAIN memStatFields :
           i # j /\ memStatFields[i] = memStatFields[j] /\ memStatFields[i] = s.head
    <3>1. \E i, j \in at : i # j
      <4> HIDE DEF at
      <4> QED BY <2>2, TwoMembers
    <3> QED BY <3>1
  <2>7. memStatFields # defaultMemoryStatFields
    <3>1. DOMAIN defaultMemoryStatFields = 1..5
      BY DEF defaultMemoryStatFields
    <3>2. \A k, l \in 1..5 : k # l =>
             defaultMemoryStatFields[k] # defaultMemoryStatFields[l]
      BY DEF defaultMemoryStatFields
    <3> QED BY <2>6, <3>1, <3>2
  <2>8. memStatFields = setting.statFields
    BY <2>4, <2>7 DEF MemStatFields
  <2> QED BY <2>2, <2>6, <2>8
<1> QED BY <1>1, FilesInvariant, SentInvariant, PTL
=============================================================================

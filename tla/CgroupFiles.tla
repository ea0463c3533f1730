----------------------------- MODULE CgroupFiles -----------------------------
(***************************************************************************)
(* What is sent of one cgroup: collectOne (collector/cgroup_collector.go)  *)
(* reads the files of the enabled families one by one, the parsers of      *)
(* package cgroup take them apart, and what a file has of a metric becomes *)
(* a series.  Kernels differ in the files and keys they have, a file may   *)
(* be unreadable or hold what the parser does not expect, and the cgroup   *)
(* may go, or come back, between the reading of two files.                 *)
(*                                                                         *)
(* A file is a sequence of lines; a line has a head (a key, a device, some *)
(* or full, "" in a file with one value) and fields, each with a key ("",  *)
(* if it has no "=") and a value, negative if it is no number.             *)
(***************************************************************************)
EXTENDS Integers, Sequences, FiniteSets, SequencesExt, Bags, OrderedMaps

CONSTANTS
    Settings,   \* configurations: [families, windows, statFields]
    Usual,      \* what each file holds on a recent kernel
    Unusual,    \* what else it may hold
    MaxUnusual  \* bound: in one call, files that do not hold the usual, and
                \* removals and returns of the cgroup

Blank     == ""   \* the head or key there is not
Unlimited == -2   \* the word "max"
Junk      == -1   \* anything else that is no number

Families == {"psi", "memory", "cpu", "pids", "io"}
Windows  == {"total", "avg10", "avg60", "avg300"}

(* The files of each family, and the order in which collectOne reads them. *)
Files ==
    [psi    |-> {"cpu.pressure", "memory.pressure", "io.pressure"},
     memory |-> {"memory.current", "memory.swap.current", "memory.events",
                 "memory.stat"},
     cpu    |-> {"cpu.stat"},
     pids   |-> {"pids.current", "pids.max", "pids.peak", "pids.events"},
     io     |-> {"io.stat"}]

Order == <<"cpu.pressure", "memory.pressure", "io.pressure",
           "memory.current", "memory.swap.current", "memory.events",
           "memory.stat", "cpu.stat",
           "pids.current", "pids.max", "pids.peak", "pids.events", "io.stat">>

File == ToSet(Order)

FilesOf(enabled) == UNION {Files[family] : family \in enabled}

(* What an open and a read give: an error, or lines.                       *)
Field   == [key : STRING, val : Int]
Line    == [head : STRING, fields : Seq(Field)]
Missing == [ok |-> FALSE, lines |-> <<>>]
Content == [ok : {TRUE}, lines : Seq(Line)] \cup {Missing}

VARIABLES
    setting,       \* history: the configuration the program was given
    families,      \* the families enabled
    psiWindows,    \* the PSI values to send
    memStatFields, \* the fields of memory.stat to send, a list
    there,         \* does the cgroup exist
    todo,          \* the files still to be read
    sent,          \* a bag of series
    found,         \* history: what each file held when it was read
    unusual

config == <<setting, families, psiWindows, memStatFields>>
vars   == <<config, there, todo, sent, found, unusual>>

-----------------------------------------------------------------------------
(* newCgroupCollector and its defaults.                                    *)
defaultMemoryStatFields == <<"anon", "file", "kernel", "slab", "sock">>

(* Unknown entries are ignored; a list of nothing else leaves nothing.     *)
ResolvePSIWindows(list) ==
    IF list = <<>> THEN {"total"} ELSE ToSet(list) \cap Windows

(* Mutant: a configured list adds to the defaults.                         *)
MemStatFieldsMore(list) == defaultMemoryStatFields \o list

MemStatFields(list) == IF list = <<>> THEN defaultMemoryStatFields ELSE list

Nothing == [f \in {} |-> Missing]

(* There is no collector if no family is enabled.                          *)
Init ==
    /\ \E s \in Settings :
          /\ s.families # {}
          /\ setting = s
          /\ families = s.families
          /\ psiWindows = ResolvePSIWindows(s.windows)
          /\ memStatFields = MemStatFields(s.statFields)
    /\ there \in BOOLEAN
    /\ todo = {}
    /\ sent = EmptyBag
    /\ found = Nothing
    /\ unusual = 0

-----------------------------------------------------------------------------
(* The parsers.  One that fails, and one that finds nothing, come to the   *)
(* same: the collector sends nothing.                                      *)

(* The numbers a value file stands for: one, or none.                      *)
Value(lines) == lines[1].fields[1].val

(* Mutant: no limit is a limit of zero.                                    *)
ParsePidsMaxZero(lines) ==
    IF lines = <<>> THEN {}
    ELSE IF Value(lines) = Unlimited THEN {0}
    ELSE {Value(lines)} \cap Nat

ParseUint64(lines) ==
    IF lines = <<>> THEN {}
    ELSE IF Value(lines) = Unlimited THEN {0}
    ELSE {Value(lines)} \cap Nat

ParsePidsMax(lines) == IF lines = <<>> THEN {} ELSE {Value(lines)} \cap Nat

(* What does not parse is passed over.                                     *)
ParseFields(fields) ==
    SetInOrder([i \in 1..Len(fields) |->
        LET kv == fields[i] IN
        Setting(kv.key # Blank /\ kv.val \in Nat, kv.key, kv.val)])

(* A key and a number; a line of more fields is passed over too.           *)
Number(line) == IF Len(line.fields) = 1 THEN line.fields[1].val ELSE Junk

ParseKeyed(lines) ==
    SetInOrder([i \in 1..Len(lines) |->
        Setting(Number(lines[i]) \in Nat, lines[i].head, Number(lines[i]))])

ParseIOStat(lines) ==
    SetInOrder([i \in 1..Len(lines) |->
        Setting(TRUE, lines[i].head, ParseFields(lines[i].fields))])

(* One malformed line makes the whole pressure file useless; keys that are *)
(* not known are passed over.  What a line does not mention is zero.       *)
Malformed(line) ==
    \/ line.head \notin {"some", "full"}
    \/ line.fields = <<>>
    \/ \E kv \in ToSet(line.fields) :
          kv.key = Blank \/ (kv.key \in Windows /\ kv.val < 0)

PSILine(line) ==
    LET fields == ParseFields(line.fields) IN
    [w \in Windows |-> IF w \in DOMAIN fields THEN fields[w] ELSE 0]

ParsePSI(lines) ==
    IF \E line \in ToSet(lines) : Malformed(line) THEN NoKeys
    ELSE SetInOrder([i \in 1..Len(lines) |->
             Setting(TRUE, lines[i].head, PSILine(lines[i]))])

-----------------------------------------------------------------------------
(* What the kernel writes: a file with one value has one line of one field;*)
(* only the limit says max (stat.go 12: callers of the *.current files     *)
(* won't see it); a line of a pressure file that is well formed has all    *)
(* the values.                                                             *)
ValueFiles == {"memory.current", "memory.swap.current", "pids.current",
               "pids.max", "pids.peak"}

KernelWrites(f, content) ==
    /\ content \in Content
    /\ f \in ValueFiles =>
          /\ Len(content.lines) <= 1
          /\ \A line \in ToSet(content.lines) :
                /\ line.head = Blank /\ Len(line.fields) = 1
                /\ line.fields[1].val = Unlimited => f = "pids.max"
    /\ f \in Files["psi"] =>
          \A line \in ToSet(content.lines) :
             Malformed(line) \/ Windows \subseteq {kv.key : kv \in ToSet(line.fields)}

ASSUME FilesAssumption ==
    /\ \A f \in File : \A content \in {Usual[f]} \cup Unusual[f] :
          KernelWrites(f, content)
    /\ \A s \in Settings : /\ s.families \subseteq Families
                            /\ s.windows \in Seq(STRING)
                            /\ s.statFields \in Seq(STRING)
    /\ MaxUnusual \in Nat

-----------------------------------------------------------------------------
(* What is sent of each file.  A series, which has a metric and labels of  *)
(* its own, is known by the file, the head and the key of what it carries. *)
(* Its value is a fraction: microseconds are sent as seconds.              *)
Series(f, head, key, val, unit) ==
    [file |-> f, head |-> head, key |-> key, val |-> <<val, unit>>]

microsecondsPerSecond == 1000000

CollectPSI(f, stats) ==
    {Series(f, kind, w, stats[kind][w],
            IF w = "total" THEN microsecondsPerSecond ELSE 1) :
        kind \in DOMAIN stats, w \in psiWindows}

CollectValue(f, values) == {Series(f, Blank, Blank, v, 1) : v \in values}

CollectKeyed(f, keys, map, unit) ==
    {Series(f, k, Blank, map[k], unit) : k \in keys \cap DOMAIN map}

ioStatFields == {"rbytes", "wbytes", "dbytes", "rios", "wios", "dios"}

CollectIO(f, devices) ==
    UNION {{Series(f, dev, k, devices[dev][k], 1) :
               k \in ioStatFields \cap DOMAIN devices[dev]} :
           dev \in DOMAIN devices}

Collect(f, lines) ==
    LET keyed == ParseKeyed(lines) IN
    CASE f \in Files["psi"]   -> CollectPSI(f, ParsePSI(lines))
      [] f = "memory.events" -> CollectKeyed(f, DOMAIN keyed, keyed, 1)
      [] f = "memory.stat"   -> CollectKeyed(f, ToSet(memStatFields), keyed, 1)
      [] f = "cpu.stat"      -> CollectKeyed(f, {"user_usec", "system_usec"},
                                             keyed, microsecondsPerSecond)
      [] f = "pids.max"      -> CollectValue(f, ParsePidsMax(lines))
      [] f = "pids.events"   -> CollectKeyed(f, {"max"}, keyed, 1)
      [] f = "io.stat"       -> CollectIO(f, ParseIOStat(lines))
      [] OTHER               -> CollectValue(f, ParseUint64(lines))

(* A field of memory.stat that the list names twice is sent twice.         *)
Copies(s) ==
    IF s.file = "memory.stat"
    THEN Cardinality({i \in DOMAIN memStatFields : memStatFields[i] = s.head})
    ELSE 1

Emit(f, lines) == [s \in Collect(f, lines) |-> Copies(s)]

-----------------------------------------------------------------------------
(* collectOne begins with a cgroup, found by a pattern or by its processes.*)
CollectOne ==
    /\ todo = {}
    /\ todo' = FilesOf(families)
    /\ sent' = EmptyBag
    /\ found' = Nothing
    /\ unusual' = 0
    /\ UNCHANGED <<config, there>>

NextFile == Order[CHOOSE i \in DOMAIN Order :
                     /\ Order[i] \in todo
                     /\ \A j \in 1..i - 1 : Order[j] \notin todo]

(* After one of these files fails, the rest of its family is not read.     *)
Returns == {"memory.stat", "cpu.stat", "io.stat"}

FamilyOf(f) == {family \in Families : f \in Files[family]}

(* Mutant: the rest of the family is not read after any failure.           *)
AfterReturns(f, ok) ==
    IF ok THEN todo \ {f} ELSE todo \ FilesOf(FamilyOf(f))

After(f, ok) ==
    IF ok \/ f \notin Returns THEN todo \ {f} ELSE todo \ FilesOf(FamilyOf(f))

(* The reader opens, reads and parses the next file.                       *)
ReadFile(content) ==
    LET f == NextFile IN
    /\ found' = Set(found, f, content)
    /\ sent' = IF content.ok THEN sent (+) Emit(f, content.lines) ELSE sent
    /\ todo' = After(f, content.ok)
    /\ UNCHANGED <<config, there>>

ReadUsual ==
    /\ todo # {} /\ there
    /\ ReadFile(Usual[NextFile])
    /\ UNCHANGED unusual

ReadUnusual ==
    /\ todo # {} /\ there
    /\ unusual < MaxUnusual
    /\ unusual' = unusual + 1
    /\ \E content \in Unusual[NextFile] : ReadFile(content)

ReadNothing ==
    /\ todo # {} /\ ~there
    /\ ReadFile(Missing)
    /\ UNCHANGED unusual

(* The kubelet removes the cgroup, or makes it again.                      *)
Churn ==
    /\ unusual < MaxUnusual
    /\ unusual' = unusual + 1
    /\ there' = ~there
    /\ UNCHANGED <<config, todo, sent, found>>

Next == CollectOne \/ ReadUsual \/ ReadUnusual \/ ReadNothing \/ Churn

Spec == Init /\ [][Next]_vars

-----------------------------------------------------------------------------
(* Properties.                                                             *)

(* What a file says, told without parsing it: the number of a key is the   *)
(* last one any line gives it; of a key of a device, or of some and full,  *)
(* the last one in the last line there is of them.                         *)
IsPair(line) == Len(line.fields) = 1 /\ line.fields[1].val >= 0

SaysKey(lines, i) ==
    /\ IsPair(lines[i])
    /\ \A j \in i + 1..Len(lines) :
          lines[j].head = lines[i].head => ~IsPair(lines[j])

SaysField(lines, i, n) ==
    LET fields == lines[i].fields IN
    /\ fields[n].key # Blank /\ fields[n].val >= 0
    /\ \A m \in n + 1..Len(fields) :
          fields[m].key = fields[n].key => fields[m].val < 0
    /\ \A j \in i + 1..Len(lines) : lines[j].head # lines[i].head

Pressure(f) == f \in Files["psi"]

Says(f, lines) ==
    LET fields == UNION {{i} \X DOMAIN lines[i].fields : i \in DOMAIN lines}
    IN  IF Pressure(f) \/ f = "io.stat"
        THEN {<<lines[p[1]].head, lines[p[1]].fields[p[2]].key,
                lines[p[1]].fields[p[2]].val>> :
                 p \in {p \in fields : SaysField(lines, p[1], p[2])}}
        ELSE {<<lines[i].head, Blank, lines[i].fields[1].val>> :
                 i \in {i \in DOMAIN lines : SaysKey(lines, i)}}

(* What of it the configuration asks for.                                  *)
Wanted(f, head, key) ==
    /\ Pressure(f)       => key \in psiWindows
    /\ f = "memory.stat" => head \in ToSet(memStatFields)
    /\ f = "cpu.stat"    => head \in {"user_usec", "system_usec"}
    /\ f = "pids.events" => head = "max"
    /\ f = "io.stat"     => key \in ioStatFields

(* What is sent of a file is what it says and the configuration asks for:  *)
(* no series stands for a number the file does not hold (cgroup_collector  *)
(* 459, 493, 546), and a line that cannot be read costs no other one, but  *)
(* in a pressure file, which is used as a whole or not at all.             *)
SentIsRead ==
    \A f \in DOMAIN found :
        LET lines  == found[f].lines
            broken == Pressure(f) /\ \E line \in ToSet(lines) : Malformed(line)
        IN  {<<s.head, s.key, s.val[1]>> : s \in {s \in DOMAIN sent : s.file = f}}
               = {t \in Says(f, lines) : ~broken /\ Wanted(f, t[1], t[2])}

(* A file that is missing, empty or malformed keeps no other file of the   *)
(* cgroup from being read (cgroup_collector.go 446: a missing memory.stat  *)
(* cannot suppress the OOM counters; 480: each is read independently).     *)
NoFileSkipped ==
    todo = {} /\ found # Nothing => DOMAIN found = FilesOf(families)

(* The registry refuses a scrape as a whole if a series is in it twice.    *)
(* One cgroup gives it no cause for that, whatever its files hold, unless  *)
(* the configured list of memory.stat fields names one of them twice.      *)
Refused == \E s \in DOMAIN sent : sent[s] > 1

RefusedForRepeats ==
    Refused =>
        LET list == setting.statFields IN
        \E i, j \in DOMAIN list :
            /\ i # j /\ list[i] = list[j]
            /\ \E s \in DOMAIN sent : s.file = "memory.stat" /\ s.head = list[i]

-----------------------------------------------------------------------------
(* What the proofs rest on.                                                *)

(* A file is read or still to be read, once in a call; before the first    *)
(* call there is none.                                                     *)
FilesInv ==
    /\ setting \in Settings /\ families = setting.families
    /\ psiWindows = ResolvePSIWindows(setting.windows)
    /\ memStatFields = MemStatFields(setting.statFields)
    /\ \A f \in DOMAIN found : f \in File /\ KernelWrites(f, found[f])
    /\ todo \subseteq FilesOf(families) \ DOMAIN found
    /\ \/ todo = {} /\ found = Nothing
       \/ DOMAIN found \cup todo = FilesOf(families)

(* What was sent is what was collected of the files read, each series as   *)
(* often as its field is configured.                                       *)
SentInv ==
    /\ DOMAIN sent = UNION {Collect(f, found[f].lines) : f \in DOMAIN found}
    /\ \A s \in DOMAIN sent : sent[s] = Copies(s)
=============================================================================

------------------------------- MODULE Namer -------------------------------
(***************************************************************************)
(* The namer the tracker asks whether it shall follow a process, and under *)
(* what name: either the items of a config file (config/config.go) or the  *)
(* flags -procnames and -namemapping (cmd/process-exporter/main.go).       *)
(*                                                                         *)
(* Texts are values.  Of an executable's path all that is used is its last *)
(* element and whether it has a slash; of a regular expression the names   *)
(* of its groups and what each of them captures; of a template the         *)
(* parameters it asks for.  A name is the sequence of the texts it is made *)
(* of.  YAML, regexp and text/template are libraries.                      *)
(***************************************************************************)
EXTENDS Integers, Sequences, SequencesExt, OrderedMaps

CONSTANTS
    Procs,          \* what processes look like: [comm, argv, username]
    Settings,       \* [path, items, namemapping, procnames]: is there a config
                    \* file, its process_names, and the two flags
    Base(_),        \* filepath.Base
    Slashed(_),     \* strings.Contains(e, "/")
    GroupNames(_),  \* SubexpNames of a regexp, <<>> if it does not compile
    Submatch(_, _), \* FindStringSubmatch in a command line, <<>> if none
    NoText          \* what a template prints for a capture there is not

(* The empty text: of a group without a name, or one that captured nothing.*)
Empty == ""

(* An item of process_names: the selectors it has, what they list, and its *)
(* name, whose parts each ask for a parameter.                             *)
MatcherGroup ==
    [has : SUBSET {"comm", "exe", "cmdline"},
     comm : Seq(STRING), exe : Seq(STRING), cmdline : Seq(STRING),
     name : [ok : BOOLEAN, parts : Seq([field : STRING, key : STRING])]]

ASSUME SettingsAssumption ==
    \A s \in Settings :
        /\ s.path \in BOOLEAN /\ s.items \in Seq(MatcherGroup)
        /\ \A item \in ToSet(s.items) : \A r \in ToSet(item.cmdline) :
              GroupNames(r) \in Seq(STRING)
ASSUME SlashedAssumption == ~Slashed(Empty)

(* The parameters of a template; Username stands for all that are passed   *)
(* on as the tracker found them.                                           *)
Fields == {"Comm", "ExeBase", "ExeFull", "Username", "Matches"}

VARIABLES
    setting,   \* history: how the program was called
    phase,     \* start, refused, or the kind of namer
    matchers,  \* of each item: comms, exes, regexes, template
    captures,  \* of each item: the map its cmdlineMatcher writes to
    mapping,   \* the map of nameMapperRegex
    answers    \* history: what was last answered for each process

vars == <<setting, phase, matchers, captures, mapping, answers>>

No   == [matched |-> FALSE, name |-> <<>>]
Yes(name) == [matched |-> TRUE, name |-> name]
Unasked   == [matched |-> FALSE, name |-> <<Empty>>]

Init ==
    /\ setting \in Settings
    /\ phase = "start"
    /\ matchers = <<>> /\ captures = <<>>
    /\ mapping = NoKeys
    /\ answers = [p \in Procs |-> Unasked]

-----------------------------------------------------------------------------
(* ToConfig.                                                               *)

(* Rules with a slash are kept by base name: of two with the same, the     *)
(* last one stays.  A rule without one matches whatever path.              *)
RuleBase(e) == IF Slashed(e) THEN Base(e) ELSE e

(* Mutant: paths are not told apart at all.                                *)
ExesByBase(rules) ==
    SetInOrder([i \in 1..Len(rules) |-> Setting(TRUE, RuleBase(rules[i]), Empty)])

Exes(rules) ==
    SetInOrder([i \in 1..Len(rules) |->
        Setting(TRUE, RuleBase(rules[i]),
                IF Slashed(rules[i]) THEN rules[i] ELSE Empty)])

DefaultTemplate == [ok |-> TRUE, parts |-> <<[field |-> "ExeBase", key |-> Empty]>>]

Compiles(r) == GroupNames(r) # <<>>

Template(item) == IF item.name.parts = <<>> /\ item.name.ok THEN DefaultTemplate
                                                           ELSE item.name

Refused(item) ==
    \/ item.has = {}
    \/ "cmdline" \in item.has /\ \E r \in ToSet(item.cmdline) : ~Compiles(r)
    \/ ~Template(item).ok

Matcher(item) ==
    [has |-> item.has, comms |-> ToSet(item.comm), exes |-> Exes(item.exe),
     regexes |-> item.cmdline, template |-> Template(item)]

(* One bad item, or one of the flags, and the program does not start.      *)
ReadFile ==
    /\ phase = "start" /\ setting.path
    /\ IF \/ setting.namemapping # <<>> \/ setting.procnames # {}
          \/ \E item \in ToSet(setting.items) : Refused(item)
       THEN phase' = "refused" /\ UNCHANGED <<matchers, captures>>
       ELSE /\ phase' = "items"
            /\ matchers' = [i \in DOMAIN setting.items |-> Matcher(setting.items[i])]
            /\ captures' = [i \in DOMAIN setting.items |-> NoKeys]
    /\ UNCHANGED <<setting, mapping, answers>>

-----------------------------------------------------------------------------
(* MatchAndName of a FirstMatcher.                                         *)
CommMatch(m, p) == "comm" \in m.has => p.comm \in m.comms

ExeMatch(m, p) ==
    "exe" \in m.has =>
        /\ p.argv # <<>>
        /\ LET exe == p.argv[1] IN
           /\ Base(exe) \in DOMAIN m.exes
           /\ m.exes[Base(exe)] \in {Empty, exe}

(* How many regexps of an item are found before the first that is not.     *)
Found(m, p) ==
    LET missed == {i \in DOMAIN m.regexes : Submatch(m.regexes[i], p.argv) = <<>>}
    IN  IF missed = {} THEN Len(m.regexes) ELSE Min(missed) - 1

CmdlineMatch(m, p) == "cmdline" \in m.has => Found(m, p) = Len(m.regexes)

(* Mutant: a group that captured nothing leaves what there was.            *)
WriteSome(r, argv) ==
    SetInOrder([i \in 1..Len(GroupNames(r)) |->
        Setting(Submatch(r, argv)[i] # Empty, GroupNames(r)[i], Submatch(r, argv)[i])])

(* Each of these writes what its groups captured, whatever becomes of it.  *)
Write(r, argv) ==
    SetInOrder([i \in 1..Len(GroupNames(r)) |->
        Setting(TRUE, GroupNames(r)[i], Submatch(r, argv)[i])])

Captured(map, m, p) ==
    IF "cmdline" \in m.has /\ CommMatch(m, p) /\ ExeMatch(m, p)
    THEN SetOver(map, [i \in 1..Found(m, p) |-> Write(m.regexes[i], p.argv)])
    ELSE map

Match(m, p) == CommMatch(m, p) /\ ExeMatch(m, p) /\ CmdlineMatch(m, p)

Params(p) ==
    [Comm     |-> p.comm,
     ExeFull  |-> IF p.argv = <<>> THEN p.comm ELSE p.argv[1],
     ExeBase  |-> IF p.argv = <<>> THEN p.comm ELSE Base(p.argv[1]),
     Username |-> p.username]

Param(part, p, map) ==
    IF part.field # "Matches" THEN Params(p)[part.field]
    ELSE IF part.key \in DOMAIN map THEN map[part.key]
    ELSE NoText

(* A parameter there is not ends the text, and nobody looks at the error.  *)
Execute(template, p, map) ==
    LET bad == {i \in DOMAIN template.parts : template.parts[i].field \notin Fields}
        n   == IF bad = {} THEN Len(template.parts) ELSE Min(bad) - 1
    IN  [i \in 1..n |-> Param(template.parts[i], p, map)]

(* The first item that matches gives the name; those before it have been   *)
(* tried, and written their captures, too.                                 *)
FirstMatch(p) ==
    LET fits == {i \in DOMAIN matchers : Match(matchers[i], p)}
    IN  IF fits = {} THEN 0 ELSE Min(fits)

AskItems(p) ==
    LET first == FirstMatch(p) IN
    /\ phase = "items"
    /\ captures' = [i \in DOMAIN captures |->
                       IF first = 0 \/ i <= first
                       THEN Captured(captures[i], matchers[i], p)
                       ELSE captures[i]]
    /\ answers' = [answers EXCEPT ![p] =
                      IF first = 0 THEN No
                      ELSE Yes(Execute(matchers[first].template, p,
                                       captures'[first]))]
    /\ UNCHANGED <<setting, phase, matchers, mapping>>

-----------------------------------------------------------------------------
(* The flags.  namemapping alternates names of processes and regexps.      *)
BadMapping(toks) ==
    \/ Len(toks) % 2 = 1
    \/ \E i \in DOMAIN toks : \/ toks[i] = Empty
                              \/ i % 2 = 0 /\ ~Compiles(toks[i])

NameMapper(toks) ==
    SetInOrder([i \in 1..Len(toks) \div 2 |->
        Setting(TRUE, <<toks[2 * i - 1]>>, <<toks[2 * i]>>)])

(* A name of procnames that is mapped stays mapped.                        *)
ParseFlags ==
    /\ phase = "start" /\ ~setting.path
    /\ IF BadMapping(setting.namemapping)
       THEN phase' = "refused" /\ UNCHANGED mapping
       ELSE /\ phase' = "flags"
            /\ mapping' = SetAllOf([s \in setting.procnames \ {<<Empty>>} |-> <<>>],
                                   NameMapper(setting.namemapping))
    /\ UNCHANGED <<setting, matchers, captures, answers>>

Captures(r, argv) ==
    IF Submatch(r, argv) = <<>> THEN <<>> ELSE Tail(Submatch(r, argv))

(* A process whose regexp captures no text is not matched.                 *)
MapName(p) ==
    LET regex == mapping[<<p.comm>>]
        texts == IF regex = <<>> THEN <<>> ELSE Captures(regex[1], p.argv)
        some  == {i \in DOMAIN texts : texts[i] # Empty}
    IN  IF regex = <<>> THEN Yes(<<p.comm>>)
        ELSE IF some = {} THEN No
        ELSE Yes(<<p.comm, texts[Min(some)]>>)

Mapped(p) == IF <<p.comm>> \in DOMAIN mapping THEN MapName(p) ELSE No

AskMapper(p) ==
    /\ phase = "flags"
    /\ answers' = [answers EXCEPT ![p] = Mapped(p)]
    /\ UNCHANGED <<setting, phase, matchers, captures, mapping>>

-----------------------------------------------------------------------------
Next ==
    \/ ReadFile \/ ParseFlags
    \/ \E p \in Procs : AskItems(p) \/ AskMapper(p)

Spec == Init /\ [][Next]_vars

-----------------------------------------------------------------------------
(* Properties.                                                             *)

(* What the README says of an item: each selector it has must match, comm  *)
(* and exe by any of their strings, cmdline by all (README.md 134-145);    *)
(* an exe with a slash must be argv[0] (161-162).                          *)
Documented(item, p) ==
    /\ "comm" \in item.has => p.comm \in ToSet(item.comm)
    /\ "exe" \in item.has =>
          /\ p.argv # <<>>
          /\ \E e \in ToSet(item.exe) :
                IF Slashed(e) THEN p.argv[1] = e ELSE Base(p.argv[1]) = e
    /\ "cmdline" \in item.has =>
          \A r \in ToSet(item.cmdline) : Submatch(r, p.argv) # <<>>

(* The name such an item gives, from what this process has on its command  *)
(* line: a capture is that of the last group of its name.                  *)
Lines(item, key) == {i \in DOMAIN item.cmdline :
                        "cmdline" \in item.has
                        /\ key \in ToSet(GroupNames(item.cmdline[i]))}

OwnCapture(item, p, key) ==
    LET last   == item.cmdline[Max(Lines(item, key))]
        groups == {j \in DOMAIN GroupNames(last) : GroupNames(last)[j] = key}
    IN  IF Lines(item, key) = {} THEN NoText
        ELSE Submatch(last, p.argv)[Max(groups)]

OwnName(item, p) ==
    Execute(Template(item), p,
            [key \in {part.key : part \in ToSet(Template(item).parts)} |->
                OwnCapture(item, p, key)])

(* Rules of one item whose executables have the same base name.            *)
SharedBase(item) ==
    \E i, j \in DOMAIN item.exe :
        item.exe[i] # item.exe[j] /\ RuleBase(item.exe[i]) = RuleBase(item.exe[j])

(* A process gets the name of the first item that matches it as documented,*)
(* from its own command line; with flags but no mapping, its comm if that  *)
(* is listed, and is ignored otherwise (README.md 202-204).                *)
FollowsDocs(p) ==
    IF setting.path
    THEN LET fits == {i \in DOMAIN setting.items : Documented(setting.items[i], p)}
         IN  answers[p] = IF fits = {} THEN No
                          ELSE Yes(OwnName(setting.items[Min(fits)], p))
    ELSE setting.namemapping = <<>> =>
            answers[p] = IF <<p.comm>> \in setting.procnames \ {<<Empty>>}
                         THEN Yes(<<p.comm>>) ELSE No

(* Every process that was asked about is named as the documentation says.  *)
AnyOfItsStrings == \A p \in Procs : answers[p] # Unasked => FollowsDocs(p)

(* The same, unless an item has several executables of one base name       *)
(* (config.go 270-279: exes[filepath.Base(e)] = e).                        *)
NamedAsDocumented ==
    (\A item \in ToSet(setting.items) : ~SharedBase(item)) => AnyOfItsStrings

(* Asked again about a process, as -recheck does, the namer says the same, *)
(* whatever it was asked about in between (config.go 172-188: the captures *)
(* are kept in a map that all processes share).                            *)
SameAnswerAgain ==
    [][\A p \in Procs : answers[p] # Unasked => answers'[p] = answers[p]]_vars

(* What is named by a mapping is in procnames under that name              *)
(* (README.md 212-213).                                                    *)
MappedAreListed ==
    \A p \in Procs :
        phase = "flags" /\ answers[p].matched =>
            answers[p].name \in setting.procnames
-----------------------------------------------------------------------------
(* What the proofs rest on.                                                *)

(* Once started, the namer is what its settings make of it.                *)
ConfigInv ==
    /\ setting \in Settings /\ phase \in {"start", "refused", "items", "flags"}
    /\ phase = "items" =>
          /\ setting.path
          /\ matchers = [i \in DOMAIN setting.items |-> Matcher(setting.items[i])]
    /\ phase = "flags" =>
          /\ ~setting.path
          /\ setting.namemapping = <<>> =>
                mapping = [s \in setting.procnames \ {<<Empty>>} |-> <<>>]

(* Whatever is left of earlier processes in the captures of an item, it is *)
(* under names of its groups, so that a match overwrites all of it.        *)
CapturesInv ==
    phase = "items" =>
        /\ DOMAIN captures = DOMAIN setting.items
        /\ \A i \in DOMAIN captures :
              /\ captures[i] = [k \in DOMAIN captures[i] |-> captures[i][k]]
              /\ \A k \in DOMAIN captures[i] : Lines(setting.items[i], k) # {}

(* The answer on a process is one of its own, whoever came before.         *)
Answer(p) ==
    IF phase = "flags" THEN Mapped(p)
    ELSE IF FirstMatch(p) = 0 THEN No
    ELSE Yes(OwnName(setting.items[FirstMatch(p)], p))

AnswersInv ==
    /\ answers = [p \in Procs |-> answers[p]]
    /\ \A p \in Procs : answers[p] # Unasked =>
          phase \in {"items", "flags"} /\ answers[p] = Answer(p)

NamerInv == ConfigInv /\ CapturesInv /\ AnswersInv
=============================================================================

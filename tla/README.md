# A TLA+ model of process-exporter

process-exporter reads `/proc`, puts the processes it finds into named groups,
and exports what each group uses as Prometheus metrics. This directory holds
TLA+ modules that model its core, the TLC configurations that check them, and
proofs that TLAPS checks. Source paths below are relative to the repository.

## 1. The system

### Components

| Component | Source | State it keeps | Operations |
|---|---|---|---|
| process tracker | `proc/tracker.go` | `tracked` (ID → entry, nil when ignored), `procIds` (pid → ID), `firstUpdateAt`, a user name cache | `Update` (one scan of `/proc`): `handleProc` per pid, sweep, `track`, `ignore`, `checkAncestry` |
| reading of `/proc` | `proc/read.go` | none but a cache per process and scan | `AllProcs`, `GetProcID`, `GetStatic`, `GetCounts`, `GetMetrics`, `GetThreads` |
| grouper | `proc/grouper.go` | `groupAccum` and `threadAccum`: counters of each group, and of each thread name in it, up to the scan before | `Update`: `groupadd` per process, `groups`, `threads` |
| process collector | `collector/process_collector.go` | `scrapeChan`, three error counters, the grouper | `NewProcessCollector`, `Collect`, the goroutine `start`, `scrape` |
| cgroup collector | `collector/cgroup_collector.go` | skipped groups, dropped patterns | `newCgroupCollector`, `collectGroup`, `collectSummary`, `collectPaths`, `collectOne` |
| cgroup reader | `cgroup/*.go` | none | `ExpandPattern` with `childDirs`, `readFile`, the parsers |
| configuration | `config/config.go`; the flags in `cmd/process-exporter/main.go` | matchers and name templates; a map of captures per item; the map of `-namemapping` | `ReadFile`, `ToConfig`, `MatchAndName`, `parseNameMapper` |
| command | `cmd/process-exporter/main.go` | flags, HTTP server, a signal channel of size one | start, `-once-to-stdout-delay`, serve, shutdown |
| load generator, integration tester | `cmd/load-generator`, `cmd/integration-tester` | | tools for testing the exporter |

### How they interact

    signals ──> main, shutdown goroutine                              (Exporter)
                     │ makes the collector, serves HTTP
    GET /metrics ──> Collect ──scrapeChan──> goroutine start()        (Collector)
        ^  blocks on scrapeChan, then          │ scrape
        │  on the request's done channel       v
        │                               Grouper.Update                (Grouper)
        │                                      │ []Update, ColErrs
        │                                      v
        │                               Tracker.Update ──> namer      (Tracker, Namer)
        │                                      │ one pid at a time
        │                                      v
        │                               /proc/<pid>/..., task/<tid>   (ProcTable, ProcReader)
        │
        └── metrics <── collectGroup, collectPaths ──> ExpandPattern  (Collector, CgroupPaths)
                              └── collectOne ──> cgroup files         (CgroupFiles)

The HTTP server runs one goroutine per request, so calls of `Collect` are
concurrent. `Collect` sends its request on the unbuffered `scrapeChan` and waits
for `done`; a single goroutine made by the constructor receives requests, and
only it touches the grouper, the tracker and the counters. Nothing is
persistent. What changes under the program's hands at any moment is the kernel:
processes fork, exec, exit, pids are reused, threads and cgroups come and go,
files become unreadable.

### What is hard, and what makes each part correct

* **Tracker.** A scan is a sequence of reads of a table that changes between any
  two of them. A process must be credited with its first counters once only,
  though it can be met as new, be tracked late, be adopted by a tracked ancestor
  or be rechecked; a reused pid must not confuse the two maps; the ancestry of
  new processes is walked by pid, in the random order of a Go map, while the
  recursion changes what it walks. Correct means: what is reported of a process
  sums to what it used; the maps agree; a matched process is reported; a child
  is in its real parent's group; every scan ends.
* **Reading a process.** Counters of threads are summed while threads exit, a
  file that cannot be read counts as zero, and differences are unsigned words.
  Correct means: nothing is counted twice for a thread, and a glitch does not
  outlive the next complete reading and does not come without an error counted.
* **Grouper.** Updates are folded in random order; groups and thread names
  disappear and return, and increments may have wrapped around. Correct means: the
  published counter is all that was ever folded in; while a group stays, a counter goes
  down only if those of its processes did, or at the end of the word; and the cgroup
  of a group is flagged as conflicting exactly if its processes disagree.
* **Process collector.** Any number of concurrent calls, one worker. Correct
  means: each call is answered at one moment between its call and its return by
  a scrape of its own, with counters that never go down; errors are in the answer
  of the scrape that met them; every call returns.
* **cgroup paths.** Wildcards are expanded level by level over a tree that
  changes, and listings and checks of single cgroups fail. Correct means: a failure
  hides nothing but what is below it, nothing else is read, a pattern over the limit is
  dropped whole, and it is dropped for a cause.
* **cgroup files.** Kernels differ in what they have, and the cgroup may go or come
  back between two files. Correct means: what is sent is what the files say, one
  bad file costs no other one, and no series is sent twice.
* **Namer.** Captures of command lines are written to a map that all processes share
  and nobody clears. Correct means: a process gets the name the documentation
  promises, from its own command line, and the same one when asked again.
* **Program.** A signal may come before the goroutine waits for it, before the server
  listens, or while scrapes hang. Correct means: a signal that is taken over ends the
  program, and every request is answered unless it does.

`PROJECT.json` lists the hazards of the code line by line ("hazards"), with the
property that covers each.

## 2. Modules

| Module | Models | State and actions |
|---|---|---|
| `ProcTable` | the kernel's process table (external) | `table`, `used`, `clock`; `Fork`, `Exec`, `Work`, `Exit` with inheritance of orphans by init, `Tick`. An ID is a pid and a start time, as `proc.ID`. |
| `Tracker` | `Tracker.Update` | `tracked`, `procIds`, `firstUpdateAt` as in the code, `proc` for the fields of `trackedProc`; the local variables of a scan (`listed`, `newProcs`, ...). One action per way through `handleProc` (`NoProcID`, `SkipIgnored`, `MetricsFail`, `UpdateKnown`, `ReadNew`, `StaticFails`), `FinishScan` for sweep and step 1, one `Adopt` per process visited in step 2, `Report`. The recursion of `checkAncestry` is `Lineage` and `Tops`, a closure rather than a recursive operator, so that the module can be proved about. |
| `Accounting` | what the tracker promises of counters | `used`, `credit`; `Consume`, `Settle` |
| `ProcReader` | one process from its files to the counters of its group: `GetMetrics`, `GetThreads`, `handleProc`, `update`, `getUpdate` | `counts`, `threads` (ThreadID → accum, latest), `total`; `GetMetrics`, `ListThreads`, `ReadThread`, `HandleProc` with `Kernel` steps in between; arithmetic modulo `Word` |
| `Grouper` | `Grouper.Update` | `groups`, `groupAccum`, `threadAccum`; `TrackerReports`, one `Fold` per update, `Accumulate`. Counters are words, increments any words. |
| `Collector` | `NewProcessCollector`, `Collect`, `start`, `scrape`, `collectGroup`, `collectSummary` | `queue` (senders blocked on `scrapeChan`), `server` (where the goroutine is), `counters`, `sent`; one action per part of `scrape` |
| `ScrapeServer` | what the collector promises of concurrent calls | `status`, `last`, `answer`; `Request`, `Answer`, `Return` |
| `Exporter` | `main` around `Collector`, which it extends: start, `-once-to-stdout-delay`, the server, signals, shutdown | `main`, `shutdown` (where the two goroutines are), `sigs` (the channel); every scrape step of `Collector` is one of the program while it runs |
| `CgroupPaths` | `ExpandPattern` and `collectPaths` | `paths`, `segment`, `todo`, `patternDropped`; one action per listing, check and read, each of which may fail on a cgroup that is there (`DropOut`), with `Churn` in between, and `Restart` |
| `CgroupFiles` | `newCgroupCollector`, `collectOne`, the parsers | the configuration, `todo` (files still to be read), `sent` (a bag of series); `ReadUsual`, `ReadUnusual`, `ReadNothing` read a file, `Churn` removes the cgroup or makes it again. Each parser sets the keys of a map line by line, field by field (`SetInOrder`); what the kernel may write is `KernelWrites`. |
| `Namer` | `ToConfig` and the matchers, `parseNameMapper`, `MatchAndName` of both namers | `matchers`, `captures`, `mapping`; `ReadFile` or `ParseFlags`, then `AskItems` or `AskMapper` about any process |
| `MCTracker`, `MCGrouper`, `MCCollector`, `MCCgroupPaths`, `MCCgroupFiles`, `MCNamer` | values of constants and symmetries for TLC | `ProcReader` and `Exporter` need none |
| `OrderedMaps` | a Go map that is filled in a loop | no state: `SetOver`, `SetInOrder`, a later value over an earlier one; used by `CgroupFiles` and `Namer` |
| `TrackerProofs`, `GrouperProofs`, `ExporterProofs`, `ProcReaderProofs`, `CgroupPathsProofs`, `CgroupFilesProofs`, `NamerProofs`, `OrderedMapsProofs` | theorems | `ExporterProofs` holds those on `Collector` as well, `OrderedMapsProofs` the lemmas on maps and numbers that others use. |

What is abstracted: all counters of a process are one number (`Tracker`) or two
words (`ProcReader`); a name stands for everything the namer looks at; a cgroup path,
a thread name, a group is a value; a pattern segment is known by the names it
matches; a line of a file by its head and fields, a regular expression by what its
groups capture, a template by the parameters it asks for. Text, logging and the layout of metrics are left out. The history
variables (`credit`, `asked`, `reported`, `stable`, `ever`, `first`, `series`, `found`,
`setting`, `answers`, `delivered`, `moved`, `threadMoved`, `missed`) are marked as
such and guard no action, except where one bounds a run.

The definitions under "Mutants" in a module are what the definition they name
would be with a plausible bug in the code; nothing in the model uses them.
`PROJECT.json` pairs each checked property with one of them that breaks it.

`Exporter` and `Collector` are composed over the collector's variables. `Tracker` and
`Grouper` are not: a `Grouper` update is any update, with any words for increments (those that
`reader_exits` shows to wrap around among them), which is more than the tracker can produce. `Collector` in the same way knows `Grouper.Update` by its
result, and `Tracker` the namer by a function of the name.

## 3. What TLC checks

Run with `tlc -config <run>.cfg <module>`; the module is in `PROJECT.json`.

### Runs that pass

| Run | Question | Bounds, and why they suffice |
|---|---|---|
| `tracker_counting` | Is everything a process uses reported exactly once? `CreditWithinUse`, `CreditExact`, `ImplementsAccounting`, `KnownForLife`, `IndexInv`, `MatchedAreReported`, `TypeOK` | Init and two more pids, four clock ticks, one process with one unit of use, `-recheck` with a limit of two ticks, start times computed one tick too early: three forks, so that a parent and its child are born, adopted and lost within scans and the child forks one that gets its parent's pid. A second report of the one unit is already too much. The program may die here (`tracker_overflow` below), so deadlock is not checked. |
| `tracker_ancestry` | Does a child join its real parent's group, in whatever order the map is walked, and is no dead process reported? `AdoptionIsInheritance`, `AdoptedByRealParent`, `AncestryEnds`, `NamerAskedOnce`, `NoGhosts` | Four pids: lineages of three new processes below init, so that the recursion meets what an earlier visit left. Use and exec play no part here and are off. |
| `tracker_recheck` | Is a process that takes a matched name late tracked sooner or later, and does a failed read hide one process only? `MatchedIsTracked`, `ScanEnds`, `FailureHidesOne` | Three pids and two execs, to a matched name and back; one failure: of the listing, `GetProcID`, `GetMetrics` or `GetStatic`. |
| `grouper_scans` | Is nothing lost, does the order of folding matter to the cgroup conflict, does a counter go down without cause, and is a removed group's history gone as a whole? `NothingLost`, `CountsFallWithCause`, `ThreadsFallWithCause`, `EmptyGroupsKeepCounts`, `ConflictIsDisagreement` | Three processes with two paths or none and a thread of one name or none, and one group which they leave and join again, folded in any order, with empty groups kept or removed: the disagreeing path comes first, in the middle or last, and the group loses the thread name, or all processes, and gets them back. `Word` = 4, increments 1 and 3, which is -1 wrapped around: sums wrap within a scan and with the history, and may come to zero. After a scan without the thread name its counter restarts (grouper.go 215), so `ThreadsFallWithCause` is about two results in a row that have it. |
| `reader_counts` | Is no increment of a thread reported twice, and do counters recover from a glitch? `ThreadCredit`, `TotalIsLastRead`, `DropIsPartialError` | Two threads are the fewest that count as threads, so one exit takes the process across that boundary and back. `Word` = 4: counters wrap. |
| `exporter_answers` | Are concurrent calls answered one by one, all of them unless the program ends, does each answer tell what went wrong, and does a signal end the program? `ImplementsScrapeServer`, `EveryRequestEnds`, `SignalEnds`, `FailureIsVisible`, `SkipAndCount`, `ExporterTypeOK` | Two calls, one served while one waits (three give nothing new: the queue is in order); two groups of every kind of cgroup; counters up to one; signals at every step, before and after the program takes them over. The program ends, so deadlock is not checked. |
| `paths_churn` | Is what was there all along read, and nothing else, and are patterns dropped whole and for a cause? `GapsAreBelowFailures`, `NothingElse`, `WithinMaxPaths`, `DroppedForCause`, `ScrapeEnds` | The root, a malformed pattern, and `/s/t*`, `/*/*`, `/*/t`, of which the last three overlap, over a tree with up to four leaves, limit two; two changes of the tree and one listing or check that fails, at any step. |
| `files_read` | Is what is sent what the files say, does a bad file cost no other one, and is no series sent twice? `SentIsRead`, `NoFileSkipped`, `RefusedForRepeats` | Every file in every form that the kernel or a parser tells apart: missing, empty, with keys missing, repeated, without a number or with two, "max", malformed lines; two such files or changes in one call, so that one comes before and one after another. |
| `namer_answers` | Does each process get the name the documentation promises, from its own command line, and the same one again? `NamedAsDocumented`, `SameAnswerAgain` | Five processes in any order, any number of times; pairs of items, so that a first one that fails halfway has written its captures; regexps that share a group name; a template with a parameter that is not there; good and bad flags. |

Bounds are named in the modules: `MaxClock`, `MaxUsed`, `MaxBusy`, `MaxExecs`,
`MaxFaults`, `MaxSoft`, `MaxUnusual`, `MaxSwitches`, `MaxBytes`, `MaxErrors`,
`MaxDropped`, `MaxCount`, `MaxDepth`, `MaxChanges`. Each caps something that is not
bounded in the code, and stops the environment or the source of errors, never the program's own
reaction to it. Counters that wrap around need no bound: `Word` is their width. `MaxCount` stops Update from returning an error once that many were counted.

### Fairness

* `Tracker!FairSpec`: weak fairness of `Scan`. `Update` is sequential code that
  runs to its end once called, and Prometheus goes on scraping. Nothing is
  assumed of processes.
* `Exporter!ExporterFairSpec`: weak fairness of `Main` and `CallShutdown`: main goes on,
  and so does a goroutine that a signal has woken. Nothing is assumed of scrapes, which
  may hang in a read; `EveryRequestEnds` names the fairness of `Scrape` in its
  premise. That queued calls are received in their order is how the Go runtime keeps
  blocked senders (a queue per channel). No one has to send a request or a signal.
* `Collector!FairSpec`: weak fairness of `Start`, the goroutine, for the same reason.
* `CgroupPaths!FairSpec`: weak fairness of `CollectPaths`. No scrape has to
  start, and nothing is assumed of the kubelet.

### Runs that end in a violation

Each shows that a sentence in the documentation or in a comment does not hold of
the code ("findings" in `PROJECT.json`).

| Run | What the counterexample shows |
|---|---|
| `tracker_faults` | A tracked process whose metrics cannot be read once is swept although it lives, met again as new, and credited a second time with all it used (`CreditWithinUse`, which `tracker_counting` shows and a theorem proves when no read of a live process fails). |
| `reader_exits` | A thread that exits, or that a reading misses, takes its context switches out of the group's counter, which goes down (`SwitchesNeverDecrease`). `TotalIsLastRead` in `reader_counts` is what holds of a process instead, and `CountsFallWithCause` of a group. |
| `collector_readerrors` | Only the constructor counts read errors; those of all later scrapes are lost (`ReadErrorsCounted`). |

Smaller divergences have a property and a configuration of their own, which
are kept for reference and end in a violation as well:

| Configuration (module) | What the counterexample shows |
|---|---|
| `tracker_overflow` (MCTracker) | `checkAncestry` does not end when a pid is reused within a scan so that two new processes name each other as parents: the goroutine outgrows its stack and the program dies (tracker.go 382). Rare, since the kernel hands out pids in turn; without such reuse `AncestryEnds` holds in `tracker_ancestry`. |
| `tracker_blank` (MCTracker) | A group named "" by a template is not inherited beyond one generation, as "" also means "no tracked parent" (tracker.go 383; README.md 45-47 of the repository). |
| `tracker_vanish` (MCTracker) | A process that exits while it is read counts as a read error, since the errors are wrapped and never equal `ErrProcNotExist` (tracker.go 252-254). |
| `tracker_partial` (MCTracker) | Partial errors of untracked processes are counted (tracker.go 108, 267). |
| `tracker_namer` (MCTracker) | With `-children=false` the namer is asked about unmatched processes on every scan (tracker.go 454; README.md 622-623). |
| `reader_denied` (ProcReader) | While `/proc/<pid>/io` is unreadable the I/O counters of the group go down (read.go 435). |
| `reader_states` (ProcReader) | The first thread counts twice in states and wchans (tracker.go 276, read.go 72). |
| `paths_gap` (MCCgroupPaths) | A parent whose listing fails is passed over, and so is a cgroup whose `Stat` fails, and no pattern is counted as dropped (cgroup/reader.go 183, 209; README.md 488-490); `GapsAreBelowFailures` shows that there is no other gap. |
| `namer_paths` (MCNamer) | Of several executables of one item with the same base name the last one wins, though any of them should match (`AnyOfItsStrings`; config.go 274; README.md 134-145). |
| `namer_mapping` (MCNamer) | A process named by `-namemapping` is followed also if that name is not in `-procnames` (`MappedAreListed`; README.md 212-213). |

`collector_answers` (MCCollector) is a passing configuration kept for `Collector` alone:
it shows `PartialErrorsCounted` and `EveryCollectReturns` without the program around it.

## 4. What is proved

Each proof is of `Spec => []Inv` or `Spec => Property`, for every value of the
constants that meets the module's named assumptions, by an inductive invariant
that TLC checked first.

* **`MapsInv`** (`TrackerProofs`): types, nothing starts in the future, each
  phase of a scan leaves certain variables empty, a pid is delivered once, new
  processes own their pid in `procIds`. It is needed because `IndexInv` alone is
  not inductive: the sweep deletes `procIds[pid]`, which is right only
  if no new process took the pid, and that follows from the order in which
  `handleProc` cleans up. Gives `TypeCorrect` and `MapsAgree`, **also** with
  failures and reuse within a scan.
* **`AccountsInv`** adds that a live tracked process is met by the end of the scan
  (`NotMissed`) and that a process the tracker could still meet as new has no
  credit (`CreditInv`). Assumes `MaxFaults = 0`; `tracker_faults` shows that this is
  necessary. Gives `CountedOnce`; `KnownForItsLife`, that a known process is forgotten
  only once dead; and `TrackerImplementsAccounting`, the refinement.
* **`ExactInv`** goes with it: for a process that started late enough, what was
  reported and what is to be reported sum to the last reading. Gives `NothingLost`,
  the other half of `CountedOnce`. **`AskedInv`**, that a process the namer was asked about
  stays known while it lives, gives `AskedOnce`, with `-children` and without
  `-recheck`: these are the two modes in which the code does ask again.
* **`NoGhostsInv`** adds to `MapsInv` that who is alive under a pid of the listing is who
  was listed (`ListedStay`), and that only listed processes are met, hence reported
  (`MetListed`). Assumes that no pid is reused within a scan, and nothing of
  failures. Gives `NoGhostIsReported`.
* **`SearchInv`**, with any failures: what a scan passed over is
  no more than the calls that failed (`MissedInv`), who was met has the name it
  still has unless something was executed meanwhile (`NamesInv`), and who is ignored was
  old enough for it and, if names never change, has no matched one (`IgnoredInv`). Gives `FailuresHideOneEach` and `MatchedAreFound`; the latter
  assumes that listing, IDs and static data can be read, as `MatchedAreReported` counts
  on the error counter to tell of a failure.
* **`AdoptionInv`** is about step 2, which walks a Go map in random order while each
  visit settles others on its way: whoever was taken has a tracked parent in the same group
  (`TakenInv`); from whoever was visited and left, no climb leads to a tracked process,
  nor can it later (`LeftInv`). It rests on lemmas on lineages of any length: from every
  process on the way, the climb comes to the same top (`TopOfAll`, `OneTop`). Gives `ChildrenInherit`, provided no group has the empty name;
  `tracker_blank` shows that this is necessary.
* **`AncestryInv`** adds to `NoGhostsInv` that the process table is a tree in which
  parents are older (`TableIsTree`), and that this is also true of the parents as they
  were read, at different moments, within a scan (`ParentsInv`). Gives
  `AncestryIsFinite` and, with `TakenInv`, `RealParentsAdopt`; both assume no reuse of
  a pid within a scan, which `tracker_overflow` shows to be necessary.
* **`GrouperInv`** = types, where the increments of a group are between two
  actions and that the counter of a scan is the word for their sum as signed numbers
  (`CountsInv`), and what the two cgroup fields know of the updates
  folded so far (`PathsInv`). Gives `NothingIsLost`, `CountersFallWithCause` and
  `ConflictFound`: the flag depends on the updates, not on their order. `MembersInv`, that
  a group counts a process exactly if an update was folded into it, gives
  `EmptyGroupsStay`; `SeriesInv`, that the thread history starts from what was published
  and the series of a scan is the word for what its threads come to, gives
  `SeriesFallWithCause`. Of words it takes lemmas proved from division: `AddSigned`, that
  to add a word is to add the signed number it stands for, and `FallHasCause`.
* **`CollectorInv`** (`ExporterProofs`) = types, where each call is (`HandshakeInv`), and that
  counters sent are current (`CountersInv`). Gives `PartialCounted` and
  `CollectorImplementsScrapeServer`, the refinement: the answer to a call is
  given at `SendPaths`. Two more go with it: `VisibleInv`, that a scrape whose Update
  failed has counted that and sends no group, and any other all of them, gives
  `FailuresAreVisible`; `SkipInv`, which relates what was sent and
  skipped so far to the groups still to be collected, gives `SkippedAreCounted`
  by counting, for any number of groups.
* **`RunsCollector`**: every step of the program is a step of
  the collector or leaves it alone. So all theorems about `Collector` hold of the
  program; `ExporterImplementsScrapeServer` and `ExporterTypeCorrect` follow.
* **`PathsInv`** (`CgroupPathsProofs`), for any tree, patterns, limit and number of
  changes: all that is held matches the pattern up to the current segment
  (`ExpandInv`); what was there all along is, segment by segment, in the paths,
  or its parent is among those still to be listed, or it is below one whose listing or
  check failed (`OnItsWay`), for which the parent of such a cgroup must have been there all along as
  well (`StableClosed`); series are of patterns read before or of paths being read
  (`SeriesInv`); neither paths nor series of one pattern exceed the limit
  (`LimitInv`). None of the properties is inductive without them: the limit is held
  against wildcard segments only, so that a literal one must be shown not to add
  paths, and reading to send one series for each. Gives `ReadsNothingElse`,
  `FailuresHideWhatIsBelow`, `PatternsWithinMaxPaths` and `DropsHaveCause`. Assumes that there are finitely many paths, which follows from
  `MaxDepth` and a finite set of names.
* **`FilesInv`** and **`SentInv`** (`CgroupFilesProofs`), for files of any length: each file
  of the enabled families is read once or still to be read, and what was sent is
  what was collected of those read. That the parsers do what the properties say
  follows from a lemma about `SetInOrder`, whose value for a key is that of the last setting
  of it that parses (`LastSetStays`, in `OrderedMapsProofs`). Gives `NoneSkipped`, `SentAsRead` and `RepeatsRefuse`.
  Assumes `FilesAssumption`: the contents are such as the kernel writes (section 5).
* **`ReadersInv`** (`ProcReaderProofs`): readings are ordered, the one kept is no later
  than the one in hand, and either covers what has been reported. Gives
  `ThreadsAreNotOvercounted` for any word size and number of threads.
* **`TotalsInv`** (`ProcReaderProofs`): all numbers are words, and an untracked process has
  no totals. Gives `TotalsAreLastRead`, by arithmetic modulo the word size, which no invariant of
  true numbers could state. **`BytesInv`** adds that a reading without a partial
  error is no less than any before it, and gives `DropsArePartialErrors`.

* **`NamerInv`** (`NamerProofs`), for any config, regexps and processes in any order: what
  earlier processes left in the captures of an item is under names of its own groups
  (`CapturesInv`), and every answer is one the process alone accounts for (`AnswersInv`).
  The first is why a map that nobody clears does no harm: an item that matches has
  found all its regexps, and so has overwritten every key there can be, the last
  group of a name last (`CapturedKeys`). Gives `NamesAsDocumented` and `AnswersStay`. Assumes that
  the empty text has no slash and that a regexp has a list of groups.

`PartialCounted` and the type correctness of `Collector` are proved of properties that no
listed run checks; `collector_answers` does.

Where a proof needs induction over data (the map after so many settings, the oldest
process of a lineage), it takes the least number for which its claim fails and derives
a contradiction: `LeastNumber`, in `OrderedMapsProofs`, is about a set of numbers and so
needs no operator as a parameter.

Model-checked only: all liveness (`ScanEnds`, `MatchedIsTracked`, `SignalEnds`,
`EveryRequestEnds`, `ScrapeEnds`), which TLAPS does not handle under fairness. Every
safety property of a passing run is proved.

## 5. What is not modelled

* The libraries: YAML, regexp, text/template, the Prometheus registry, `http.Server`
  and `os/signal`. They are known by what the code uses of them.
* `WorstFDratio`, memory, descriptors and smaps, gauges without history, and the
  conversion of ticks and times: arithmetic on one reading.
* User names and their cache, which only decorate a name.
* In `CgroupFiles`, inputs no kernel writes, which `FilesAssumption` excludes: a file of a
  single value with more than one line or field, the word "max" in one other than
  `pids.max`, a well-formed pressure line that lacks one of the averages; and
  lines longer than the scanner's buffer.
* In `CgroupPaths`, the segments "." and "..", which `Stat` resolves: a pattern is a
  sequence of names.
* In `Tracker`, moments between the reads of one pid: `GetProcID`, `GetMetrics` and
  `GetStatic` of it are one step, so that what they return is of one moment.
  `ProcReader` takes them apart for the counters.
* The growth of `tracked` by ignored processes, which are never removed: a
  quantity, not a behaviour.
* A request whose client has gone is a call like any other, since `Collect` is not
  told; the client's retry is another one.
* The load generator and the integration tester, which test the exporter, and
  packaging and dashboards.

## 6. What is left to do

* `Tracker` and `Grouper` over one process table, for what holds across both
  only; today each knows the other by the type of what it passes on. A product
  of their states is beyond TLC, and would need symmetric reductions.

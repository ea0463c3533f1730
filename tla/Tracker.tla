------------------------------- MODULE Tracker -------------------------------
(***************************************************************************)
(* proc.Tracker (proc/tracker.go): the scan of /proc that decides which    *)
(* processes are tracked, in which group, and how much of what each one    *)
(* used is new since the previous scan.                                    *)
(*                                                                         *)
(* One call of Update is a scan: StartScan lists the pids, one HandleProc  *)
(* per listed pid reads /proc/<pid>, FinishScan sweeps the processes that  *)
(* were not met and asks the namer about the new ones, one Adopt per       *)
(* unmatched process looks for a tracked ancestor, Report returns.  The    *)
(* process table changes between any two of these steps.  The pids are     *)
(* handled, and the Go map of unmatched processes is walked, in any order. *)
(***************************************************************************)
EXTENDS ProcTable, FiniteSets

CONSTANTS
    Groups,           \* group names a process may be given
    EmptyName,        \* the string "", which checkAncestry returns for "none"
    Matched,          \* the names the namer matches
    NameGroup,        \* the group it gives each of them
    TrackChildren,    \* -children
    Recheck,          \* -recheck
    RecheckLimit,     \* -recheck-with-time-limit, 0 for none
    BootSkew,         \* how far the computed start time lags the real one
    Faulty,           \* the calls of proc.Proc that may fail on a live process
    MaxFaults,        \* bound: number of such failures
    MaxSoft,          \* bound: soft errors of one reading
    ReuseWithinScan   \* may a pid of the listing be freed and reused?

ASSUME GroupsAssumption == /\ Matched \subseteq Names
                           /\ NameGroup \in [Matched -> Groups]
ASSUME ModeAssumption == /\ TrackChildren \in BOOLEAN
                         /\ Recheck \in BOOLEAN
                         /\ RecheckLimit \in Nat
                         /\ BootSkew \in Nat
                         /\ ReuseWithinScan \in BOOLEAN
ASSUME FaultAssumption == /\ Faulty \subseteq
                                {"GetProcID", "GetMetrics", "GetStatic"}
                          /\ MaxFaults \in Nat
                          /\ MaxSoft \in Nat

VARIABLES
    pc,             \* where Update is: idle, scan, adopt, report or crashed
    firstUpdateAt,  \* when Update first ran, 0 before
    tracked,        \* ID -> unknown (no key), ignored (nil) or tracked
    proc,           \* ID -> the trackedProc, meaningful when tracked
    procIds,        \* pid -> ID, NoID when the pid is no key
    listing,        \* processes AllProcs found; the code has their pids only
    listed,         \* pids the iterator has yet to deliver
    seen,           \* known processes whose lastUpdate is the scan's now
    newProcs,       \* new processes met in the scan, then the unmatched ones
    info,           \* ID -> what was read of a new process
    todo,           \* unmatched processes step 2 has yet to visit
    cerrs,          \* the CollectErrors of the scan
    before,         \* history: execs and faults when the scan began
    faults,         \* failures so far, bounded by MaxFaults
    credit,         \* history: what the reports so far sum to
    asked           \* history: processes the namer has been asked about

scanVars    == <<listing, listed, seen, newProcs, info, todo, cerrs>>
trackedVars == <<firstUpdateAt, tracked, proc, procIds>>
historyVars == <<before, faults, credit, asked>>
trackerVars == <<pc, trackedVars, scanVars, historyVars>>
vars        == <<tableVars, trackerVars>>

Entry   == [group : Groups \cup {EmptyName}, counts : 0..MaxUsed,
            latest : 0..MaxUsed]
NoEntry == [group |-> EmptyName, counts |-> 0, latest |-> 0]

(* What GetStatic and GetMetrics returned; parent, which the code cannot   *)
(* see, is the process that really had the parent's pid.                   *)
Info   == [ppid : Pids \cup {NoPid}, name : Names, counts : 0..MaxUsed,
           parent : ID \cup {NoID}]
NoInfo == [ppid |-> NoPid, name |-> InitName, counts |-> 0, parent |-> NoID]

TypeOK ==
    /\ TableTypeOK
    /\ pc \in {"idle", "scan", "adopt", "report", "crashed"}
    /\ firstUpdateAt \in 0..MaxClock
    /\ tracked \in [ID -> {"unknown", "ignored", "tracked"}]
    /\ proc \in [ID -> Entry]
    /\ procIds \in [Pids -> ID \cup {NoID}]
    /\ listing \in SUBSET ID
    /\ listed \in SUBSET {id.pid : id \in listing}
    /\ seen \in SUBSET ID
    /\ newProcs \in SUBSET ID
    /\ info \in [ID -> Info]
    /\ todo \in SUBSET newProcs
    /\ cerrs \in [Read : Nat, Partial : Nat]
    /\ before \in [execs : 0..MaxExecs, faults : 0..MaxFaults]
    /\ faults \in 0..MaxFaults
    /\ credit \in [ID -> Nat]
    /\ asked \in SUBSET ID

Init ==
    /\ TableInit
    /\ pc = "idle"
    /\ firstUpdateAt = 0
    /\ tracked = [id \in ID |-> "unknown"]
    /\ proc = [id \in ID |-> NoEntry]
    /\ procIds = [p \in Pids |-> NoID]
    /\ listing = {} /\ listed = {} /\ seen = {}
    /\ newProcs = {} /\ info = [id \in ID |-> NoInfo] /\ todo = {}
    /\ cerrs = [Read |-> 0, Partial |-> 0]
    /\ before = [execs |-> 0, faults |-> 0]
    /\ faults = 0
    /\ credit = [id \in ID |-> 0]
    /\ asked = {}

-----------------------------------------------------------------------------
(* The process table changes, in any of the ways it can.  Unless told      *)
(* otherwise the kernel, which hands out pids in turn, does not reuse one  *)
(* of the listing before the scan is over.                                 *)
Environment ==
    /\ \/ Tick
       \/ \E parent, p \in Pids, name \in Names :
             /\ ReuseWithinScan \/ \A id \in listing : id.pid # p
             /\ Fork(parent, p, name)
       \/ \E p \in Pids, name \in Names : Exec(p, name)
       \/ \E p \in Pids : Work(p) \/ Exit(p)
    /\ UNCHANGED trackerVars

-----------------------------------------------------------------------------
(* Update begins: firstUpdateAt is set once, AllProcs reads the pids.      *)
FirstUpdate == IF firstUpdateAt = 0 THEN clock ELSE firstUpdateAt

StartScan ==
    /\ pc = "idle"
    /\ pc' = "scan"
    /\ firstUpdateAt' = FirstUpdate
    /\ listing' = {IdOf(p) : p \in LivePids}
    /\ listed' = LivePids
    /\ cerrs' = [Read |-> 0, Partial |-> 0]
    /\ before' = [execs |-> execs, faults |-> faults]
    /\ UNCHANGED <<tableVars, tracked, proc, procIds, seen, newProcs, info,
                   todo, faults, credit, asked>>

(* AllProcs fails: the iterator delivers nothing and Close returns the     *)
(* error, so Update returns before the sweep.                              *)
ListingFails ==
    /\ pc = "idle"
    /\ faults < MaxFaults
    /\ faults' = faults + 1
    /\ firstUpdateAt' = FirstUpdate
    /\ UNCHANGED <<tableVars, pc, tracked, proc, procIds, scanVars,
                   before, credit, asked>>

-----------------------------------------------------------------------------
(* Mutants: what definitions below would be with a bug in the code.        *)

(* The iterator does not move on.                                          *)
DeliverAgain(p) ==
    /\ pc = "scan"
    /\ p \in listed
    /\ UNCHANGED <<pc, firstUpdateAt, listing, listed, todo, before, credit,
                   asked>>

(* The increment is computed the wrong way round, or the reading it is     *)
(* computed from is not replaced.                                          *)
KnownEntrySwapped(id) ==
    [group  |-> proc[id].group, counts |-> used[id],
     latest |-> proc[id].counts - used[id]]

KnownEntryNotStored(id) ==
    [proc[id] EXCEPT !.latest = used[id] - proc[id].counts]

(* The process's own pid is taken for its parent's.                        *)
ReadingOwnPid(p) ==
    [ppid |-> p, name |-> table[p].name,
     counts |-> used[IdOf(p)], parent |-> ParentOf(p)]

(* The entry of the process that had the pid before is kept.               *)
ForgottenNone(id) == tracked

(* lastUpdate is never looked at, or never brought up to date.             *)
GoneNone == {}
GoneAll  == {id \in ID : tracked[id] = "tracked"}

(* Counters of new processes are never taken as increments.                *)
StartedNever(id) == FALSE

(* checkAncestry looks at the parent only.                                 *)
TopsSelf(id) == {id}

(* ignore forgets the flag, or the limit.                                  *)
IgnorableNever(id)  == FALSE
IgnorableAlways(id) == TRUE

-----------------------------------------------------------------------------
(* handleProc, one action per way through it.  Deliver is what they share: *)
(* the iterator moves on to a pid.                                         *)
Deliver(p) ==
    /\ pc = "scan"
    /\ p \in listed
    /\ listed' = listed \ {p}
    /\ UNCHANGED <<pc, firstUpdateAt, listing, todo, before, credit,
                   asked>>

Fault(call) ==
    /\ call \in Faulty
    /\ faults < MaxFaults
    /\ faults' = faults + 1

(* The pid is gone, or its stat cannot be read.                            *)
NoProcID(p) ==
    /\ Deliver(p)
    /\ \/ ~Alive(p) /\ UNCHANGED faults
       \/ Alive(p) /\ Fault("GetProcID")
    /\ UNCHANGED <<tableVars, tracked, proc, procIds, seen, newProcs, info,
                   cerrs>>

SkipIgnored(p) ==
    /\ Deliver(p)
    /\ Alive(p)
    /\ tracked[IdOf(p)] = "ignored"
    /\ UNCHANGED <<tableVars, tracked, proc, procIds, seen, newProcs, info,
                   cerrs, faults>>

(* GetMetrics fails, because it could not read a file or because the       *)
(* process exited after its stat was read.  GetCounts and GetMetrics wrap  *)
(* either error, so that neither is ErrProcNotExist.                       *)
MetricsFail(p) ==
    /\ Deliver(p)
    /\ Alive(p)
    /\ tracked[IdOf(p)] # "ignored"
    /\ \/ Fault("GetMetrics") /\ UNCHANGED tableVars
       \/ Exit(p) /\ UNCHANGED faults
    /\ cerrs' = [cerrs EXCEPT !.Read = @ + 1]
    /\ UNCHANGED <<tracked, proc, procIds, seen, newProcs, info>>

(* trackedProc.update: what was used since the last reading, and the new   *)
(* reading.                                                                *)
KnownEntry(id) ==
    [group  |-> proc[id].group,
     counts |-> used[id],
     latest |-> used[id] - proc[id].counts]

UpdateKnown(p) ==
    LET id == IdOf(p) IN
    /\ Deliver(p)
    /\ Alive(p)
    /\ tracked[id] = "tracked"
    /\ proc' = [proc EXCEPT ![id] = KnownEntry(id)]
    /\ seen' = seen \cup {id}
    /\ \E soft \in 0..MaxSoft : cerrs' = [cerrs EXCEPT !.Partial = @ + soft]
    /\ UNCHANGED <<tableVars, tracked, procIds, newProcs, info, faults>>

(* What GetMetrics and GetStatic return.                                   *)
Reading(p) ==
    [ppid |-> table[p].ppid, name |-> table[p].name,
     counts |-> used[IdOf(p)], parent |-> ParentOf(p)]

(* A process the tracker does not know becomes a new one, and takes its    *)
(* pid from the process that had it before.                                *)
Forgotten(id) ==
    [other \in ID |-> IF other = procIds[id.pid] THEN "unknown"
                                                 ELSE tracked[other]]

ReadNew(p) ==
    LET id == IdOf(p) IN
    /\ Deliver(p)
    /\ Alive(p)
    /\ tracked[id] = "unknown"
    /\ \E soft \in 0..MaxSoft : cerrs' = [cerrs EXCEPT !.Partial = @ + soft]
    /\ newProcs' = newProcs \cup {id}
    /\ info' = [info EXCEPT ![id] = Reading(p)]
    /\ tracked' = Forgotten(id)
    /\ proc' = [other \in ID |-> IF other = procIds[p] THEN NoEntry
                                                       ELSE proc[other]]
    /\ procIds' = [procIds EXCEPT ![p] = id]
    /\ UNCHANGED <<tableVars, seen, faults>>

(* GetStatic fails on a process the tracker does not know: nothing is      *)
(* returned, and no error counted.                                         *)
StaticFails(p) ==
    /\ Deliver(p)
    /\ Alive(p)
    /\ tracked[IdOf(p)] = "unknown"
    /\ \/ Fault("GetStatic") /\ UNCHANGED tableVars
       \/ Exit(p) /\ UNCHANGED faults
    /\ \E soft \in 0..MaxSoft : cerrs' = [cerrs EXCEPT !.Partial = @ + soft]
    /\ UNCHANGED <<tracked, proc, procIds, seen, newProcs, info>>

HandleProc(p) ==
    \/ NoProcID(p)
    \/ SkipIgnored(p)
    \/ MetricsFail(p)
    \/ UpdateKnown(p)
    \/ ReadNew(p)
    \/ StaticFails(p)

-----------------------------------------------------------------------------
(* The sweep: tracked processes that were not met are forgotten, ignored   *)
(* ones are kept.                                                          *)
Gone == {id \in ID : tracked[id] = "tracked" /\ id \notin seen}

(* track: all a process used counts as new when it started after the first *)
(* Update, none of it otherwise.                                           *)
StartedSince(id) == id.start - BootSkew > firstUpdateAt

NewEntry(id, group) ==
    [group  |-> group,
     counts |-> info[id].counts,
     latest |-> IF StartedSince(id) THEN info[id].counts ELSE 0]

(* The end of the loop, the sweep, and step 1: track what the namer wants. *)
FinishScan ==
    LET wanted == {id \in newProcs : info[id].name \in Matched} IN
    /\ pc = "scan"
    /\ listed = {}
    /\ tracked' = [id \in ID |-> IF id \in wanted THEN "tracked"
                                 ELSE IF id \in Gone THEN "unknown"
                                 ELSE tracked[id]]
    /\ proc' = [id \in ID |-> IF id \in wanted
                              THEN NewEntry(id, NameGroup[info[id].name])
                              ELSE IF id \in Gone THEN NoEntry
                              ELSE proc[id]]
    /\ procIds' = [p \in Pids |-> IF \E id \in Gone : id.pid = p THEN NoID
                                                                ELSE procIds[p]]
    /\ asked' = asked \cup newProcs
    /\ newProcs' = newProcs \ wanted
    /\ todo' = IF TrackChildren THEN newProcs \ wanted ELSE {}
    /\ pc' = IF TrackChildren THEN "adopt" ELSE "report"
    /\ UNCHANGED <<tableVars, firstUpdateAt, listing, listed, seen, info,
                   cerrs, before, faults, credit>>

-----------------------------------------------------------------------------
(* checkAncestry.  newProcs now holds the unmatched processes; those still *)
(* unknown are the ones the recursion climbs through.                      *)
Fresh == {id \in newProcs : tracked[id] = "unknown"}

Parent(id) == IF info[id].ppid \in Pids THEN procIds[info[id].ppid] ELSE NoID

HasTrackedParent(id) == Parent(id) \in ID /\ tracked[Parent(id)] = "tracked"

(* The processes the recursion visits, from one process to the highest of  *)
(* its new ancestors; there is no highest one when the chain is a cycle.   *)
Climbs(S) == \A id \in S : Parent(id) \in Fresh => Parent(id) \in S

Lineage(id) ==
    {anc \in Fresh : \A S \in SUBSET Fresh : id \in S /\ Climbs(S) => anc \in S}

Tops(id) == {top \in Lineage(id) : Parent(top) \notin Fresh}

(* ignore: nothing is ignored for good with -recheck, unless it is too old *)
(* by the limit.                                                           *)
Ignorable(id) ==
    Recheck => /\ RecheckLimit # 0
               /\ id.start - BootSkew + RecheckLimit <= clock

TrackAndIgnore(taken, left, group) ==
    /\ tracked' = [id \in ID |-> IF id \in taken THEN "tracked"
                                 ELSE IF id \in left /\ Ignorable(id)
                                      THEN "ignored"
                                 ELSE tracked[id]]
    /\ proc' = [id \in ID |-> IF id \in taken THEN NewEntry(id, group)
                                              ELSE proc[id]]

Visit(id) ==
    /\ pc = "adopt"
    /\ id \in todo
    /\ todo' = todo \ {id}
    /\ UNCHANGED <<tableVars, firstUpdateAt, procIds, listing, listed, seen,
                   newProcs, info, cerrs, historyVars>>

(* Already tracked or ignored when an earlier process was visited.         *)
VisitDone(id) ==
    /\ Visit(id)
    /\ id \notin Fresh
    /\ UNCHANGED <<pc, tracked, proc>>

(* A tracked parent is found at the top of the lineage.  A group named ""  *)
(* is what "not found" looks like to the levels below the top.             *)
AdoptLineage(id) ==
    /\ Visit(id)
    /\ id \in Fresh
    /\ \E top \in Tops(id) :
          LET group == proc[Parent(top)].group
              taken == IF group = EmptyName THEN {top} ELSE Lineage(id)
          IN  /\ HasTrackedParent(top)
              /\ TrackAndIgnore(taken, Lineage(id) \ taken, group)
    /\ UNCHANGED pc

(* The lineage ends at an ignored process, or at a pid nobody is known by. *)
IgnoreLineage(id) ==
    /\ Visit(id)
    /\ id \in Fresh
    /\ \E top \in Tops(id) : ~HasTrackedParent(top)
    /\ TrackAndIgnore({}, Lineage(id), EmptyName)
    /\ UNCHANGED pc

(* The recursion has no end and the goroutine outgrows its stack, which    *)
(* ends the program.                                                       *)
StackOverflow(id) ==
    /\ Visit(id)
    /\ id \in Fresh
    /\ Tops(id) = {}
    /\ pc' = "crashed"
    /\ UNCHANGED <<tracked, proc>>

Adopt(id) ==
    \/ VisitDone(id)
    \/ AdoptLineage(id)
    \/ IgnoreLineage(id)
    \/ StackOverflow(id)

FinishAdopt ==
    /\ pc = "adopt"
    /\ todo = {}
    /\ pc' = "report"
    /\ UNCHANGED <<tableVars, trackedVars, scanVars, historyVars>>

-----------------------------------------------------------------------------
(* Update returns an Update for each tracked process.                      *)
Reported == {id \in ID : tracked[id] = "tracked"}

Report ==
    /\ pc = "report"
    /\ pc' = "idle"
    /\ credit' = [id \in ID |-> IF id \in Reported
                                THEN credit[id] + proc[id].latest
                                ELSE credit[id]]
    /\ listing' = {}
    /\ seen' = {}
    /\ newProcs' = {}
    /\ info' = [id \in ID |-> NoInfo]
    /\ before' = [execs |-> 0, faults |-> 0]
    /\ UNCHANGED <<tableVars, trackedVars, listed, todo, cerrs, faults, asked>>

-----------------------------------------------------------------------------
TrackerNext ==
    \/ StartScan
    \/ ListingFails
    \/ \E p \in Pids : HandleProc(p)
    \/ FinishScan
    \/ \E id \in ID : Adopt(id)
    \/ FinishAdopt
    \/ Report

Next == Environment \/ TrackerNext

Spec == Init /\ [][Next]_vars

(* Update runs to its end once called, and Prometheus keeps scraping.      *)
Scan == TrackerNext /\ ~ListingFails

FairSpec == Spec /\ WF_vars(Scan)

-----------------------------------------------------------------------------
(* Properties.                                                             *)

(* The two maps agree: whatever the tracker remembers of a process,        *)
(* tracked or ignored, procIds leads to it from the pid (tracker.go 295:   *)
(* otherwise the cleanup would remove another process's entry).  So at     *)
(* most one process per pid is remembered, also across reuse of pids.      *)
IndexInv == \A id \in ID : tracked[id] # "unknown" => procIds[id.pid] = id

(* What is reported of a process never exceeds what it used: no use is     *)
(* counted twice, whether the process is known, new, adopted or rechecked. *)
CreditWithinUse == \A id \in ID : credit[id] <= used[id]

(* And none is lost: between scans the reports on a process that started   *)
(* while the tracker was running sum to its last reading (tracker.go 175), *)
(* except for one that started so soon after the first Update that its     *)
(* computed start time, which lags by BootSkew, may lie before it.         *)
CreditExact ==
    pc = "idle" => \A id \in Reported :
                       id.start > firstUpdateAt + BootSkew =>
                           credit[id] = proc[id].counts

(* An Update reports no process that had exited before its scan began,     *)
(* also when another process has its pid by then.                          *)
NoGhosts == pc = "report" => Reported \subseteq listing

(* A scan that counts no read error reports every process that the namer   *)
(* matches and that lived through the scan under one name: in the group of *)
(* its name, whatever group its ancestors are in, if it never had another. *)
(* Only one that took the name too late, when it was ignored, is left out. *)
MatchedAreReported ==
    pc = "report" /\ cerrs.Read = 0 /\ execs = before.execs =>
        \A id \in listing :
            LET name == table[id.pid].name IN
            Live(id) /\ name \in Matched =>
                \/ /\ id \in Reported
                   /\ MaxExecs = 0 => proc[id].group = NameGroup[name]
                \/ /\ tracked[id] = "ignored"
                   /\ MaxExecs > 0
                   /\ Recheck => /\ RecheckLimit > 0
                                 /\ clock - id.start >= RecheckLimit - BootSkew

(* A read that fails hides no process but the one it was about, from that  *)
(* scan alone: if no name changes during the scan, no other matched        *)
(* process that lived through it is missing, unless it was ignored before. *)
FailureHidesOne ==
    pc = "report" /\ execs = before.execs =>
        LET missing == {id \in listing \ Reported :
                           /\ Live(id) /\ table[id.pid].name \in Matched
                           /\ tracked[id] # "ignored"}
        IN  Cardinality(missing) <= faults - before.faults

(* Step 2 leaves each unmatched new process tracked exactly if its parent  *)
(* is tracked, and in the same group: whatever order the map was walked in *)
(* (README: a child becomes part of the same group as its parent).         *)
AdoptionIsInheritance ==
    pc = "report" /\ TrackChildren =>
        \A id \in newProcs :
            IF HasTrackedParent(id)
            THEN id \in Reported /\ proc[id].group = proc[Parent(id)].group
            ELSE id \notin Reported

(* A process is adopted through the process that really was its parent     *)
(* when it was read, never through another one found under the same pid.   *)
AdoptedByRealParent ==
    pc \in {"adopt", "report"} =>
        \A id \in newProcs \cap Reported : Parent(id) = info[id].parent

(* checkAncestry always comes to an end (tracker.go 347: it walks towards  *)
(* the root).                                                              *)
AncestryEnds == pc # "crashed"

(* The namer is asked about a process once only (README: unless -recheck). *)
NamerAskedOnce == pc = "scan" => newProcs \cap asked = {}

(* No read error is counted for a process that merely exited (tracker.go   *)
(* 103, 252), when no call fails on a live process.                        *)
ExitIsNoReadError == MaxFaults = 0 => cerrs.Read = 0

(* Partial errors are counted for tracked processes only (tracker.go 108). *)
PartialIsOfTracked ==
    pc = "report" /\ Reported = {} => cerrs.Partial = 0

(* A process the tracker knows is forgotten only once it is dead, and as   *)
(* long as it is known it neither changes group nor moves between tracked  *)
(* and ignored.                                                            *)
KnownForLife ==
    [][\A id \in ID : tracked[id] # "unknown" =>
          /\ Live(id) => tracked'[id] = tracked[id]
          /\ tracked'[id] \in {tracked[id], "unknown"}
          /\ tracked'[id] = "tracked" => proc'[id].group = proc[id].group]_vars

(* Every Update that begins returns, whatever fails and exits meanwhile,   *)
(* unless the program dies of AncestryEnds being violated.                 *)
ScanEnds == pc = "scan" ~> pc \in {"idle", "crashed"}

(* A process the namer matches is tracked sooner or later, as long as it   *)
(* lives, keeps its name and was not ignored before it took it; with plain *)
(* -recheck, however late it took it.                                      *)
MatchedIsTracked ==
    \A id \in ID :
        LET waiting == /\ Live(id) /\ pc # "crashed"
                       /\ table[id.pid].name \in Matched
                       /\ tracked[id] = "ignored" =>
                             Recheck /\ RecheckLimit = 0
        IN  waiting ~> (tracked[id] = "tracked" \/ ~waiting)

(* The accounts of the tracker are sound: each of its steps uses, settles  *)
(* or leaves alone, as Accounting allows.                                  *)
Accounts == INSTANCE Accounting WITH Process <- ID

ImplementsAccounting == Accounts!AccountingSpec

-----------------------------------------------------------------------------
(* The inductive invariants behind IndexInv and CreditWithinUse.           *)

(* Nobody started in the future.                                           *)
PastOnly ==
    /\ \A p \in Pids : table[p].start <= clock
    /\ \A p \in Pids : procIds[p] # NoID =>
                         procIds[p].pid = p /\ procIds[p].start <= clock
    /\ \A id \in ID : credit[id] # 0 => id.start <= clock

(* What each phase of a scan leaves empty.                                 *)
Phases ==
    /\ pc # "scan" => listed = {}
    /\ pc \in {"idle", "scan", "report"} => todo = {}
    /\ pc = "idle" => seen = {} /\ newProcs = {}

(* A pid is delivered once, so a process met in the scan is not met again. *)
MetOnce == \A id \in seen \cup newProcs : id.pid \notin listed

(* A new process has its pid's place in procIds, is unknown until step 1,  *)
(* and was read at some time in the past.                                  *)
NewOnes ==
    \A id \in newProcs :
        /\ procIds[id.pid] = id
        /\ pc = "scan" => tracked[id] = "unknown"
        /\ info[id].counts <= used[id]

(* The reading the tracker keeps is no later than the present.             *)
ReadingsInPast ==
    \A id \in ID : tracked[id] = "tracked" => proc[id].counts <= used[id]

MapsInv ==
    TypeOK /\ PastOnly /\ IndexInv /\ Phases /\ MetOnce /\ NewOnes
           /\ ReadingsInPast

(* Without failures a live tracked process is met by the end of the scan.  *)
NotMissed ==
    pc = "scan" =>
        \A id \in ID : tracked[id] = "tracked" /\ Live(id) =>
                           id \in seen \/ id.pid \in listed

(* What has been reported of a process is what its readings account for:   *)
(* nothing, if the tracker could still meet it as a new one.               *)
Settled(id) == id \in seen \/ pc \in {"adopt", "report"}

CreditInv ==
    \A id \in ID :
        /\ credit[id] <= used[id]
        /\ tracked[id] = "tracked" =>
              IF Settled(id) THEN credit[id] + proc[id].latest <= proc[id].counts
                             ELSE credit[id] <= proc[id].counts
        /\ id \in newProcs /\ tracked[id] # "tracked" => credit[id] = 0
        /\ Live(id) /\ tracked[id] # "tracked" => credit[id] = 0

AccountsInv == MapsInv /\ NotMissed /\ CreditInv

(* Unless pids are reused within a scan: who has a pid of the listing is   *)
(* who had it when the scan began, so that only such processes are met.    *)
ListedStay == \A id \in listing : Alive(id.pid) => Live(id)

MetListed ==
    /\ seen \cup newProcs \subseteq listing
    /\ pc \in {"adopt", "report"} => Reported \subseteq listing

NoGhostsInv == MapsInv /\ ListedStay /\ MetListed

(* What reports and readings sum to for a process that started late enough *)
(* is equal, not only ordered as in CreditInv.                             *)
ExactInv ==
    pc # "crashed" =>
        \A id \in ID :
            tracked[id] = "tracked" /\ id.start > firstUpdateAt + BootSkew =>
                IF Settled(id) THEN credit[id] + proc[id].latest = proc[id].counts
                               ELSE credit[id] = proc[id].counts

(* A process the namer was asked about stays known as long as it lives,    *)
(* save for those step 2 has yet to visit.                                 *)
AskedInv ==
    /\ \A id \in asked : id.start <= clock
    /\ \A id \in asked : Live(id) /\ tracked[id] = "unknown" =>
                            pc = "crashed" \/ (pc = "adopt" /\ id \in todo)

(* The processes of the listing that the scan passed over, and so did not  *)
(* meet again or for the first time.                                       *)
Missed ==
    {id \in listing :
        /\ Live(id)
        /\ id.pid \notin listed /\ id \notin newProcs
        /\ tracked[id] # "ignored"
        /\ IF pc = "scan" THEN id \notin seen ELSE tracked[id] = "unknown"}

(* Each costs a failed call, and a read error if GetMetrics is all that    *)
(* fails.                                                                  *)
MissedInv ==
    /\ before.faults <= faults
    /\ IsFiniteSet(Missed) /\ Cardinality(Missed) <= faults - before.faults
    /\ Faulty \subseteq {"GetMetrics"} /\ cerrs.Read = 0 => Missed = {}

(* What the scan is about lies in the past, and who was met again is still *)
(* tracked.                                                                *)
MetInv ==
    /\ before.execs <= execs
    /\ \A id \in listing : id.start <= clock
    /\ seen \subseteq Reported

(* While no name changes, a new process has the name it was read with,     *)
(* which is no matched one once step 1 is over.                            *)
NamesInv ==
    /\ pc # "idle" /\ execs = before.execs =>
          \A id \in newProcs : Live(id) => info[id].name = table[id.pid].name
    /\ pc \in {"adopt", "report", "crashed"} =>
          \A id \in newProcs : info[id].name \notin Matched

(* Who is ignored was old enough for it, and if no name ever changes has   *)
(* no matched one; who is tracked under a matched one is in its group.     *)
IgnoredInv ==
    /\ \A id \in ID : tracked[id] = "ignored" /\ Recheck =>
          RecheckLimit > 0 /\ clock - id.start >= RecheckLimit - BootSkew
    /\ MaxExecs = 0 =>
          \A id \in ID :
             LET name == table[id.pid].name IN
             Live(id) /\ name \in Matched =>
                /\ tracked[id] # "ignored"
                /\ tracked[id] = "tracked" => proc[id].group = NameGroup[name]

MeetInv == MapsInv /\ MetInv /\ NamesInv

SearchInv == MeetInv /\ MissedInv /\ IgnoredInv

(* The process table is a tree: parents live, and are older; init is the   *)
(* oldest.                                                                 *)
TableIsTree ==
    /\ table[InitPid].start = 0 /\ table[InitPid].ppid = NoPid
    /\ \A p \in Pids \ {InitPid} : table[p].start # 0
    /\ \A p \in LivePids :
          LET parent == table[p].ppid IN
          parent \in Pids => Alive(parent) /\ table[parent].start < table[p].start

(* A new process was read with a parent, older than it, of whose pid no    *)
(* other process is in the listing.                                        *)
ParentsInv ==
    \A id \in newProcs :
        LET parent == info[id].parent IN
        info[id].ppid \in Pids =>
            /\ parent \in ID /\ parent.start < id.start
            /\ \A other \in listing : other.pid = info[id].ppid => other = parent

AncestryInv == NoGhostsInv /\ TableIsTree /\ ParentsInv /\ AncestryEnds

(* Climbing from a process leads to a tracked one.                         *)
Heir(id) == \E anc \in Lineage(id) : HasTrackedParent(anc)

(* In step 2 whoever was taken has a tracked parent, in the same group;    *)
(* whoever was visited and left, or ignored, has none and cannot get one.  *)
TakenInv ==
    pc \in {"adopt", "report"} =>
        \A id \in newProcs \cap Reported :
            HasTrackedParent(id) /\ proc[id].group = proc[Parent(id)].group

LeftInv ==
    pc \in {"adopt", "report"} =>
        /\ \A id \in newProcs : tracked[id] = "ignored" =>
              ~HasTrackedParent(id) /\ (Parent(id) \in Fresh => ~Heir(Parent(id)))
        /\ TrackChildren => \A id \in Fresh \ todo : ~Heir(id)

NamedInv == \A id \in Reported : proc[id].group # EmptyName

AdoptionInv == MapsInv /\ TakenInv /\ LeftInv /\ NamedInv
=============================================================================

------------------------------- MODULE Grouper -------------------------------
(***************************************************************************)
(* proc.Grouper (proc/grouper.go): the updates of one scan are folded into *)
(* groups, in whatever order the tracker's map delivers them, and the      *)
(* groups are added to what earlier scans accumulated.                     *)
(*                                                                         *)
(* The tracker is known by the updates it returns: any set of processes,   *)
(* each in some group, with any words for increments.  One counter stands  *)
(* for all of proc.Counts.  Counters are words: where a process reads less *)
(* than before, Sub has wrapped around and Latest is close to Word.        *)
(***************************************************************************)
EXTENDS Integers

CONSTANTS
    Procs,              \* processes an Update may report on
    Groups,             \* group names
    Paths,              \* cgroup v2 paths
    NoPath,             \* "": no cgroup v2 path is known
    ThreadNames,        \* names of threads
    StartTimes,         \* start times, positive
    OpenFDs,            \* what Filedesc.Open may be, -1 when unreadable
    Word,               \* counters are taken modulo this, 2^64 in the code
    Increments          \* what an update may say of a counter

ASSUME PathsAssumption == NoPath \notin Paths
ASSUME NumbersAssumption == /\ StartTimes \subseteq Nat \ {0}
                            /\ OpenFDs \subseteq Nat \cup {-1}
ASSUME WordAssumption == /\ Word \in Nat \ {0}
                         /\ Increments \subseteq 0..Word - 1

(* A time.Time that was never set, and a thread series that is not there.  *)
ZeroTime == 0
None     == -1

(* proc.Update.  threads maps a thread name to the increment of the        *)
(* process's thread of that name.                                          *)
Update == [group : Groups, path : Paths \cup {NoPath}, latest : Increments,
           start : StartTimes, open : OpenFDs,
           threads : [ThreadNames -> Increments \cup {None}]]

(* What a counter holds, and a thread series that may not be there.        *)
Words  == 0..Word - 1
Series == [ThreadNames -> Words \cup {None}]

(* proc.Group.  procs and openFDs stand for the gauges, which are sums.    *)
Group == [procs : Nat, counts : Words, oldest : StartTimes \cup {ZeroTime},
          openFDs : Nat, path : Paths \cup {NoPath}, conflict : BOOLEAN,
          sawEmpty : BOOLEAN, threads : Series]

NoThreads == [t \in ThreadNames |-> None]

(* The zero value of a Group, which a map lookup returns for a new name.   *)
ZeroGroup == [procs |-> 0, counts |-> 0, oldest |-> ZeroTime, openFDs |-> 0,
              path |-> NoPath, conflict |-> FALSE, sawEmpty |-> FALSE,
              threads |-> NoThreads]

NoUpdates == [p \in {} |-> ZeroGroup]

VARIABLES
    removeEmptyGroups, \* -remove-empty-groups, as it was started
    pc,           \* idle, or fold while groups() ranges over the updates
    updates,      \* what the tracker reported: the scan's updates
    pending,      \* processes whose update is still to be folded
    groups,       \* the groups of this scan
    groupAccum,   \* counts accumulated by group
    threadAccum,  \* counts accumulated by group and thread name
    accumulated,  \* the keys of groupAccum
    published,    \* what Update last returned, for the groups accumulated
    delivered,    \* history: increments folded into a group since it is a key
    moved,        \* history: what those of this scan come to, as signed numbers
    threadMoved   \* history: the same by thread name

vars == <<removeEmptyGroups, pc, updates, pending, groups, groupAccum,
          threadAccum, accumulated, published, delivered, moved, threadMoved>>

TypeOK ==
    /\ removeEmptyGroups \in BOOLEAN
    /\ pc \in {"idle", "fold"}
    /\ updates \in UNION {[present -> Update] : present \in SUBSET Procs}
    /\ pending \in SUBSET DOMAIN updates
    /\ groups \in [Groups -> Group]
    /\ groupAccum \in [Groups -> Words]
    /\ threadAccum \in [Groups -> Series]
    /\ accumulated \in SUBSET Groups
    /\ published \in [Groups -> Group]
    /\ delivered \in [Groups -> Words]
    /\ moved \in [Groups -> Int]
    /\ threadMoved \in [Groups -> [ThreadNames -> Int]]

Init ==
    /\ removeEmptyGroups \in BOOLEAN
    /\ pc = "idle"
    /\ updates = NoUpdates
    /\ pending = {}
    /\ groups = [g \in Groups |-> ZeroGroup]
    /\ groupAccum = [g \in Groups |-> 0]
    /\ threadAccum = [g \in Groups |-> NoThreads]
    /\ accumulated = {}
    /\ published = [g \in Groups |-> ZeroGroup]
    /\ delivered = [g \in Groups |-> 0]
    /\ moved = [g \in Groups |-> 0]
    /\ threadMoved = [g \in Groups |-> [t \in ThreadNames |-> 0]]

-----------------------------------------------------------------------------
(* The groups of a scan are a local variable of groups().                  *)
NoGroups ==
    /\ groups' = [g \in Groups |-> ZeroGroup]
    /\ moved' = [g \in Groups |-> 0]
    /\ threadMoved' = [g \in Groups |-> [t \in ThreadNames |-> 0]]

(* The tracker returns; an empty GroupByName is made.                      *)
TrackerReports ==
    /\ pc = "idle"
    /\ \E present \in SUBSET Procs : updates' \in [present -> Update]
    /\ pending' = DOMAIN updates'
    /\ NoGroups
    /\ pc' = "fold"
    /\ UNCHANGED <<removeEmptyGroups, groupAccum, threadAccum, accumulated,
                   published, delivered>>

-----------------------------------------------------------------------------
(* Mutants: what definitions below would be with a bug in the code.        *)

(* A process without a cgroup path does not count as disagreeing.          *)
AddPathAnyKnown(grp, path) ==
    [grp EXCEPT !.path = IF @ = NoPath THEN path ELSE @,
                !.conflict = @ \/ (path # NoPath /\ grp.path # NoPath
                                                 /\ path # grp.path)]

(* Groups are known by their use rather than by their processes.           *)
RunningBusy == {g \in Groups : groups[g].counts > 0}

(* History is not added.                                                   *)
TotalOfScan(g)        == groups[g].counts
ThreadTotalsOfScan(g) == groups[g].threads

-----------------------------------------------------------------------------
(* groupadd.                                                               *)

(* Counts.Add, of words; and what a word says if Sub has wrapped around.   *)
Add(a, b) == (a + b) % Word
Signed(w) == IF 2 * w < Word THEN w ELSE w - Word

(* The cgroup path of the group, and whether its processes disagree on it: *)
(* by two paths, or by one having a path and another none.                 *)
AddPath(grp, path) ==
    IF grp.conflict THEN grp
    ELSE LET sawEmpty == grp.sawEmpty \/ path = NoPath
             first    == IF grp.path = NoPath THEN path ELSE grp.path
             differs  == path # NoPath /\ grp.path # NoPath /\ path # grp.path
         IN  [grp EXCEPT !.sawEmpty = sawEmpty,
                         !.path = first,
                         !.conflict = differs \/ (sawEmpty /\ first # NoPath)]

Earliest(oldest, start) ==
    IF oldest = ZeroTime \/ start < oldest THEN start ELSE oldest

(* A thread series, and an increment or the history added to it; nothing   *)
(* is added where there is no series.                                      *)
Plus(series, more) ==
    IF series = None THEN more
    ELSE IF more = None THEN series
    ELSE Add(series, more)

AddThreads(series, more) ==
    [t \in ThreadNames |-> Plus(series[t], more[t])]

(* A process whose descriptors could not be counted adds none.             *)
AddOpenFDs(openFDs, open) == IF open = -1 THEN openFDs ELSE openFDs + open

AddAmounts(grp, u) ==
    [grp EXCEPT !.procs = @ + 1,
                !.counts = Add(@, u.latest),
                !.oldest = Earliest(@, u.start),
                !.openFDs = AddOpenFDs(@, u.open),
                !.threads = AddThreads(@, u.threads)]

Groupadd(grp, u) == AddPath(AddAmounts(grp, u), u.path)

Fold(p) ==
    LET u == updates[p] IN
    /\ pc = "fold"
    /\ p \in pending
    /\ pending' = pending \ {p}
    /\ groups' = [groups EXCEPT ![u.group] = Groupadd(@, u)]
    /\ delivered' = [delivered EXCEPT ![u.group] = Add(@, u.latest)]
    /\ moved' = [moved EXCEPT ![u.group] = @ + Signed(u.latest)]
    /\ threadMoved' = [threadMoved EXCEPT ![u.group] =
                          [t \in ThreadNames |->
                              IF u.threads[t] = None THEN @[t]
                              ELSE @[t] + Signed(u.threads[t])]]
    /\ UNCHANGED <<removeEmptyGroups, pc, updates, groupAccum, threadAccum,
                   accumulated, published>>

-----------------------------------------------------------------------------
(* The two loops at the end of groups(), and threads().                    *)
Running == {g \in Groups : groups[g].procs > 0}

Total(g) == Add(groups[g].counts, groupAccum[g])

(* History is added to the thread names the group has now; the others lose *)
(* theirs, since the map of the group is replaced.                         *)
ThreadTotals(g) ==
    [t \in ThreadNames |-> IF groups[g].threads[t] = None THEN None
                           ELSE Plus(groups[g].threads[t], threadAccum[g][t])]

(* Groups seen before that have no process now.                            *)
Empty == accumulated \ Running

Accumulate ==
    LET dropped == IF removeEmptyGroups THEN Empty ELSE {} IN
    /\ pc = "fold"
    /\ pending = {}
    /\ accumulated' = (accumulated \cup Running) \ dropped
    /\ groupAccum' = [g \in Groups |-> IF g \in Running THEN Total(g)
                                       ELSE IF g \in dropped THEN 0
                                       ELSE groupAccum[g]]
    /\ threadAccum' = [g \in Groups |-> IF g \in Running THEN ThreadTotals(g)
                                        ELSE IF g \in dropped THEN NoThreads
                                        ELSE threadAccum[g]]
    /\ published' = [g \in Groups |->
                        IF g \in Running
                        THEN [groups[g] EXCEPT !.counts = Total(g),
                                               !.threads = ThreadTotals(g)]
                        ELSE IF g \in dropped THEN ZeroGroup
                        ELSE [ZeroGroup EXCEPT !.counts = groupAccum[g]]]
    /\ delivered' = [g \in Groups |-> IF g \in dropped THEN 0 ELSE delivered[g]]
    /\ pc' = "idle"
    /\ updates' = NoUpdates
    /\ NoGroups
    /\ UNCHANGED <<removeEmptyGroups, pending>>

Next ==
    \/ TrackerReports
    \/ \E p \in Procs : Fold(p)
    \/ Accumulate

Spec == Init /\ [][Next]_vars

-----------------------------------------------------------------------------
(* Properties.                                                             *)

(* Every increment reaches the counter of its group once, and stays there  *)
(* when the process that made it is gone.                                  *)
NothingLost ==
    pc = "idle" => \A g \in Groups : published[g].counts = delivered[g]

(* While its group stays, a counter goes down only if the counters of the  *)
(* processes in it did on balance, or if it reached the end of the word:   *)
(* what becomes of "counts that never decrease" (grouper.go 133) when Sub  *)
(* and Add wrap around.  An empty group's never does.                      *)
CountsFallWithCause ==
    [][\A g \in accumulated \cap accumulated' :
          published'[g].counts < published[g].counts =>
              \/ moved[g] < 0
              \/ published[g].counts + moved[g] >= Word]_vars

(* The folded updates of a group, and the paths in them.                   *)
Folded(g)   == {p \in DOMAIN updates \ pending : updates[p].group = g}
PathsOf(g)  == {updates[p].path : p \in Folded(g)}

(* Whatever the order: a group is in conflict exactly if not all of its    *)
(* processes have the same path or none, and otherwise has their path      *)
(* (grouper.go 108).                                                       *)
ConflictIsDisagreement ==
    \A g \in Groups :
        /\ groups[g].conflict = (\E x, y \in PathsOf(g) : x # y)
        /\ ~groups[g].conflict => PathsOf(g) \subseteq {groups[g].path}

(* A group appears in the results while it has processes and, unless empty *)
(* groups are removed, ever after: with nothing but its counts             *)
(* (grouper.go 135).                                                       *)
EmptyGroupsKeepCounts ==
    [][Accumulate =>
          \A g \in Groups :
              IF Folded(g) # {}
              THEN g \in accumulated' /\ published'[g].procs > 0
              ELSE /\ g \in accumulated' <=> g \in accumulated
                                             /\ ~removeEmptyGroups
                   /\ g \in accumulated' =>
                         published'[g] = [ZeroGroup EXCEPT
                                             !.counts = published[g].counts]]_vars

(* From one result that has a thread name to the next, its counter goes    *)
(* down only if those of the threads of that name did on balance, or if it *)
(* reached the end of the word (grouper.go 203-213).                       *)
ThreadsFallWithCause ==
    [][\A g \in accumulated \cap accumulated', t \in ThreadNames :
          LET was == published[g].threads[t]
              is  == published'[g].threads[t]
          IN  was # None /\ is # None /\ is < was =>
                  threadMoved[g][t] < 0 \/ was + threadMoved[g][t] >= Word]_vars

-----------------------------------------------------------------------------
(* The inductive invariants behind NothingLost and CountsFallWithCause,    *)
(* and behind ConflictIsDisagreement.                                      *)

(* Where the increments of a group are: in the accumulator, and while the  *)
(* updates are folded also in the group of this scan, whose counter is     *)
(* what they come to, as a word.                                           *)
CountsInv ==
    \A g \in Groups :
        /\ published[g].counts = groupAccum[g]
        /\ groups[g].procs = 0 => groups[g].counts = 0
        /\ pc = "idle" => groupAccum[g] = delivered[g]
        /\ pc = "fold" => Add(groups[g].counts, groupAccum[g]) = delivered[g]
        /\ groups[g].counts = moved[g] % Word

(* What AddPath knows of the paths it has seen: both ways of disagreeing   *)
(* need the two fields that say whether a path, and none, was among them.  *)
PathsInv ==
    \A g \in Groups :
        IF groups[g].conflict
        THEN \E x, y \in PathsOf(g) : x # y
        ELSE /\ PathsOf(g) \subseteq {groups[g].path}
             /\ groups[g].sawEmpty <=> NoPath \in PathsOf(g)
             /\ groups[g].path # NoPath => groups[g].path \in PathsOf(g)

GrouperInv == TypeOK /\ CountsInv /\ PathsInv

(* A group has processes exactly if an update was folded into it, which is *)
(* how Accumulate tells empty groups; EmptyGroupsKeepCounts.               *)
MembersInv == \A g \in Groups : groups[g].procs > 0 <=> Folded(g) # {}

(* A thread series that was published last is what history has of it, and *)
(* that of this scan is what its threads come to; ThreadsFallWithCause.    *)
SeriesInv ==
    \A g \in Groups, t \in ThreadNames :
        /\ published[g].threads[t] # None =>
              threadAccum[g][t] = published[g].threads[t]
        /\ IF groups[g].threads[t] = None THEN threadMoved[g][t] = 0
           ELSE groups[g].threads[t] = threadMoved[g][t] % Word
=============================================================================

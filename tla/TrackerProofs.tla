---------------------------- MODULE TrackerProofs ----------------------------
(***************************************************************************)
(* Proofs about Tracker, for any set of pids, names and groups, any mode   *)
(* and any bounds.                                                         *)
(*                                                                         *)
(* MapsInv (types, IndexInv, readings lie in the past) is inductive        *)
(* whatever fails.  AccountsInv adds what has been reported; it is         *)
(* inductive when no call fails on a live process, and gives that nothing  *)
(* is counted twice, hence that Tracker implements Accounting.  ExactInv   *)
(* and AskedInv stand on it: nothing is lost, and nobody is named twice.   *)
(* NoGhostsInv adds who can be met, and is inductive whatever fails, if no *)
(* pid is reused within a scan.                                            *)
(*                                                                         *)
(* SearchInv counts whom the scan passed over, and is inductive whatever   *)
(* fails: MissedInv weighs them against the calls that failed.             *)
(* AdoptionInv is about step 2, the climb of checkAncestry through the new *)
(* processes: it rests on the lemmas about lineages, which need no bound   *)
(* on their length, and leaves out groups named "".  AncestryInv gives     *)
(* that the climb is towards older and older processes, unless a pid is    *)
(* reused within a scan, and so that it ends, because there is no endless  *)
(* way down among the natural numbers.                                     *)
(***************************************************************************)
EXTENDS Tracker, OrderedMapsProofs

USE PidsAssumption, NamesAssumption, TableBounds, GroupsAssumption,
    ModeAssumption, FaultAssumption

-----------------------------------------------------------------------------
(* Facts about single definitions.                                         *)

(* The zero ID is nobody's.                                                *)
LEMMA NoIDIsNoID == NoID \notin ID
BY DEF NoID, ID, NoPid

(* An identity has a pid and a start time within the bound.                *)
LEMMA IDParts ==
    \A id \in ID : /\ id.pid \in Pids /\ id.start \in 0..MaxClock
                  /\ id.start \in Nat /\ id # NoID
BY NoIDIsNoID DEF ID

(* A live process has an identity, and it is the only live one with its    *)
(* pid.                                                                    *)
LEMMA LiveIdentity ==
    ASSUME TableTypeOK, NEW p \in Pids
    PROVE  /\ Alive(p) => /\ IdOf(p) \in ID
                          /\ IdOf(p).pid = p
                          /\ Live(IdOf(p))
           /\ \A id \in ID : id.pid = p /\ Live(id) => Alive(p) /\ id = IdOf(p)
BY DEF TableTypeOK, Slot, Alive, IdOf, ID, Live

(* Exit leaves every other process alive, under its start time.            *)
LEMMA ExitEffect ==
    ASSUME TableTypeOK, NEW p \in Pids, Exit(p)
    PROVE  /\ TableTypeOK'
           /\ \A q \in Pids : table'[q].start = IF q = p THEN -1
                                                ELSE table[q].start
           /\ UNCHANGED <<clock, used, execs>>
<1>1. Orphaned(p) \in [Pids -> Slot]
  BY DEF TableTypeOK, Orphaned, Slot, Free
<1>2. \A q \in Pids : Orphaned(p)[q].start = IF q = p THEN -1
                                             ELSE table[q].start
  BY DEF TableTypeOK, Orphaned, Slot, Free
<1> QED BY <1>1, <1>2 DEF Exit, TableTypeOK

(* A fork adds one process, which starts later than everybody else.        *)
LEMMA ForkEffect ==
    ASSUME TableTypeOK, NEW parent \in Pids, NEW p \in Pids, NEW name \in Names,
           Fork(parent, p, name)
    PROVE  /\ TableTypeOK'
           /\ \A q \in Pids : table'[q].start = IF q = p THEN clock + 1
                                                ELSE table[q].start
           /\ clock' = clock + 1
           /\ UNCHANGED <<used, execs>>
BY DEF TableTypeOK, Fork, Slot

(* The other changes of the process table leave pids and start times alone *)
(* and at most increase what is used.                                      *)
LEMMA QuietEffect ==
    ASSUME TableTypeOK,
           \/ Tick
           \/ \E p \in Pids, name \in Names : Exec(p, name)
           \/ \E p \in Pids : Work(p)
    PROVE  /\ TableTypeOK'
           /\ \A q \in Pids : table'[q].start = table[q].start
           /\ clock <= clock'
           /\ \A id \in ID : used[id] <= used'[id]
<1>1. CASE Tick
  BY <1>1 DEF Tick, TableTypeOK
<1>2. ASSUME NEW p \in Pids, NEW name \in Names, Exec(p, name)
      PROVE  /\ TableTypeOK'
             /\ \A q \in Pids : table'[q].start = table[q].start
             /\ UNCHANGED <<clock, used>>
  BY <1>2 DEF Exec, TableTypeOK, Slot
<1>3. ASSUME NEW p \in Pids, Work(p)
      PROVE  /\ TableTypeOK'
             /\ UNCHANGED <<clock, table>>
             /\ \A id \in ID : used[id] <= used'[id]
  <2>1. IdOf(p) \in ID
    BY <1>3, LiveIdentity DEF Work
  <2> QED BY <1>3, <2>1 DEF Work, TableTypeOK
<1> QED BY <1>1, <1>2, <1>3 DEF TableTypeOK

-----------------------------------------------------------------------------
(* MapsInv is inductive, whatever fails.                                   *)

(* A tracker that has not scanned remembers nothing.                       *)
LEMMA MapsInit == Init => MapsInv
BY NoIDIsNoID
   DEF Init, TableInit, MapsInv, TypeOK, TableTypeOK, PastOnly, IndexInv,
       Phases, MetOnce, NewOnes, ReadingsInPast, Slot, Free, Entry, NoEntry,
       Info, NoInfo, ID, NoID, NoPid

(* The environment moves the clock and the use of resources forward only.  *)
LEMMA MapsEnvironment == MapsInv /\ Environment => MapsInv'
<1> SUFFICES ASSUME MapsInv, Environment PROVE MapsInv'
  OBVIOUS
<1> USE DEF MapsInv
<1> DEFINE Goal == /\ TableTypeOK'
                   /\ \A q \in Pids : table'[q].start <= clock'
                   /\ clock <= clock'
                   /\ \A id \in ID : used[id] <= used'[id]
<1>1. Goal
  <2>0. /\ TableTypeOK
        /\ clock \in Nat
        /\ \A q \in Pids : table[q].start \in Int /\ table[q].start <= clock
        /\ \A id \in ID : used[id] \in Nat
    BY DEF TypeOK, TableTypeOK, Slot, PastOnly
  <2>1. ASSUME NEW p \in Pids, Exit(p)
        PROVE  Goal
    BY <2>0, <2>1, ExitEffect
  <2>2. ASSUME NEW parent \in Pids, NEW p \in Pids, NEW name \in Names,
               Fork(parent, p, name)
        PROVE  Goal
    BY <2>0, <2>2, ForkEffect
  <2>3. CASE \/ Tick
             \/ \E p \in Pids, name \in Names : Exec(p, name)
             \/ \E p \in Pids : Work(p)
    BY <2>0, <2>3, QuietEffect DEF TableTypeOK
  <2> QED BY <2>1, <2>2, <2>3 DEF Environment
<1>2. UNCHANGED trackerVars
  BY DEF Environment
<1> USE <1>2 DEF trackerVars, scanVars, trackedVars, historyVars
<1>3. TypeOK' /\ IndexInv' /\ Phases' /\ MetOnce'
  BY <1>1 DEF TypeOK, IndexInv, Phases, MetOnce
<1>4. PastOnly'
  BY <1>1, NoIDIsNoID DEF PastOnly, TypeOK, TableTypeOK, ID, NoID, NoPid
<1>5. NewOnes'
  BY <1>1 DEF NewOnes, TypeOK, TableTypeOK, Info
<1>6. ReadingsInPast'
  BY <1>1 DEF ReadingsInPast, TypeOK, TableTypeOK, Entry
<1> QED BY <1>3, <1>4, <1>5, <1>6

(* A new scan finds nobody met and nobody new.                             *)
LEMMA MapsStart == MapsInv /\ (StartScan \/ ListingFails) => MapsInv'
<1> SUFFICES ASSUME MapsInv, StartScan \/ ListingFails PROVE MapsInv'
  OBVIOUS
<1> USE DEF MapsInv
<1>1. /\ UNCHANGED <<tableVars, tracked, proc, procIds, seen, newProcs, info,
                     todo, credit, asked>>
      /\ pc = "idle"
      /\ firstUpdateAt' \in 0..MaxClock
  BY DEF StartScan, ListingFails, historyVars, scanVars, FirstUpdate, TypeOK,
         TableTypeOK
<1>2. TypeOK'
  <2>1. CASE StartScan
    <3>1. LivePids \subseteq Pids /\ {IdOf(p) : p \in LivePids} \subseteq ID
      BY LiveIdentity DEF LivePids, TypeOK
    <3>2. LivePids \subseteq {id.pid : id \in {IdOf(p) : p \in LivePids}}
      <4> SUFFICES ASSUME NEW p \in LivePids
                   PROVE  \E id \in {IdOf(q) : q \in LivePids} : id.pid = p
        OBVIOUS
      <4>1. IdOf(p) \in {IdOf(q) : q \in LivePids} /\ IdOf(p).pid = p
        BY DEF IdOf
      <4> QED BY <4>1
    <3> QED BY <1>1, <2>1, <3>1, <3>2
            DEF StartScan, TypeOK, TableTypeOK, tableVars
  <2>2. CASE ListingFails
    BY <1>1, <2>2 DEF ListingFails, TypeOK, TableTypeOK, tableVars, scanVars
  <2> QED BY <2>1, <2>2
<1>3. IndexInv' /\ PastOnly' /\ ReadingsInPast'
  BY <1>1 DEF IndexInv, PastOnly, ReadingsInPast, tableVars
<1>4. Phases' /\ MetOnce' /\ NewOnes'
  BY <1>1 DEF Phases, MetOnce, NewOnes, StartScan, ListingFails, scanVars,
              tableVars
<1> QED BY <1>2, <1>3, <1>4

(* Ways through handleProc that change none of the maps.                   *)
LEMMA MapsUnchanged ==
    ASSUME MapsInv, NEW p \in Pids,
           NoProcID(p) \/ SkipIgnored(p) \/ MetricsFail(p) \/ StaticFails(p)
    PROVE  MapsInv'
<1> USE DEF MapsInv
<1>1. /\ Deliver(p)
      /\ UNCHANGED <<tracked, proc, procIds, seen, newProcs, info>>
      /\ cerrs' \in [Read : Nat, Partial : Nat]
      /\ faults' \in 0..MaxFaults
  BY DEF NoProcID, SkipIgnored, MetricsFail, StaticFails, Fault, Deliver,
         TypeOK
<1>2. /\ TableTypeOK'
      /\ \A q \in Pids : table'[q].start <= clock
      /\ UNCHANGED <<clock, used, execs>>
  <2>1. CASE Exit(p)
    BY <2>1, ExitEffect DEF TypeOK, TableTypeOK, PastOnly
  <2>2. CASE UNCHANGED tableVars
    BY <2>2 DEF tableVars, TypeOK, TableTypeOK, PastOnly
  <2> QED BY <2>1, <2>2 DEF NoProcID, SkipIgnored, MetricsFail, StaticFails
<1>3. TypeOK'
  BY <1>1, <1>2 DEF Deliver, TypeOK
<1>4. IndexInv' /\ PastOnly' /\ ReadingsInPast'
  BY <1>1, <1>2 DEF IndexInv, PastOnly, ReadingsInPast, Deliver
<1>5. Phases' /\ MetOnce' /\ NewOnes'
  BY <1>1, <1>2 DEF Phases, MetOnce, NewOnes, Deliver
<1> QED BY <1>3, <1>4, <1>5

(* Reading a process again.                                                *)
LEMMA MapsKnown ==
    ASSUME MapsInv, NEW p \in Pids, UpdateKnown(p)
    PROVE  MapsInv'
<1> USE DEF MapsInv
<1> DEFINE id == IdOf(p)
<1>1. /\ Deliver(p)
      /\ id \in ID /\ id.pid = p
      /\ tracked[id] = "tracked"
      /\ proc' = [proc EXCEPT ![id] = KnownEntry(id)]
      /\ seen' = seen \cup {id}
      /\ UNCHANGED <<tableVars, tracked, procIds, newProcs, info, faults>>
      /\ cerrs' \in [Read : Nat, Partial : Nat]
  BY LiveIdentity DEF UpdateKnown, TypeOK
<1>2. /\ KnownEntry(id) \in Entry
      /\ KnownEntry(id).counts = used[id]
  BY <1>1 DEF KnownEntry, ReadingsInPast, TypeOK, TableTypeOK, Entry
<1>3. TypeOK'
  BY <1>1, <1>2 DEF Deliver, TypeOK, TableTypeOK, tableVars
<1>4. IndexInv' /\ PastOnly'
  BY <1>1 DEF IndexInv, PastOnly, Deliver, tableVars
<1>5. ReadingsInPast'
  BY <1>1, <1>2 DEF ReadingsInPast, TypeOK, TableTypeOK, Entry, tableVars
<1>6. Phases' /\ MetOnce' /\ NewOnes'
  BY <1>1 DEF Phases, MetOnce, NewOnes, Deliver, tableVars
<1> QED BY <1>3, <1>4, <1>5, <1>6

(* Reading a new process, which takes over its pid.                        *)
LEMMA MapsNew ==
    ASSUME MapsInv, NEW p \in Pids, ReadNew(p)
    PROVE  MapsInv'
<1> USE DEF MapsInv
<1> DEFINE id == IdOf(p)
<1>1. /\ Deliver(p)
      /\ id \in ID /\ id.pid = p /\ id.start = table[p].start
      /\ tracked[id] = "unknown"
      /\ newProcs' = newProcs \cup {id}
      /\ info' = [info EXCEPT ![id] = Reading(p)]
      /\ tracked' = Forgotten(id)
      /\ proc' = [other \in ID |-> IF other = procIds[p] THEN NoEntry
                                                         ELSE proc[other]]
      /\ procIds' = [procIds EXCEPT ![p] = id]
      /\ UNCHANGED <<tableVars, seen, faults>>
      /\ cerrs' \in [Read : Nat, Partial : Nat]
  BY LiveIdentity DEF ReadNew, TypeOK, IdOf
<1>2. Reading(p) \in Info /\ Reading(p).counts = used[id]
  <2>1. ParentOf(p) \in ID \cup {NoID}
    BY LiveIdentity DEF ParentOf, TypeOK
  <2> QED BY <1>1, <2>1 DEF Reading, Info, TypeOK, TableTypeOK, Slot
<1>3. \A other \in ID : tracked'[other] = IF other = procIds[p] THEN "unknown"
                                                            ELSE tracked[other]
  BY <1>1 DEF Forgotten
<1>4. TypeOK'
  BY <1>1, <1>2 DEF Deliver, Forgotten, TypeOK, TableTypeOK, tableVars, Entry,
                    NoEntry
<1>5. IndexInv'
  BY <1>1, <1>3 DEF IndexInv, TypeOK
<1>6. PastOnly'
  BY <1>1 DEF PastOnly, TypeOK, TableTypeOK, tableVars, Deliver
<1>7. ReadingsInPast'
  BY <1>1, <1>3 DEF ReadingsInPast, tableVars, TypeOK
<1>8. Phases' /\ MetOnce'
  BY <1>1 DEF Phases, MetOnce, Deliver
<1>9. NewOnes'
  <2> SUFFICES ASSUME NEW new \in newProcs'
               PROVE  /\ procIds'[new.pid] = new
                      /\ tracked'[new] = "unknown"
                      /\ info'[new].counts <= used'[new]
    BY DEF NewOnes
  <2>1. CASE new = id
    BY <1>1, <1>2, <1>3, <2>1 DEF TypeOK, TableTypeOK, tableVars
  <2>2. CASE new # id
    <3>1. new \in newProcs /\ new \in ID /\ new.pid # p /\ new.pid \in Pids
      BY <1>1, <2>2 DEF MetOnce, Deliver, TypeOK, ID
    <3>2. procIds'[new.pid] = new /\ info'[new] = info[new]
      BY <1>1, <2>2, <3>1 DEF NewOnes, TypeOK
    <3> QED BY <1>1, <1>3, <3>1, <3>2 DEF NewOnes, Deliver, tableVars
  <2> QED BY <2>1, <2>2
<1> QED BY <1>4, <1>5, <1>6, <1>7, <1>8, <1>9

(* A process that was tracked and not met goes, with its place in procIds; *)
(* a new one has its own place and keeps it.                               *)
LEMMA MapsFinish == MapsInv /\ FinishScan => MapsInv'
<1> SUFFICES ASSUME MapsInv, FinishScan PROVE MapsInv'
  OBVIOUS
<1> USE DEF MapsInv
<1> DEFINE wanted == {id \in newProcs : info[id].name \in Matched}
<1>1. /\ pc = "scan" /\ pc' \in {"adopt", "report"} /\ listed = {}
      /\ tracked' = [id \in ID |-> IF id \in wanted THEN "tracked"
                                   ELSE IF id \in Gone THEN "unknown"
                                   ELSE tracked[id]]
      /\ proc' = [id \in ID |-> IF id \in wanted
                                THEN NewEntry(id, NameGroup[info[id].name])
                                ELSE IF id \in Gone THEN NoEntry
                                ELSE proc[id]]
      /\ procIds' = [p \in Pids |-> IF \E id \in Gone : id.pid = p
                                    THEN NoID ELSE procIds[p]]
      /\ newProcs' = newProcs \ wanted
      /\ todo' \in SUBSET newProcs'
      /\ pc' = "report" => todo' = {}
      /\ asked' \in SUBSET ID
      /\ UNCHANGED <<tableVars, firstUpdateAt, listing, listed, seen, info,
                     cerrs, before, faults, credit>>
  BY DEF FinishScan, TypeOK
<1>2. \A id \in wanted : /\ NewEntry(id, NameGroup[info[id].name]) \in Entry
                         /\ NewEntry(id, NameGroup[info[id].name]).counts
                               = info[id].counts
  BY DEF NewEntry, Entry, TypeOK, Info
<1>3. \A id \in newProcs : /\ id \in ID /\ id \notin Gone
                           /\ \A gone \in Gone : gone.pid # id.pid
  BY <1>1 DEF Gone, NewOnes, IndexInv, TypeOK
<1>4. TypeOK'
  <2>1. /\ tracked' \in [ID -> {"unknown", "ignored", "tracked"}]
        /\ procIds' \in [Pids -> ID \cup {NoID}]
    BY <1>1 DEF TypeOK
  <2>2. proc' \in [ID -> Entry]
    BY <1>1, <1>2 DEF TypeOK, Entry, NoEntry
  <2> QED BY <1>1, <2>1, <2>2 DEF TypeOK, TableTypeOK, tableVars
<1>5. IndexInv'
  <2> SUFFICES ASSUME NEW id \in ID, tracked'[id] # "unknown"
               PROVE  procIds'[id.pid] = id
    BY DEF IndexInv
  <2>1. procIds[id.pid] = id /\ \A gone \in Gone : gone.pid # id.pid
    BY <1>1, <1>3 DEF IndexInv, NewOnes, Gone
  <2> QED BY <1>1, <2>1 DEF ID
<1>6. PastOnly'
  BY <1>1 DEF PastOnly, tableVars
<1>7. Phases' /\ MetOnce'
  BY <1>1 DEF Phases, MetOnce
<1>8. NewOnes'
  BY <1>1, <1>3 DEF NewOnes, tableVars, ID
<1>9. ReadingsInPast'
  BY <1>1, <1>2 DEF ReadingsInPast, NewOnes, tableVars
<1> QED BY <1>4, <1>5, <1>6, <1>7, <1>8, <1>9

(* Whoever step 2 takes or ignores is a new process, in its own place.     *)
LEMMA MapsAdopt ==
    ASSUME MapsInv, NEW id \in ID, Adopt(id)
    PROVE  MapsInv'
<1> USE DEF MapsInv
<1>1. /\ Visit(id)
      /\ pc = "adopt" /\ pc' \in {"adopt", "crashed"}
  BY DEF Adopt, VisitDone, AdoptLineage, IgnoreLineage, StackOverflow, Visit
<1>2. /\ tracked' \in [ID -> {"unknown", "ignored", "tracked"}]
      /\ proc' \in [ID -> Entry]
      /\ \A other \in ID :
            \/ tracked'[other] = tracked[other] /\ proc'[other] = proc[other]
            \/ /\ other \in newProcs
               /\ tracked'[other] = "tracked" =>
                     proc'[other].counts = info[other].counts
  <2>1. CASE UNCHANGED <<tracked, proc>>
    BY <2>1 DEF TypeOK
  <2>2. ASSUME NEW taken, NEW left, taken \subseteq newProcs,
               left \subseteq newProcs,
               NEW group \in Groups \cup {EmptyName},
               TrackAndIgnore(taken, left, group)
        PROVE  <1>2
    <3>1. \A new \in ID : /\ NewEntry(new, group) \in Entry
                          /\ NewEntry(new, group).counts = info[new].counts
      BY DEF NewEntry, Entry, TypeOK, Info
    <3> QED BY <2>2, <3>1 DEF TrackAndIgnore, TypeOK
  <2>3. CASE AdoptLineage(id)
    <3>1. PICK top \in Tops(id) :
             LET group == proc[Parent(top)].group
                 taken == IF group = EmptyName THEN {top} ELSE Lineage(id)
             IN  /\ HasTrackedParent(top)
                 /\ TrackAndIgnore(taken, Lineage(id) \ taken, group)
      BY <2>3 DEF AdoptLineage
    <3>2. proc[Parent(top)].group \in Groups \cup {EmptyName}
      BY <3>1 DEF HasTrackedParent, TypeOK, Entry
    <3>3. top \in Lineage(id) /\ Lineage(id) \subseteq newProcs
      BY DEF Tops, Lineage, Fresh
    <3> QED BY <2>2, <3>1, <3>2, <3>3
  <2>4. CASE IgnoreLineage(id)
    <3>1. Lineage(id) \subseteq newProcs
      BY DEF Lineage, Fresh
    <3> QED BY <2>2, <2>4, <3>1 DEF IgnoreLineage
  <2> QED BY <2>1, <2>3, <2>4 DEF Adopt, VisitDone, StackOverflow
<1>3. TypeOK'
  BY <1>1, <1>2 DEF Visit, TypeOK, TableTypeOK, tableVars, historyVars
<1>4. IndexInv' /\ ReadingsInPast'
  BY <1>1, <1>2 DEF IndexInv, ReadingsInPast, NewOnes, Visit, tableVars
<1>5. PastOnly' /\ Phases' /\ MetOnce'
  BY <1>1 DEF PastOnly, Phases, MetOnce, Visit, tableVars, historyVars
<1>6. NewOnes'
  BY <1>1 DEF NewOnes, Visit, tableVars
<1> QED BY <1>3, <1>4, <1>5, <1>6

(* The report touches history only.                                        *)
LEMMA MapsReport == MapsInv /\ (FinishAdopt \/ Report) => MapsInv'
<1> SUFFICES ASSUME MapsInv, FinishAdopt \/ Report PROVE MapsInv'
  OBVIOUS
<1> USE DEF MapsInv
<1>1. CASE FinishAdopt
  BY <1>1 DEF FinishAdopt, TypeOK, TableTypeOK, PastOnly, IndexInv, Phases,
              MetOnce, NewOnes, ReadingsInPast, tableVars, trackedVars,
              scanVars, historyVars
<1>2. CASE Report
  <2>1. TypeOK'
    BY <1>2 DEF Report, TypeOK, TableTypeOK, tableVars, trackedVars, Entry,
                Info, NoInfo, Phases
  <2>2. IndexInv' /\ ReadingsInPast' /\ Phases' /\ MetOnce' /\ NewOnes'
    BY <1>2 DEF Report, IndexInv, ReadingsInPast, Phases, MetOnce, NewOnes,
                tableVars, trackedVars
  <2>3. PastOnly'
    <3>1. \A id \in Reported : id.start <= clock
      BY NoIDIsNoID DEF PastOnly, IndexInv, Reported, ID
    <3> QED BY <1>2, <3>1 DEF Report, PastOnly, tableVars, trackedVars
  <2> QED BY <2>1, <2>2, <2>3
<1> QED BY <1>1, <1>2

(* Every step of the tracker and of its environment, by its action.        *)
LEMMA MapsStep == MapsInv /\ [Next]_vars => MapsInv'
<1> SUFFICES ASSUME MapsInv, [Next]_vars PROVE MapsInv'
  OBVIOUS
<1>1. CASE Environment
  BY <1>1, MapsEnvironment
<1>2. CASE StartScan \/ ListingFails
  BY <1>2, MapsStart
<1>3. CASE \E p \in Pids : HandleProc(p)
  BY <1>3, MapsUnchanged, MapsKnown, MapsNew DEF HandleProc
<1>4. CASE FinishScan
  BY <1>4, MapsFinish
<1>5. CASE \E id \in ID : Adopt(id)
  BY <1>5, MapsAdopt
<1>6. CASE FinishAdopt \/ Report
  BY <1>6, MapsReport
<1>7. CASE UNCHANGED vars
  BY <1>7 DEF vars, tableVars, trackerVars, trackedVars, scanVars, historyVars,
              MapsInv, TypeOK, TableTypeOK, PastOnly, IndexInv, Phases,
              MetOnce, NewOnes, ReadingsInPast
<1> QED BY <1>1, <1>2, <1>3, <1>4, <1>5, <1>6, <1>7 DEF Next, TrackerNext

(* The tracker's maps stay consistent through scans, exits, reuse of pids  *)
(* and failures: handleProc, the sweep, track and ignore keep MapsInv.     *)
THEOREM MapsInvariant == Spec => []MapsInv
BY MapsInit, MapsStep, PTL DEF Spec

(* Types: in particular no increment a report carries is ever negative.    *)
THEOREM TypeCorrect == Spec => []TypeOK
<1>1. MapsInv => TypeOK
  BY DEF MapsInv
<1> QED BY <1>1, MapsInvariant, PTL

(* tracked and procIds agree on every process that is tracked or ignored,  *)
(* through exits, reuse of pids, failures, adoption and the sweep.         *)
THEOREM MapsAgree == Spec => []IndexInv
<1>1. MapsInv => IndexInv
  BY DEF MapsInv
<1> QED BY <1>1, MapsInvariant, PTL

-----------------------------------------------------------------------------
(* AccountsInv is inductive when no call fails on a live process.  Each    *)
(* lemma takes MapsInv', which MapsStep gives, for granted.                *)

(* A tracker that has not scanned has credited nobody.                     *)
LEMMA AccountsInit == Init => NotMissed /\ CreditInv
BY DEF Init, TableInit, NotMissed, CreditInv, Settled, ID

(* Whoever lives after an exit lived before, and is not the one that left. *)
LEMMA ExitLives ==
    ASSUME TableTypeOK, NEW p \in Pids, Exit(p)
    PROVE  /\ used' = used
           /\ \A id \in ID : Live(id)' => Live(id) /\ id.pid # p
<1>1. /\ used' = used
      /\ \A q \in Pids : table'[q].start = IF q = p THEN -1 ELSE table[q].start
  BY ExitEffect
<1>2. ASSUME NEW id \in ID, Live(id)'
      PROVE  Live(id) /\ id.pid # p
  <2>1. /\ id.pid \in Pids /\ id.start \in Nat
        /\ table'[id.pid].start = id.start
    BY <1>2, IDParts DEF Live
  <2>2. id.pid # p
    <3> SUFFICES ASSUME id.pid = p PROVE FALSE
      OBVIOUS
    <3>1. table'[p].start = -1 /\ table'[p].start = id.start
      BY <1>1, <2>1
    <3> QED BY <2>1, <3>1
  <2> QED BY <1>1, <2>1, <2>2 DEF Live
<1> QED BY <1>1, <1>2

(* What the environment leaves: who is live was live, or has just started, *)
(* and nobody has used less.                                               *)
LEMMA EnvironmentLives ==
    ASSUME MapsInv, Environment
    PROVE  /\ \A id \in ID : Live(id)' => Live(id) \/ id.start > clock
           /\ \A id \in ID : used[id] <= used'[id]
<1>0. TableTypeOK /\ \A id \in ID : used[id] \in Nat
  BY DEF MapsInv, TypeOK, TableTypeOK
<1>1. ASSUME NEW p \in Pids, Exit(p)
      PROVE  \A id \in ID : /\ Live(id)' => Live(id)
                            /\ used[id] <= used'[id]
  BY <1>0, <1>1, ExitLives
<1>2. ASSUME NEW parent \in Pids, NEW p \in Pids, NEW name \in Names,
             Fork(parent, p, name)
      PROVE  \A id \in ID : /\ Live(id)' => Live(id) \/ id.start > clock
                            /\ used[id] <= used'[id]
  <2>1. clock \in Nat
    BY <1>0 DEF TableTypeOK
  <2>2. /\ used' = used
        /\ \A q \in Pids : table'[q].start = IF q = p THEN clock + 1
                                                     ELSE table[q].start
    BY <1>0, <1>2, ForkEffect
  <2>3. ASSUME NEW id \in ID, Live(id)'
        PROVE  Live(id) \/ id.start > clock
    <3>1. /\ id.pid \in Pids /\ id.start \in Nat
          /\ table'[id.pid].start = id.start
      BY <2>3, IDParts DEF Live
    <3> QED BY <2>1, <2>2, <3>1 DEF Live
  <2> QED BY <1>0, <2>2, <2>3
<1>3. CASE \/ Tick
           \/ \E p \in Pids, name \in Names : Exec(p, name)
           \/ \E p \in Pids : Work(p)
  BY <1>0, <1>3, IDParts, QuietEffect DEF Live
<1> QED BY <1>1, <1>2, <1>3 DEF Environment

(* Use grows, and processes exit: the credit stays within the use.         *)
LEMMA AccountsEnvironment ==
    AccountsInv /\ Environment => NotMissed' /\ CreditInv'
<1> SUFFICES ASSUME AccountsInv, Environment PROVE NotMissed' /\ CreditInv'
  OBVIOUS
<1>1. MapsInv /\ NotMissed /\ CreditInv
  BY DEF AccountsInv
<1>2. /\ \A id \in ID : Live(id)' => Live(id) \/ id.start > clock
      /\ \A id \in ID : used[id] <= used'[id]
  BY <1>1, EnvironmentLives
<1>3. UNCHANGED <<pc, tracked, proc, seen, listed, newProcs, credit>>
  BY DEF Environment, trackerVars, trackedVars, scanVars, historyVars
<1>4. \A id \in ID : id.start > clock => tracked[id] = "unknown" /\ credit[id] = 0
  <2> SUFFICES ASSUME NEW id \in ID, id.start > clock
               PROVE  tracked[id] = "unknown" /\ credit[id] = 0
    OBVIOUS
  <2>1. clock \in Nat /\ id.start \in Nat /\ id.pid \in Pids /\ id # NoID
    BY <1>1, IDParts DEF MapsInv, TypeOK, TableTypeOK
  <2>2. credit[id] = 0
    BY <1>1, <2>1 DEF MapsInv, PastOnly
  <2>3. procIds[id.pid] # id
    <3>1. procIds[id.pid] # NoID => procIds[id.pid].start <= clock
      BY <1>1, <2>1 DEF MapsInv, PastOnly
    <3> QED BY <2>1, <3>1
  <2> QED BY <1>1, <2>2, <2>3 DEF MapsInv, IndexInv
<1>5. NotMissed'
  <2>1. \A id \in ID : Live(id)' /\ tracked[id] = "tracked" => Live(id)
    BY <1>2, <1>4
  <2> QED BY <1>1, <1>3, <2>1 DEF NotMissed
<1>6. CreditInv'
  <2> SUFFICES ASSUME NEW id \in ID
               PROVE  /\ credit[id] <= used'[id]
                      /\ tracked[id] # "tracked" /\ Live(id)' => credit[id] = 0
    BY <1>1, <1>3 DEF CreditInv, Settled
  <2>1. credit[id] \in Nat /\ used[id] \in Nat /\ credit[id] <= used[id]
    BY <1>1 DEF CreditInv, MapsInv, TypeOK, TableTypeOK
  <2>2. used'[id] \in Nat
    BY <1>1, MapsEnvironment DEF MapsInv, TypeOK, TableTypeOK
  <2> QED BY <1>1, <1>2, <1>4, <2>1, <2>2 DEF CreditInv
<1> QED BY <1>5, <1>6

(* The scan starts with every live process still to be met.                *)
LEMMA AccountsStart ==
    AccountsInv /\ (StartScan \/ ListingFails) => NotMissed' /\ CreditInv'
<1> SUFFICES ASSUME AccountsInv, StartScan \/ ListingFails
             PROVE  NotMissed' /\ CreditInv'
  OBVIOUS
<1>1. MapsInv /\ NotMissed /\ CreditInv
  BY DEF AccountsInv
<1>2. /\ pc = "idle" /\ pc' \in {"idle", "scan"}
      /\ UNCHANGED <<tableVars, tracked, proc, seen, newProcs, credit>>
  BY DEF StartScan, ListingFails, historyVars, scanVars
<1>3. NotMissed'
  <2>1. CASE StartScan
    <3>1. \A id \in ID : Live(id) => id.pid \in LivePids
      BY <1>1 DEF Live, LivePids, Alive, ID, MapsInv, TypeOK, TableTypeOK
    <3> QED BY <1>2, <2>1, <3>1 DEF StartScan, NotMissed, Live, tableVars
  <2>2. CASE ListingFails
    BY <1>2, <2>2 DEF ListingFails, NotMissed
  <2> QED BY <2>1, <2>2
<1>4. CreditInv'
  <2>1. \A id \in ID : ~Settled(id) /\ ~Settled(id)'
    BY <1>1, <1>2 DEF Settled, MapsInv, Phases
  <2> QED BY <1>1, <1>2, <2>1 DEF CreditInv, Live, tableVars
<1> QED BY <1>3, <1>4

(* Nothing read: the process is ignored, has exited, or exits now.         *)
LEMMA AccountsUnchanged ==
    ASSUME MaxFaults = 0, AccountsInv, NEW p \in Pids,
           NoProcID(p) \/ SkipIgnored(p) \/ MetricsFail(p) \/ StaticFails(p)
    PROVE  NotMissed' /\ CreditInv'
<1>1. MapsInv /\ NotMissed /\ CreditInv
  BY DEF AccountsInv
<1>2. /\ pc = "scan" /\ pc' = pc
      /\ listed' = listed \ {p}
      /\ UNCHANGED <<tracked, proc, seen, newProcs, credit>>
  BY DEF NoProcID, SkipIgnored, MetricsFail, StaticFails, Deliver
<1>3. \A call : ~Fault(call)
  BY <1>1 DEF Fault, MapsInv, TypeOK
<1>4. /\ used' = used
      /\ \A id \in ID : Live(id)' => Live(id)
  <2>1. CASE Exit(p)
    BY <2>1, ExitLives, <1>1 DEF MapsInv, TypeOK
  <2>2. CASE UNCHANGED tableVars
    BY <2>2 DEF tableVars, Live
  <2> QED BY <2>1, <2>2 DEF NoProcID, SkipIgnored, MetricsFail, StaticFails
<1>5. \A id \in ID : id.pid = p /\ Live(id)' => tracked[id] # "tracked"
  <2> SUFFICES ASSUME NEW id \in ID, id.pid = p, Live(id)'
               PROVE  tracked[id] # "tracked"
    OBVIOUS
  <2>1. Alive(p) /\ id = IdOf(p)
    BY <1>1, <1>4, LiveIdentity DEF MapsInv, TypeOK
  <2>2. ~Exit(p)
    BY <1>1, ExitLives DEF MapsInv, TypeOK
  <2> QED BY <1>3, <2>1, <2>2
          DEF NoProcID, SkipIgnored, MetricsFail, StaticFails
<1>6. NotMissed'
  BY <1>1, <1>2, <1>4, <1>5 DEF NotMissed
<1>7. CreditInv'
  BY <1>1, <1>2, <1>4 DEF CreditInv, Settled
<1> QED BY <1>6, <1>7

(* A second reading: the increment is what was used since the first.       *)
LEMMA AccountsKnown ==
    ASSUME AccountsInv, NEW p \in Pids, UpdateKnown(p)
    PROVE  NotMissed' /\ CreditInv'
<1> DEFINE known == IdOf(p)
<1>1. MapsInv /\ NotMissed /\ CreditInv
  BY DEF AccountsInv
<1>2. /\ pc = "scan" /\ pc' = pc
      /\ p \in listed /\ listed' = listed \ {p}
      /\ known \in ID /\ known.pid = p
      /\ tracked[known] = "tracked"
      /\ seen' = seen \cup {known}
      /\ proc' = [proc EXCEPT ![known] = KnownEntry(known)]
      /\ UNCHANGED <<tableVars, tracked, newProcs, credit>>
  BY <1>1, LiveIdentity DEF UpdateKnown, Deliver, MapsInv, TypeOK
<1>3. \A id \in ID : id.pid = p /\ Live(id) => id = known
  BY <1>1, LiveIdentity DEF MapsInv, TypeOK
<1>4. known \notin seen
  BY <1>1, <1>2 DEF MapsInv, MetOnce
<1>5. NotMissed'
  BY <1>1, <1>2, <1>3 DEF NotMissed, Live, tableVars
<1>6. credit[known] + KnownEntry(known).latest <= KnownEntry(known).counts
  <2>1. credit[known] <= proc[known].counts
    BY <1>1, <1>2, <1>4 DEF CreditInv, Settled
  <2>2. /\ credit[known] \in Nat /\ used[known] \in Nat
        /\ proc[known].counts \in Nat
    BY <1>1, <1>2 DEF MapsInv, TypeOK, TableTypeOK, Entry
  <2> QED BY <2>1, <2>2 DEF KnownEntry
<1>7. CreditInv'
  <2> SUFFICES ASSUME NEW id \in ID, tracked[id] = "tracked"
               PROVE  IF Settled(id)'
                      THEN credit[id] + proc'[id].latest <= proc'[id].counts
                      ELSE credit[id] <= proc'[id].counts
    BY <1>1, <1>2 DEF CreditInv, Live, tableVars
  <2>1. CASE id = known
    BY <1>1, <1>2, <1>6, <2>1 DEF Settled, MapsInv, TypeOK
  <2>2. CASE id # known
    BY <1>1, <1>2, <2>2 DEF CreditInv, Settled, MapsInv, TypeOK
  <2> QED BY <2>1, <2>2
<1> QED BY <1>5, <1>7

(* A process met as a new one has not been credited with anything.         *)
LEMMA AccountsNew ==
    ASSUME AccountsInv, NEW p \in Pids, ReadNew(p)
    PROVE  NotMissed' /\ CreditInv'
<1> DEFINE new == IdOf(p)
<1>1. MapsInv /\ NotMissed /\ CreditInv
  BY DEF AccountsInv
<1>2. /\ pc = "scan" /\ pc' = pc
      /\ p \in listed /\ listed' = listed \ {p}
      /\ new \in ID /\ new.pid = p /\ Live(new)
      /\ tracked[new] = "unknown"
      /\ newProcs' = newProcs \cup {new}
      /\ UNCHANGED <<tableVars, seen, credit>>
  BY <1>1, LiveIdentity DEF ReadNew, Deliver, MapsInv, TypeOK
<1>3. \A id \in ID : id.pid = p /\ Live(id) => id = new
  BY <1>1, LiveIdentity DEF MapsInv, TypeOK
<1>4. \A id \in ID : \/ tracked'[id] = tracked[id] /\ proc'[id] = proc[id]
                     \/ id = procIds[p] /\ tracked'[id] = "unknown"
  BY <1>2 DEF ReadNew, Forgotten
<1>5. procIds[p] \in ID => procIds[p].pid = p
  BY <1>1, IDParts DEF MapsInv, PastOnly
<1>6. \A id \in ID : Live(id) => tracked'[id] = tracked[id]
  <2> SUFFICES ASSUME NEW id \in ID, Live(id), id = procIds[p],
                      tracked'[id] = "unknown"
               PROVE  tracked'[id] = tracked[id]
    BY <1>4
  <2> QED BY <1>2, <1>3, <1>5
<1>7. NotMissed'
  BY <1>1, <1>2, <1>3, <1>4, <1>6 DEF NotMissed, Live, tableVars
<1>8. CreditInv'
  <2>1. ASSUME NEW id \in ID
        PROVE  credit'[id] <= used'[id]
    BY <1>1, <1>2 DEF CreditInv, tableVars
  <2>2. ASSUME NEW id \in ID, tracked'[id] = "tracked"
        PROVE  IF Settled(id)'
               THEN credit'[id] + proc'[id].latest <= proc'[id].counts
               ELSE credit'[id] <= proc'[id].counts
    BY <1>1, <1>2, <1>4, <2>2 DEF CreditInv, Settled
  <2>3. ASSUME NEW id \in ID, id \in newProcs', tracked'[id] # "tracked"
        PROVE  credit'[id] = 0
    <3>1. id \in newProcs \/ id = new
      BY <1>2, <2>3
    <3>2. id \in newProcs => tracked[id] = "unknown"
      BY <1>1, <1>2 DEF MapsInv, NewOnes
    <3> QED BY <1>1, <1>2, <3>1, <3>2 DEF CreditInv
  <2>4. ASSUME NEW id \in ID, Live(id)', tracked'[id] # "tracked"
        PROVE  credit'[id] = 0
    <3>1. Live(id)
      BY <1>2, <2>4 DEF Live, tableVars
    <3> QED BY <1>1, <1>2, <1>6, <2>4, <3>1 DEF CreditInv
  <2> QED BY <2>1, <2>2, <2>3, <2>4 DEF CreditInv
<1> QED BY <1>7, <1>8

(* The sweep forgets the dead only, so nobody who could be met again keeps *)
(* a credit; step 1 gives new processes their first increment.             *)
LEMMA AccountsFinish == AccountsInv /\ FinishScan => NotMissed' /\ CreditInv'
<1> SUFFICES ASSUME AccountsInv, FinishScan PROVE NotMissed' /\ CreditInv'
  OBVIOUS
<1> DEFINE wanted == {id \in newProcs : info[id].name \in Matched}
<1>1. MapsInv /\ NotMissed /\ CreditInv
  BY DEF AccountsInv
<1>2. /\ pc = "scan" /\ pc' \in {"adopt", "report"} /\ listed = {}
      /\ tracked' = [id \in ID |-> IF id \in wanted THEN "tracked"
                                   ELSE IF id \in Gone THEN "unknown"
                                   ELSE tracked[id]]
      /\ proc' = [id \in ID |-> IF id \in wanted
                                THEN NewEntry(id, NameGroup[info[id].name])
                                ELSE IF id \in Gone THEN NoEntry
                                ELSE proc[id]]
      /\ newProcs' = newProcs \ wanted
      /\ UNCHANGED <<tableVars, seen, credit>>
  BY DEF FinishScan
<1>3. NotMissed'
  BY <1>2 DEF NotMissed
<1>4. \A id \in Gone : ~Live(id)
  BY <1>1, <1>2 DEF Gone, NotMissed
<1>5. \A id \in newProcs : id \in ID /\ tracked[id] = "unknown" /\ credit[id] = 0
  BY <1>1, <1>2 DEF MapsInv, NewOnes, CreditInv, TypeOK
<1>6. CreditInv'
  <2>1. ASSUME NEW id \in ID
        PROVE  credit'[id] <= used'[id]
    BY <1>1, <1>2 DEF CreditInv, tableVars
  <2>2. ASSUME NEW id \in ID, tracked'[id] = "tracked"
        PROVE  credit'[id] + proc'[id].latest <= proc'[id].counts
    <3>1. CASE id \in wanted
      <4>1. proc'[id] = NewEntry(id, NameGroup[info[id].name])
        BY <1>2, <3>1
      <4>2. info[id].counts \in Nat /\ credit[id] = 0
        BY <1>1, <1>5, <3>1 DEF MapsInv, TypeOK, Info
      <4> QED BY <1>2, <4>1, <4>2 DEF NewEntry
    <3>2. CASE id \notin wanted
      <4>1. tracked[id] = "tracked" /\ id \in seen /\ proc'[id] = proc[id]
        BY <1>2, <2>2, <3>2 DEF Gone
      <4> QED BY <1>1, <1>2, <4>1 DEF CreditInv, Settled
    <3> QED BY <3>1, <3>2
  <2>3. ASSUME NEW id \in ID, id \in newProcs'
        PROVE  credit'[id] = 0
    BY <1>2, <1>5, <2>3
  <2>4. ASSUME NEW id \in ID, Live(id)', tracked'[id] # "tracked"
        PROVE  credit'[id] = 0
    <3>1. Live(id) /\ tracked[id] # "tracked"
      BY <1>2, <1>4, <2>4 DEF Live, tableVars
    <3> QED BY <1>1, <1>2, <3>1 DEF CreditInv
  <2> QED BY <1>2, <2>1, <2>2, <2>3, <2>4 DEF CreditInv, Settled
<1> QED BY <1>3, <1>6

(* Step 2 changes what the tracker knows of new processes only, and only   *)
(* from unknown: it ignores them, or tracks them as new.                   *)
LEMMA AdoptsNew ==
    ASSUME NEW visited \in ID, Adopt(visited)
    PROVE  \A id \in ID :
              \/ tracked'[id] = tracked[id] /\ proc'[id] = proc[id]
              \/ /\ id \in Fresh
                 /\ \/ /\ tracked'[id] = "tracked"
                       /\ \E group : proc'[id] = NewEntry(id, group)
                    \/ tracked'[id] = "ignored" /\ Ignorable(id)
<1>1. ASSUME NEW taken, NEW left, taken \subseteq Fresh, left \subseteq Fresh,
             NEW group, TrackAndIgnore(taken, left, group)
      PROVE  \A id \in ID :
                \/ tracked'[id] = tracked[id] /\ proc'[id] = proc[id]
                \/ /\ id \in Fresh
                   /\ \/ /\ tracked'[id] = "tracked"
                         /\ \E name : proc'[id] = NewEntry(id, name)
                      \/ tracked'[id] = "ignored" /\ Ignorable(id)
  BY <1>1 DEF TrackAndIgnore, Fresh
<1>2. \A id \in ID : Lineage(id) \subseteq Fresh /\ Tops(id) \subseteq Lineage(id)
  BY DEF Lineage, Tops
<1>3. CASE AdoptLineage(visited)
  <2>1. PICK top \in Tops(visited) :
           LET group == proc[Parent(top)].group
               taken == IF group = EmptyName THEN {top} ELSE Lineage(visited)
           IN  TrackAndIgnore(taken, Lineage(visited) \ taken, group)
    BY <1>3 DEF AdoptLineage
  <2> QED BY <1>1, <1>2, <2>1
<1>4. CASE IgnoreLineage(visited)
  BY <1>1, <1>2, <1>4 DEF IgnoreLineage
<1> QED BY <1>3, <1>4 DEF Adopt, VisitDone, StackOverflow

(* Step 2 tracks new processes only, which have no credit yet.             *)
LEMMA AccountsAdopt ==
    ASSUME AccountsInv, NEW visited \in ID, Adopt(visited)
    PROVE  NotMissed' /\ CreditInv'
<1>1. MapsInv /\ NotMissed /\ CreditInv
  BY DEF AccountsInv
<1>2. /\ pc = "adopt" /\ pc' \in {"adopt", "crashed"}
      /\ UNCHANGED <<tableVars, seen, newProcs, credit>>
  BY DEF Adopt, VisitDone, AdoptLineage, IgnoreLineage, StackOverflow, Visit,
         historyVars
<1>3. \A id \in ID :
         \/ tracked'[id] = tracked[id] /\ proc'[id] = proc[id]
         \/ /\ id \in newProcs /\ tracked[id] = "unknown"
            /\ tracked'[id] = "tracked" =>
                  \E group : proc'[id] = NewEntry(id, group)
  BY AdoptsNew DEF Fresh
<1>4. NotMissed'
  BY <1>2 DEF NotMissed
<1>5. CreditInv'
  <2>1. ASSUME NEW id \in ID, tracked'[id] = tracked[id], proc'[id] = proc[id]
        PROVE  /\ credit'[id] <= used'[id]
               /\ tracked'[id] = "tracked" =>
                     credit'[id] + proc'[id].latest <= proc'[id].counts
               /\ id \in newProcs' /\ tracked'[id] # "tracked" => credit'[id] = 0
               /\ Live(id)' /\ tracked'[id] # "tracked" => credit'[id] = 0
    BY <1>1, <1>2, <2>1 DEF CreditInv, Settled, Live, tableVars
  <2>2. ASSUME NEW id \in ID, id \in newProcs, tracked[id] = "unknown",
               tracked'[id] = "tracked" =>
                  \E group : proc'[id] = NewEntry(id, group)
        PROVE  /\ credit'[id] <= used'[id]
               /\ credit'[id] = 0
               /\ tracked'[id] = "tracked" =>
                     credit'[id] + proc'[id].latest <= proc'[id].counts
    <3>1. credit[id] = 0 /\ credit[id] <= used[id]
      BY <1>1, <2>2 DEF CreditInv
    <3>2. info[id].counts \in Nat
      BY <1>1 DEF MapsInv, TypeOK, Info
    <3>3. credit'[id] = 0 /\ credit'[id] <= used'[id]
      BY <1>2, <3>1 DEF tableVars
    <3>4. ASSUME tracked'[id] = "tracked"
          PROVE  credit'[id] + proc'[id].latest <= proc'[id].counts
      <4>1. PICK group : proc'[id] = NewEntry(id, group)
        BY <2>2, <3>4
      <4>2. proc'[id].counts = info[id].counts /\ proc'[id].latest \in {0, info[id].counts}
        BY <4>1 DEF NewEntry
      <4> QED BY <3>2, <3>3, <4>2
    <3> QED BY <3>3, <3>4
  <2>3. ASSUME NEW id \in ID
        PROVE  /\ credit'[id] <= used'[id]
               /\ tracked'[id] = "tracked" =>
                     IF Settled(id)'
                     THEN credit'[id] + proc'[id].latest <= proc'[id].counts
                     ELSE credit'[id] <= proc'[id].counts
               /\ id \in newProcs' /\ tracked'[id] # "tracked" => credit'[id] = 0
               /\ Live(id)' /\ tracked'[id] # "tracked" => credit'[id] = 0
    <3>1. /\ credit'[id] <= used'[id]
          /\ tracked'[id] = "tracked" =>
                credit'[id] + proc'[id].latest <= proc'[id].counts
          /\ id \in newProcs' /\ tracked'[id] # "tracked" => credit'[id] = 0
          /\ Live(id)' /\ tracked'[id] # "tracked" => credit'[id] = 0
      BY <1>3, <2>1, <2>2
    <3>2. tracked'[id] = "tracked" =>
             credit'[id] \in Nat /\ proc'[id].latest \in Nat
                                /\ proc'[id].counts \in Nat
      BY <1>1, MapsAdopt DEF MapsInv, TypeOK, Entry
    <3> QED BY <3>1, <3>2
  <2> QED BY <2>3 DEF CreditInv
<1> QED BY <1>4, <1>5

(* A report credits each tracked process with its increment.               *)
LEMMA AccountsReport ==
    AccountsInv /\ (FinishAdopt \/ Report) => NotMissed' /\ CreditInv'
<1> SUFFICES ASSUME AccountsInv, FinishAdopt \/ Report
             PROVE  NotMissed' /\ CreditInv'
  OBVIOUS
<1>1. MapsInv /\ NotMissed /\ CreditInv
  BY DEF AccountsInv
<1>2. CASE FinishAdopt
  BY <1>1, <1>2 DEF FinishAdopt, NotMissed, CreditInv, Settled, Live,
                    tableVars, trackedVars, scanVars, historyVars
<1>3. CASE Report
  <2>1. /\ pc = "report" /\ pc' = "idle"
        /\ UNCHANGED <<tableVars, tracked, proc>>
        /\ seen' = {} /\ newProcs' = {}
        /\ \A id \in ID : credit'[id] = IF tracked[id] = "tracked"
                                       THEN credit[id] + proc[id].latest
                                       ELSE credit[id]
    BY <1>3 DEF Report, Reported, trackedVars
  <2>2. ASSUME NEW id \in ID, tracked[id] = "tracked"
        PROVE  credit'[id] <= proc[id].counts /\ credit'[id] <= used[id]
    <3>1. credit'[id] <= proc[id].counts
      BY <1>1, <2>1, <2>2 DEF CreditInv, Settled
    <3>2. proc[id].counts <= used[id]
      BY <1>1, <2>2 DEF MapsInv, ReadingsInPast
    <3>3. /\ credit'[id] \in Nat /\ used[id] \in Nat
          /\ proc[id].counts \in Nat
      BY <1>1, <2>1 DEF MapsInv, TypeOK, TableTypeOK, Entry
    <3> QED BY <3>1, <3>2, <3>3
  <2>3. NotMissed'
    BY <2>1 DEF NotMissed
  <2>4. CreditInv'
    BY <1>1, <2>1, <2>2 DEF CreditInv, Settled, Live, tableVars
  <2> QED BY <2>3, <2>4
<1> QED BY <1>2, <1>3

(* Every step, by its action; MapsStep gives the primed MapsInv.           *)
LEMMA AccountsStep ==
    ASSUME MaxFaults = 0
    PROVE  AccountsInv /\ [Next]_vars => AccountsInv'
<1> SUFFICES ASSUME AccountsInv, [Next]_vars PROVE AccountsInv'
  OBVIOUS
<1>1. MapsInv'
  BY MapsStep DEF AccountsInv
<1>2. NotMissed' /\ CreditInv'
  <2>1. CASE Environment
    BY <2>1, AccountsEnvironment
  <2>2. CASE StartScan \/ ListingFails
    BY <2>2, AccountsStart
  <2>3. CASE \E p \in Pids : HandleProc(p)
    BY <2>3, AccountsUnchanged, AccountsKnown, AccountsNew DEF HandleProc
  <2>4. CASE FinishScan
    BY <2>4, AccountsFinish
  <2>5. CASE \E id \in ID : Adopt(id)
    BY <2>5, AccountsAdopt
  <2>6. CASE FinishAdopt \/ Report
    BY <2>6, AccountsReport
  <2>7. CASE UNCHANGED vars
    BY <2>7 DEF AccountsInv, vars, tableVars, trackerVars, trackedVars,
                scanVars, historyVars, NotMissed, CreditInv, Settled, Live
  <2> QED BY <2>1, <2>2, <2>3, <2>4, <2>5, <2>6, <2>7 DEF Next, TrackerNext
<1> QED BY <1>1, <1>2 DEF AccountsInv

(* Between the reading of a process and the report that carries its        *)
(* increment, no increment is made twice, as long as no read fails on a    *)
(* live process.                                                           *)
THEOREM AccountsInvariant ==
    ASSUME MaxFaults = 0
    PROVE  Spec => []AccountsInv
<1>1. Init => AccountsInv
  BY MapsInit, AccountsInit DEF AccountsInv
<1>2. AccountsInv /\ [Next]_vars => AccountsInv'
  BY AccountsStep
<1> QED BY <1>1, <1>2, PTL DEF Spec

(* Nothing is counted twice: as long as every read of a live process       *)
(* succeeds, the increments reported of a process never sum to more than   *)
(* what it used, however it was met, adopted, rechecked or lost.           *)
THEOREM CountedOnce ==
    ASSUME MaxFaults = 0
    PROVE  Spec => []CreditWithinUse
<1>1. AccountsInv => CreditWithinUse
  BY DEF AccountsInv, CreditInv, CreditWithinUse
<1> QED BY <1>1, AccountsInvariant, PTL

-----------------------------------------------------------------------------
(* Refinement.                                                             *)

(* Each step of the tracker or its environment uses resources of one       *)
(* process, settles, or changes neither account.                           *)
LEMMA StepsAccount ==
    ASSUME MaxFaults = 0, AccountsInv, AccountsInv', [Next]_vars
    PROVE  [Accounts!AccountingNext]_<<used, credit>>
<1>1. /\ used \in [ID -> Nat] /\ credit \in [ID -> Nat]
      /\ used' \in [ID -> Nat] /\ credit' \in [ID -> Nat]
      /\ \A id \in ID : credit'[id] <= used'[id]
  BY DEF AccountsInv, MapsInv, TypeOK, TableTypeOK, CreditInv
<1>2. ASSUME NEW p \in Pids, Work(p), UNCHANGED credit
      PROVE  Accounts!Consume
  <2>1. IdOf(p) \in ID
    BY <1>2, LiveIdentity DEF Work, AccountsInv, MapsInv, TypeOK
  <2>2. used' = [used EXCEPT ![IdOf(p)] = @ + 1]
    BY <1>2 DEF Work
  <2> QED BY <1>1, <1>2, <2>1, <2>2 DEF Accounts!Consume
<1>3. ASSUME Report
      PROVE  Accounts!Settle
  <2>1. UNCHANGED used
    BY <1>3 DEF Report, tableVars
  <2>2. ASSUME NEW id \in ID
        PROVE  credit[id] <= credit'[id]
    <3>1. tracked[id] = "tracked" => proc[id].latest \in Nat
      BY DEF AccountsInv, MapsInv, TypeOK, Entry
    <3>2. credit'[id] = IF tracked[id] = "tracked"
                        THEN credit[id] + proc[id].latest ELSE credit[id]
      BY <1>3 DEF Report, Reported
    <3> QED BY <1>1, <3>1, <3>2
  <2>3. \A id \in ID : credit'[id] <= used[id]
    BY <1>1, <2>1
  <2> QED BY <1>1, <2>1, <2>2, <2>3 DEF Accounts!Settle
<1>4. CASE Environment
  <2>1. UNCHANGED credit
    BY <1>4 DEF Environment, trackerVars, historyVars
  <2>2. UNCHANGED used \/ \E p \in Pids : Work(p)
    BY <1>4 DEF Environment, Tick, Fork, Exec, Exit
  <2> QED BY <1>2, <2>1, <2>2 DEF Accounts!AccountingNext
<1>5. CASE \E p \in Pids : HandleProc(p)
  BY <1>5 DEF HandleProc, NoProcID, SkipIgnored, MetricsFail, UpdateKnown,
              ReadNew, StaticFails, Deliver, Exit, tableVars
<1>6. CASE StartScan \/ ListingFails \/ FinishScan \/ FinishAdopt
  BY <1>6 DEF StartScan, ListingFails, FinishScan, FinishAdopt, tableVars,
              historyVars
<1>7. CASE \E id \in ID : Adopt(id)
  BY <1>7 DEF Adopt, VisitDone, AdoptLineage, IgnoreLineage, StackOverflow,
              Visit, tableVars, historyVars
<1>8. CASE UNCHANGED vars
  BY <1>8 DEF vars, tableVars, trackerVars, historyVars
<1> QED BY <1>3, <1>4, <1>5, <1>6, <1>7, <1>8
        DEF Next, TrackerNext, Accounts!AccountingNext

(* As long as every read of a live process succeeds, the tracker is a      *)
(* sound accountant of what processes use.                                 *)
THEOREM TrackerImplementsAccounting ==
    ASSUME MaxFaults = 0
    PROVE  Spec => ImplementsAccounting
<1>1. Init => Accounts!AccountingInit
  BY DEF Init, TableInit, Accounts!AccountingInit
<1>2. Init /\ [][Next]_vars => []AccountsInv
  BY AccountsInvariant DEF Spec
<1>3. AccountsInv /\ AccountsInv' /\ [Next]_vars
         => [Accounts!AccountingNext]_Accounts!accountingVars
  BY StepsAccount DEF Accounts!accountingVars
<1> QED BY <1>1, <1>2, <1>3, PTL
        DEF Spec, ImplementsAccounting, Accounts!AccountingSpec

-----------------------------------------------------------------------------
(* NoGhostsInv.                                                            *)

(* Without reuse within a scan, nobody gets a pid of the listing.          *)
LEMMA EnvironmentKeepsListed ==
    ASSUME ~ReuseWithinScan, NoGhostsInv, Environment
    PROVE  ListedStay'
<1>0. TableTypeOK /\ listing \in SUBSET ID
  BY DEF NoGhostsInv, MapsInv, TypeOK
<1>1. listing' = listing /\ ListedStay
  BY DEF Environment, trackerVars, scanVars, NoGhostsInv
<1>2. ASSUME NEW id \in listing
      PROVE  table'[id.pid].start \in {table[id.pid].start, -1}
  <2>1. id.pid \in Pids
    BY <1>0, IDParts
  <2>2. CASE \E p \in Pids : Exit(p)
    BY <1>0, <2>1, <2>2, ExitEffect
  <2>3. CASE \E parent, p \in Pids, name \in Names :
                /\ \A other \in listing : other.pid # p
                /\ Fork(parent, p, name)
    BY <1>0, <2>1, <2>3, ForkEffect
  <2>4. CASE \/ Tick
             \/ \E p \in Pids, name \in Names : Exec(p, name)
             \/ \E p \in Pids : Work(p)
    BY <1>0, <2>1, <2>4, QuietEffect
  <2> QED BY <2>2, <2>3, <2>4 DEF Environment
<1> QED BY <1>0, <1>1, <1>2, IDParts DEF ListedStay, Alive, Live

(* Who is met is who was listed under the pid.                             *)
LEMMA MeetsListed ==
    ASSUME NoGhostsInv, NEW p \in listed, Alive(p)
    PROVE  IdOf(p) \in listing
<1>1. /\ TableTypeOK /\ listing \subseteq ID
      /\ listed \subseteq {id.pid : id \in listing}
  BY DEF NoGhostsInv, MapsInv, TypeOK
<1>2. PICK id \in listing : id.pid = p
  BY <1>1
<1>3. Live(id) /\ p \in Pids
  BY <1>1, <1>2, IDParts DEF NoGhostsInv, ListedStay
<1> QED BY <1>1, <1>2, <1>3, LiveIdentity

(* Every step keeps whom the tracker met within the listing.               *)
LEMMA NoGhostsStep ==
    ASSUME ~ReuseWithinScan, NoGhostsInv, [Next]_vars
    PROVE  NoGhostsInv'
<1>0. /\ MapsInv /\ TableTypeOK /\ listing \subseteq ID /\ ListedStay /\ MetListed
      /\ tracked \in [ID -> {"unknown", "ignored", "tracked"}]
  BY DEF NoGhostsInv, MapsInv, TypeOK
<1>1. MapsInv'
  BY <1>0, MapsStep
<1> SUFFICES ListedStay' /\ MetListed'
  BY <1>1 DEF NoGhostsInv
<1>2. CASE UNCHANGED vars
  BY <1>0, <1>2 DEF vars, tableVars, trackerVars, trackedVars, scanVars,
                    ListedStay, MetListed, Reported, Alive, Live
<1>3. CASE Environment
  BY <1>0, <1>3, EnvironmentKeepsListed
     DEF Environment, trackerVars, trackedVars, scanVars, MetListed, Reported
<1>4. CASE StartScan
  <2>1. \A id \in listing' : id \in ID /\ Live(id)
    BY <1>0, <1>4, LiveIdentity DEF StartScan, LivePids
  <2>2. ListedStay'
    BY <1>4, <2>1 DEF StartScan, tableVars, ListedStay, Live
  <2>3. MetListed'
    BY <1>0, <1>4 DEF StartScan, MapsInv, Phases, MetListed
  <2> QED BY <2>2, <2>3
<1>5. CASE ListingFails
  BY <1>0, <1>5 DEF ListingFails, tableVars, scanVars, ListedStay, MetListed,
                    Reported, Alive, Live
<1>6. ASSUME NEW p \in Pids,
             NoProcID(p) \/ SkipIgnored(p) \/ MetricsFail(p) \/ StaticFails(p)
      PROVE  ListedStay' /\ MetListed'
  <2>1. UNCHANGED <<pc, listing, seen, newProcs, tracked>>
    BY <1>6 DEF NoProcID, SkipIgnored, MetricsFail, StaticFails, Deliver
  <2>2. MetListed'
    BY <1>0, <2>1 DEF MetListed, Reported
  <2>3. ASSUME NEW id \in listing
        PROVE  table'[id.pid].start \in {table[id.pid].start, -1}
    <3>1. id.pid \in Pids
      BY <1>0, IDParts
    <3>2. CASE Exit(p)
      BY <1>0, <3>1, <3>2, ExitEffect
    <3> QED BY <1>6, <3>2 DEF NoProcID, SkipIgnored, MetricsFail, StaticFails,
                              tableVars
  <2> QED BY <1>0, <2>1, <2>2, <2>3, IDParts DEF ListedStay, Alive, Live
<1>7. ASSUME NEW p \in Pids, UpdateKnown(p) \/ ReadNew(p)
      PROVE  ListedStay' /\ MetListed'
  <2>1. /\ pc = "scan" /\ UNCHANGED <<pc, listing, tableVars>>
        /\ p \in listed /\ Alive(p)
        /\ seen' \cup newProcs' = seen \cup newProcs \cup {IdOf(p)}
    BY <1>7 DEF UpdateKnown, ReadNew, Deliver
  <2>2. IdOf(p) \in listing
    BY <2>1, MeetsListed
  <2> QED BY <1>0, <2>1, <2>2 DEF ListedStay, MetListed, Alive, Live, tableVars
<1>8. CASE FinishScan
  <2>1. /\ UNCHANGED <<listing, seen, tableVars>>
        /\ newProcs' \subseteq newProcs
        /\ \A id \in ID : tracked'[id] = "tracked" =>
              id \in newProcs \/ (tracked[id] = "tracked" /\ id \notin Gone)
    BY <1>8 DEF FinishScan
  <2> QED BY <1>0, <2>1 DEF ListedStay, MetListed, Reported, Gone, Alive, Live,
                            tableVars
<1>9. ASSUME NEW visited \in ID, Adopt(visited)
      PROVE  ListedStay' /\ MetListed'
  <2>1. /\ pc = "adopt" /\ UNCHANGED <<listing, seen, newProcs, tableVars>>
        /\ pc' \in {"adopt", "crashed"}
    BY <1>9 DEF Adopt, VisitDone, AdoptLineage, IgnoreLineage, StackOverflow,
                Visit
  <2>2. \A id \in ID : tracked'[id] = "tracked" =>
           tracked[id] = "tracked" \/ id \in newProcs
    BY <1>9, AdoptsNew DEF Fresh
  <2> QED BY <1>0, <2>1, <2>2 DEF ListedStay, MetListed, Reported, Alive, Live,
                                  tableVars
<1>10. CASE FinishAdopt
  BY <1>0, <1>10 DEF FinishAdopt, tableVars, trackedVars, scanVars, ListedStay,
                     MetListed, Reported, Alive, Live
<1>11. CASE Report
  BY <1>11 DEF Report, ListedStay, MetListed
<1> QED BY <1>2, <1>3, <1>4, <1>5, <1>6, <1>7, <1>8, <1>9, <1>10, <1>11
        DEF Next, TrackerNext, HandleProc

(* Unless a pid is reused within a scan, an Update reports no process that *)
(* had exited before the scan began, whatever else fails.                  *)
THEOREM NoGhostIsReported ==
    ASSUME ~ReuseWithinScan
    PROVE  Spec => []NoGhosts
<1>1. Init => NoGhostsInv
  BY MapsInit DEF Init, NoGhostsInv, ListedStay, MetListed
<1>2. NoGhostsInv /\ [Next]_vars => NoGhostsInv'
  BY NoGhostsStep
<1>3. NoGhostsInv => NoGhosts
  BY DEF NoGhostsInv, MetListed, NoGhosts
<1> QED BY <1>1, <1>2, <1>3, PTL DEF Spec

-----------------------------------------------------------------------------
(* KnownForLife, from AccountsInv.                                         *)
KnownStays(id) ==
    tracked[id] # "unknown" =>
        /\ Live(id) => tracked'[id] = tracked[id]
        /\ tracked'[id] \in {tracked[id], "unknown"}
        /\ tracked'[id] = "tracked" => proc'[id].group = proc[id].group

(* No step forgets a process that lives, or moves it.                      *)
LEMMA KnownStep ==
    ASSUME AccountsInv, [Next]_vars, NEW id \in ID
    PROVE  KnownStays(id)
<1>0. TypeOK /\ TableTypeOK /\ IndexInv /\ MapsInv
  BY DEF AccountsInv, MapsInv, TypeOK
<1>1. CASE UNCHANGED <<tracked, proc>>
  BY <1>1 DEF KnownStays
<1>2. ASSUME NEW p \in Pids, UpdateKnown(p) PROVE KnownStays(id)
  <2>1. IdOf(p) \in ID
    BY <1>0, <1>2, LiveIdentity DEF UpdateKnown
  <2>2. tracked' = tracked /\ proc' = [proc EXCEPT ![IdOf(p)] = KnownEntry(IdOf(p))]
    BY <1>2 DEF UpdateKnown
  <2>3. proc'[id].group = proc[id].group
    BY <1>0, <2>1, <2>2 DEF KnownEntry, TypeOK
  <2> QED BY <2>2, <2>3 DEF KnownStays
<1>3. ASSUME NEW p \in Pids, ReadNew(p) PROVE KnownStays(id)
  <2>1. /\ IdOf(p) \in ID /\ tracked[IdOf(p)] = "unknown"
        /\ tracked'[id] = IF id = procIds[IdOf(p).pid] THEN "unknown" ELSE tracked[id]
        /\ id # procIds[p] => proc'[id] = proc[id]
        /\ IdOf(p).pid = p
    BY <1>0, <1>3, LiveIdentity DEF ReadNew, Forgotten
  <2>2. CASE id # procIds[p]
    BY <2>1, <2>2 DEF KnownStays
  <2>3. CASE id = procIds[p]
    <3>1. id.pid = p
      <4>1. procIds[p] # NoID
        BY <2>3, IDParts
      <4> QED BY <1>0, <2>3, <4>1 DEF MapsInv, PastOnly
    <3>2. tracked[id] = "unknown" \/ ~Live(id)
      BY <1>0, <2>1, <3>1, LiveIdentity
    <3> QED BY <2>1, <2>3, <3>2 DEF KnownStays
  <2> QED BY <2>2, <2>3
<1>4. CASE FinishScan
  <2>1. tracked[id] # "unknown" => id \notin newProcs
    BY <1>0, <1>4 DEF FinishScan, MapsInv, NewOnes
  <2>2. Live(id) => id \notin Gone
    BY <1>4 DEF FinishScan, AccountsInv, NotMissed, Gone
  <2>3. tracked[id] # "unknown" =>
           /\ tracked'[id] = IF id \in Gone THEN "unknown" ELSE tracked[id]
           /\ id \notin Gone => proc'[id] = proc[id]
    BY <1>4, <2>1 DEF FinishScan
  <2> QED BY <2>2, <2>3 DEF KnownStays
<1>5. ASSUME NEW other \in ID, Adopt(other) PROVE KnownStays(id)
  BY <1>5, AdoptsNew DEF KnownStays, Fresh
<1>6. CASE Environment
  BY <1>1, <1>6 DEF Environment, trackerVars, trackedVars
<1>7. CASE StartScan \/ ListingFails \/ FinishAdopt \/ Report \/ UNCHANGED vars
  BY <1>1, <1>7 DEF StartScan, ListingFails, FinishAdopt, Report, trackedVars,
                    vars, trackerVars
<1>8. ASSUME NEW p \in Pids,
             NoProcID(p) \/ SkipIgnored(p) \/ MetricsFail(p) \/ StaticFails(p)
      PROVE  KnownStays(id)
  BY <1>1, <1>8 DEF NoProcID, SkipIgnored, MetricsFail, StaticFails
<1> QED BY <1>2, <1>3, <1>4, <1>5, <1>6, <1>7, <1>8
        DEF Next, TrackerNext, HandleProc

(* As long as every read of a live process succeeds, a process the tracker *)
(* knows is forgotten only once it is dead, and until then neither changes *)
(* its group nor moves between tracked and ignored.                        *)
THEOREM KnownForItsLife ==
    ASSUME MaxFaults = 0
    PROVE  Spec => KnownForLife
<1>1. AccountsInv /\ [Next]_vars =>
        [\A id \in ID : tracked[id] # "unknown" =>
            /\ Live(id) => tracked'[id] = tracked[id]
            /\ tracked'[id] \in {tracked[id], "unknown"}
            /\ tracked'[id] = "tracked" => proc'[id].group = proc[id].group]_vars
  BY KnownStep DEF KnownStays
<1>2. Spec => []AccountsInv
  BY AccountsInvariant
<1> QED BY <1>1, <1>2, PTL DEF Spec, KnownForLife

-----------------------------------------------------------------------------
(* ExactInv, from AccountsInv: what reports and readings sum to is equal.  *)

(* Nothing the tracker keeps changes with the process table.               *)
LEMMA ExactEnvironment ==
    ASSUME ExactInv, UNCHANGED trackerVars
    PROVE  ExactInv'
BY DEF ExactInv, Settled, trackerVars, trackedVars, scanVars, historyVars

(* A process read in the scan has its use since the last reading to be     *)
(* reported, one that is new all it used.                                  *)
LEMMA ExactStep ==
    ASSUME MaxFaults = 0, AccountsInv, ExactInv, [Next]_vars
    PROVE  ExactInv'
<1>0. /\ MapsInv /\ CreditInv /\ TypeOK /\ TableTypeOK
      /\ \A id \in ID : /\ credit[id] \in Nat /\ used[id] \in Nat
                        /\ proc[id].counts \in Nat /\ proc[id].latest \in Nat
  BY DEF AccountsInv, MapsInv, TypeOK, TableTypeOK, Entry
<1>a. \A id \in ID : id.start \in Nat
  BY IDParts
<1>1. CASE Environment \/ UNCHANGED vars
  BY <1>1, ExactEnvironment DEF Environment, vars
<1>2. CASE StartScan \/ ListingFails
  <2>1. /\ pc = "idle" /\ pc' \in {"idle", "scan"} /\ seen = {} /\ seen' = {}
        /\ UNCHANGED <<tracked, proc, credit>>
        /\ firstUpdateAt' \in Nat /\ firstUpdateAt \in Nat
        /\ firstUpdateAt <= firstUpdateAt'
    BY <1>0, <1>2 DEF StartScan, ListingFails, FirstUpdate, scanVars, MapsInv,
                      Phases, TypeOK, TableTypeOK
  <2>2. \A id \in ID : id.start > firstUpdateAt' + BootSkew =>
                         id.start > firstUpdateAt + BootSkew
    BY <1>a, <2>1, ModeAssumption
  <2> QED BY <2>1, <2>2 DEF ExactInv, Settled
<1>3. ASSUME NEW p \in Pids,
             NoProcID(p) \/ SkipIgnored(p) \/ MetricsFail(p) \/ StaticFails(p)
      PROVE  ExactInv'
  BY <1>3 DEF NoProcID, SkipIgnored, MetricsFail, StaticFails, Deliver, ExactInv,
              Settled
<1>4. ASSUME NEW p \in Pids, UpdateKnown(p) PROVE ExactInv'
  <2>1. /\ pc = "scan" /\ pc' = "scan" /\ p \in listed
        /\ IdOf(p) \in ID /\ IdOf(p).pid = p /\ tracked[IdOf(p)] = "tracked"
        /\ proc' = [proc EXCEPT ![IdOf(p)] = KnownEntry(IdOf(p))]
        /\ seen' = seen \cup {IdOf(p)}
        /\ UNCHANGED <<firstUpdateAt, tracked, credit>>
    BY <1>0, <1>4, LiveIdentity DEF UpdateKnown, Deliver
  <2>2. IdOf(p) \notin seen
    BY <1>0, <2>1 DEF MapsInv, MetOnce
  <2>3. ASSUME NEW id \in ID, id # IdOf(p)
        PROVE  proc'[id] = proc[id] /\ (id \in seen' <=> id \in seen)
    BY <1>0, <2>1, <2>3 DEF TypeOK
  <2>4. /\ proc'[IdOf(p)].counts = used[IdOf(p)]
        /\ proc'[IdOf(p)].latest = used[IdOf(p)] - proc[IdOf(p)].counts
        /\ IdOf(p) \in seen'
    BY <1>0, <2>1 DEF TypeOK, KnownEntry
  <2> QED BY <1>0, <2>1, <2>2, <2>3, <2>4 DEF ExactInv, Settled
<1>5. ASSUME NEW p \in Pids, ReadNew(p) PROVE ExactInv'
  <2>1. /\ pc = "scan" /\ pc' = "scan"
        /\ UNCHANGED <<firstUpdateAt, seen, credit>>
        /\ \A id \in ID : tracked'[id] = "tracked" =>
              tracked[id] = "tracked" /\ proc'[id] = proc[id]
    BY <1>0, <1>5, LiveIdentity DEF ReadNew, Deliver, Forgotten, IdOf
  <2> QED BY <2>1 DEF ExactInv, Settled
<1>6. CASE FinishScan
  <2>1. /\ pc = "scan" /\ pc' \in {"adopt", "report"}
        /\ UNCHANGED <<firstUpdateAt, seen, credit>>
        /\ \A id \in ID : tracked'[id] = "tracked" =>
              \/ /\ id \in newProcs
                 /\ proc'[id] = NewEntry(id, NameGroup[info[id].name])
              \/ tracked[id] = "tracked" /\ id \in seen /\ proc'[id] = proc[id]
    BY <1>6 DEF FinishScan, Gone
  <2>2. ASSUME NEW id \in newProcs, NEW group, id.start > firstUpdateAt + BootSkew
        PROVE  credit[id] + NewEntry(id, group).latest = NewEntry(id, group).counts
    <3>1. /\ id \in ID /\ credit[id] = 0 /\ info[id].counts \in Nat
          /\ id.start \in Nat /\ firstUpdateAt \in Nat
      BY <1>0, <1>a, <2>1 DEF MapsInv, NewOnes, CreditInv, TypeOK, Info
    <3>2. StartedSince(id)
      BY <2>2, <3>1, ModeAssumption DEF StartedSince
    <3> QED BY <3>1, <3>2 DEF NewEntry
  <2> QED BY <2>1, <2>2 DEF ExactInv, Settled
<1>7. ASSUME NEW visited \in ID, Adopt(visited) PROVE ExactInv'
  <2>1. /\ pc = "adopt" /\ pc' \in {"adopt", "crashed"}
        /\ UNCHANGED <<firstUpdateAt, seen, credit>>
    BY <1>7 DEF Adopt, VisitDone, AdoptLineage, IgnoreLineage, StackOverflow,
                Visit, historyVars
  <2>2. \A id \in ID : tracked'[id] = "tracked" =>
           \/ tracked[id] = "tracked" /\ proc'[id] = proc[id]
           \/ /\ id \in newProcs /\ tracked[id] = "unknown"
              /\ \E group : proc'[id] = NewEntry(id, group)
    BY <1>7, AdoptsNew DEF Fresh
  <2>3. ASSUME NEW id \in newProcs, tracked[id] = "unknown", NEW group,
               id.start > firstUpdateAt + BootSkew
        PROVE  credit[id] + NewEntry(id, group).latest = NewEntry(id, group).counts
    <3>1. /\ id \in ID /\ credit[id] = 0 /\ info[id].counts \in Nat
          /\ id.start \in Nat /\ firstUpdateAt \in Nat
      BY <1>0, <1>a, <2>3 DEF CreditInv, TypeOK, Info
    <3>2. StartedSince(id)
      BY <2>3, <3>1, ModeAssumption DEF StartedSince
    <3> QED BY <3>1, <3>2 DEF NewEntry
  <2> QED BY <2>1, <2>2, <2>3 DEF ExactInv, Settled
<1>8. CASE FinishAdopt
  BY <1>8 DEF FinishAdopt, ExactInv, Settled, trackedVars, scanVars, historyVars
<1>9. CASE Report
  <2>1. /\ pc = "report" /\ pc' = "idle" /\ seen' = {}
        /\ UNCHANGED <<firstUpdateAt, tracked, proc>>
        /\ \A id \in ID : tracked[id] = "tracked" =>
              credit'[id] = credit[id] + proc[id].latest
    BY <1>9 DEF Report, Reported, trackedVars
  <2> QED BY <2>1 DEF ExactInv, Settled
<1> QED BY <1>1, <1>2, <1>3, <1>4, <1>5, <1>6, <1>7, <1>8, <1>9
        DEF Next, TrackerNext, HandleProc

(* No use is lost either: between scans the reports on a process that      *)
(* started while the tracker ran sum to its last reading, as long as every *)
(* read of a live process succeeds.                                        *)
THEOREM NothingLost ==
    ASSUME MaxFaults = 0
    PROVE  Spec => []CreditExact
<1>1. Init => ExactInv
  BY DEF Init, ExactInv
<1>2. AccountsInv /\ ExactInv /\ [Next]_vars => ExactInv'
  BY ExactStep
<1>3. AccountsInv /\ ExactInv => CreditExact
  BY DEF AccountsInv, MapsInv, Phases, ExactInv, CreditExact, Settled, Reported
<1> QED BY <1>1, <1>2, <1>3, AccountsInvariant, PTL DEF Spec

-----------------------------------------------------------------------------
(* AskedInv, from AccountsInv: who was asked about stays known.            *)

(* The processes that live after a step lived before it, or have just      *)
(* started.                                                                *)
LEMMA StepLives ==
    ASSUME MapsInv, [Next]_vars
    PROVE  /\ \A id \in ID : Live(id)' => Live(id) \/ id.start > clock
           /\ clock <= clock'
<1>0. TableTypeOK /\ clock \in Nat
  BY DEF MapsInv, TypeOK, TableTypeOK
<1>1. CASE UNCHANGED <<clock, table>>
  BY <1>0, <1>1 DEF Live
<1>2. ASSUME NEW p \in Pids, Exit(p)
      PROVE  /\ \A id \in ID : Live(id)' => Live(id)
             /\ clock' = clock
  BY <1>0, <1>2, ExitEffect, ExitLives
<1>3. CASE Environment
  <2>1. clock <= clock'
    BY <1>0, <1>3, ExitEffect, ForkEffect, QuietEffect DEF Environment
  <2> QED BY <1>3, <2>1, EnvironmentLives
<1>4. ASSUME NEW p \in Pids, HandleProc(p)
      PROVE  UNCHANGED <<clock, table>> \/ Exit(p)
  BY <1>4 DEF HandleProc, NoProcID, SkipIgnored, MetricsFail, UpdateKnown, ReadNew,
              StaticFails, tableVars
<1>5. CASE StartScan \/ ListingFails \/ FinishScan \/ FinishAdopt \/ Report
  BY <1>1, <1>5 DEF StartScan, ListingFails, FinishScan, FinishAdopt, Report,
                    tableVars
<1>6. CASE \E id \in ID : Adopt(id)
  BY <1>1, <1>6 DEF Adopt, VisitDone, AdoptLineage, IgnoreLineage, StackOverflow,
                    Visit, tableVars
<1>7. CASE UNCHANGED vars
  BY <1>1, <1>7 DEF vars, tableVars
<1> QED BY <1>0, <1>1, <1>2, <1>3, <1>4, <1>5, <1>6, <1>7 DEF Next, TrackerNext

(* Without -recheck, whom step 2 visits is tracked or ignored by then.     *)
LEMMA VisitSettles ==
    ASSUME ~Recheck, NEW visited \in ID, Adopt(visited), visited \in Fresh,
           pc' = "adopt"
    PROVE  tracked'[visited] # "unknown"
<1>1. visited \in Lineage(visited) /\ \A id \in ID : Ignorable(id)
  BY DEF Lineage, Ignorable
<1>2. ASSUME NEW taken, NEW group, TrackAndIgnore(taken, Lineage(visited) \ taken, group)
      PROVE  tracked'[visited] # "unknown"
  BY <1>1, <1>2 DEF TrackAndIgnore
<1>3. CASE AdoptLineage(visited)
  BY <1>2, <1>3 DEF AdoptLineage
<1>4. CASE IgnoreLineage(visited)
  BY <1>1, <1>4 DEF IgnoreLineage, TrackAndIgnore
<1> QED BY <1>3, <1>4 DEF Adopt, VisitDone, StackOverflow

(* So a process asked about is not new to a later scan.                    *)
LEMMA AskedStep ==
    ASSUME MaxFaults = 0, TrackChildren, ~Recheck,
           AccountsInv, AskedInv, NamerAskedOnce, [Next]_vars
    PROVE  AskedInv' /\ NamerAskedOnce'
<1>0. /\ MapsInv /\ TypeOK /\ TableTypeOK /\ clock \in Nat /\ asked \subseteq ID
      /\ newProcs \subseteq ID
      /\ \A id \in ID : id.start \in Nat
      /\ \A id \in ID : Live(id)' => Live(id) \/ id.start > clock
      /\ clock <= clock' /\ clock' \in Nat
  BY StepLives, MapsStep, IDParts DEF AccountsInv, MapsInv, TypeOK, TableTypeOK
<1>1. \A id \in asked : Live(id)' => Live(id)
  BY <1>0 DEF AskedInv
<1>2. \A id \in ID : tracked[id] # "unknown" /\ Live(id) => tracked'[id] # "unknown"
  BY KnownStep DEF KnownStays
<1>3. CASE pc = "scan" /\ pc' = "scan" /\ UNCHANGED <<newProcs, asked>>
  BY <1>0, <1>1, <1>2, <1>3 DEF AskedInv, NamerAskedOnce
<1>4. CASE Environment \/ UNCHANGED vars
  <2>1. UNCHANGED <<pc, tracked, newProcs, asked, todo>>
    BY <1>4 DEF Environment, vars, trackerVars, trackedVars, scanVars, historyVars
  <2> QED BY <1>0, <1>1, <2>1 DEF AskedInv, NamerAskedOnce
<1>5. CASE StartScan \/ ListingFails
  <2>1. /\ pc = "idle" /\ newProcs = {} /\ newProcs' = {}
        /\ UNCHANGED <<tracked, asked, tableVars>>
    BY <1>0, <1>5 DEF StartScan, ListingFails, MapsInv, Phases, scanVars
  <2> QED BY <1>0, <1>1, <2>1 DEF AskedInv, NamerAskedOnce
<1>6. ASSUME NEW p \in Pids, HandleProc(p), ~ReadNew(p)
      PROVE  AskedInv' /\ NamerAskedOnce'
  BY <1>3, <1>6 DEF HandleProc, NoProcID, SkipIgnored, MetricsFail, UpdateKnown,
                    StaticFails, Deliver
<1>7. ASSUME NEW p \in Pids, ReadNew(p)
      PROVE  AskedInv' /\ NamerAskedOnce'
  <2>1. /\ pc = "scan" /\ pc' = "scan" /\ UNCHANGED asked
        /\ newProcs' = newProcs \cup {IdOf(p)}
        /\ tracked[IdOf(p)] = "unknown" /\ Live(IdOf(p)) /\ IdOf(p) \in ID
    BY <1>0, <1>7, LiveIdentity DEF ReadNew, Deliver
  <2> QED BY <1>0, <1>1, <1>2, <2>1 DEF AskedInv, NamerAskedOnce
<1>8. CASE FinishScan
  <2>1. /\ pc = "scan" /\ pc' = "adopt"
        /\ asked' = asked \cup newProcs
        /\ todo' = newProcs'
        /\ \A id \in newProcs \ newProcs' : tracked'[id] = "tracked"
        /\ UNCHANGED tableVars
    BY <1>0, <1>8 DEF FinishScan
  <2>2. \A id \in newProcs : id.start <= clock
    BY <1>0, <2>1, IDParts DEF MapsInv, NewOnes, PastOnly
  <2> QED BY <1>0, <1>1, <1>2, <2>1, <2>2 DEF AskedInv, NamerAskedOnce
<1>9. ASSUME NEW visited \in ID, Adopt(visited)
      PROVE  AskedInv' /\ NamerAskedOnce'
  <2>1. /\ pc = "adopt" /\ pc' \in {"adopt", "crashed"}
        /\ UNCHANGED <<asked, newProcs>>
        /\ visited \in todo /\ todo' = todo \ {visited}
        /\ todo \subseteq newProcs
    BY <1>0, <1>9 DEF Adopt, VisitDone, AdoptLineage, IgnoreLineage, StackOverflow,
                      Visit, historyVars, TypeOK
  <2>2. pc' = "adopt" /\ Live(visited) => tracked'[visited] # "unknown"
    BY <1>2, <1>9, <2>1, VisitSettles DEF Fresh
  <2> QED BY <1>0, <1>1, <1>2, <2>1, <2>2 DEF AskedInv, NamerAskedOnce
<1>10. CASE FinishAdopt
  BY <1>0, <1>1, <1>10 DEF FinishAdopt, trackedVars, scanVars, historyVars, AskedInv,
                          NamerAskedOnce
<1>11. CASE Report
  BY <1>0, <1>1, <1>11 DEF Report, trackedVars, AskedInv, NamerAskedOnce
<1> QED BY <1>4, <1>5, <1>6, <1>7, <1>8, <1>9, <1>10, <1>11 DEF Next, TrackerNext

(* The namer is asked about a process once in its life, with -children and *)
(* without -recheck, as long as every read of a live process succeeds.     *)
THEOREM AskedOnce ==
    ASSUME MaxFaults = 0, TrackChildren, ~Recheck
    PROVE  Spec => []NamerAskedOnce
<1>1. Init => AskedInv /\ NamerAskedOnce
  BY DEF Init, AskedInv, NamerAskedOnce
<1>2. AccountsInv /\ AskedInv /\ NamerAskedOnce /\ [Next]_vars
         => AskedInv' /\ NamerAskedOnce'
  BY AskedStep
<1> QED BY <1>1, <1>2, AccountsInvariant, PTL DEF Spec
-----------------------------------------------------------------------------
(* MeetInv: who is met in the scan, and under which name.                  *)

(* Names change by Exec only, which counts.                                *)
LEMMA StepNames ==
    ASSUME MapsInv, [Next]_vars
    PROVE  /\ execs <= execs'
           /\ execs' = execs =>
                 \A id \in ID : Live(id) /\ Live(id)' =>
                                   table'[id.pid].name = table[id.pid].name
<1> DEFINE Kept == \A id \in ID : Live(id) /\ Live(id)' =>
                                      table'[id.pid].name = table[id.pid].name
           Named == execs <= execs' /\ (execs' = execs => Kept)
<1> SUFFICES Named
  OBVIOUS
<1>0. /\ TableTypeOK /\ execs \in Nat
      /\ \A id \in ID : id.pid \in Pids /\ id.start \in Nat
  BY IDParts DEF MapsInv, TypeOK, TableTypeOK
<1>1. CASE UNCHANGED <<table, execs>>
  BY <1>0, <1>1
<1>2. ASSUME NEW p \in Pids, Exit(p) PROVE Named
  <2>1. \A q \in Pids : q # p => table'[q].name = table[q].name
    BY <1>0, <1>2 DEF Exit, Orphaned, TableTypeOK, Slot
  <2>2. \A id \in ID : Live(id)' => id.pid # p
    BY <1>0, <1>2, ExitLives
  <2>3. Kept
    BY <1>0, <2>1, <2>2
  <2>4. execs' = execs
    BY <1>2 DEF Exit
  <2> HIDE DEF Kept
  <2> QED BY <1>0, <2>3, <2>4
<1>3. ASSUME NEW parent \in Pids, NEW p \in Pids, NEW name \in Names,
             Fork(parent, p, name)
      PROVE  Named
  <2>1. \A id \in ID : Live(id) => table'[id.pid] = table[id.pid]
    BY <1>0, <1>3 DEF Fork, Alive, Live, TableTypeOK
  <2>2. execs' = execs
    BY <1>3 DEF Fork
  <2>3. Kept
    BY <2>1
  <2> HIDE DEF Kept
  <2> QED BY <1>0, <2>2, <2>3
<1>4. ASSUME NEW p \in Pids, NEW name \in Names, Exec(p, name) PROVE Named
  <2>1. execs' = execs + 1
    BY <1>4 DEF Exec
  <2> HIDE DEF Kept
  <2> QED BY <1>0, <2>1
<1> HIDE DEF Named
<1>5. CASE Tick \/ \E p \in Pids : Work(p)
  BY <1>1, <1>5 DEF Tick, Work
<1>6. CASE Environment
  BY <1>2, <1>3, <1>4, <1>5, <1>6 DEF Environment
<1>7. ASSUME NEW p \in Pids, HandleProc(p) PROVE Named
  <2>1. UNCHANGED <<table, execs>> \/ Exit(p)
    BY <1>7 DEF HandleProc, NoProcID, SkipIgnored, MetricsFail, UpdateKnown, ReadNew,
                StaticFails, tableVars
  <2> QED BY <1>1, <1>2, <2>1
<1>8. CASE StartScan \/ ListingFails \/ FinishScan \/ FinishAdopt \/ Report
  BY <1>1, <1>8 DEF StartScan, ListingFails, FinishScan, FinishAdopt, Report,
                    tableVars
<1>9. CASE \E id \in ID : Adopt(id)
  BY <1>1, <1>9 DEF Adopt, VisitDone, AdoptLineage, IgnoreLineage, StackOverflow,
                    Visit, tableVars
<1>10. CASE UNCHANGED vars
  BY <1>1, <1>10 DEF vars, tableVars
<1> QED BY <1>6, <1>7, <1>8, <1>9, <1>10 DEF Next, TrackerNext

(* What the tracker knows about started in the past.                       *)
LEMMA KnownPast ==
    ASSUME MapsInv
    PROVE  /\ \A id \in ID : tracked[id] # "unknown" => id.start <= clock
           /\ \A id \in newProcs : id \in ID /\ id.start <= clock
<1>1. /\ procIds \in [Pids -> ID \cup {NoID}] /\ newProcs \subseteq ID
      /\ \A id \in ID : id.pid \in Pids /\ id # NoID
  BY IDParts, NoIDIsNoID DEF MapsInv, TypeOK
<1>2. \A p \in Pids : procIds[p] # NoID => procIds[p].start <= clock
  BY DEF MapsInv, PastOnly
<1>3. ASSUME NEW id \in ID, procIds[id.pid] = id PROVE id.start <= clock
  BY <1>1, <1>2, <1>3
<1>4. /\ \A id \in ID : tracked[id] # "unknown" => procIds[id.pid] = id
      /\ \A id \in newProcs : procIds[id.pid] = id
  BY DEF MapsInv, IndexInv, NewOnes
<1> QED BY <1>1, <1>3, <1>4

(* Handling a process leaves the scan's past alone.                        *)
LEMMA MeetHandle ==
    ASSUME MeetInv, NEW p \in Pids, HandleProc(p)
    PROVE  MetInv' /\ NamesInv'
<1>0. /\ MapsInv /\ TypeOK /\ TableTypeOK /\ [Next]_vars
      /\ listing \subseteq ID /\ newProcs \subseteq ID
  BY DEF MeetInv, MapsInv, TypeOK, Next, TrackerNext
<1>1. /\ pc = "scan" /\ pc' = "scan" /\ p \in listed
      /\ UNCHANGED <<before, listing, clock, execs>>
  BY DEF HandleProc, NoProcID, SkipIgnored, MetricsFail, UpdateKnown, ReadNew,
         StaticFails, Deliver, Exit, tableVars
<1>2. \A id \in newProcs : Live(id)' => Live(id)
  BY <1>0, StepLives, KnownPast, IDParts DEF TableTypeOK
<1>3. \A id \in newProcs : Live(id)' => table'[id.pid].name = table[id.pid].name
  BY <1>0, <1>1, <1>2, StepNames
<1>4. CASE ReadNew(p)
  <2>1. /\ newProcs' = newProcs \cup {IdOf(p)} /\ IdOf(p) \in ID
        /\ info' = [info EXCEPT ![IdOf(p)] = Reading(p)]
        /\ seen' = seen /\ IdOf(p).pid = p
        /\ UNCHANGED table
        /\ \A id \in ID : id # procIds[p] => tracked'[id] = tracked[id]
    BY <1>0, <1>4, LiveIdentity DEF ReadNew, Forgotten, IdOf, tableVars
  <2>2. info'[IdOf(p)].name = table[p].name
    BY <1>0, <2>1 DEF TypeOK, Reading
  <2>3. NamesInv'
    BY <1>0, <1>1, <1>2, <1>3, <2>1, <2>2 DEF MeetInv, NamesInv, TypeOK
  <2>4. \A id \in seen : id # procIds[p]
    BY <1>0, <1>1, IDParts DEF MapsInv, MetOnce, PastOnly, TypeOK
  <2>5. MetInv'
    BY <1>0, <1>1, <2>1, <2>4 DEF MeetInv, MetInv, Reported, TypeOK
  <2> QED BY <2>3, <2>5
<1>5. CASE UpdateKnown(p)
  <2>1. /\ UNCHANGED <<tracked, newProcs, info>>
        /\ seen' = seen \cup {IdOf(p)}
        /\ IdOf(p) \in ID /\ tracked[IdOf(p)] = "tracked"
    BY <1>0, <1>5, LiveIdentity DEF UpdateKnown
  <2> QED BY <1>1, <1>2, <1>3, <2>1 DEF MeetInv, MetInv, NamesInv, Reported
<1>6. CASE ~ReadNew(p) /\ ~UpdateKnown(p)
  <2>1. UNCHANGED <<tracked, newProcs, info, seen>>
    BY <1>6 DEF HandleProc, NoProcID, SkipIgnored, MetricsFail, StaticFails
  <2> QED BY <1>1, <1>2, <1>3, <2>1 DEF MeetInv, MetInv, NamesInv, Reported
<1> QED BY <1>4, <1>5, <1>6

(* The scan's past stays the past.                                         *)
LEMMA MeetStep ==
    ASSUME MeetInv, [Next]_vars
    PROVE  MeetInv'
<1>0. /\ MapsInv /\ TypeOK /\ TableTypeOK /\ MetInv /\ NamesInv
      /\ clock \in Nat /\ clock' \in Nat /\ execs \in Nat /\ execs' \in Nat
      /\ before.execs \in Nat
      /\ \A id \in ID : id.start \in Nat
      /\ listing \subseteq ID /\ newProcs \subseteq ID
      /\ MapsInv'
  BY MapsStep, IDParts DEF MeetInv, MapsInv, TypeOK, TableTypeOK
<1>1. /\ execs <= execs' /\ clock <= clock'
      /\ \A id \in newProcs : Live(id)' => Live(id)
      /\ execs' = execs =>
            \A id \in newProcs : Live(id)' =>
               table'[id.pid].name = table[id.pid].name
  BY <1>0, StepNames, StepLives, KnownPast
<1> SUFFICES MetInv' /\ NamesInv'
  BY <1>0 DEF MeetInv
<1>2. ASSUME UNCHANGED <<before, listing, seen, info>>, newProcs' \subseteq newProcs,
             pc # "idle" \/ pc' = "idle"
      PROVE  /\ before'.execs <= execs' /\ \A id \in listing' : id.start <= clock'
             /\ pc' # "idle" /\ execs' = before'.execs =>
                  \A id \in newProcs' : Live(id)' => info'[id].name = table'[id.pid].name
  BY <1>0, <1>1, <1>2 DEF MetInv, NamesInv
<1>3. CASE Environment \/ UNCHANGED vars
  <2>1. UNCHANGED trackerVars
    BY <1>3 DEF Environment, vars
  <2> QED BY <1>0, <1>2, <2>1 DEF trackerVars, trackedVars, scanVars, historyVars,
                            MetInv, NamesInv, Reported
<1>4. CASE StartScan
  <2>1. \A id \in listing' : id.start <= clock'
    <3>1. \A p \in Pids : table[p].start <= clock
      BY <1>0 DEF MapsInv, PastOnly
    <3>2. listing' = {IdOf(p) : p \in LivePids} /\ clock' = clock
      BY <1>4 DEF StartScan, tableVars
    <3>3. \A p \in Pids : IdOf(p).start = table[p].start
      BY DEF IdOf
    <3> QED BY <3>1, <3>2, <3>3 DEF LivePids
  <2>2. newProcs' = {} /\ seen' \subseteq Reported' /\ before'.execs = execs'
    BY <1>0, <1>4 DEF StartScan, MapsInv, Phases, Reported, tableVars
  <2> QED BY <1>0, <1>4, <2>1, <2>2 DEF MetInv, NamesInv
<1>5. CASE ListingFails
  BY <1>0, <1>2, <1>5 DEF ListingFails, scanVars, MetInv, NamesInv, Reported
<1>6. CASE \E p \in Pids : HandleProc(p)
  BY <1>6, MeetHandle
<1>7. CASE FinishScan
  <2>1. /\ pc' # "idle" /\ pc = "scan"
        /\ UNCHANGED <<before, listing, seen, info>>
        /\ newProcs' = {id \in newProcs : info[id].name \notin Matched}
    BY <1>7 DEF FinishScan
  <2>2. seen' \subseteq Reported'
    BY <1>0, <1>7 DEF FinishScan, Gone, MetInv, Reported
  <2> QED BY <1>2, <2>1, <2>2 DEF MetInv, NamesInv
<1>8. ASSUME NEW visited \in ID, Adopt(visited)
      PROVE  MetInv' /\ NamesInv'
  <2>1. /\ pc = "adopt" /\ UNCHANGED <<before, listing, seen, info, newProcs>>
        /\ pc' \in {"adopt", "crashed"}
    BY <1>8 DEF Adopt, VisitDone, AdoptLineage, IgnoreLineage, StackOverflow,
                Visit, historyVars
  <2>2. seen' \subseteq Reported'
    BY <1>0, <1>8, <2>1, AdoptsNew DEF MetInv, Reported, Fresh
  <2> QED BY <1>0, <1>2, <2>1, <2>2 DEF MetInv, NamesInv
<1>9. CASE FinishAdopt
  BY <1>0, <1>2, <1>9 DEF FinishAdopt, trackedVars, scanVars, historyVars, MetInv,
                    NamesInv, Reported
<1>10. CASE Report
  BY <1>0, <1>10 DEF Report, tableVars, MetInv, NamesInv
<1> QED BY <1>3, <1>4, <1>5, <1>6, <1>7, <1>8, <1>9, <1>10 DEF Next, TrackerNext

-----------------------------------------------------------------------------
(* MissedInv.                                                              *)

(* The processes passed over grow by at most the one whose call failed.    *)
LEMMA MissedGrows ==
    ASSUME TypeOK, TypeOK', MissedInv, before' = before, NEW x,
           \/ /\ Missed' \subseteq Missed
              /\ faults' = faults
              /\ cerrs'.Read = 0 => cerrs.Read = 0
           \/ /\ Missed' \subseteq Missed \cup {x}
              /\ faults' = faults + 1
              /\ ~(Faulty \subseteq {"GetMetrics"} /\ cerrs'.Read = 0)
    PROVE  MissedInv'
<1>0. /\ IsFiniteSet(Missed) /\ Cardinality(Missed) \in Nat
      /\ before.faults \in Nat /\ faults \in Nat
  BY FS_CardinalityType DEF MissedInv, TypeOK
<1>1. CASE /\ Missed' \subseteq Missed
           /\ faults' = faults
           /\ cerrs'.Read = 0 => cerrs.Read = 0
  <2>1. IsFiniteSet(Missed') /\ Cardinality(Missed') <= Cardinality(Missed)
    BY <1>0, <1>1, FS_Subset
  <2>2. Cardinality(Missed') \in Nat
    BY <2>1, FS_CardinalityType
  <2> QED BY <1>0, <1>1, <2>1, <2>2 DEF MissedInv
<1>2. CASE /\ Missed' \subseteq Missed \cup {x}
           /\ faults' = faults + 1
           /\ ~(Faulty \subseteq {"GetMetrics"} /\ cerrs'.Read = 0)
  <2>1. /\ IsFiniteSet(Missed \cup {x})
        /\ Cardinality(Missed \cup {x}) <= Cardinality(Missed) + 1
    <3>1. /\ IsFiniteSet(Missed \cup {x})
          /\ \/ Cardinality(Missed \cup {x}) = Cardinality(Missed)
             \/ Cardinality(Missed \cup {x}) = Cardinality(Missed) + 1
      BY <1>0, FS_AddElement, Zenon
    <3> QED BY <1>0, <3>1
  <2>2. /\ IsFiniteSet(Missed')
        /\ Cardinality(Missed') <= Cardinality(Missed \cup {x})
    BY <1>2, <2>1, FS_Subset
  <2>3. Cardinality(Missed') \in Nat /\ Cardinality(Missed \cup {x}) \in Nat
    BY <2>1, <2>2, FS_CardinalityType
  <2> QED BY <1>0, <1>2, <2>1, <2>2, <2>3 DEF MissedInv
<1> QED BY <1>1, <1>2

(* Between two scans nobody is missed.                                     *)
LEMMA NobodyMissed ==
    ASSUME Missed' = {}, before'.faults <= faults', TypeOK'
    PROVE  MissedInv'
<1>1. IsFiniteSet(Missed') /\ Cardinality(Missed') = 0
  BY FS_EmptySet
<1>2. before'.faults \in Nat /\ faults' \in Nat
  BY DEF TypeOK
<1> QED BY <1>1, <1>2 DEF MissedInv

(* Handling a process misses it only if a call on it fails while it lives. *)
LEMMA MissedHandle ==
    ASSUME MeetInv, MissedInv, NEW p \in Pids, HandleProc(p)
    PROVE  MissedInv'
<1>0. /\ MapsInv /\ TypeOK /\ TableTypeOK /\ [Next]_vars /\ listing \subseteq ID
      /\ \A id \in ID : id.start \in Nat
      /\ TypeOK' /\ MetInv
      /\ clock \in Nat
      /\ \A id \in listing : Live(id)' => Live(id)
  <2>1. /\ MapsInv /\ TypeOK /\ TableTypeOK /\ [Next]_vars /\ listing \subseteq ID
        /\ MetInv /\ clock \in Nat
    BY DEF MeetInv, MapsInv, TypeOK, TableTypeOK, Next, TrackerNext
  <2>2. TypeOK'
    BY <2>1, MapsStep DEF MapsInv
  <2>3. \A id \in ID : id.start \in Nat
    BY IDParts
  <2> QED BY <2>1, <2>2, <2>3, StepLives DEF MetInv
<1>1. /\ pc = "scan" /\ pc' = "scan" /\ p \in listed /\ listed' = listed \ {p}
      /\ UNCHANGED <<before, listing>>
  BY DEF HandleProc, NoProcID, SkipIgnored, MetricsFail, UpdateKnown, ReadNew,
         StaticFails, Deliver
<1>2. \A id \in listing : id.pid = p /\ Live(id) => Alive(p) /\ id = IdOf(p)
  BY <1>0, LiveIdentity
<1>3. ASSUME UNCHANGED <<tracked, seen, newProcs>>
      PROVE  \A id \in Missed' :
                \/ id \in Missed
                \/ /\ id = IdOf(p) /\ id \in ID /\ id.pid = p /\ Live(id)'
                   /\ Alive(p) /\ tracked[id] # "ignored"
  BY <1>0, <1>1, <1>2, <1>3 DEF Missed
<1>4. CASE NoProcID(p)
  <2>1. UNCHANGED <<tracked, seen, newProcs, cerrs>>
    BY <1>4 DEF NoProcID
  <2>2. CASE ~Alive(p) /\ faults' = faults
    <3>1. Missed' \subseteq Missed
      BY <1>3, <2>1, <2>2
    <3> QED BY <1>0, <1>1, <2>1, <2>2, <3>1, MissedGrows
  <2>3. CASE Fault("GetProcID")
    <3>1. Missed' \subseteq Missed \cup {IdOf(p)}
      BY <1>3, <2>1
    <3> QED BY <1>0, <1>1, <2>3, <3>1, MissedGrows DEF Fault
  <2> QED BY <1>4, <2>2, <2>3 DEF NoProcID
<1>5. CASE SkipIgnored(p)
  <2>1. Missed' \subseteq Missed
    BY <1>3, <1>5 DEF SkipIgnored
  <2> QED BY <1>0, <1>1, <1>5, <2>1, MissedGrows DEF SkipIgnored
<1>6. CASE MetricsFail(p)
  <2>1. /\ UNCHANGED <<tracked, seen, newProcs>>
        /\ cerrs'.Read = cerrs.Read + 1 /\ cerrs.Read \in Nat
    BY <1>0, <1>6 DEF MetricsFail, TypeOK
  <2>2. CASE Exit(p) /\ faults' = faults
    <3>1. \A id \in ID : Live(id)' => id.pid # p
      BY <1>0, <2>2, ExitLives
    <3>2. Missed' \subseteq Missed
      BY <1>3, <2>1, <3>1
    <3> QED BY <1>0, <1>1, <2>1, <2>2, <3>2, MissedGrows
  <2>3. CASE Fault("GetMetrics")
    <3>1. Missed' \subseteq Missed \cup {IdOf(p)}
      BY <1>3, <2>1
    <3>2. faults' = faults + 1 /\ cerrs'.Read # 0
      BY <2>1, <2>3 DEF Fault
    <3> QED BY <1>0, <1>1, <3>1, <3>2, MissedGrows
  <2> QED BY <1>6, <2>2, <2>3 DEF MetricsFail
<1>7. CASE UpdateKnown(p)
  <2>1. /\ UNCHANGED <<tracked, newProcs, faults, table>>
        /\ cerrs'.Read = cerrs.Read
        /\ seen' = seen \cup {IdOf(p)}
    BY <1>0, <1>7 DEF UpdateKnown, TypeOK, tableVars
  <2>2. Missed' \subseteq Missed
    BY <1>0, <1>1, <1>2, <2>1 DEF Missed
  <2> QED BY <1>0, <1>1, <2>1, <2>2, MissedGrows
<1>8. CASE ReadNew(p)
  <2>1. /\ UNCHANGED <<seen, faults, table>>
        /\ cerrs'.Read = cerrs.Read
        /\ newProcs' = newProcs \cup {IdOf(p)}
        /\ \A id \in ID : id # procIds[p] => tracked'[id] = tracked[id]
    BY <1>0, <1>8 DEF ReadNew, Forgotten, IdOf, TypeOK, tableVars
  <2>2. \A id \in ID : id = procIds[p] => id.pid = p
    BY <1>0, IDParts DEF MapsInv, PastOnly
  <2>3. Missed' \subseteq Missed
    BY <1>0, <1>1, <1>2, <2>1, <2>2 DEF Missed
  <2> QED BY <1>0, <1>1, <2>1, <2>3, MissedGrows
<1>9. CASE StaticFails(p)
  <2>1. /\ UNCHANGED <<tracked, seen, newProcs>>
        /\ cerrs'.Read = cerrs.Read
    BY <1>0, <1>9 DEF StaticFails, TypeOK
  <2>2. CASE Exit(p) /\ faults' = faults
    <3>1. \A id \in ID : Live(id)' => id.pid # p
      BY <1>0, <2>2, ExitLives
    <3>2. Missed' \subseteq Missed
      BY <1>3, <2>1, <3>1
    <3> QED BY <1>0, <1>1, <2>1, <2>2, <3>2, MissedGrows
  <2>3. CASE Fault("GetStatic")
    <3>1. Missed' \subseteq Missed \cup {IdOf(p)}
      BY <1>3, <2>1
    <3> QED BY <1>0, <1>1, <2>3, <3>1, MissedGrows DEF Fault
  <2> QED BY <1>9, <2>2, <2>3 DEF StaticFails
<1> QED BY <1>4, <1>5, <1>6, <1>7, <1>8, <1>9 DEF HandleProc

(* Nobody else is missed by the other steps.                               *)
LEMMA MissedStep ==
    ASSUME MeetInv, MissedInv, [Next]_vars
    PROVE  MissedInv'
<1>0. /\ MapsInv /\ TypeOK /\ TableTypeOK /\ listing \subseteq ID /\ MetInv
      /\ clock \in Nat
      /\ before.faults \in Nat /\ faults \in Nat
      /\ before.faults <= faults
  BY DEF MeetInv, MapsInv, TypeOK, TableTypeOK, MissedInv
<1>a. TypeOK'
  BY <1>0, MapsStep DEF MapsInv
<1>b. \A id \in listing : Live(id)' => Live(id)
  BY <1>0, StepLives, IDParts DEF MetInv
<1>1. CASE Environment \/ UNCHANGED vars
  <2>1. UNCHANGED trackerVars
    BY <1>1 DEF Environment, vars
  <2>2. UNCHANGED <<pc, tracked, listing, listed, seen, newProcs, cerrs, before, faults>>
    BY <2>1 DEF trackerVars, trackedVars, scanVars, historyVars
  <2>3. Missed' \subseteq Missed
    BY <1>b, <2>2 DEF Missed
  <2> QED BY <1>0, <1>a, <2>2, <2>3, MissedGrows
<1>2. CASE StartScan
  <2>1. Missed' = {} /\ before'.faults = faults'
    BY <1>2 DEF StartScan, Missed, LivePids, IdOf
  <2> QED BY <1>0, <1>2, <1>a, <2>1, NobodyMissed DEF StartScan
<1>3. CASE ListingFails
  <2>1. /\ Missed' \subseteq Missed /\ before' = before /\ faults' = faults + 1
        /\ cerrs' = cerrs
    BY <1>3 DEF ListingFails, Missed, scanVars, tableVars, Live
  <2>2. IsFiniteSet(Missed) /\ Cardinality(Missed) \in Nat
    BY FS_CardinalityType DEF MissedInv
  <2>3. /\ IsFiniteSet(Missed') /\ Cardinality(Missed') <= Cardinality(Missed)
        /\ Cardinality(Missed') \in Nat
    BY <2>1, <2>2, FS_Subset, FS_CardinalityType
  <2> QED BY <1>0, <2>1, <2>2, <2>3 DEF MissedInv
<1>4. CASE \E p \in Pids : HandleProc(p)
  BY <1>4, MissedHandle
<1>5. CASE FinishScan
  <2>1. /\ pc = "scan" /\ pc' # "scan" /\ listed = {} /\ listed' = {}
        /\ UNCHANGED <<table, listing, seen, cerrs, before, faults>>
        /\ \A id \in ID : /\ id \in newProcs \ newProcs' => tracked'[id] = "tracked"
                          /\ tracked'[id] = "unknown" =>
                                tracked[id] = "unknown" \/ id \in Gone
    BY <1>5 DEF FinishScan, tableVars
  <2>2. Missed' \subseteq Missed
    BY <1>0, <2>1 DEF Missed, Gone, MetInv, Reported, Live
  <2> QED BY <1>0, <1>a, <2>1, <2>2, MissedGrows
<1>6. ASSUME NEW visited \in ID, Adopt(visited) PROVE MissedInv'
  <2>1. /\ pc = "adopt" /\ pc' \in {"adopt", "crashed"}
        /\ UNCHANGED <<tableVars, listing, listed, seen, newProcs, cerrs, before,
                       faults>>
    BY <1>6 DEF Adopt, VisitDone, AdoptLineage, IgnoreLineage, StackOverflow,
                Visit, historyVars
  <2>2. Missed' \subseteq Missed
    BY <1>0, <1>6, <2>1, AdoptsNew DEF Missed, Fresh, Live, tableVars
  <2> QED BY <1>0, <1>a, <2>1, <2>2, MissedGrows
<1>7. CASE FinishAdopt
  <2>1. /\ UNCHANGED <<table, tracked, listing, listed, seen, newProcs, cerrs, before,
                       faults>>
        /\ pc = "adopt" /\ pc' = "report"
    BY <1>7 DEF FinishAdopt, tableVars, trackedVars, scanVars, historyVars
  <2>2. Missed' \subseteq Missed
    BY <2>1 DEF Missed, Live
  <2> QED BY <1>0, <1>a, <2>1, <2>2, MissedGrows
<1>8. CASE Report
  <2>1. Missed' = {} /\ before'.faults = 0 /\ faults' = faults
    BY <1>8 DEF Report, Missed
  <2> QED BY <1>0, <1>a, <2>1, NobodyMissed
<1> QED BY <1>1, <1>2, <1>3, <1>4, <1>5, <1>6, <1>7, <1>8 DEF Next, TrackerNext

(* IgnoredInv.                                                             *)
LEMMA IgnoredStep ==
    ASSUME MeetInv, IgnoredInv, [Next]_vars
    PROVE  IgnoredInv'
<1>0. /\ MapsInv /\ TypeOK /\ TableTypeOK /\ NamesInv
      /\ clock \in Nat /\ clock' \in Nat /\ clock <= clock'
      /\ \A id \in ID : id.start \in Nat
      /\ MapsInv' /\ newProcs \subseteq ID
  BY MapsStep, StepLives, IDParts DEF MeetInv, MapsInv, TypeOK, TableTypeOK
<1>1. ASSUME MaxExecs = 0
      PROVE  /\ execs = before.execs
             /\ \A id \in ID : Live(id)' /\ Live(id) =>
                                  table'[id.pid].name = table[id.pid].name
  <2>1. execs = 0 /\ execs' = 0 /\ before.execs = 0
    BY <1>0, <1>1 DEF MapsInv, TypeOK, TableTypeOK
  <2> QED BY <1>0, <2>1, StepNames
<1>2. ASSUME \A id \in ID : tracked'[id] # "unknown" =>
                /\ tracked'[id] = tracked[id]
                /\ proc'[id].group = proc[id].group
      PROVE  IgnoredInv'
  <2>1. ASSUME NEW id \in ID, tracked'[id] = "ignored", Recheck
        PROVE  RecheckLimit > 0 /\ clock' - id.start >= RecheckLimit - BootSkew
    BY <1>0, <1>2, <2>1, ModeAssumption DEF IgnoredInv
  <2>2. ASSUME MaxExecs = 0, NEW id \in ID, Live(id)',
               table'[id.pid].name \in Matched, tracked'[id] # "unknown"
        PROVE  /\ tracked'[id] # "ignored"
               /\ tracked'[id] = "tracked" =>
                     proc'[id].group = NameGroup[table'[id.pid].name]
    <3>1. Live(id)
      BY <1>0, <1>2, <2>2, StepLives, KnownPast
    <3> QED BY <1>1, <1>2, <2>2, <3>1 DEF IgnoredInv
  <2> QED BY <2>1, <2>2 DEF IgnoredInv
<1>3. CASE Environment \/ UNCHANGED vars
  BY <1>2, <1>3 DEF Environment, vars, trackerVars, trackedVars
<1>4. CASE StartScan \/ ListingFails \/ FinishAdopt \/ Report
  BY <1>2, <1>4 DEF StartScan, ListingFails, FinishAdopt, Report, trackedVars
<1>5. ASSUME NEW p \in Pids, HandleProc(p) PROVE IgnoredInv'
  <2>1. CASE UpdateKnown(p)
    <3>1. /\ tracked' = tracked /\ IdOf(p) \in ID
          /\ proc' = [proc EXCEPT ![IdOf(p)] = KnownEntry(IdOf(p))]
      BY <1>0, <2>1, LiveIdentity DEF UpdateKnown
    <3>2. \A id \in ID : proc'[id].group = proc[id].group
      BY <1>0, <3>1 DEF KnownEntry, TypeOK
    <3> QED BY <1>2, <3>1, <3>2
  <2>2. CASE ReadNew(p)
    BY <1>2, <2>2 DEF ReadNew, Forgotten, IdOf
  <2> QED BY <1>2, <1>5, <2>1, <2>2 DEF HandleProc, NoProcID, SkipIgnored,
                                    MetricsFail, StaticFails
<1>6. CASE FinishScan
  <2>1. /\ pc = "scan" /\ UNCHANGED tableVars
        /\ \A id \in ID : tracked'[id] # "unknown" =>
              \/ tracked'[id] = tracked[id] /\ proc'[id] = proc[id]
              \/ /\ id \in newProcs /\ tracked'[id] = "tracked"
                 /\ proc'[id].group = NameGroup[info[id].name]
    BY <1>6 DEF FinishScan, Gone, NewEntry
  <2>2. ASSUME MaxExecs = 0, NEW id \in newProcs, Live(id)
        PROVE  info[id].name = table[id.pid].name
    BY <1>0, <1>1, <2>1, <2>2 DEF NamesInv
  <2> QED BY <1>0, <2>1, <2>2 DEF IgnoredInv, tableVars, Live
<1>7. ASSUME NEW visited \in ID, Adopt(visited) PROVE IgnoredInv'
  <2>1. pc = "adopt" /\ UNCHANGED tableVars
    BY <1>7 DEF Adopt, VisitDone, AdoptLineage, IgnoreLineage, StackOverflow, Visit
  <2>2. ASSUME MaxExecs = 0, NEW id \in Fresh, Live(id)
        PROVE  table[id.pid].name \notin Matched
    BY <1>0, <1>1, <2>1, <2>2 DEF NamesInv, Fresh
  <2>3. ASSUME NEW id \in ID, Ignorable(id), Recheck
        PROVE  RecheckLimit > 0 /\ clock - id.start >= RecheckLimit - BootSkew
    BY <1>0, <2>3, ModeAssumption DEF Ignorable
  <2>4. \A id \in ID :
           \/ tracked'[id] = tracked[id] /\ proc'[id] = proc[id]
           \/ id \in Fresh /\ (tracked'[id] = "ignored" => Ignorable(id))
    BY <1>7, AdoptsNew
  <2> QED BY <1>0, <2>1, <2>2, <2>3, <2>4 DEF IgnoredInv, tableVars, Live
<1> QED BY <1>3, <1>4, <1>5, <1>6, <1>7 DEF Next, TrackerNext

(* Whatever fails, whom a scan passed over is no more than the calls that  *)
(* failed, and whom it met it met under the name they still have: handle-  *)
(* Proc gives up the process in hand only (tracker.go 231-302).            *)
THEOREM SearchInvariant == Spec => []SearchInv
<1>1. Init => MeetInv /\ IgnoredInv
  <2>1. Init => MetInv /\ NamesInv
    BY DEF Init, TableInit, MetInv, NamesInv
  <2>2. Init => IgnoredInv
    BY DEF Init, IgnoredInv
  <2> QED BY <2>1, <2>2, MapsInit DEF MeetInv
<1>2. Init => MissedInv
  <2> SUFFICES ASSUME Init PROVE MissedInv
    OBVIOUS
  <2>1. Missed = {} /\ before.faults = 0 /\ faults = 0
    BY DEF Init, Missed
  <2>2. IsFiniteSet(Missed) /\ Cardinality(Missed) = 0
    BY <2>1, FS_EmptySet
  <2> QED BY <2>1, <2>2 DEF MissedInv
<1>3. SearchInv /\ [Next]_vars => SearchInv'
  BY MeetStep, MissedStep, IgnoredStep DEF SearchInv
<1> QED BY <1>1, <1>2, <1>3, PTL DEF Spec, SearchInv

(* A process that lives through a scan under one matched name and is new   *)
(* to it has been tracked by step 1.                                       *)
LEMMA MissingIsMissed ==
    ASSUME MeetInv, pc = "report", execs = before.execs,
           NEW id \in listing, Live(id), table[id.pid].name \in Matched,
           tracked[id] # "ignored", id \notin Reported
    PROVE  id \in Missed
<1>1. id \in ID /\ tracked[id] = "unknown" /\ listed = {}
  BY DEF MeetInv, MapsInv, TypeOK, Phases, Reported
<1>2. id \notin newProcs
  BY DEF MeetInv, NamesInv
<1> QED BY <1>1, <1>2 DEF Missed

(* Whatever fails, a scan misses no more of the live processes of matched  *)
(* names than calls failed during it.                                      *)
THEOREM FailuresHideOneEach == Spec => []FailureHidesOne
<1>1. SearchInv => FailureHidesOne
  <2> SUFFICES ASSUME SearchInv, pc = "report", execs = before.execs
               PROVE  LET missing == {id \in listing \ Reported :
                             /\ Live(id) /\ table[id.pid].name \in Matched
                             /\ tracked[id] # "ignored"}
                      IN  Cardinality(missing) <= faults - before.faults
    BY DEF FailureHidesOne
  <2> DEFINE missing == {id \in listing \ Reported :
                             /\ Live(id) /\ table[id.pid].name \in Matched
                             /\ tracked[id] # "ignored"}
  <2>1. missing \subseteq Missed
    BY MissingIsMissed DEF SearchInv
  <2>2. /\ IsFiniteSet(Missed) /\ Cardinality(Missed) <= faults - before.faults
        /\ Cardinality(Missed) \in Nat
        /\ faults \in Nat /\ before.faults \in Nat
    BY FS_CardinalityType DEF SearchInv, MissedInv, MeetInv, MapsInv, TypeOK
  <2>3. Cardinality(missing) <= Cardinality(Missed) /\ Cardinality(missing) \in Nat
    BY <2>1, <2>2, FS_Subset, FS_CardinalityType
  <2> QED BY <2>2, <2>3
<1> QED BY <1>1, SearchInvariant, PTL

(* If no call but GetMetrics fails on a live process, a scan that counts no *)
(* read error reports every process of a matched name that lived through   *)
(* it and was not ignored for good before it took the name.                *)
THEOREM MatchedAreFound ==
    ASSUME Faulty \subseteq {"GetMetrics"}
    PROVE  Spec => []MatchedAreReported
<1>1. SearchInv => MatchedAreReported
  <2> SUFFICES ASSUME SearchInv, pc = "report", cerrs.Read = 0,
                      execs = before.execs, NEW id \in listing, Live(id),
                      table[id.pid].name \in Matched
               PROVE  \/ /\ id \in Reported
                         /\ MaxExecs = 0 =>
                               proc[id].group = NameGroup[table[id.pid].name]
                      \/ /\ tracked[id] = "ignored"
                         /\ MaxExecs > 0
                         /\ Recheck => /\ RecheckLimit > 0
                                       /\ clock - id.start >= RecheckLimit - BootSkew
    BY DEF MatchedAreReported
  <2>1. Missed = {} /\ id \in ID
    BY DEF SearchInv, MissedInv, MeetInv, MapsInv, TypeOK
  <2>2. id \in Reported \/ tracked[id] = "ignored"
    BY <2>1, MissingIsMissed DEF SearchInv
  <2>3. tracked[id] = "ignored" => MaxExecs > 0
    BY <2>1, TableBounds DEF SearchInv, IgnoredInv
  <2> QED BY <2>1, <2>2, <2>3 DEF SearchInv, IgnoredInv, Reported
<1> QED BY <1>1, SearchInvariant, PTL

-----------------------------------------------------------------------------
(* Lineages.                                                               *)

(* A lineage is made of new processes, starts with its process, and goes   *)
(* on to the parent of each member as long as that is new.                 *)
LEMMA LineageClimbs ==
    ASSUME NEW id \in Fresh
    PROVE  /\ id \in Lineage(id) /\ Lineage(id) \subseteq Fresh
           /\ Climbs(Lineage(id))
BY DEF Lineage, Climbs

(* It is the least set that does.                                          *)
LEMMA LineageIsLeast ==
    ASSUME NEW id, NEW S \in SUBSET Fresh, id \in S, Climbs(S)
    PROVE  Lineage(id) \subseteq S
BY DEF Lineage

(* The lineage of a member is part of it.                                  *)
LEMMA LineageNested ==
    ASSUME NEW id \in Fresh, NEW anc \in Lineage(id)
    PROVE  Lineage(anc) \subseteq Lineage(id)
BY LineageClimbs, LineageIsLeast

(* What lies beyond a process lies beyond its parent.                      *)
LEMMA LineageGoesOn ==
    ASSUME NEW id \in Fresh, NEW anc \in Lineage(id), anc # id
    PROVE  Parent(id) \in Fresh /\ anc \in Lineage(Parent(id))
<1> DEFINE beyond == IF Parent(id) \in Fresh THEN Lineage(Parent(id)) ELSE {}
           S == {id} \cup beyond
<1>1. beyond \subseteq Fresh
  BY LineageClimbs
<1>2. Climbs(S)
  <2> SUFFICES ASSUME NEW x \in S, Parent(x) \in Fresh PROVE Parent(x) \in S
    BY DEF Climbs
  <2>1. CASE x = id
    BY <2>1, LineageClimbs
  <2>2. CASE x \in beyond
    BY <2>2, LineageClimbs DEF Climbs
  <2> QED BY <2>1, <2>2
<1>3. Lineage(id) \subseteq S
  BY <1>1, <1>2, LineageIsLeast
<1> QED BY <1>3

(* The recursion comes to the same top from every process on its way.      *)
LEMMA TopOfAll ==
    ASSUME NEW id \in Fresh, NEW top \in Tops(id), NEW anc \in Lineage(id)
    PROVE  top \in Tops(anc)
<1> DEFINE S == {x \in Lineage(id) : anc \in Lineage(x) \/ x \in Lineage(anc)}
<1>1. /\ anc \in Fresh /\ Lineage(id) \subseteq Fresh /\ Climbs(Lineage(id))
      /\ Lineage(anc) \subseteq Lineage(id) /\ Climbs(Lineage(anc))
      /\ id \in Lineage(id) /\ anc \in Lineage(anc)
  BY LineageClimbs, LineageNested
<1>2. Climbs(S)
  <2> SUFFICES ASSUME NEW x \in S, Parent(x) \in Fresh PROVE Parent(x) \in S
    BY DEF Climbs
  <2>1. Parent(x) \in Lineage(id)
    BY <1>1 DEF Climbs
  <2>2. CASE x \in Lineage(anc)
    BY <1>1, <2>1, <2>2 DEF Climbs
  <2>3. CASE anc \in Lineage(x) /\ x \notin Lineage(anc)
    BY <1>1, <2>1, <2>3, LineageGoesOn
  <2> QED BY <2>2, <2>3
<1>3. Lineage(id) \subseteq S
  BY <1>1, <1>2, LineageIsLeast
<1>4. top \in Lineage(anc)
  <2>1. top \in Fresh /\ Parent(top) \notin Fresh
    BY <1>1 DEF Tops
  <2>2. anc \in Lineage(top) => anc = top
    BY <2>1, LineageGoesOn
  <2> QED BY <1>1, <1>3, <2>2 DEF Tops
<1> QED BY <1>4 DEF Tops

(* And there is one such top at most.                                      *)
LEMMA OneTop ==
    ASSUME NEW id \in Fresh, NEW top \in Tops(id), NEW other \in Tops(id)
    PROVE  top = other
<1>1. other \in Tops(top) /\ top \in Fresh /\ Parent(top) \notin Fresh
  BY TopOfAll, LineageClimbs DEF Tops
<1>2. other \in Lineage(top)
  BY <1>1 DEF Tops
<1> QED BY <1>1, <1>2, LineageGoesOn

(* A tracked process is no new one any more.                               *)
LEMMA HeirsTop ==
    ASSUME NEW id \in Fresh, NEW anc \in Lineage(id), HasTrackedParent(anc)
    PROVE  anc \in Tops(id)
BY DEF HasTrackedParent, Fresh, Tops

(* All of a lineage are heirs, or none is.                                 *)
LEMMA LineageInherits ==
    ASSUME NEW id \in Fresh, NEW top \in Tops(id), NEW anc \in Lineage(id)
    PROVE  Heir(anc) <=> HasTrackedParent(top)
<1>1. top \in Tops(anc) /\ anc \in Fresh
  BY TopOfAll, LineageClimbs
<1>2. top \in Lineage(anc)
  BY <1>1 DEF Tops
<1> QED BY <1>1, <1>2, HeirsTop, OneTop DEF Heir

(* Nobody becomes an heir while new processes are taken that were heirs.   *)
LEMMA HeirsShrink ==
    ASSUME UNCHANGED <<info, procIds>>, Fresh' \subseteq Fresh,
           \A id \in ID : tracked'[id] = "tracked" =>
                             tracked[id] = "tracked" \/ (id \in Fresh /\ Heir(id))
    PROVE  \A id \in Fresh' : Heir(id)' => Heir(id)
<1> SUFFICES ASSUME NEW id \in Fresh', ~Heir(id) PROVE ~Heir(id)'
  OBVIOUS
<1> DEFINE S == {x \in Fresh' : ~Heir(x)}
<1>1. \A x : Parent(x)' = Parent(x)
  BY DEF Parent
<1>2. \A x \in S : Parent(x) \in Fresh => ~Heir(Parent(x))
  <2> SUFFICES ASSUME NEW x \in S, Parent(x) \in Fresh, Heir(Parent(x))
               PROVE  FALSE
    OBVIOUS
  <2>1. x \in Fresh /\ Parent(x) \in Lineage(x)
    BY LineageClimbs DEF Climbs
  <2>2. Lineage(Parent(x)) \subseteq Lineage(x)
    BY <2>1, LineageNested
  <2> QED BY <2>2 DEF Heir
<1>3. \A x \in S : ~HasTrackedParent(x)'
  <2> SUFFICES ASSUME NEW x \in S, HasTrackedParent(x)' PROVE FALSE
    OBVIOUS
  <2>1. Parent(x) \in ID /\ tracked'[Parent(x)] = "tracked"
    BY <1>1 DEF HasTrackedParent
  <2>2. ~HasTrackedParent(x)
    BY LineageClimbs DEF Heir
  <2> QED BY <1>2, <2>1, <2>2 DEF HasTrackedParent
<1>4. \A x \in S : Parent(x)' \in Fresh' => Parent(x)' \in S
  BY <1>1, <1>2
<1>5. Lineage(id)' \subseteq S
  <2>1. PICK T : T = S
    OBVIOUS
  <2>2. T \in SUBSET Fresh' /\ id \in T
    BY <2>1
  <2>3. \A x \in T : Parent(x)' \in Fresh' => Parent(x)' \in T
    BY <1>4, <2>1
  <2> HIDE DEF S
  <2> QED BY <2>1, <2>2, <2>3 DEF Lineage, Climbs
<1> QED BY <1>3, <1>5 DEF Heir

-----------------------------------------------------------------------------
(* AdoptionInv.                                                            *)

(* What step 2 does to the lineage of the process it visits.               *)
LEMMA AdoptEffect ==
    ASSUME NEW visited \in ID, Adopt(visited), pc' = "adopt"
    PROVE  \/ visited \notin Fresh /\ UNCHANGED <<tracked, proc>>
           \/ /\ visited \in Fresh
              /\ \E top \in Tops(visited), taken \in SUBSET Lineage(visited) :
                    LET group == proc[Parent(top)].group IN
                    /\ HasTrackedParent(top)
                    /\ taken = {top} \/ taken = Lineage(visited)
                    /\ group # EmptyName => taken = Lineage(visited)
                    /\ top \in taken
                    /\ TrackAndIgnore(taken, Lineage(visited) \ taken, group)
           \/ /\ visited \in Fresh
              /\ \E top \in Tops(visited) : ~HasTrackedParent(top)
              /\ TrackAndIgnore({}, Lineage(visited), EmptyName)
<1>1. CASE AdoptLineage(visited)
  <2>1. PICK top \in Tops(visited) :
           LET group == proc[Parent(top)].group
               taken == IF group = EmptyName THEN {top} ELSE Lineage(visited)
           IN  /\ HasTrackedParent(top)
               /\ TrackAndIgnore(taken, Lineage(visited) \ taken, group)
    BY <1>1 DEF AdoptLineage
  <2> DEFINE taken == IF proc[Parent(top)].group = EmptyName THEN {top}
                      ELSE Lineage(visited)
  <2>2. top \in Lineage(visited) /\ visited \in Fresh
    BY <1>1 DEF Tops, AdoptLineage
  <2>3. taken \in SUBSET Lineage(visited) /\ top \in taken
    BY <2>2
  <2> QED BY <2>1, <2>2, <2>3
<1>2. CASE IgnoreLineage(visited)
  BY <1>2 DEF IgnoreLineage
<1> QED BY <1>1, <1>2 DEF Adopt, VisitDone, StackOverflow

(* Step 2 leaves alone whoever is tracked already.                         *)
LEMMA AdoptKeeps ==
    ASSUME newProcs \subseteq ID, NEW visited \in ID, Adopt(visited)
    PROVE  /\ UNCHANGED <<tableVars, procIds, newProcs, info, listing, seen>>
           /\ pc = "adopt" /\ pc' \in {"adopt", "crashed"}
           /\ visited \in todo /\ todo' = todo \ {visited}
           /\ \A id : Parent(id)' = Parent(id)
           /\ \A id \in ID : tracked[id] = "tracked" =>
                 tracked'[id] = "tracked" /\ proc'[id] = proc[id]
           /\ \A id \in ID : HasTrackedParent(id) =>
                 HasTrackedParent(id)' /\ proc'[Parent(id)] = proc[Parent(id)]
           /\ Fresh' \subseteq Fresh
<1>1. /\ UNCHANGED <<tableVars, procIds, newProcs, info, listing, seen>>
      /\ pc = "adopt" /\ pc' \in {"adopt", "crashed"}
      /\ visited \in todo /\ todo' = todo \ {visited}
  BY DEF Adopt, VisitDone, AdoptLineage, IgnoreLineage, StackOverflow, Visit
<1>2. \A id : Parent(id)' = Parent(id)
  BY <1>1 DEF Parent
<1>3. \A id \in ID : tracked[id] = "tracked" =>
         tracked'[id] = "tracked" /\ proc'[id] = proc[id]
  BY AdoptsNew DEF Fresh
<1>4. Fresh' \subseteq Fresh
  <2> SUFFICES ASSUME NEW id \in newProcs, tracked'[id] = "unknown"
               PROVE  tracked[id] = "unknown"
    BY <1>1 DEF Fresh
  <2> QED BY AdoptsNew
<1> QED BY <1>1, <1>2, <1>3, <1>4 DEF HasTrackedParent

(* Whoever is taken has a tracked parent by then, in the same group.       *)
LEMMA TakenAdopt ==
    ASSUME MapsInv, TakenInv, NEW visited \in ID, Adopt(visited), pc' = "adopt"
    PROVE  TakenInv'
<1>0. newProcs \subseteq ID /\ Fresh \subseteq ID
  BY DEF MapsInv, TypeOK, Fresh
<1> SUFFICES ASSUME NEW id \in newProcs, tracked'[id] = "tracked"
             PROVE  HasTrackedParent(id)' /\ proc'[id].group = proc'[Parent(id)].group
  BY <1>0, AdoptKeeps DEF TakenInv, Reported
<1>1. CASE tracked[id] = "tracked"
  <2>1. HasTrackedParent(id) /\ proc[id].group = proc[Parent(id)].group
    BY <1>0, <1>1, AdoptKeeps DEF TakenInv, Reported
  <2> QED BY <1>0, <1>1, <2>1, AdoptKeeps
<1>2. CASE tracked[id] # "tracked"
  <2>1. PICK top \in Tops(visited), taken \in SUBSET Lineage(visited) :
           /\ visited \in Fresh
           /\ HasTrackedParent(top)
           /\ taken = {top} \/ taken = Lineage(visited)
           /\ top \in taken
           /\ TrackAndIgnore(taken, Lineage(visited) \ taken, proc[Parent(top)].group)
    BY <1>0, <1>2, AdoptEffect DEF TrackAndIgnore
  <2>2. /\ id \in taken
        /\ \A new \in taken : /\ tracked'[new] = "tracked"
                              /\ proc'[new].group = proc[Parent(top)].group
    <3>1. taken \subseteq ID
      BY <1>0, <2>1, LineageClimbs
    <3> QED BY <1>0, <1>2, <2>1, <3>1 DEF TrackAndIgnore, NewEntry
  <2>3. CASE Parent(id) \in Fresh
    <3>1. Parent(id) \in Lineage(visited) /\ id # top
      BY <2>1, <2>2, <2>3, LineageClimbs DEF Climbs, Tops
    <3>2. Parent(id) \in taken
      BY <2>1, <2>2, <3>1
    <3> QED BY <1>0, <2>2, <2>3, <3>2, AdoptKeeps DEF HasTrackedParent
  <2>4. CASE Parent(id) \notin Fresh
    <3>1. id = top
      BY <2>1, <2>2, <2>4, OneTop DEF Tops
    <3> QED BY <1>0, <2>1, <2>2, <3>1, AdoptKeeps
  <2> QED BY <2>3, <2>4
<1> QED BY <1>1, <1>2

(* Whoever is taken was an heir, and whoever is passed over was not.       *)
LEMMA LeftAdopt ==
    ASSUME MapsInv, LeftInv, NamedInv, NEW visited \in ID, Adopt(visited),
           pc' = "adopt"
    PROVE  LeftInv'
<1>0. newProcs \subseteq ID /\ Fresh \subseteq ID /\ pc = "adopt"
  BY AdoptKeeps DEF MapsInv, TypeOK, Fresh
<1>1. \A id \in ID : /\ tracked'[id] = "tracked" =>
                           tracked[id] = "tracked" \/ (id \in Fresh /\ Heir(id))
                     /\ tracked'[id] = "ignored" =>
                           tracked[id] = "ignored" \/ (/\ id \in Lineage(visited)
                                                       /\ visited \in Fresh
                                                       /\ ~Heir(visited) /\ ~Heir(id))
  <2> SUFFICES ASSUME NEW id \in ID
               PROVE  /\ tracked'[id] = "tracked" =>
                            tracked[id] = "tracked" \/ (id \in Fresh /\ Heir(id))
                      /\ tracked'[id] = "ignored" =>
                            tracked[id] = "ignored" \/ (/\ id \in Lineage(visited)
                                                        /\ visited \in Fresh
                                                        /\ ~Heir(visited) /\ ~Heir(id))
    OBVIOUS
  <2>1. CASE UNCHANGED <<tracked, proc>>
    BY <2>1
  <2>2. ASSUME visited \in Fresh, NEW top \in Tops(visited), HasTrackedParent(top),
               TrackAndIgnore(Lineage(visited), {}, proc[Parent(top)].group)
        PROVE  /\ tracked'[id] = "tracked" =>
                     tracked[id] = "tracked" \/ (id \in Fresh /\ Heir(id))
               /\ tracked'[id] = "ignored" => tracked[id] = "ignored"
    BY <2>2, LineageInherits, LineageClimbs DEF TrackAndIgnore
  <2>3. ASSUME visited \in Fresh, NEW top \in Tops(visited), ~HasTrackedParent(top),
               TrackAndIgnore({}, Lineage(visited), EmptyName)
        PROVE  /\ tracked'[id] = "tracked" => tracked[id] = "tracked"
               /\ tracked'[id] = "ignored" =>
                     tracked[id] = "ignored" \/ (/\ id \in Lineage(visited)
                                                 /\ ~Heir(visited) /\ ~Heir(id))
    BY <2>3, LineageInherits, LineageClimbs DEF TrackAndIgnore
  <2>4. \A top : HasTrackedParent(top) => proc[Parent(top)].group # EmptyName
    BY DEF NamedInv, HasTrackedParent, Reported
  <2>5. Lineage(visited) \ Lineage(visited) = {}
    OBVIOUS
  <2> QED BY <2>1, <2>2, <2>3, <2>4, <2>5, AdoptEffect
<1>2. \A id \in Fresh' : Heir(id)' => Heir(id)
  <2>1. /\ UNCHANGED <<info, procIds>> /\ Fresh' \subseteq Fresh
        /\ \A id \in ID : tracked'[id] = "tracked" =>
              tracked[id] = "tracked" \/ (id \in Fresh /\ Heir(id))
    BY <1>0, <1>1, AdoptKeeps
  <2> QED BY <2>1, HeirsShrink
<1>3. ASSUME NEW id \in newProcs, tracked'[id] = "ignored"
      PROVE  ~HasTrackedParent(id)' /\ (Parent(id) \in Fresh' => ~Heir(Parent(id))')
  <2>1. ~HasTrackedParent(id) /\ (Parent(id) \in Fresh => ~Heir(Parent(id)))
    <3>1. CASE tracked[id] = "ignored"
      BY <1>0, <3>1 DEF LeftInv
    <3>2. CASE id \in Lineage(visited) /\ visited \in Fresh /\ ~Heir(id)
      <4>1. id \in Fresh /\ id \in Lineage(id)
        BY <3>2, LineageClimbs
      <4>2. ASSUME Parent(id) \in Fresh
            PROVE  Lineage(Parent(id)) \subseteq Lineage(id)
        BY <4>1, <4>2, LineageClimbs, LineageNested DEF Climbs
      <4> QED BY <3>2, <4>1, <4>2 DEF Heir
    <3> QED BY <1>0, <1>1, <1>3, <3>1, <3>2
  <2>2. /\ Parent(id)' = Parent(id) /\ Fresh' \subseteq Fresh
    BY <1>0, AdoptKeeps
  <2>3. ~HasTrackedParent(id)'
    BY <1>1, <2>1, <2>2 DEF HasTrackedParent
  <2>4. Parent(id) \in Fresh' => ~Heir(Parent(id))'
    <3> SUFFICES ASSUME NEW parent \in Fresh', parent = Parent(id)
                 PROVE  ~Heir(parent)'
      BY <2>2
    <3> QED BY <1>2, <2>1, <2>2
  <2> QED BY <2>3, <2>4
<1>4. ASSUME TrackChildren, NEW id \in Fresh', id \notin todo'
      PROVE  ~Heir(id)'
  <2>1. CASE id # visited
    BY <1>0, <1>2, <1>4, <2>1, AdoptKeeps DEF LeftInv
  <2>2. CASE id = visited
    <3>1. id \in Fresh /\ tracked'[id] = "unknown"
      BY <1>0, <1>4, AdoptKeeps DEF Fresh
    <3>2. ~Heir(id)
      BY <2>2, <3>1, AdoptEffect, LineageInherits, LineageClimbs
         DEF TrackAndIgnore, NamedInv, HasTrackedParent, Reported
    <3> QED BY <1>2, <1>4, <3>2
  <2> QED BY <2>1, <2>2
<1> QED BY <1>0, <1>3, <1>4, AdoptKeeps DEF LeftInv

(* A name is passed on with every adoption.                                *)
LEMMA NamedAdopt ==
    ASSUME MapsInv, NamedInv, NEW visited \in ID, Adopt(visited)
    PROVE  NamedInv'
<1>0. newProcs \subseteq ID /\ Fresh \subseteq ID
  BY DEF MapsInv, TypeOK, Fresh
<1>1. CASE UNCHANGED <<tracked, proc>>
  BY <1>1 DEF NamedInv, Reported
<1>2. ASSUME NEW top \in Tops(visited), NEW taken, HasTrackedParent(top),
             NEW left, TrackAndIgnore(taken, left, proc[Parent(top)].group)
      PROVE  NamedInv'
  <2>1. proc[Parent(top)].group # EmptyName
    BY <1>2 DEF NamedInv, HasTrackedParent, Reported
  <2>2. \A id \in ID : \/ tracked'[id] # "tracked"
                       \/ tracked'[id] = tracked[id] /\ proc'[id] = proc[id]
                       \/ proc'[id].group = proc[Parent(top)].group
    BY <1>2 DEF TrackAndIgnore, NewEntry
  <2> QED BY <2>1, <2>2 DEF NamedInv, Reported
<1>3. ASSUME TrackAndIgnore({}, Lineage(visited), EmptyName)
      PROVE  NamedInv'
  BY <1>3 DEF TrackAndIgnore, NamedInv, Reported
<1>4. CASE pc' = "adopt"
  BY <1>0, <1>1, <1>2, <1>3, <1>4, AdoptEffect
<1>5. CASE pc' = "crashed"
  <2>1. pc = "adopt" /\ (AdoptLineage(visited) \/ IgnoreLineage(visited) => pc' = pc)
    BY <1>0, AdoptKeeps DEF AdoptLineage, IgnoreLineage
  <2> QED BY <1>1, <1>5, <2>1 DEF Adopt, VisitDone, StackOverflow
<1> QED BY <1>0, <1>4, <1>5, AdoptKeeps

(* Climbing leads where it led as long as nothing is learnt.               *)
LEMMA HeirsStay ==
    ASSUME UNCHANGED <<info, procIds, tracked, newProcs>>
    PROVE  /\ Fresh' = Fresh
           /\ \A id : Parent(id)' = Parent(id)
           /\ \A id : HasTrackedParent(id)' = HasTrackedParent(id)
           /\ \A id \in Fresh : Heir(id)' => Heir(id)
<1>1. /\ Fresh' = Fresh
      /\ \A id : Parent(id)' = Parent(id)
      /\ \A id : HasTrackedParent(id)' = HasTrackedParent(id)
  BY DEF Fresh, Parent, HasTrackedParent
<1>2. \A id \in Fresh' : Heir(id)' => Heir(id)
  BY <1>1, HeirsShrink
<1> QED BY <1>1, <1>2

(* Before the first scan nobody is adopted.                                *)
LEMMA AdoptionInit == Init => AdoptionInv
BY MapsInit DEF Init, AdoptionInv, TakenInv, LeftInv, NamedInv, Reported

(* The steps that are neither a process handled, the end of the loop, a    *)
(* visit of step 2 nor the report.                                         *)
Aside == Environment \/ UNCHANGED vars \/ StartScan \/ ListingFails \/ FinishAdopt

(* They leave alone what the tracker knows.                                *)
LEMMA AsideEffect ==
    ASSUME Aside
    PROVE  /\ UNCHANGED <<info, procIds, tracked, proc, newProcs, todo>>
           /\ pc' \in {pc, "idle", "scan"} \/ (pc = "adopt" /\ pc' = "report")
BY DEF Aside, Environment, vars, StartScan, ListingFails, FinishAdopt, trackerVars,
       trackedVars, scanVars

(* TakenInv holds whatever the groups are named.                           *)
LEMMA TakenStep ==
    ASSUME MapsInv, TakenInv, [Next]_vars
    PROVE  TakenInv'
<1>0. newProcs \subseteq ID
  BY DEF MapsInv, TypeOK
<1>1. CASE Aside
  BY <1>0, <1>1, AsideEffect, HeirsStay DEF TakenInv, Reported
<1>2. CASE \E p \in Pids : HandleProc(p)
  BY <1>2 DEF HandleProc, NoProcID, SkipIgnored, MetricsFail, UpdateKnown, ReadNew,
              StaticFails, Deliver, TakenInv
<1>3. CASE FinishScan
  BY <1>0, <1>3 DEF FinishScan, MapsInv, NewOnes, Gone, TakenInv, Reported
<1>4. ASSUME NEW visited \in ID, Adopt(visited)
      PROVE  TakenInv'
  <2>1. CASE pc' = "adopt"
    BY <1>4, <2>1, TakenAdopt
  <2>2. CASE pc' = "crashed"
    BY <2>2 DEF TakenInv
  <2> QED BY <1>0, <1>4, <2>1, <2>2, AdoptKeeps
<1>5. CASE Report
  BY <1>5 DEF Report, TakenInv
<1> QED BY <1>1, <1>2, <1>3, <1>4, <1>5 DEF Next, TrackerNext, Aside

(* Nor do they make heirs of those left.                                   *)
LEMMA LeftAside ==
    ASSUME MapsInv, LeftInv, Aside
    PROVE  LeftInv'
<1>1. /\ UNCHANGED <<info, procIds, tracked, proc, newProcs, todo>>
      /\ pc' \in {pc, "idle", "scan"} \/ (pc = "adopt" /\ pc' = "report")
  BY AsideEffect
<1>2. CASE pc' \in {"idle", "scan"}
  BY <1>2 DEF LeftInv
<1>3. CASE pc' \notin {"idle", "scan"}
  <2>1. pc' \in {"adopt", "report"} => pc \in {"adopt", "report"}
    BY <1>1, <1>3
  <2>2. ASSUME pc \in {"adopt", "report"}, NEW id \in newProcs,
               tracked[id] = "ignored"
        PROVE  ~HasTrackedParent(id)' /\ (Parent(id) \in Fresh' => ~Heir(Parent(id))')
    <3>1. ~HasTrackedParent(id) /\ (Parent(id) \in Fresh => ~Heir(Parent(id)))
      BY <2>2 DEF LeftInv
    <3>2. Parent(id)' = Parent(id) /\ Fresh' = Fresh
      BY <1>1, HeirsStay
    <3>3. ASSUME NEW parent \in Fresh, parent = Parent(id) PROVE ~Heir(parent)'
      BY <1>1, <3>1, <3>3, HeirsStay
    <3> QED BY <1>1, <3>1, <3>2, <3>3, HeirsStay
  <2>3. ASSUME pc \in {"adopt", "report"}, TrackChildren, NEW id \in Fresh', id \notin todo'
        PROVE  ~Heir(id)'
    BY <1>1, <2>3, HeirsStay DEF LeftInv
  <2>4. ASSUME NEW id \in newProcs
        PROVE  (Parent(id) \in Fresh)' <=> Parent(id) \in Fresh'
    BY <1>1, HeirsStay
  <2> QED BY <1>1, <2>1, <2>2, <2>3, <2>4 DEF LeftInv
<1> QED BY <1>2, <1>3

(* With all groups named, every step keeps AdoptionInv.                    *)
LEMMA AdoptionStep ==
    ASSUME EmptyName \notin Groups, AdoptionInv, [Next]_vars
    PROVE  AdoptionInv'
<1>0. /\ MapsInv /\ TakenInv /\ LeftInv /\ NamedInv /\ MapsInv' /\ TakenInv'
      /\ newProcs \subseteq ID
  BY MapsStep, TakenStep DEF AdoptionInv, MapsInv, TypeOK
<1> SUFFICES LeftInv' /\ NamedInv'
  BY <1>0 DEF AdoptionInv
<1>1. CASE Aside
  BY <1>0, <1>1, LeftAside, AsideEffect DEF NamedInv, Reported
<1>2. ASSUME NEW p \in Pids, HandleProc(p)
      PROVE  LeftInv' /\ NamedInv'
  <2>1. pc' = "scan"
    BY <1>2 DEF HandleProc, NoProcID, SkipIgnored, MetricsFail, UpdateKnown, ReadNew,
                StaticFails, Deliver
  <2>2. \A id \in ID : tracked'[id] = "tracked" =>
           tracked[id] = "tracked" /\ proc'[id].group = proc[id].group
    <3>1. CASE UpdateKnown(p)
      <4>1. IdOf(p) \in ID /\ proc \in [ID -> Entry]
        BY <1>0, <3>1, LiveIdentity DEF MapsInv, TypeOK, UpdateKnown
      <4> QED BY <3>1, <4>1 DEF UpdateKnown, KnownEntry
    <3>2. CASE ReadNew(p)
      BY <3>2 DEF ReadNew, Forgotten, IdOf
    <3> QED BY <1>2, <3>1, <3>2 DEF HandleProc, NoProcID, SkipIgnored, MetricsFail,
                                    StaticFails
  <2> QED BY <1>0, <2>1, <2>2 DEF LeftInv, NamedInv, Reported
<1>3. CASE FinishScan
  <2>1. \A id \in newProcs' : id \in newProcs /\ tracked'[id] = "unknown"
    BY <1>0, <1>3 DEF FinishScan, MapsInv, NewOnes, Gone
  <2>2. LeftInv'
    BY <1>3, <2>1 DEF LeftInv, Fresh, FinishScan
  <2>3. ASSUME NEW id \in ID, tracked'[id] = "tracked"
        PROVE  proc'[id].group # EmptyName
    <3>1. CASE id \in newProcs /\ info[id].name \in Matched
      <4>1. proc'[id].group = NameGroup[info[id].name]
        BY <1>3, <3>1 DEF FinishScan, NewEntry
      <4> QED BY <3>1, <4>1, GroupsAssumption
    <3>2. CASE ~(id \in newProcs /\ info[id].name \in Matched)
      BY <1>0, <1>3, <2>3, <3>2 DEF FinishScan, NamedInv, Reported
    <3> QED BY <3>1, <3>2
  <2> QED BY <2>2, <2>3 DEF NamedInv, Reported
<1>4. ASSUME NEW visited \in ID, Adopt(visited)
      PROVE  LeftInv' /\ NamedInv'
  <2>1. CASE pc' = "adopt"
    BY <1>0, <1>4, <2>1, LeftAdopt, NamedAdopt
  <2>2. CASE pc' = "crashed"
    BY <1>0, <1>4, <2>2, NamedAdopt DEF LeftInv
  <2> QED BY <1>0, <1>4, <2>1, <2>2, AdoptKeeps
<1>5. CASE Report
  <2>1. pc' = "idle" /\ UNCHANGED <<tracked, proc>>
    BY <1>5 DEF Report, trackedVars
  <2> QED BY <1>0, <2>1 DEF LeftInv, NamedInv, Reported
<1> QED BY <1>1, <1>2, <1>3, <1>4, <1>5 DEF Next, TrackerNext, Aside

(* If no group is named "", step 2 leaves each unmatched new process       *)
(* tracked exactly if its parent is tracked, and in the same group: in     *)
(* whatever order the map of new processes is walked.                      *)
THEOREM ChildrenInherit ==
    ASSUME EmptyName \notin Groups
    PROVE  Spec => []AdoptionIsInheritance
<1>1. AdoptionInv => AdoptionIsInheritance
  <2> SUFFICES ASSUME AdoptionInv, pc = "report", TrackChildren, NEW id \in newProcs
               PROVE  IF HasTrackedParent(id)
                      THEN id \in Reported /\ proc[id].group = proc[Parent(id)].group
                      ELSE id \notin Reported
    BY DEF AdoptionIsInheritance
  <2>1. id \in ID /\ todo = {} /\ tracked[id] \in {"unknown", "ignored", "tracked"}
    BY DEF AdoptionInv, MapsInv, TypeOK, Phases
  <2>2. CASE tracked[id] = "tracked"
    BY <2>1, <2>2 DEF AdoptionInv, TakenInv, Reported
  <2>3. CASE tracked[id] = "ignored"
    BY <2>3 DEF AdoptionInv, LeftInv, Reported
  <2>4. CASE tracked[id] = "unknown"
    <3>1. id \in Fresh /\ ~Heir(id)
      BY <2>1, <2>4 DEF AdoptionInv, LeftInv, Fresh
    <3>2. ~HasTrackedParent(id)
      BY <3>1, LineageClimbs DEF Heir
    <3> QED BY <2>4, <3>2 DEF Reported
  <2> QED BY <2>1, <2>2, <2>3, <2>4
<1>2. Spec => []AdoptionInv
  BY AdoptionInit, AdoptionStep, PTL DEF Spec
<1> QED BY <1>1, <1>2, PTL

-----------------------------------------------------------------------------
(* AncestryInv: without reuse within a scan, ancestry is older and older.  *)

(* The process table stays a tree.                                         *)
LEMMA TreeStep ==
    ASSUME MapsInv, TableIsTree, [Next]_vars
    PROVE  TableIsTree'
<1>0. /\ TableTypeOK /\ clock \in Nat
      /\ \A p \in Pids : /\ table[p].start <= clock /\ table[p].start \in Int
                         /\ table[p].ppid \in Pids \cup {NoPid}
  BY DEF MapsInv, TypeOK, TableTypeOK, PastOnly, Slot
<1>1. CASE UNCHANGED table
  BY <1>1 DEF TableIsTree, Alive, LivePids
<1>2. ASSUME NEW p \in Pids, Exit(p) PROVE TableIsTree'
  <2>1. /\ p # InitPid
        /\ \A q \in Pids : table'[q] = IF q = p THEN Free
                                       ELSE IF Alive(q) /\ table[q].ppid = p
                                            THEN [table[q] EXCEPT !.ppid = InitPid]
                                       ELSE table[q]
    BY <1>2 DEF Exit, Orphaned
  <2>2. /\ table'[InitPid] = table[InitPid]
        /\ \A q \in Pids \ {p} : table'[q].start = table[q].start
        /\ table'[p].start = -1
    <3>1. table[InitPid].ppid # p
      BY PidsAssumption DEF TableIsTree, NoPid
    <3>2. table'[InitPid] = table[InitPid]
      BY <2>1, <3>1, PidsAssumption
    <3> QED BY <1>0, <1>2, <3>2, ExitEffect
  <2>3. \A q \in Pids \ {p} : Alive(q) =>
           table'[q].ppid = IF table[q].ppid = p THEN InitPid ELSE table[q].ppid
    BY <1>0, <2>1 DEF TableTypeOK, Slot
  <2> QED BY <1>0, <2>1, <2>2, <2>3, PidsAssumption
          DEF TableIsTree, LivePids, Alive, NoPid
<1>3. ASSUME NEW parent \in Pids, NEW p \in Pids, NEW name \in Names,
             Fork(parent, p, name)
      PROVE  TableIsTree'
  <2>1. /\ Alive(parent) /\ ~Alive(p) /\ p # InitPid
        /\ table' = [table EXCEPT ![p] =
                        [start |-> clock + 1, ppid |-> parent, name |-> name]]
    BY <1>3 DEF Fork, TableIsTree, Alive
  <2>2. /\ table'[p].start = clock + 1 /\ table'[p].ppid = parent
        /\ \A q \in Pids \ {p} : table'[q] = table[q]
    BY <1>0, <2>1 DEF TableTypeOK
  <2> QED BY <1>0, <2>1, <2>2 DEF TableIsTree, LivePids, Alive
<1>4. ASSUME NEW p \in Pids, NEW name \in Names, Exec(p, name)
      PROVE  TableIsTree'
  <2>1. \A q \in Pids : /\ table'[q].start = table[q].start
                        /\ table'[q].ppid = table[q].ppid
    BY <1>0, <1>4 DEF Exec, TableTypeOK, Slot
  <2> QED BY <1>0, <2>1, PidsAssumption DEF TableIsTree, LivePids, Alive
<1>5. CASE Environment
  BY <1>1, <1>2, <1>3, <1>4, <1>5 DEF Environment, Tick, Work
<1>6. ASSUME NEW p \in Pids, HandleProc(p) PROVE TableIsTree'
  BY <1>1, <1>2, <1>6 DEF HandleProc, NoProcID, SkipIgnored, MetricsFail,
              UpdateKnown, ReadNew, StaticFails, tableVars
<1>7. ASSUME NEW visited \in ID, Adopt(visited) PROVE TableIsTree'
  BY <1>1, <1>7 DEF Adopt, VisitDone, AdoptLineage, IgnoreLineage, StackOverflow,
                    Visit, tableVars
<1> QED BY <1>1, <1>5, <1>6, <1>7
        DEF Next, TrackerNext, StartScan, ListingFails, FinishScan, FinishAdopt,
            Report, vars, tableVars

(* The parent read with a new process is the one of the listing.           *)
LEMMA ParentsStep ==
    ASSUME NoGhostsInv, TableIsTree, ParentsInv, [Next]_vars
    PROVE  ParentsInv'
<1>0. /\ MapsInv /\ TypeOK /\ TableTypeOK /\ ListedStay /\ listing \subseteq ID
      /\ newProcs \subseteq ID
  BY DEF NoGhostsInv, MapsInv, TypeOK
<1>1. CASE UNCHANGED <<listing, info>> /\ newProcs' \subseteq newProcs
  BY <1>1 DEF ParentsInv
<1>2. ASSUME NEW p \in Pids, ReadNew(p) PROVE ParentsInv'
  <2>1. /\ Alive(p) /\ IdOf(p) \in ID /\ listing' = listing
        /\ newProcs' = newProcs \cup {IdOf(p)}
        /\ info'[IdOf(p)] = Reading(p)
        /\ \A id \in newProcs : id # IdOf(p) => info'[id] = info[id]
    BY <1>0, <1>2, LiveIdentity DEF ReadNew, Deliver, TypeOK
  <2>2. ASSUME table[p].ppid \in Pids
        PROVE  LET parent == Reading(p).parent IN
               /\ parent \in ID /\ parent.start < IdOf(p).start
               /\ \A other \in listing : other.pid = table[p].ppid => other = parent
    <3>1. /\ Alive(table[p].ppid) /\ Reading(p).parent = IdOf(table[p].ppid)
          /\ table[table[p].ppid].start < table[p].start
      BY <2>1, <2>2 DEF TableIsTree, LivePids, Reading, ParentOf
    <3>2. Reading(p).parent \in ID /\ Reading(p).parent.start < IdOf(p).start
      BY <1>0, <2>2, <3>1, LiveIdentity DEF IdOf
    <3>3. ASSUME NEW other \in listing, other.pid = table[p].ppid
          PROVE  other = IdOf(table[p].ppid)
      BY <1>0, <2>2, <3>1, <3>3, LiveIdentity DEF ListedStay
    <3> QED BY <3>1, <3>2, <3>3
  <2>3. Reading(p).ppid = table[p].ppid
    BY DEF Reading
  <2> QED BY <2>1, <2>2, <2>3 DEF ParentsInv
<1>3. ASSUME NEW p \in Pids, HandleProc(p) PROVE ParentsInv'
  BY <1>1, <1>2, <1>3 DEF HandleProc, NoProcID, SkipIgnored, MetricsFail,
                          UpdateKnown, StaticFails, Deliver
<1>4. CASE StartScan \/ Report
  BY <1>0, <1>4 DEF StartScan, Report, ParentsInv, MapsInv, Phases
<1>5. CASE FinishScan
  BY <1>1, <1>5 DEF FinishScan
<1>6. ASSUME NEW visited \in ID, Adopt(visited) PROVE ParentsInv'
  BY <1>0, <1>1, <1>6, AdoptKeeps
<1>7. CASE Environment \/ UNCHANGED vars \/ ListingFails \/ FinishAdopt
  BY <1>1, <1>7 DEF Environment, vars, trackerVars, scanVars, ListingFails,
                    FinishAdopt
<1> QED BY <1>3, <1>4, <1>5, <1>6, <1>7 DEF Next, TrackerNext

(* A parent the tracker knows from the listing is the real one.            *)
LEMMA ParentIsReal ==
    ASSUME MapsInv, ParentsInv, NEW id \in newProcs, Parent(id) \in listing
    PROVE  /\ Parent(id) = info[id].parent
           /\ Parent(id).start < id.start
<1>1. info[id].ppid \in Pids /\ Parent(id) = procIds[info[id].ppid]
  BY NoIDIsNoID DEF MapsInv, TypeOK, Parent
<1>2. Parent(id).pid = info[id].ppid
  <2>1. Parent(id) \in ID /\ Parent(id) # NoID
    BY NoIDIsNoID DEF MapsInv, TypeOK
  <2>2. \A p \in Pids : procIds[p] # NoID => procIds[p].pid = p
    BY DEF MapsInv, PastOnly
  <2> QED BY <1>1, <2>1, <2>2
<1> QED BY <1>1, <1>2 DEF ParentsInv

(* Hence every lineage has a top.                                          *)
LEMMA LineageEnds ==
    ASSUME NoGhostsInv, ParentsInv, NEW id \in Fresh
    PROVE  Tops(id) # {}
<1>0. MapsInv /\ Fresh \subseteq listing /\ Fresh \subseteq newProcs /\ Fresh \subseteq ID
  BY DEF NoGhostsInv, MapsInv, TypeOK, MetListed, Fresh
<1>1. id \in Lineage(id) /\ Lineage(id) \subseteq Fresh /\ Climbs(Lineage(id))
  BY LineageClimbs
<1> DEFINE starts == {anc.start : anc \in Lineage(id)}
<1>2. starts \in SUBSET Nat /\ starts # {}
  BY <1>0, <1>1, IDParts
<1>3. PICK m \in starts : \A n \in starts : m <= n
  BY <1>2, LeastNumber
<1>4. PICK oldest \in Lineage(id) : \A anc \in Lineage(id) : oldest.start <= anc.start
  BY <1>3
<1>5. ASSUME Parent(oldest) \in Fresh PROVE FALSE
  <2>1. Parent(oldest) \in Lineage(id) /\ oldest \in newProcs /\ oldest \in ID
    BY <1>0, <1>1, <1>5 DEF Climbs
  <2>2. Parent(oldest).start < oldest.start
    BY <1>0, <1>5, <2>1, ParentIsReal
  <2> QED BY <1>0, <1>4, <1>5, <2>1, <2>2, IDParts
<1> QED BY <1>5 DEF Tops

(* Without reuse within a scan, AncestryInv is an invariant.               *)
THEOREM AncestryInvariant ==
    ASSUME ~ReuseWithinScan
    PROVE  Spec => []AncestryInv
<1>1. Init => AncestryInv
  BY MapsInit, PidsAssumption
     DEF Init, TableInit, AncestryInv, NoGhostsInv, ListedStay, MetListed,
         TableIsTree, LivePids, Alive, Free, NoPid, ParentsInv, AncestryEnds
<1>2. ASSUME AncestryInv, [Next]_vars PROVE AncestryInv'
  <2>1. NoGhostsInv' /\ TableIsTree' /\ ParentsInv'
    BY <1>2, NoGhostsStep, TreeStep, ParentsStep DEF AncestryInv, NoGhostsInv
  <2>2. ASSUME NEW visited \in ID, Adopt(visited) PROVE AncestryEnds'
    <3>1. ~StackOverflow(visited)
      BY <1>2, LineageEnds DEF AncestryInv, StackOverflow
    <3> QED BY <2>2, <3>1 DEF Adopt, VisitDone, AdoptLineage, IgnoreLineage, Visit,
                              AncestryEnds
  <2>3. ASSUME NEW p \in Pids, HandleProc(p) PROVE AncestryEnds'
    BY <1>2, <2>3 DEF HandleProc, NoProcID, SkipIgnored, MetricsFail, UpdateKnown,
                      ReadNew, StaticFails, Deliver, AncestryInv, AncestryEnds
  <2>4. ASSUME Environment \/ UNCHANGED vars PROVE AncestryEnds'
    BY <1>2, <2>4 DEF Environment, vars, trackerVars, AncestryInv, AncestryEnds
  <2>5. ASSUME StartScan \/ ListingFails \/ FinishScan \/ FinishAdopt \/ Report
        PROVE  AncestryEnds'
    BY <1>2, <2>5 DEF StartScan, ListingFails, FinishScan, FinishAdopt, Report,
                      AncestryInv, AncestryEnds
  <2>6. AncestryEnds'
    BY <1>2, <2>2, <2>3, <2>4, <2>5 DEF Next, TrackerNext
  <2> QED BY <2>1, <2>6 DEF AncestryInv
<1> QED BY <1>1, <1>2, PTL DEF Spec

(* Unless a pid is reused within a scan, checkAncestry always ends.        *)
THEOREM AncestryIsFinite ==
    ASSUME ~ReuseWithinScan
    PROVE  Spec => []AncestryEnds
<1>1. AncestryInv => AncestryEnds
  BY DEF AncestryInv
<1> QED BY <1>1, AncestryInvariant, PTL

(* Unless a pid is reused within a scan, a process is adopted through its  *)
(* real parent only, whatever order the processes are read and visited in. *)
THEOREM RealParentsAdopt ==
    ASSUME ~ReuseWithinScan
    PROVE  Spec => []AdoptedByRealParent
<1>1. Spec => [](MapsInv /\ TakenInv)
  <2>1. Init => MapsInv /\ TakenInv
    BY AdoptionInit DEF AdoptionInv
  <2>2. MapsInv /\ TakenInv /\ [Next]_vars => MapsInv' /\ TakenInv'
    BY MapsStep, TakenStep
  <2> QED BY <2>1, <2>2, PTL DEF Spec
<1>2. AncestryInv /\ TakenInv => AdoptedByRealParent
  <2> SUFFICES ASSUME AncestryInv, TakenInv, pc \in {"adopt", "report"},
                      NEW id \in newProcs, id \in Reported
               PROVE  Parent(id) = info[id].parent
    BY DEF AdoptedByRealParent
  <2>1. Parent(id) \in listing
    BY DEF TakenInv, HasTrackedParent, AncestryInv, NoGhostsInv, MetListed, Reported
  <2> QED BY <2>1, ParentIsReal DEF AncestryInv, NoGhostsInv
<1> QED BY <1>1, <1>2, AncestryInvariant, PTL
=============================================================================

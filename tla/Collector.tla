------------------------------ MODULE Collector ------------------------------
(***************************************************************************)
(* NamedProcessCollector (collector/process_collector.go): any number of   *)
(* concurrent calls of Collect hand their request to one goroutine, which  *)
(* scrapes for one of them at a time and says when it is done.  With it go *)
(* the counters it keeps, and what the cgroup collector adds to a scrape   *)
(* (collector/cgroup_collector.go, collectGroup and collectSummary).       *)
(*                                                                         *)
(* The grouper is known by what its Update returns: an error, or groups,   *)
(* each with the cgroup its processes agreed on; and a number of read and  *)
(* of partial errors.  If the first Update, which the constructor makes,   *)
(* fails, the program ends and its supervisor starts it anew, in the       *)
(* initial state (packaging/process-exporter.service): a stutter.          *)
(***************************************************************************)
EXTENDS Integers, Sequences, FiniteSets

CONSTANTS
    Calls,        \* calls of Collect, one per request that is being served
    Groups,       \* group names
    Cgroup,       \* is a -cgroup.* family enabled
    MaxErrors,    \* bound: read, or partial, errors of one Update
    MaxDropped,   \* bound: patterns collectPaths drops in one scrape
    MaxCount,     \* bound: a counter this high is not increased
    NoCall

ASSUME CallsAssumption == NoCall \notin Calls
ASSUME CollectorBounds == /\ Cgroup \in BOOLEAN
                          /\ IsFiniteSet(Groups)
                          /\ MaxErrors \in Nat
                          /\ MaxDropped \in Nat
                          /\ MaxCount \in Nat

(* What is known of the cgroup of a group: its processes disagree, none    *)
(* has one, it is the root, or it is a path that can be read.              *)
Kinds == {"conflict", "none", "root", "path"}

Counters == {"scrapeErrors", "scrapeProcReadErrors", "scrapePartialErrors",
             "skipped", "patternDropped"}
Sample   == [Counters -> Nat]
Zero     == [k \in Counters |-> 0]

(* What all Updates so far have returned, in all.                          *)
Tally == [read : Nat, partial : Nat, failed : Nat]

VARIABLES
    server,      \* where the goroutine of start() is, init before it runs
    serving,     \* the call whose request it has
    queue,       \* calls blocked in the send on scrapeChan, in their order
    status,      \* what each call is doing
    counters,    \* scrapeErrors and so on, and the cgroup collector's
    groups,      \* what Update returned, group name -> kind of cgroup
    left,        \* groups the loop of scrape has yet to range over
    sent,        \* what was sent on the results channel in this scrape
    answer,      \* history: the counters each call was last answered with
    last,        \* history: the counters of the last scrape completed
    reported     \* history: errors of all Updates so far, and how many failed

vars == <<server, serving, queue, status, counters, groups, left, sent, answer,
          last, reported>>

Sent      == [groups : SUBSET Groups, cgroups : SUBSET Groups, counters : Sample]
NothingSent == [groups |-> {}, cgroups |-> {}, counters |-> Zero]

TypeOK ==
    /\ server \in {"init", "ready", "update", "groups", "errors", "paths", "done"}
    /\ serving \in Calls \cup {NoCall}
    /\ queue \in Seq(Calls)
    /\ status \in [Calls -> {"idle", "queued", "waiting"}]
    /\ counters \in Sample
    /\ groups \in UNION {[found -> Kinds] : found \in SUBSET Groups}
    /\ left \in SUBSET DOMAIN groups
    /\ sent \in Sent
    /\ answer \in [Calls -> Sample]
    /\ last \in Sample
    /\ reported \in Tally

Init ==
    /\ server = "init"
    /\ serving = NoCall
    /\ queue = <<>>
    /\ status = [c \in Calls |-> "idle"]
    /\ counters = Zero
    /\ groups = [g \in {} |-> "none"]
    /\ left = {}
    /\ sent = NothingSent
    /\ answer = [c \in Calls |-> Zero]
    /\ last = Zero
    /\ reported = [read |-> 0, partial |-> 0, failed |-> 0]

-----------------------------------------------------------------------------
(* Mutants: what definitions below would be with a bug in the code.        *)

(* The partial errors of the first Update are forgotten, or subtracted.    *)
CountFirstRead(errs) ==
    counters' = [counters EXCEPT !["scrapeProcReadErrors"] = @ + errs.Read]

CountFirstSub(errs) ==
    counters' = [counters EXCEPT !["scrapePartialErrors"] = @ - errs.Partial,
                                 !["scrapeProcReadErrors"] = @ + errs.Read]

(* A group whose processes have no cgroup counts as skipped, too.          *)
CollectGroupNoneToo(g) ==
    counters' = [counters EXCEPT !["skipped"] =
                    IF groups[g] \in {"conflict", "none"} THEN @ + 1 ELSE @]

(* Update fails, and scrape: does not count it; returns before it has sent *)
(* anything; or takes start with it, which then is never done.             *)
UpdateFailsUncounted ==
    /\ server = "update"
    /\ reported.failed < MaxCount
    /\ reported' = [reported EXCEPT !.failed = @ + 1]
    /\ server' = "errors"
    /\ UNCHANGED <<serving, queue, status, counters, groups, left, sent, answer,
                   last>>

UpdateFailsReturns ==
    /\ server = "update"
    /\ reported.failed < MaxCount
    /\ reported' = [reported EXCEPT !.failed = @ + 1]
    /\ counters' = [counters EXCEPT !["scrapeErrors"] = @ + 1]
    /\ server' = "done"
    /\ UNCHANGED <<serving, queue, status, groups, left, sent, answer, last>>

UpdateFailsUndone ==
    /\ server = "update"
    /\ reported.failed < MaxCount
    /\ reported' = [reported EXCEPT !.failed = @ + 1]
    /\ counters' = [counters EXCEPT !["scrapeErrors"] = @ + 1]
    /\ server' = "ready"
    /\ serving' = NoCall
    /\ UNCHANGED <<queue, status, groups, left, sent, answer, last>>

-----------------------------------------------------------------------------
(* What an Update may return, by way of errors.                            *)
ColErrs == [Read : 0..MaxErrors, Partial : 0..MaxErrors]

WithinBounds(errs) ==
    /\ errs.Read > 0 => reported.read < MaxCount
    /\ errs.Partial > 0 => reported.partial < MaxCount

Report(errs) ==
    reported' = [reported EXCEPT !.read = @ + errs.Read,
                                 !.partial = @ + errs.Partial]

(* NewProcessCollector.                                                    *)
CountFirst(errs) ==
    counters' = [counters EXCEPT !["scrapePartialErrors"] = @ + errs.Partial,
                                 !["scrapeProcReadErrors"] = @ + errs.Read]

FirstUpdate ==
    /\ server = "init"
    /\ \E errs \in ColErrs :
          WithinBounds(errs) /\ Report(errs) /\ CountFirst(errs)
    /\ server' = "ready"
    /\ UNCHANGED <<serving, queue, status, groups, left, sent, answer, last>>

-----------------------------------------------------------------------------
(* Collect: the call blocks until start() takes its request, and then      *)
(* until start() is done with it.  The collector is registered once it is  *)
(* made.                                                                   *)
Collect(c) ==
    /\ server # "init"
    /\ status[c] = "idle"
    /\ status' = [status EXCEPT ![c] = "queued"]
    /\ queue' = Append(queue, c)
    /\ UNCHANGED <<server, serving, counters, groups, left, sent, answer, last,
                   reported>>

(* start takes the next request.                                           *)
Receive ==
    /\ server = "ready"
    /\ queue # <<>>
    /\ serving' = Head(queue)
    /\ queue' = Tail(queue)
    /\ status' = [status EXCEPT ![Head(queue)] = "waiting"]
    /\ sent' = NothingSent
    /\ server' = "update"
    /\ UNCHANGED <<counters, groups, left, answer, last, reported>>

(* scrape calls Update.                                                    *)
CountErrors(errs) ==
    counters' = [counters EXCEPT !["scrapePartialErrors"] = @ + errs.Partial]

Update ==
    /\ server = "update"
    /\ \E errs \in ColErrs :
          WithinBounds(errs) /\ Report(errs) /\ CountErrors(errs)
    /\ \E found \in SUBSET Groups : groups' \in [found -> Kinds]
    /\ \A g \in DOMAIN groups' :
          groups'[g] = "conflict" => counters["skipped"] < MaxCount
    /\ left' = DOMAIN groups'
    /\ server' = "groups"
    /\ UNCHANGED <<serving, queue, status, sent, answer, last>>

(* Update fails, before it has looked at any process.                      *)
UpdateFails ==
    /\ server = "update"
    /\ reported.failed < MaxCount
    /\ reported' = [reported EXCEPT !.failed = @ + 1]
    /\ counters' = [counters EXCEPT !["scrapeErrors"] = @ + 1]
    /\ groups' = [g \in {} |-> "none"]
    /\ left' = {}
    /\ server' = "errors"
    /\ UNCHANGED <<serving, queue, status, sent, answer, last>>

(* collectGroup: no series of a cgroup the processes do not agree on, or   *)
(* that is no cgroup of theirs; and the first of these is counted.         *)
CollectGroup(g) ==
    IF ~Cgroup THEN UNCHANGED counters
    ELSE counters' = [counters EXCEPT !["skipped"] =
                         IF groups[g] = "conflict" THEN @ + 1 ELSE @]

HasCgroupSeries(g) == Cgroup /\ groups[g] = "path"

SendGroup(g) ==
    /\ server = "groups"
    /\ g \in left
    /\ left' = left \ {g}
    /\ CollectGroup(g)
    /\ sent' = [sent EXCEPT !.groups = @ \cup {g},
                            !.cgroups = IF HasCgroupSeries(g) THEN @ \cup {g}
                                                              ELSE @]
    /\ UNCHANGED <<server, serving, queue, status, groups, answer, last,
                   reported>>

(* The loop ends.                                                          *)
GroupsSent ==
    /\ server = "groups"
    /\ left = {}
    /\ server' = "errors"
    /\ UNCHANGED <<serving, queue, status, counters, groups, left, sent, answer,
                   last, reported>>

(* The three error counters are sent whether or not Update failed.         *)
ErrorCounters == {"scrapeErrors", "scrapeProcReadErrors", "scrapePartialErrors"}

SendErrors ==
    /\ server = "errors"
    /\ sent' = [sent EXCEPT !.counters =
                   [k \in Counters |-> IF k \in ErrorCounters THEN counters[k]
                                                              ELSE @[k]]]
    /\ server' = "paths"
    /\ UNCHANGED <<serving, queue, status, counters, groups, left, answer, last,
                   reported>>

(* collectPaths, which counts the patterns it drops, and collectSummary.   *)
SendPaths ==
    /\ server = "paths"
    /\ \E dropped \in 0..MaxDropped :
          /\ dropped > 0 => Cgroup /\ counters["patternDropped"] < MaxCount
          /\ counters' = [counters EXCEPT !["patternDropped"] = @ + dropped]
    /\ sent' = [sent EXCEPT !.counters =
                   [k \in Counters |-> IF k \in ErrorCounters THEN @[k]
                                                              ELSE counters'[k]]]
    /\ answer' = [answer EXCEPT ![serving] = sent'.counters]
    /\ last' = sent'.counters
    /\ server' = "done"
    /\ UNCHANGED <<serving, queue, status, groups, left, reported>>

(* start says it is done, and the call of Collect returns.                 *)
Done ==
    /\ server = "done"
    /\ status' = [status EXCEPT ![serving] = "idle"]
    /\ serving' = NoCall
    /\ groups' = [g \in {} |-> "none"]
    /\ left' = {}
    /\ server' = "ready"
    /\ UNCHANGED <<queue, counters, sent, answer, last, reported>>

-----------------------------------------------------------------------------
Start ==
    \/ Receive
    \/ Update
    \/ UpdateFails
    \/ \E g \in Groups : SendGroup(g)
    \/ GroupsSent
    \/ SendErrors
    \/ SendPaths
    \/ Done

Next ==
    \/ FirstUpdate
    \/ \E c \in Calls : Collect(c)
    \/ Start

Spec == Init /\ [][Next]_vars

(* The goroutine of start() is scheduled; nobody has to call Collect.      *)
FairSpec == Spec /\ WF_vars(Start)

-----------------------------------------------------------------------------
(* Properties.                                                             *)

(* Every failed scrape is seen in its own answer: the scrapeErrors it has  *)
(* are all that ever happened, and if they grew since the answer before    *)
(* then no group is in it, otherwise every group of the Update is          *)
(* (process_collector.go 93: no proc metrics collected during a cycle).    *)
FailureIsVisible ==
    server = "paths" =>
        /\ sent.counters["scrapeErrors"] = reported.failed
        /\ IF sent.counters["scrapeErrors"] > last["scrapeErrors"]
           THEN sent.groups = {}
           ELSE sent.groups = DOMAIN groups

(* Between two answers the skip counter grows by the number of groups that *)
(* the second one has no cgroup series for because their processes span    *)
(* cgroups, and no series is sent for a group without one cgroup of its    *)
(* own (cgroup_collector.go 226).                                          *)
SkipAndCount ==
    Cgroup /\ server = "paths" =>
        LET spanning == {g \in DOMAIN groups : groups[g] = "conflict"} IN
        /\ counters["skipped"] - last["skipped"] = Cardinality(spanning)
        /\ sent.cgroups = {g \in sent.groups : groups[g] = "path"}

(* Every partial error of every Update, the first included, is counted.    *)
PartialErrorsCounted == counters["scrapePartialErrors"] = reported.partial

(* Every failure to collect a process's metrics is counted                 *)
(* (process_collector.go 99).                                              *)
ReadErrorsCounted == counters["scrapeProcReadErrors"] = reported.read

(* Every call of Collect returns, however many others there are.           *)
EveryCollectReturns == \A c \in Calls : status[c] # "idle" ~> status[c] = "idle"

(* The collector answers concurrent calls as ScrapeServer does: the answer *)
(* to a call is given when its last counter has been sent.                 *)
CallStatus ==
    [c \in Calls |-> IF status[c] = "idle" THEN "idle"
                     ELSE IF c = serving /\ server = "done" THEN "answered"
                     ELSE "pending"]

Server == INSTANCE ScrapeServer WITH status <- CallStatus

ImplementsScrapeServer == Server!ServerSpec

-----------------------------------------------------------------------------
(* The inductive invariant behind ImplementsScrapeServer.                  *)

(* A call is in the queue, is being served, or is idle; and once at most.  *)
Idle == server \in {"init", "ready"}

HandshakeInv ==
    /\ Idle <=> serving = NoCall
    /\ \A c \in Calls : status[c] = "waiting" <=> serving = c
    /\ \A i \in 1..Len(queue) : status[queue[i]] = "queued"
    /\ \A i, j \in 1..Len(queue) : queue[i] = queue[j] => i = j

(* The counters grow from what was last sent, and what has been sent of    *)
(* them in this scrape is what they are now.                               *)
CountersInv ==
    /\ \A k \in Counters : last[k] <= counters[k]
    /\ server = "paths" =>
          \A k \in ErrorCounters : sent.counters[k] = counters[k]

CollectorInv == TypeOK /\ HandshakeInv /\ CountersInv

(* Behind FailureIsVisible: failures are counted as they happen, and while *)
(* the answer is being made it has the groups ranged over so far, or there *)
(* was a failure since the last answer and it has none.                    *)
VisibleInv ==
    /\ counters["scrapeErrors"] = reported.failed
    /\ server = "update" => sent.groups = {}
    /\ server = "groups" => sent.groups = DOMAIN groups \ left
    /\ IF server \in {"errors", "paths"}
          /\ last["scrapeErrors"] < counters["scrapeErrors"]
       THEN sent.groups = {}
       ELSE /\ last["scrapeErrors"] = counters["scrapeErrors"]
            /\ server \in {"errors", "paths"} => sent.groups = DOMAIN groups

(* Behind SkipAndCount: of the groups ranged over so far, those that span  *)
(* cgroups have been counted, and those with a cgroup have its series.     *)
Spanning == {g \in DOMAIN groups \ left : groups[g] = "conflict"}

SkipInv ==
    /\ counters["skipped"] =
          last["skipped"] + (IF server \in {"groups", "errors", "paths"}
                             THEN Cardinality(Spanning) ELSE 0)
    /\ server = "update" => sent.groups = {} /\ sent.cgroups = {}
    /\ server \in {"groups", "errors", "paths"} =>
          /\ sent.groups \subseteq DOMAIN groups
          /\ sent.cgroups = {g \in sent.groups : groups[g] = "path"}
    /\ server \in {"errors", "paths"} => left = {}
=============================================================================

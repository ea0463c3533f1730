--------------------------- MODULE ExporterProofs ---------------------------
(***************************************************************************)
(* Proofs about Collector and about Exporter, which extends it.            *)
(*                                                                         *)
(* Of the collector, for any number of concurrent calls, any groups and    *)
(* any errors: the handshake over scrapeChan and done answers every call   *)
(* at one moment, with counters that never go down.  Of the program:       *)
(* starting, serving, signals and its end take nothing from that.          *)
(***************************************************************************)
EXTENDS Exporter, FiniteSetTheorems, TLAPS

USE CallsAssumption, CollectorBounds

-----------------------------------------------------------------------------
LEMMA CollectorInit == Init => CollectorInv
<1> SUFFICES ASSUME Init PROVE CollectorInv
  OBVIOUS
<1>1. TypeOK
  <2>1. [g \in {} |-> "none"] \in [{} -> Kinds] /\ {} \in SUBSET Groups
    OBVIOUS
  <2>2. groups \in UNION {[found -> Kinds] : found \in SUBSET Groups}
    BY <2>1 DEF Init
  <2>3. Zero \in Sample /\ NothingSent \in Sent
    BY DEF Zero, Sample, NothingSent, Sent
  <2>4. queue \in Seq(Calls)
    BY DEF Init
  <2> QED BY <2>2, <2>3, <2>4 DEF Init, TypeOK, Tally
<1>2. HandshakeInv
  BY DEF Init, HandshakeInv, Idle
<1>3. CountersInv
  BY DEF Init, CountersInv, Zero, Sample
<1> QED BY <1>1, <1>2, <1>3 DEF CollectorInv

(* The steps that leave the handshake alone: the calls, the queue and who  *)
(* is served stay as they are, and the goroutine does not become idle.     *)
LEMMA HandshakeKept ==
    ASSUME CollectorInv, UNCHANGED <<serving, queue, status>>,
           Idle' <=> Idle
    PROVE  HandshakeInv'
BY DEF CollectorInv, HandshakeInv, Idle

LEMMA CollectStep ==
    ASSUME NEW c \in Calls, CollectorInv, Collect(c)
    PROVE  CollectorInv'
<1> USE DEF CollectorInv
<1>0. queue \in Seq(Calls) /\ queue' = Append(queue, c)
  BY DEF TypeOK, Collect
<1>1. TypeOK'
  BY <1>0 DEF TypeOK, Collect
<1>2. HandshakeInv'
  <2>1. /\ Len(queue') = Len(queue) + 1 /\ Len(queue) \in Nat
        /\ queue'[Len(queue) + 1] = c
        /\ \A i \in 1..Len(queue) : queue'[i] = queue[i]
    BY <1>0
  <2>2. /\ status[c] = "idle" /\ status' = [status EXCEPT ![c] = "queued"]
        /\ UNCHANGED <<server, serving>>
    BY DEF Collect
  <2>3. \A i \in 1..Len(queue) : queue[i] \in Calls /\ queue[i] # c
    BY <1>0, <2>2 DEF HandshakeInv
  <2>4. \A d \in Calls : status'[d] = "waiting" <=> serving' = d
    BY <2>2 DEF HandshakeInv, TypeOK
  <2>5. ASSUME NEW i \in 1..Len(queue') PROVE status'[queue'[i]] = "queued"
    <3>1. CASE i = Len(queue) + 1
      BY <2>1, <2>2, <3>1 DEF TypeOK
    <3>2. CASE i \in 1..Len(queue)
      BY <2>1, <2>2, <2>3, <3>2 DEF HandshakeInv, TypeOK
    <3> QED BY <2>1, <3>1, <3>2
  <2>6. ASSUME NEW i \in 1..Len(queue'), NEW j \in 1..Len(queue'),
               queue'[i] = queue'[j]
        PROVE  i = j
    <3>1. CASE i \in 1..Len(queue) /\ j \in 1..Len(queue)
      BY <2>1, <2>6, <3>1 DEF HandshakeInv
    <3>2. CASE i = Len(queue) + 1 \/ j = Len(queue) + 1
      BY <2>1, <2>3, <2>6, <3>2
    <3> QED BY <2>1, <3>1, <3>2
  <2>7. Idle' <=> serving' = NoCall
    BY <2>2 DEF HandshakeInv, Idle
  <2> QED BY <2>4, <2>5, <2>6, <2>7 DEF HandshakeInv
<1>3. CountersInv'
  BY DEF CountersInv, Collect
<1> QED BY <1>1, <1>2, <1>3

LEMMA ReceiveStep == ASSUME CollectorInv, Receive PROVE CollectorInv'
<1> USE DEF CollectorInv
<1> DEFINE h == Head(queue)
<1>0. /\ queue \in Seq(Calls) /\ queue # <<>> /\ queue' = Tail(queue)
      /\ status' = [status EXCEPT ![h] = "waiting"] /\ serving' = h
      /\ server = "ready" /\ server' = "update"
  BY DEF TypeOK, Receive
<1>1. /\ Len(queue) \in Nat \ {0} /\ h = queue[1] /\ h \in Calls
      /\ Len(queue') = Len(queue) - 1 /\ queue' \in Seq(Calls)
      /\ \A i \in 1..Len(queue') : queue'[i] = queue[i + 1]
  BY <1>0
<1> HIDE DEF h
<1>2. TypeOK'
  <2>1. NothingSent \in Sent
    BY DEF Zero, Sample, NothingSent, Sent
  <2> QED BY <1>0, <1>1, <2>1 DEF TypeOK, Receive
<1>3. HandshakeInv'
  <2>1. \A d \in Calls : status[d] # "waiting"
    BY <1>0 DEF HandshakeInv, Idle
  <2>2. \A d \in Calls : status'[d] = "waiting" <=> serving' = d
    BY <1>0, <1>1, <2>1 DEF TypeOK
  <2>3. ASSUME NEW i \in 1..Len(queue')
        PROVE  /\ i + 1 \in 1..Len(queue)
               /\ queue'[i] = queue[i + 1] /\ queue'[i] # h
    BY <1>1 DEF HandshakeInv
  <2>4. \A i \in 1..Len(queue') : status'[queue'[i]] = "queued"
    BY <1>0, <1>1, <2>3 DEF HandshakeInv, TypeOK
  <2>5. ASSUME NEW i \in 1..Len(queue'), NEW j \in 1..Len(queue'),
               queue'[i] = queue'[j]
        PROVE  i = j
    BY <1>1, <2>3, <2>5 DEF HandshakeInv
  <2>6. Idle' <=> serving' = NoCall
    BY <1>0, <1>1 DEF Idle
  <2> QED BY <2>2, <2>4, <2>5, <2>6 DEF HandshakeInv
<1>4. CountersInv'
  BY <1>0 DEF CountersInv, Receive
<1> QED BY <1>2, <1>3, <1>4

LEMMA DoneStep == ASSUME CollectorInv, Done PROVE CollectorInv'
<1> USE DEF CollectorInv
<1>1. TypeOK'
  <2>1. [g \in {} |-> "none"] \in [{} -> Kinds] /\ {} \in SUBSET Groups
    OBVIOUS
  <2>2. groups' \in UNION {[found -> Kinds] : found \in SUBSET Groups}
    BY <2>1 DEF Done
  <2> QED BY <2>2 DEF TypeOK, Done
<1>2. HandshakeInv'
  BY DEF HandshakeInv, Idle, Done, TypeOK
<1>3. CountersInv'
  BY DEF CountersInv, Done
<1> QED BY <1>1, <1>2, <1>3

(* Adding to one counter takes nothing from any of them.                   *)
LEMMA AddTo ==
    ASSUME NEW old \in Sample, NEW k \in Counters, NEW n \in Nat,
           NEW new, new = [old EXCEPT ![k] = @ + n]
    PROVE  /\ new \in Sample
           /\ \A j \in Counters : old[j] <= new[j]
BY DEF Sample

LEMMA CounterNames ==
    /\ "scrapeErrors" \in Counters /\ "scrapeProcReadErrors" \in Counters
    /\ "scrapePartialErrors" \in Counters /\ "skipped" \in Counters
    /\ "patternDropped" \in Counters /\ "patternDropped" \notin ErrorCounters
    /\ ErrorCounters \subseteq Counters
BY DEF Counters, ErrorCounters

(* Counters may grow while a scrape is under way.                          *)
LEMMA CountersGrow ==
    ASSUME CollectorInv,
           counters' \in Sample, \A k \in Counters : counters[k] <= counters'[k],
           last' = last, server' # "paths"
    PROVE  CountersInv'
<1>1. \A k \in Counters : /\ last[k] \in Nat /\ counters[k] \in Nat
                          /\ counters'[k] \in Nat /\ last[k] <= counters[k]
  BY DEF CollectorInv, TypeOK, Sample, CountersInv
<1> QED BY <1>1 DEF CountersInv

LEMMA UpdateStep ==
    ASSUME CollectorInv, FirstUpdate \/ Update \/ UpdateFails
    PROVE  CollectorInv'
<1> USE DEF CollectorInv
<1>1. /\ counters' \in Sample
      /\ \A k \in Counters : counters[k] <= counters'[k]
  <2>1. counters \in Sample
    BY DEF TypeOK
  <2>2. CASE FirstUpdate
    <3>1. PICK errs \in ColErrs : CountFirst(errs)
      BY <2>2 DEF FirstUpdate
    <3> DEFINE mid == [counters EXCEPT !["scrapePartialErrors"] = @ + errs.Partial]
    <3>2. errs.Partial \in Nat /\ errs.Read \in Nat
      BY DEF ColErrs
    <3>3. counters' = [mid EXCEPT !["scrapeProcReadErrors"] = @ + errs.Read]
      BY <3>1 DEF CountFirst
    <3>4. /\ mid \in Sample
          /\ \A k \in Counters : counters[k] <= mid[k]
      BY <2>1, <3>2, AddTo, CounterNames
    <3> HIDE DEF mid
    <3>5. /\ counters' \in Sample
          /\ \A k \in Counters : mid[k] <= counters'[k]
      BY <3>2, <3>3, <3>4, AddTo, CounterNames
    <3>6. \A k \in Counters : /\ counters[k] \in Nat /\ mid[k] \in Nat
                              /\ counters'[k] \in Nat
      BY <2>1, <3>4, <3>5 DEF Sample
    <3> QED BY <3>4, <3>5, <3>6
  <2>3. CASE Update
    <3>1. PICK errs \in ColErrs : CountErrors(errs)
      BY <2>3 DEF Update
    <3>2. errs.Partial \in Nat
      BY DEF ColErrs
    <3> QED BY <2>1, <3>1, <3>2, AddTo, CounterNames DEF CountErrors
  <2>4. CASE UpdateFails
    BY <2>1, <2>4, AddTo, CounterNames DEF UpdateFails
  <2> QED BY <2>2, <2>3, <2>4
<1>2. reported' \in Tally
  <2>1. reported \in Tally
    BY DEF TypeOK
  <2>2. CASE UpdateFails
    BY <2>1, <2>2 DEF UpdateFails, Tally
  <2>3. ASSUME NEW errs \in ColErrs, Report(errs) PROVE reported' \in Tally
    <3>1. errs.Read \in Nat /\ errs.Partial \in Nat
      BY DEF ColErrs
    <3> DEFINE mid == [reported EXCEPT !.read = @ + errs.Read]
    <3>2. mid \in Tally /\ mid.partial = reported.partial
      BY <2>1, <3>1 DEF Tally
    <3>3. reported' = [mid EXCEPT !.partial = reported.partial + errs.Partial]
      BY <2>3 DEF Report
    <3> HIDE DEF mid
    <3> QED BY <2>1, <3>1, <3>2, <3>3 DEF Tally
  <2>4. CASE FirstUpdate
    BY <2>3, <2>4 DEF FirstUpdate
  <2>5. CASE Update
    BY <2>3, <2>5 DEF Update
  <2> QED BY <2>2, <2>4, <2>5
<1>3. /\ groups' \in UNION {[found -> Kinds] : found \in SUBSET Groups}
      /\ left' \in SUBSET DOMAIN groups'
  <2>1. [g \in {} |-> "none"] \in [{} -> Kinds] /\ {} \in SUBSET Groups
    OBVIOUS
  <2>2. CASE FirstUpdate
    BY <2>2 DEF FirstUpdate, TypeOK
  <2>3. CASE Update
    BY <2>3 DEF Update
  <2>4. CASE UpdateFails
    BY <2>1, <2>4 DEF UpdateFails
  <2> QED BY <2>2, <2>3, <2>4
<1>4. /\ UNCHANGED <<serving, queue, status, sent, answer, last>>
      /\ server' \in {"ready", "groups", "errors"}
  BY DEF FirstUpdate, Update, UpdateFails
<1>5. TypeOK'
  BY <1>1, <1>2, <1>3, <1>4 DEF TypeOK
<1>6. HandshakeInv'
  BY <1>4, HandshakeKept DEF FirstUpdate, Update, UpdateFails, Idle
<1>7. CountersInv'
  BY <1>1, <1>4, CountersGrow
<1> QED BY <1>5, <1>6, <1>7

LEMMA GroupStep ==
    ASSUME CollectorInv, GroupsSent \/ \E g \in Groups : SendGroup(g)
    PROVE  CollectorInv'
<1> USE DEF CollectorInv
<1>1. CASE GroupsSent
  <2>1. TypeOK' /\ CountersInv'
    BY <1>1 DEF GroupsSent, TypeOK, CountersInv
  <2>2. HandshakeInv'
    BY <1>1, HandshakeKept DEF GroupsSent, Idle
  <2> QED BY <2>1, <2>2
<1>2. ASSUME NEW g \in Groups, SendGroup(g) PROVE CollectorInv'
  <2>1. /\ counters' \in Sample
        /\ \A k \in Counters : counters[k] <= counters'[k]
    <3>1. counters \in Sample
      BY DEF TypeOK
    <3>2. \/ counters' = counters
          \/ counters' = [counters EXCEPT !["skipped"] = @ + 1]
          \/ counters' = [counters EXCEPT !["skipped"] = @]
      BY <1>2 DEF SendGroup, CollectGroup
    <3>3. [counters EXCEPT !["skipped"] = @] = counters
      BY <3>1 DEF Sample
    <3>4. \A k \in Counters : counters[k] \in Nat
      BY <3>1 DEF Sample
    <3> QED BY <3>1, <3>2, <3>3, <3>4, AddTo, CounterNames
  <2>2. sent' \in Sent
    BY <1>2 DEF SendGroup, TypeOK, Sent
  <2>3. TypeOK'
    BY <1>2, <2>1, <2>2 DEF SendGroup, TypeOK
  <2>4. HandshakeInv'
    BY <1>2, HandshakeKept DEF SendGroup, Idle
  <2>5. CountersInv'
    BY <1>2, <2>1, CountersGrow DEF SendGroup
  <2> QED BY <2>3, <2>4, <2>5
<1> QED BY <1>1, <1>2

LEMMA SendErrorsStep == ASSUME CollectorInv, SendErrors PROVE CollectorInv'
<1> USE DEF CollectorInv
<1> DEFINE sample == [k \in Counters |-> IF k \in ErrorCounters
                                         THEN counters[k]
                                         ELSE sent.counters[k]]
<1>1. sample \in Sample
  BY DEF TypeOK, Sample, Sent
<1>2. sent' = [sent EXCEPT !.counters = sample]
  BY DEF SendErrors
<1> HIDE DEF sample
<1>3. sent' \in Sent /\ sent'.counters = sample
  BY <1>1, <1>2 DEF TypeOK, Sent
<1>4. TypeOK'
  BY <1>3 DEF SendErrors, TypeOK
<1>5. HandshakeInv'
  BY HandshakeKept DEF SendErrors, Idle
<1>6. CountersInv'
  <2>1. \A k \in ErrorCounters : k \in Counters /\ sample[k] = counters[k]
    BY DEF ErrorCounters, Counters, sample
  <2> QED BY <1>3, <2>1 DEF SendErrors, CountersInv
<1> QED BY <1>4, <1>5, <1>6

(* The last counters are sent: the answer is no less than the one before,  *)
(* and no more than the counters are.                                      *)
LEMMA SendPathsEffect ==
    ASSUME CollectorInv, SendPaths
    PROVE  /\ CollectorInv'
           /\ last' \in Sample /\ answer' = [answer EXCEPT ![serving] = last']
           /\ \A k \in Counters : last[k] <= last'[k]
<1> USE DEF CollectorInv
<1>1. PICK dropped \in 0..MaxDropped :
         counters' = [counters EXCEPT !["patternDropped"] = @ + dropped]
  BY DEF SendPaths
<1>2. \A k \in Counters : /\ counters[k] \in Nat /\ last[k] \in Nat
                          /\ last[k] <= counters[k]
  BY DEF TypeOK, Sample, CountersInv
<1>3. /\ counters' \in Sample
      /\ \A k \in Counters : counters[k] <= counters'[k]
      /\ \A k \in ErrorCounters : counters[k] = counters'[k]
  <2>1. counters \in Sample /\ dropped \in Nat
    BY DEF TypeOK
  <2>2. /\ counters' \in Sample
        /\ \A j \in Counters :
              /\ counters[j] <= counters'[j]
              /\ j # "patternDropped" => counters'[j] = counters[j]
    <3>1. "patternDropped" \in Counters
      BY CounterNames
    <3>2. /\ counters' \in Sample
          /\ \A j \in Counters : counters[j] <= counters'[j]
      BY <1>1, <2>1, <3>1, AddTo
    <3>3. \A j \in Counters : j # "patternDropped" => counters'[j] = counters[j]
      BY <1>1, <2>1 DEF Sample
    <3> QED BY <3>2, <3>3
  <2>3. \A k \in ErrorCounters : k # "patternDropped" /\ k \in Counters
    BY CounterNames
  <2> QED BY <2>2, <2>3
<1> DEFINE sample == [k \in Counters |-> IF k \in ErrorCounters
                                         THEN sent.counters[k]
                                         ELSE counters'[k]]
<1>4. sample = counters'
  <2>1. \A k \in Counters : sample[k] = counters'[k]
    BY <1>3 DEF SendPaths, CountersInv
  <2> QED BY <1>3, <2>1 DEF Sample
<1>5. sent' = [sent EXCEPT !.counters = sample]
  BY DEF SendPaths
<1> HIDE DEF sample
<1>6. sent' \in Sent /\ sent'.counters = counters'
  BY <1>3, <1>4, <1>5 DEF TypeOK, Sent
<1>7. last' = counters' /\ answer' = [answer EXCEPT ![serving] = last']
  BY <1>6 DEF SendPaths
<1>8. \A k \in Counters : last[k] <= last'[k]
  BY <1>2, <1>3, <1>7 DEF Sample
<1>9. TypeOK'
  <2>1. /\ server' = "done" /\ serving' = serving /\ queue' = queue
        /\ status' = status /\ groups' = groups /\ left' = left
        /\ reported' = reported
    BY DEF SendPaths
  <2>2. last' \in Sample
    BY <1>3, <1>7
  <2>3. answer' \in [Calls -> Sample]
    <3>1. answer \in [Calls -> Sample]
      BY DEF TypeOK
    <3> QED BY <1>7, <2>2, <3>1
  <2>4. /\ serving' \in Calls \cup {NoCall} /\ queue' \in Seq(Calls)
        /\ status' \in [Calls -> {"idle", "queued", "waiting"}]
    BY <2>1 DEF TypeOK
  <2>5. /\ groups' \in UNION {[found -> Kinds] : found \in SUBSET Groups}
        /\ left' \in SUBSET DOMAIN groups' /\ reported' \in Tally
    BY <2>1 DEF TypeOK
  <2> QED BY <1>3, <1>6, <2>1, <2>2, <2>3, <2>4, <2>5 DEF TypeOK
<1>10. HandshakeInv'
  BY HandshakeKept DEF SendPaths, Idle
<1>11. CountersInv'
  <2>1. \A k \in Counters : last'[k] <= counters'[k]
    BY <1>3, <1>7 DEF Sample
  <2> QED BY <2>1 DEF SendPaths, CountersInv
<1> QED BY <1>3, <1>7, <1>8, <1>9, <1>10, <1>11

LEMMA CollectorStep == ASSUME CollectorInv, [Next]_vars PROVE CollectorInv'
<1>1. CASE UNCHANGED vars
  BY <1>1 DEF vars, CollectorInv, TypeOK, HandshakeInv, CountersInv, Idle
<1>2. CASE Next
  BY <1>2, UpdateStep, CollectStep, ReceiveStep, GroupStep, SendErrorsStep,
     SendPathsEffect, DoneStep DEF Next, Start
<1> QED BY <1>1, <1>2

(* Whatever the calls and their order: each is idle, in the queue once, or *)
(* the one being served, and the goroutine is idle exactly if none is; no  *)
(* counter falls below what was last sent of it.                           *)
THEOREM CollectorInvariant == Spec => []CollectorInv
BY CollectorInit, CollectorStep, PTL DEF Spec

(* Types: in particular only calls of Collect are ever in the queue.       *)
THEOREM TypeCorrect == Spec => []TypeOK
<1>1. CollectorInv => TypeOK
  BY DEF CollectorInv
<1> QED BY <1>1, CollectorInvariant, PTL

(* Every partial error of every Update is counted, the first one's too.    *)
THEOREM PartialCounted == Spec => []PartialErrorsCounted
<1> DEFINE I == CollectorInv /\ PartialErrorsCounted
<1>1. Init => PartialErrorsCounted
  BY DEF Init, PartialErrorsCounted, Zero, Counters
<1>2. ASSUME I, [Next]_vars PROVE PartialErrorsCounted'
  <2> USE <1>2 DEF PartialErrorsCounted
  <2>1. counters \in Sample /\ reported \in Tally
    BY DEF CollectorInv, TypeOK
  <2>2. CASE FirstUpdate
    BY <2>1, <2>2 DEF FirstUpdate, Report, CountFirst, Sample, Tally, Counters,
                     ColErrs
  <2>3. CASE Update
    BY <2>1, <2>3 DEF Update, Report, CountErrors, Sample, Tally, Counters, ColErrs
  <2>4. CASE UpdateFails
    BY <2>1, <2>4 DEF UpdateFails, Sample, Tally, Counters
  <2>5. ASSUME NEW g \in Groups, SendGroup(g) PROVE PartialErrorsCounted'
    BY <2>1, <2>5 DEF SendGroup, CollectGroup, Sample, Counters
  <2>6. CASE SendPaths
    BY <2>1, <2>6 DEF SendPaths, Sample, Counters
  <2>7. CASE UNCHANGED <<counters, reported>>
    BY <2>7
  <2>8. ASSUME NEW c \in Calls, Collect(c) PROVE UNCHANGED <<counters, reported>>
    BY <2>8 DEF Collect
  <2>9. CASE Receive \/ GroupsSent \/ SendErrors \/ Done \/ UNCHANGED vars
    BY <2>7, <2>9 DEF Receive, GroupsSent, SendErrors, Done, vars
  <2> QED BY <2>2, <2>3, <2>4, <2>5, <2>6, <2>7, <2>8, <2>9 DEF Next, Start
<1> QED BY <1>1, <1>2, CollectorInvariant, PTL DEF Spec

LEMMA VisibleStep ==
    ASSUME CollectorInv, VisibleInv, [Next]_vars PROVE VisibleInv'
<1> USE DEF VisibleInv
<1>1. counters \in Sample /\ reported \in Tally /\ last \in Sample /\ sent \in Sent
  BY DEF CollectorInv, TypeOK
<1>2. /\ "scrapeErrors" \in ErrorCounters
      /\ "scrapeErrors" \in Counters
      /\ counters["scrapeErrors"] \in Nat /\ last["scrapeErrors"] \in Nat
      /\ reported.failed \in Nat
  BY <1>1 DEF Sample, Tally, Counters, ErrorCounters
<1>3. CASE FirstUpdate
  <2>1. /\ counters'["scrapeErrors"] = counters["scrapeErrors"]
        /\ reported'.failed = reported.failed
    BY <1>1, <1>3 DEF FirstUpdate, CountFirst, Report, Sample, Tally, Counters
  <2> QED BY <1>2, <1>3, <2>1 DEF FirstUpdate
<1>4. ASSUME NEW c \in Calls, Collect(c) PROVE VisibleInv'
  BY <1>4 DEF Collect
<1>5. CASE Receive
  BY <1>5 DEF Receive, NothingSent
<1>6. CASE Update
  <2>1. /\ counters'["scrapeErrors"] = counters["scrapeErrors"]
        /\ reported'.failed = reported.failed
    BY <1>1, <1>6 DEF Update, CountErrors, Report, Sample, Tally, Counters
  <2> QED BY <1>2, <1>6, <2>1 DEF Update
<1>7. CASE UpdateFails
  <2>1. /\ counters'["scrapeErrors"] = counters["scrapeErrors"] + 1
        /\ reported'.failed = reported.failed + 1
    BY <1>1, <1>7 DEF UpdateFails, Sample, Tally, Counters
  <2> QED BY <1>2, <1>7, <2>1 DEF UpdateFails
<1>8. ASSUME NEW g \in Groups, SendGroup(g) PROVE VisibleInv'
  <2>1. counters'["scrapeErrors"] = counters["scrapeErrors"]
    BY <1>1, <1>8 DEF SendGroup, CollectGroup, Sample, Counters
  <2>2. /\ g \in DOMAIN groups /\ left' = left \ {g}
        /\ sent'.groups = sent.groups \cup {g}
    BY <1>1, <1>8 DEF SendGroup, CollectorInv, TypeOK, Sent
  <2> QED BY <1>2, <1>8, <2>1, <2>2 DEF SendGroup
<1>9. CASE GroupsSent
  BY <1>2, <1>9 DEF GroupsSent
<1>10. CASE SendErrors
  <2>1. sent'.groups = sent.groups
    BY <1>1, <1>10 DEF SendErrors, Sent
  <2> QED BY <1>2, <1>10, <2>1 DEF SendErrors
<1>11. CASE SendPaths
  <2>1. counters'["scrapeErrors"] = counters["scrapeErrors"]
    BY <1>1, <1>11 DEF SendPaths, Sample, Counters
  <2>2. sent'.counters["scrapeErrors"] = sent.counters["scrapeErrors"]
    BY <1>1, <1>2, <1>11 DEF SendPaths, Sent
  <2>3. last'["scrapeErrors"] = counters["scrapeErrors"]
    BY <1>2, <1>11, <2>2 DEF SendPaths, CollectorInv, CountersInv
  <2> QED BY <1>2, <1>11, <2>1, <2>3 DEF SendPaths
<1>12. CASE Done
  BY <1>12 DEF Done
<1>13. CASE UNCHANGED vars
  BY <1>13 DEF vars
<1> QED BY <1>3, <1>4, <1>5, <1>6, <1>7, <1>8, <1>9, <1>10, <1>11, <1>12, <1>13
           DEF Next, Start

(* A scrape that failed says so in its own answer and carries no group;    *)
(* any other carries every group of its Update.                            *)
THEOREM FailuresAreVisible == Spec => []FailureIsVisible
<1>1. Init => VisibleInv
  BY DEF Init, VisibleInv, Zero, Counters
<1>2. CollectorInv /\ VisibleInv => FailureIsVisible
  <2> SUFFICES ASSUME CollectorInv, VisibleInv, server = "paths"
               PROVE  /\ sent.counters["scrapeErrors"] = reported.failed
                      /\ IF sent.counters["scrapeErrors"] > last["scrapeErrors"]
                         THEN sent.groups = {}
                         ELSE sent.groups = DOMAIN groups
    BY DEF FailureIsVisible
  <2>1. /\ sent.counters["scrapeErrors"] = counters["scrapeErrors"]
        /\ counters["scrapeErrors"] \in Nat /\ last["scrapeErrors"] \in Nat
    BY DEF CollectorInv, CountersInv, TypeOK, Sample, Counters, ErrorCounters
  <2> QED BY <2>1 DEF VisibleInv
<1> QED BY <1>1, <1>2, VisibleStep, CollectorInvariant, PTL DEF Spec

LEMMA SkipStep ==
    ASSUME Cgroup, CollectorInv, SkipInv, [Next]_vars PROVE SkipInv'
<1> USE DEF SkipInv
<1>1. /\ counters \in Sample /\ last \in Sample /\ sent \in Sent
      /\ counters["skipped"] \in Nat /\ last["skipped"] \in Nat
  BY DEF CollectorInv, TypeOK, Sample, Counters
<1>2. DOMAIN groups \in SUBSET Groups /\ IsFiniteSet(DOMAIN groups)
  BY FS_Subset DEF CollectorInv, TypeOK
<1>3. IsFiniteSet(Spanning) /\ Cardinality(Spanning) \in Nat
  BY <1>2, FS_Subset, FS_CardinalityType DEF Spanning
<1>4. CASE FirstUpdate
  <2>1. counters'["skipped"] = counters["skipped"]
    BY <1>1, <1>4 DEF FirstUpdate, CountFirst, Sample, Counters
  <2> QED BY <1>1, <1>4, <2>1 DEF FirstUpdate
<1>5. ASSUME NEW c \in Calls, Collect(c) PROVE SkipInv'
  <2>1. Spanning' = Spanning
    BY <1>5 DEF Collect, Spanning
  <2> QED BY <1>5, <2>1 DEF Collect
<1>6. CASE Receive
  BY <1>6 DEF Receive, NothingSent
<1>7. CASE Update
  <2>1. counters'["skipped"] = counters["skipped"]
    BY <1>1, <1>7 DEF Update, CountErrors, Sample, Counters
  <2>2. Spanning' = {}
    BY <1>7 DEF Update, Spanning
  <2>3. Cardinality(Spanning') = 0
    BY <2>2, FS_EmptySet
  <2> QED BY <1>1, <1>7, <2>1, <2>3 DEF Update
<1>8. CASE UpdateFails
  <2>1. counters'["skipped"] = counters["skipped"]
    BY <1>1, <1>8 DEF UpdateFails, Sample, Counters
  <2>2. Spanning' = {}
    BY <1>8 DEF UpdateFails, Spanning
  <2>3. Cardinality(Spanning') = 0
    BY <2>2, FS_EmptySet
  <2> QED BY <1>1, <1>8, <2>1, <2>3 DEF UpdateFails
<1>9. ASSUME NEW g \in Groups, SendGroup(g) PROVE SkipInv'
  <2>1. /\ g \in DOMAIN groups /\ left' = left \ {g} /\ g \in left
        /\ sent'.groups = sent.groups \cup {g}
        /\ sent'.cgroups = IF groups[g] = "path" THEN sent.cgroups \cup {g}
                                                ELSE sent.cgroups
    BY <1>1, <1>9 DEF SendGroup, CollectorInv, TypeOK, Sent, HasCgroupSeries
  <2>2. CASE groups[g] = "conflict"
    <3>1. counters'["skipped"] = counters["skipped"] + 1
      BY <1>1, <1>9, <2>2 DEF SendGroup, CollectGroup, Sample, Counters
    <3>2. Spanning' = Spanning \cup {g} /\ g \notin Spanning
      BY <1>9, <2>1, <2>2 DEF SendGroup, Spanning
    <3>3. Cardinality(Spanning') = Cardinality(Spanning) + 1
      BY <1>3, <3>2, FS_AddElement
    <3> QED BY <1>1, <1>3, <1>9, <2>1, <2>2, <3>1, <3>3 DEF SendGroup
  <2>3. CASE groups[g] # "conflict"
    <3>1. counters'["skipped"] = counters["skipped"]
      BY <1>1, <1>9, <2>3 DEF SendGroup, CollectGroup, Sample, Counters
    <3>2. Spanning' = Spanning
      BY <1>9, <2>1, <2>3 DEF SendGroup, Spanning
    <3> QED BY <1>1, <1>3, <1>9, <2>1, <2>3, <3>1, <3>2 DEF SendGroup
  <2> QED BY <2>2, <2>3
<1>10. CASE GroupsSent
  <2>1. Spanning' = Spanning
    BY <1>10 DEF GroupsSent, Spanning
  <2> QED BY <1>10, <2>1 DEF GroupsSent
<1>11. CASE SendErrors
  <2>1. sent'.groups = sent.groups /\ sent'.cgroups = sent.cgroups
    BY <1>1, <1>11 DEF SendErrors, Sent
  <2>2. Spanning' = Spanning
    BY <1>11 DEF SendErrors, Spanning
  <2> QED BY <1>11, <2>1, <2>2 DEF SendErrors
<1>12. CASE SendPaths
  <2>1. counters'["skipped"] = counters["skipped"] /\ counters'["skipped"] \in Nat
    BY <1>1, <1>12 DEF SendPaths, Sample, Counters
  <2>2. "skipped" \in Counters /\ "skipped" \notin ErrorCounters
    BY DEF Counters, ErrorCounters
  <2>3. last'["skipped"] = counters'["skipped"]
    BY <1>1, <1>12, <2>2 DEF SendPaths, Sent
  <2> QED BY <1>12, <2>1, <2>3 DEF SendPaths
<1>13. CASE Done
  BY <1>1, <1>13 DEF Done
<1>14. CASE UNCHANGED vars
  <2>1. Spanning' = Spanning
    BY <1>14 DEF vars, Spanning
  <2> QED BY <1>14, <2>1 DEF vars
<1> QED BY <1>4, <1>5, <1>6, <1>7, <1>8, <1>9, <1>10, <1>11, <1>12, <1>13, <1>14
           DEF Next, Start

(* However many groups there are: the ones that span cgroups are counted   *)
(* once each, and a group has series of a cgroup only if its processes     *)
(* agree on one of their own.                                              *)
THEOREM SkippedAreCounted == Spec => []SkipAndCount
<1>1. Init => SkipInv
  BY DEF Init, SkipInv, Zero, Counters
<1>2. CollectorInv /\ SkipInv => SkipAndCount
  <2> SUFFICES ASSUME CollectorInv, SkipInv, server = "paths",
                      NEW spanning,
                      spanning = {g \in DOMAIN groups : groups[g] = "conflict"}
               PROVE  /\ counters["skipped"] - last["skipped"]
                             = Cardinality(spanning)
                      /\ sent.cgroups = {g \in sent.groups : groups[g] = "path"}
    BY DEF SkipAndCount
  <2>1. Spanning = spanning
    BY DEF SkipInv, Spanning
  <2>2. counters["skipped"] \in Nat /\ last["skipped"] \in Nat
    BY DEF CollectorInv, TypeOK, Sample, Counters
  <2>3. IsFiniteSet(spanning)
    BY FS_Subset DEF CollectorInv, TypeOK
  <2>4. Cardinality(spanning) \in Nat
    BY <2>3, FS_CardinalityType
  <2> QED BY <2>1, <2>2, <2>4 DEF SkipInv
<1>3. CASE Cgroup
  BY <1>1, <1>2, <1>3, SkipStep, CollectorInvariant, PTL DEF Spec
<1>4. CASE ~Cgroup
  <2>1. SkipAndCount
    BY <1>4 DEF SkipAndCount
  <2> QED BY <2>1, PTL
<1> QED BY <1>3, <1>4, CollectorBounds

-----------------------------------------------------------------------------
(* Refinement: what a call sees changes in three steps, Collect, SendPaths *)
(* and Done; every other step of the collector is a stutter.               *)
LEMMA Stutters ==
    ASSUME CollectorInv, UNCHANGED <<answer, last>>,
           \A c \in Calls : CallStatus'[c] = CallStatus[c]
    PROVE  UNCHANGED Server!serverVars
<1>1. CallStatus' = CallStatus
  BY DEF CallStatus
<1> QED BY <1>1 DEF Server!serverVars

LEMMA ServerStep ==
    ASSUME CollectorInv, CollectorInv', [Next]_vars
    PROVE  [Server!ServerNext]_(Server!serverVars)
<1> USE DEF CollectorInv
<1>1. ASSUME NEW c \in Calls, Collect(c) PROVE Server!Request(c)
  <2>1. c # serving
    BY <1>1 DEF Collect, HandshakeInv
  <2>2. CallStatus' = [CallStatus EXCEPT ![c] = "pending"]
    BY <1>1, <2>1 DEF CallStatus, Collect, TypeOK
  <2>3. CallStatus[c] = "idle"
    BY <1>1 DEF CallStatus, Collect
  <2> QED BY <1>1, <2>2, <2>3 DEF Server!Request, Collect
<1>2. CASE SendPaths
  <2>1. serving \in Calls /\ status[serving] = "waiting"
    BY <1>2 DEF SendPaths, HandshakeInv, TypeOK, Idle
  <2>2. CallStatus[serving] = "pending"
    BY <1>2, <2>1 DEF CallStatus, SendPaths
  <2>3. CallStatus' = [CallStatus EXCEPT ![serving] = "answered"]
    BY <1>2, <2>1 DEF CallStatus, SendPaths
  <2>4. Server!Answer(serving)
    BY <1>2, <2>2, <2>3, SendPathsEffect
       DEF Server!Answer, Server!Sample, Sample
  <2> QED BY <2>1, <2>4 DEF Server!ServerNext
<1>3. CASE Done
  <2>1. serving \in Calls /\ status[serving] = "waiting"
    BY <1>3 DEF Done, HandshakeInv, TypeOK, Idle
  <2>2. CallStatus[serving] = "answered"
    BY <1>3, <2>1 DEF CallStatus, Done
  <2>3. CallStatus' = [CallStatus EXCEPT ![serving] = "idle"]
    BY <1>3, <2>1 DEF CallStatus, Done, TypeOK, HandshakeInv
  <2>4. Server!Return(serving)
    BY <1>3, <2>2, <2>3 DEF Server!Return, Done
  <2> QED BY <2>1, <2>4 DEF Server!ServerNext
<1>4. CASE Receive
  <2>1. /\ queue \in Seq(Calls) /\ queue # <<>> /\ Head(queue) = queue[1]
        /\ 1 \in 1..Len(queue)
    BY <1>4 DEF Receive, TypeOK
  <2>2. status[Head(queue)] = "queued"
    BY <2>1 DEF HandshakeInv
  <2>3. \A c \in Calls : status'[c] = "idle" <=> status[c] = "idle"
    BY <1>4, <2>2 DEF Receive, TypeOK
  <2>4. \A c \in Calls : CallStatus'[c] = CallStatus[c]
    BY <1>4, <2>3 DEF CallStatus, Receive
  <2> QED BY <1>4, <2>4, Stutters DEF Receive
<1>5. CASE /\ UNCHANGED <<serving, status, answer, last>>
           /\ server # "done" /\ server' # "done"
  <2>1. \A c \in Calls : CallStatus'[c] = CallStatus[c]
    BY <1>5 DEF CallStatus
  <2> QED BY <1>5, <2>1, Stutters
<1>6. CASE UNCHANGED vars
  <2>1. \A c \in Calls : CallStatus'[c] = CallStatus[c]
    BY <1>6 DEF vars, CallStatus
  <2> QED BY <1>6, <2>1, Stutters DEF vars
<1>7. CASE FirstUpdate \/ Update \/ UpdateFails \/ GroupsSent \/ SendErrors
  BY <1>5, <1>7 DEF FirstUpdate, Update, UpdateFails, GroupsSent, SendErrors
<1>8. ASSUME NEW g \in Groups, SendGroup(g)
      PROVE  [Server!ServerNext]_(Server!serverVars)
  BY <1>5, <1>8 DEF SendGroup
<1> QED BY <1>1, <1>2, <1>3, <1>4, <1>6, <1>7, <1>8
           DEF Next, Start, Server!ServerNext

(* Any number of concurrent calls of Collect are answered one by one, each *)
(* between its request and its return, with counters that never go down.   *)
THEOREM CollectorImplementsScrapeServer == Spec => ImplementsScrapeServer
<1>1. Init => Server!ServerInit
  BY DEF Init, Server!ServerInit, CallStatus, Zero, Server!Zero
<1> QED BY <1>1, ServerStep, CollectorInvariant, PTL
           DEF Spec, ImplementsScrapeServer, Server!ServerSpec

-----------------------------------------------------------------------------
(* The program.                                                            *)

(* Each step of the program is one of the collector, or leaves it alone.   *)
LEMMA StepOfCollector == ASSUME [ExporterNext]_allVars PROVE [Next]_vars
<1>1. CASE Main
  <2>1. CASE Construct
    BY <2>1 DEF Construct, Next
  <2>2. CASE OnceScrape
    <3>1. OnceCall \in Calls
      BY SomeCall DEF OnceCall
    <3> QED BY <2>2, <3>1 DEF OnceScrape, Next
  <2>3. CASE DoNotStart \/ OnceReturns \/ Notify \/ StartHandler \/ Listen
             \/ ServerClosed
    BY <2>3 DEF DoNotStart, OnceReturns, Notify, StartHandler, Listen,
                ServerClosed, Quiet
  <2> QED BY <1>1, <2>1, <2>2, <2>3 DEF Main
<1>2. CASE ServeFails \/ Signal \/ CallShutdown \/ ShutdownDone \/ ShutdownFails
  BY <1>2 DEF ServeFails, Signal, CallShutdown, ShutdownDone, ShutdownFails, Quiet
<1>3. ASSUME NEW c \in Calls, Request(c) PROVE [Next]_vars
  BY <1>3 DEF Request, Next
<1>4. CASE Scrape
  BY <1>4 DEF Scrape, Next
<1>5. CASE UNCHANGED allVars
  BY <1>5 DEF allVars
<1> QED BY <1>1, <1>2, <1>3, <1>4, <1>5 DEF ExporterNext

(* The program runs the collector as Collector describes it, from its      *)
(* constructor to the moment it ends.                                      *)
THEOREM RunsCollector == ExporterSpec => Spec
<1>1. ExporterInit => Init
  BY DEF ExporterInit
<1> QED BY <1>1, StepOfCollector, PTL DEF ExporterSpec, Spec

(* Hence requests are answered one by one, each between its arrival and    *)
(* its return, with counters that never go down, until the program ends.   *)
THEOREM ExporterImplementsScrapeServer == ExporterSpec => ImplementsScrapeServer
BY RunsCollector, CollectorImplementsScrapeServer, PTL

(* Types: in particular the channel never holds more than one signal.      *)
THEOREM ExporterTypeCorrect == ExporterSpec => []ExporterTypeOK
<1> DEFINE Mine == /\ main \in {"start", "first", "firstWait", "second",
                                "secondWait", "notify", "handle", "listen",
                                "serve"} \cup Ended
                   /\ shutdown \in {"none", "waiting", "closing", "done"}
                   /\ sigs \in 0..1
                   /\ asked \in BOOLEAN
<1>1. ExporterInit => Mine
  <2> SUFFICES ASSUME ExporterInit PROVE Mine
    OBVIOUS
  <2>1. asked \in BOOLEAN
    BY Zenon DEF ExporterInit
  <2>2. sigs \in 0..1
    BY DEF ExporterInit
  <2> QED BY <2>1, <2>2, Zenon DEF ExporterInit
<1>2. Mine /\ [ExporterNext]_allVars => Mine'
  <2> SUFFICES ASSUME Mine, [ExporterNext]_allVars PROVE Mine'
    OBVIOUS
  <2> USE DEF Ended
  <2>1. CASE Main
    BY <2>1 DEF Main, Construct, DoNotStart, OnceScrape, OnceReturns, Notify,
                StartHandler, Listen, ServerClosed, Go, Quiet
  <2>2. CASE ServeFails \/ CallShutdown \/ ShutdownDone \/ ShutdownFails
    BY <2>2 DEF ServeFails, CallShutdown, ShutdownDone, ShutdownFails, Go, Quiet
  <2>3. CASE Signal
    <3>1. asked' \in BOOLEAN
      BY <2>3, Zenon DEF Signal, Deliver, Killed
    <3>2. sigs' \in 0..1
      BY <2>3 DEF Signal, Deliver, Killed
    <3>3. main' \in {"start", "first", "firstWait", "second", "secondWait",
                     "notify", "handle", "listen", "serve"} \cup Ended
      BY <2>3, Zenon DEF Signal, Deliver, Killed
    <3>4. shutdown' = shutdown
      BY <2>3 DEF Signal, Deliver, Killed
    <3> QED BY <3>1, <3>2, <3>3, <3>4, Zenon
  <2>4. ASSUME NEW c \in Calls, Request(c) PROVE Mine'
    BY <2>4 DEF Request, mainVars
  <2>5. CASE Scrape
    BY <2>5 DEF Scrape, mainVars
  <2>6. CASE UNCHANGED allVars
    BY <2>6 DEF allVars, mainVars
  <2> QED BY <2>1, <2>2, <2>3, <2>4, <2>5, <2>6 DEF ExporterNext
<1>3. ExporterSpec => []Mine
  BY <1>1, <1>2, PTL DEF ExporterSpec
<1>4. TypeOK /\ Mine => ExporterTypeOK
  BY DEF ExporterTypeOK
<1> QED BY <1>3, <1>4, RunsCollector, TypeCorrect, PTL
=============================================================================

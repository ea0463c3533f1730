----------------------------- MODULE ProcReader -----------------------------
(***************************************************************************)
(* One process, from /proc (proc/read.go, GetMetrics and GetThreads) to    *)
(* the counters of its group (proc/tracker.go, handleProc, track, update   *)
(* and getUpdate): what becomes of its threads and of its counters when    *)
(* threads come and go between two files that are read, and when a file    *)
(* cannot be read.  Counters are words of the machine.                     *)
(*                                                                         *)
(* The process lives on and its group has no other; Tracker is about       *)
(* processes that exit, Grouper about groups of several.  ReadBytes stands *)
(* for the counters of /proc/<pid>/io, the context switches for those that *)
(* are summed over the threads, waiting for a state and for a wchan.       *)
(***************************************************************************)
EXTENDS Integers, FiniteSets

CONSTANTS
    Threads,        \* proc.ThreadID: a tid and the time the thread started
    Main,           \* the first thread, whose files are those of the process
    Word,           \* counters are taken modulo this, 2^64 in the code
    StartedSince,   \* did the process start after the first Update?
    MaxSwitches,    \* bound: context switches of one thread
    MaxBytes,       \* bound: bytes read by the process
    MayDeny         \* may /proc/<pid>/io become unreadable?

ASSUME ThreadsAssumption == Main \in Threads
ASSUME WordAssumption == /\ Word \in Nat
                         /\ MaxSwitches \in Nat
                         /\ MaxBytes \in Nat
                         /\ MaxSwitches < Word
                         /\ MaxBytes < Word
ASSUME ReaderModes == StartedSince \in BOOLEAN /\ MayDeny \in BOOLEAN

(* proc.Counts and Delta, and a trackedThread.                             *)
Counts  == [bytes : 0..Word - 1, switches : 0..Word - 1]
Zero    == [bytes |-> 0, switches |-> 0]
Tracked == [accum : 0..Word - 1, latest : 0..Word - 1]

(* What was read of a thread.                                              *)
Reading == [switches : 0..MaxSwitches, waiting : BOOLEAN]
Nobody  == [t \in {} |-> Zero]

VARIABLES
    alive,        \* the threads there are
    switches,     \* the context switches each has made
    waiting,      \* the threads that wait, in state D and with a wchan
    bytes,        \* the bytes the process has read
    readable,     \* may the exporter read /proc/<pid>/io?
    pc,           \* idle, or what has been read of the process so far
    metrics,      \* what GetMetrics returned
    listed,       \* threads of /proc/<pid>/task still to be read
    read,         \* threads read -> what was read of them
    known,        \* is the process tracked?
    counts,       \* trackedProc: the counts of its metrics
    threads,      \* trackedProc: ThreadID -> trackedThread
    update,       \* the Update on the process
    total,        \* the counts of its group
    first,        \* history: counts it was tracked with and not credited
    credit        \* history: the increments reported for each thread

kernelVars == <<alive, switches, waiting, bytes, readable>>
readerVars == <<pc, metrics, listed, read>>
trackVars  == <<known, counts, threads, update, total, first, credit>>
vars       == <<kernelVars, readerVars, trackVars>>

Metrics == [counts : Counts, waiting : 0..1, soft : 0..1]
Update  == [latest : Counts, waiting : Nat, threads : Nat, soft : 0..1]

NoMetrics == [counts |-> Zero, waiting |-> 0, soft |-> 0]
NoUpdate  == [latest |-> Zero, waiting |-> 0, threads |-> 0, soft |-> 0]

TypeOK ==
    /\ alive \in SUBSET Threads
    /\ switches \in [Threads -> 0..MaxSwitches]
    /\ waiting \in SUBSET alive
    /\ bytes \in 0..MaxBytes
    /\ readable \in BOOLEAN
    /\ pc \in {"idle", "task", "threads"}
    /\ metrics \in Metrics
    /\ listed \in SUBSET Threads
    /\ DOMAIN read \subseteq Threads
    /\ \A t \in DOMAIN read : read[t] \in Reading
    /\ known \in BOOLEAN
    /\ counts \in Counts
    /\ DOMAIN threads \subseteq Threads
    /\ \A t \in DOMAIN threads : threads[t] \in Tracked
    /\ update \in Update
    /\ total \in Counts
    /\ first \in Counts
    /\ credit \in [Threads -> Nat]

Init ==
    /\ alive = {Main}
    /\ switches = [t \in Threads |-> 0]
    /\ waiting = {}
    /\ bytes = 0
    /\ readable = TRUE
    /\ pc = "idle"
    /\ metrics = NoMetrics
    /\ listed = {}
    /\ read = Nobody
    /\ known = FALSE
    /\ counts = Zero
    /\ threads = Nobody
    /\ update = NoUpdate
    /\ total = Zero
    /\ first = Zero
    /\ credit = [t \in Threads |-> 0]

-----------------------------------------------------------------------------
(* The process, and the kernel.  A thread that has exited does not return: *)
(* another one with its tid has another ThreadID.                          *)
StartThread ==
    /\ \E t \in Threads \ alive :
          switches[t] = 0 /\ alive' = alive \cup {t}
    /\ UNCHANGED <<switches, waiting, bytes, readable>>

ExitThread ==
    /\ \E t \in alive \ {Main} :
          /\ switches[t] > 0
          /\ alive' = alive \ {t}
          /\ waiting' = waiting \ {t}
    /\ UNCHANGED <<switches, bytes, readable>>

Switch ==
    /\ \E t \in alive :
          /\ switches[t] < MaxSwitches
          /\ switches' = [switches EXCEPT ![t] = @ + 1]
          /\ \/ waiting' = waiting \cup {t}
             \/ waiting' = waiting \ {t}
    /\ UNCHANGED <<alive, bytes, readable>>

ReadBytes ==
    /\ bytes < MaxBytes
    /\ bytes' = bytes + 1
    /\ UNCHANGED <<alive, switches, waiting, readable>>

(* The process changes its user, or becomes dumpable again.                *)
Deny ==
    /\ MayDeny
    /\ readable' = ~readable
    /\ UNCHANGED <<alive, switches, waiting, bytes>>

Kernel ==
    /\ StartThread \/ ExitThread \/ Switch \/ ReadBytes \/ Deny
    /\ UNCHANGED <<readerVars, trackVars>>

-----------------------------------------------------------------------------
(* Mutants: what definitions below would be with a bug in the code.        *)

(* Sub does not wrap around, or stops at zero.                             *)
MinusPlain(a, b) == a - b
MinusClamped(a, b) == IF a < b THEN 0 ELSE a - b

(* The error of an unreadable io file is dropped.                          *)
IoErrorsNone == 0

(* A thread that is not known gets all of its counts for an increment.     *)
ThreadEntryAll(t) ==
    [accum  |-> read[t].switches,
     latest |-> read[t].switches - IF t \in DOMAIN threads
                                   THEN threads[t].accum ELSE 0]

-----------------------------------------------------------------------------
(* GetCounts and GetMetrics: stat and status of the process are those of   *)
(* its first thread.  If io cannot be read its counts are zero; that, or   *)
(* anything else that is missing, makes one soft error.                    *)
IoErrors == IF readable THEN 0 ELSE 1

GetMetrics ==
    /\ pc = "idle"
    /\ \E soft \in {IoErrors, 1} :
          metrics' = [counts  |-> [bytes    |-> IF readable THEN bytes ELSE 0,
                                   switches |-> switches[Main]],
                      waiting |-> IF Main \in waiting THEN 1 ELSE 0,
                      soft    |-> soft]
    /\ pc' = "task"
    /\ UNCHANGED <<kernelVars, listed, read, trackVars>>

(* GetThreads lists /proc/<pid>/task, or fails.                            *)
ListThreads ==
    /\ pc = "task"
    /\ \/ listed' = alive /\ UNCHANGED metrics
       \/ listed' = {} /\ metrics' = [metrics EXCEPT !.soft = 1]
    /\ pc' = "threads"
    /\ UNCHANGED <<kernelVars, read, trackVars>>

(* A thread that cannot be read is passed over: it has exited, or one of   *)
(* its files does not open.                                                *)
ReadThread(t) ==
    /\ pc = "threads"
    /\ t \in listed
    /\ listed' = listed \ {t}
    /\ \/ UNCHANGED read
       \/ /\ t \in alive
          /\ read' = [u \in DOMAIN read \cup {t} |->
                         IF u = t THEN [switches |-> switches[t],
                                        waiting  |-> t \in waiting]
                         ELSE read[u]]
    /\ UNCHANGED <<kernelVars, pc, metrics, trackVars>>

-----------------------------------------------------------------------------
(* handleProc, once everything is read.                                    *)
Plus(a, b)  == (a + b) % Word
Minus(a, b) == (a - b) % Word

(* Fewer than two threads are no threads.                                  *)
Found == IF Cardinality(DOMAIN read) < 2 THEN {} ELSE DOMAIN read

WaitingIn(S) == Cardinality({t \in S : read[t].waiting})

(* With threads, the switches are theirs, and their states are added.      *)
(* Their sum is a count: each thread's switches are numbered from 1.       *)
SumOfSwitches(S) ==
    LET numbered == S \X (1..MaxSwitches)
    IN  Cardinality({sw \in numbered : sw[2] <= read[sw[1]].switches}) % Word

NewCounts ==
    IF Found = {} THEN metrics.counts
    ELSE [metrics.counts EXCEPT !.switches = SumOfSwitches(Found)]

NewWaiting == metrics.waiting + WaitingIn(Found)

(* The increment of a process: track, for a new one, and update.           *)
Latest ==
    IF known THEN [bytes    |-> Minus(NewCounts.bytes, counts.bytes),
                   switches |-> Minus(NewCounts.switches, counts.switches)]
    ELSE IF StartedSince THEN NewCounts
    ELSE Zero

(* The increment of a thread: none, unless it was met the last time.       *)
ThreadEntry(t) ==
    [accum  |-> read[t].switches,
     latest |-> IF t \in DOMAIN threads
                THEN Minus(read[t].switches, threads[t].accum) ELSE 0]

HandleProc ==
    /\ pc = "threads"
    /\ listed = {}
    /\ known' = TRUE
    /\ counts' = NewCounts
    /\ threads' = [t \in Found |-> ThreadEntry(t)]
    /\ update' = [latest  |-> Latest,
                  waiting |-> NewWaiting,
                  threads |-> Cardinality(Found),
                  soft    |-> metrics.soft]
    /\ total' = [bytes    |-> Plus(total.bytes, Latest.bytes),
                 switches |-> Plus(total.switches, Latest.switches)]
    /\ first' = IF known \/ StartedSince THEN first ELSE NewCounts
    /\ credit' = [t \in Threads |-> IF t \in Found
                                    THEN credit[t] + ThreadEntry(t).latest
                                    ELSE credit[t]]
    /\ pc' = "idle"
    /\ metrics' = NoMetrics
    /\ read' = Nobody
    /\ UNCHANGED <<kernelVars, listed>>

Next ==
    \/ Kernel
    \/ GetMetrics
    \/ ListThreads
    \/ \E t \in Threads : ReadThread(t)
    \/ HandleProc

Spec == Init /\ [][Next]_vars

-----------------------------------------------------------------------------
(* Properties.                                                             *)

(* The increments reported for a thread never sum to more than it did,     *)
(* whatever listings failed, and whether or not it was alone in between.   *)
ThreadCredit == \A t \in Threads : credit[t] <= switches[t]

(* The counters of the group are those last read, however often Sub and    *)
(* Add wrapped around on the way: a glitch is gone with the next complete  *)
(* reading (read.go 210-232).                                              *)
TotalIsLastRead ==
    known => /\ total.bytes = Minus(counts.bytes, first.bytes)
             /\ total.switches = Minus(counts.switches, first.switches)

(* The I/O counters go down only if a partial error was counted, in this   *)
(* scan or in the one before (tracker.go 108).                             *)
DropIsPartialError ==
    [][total'.bytes < total.bytes => update'.soft = 1 \/ update.soft = 1]_vars

(* Counters of a group never decrease (grouper.go 134): those of I/O, and  *)
(* those summed over threads.                                              *)
BytesNeverDecrease    == [][total'.bytes >= total.bytes]_vars
SwitchesNeverDecrease == [][total'.switches >= total.switches]_vars

(* States and Wchans count threads (read.go 72, tracker.go 94): no more    *)
(* than there are.                                                         *)
ThreadsAreCountedOnce ==
    update.threads > 0 => update.waiting <= update.threads

-----------------------------------------------------------------------------
(* The inductive invariant behind ThreadCredit: readings are of the past,  *)
(* the one in hand is later than the one kept, and either covers what has  *)
(* been reported.                                                          *)
ReadersInv ==
    /\ switches \in [Threads -> 0..MaxSwitches]
    /\ credit \in [Threads -> Nat]
    /\ DOMAIN read \subseteq Threads /\ DOMAIN threads \subseteq Threads
    /\ \A t \in DOMAIN read : /\ read[t].switches \in 0..switches[t]
                              /\ credit[t] <= read[t].switches
    /\ \A t \in DOMAIN threads : /\ threads[t].accum \in 0..switches[t]
                                 /\ credit[t] <= threads[t].accum
    /\ \A t \in DOMAIN read \cap DOMAIN threads :
          threads[t].accum <= read[t].switches
    /\ ThreadCredit

(* The one behind TotalIsLastRead: everything is a word, and a process not *)
(* yet tracked has no counts in its group.                                 *)
TotalsInv ==
    /\ metrics \in Metrics /\ IsFiniteSet(DOMAIN read)
    /\ switches \in [Threads -> 0..MaxSwitches] /\ bytes \in 0..MaxBytes
    /\ {counts, first, total} \subseteq Counts
    /\ ~known => first = Zero /\ total = Zero
    /\ TotalIsLastRead

(* And behind DropIsPartialError: what was read without a partial error is *)
(* no less than anything read before.                                      *)
BytesInv ==
    /\ first.bytes <= bytes /\ counts.bytes <= bytes
    /\ metrics.counts.bytes <= bytes
    /\ update.soft = 0 => first.bytes <= counts.bytes
    /\ pc # "idle" /\ metrics.soft = 0 =>
          /\ first.bytes <= metrics.counts.bytes
          /\ counts.bytes <= metrics.counts.bytes
=============================================================================

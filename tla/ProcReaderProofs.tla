-------------------------- MODULE ProcReaderProofs --------------------------
(***************************************************************************)
(* Proofs about ProcReader, for any number of threads, any word size and   *)
(* any number of readings.                                                 *)
(*                                                                         *)
(* ReadersInv gives ThreadCredit; it is about the threads only.  TotalsInv *)
(* gives TotalIsLastRead: sums of words lose what wraps around, but sums   *)
(* of increments do not.  BytesInv adds the order of the readings of       *)
(* /proc/<pid>/io, and gives DropIsPartialError.                           *)
(***************************************************************************)
EXTENDS ProcReader, FiniteSetTheorems, TLAPS

-----------------------------------------------------------------------------
(* ReadersInv.                                                             *)

(* A difference that is not negative, and fits, does not wrap around.      *)
LEMMA MinusPast ==
    ASSUME NEW a \in 0..MaxSwitches, NEW b \in 0..a
    PROVE  Minus(a, b) = a - b
<1>1. a - b \in 0..Word - 1
  BY WordAssumption
<1>2. \A n \in 0..Word - 1 : n % Word = n
  BY WordAssumption
<1> QED BY <1>1, <1>2 DEF Minus

(* The first reading finds nothing kept and nothing reported.              *)
LEMMA ReadersInit == Init => ReadersInv
BY WordAssumption DEF Init, ReadersInv, ThreadCredit, Nobody

(* Nothing but the kernel moves, and it moves forward.                     *)
LEMMA KernelStep == ReadersInv /\ Kernel => ReadersInv'
<1> SUFFICES ASSUME ReadersInv, Kernel PROVE ReadersInv'
  OBVIOUS
<1>1. UNCHANGED <<credit, read, threads>>
  BY DEF Kernel, readerVars, trackVars
<1>2. /\ switches' \in [Threads -> 0..MaxSwitches]
      /\ \A t \in Threads : switches[t] <= switches'[t]
  <2>1. /\ switches \in [Threads -> 0..MaxSwitches]
        /\ \A t \in Threads : switches[t] \in 0..MaxSwitches
    BY DEF ReadersInv
  <2>2. CASE UNCHANGED switches
    BY <2>1, <2>2
  <2>3. ASSUME NEW t \in Threads, switches[t] < MaxSwitches,
               switches' = [switches EXCEPT ![t] = @ + 1]
        PROVE  /\ switches' \in [Threads -> 0..MaxSwitches]
               /\ \A u \in Threads : switches[u] <= switches'[u]
    <3>1. switches[t] + 1 \in 0..MaxSwitches
      BY <2>1, <2>3, WordAssumption
    <3> QED BY <2>1, <2>3, <3>1
  <2>4. \/ UNCHANGED switches
        \/ \E t \in Threads : /\ switches[t] < MaxSwitches
                              /\ switches' = [switches EXCEPT ![t] = @ + 1]
    <3>1. CASE StartThread
      BY <3>1 DEF StartThread
    <3>2. CASE ExitThread
      BY <3>2 DEF ExitThread
    <3>3. CASE Switch
      <4>1. PICK t \in alive :
               /\ switches[t] < MaxSwitches
               /\ switches' = [switches EXCEPT ![t] = @ + 1]
        BY <3>3 DEF Switch
      <4>2. CASE t \in Threads
        BY <4>1, <4>2
      <4>3. CASE t \notin Threads
        BY <2>1, <4>1, <4>3
      <4> QED BY <4>2, <4>3
    <3>4. CASE ReadBytes \/ Deny
      BY <3>4 DEF ReadBytes, Deny
    <3> QED BY <3>1, <3>2, <3>3, <3>4 DEF Kernel
  <2> QED BY <2>2, <2>3, <2>4
<1>3. \A t \in Threads : /\ switches[t] \in Nat /\ switches'[t] \in Nat
                         /\ switches[t] <= switches'[t]
                         /\ credit[t] \in Nat
  BY <1>2 DEF ReadersInv
<1>4. \A n \in Int, t \in Threads : n \in 0..switches[t] => n \in 0..switches'[t]
  BY <1>3
<1>5. \A t \in DOMAIN read : /\ read[t].switches \in 0..switches'[t]
                             /\ credit[t] <= read[t].switches
  BY <1>3, <1>4 DEF ReadersInv
<1>6. \A t \in DOMAIN threads : threads[t].accum \in 0..switches'[t]
  BY <1>3, <1>4 DEF ReadersInv
<1>7. \A t \in Threads : credit[t] <= switches'[t]
  BY <1>3 DEF ReadersInv, ThreadCredit
<1> QED BY <1>1, <1>2, <1>5, <1>6, <1>7 DEF ReadersInv, ThreadCredit

(* Reading a thread: at least what was kept of it, and no more than it did.*)
LEMMA ReadThreadStep ==
    ASSUME ReadersInv, NEW t \in Threads, ReadThread(t)
    PROVE  ReadersInv'
<1>1. UNCHANGED <<switches, credit, threads>>
  BY DEF ReadThread, kernelVars, trackVars
<1>2. CASE UNCHANGED read
  BY <1>1, <1>2 DEF ReadThread, ReadersInv, ThreadCredit
<1>3. CASE ~UNCHANGED read
  <2>1. /\ DOMAIN read' = DOMAIN read \cup {t}
        /\ \A u \in DOMAIN read' :
              read'[u].switches = IF u = t THEN switches[t]
                                           ELSE read[u].switches
    BY <1>3 DEF ReadThread
  <2>2. switches[t] \in Nat /\ switches[t] \in 0..switches[t]
    BY DEF ReadersInv
  <2>3. \A u \in DOMAIN read' : /\ read'[u].switches \in 0..switches[u]
                                /\ credit[u] <= read'[u].switches
    BY <2>1, <2>2 DEF ReadersInv, ThreadCredit
  <2>4. \A u \in DOMAIN read' \cap DOMAIN threads :
           threads[u].accum <= read'[u].switches
    BY <2>1, <2>2 DEF ReadersInv
  <2> QED BY <1>1, <2>1, <2>3, <2>4 DEF ReadersInv, ThreadCredit
<1> QED BY <1>2, <1>3

(* The increment of a thread that was met the last time is what it did     *)
(* since; all others get none.                                             *)
LEMMA ThreadIncrement ==
    ASSUME ReadersInv, NEW t \in DOMAIN read
    PROVE  /\ ThreadEntry(t).accum = read[t].switches
           /\ ThreadEntry(t).latest \in Nat
           /\ credit[t] + ThreadEntry(t).latest <= switches[t]
           /\ credit[t] + ThreadEntry(t).latest <= read[t].switches
<1>1. /\ t \in Threads /\ credit[t] \in Nat /\ credit[t] <= switches[t]
      /\ switches[t] \in 0..MaxSwitches /\ read[t].switches \in 0..switches[t]
      /\ credit[t] <= read[t].switches
  BY DEF ReadersInv, ThreadCredit
<1>2. CASE t \notin DOMAIN threads
  BY <1>1, <1>2 DEF ThreadEntry
<1>3. CASE t \in DOMAIN threads
  <2>1. /\ threads[t].accum \in 0..read[t].switches
        /\ credit[t] <= threads[t].accum
    BY <1>1, <1>3 DEF ReadersInv
  <2>2. read[t].switches \in 0..MaxSwitches
    BY <1>1, WordAssumption
  <2>3. ThreadEntry(t).latest = read[t].switches - threads[t].accum
    BY <1>3, <2>1, <2>2, MinusPast DEF ThreadEntry
  <2>4. ThreadEntry(t).accum = read[t].switches
    BY DEF ThreadEntry
  <2> QED BY <1>1, <1>3, <2>1, <2>2, <2>3, <2>4
<1> QED BY <1>2, <1>3

(* And so for all of them at once.                                         *)
LEMMA HandleProcStep == ReadersInv /\ HandleProc => ReadersInv'
<1> SUFFICES ASSUME ReadersInv, HandleProc PROVE ReadersInv'
  OBVIOUS
<1>1. /\ Found \subseteq DOMAIN read /\ DOMAIN read \subseteq Threads
      /\ UNCHANGED switches
      /\ DOMAIN read' = {}
  BY DEF Found, HandleProc, kernelVars, Nobody, ReadersInv
<1>2. /\ DOMAIN threads' = Found
      /\ \A t \in Found : threads'[t] = ThreadEntry(t)
  BY DEF HandleProc
<1>3. /\ credit' \in [Threads -> Nat]
      /\ \A t \in Threads : credit'[t] <= switches[t]
  <2>1. credit' = [t \in Threads |-> IF t \in Found
                                     THEN credit[t] + ThreadEntry(t).latest
                                     ELSE credit[t]]
    BY DEF HandleProc
  <2>2. \A t \in Threads : credit[t] \in Nat /\ credit[t] <= switches[t]
    BY DEF ReadersInv, ThreadCredit
  <2>3. \A t \in Found : /\ ThreadEntry(t).latest \in Nat
                         /\ credit[t] + ThreadEntry(t).latest <= switches[t]
    BY <1>1, ThreadIncrement
  <2> QED BY <2>1, <2>2, <2>3
<1>4. \A t \in DOMAIN threads' : /\ threads'[t].accum \in 0..switches[t]
                                 /\ credit'[t] <= threads'[t].accum
  <2> SUFFICES ASSUME NEW t \in Found
               PROVE  /\ threads'[t].accum \in 0..switches[t]
                      /\ credit'[t] <= threads'[t].accum
    BY <1>2
  <2>1. /\ t \in DOMAIN read /\ t \in Threads
        /\ threads'[t].accum = read[t].switches
    BY <1>1, <1>2, ThreadIncrement
  <2>2. credit'[t] = credit[t] + ThreadEntry(t).latest
    BY <2>1 DEF HandleProc
  <2> QED BY <2>1, <2>2, ThreadIncrement DEF ReadersInv
<1> QED BY <1>1, <1>2, <1>3, <1>4 DEF ReadersInv, ThreadCredit

(* Every step, by its action.                                              *)
LEMMA ReadersStep == ReadersInv /\ [Next]_vars => ReadersInv'
<1> SUFFICES ASSUME ReadersInv, [Next]_vars PROVE ReadersInv'
  OBVIOUS
<1>1. CASE Kernel
  BY <1>1, KernelStep
<1>2. CASE UNCHANGED <<switches, credit, read, threads>>
  BY <1>2 DEF ReadersInv, ThreadCredit
<1>3. CASE GetMetrics \/ ListThreads \/ UNCHANGED vars
  BY <1>2, <1>3 DEF GetMetrics, ListThreads, vars, kernelVars, readerVars,
                    trackVars
<1>4. ASSUME NEW t \in Threads, ReadThread(t) PROVE ReadersInv'
  BY <1>4, ReadThreadStep
<1>5. CASE HandleProc
  BY <1>5, HandleProcStep
<1> QED BY <1>1, <1>3, <1>4, <1>5 DEF Next

(* No thread's increments sum to more than it did: handleProc drops a      *)
(* thread it did not meet, and update gives one it meets again nothing for *)
(* what it did in between (tracker.go 207-218).                            *)
THEOREM ThreadsAreNotOvercounted == Spec => []ThreadCredit
<1>1. ReadersInv => ThreadCredit
  BY DEF ReadersInv
<1> QED BY <1>1, ReadersInit, ReadersStep, PTL DEF Spec

-----------------------------------------------------------------------------
(* TotalsInv.                                                              *)

(* Words: within one turn of them, a remainder is what is left after that. *)
LEMMA Remainder ==
    ASSUME NEW n \in Int
    PROVE  /\ n \in 0..Word - 1 => n % Word = n
           /\ n \in Word..Word + Word - 1 => n % Word = n - Word
           /\ n \in -Word..-1 => n % Word = n + Word
<1>0. Word \in Nat /\ Word > 0
  BY WordAssumption
<1>1. n \in 0..Word - 1 => n % Word = n
  BY <1>0
<1>2. n \in Word..Word + Word - 1 => n % Word = n - Word
  BY <1>0
<1>3. n \in -Word..-1 => n % Word = n + Word
  BY <1>0
<1> QED BY <1>1, <1>2, <1>3

(* Sub and Add wrap around once at most.                                   *)
LEMMA Wraps ==
    ASSUME NEW a \in 0..Word - 1, NEW b \in 0..Word - 1
    PROVE  /\ Minus(a, b) = IF b <= a THEN a - b ELSE a - b + Word
           /\ Plus(a, b) = IF a + b < Word THEN a + b ELSE a + b - Word
           /\ Minus(a, b) \in 0..Word - 1 /\ Plus(a, b) \in 0..Word - 1
<1>0. Word \in Nat /\ Word > 0
  BY WordAssumption
<1>1. Minus(a, b) = IF b <= a THEN a - b ELSE a - b + Word
  <2>1. a - b \in Int /\ (b <= a => a - b \in 0..Word - 1)
        /\ (~(b <= a) => a - b \in -Word..-1)
    BY <1>0
  <2> QED BY <2>1, Remainder DEF Minus
<1>2. Plus(a, b) = IF a + b < Word THEN a + b ELSE a + b - Word
  <2>1. a + b \in Int /\ (a + b < Word => a + b \in 0..Word - 1)
        /\ (~(a + b < Word) => a + b \in Word..Word + Word - 1)
    BY <1>0
  <2> QED BY <1>0, <2>1, Remainder DEF Plus
<1> QED BY <1>0, <1>1, <1>2

(* A glitch is gone: what was added on the way from a to c is what lies    *)
(* between them.                                                           *)
LEMMA GlitchIsGone ==
    ASSUME NEW a \in 0..Word - 1, NEW b \in 0..Word - 1, NEW c \in 0..Word - 1
    PROVE  Plus(Minus(b, a), Minus(c, b)) = Minus(c, a)
<1>0. Word \in Nat /\ Word > 0
  BY WordAssumption
<1>1. /\ Minus(b, a) \in 0..Word - 1 /\ Minus(c, b) \in 0..Word - 1
      /\ Minus(b, a) = IF a <= b THEN b - a ELSE b - a + Word
      /\ Minus(c, b) = IF b <= c THEN c - b ELSE c - b + Word
      /\ Minus(c, a) = IF a <= c THEN c - a ELSE c - a + Word
  BY Wraps
<1>2. Plus(Minus(b, a), Minus(c, b)) =
         IF Minus(b, a) + Minus(c, b) < Word THEN Minus(b, a) + Minus(c, b)
         ELSE Minus(b, a) + Minus(c, b) - Word
  BY <1>1, Wraps
<1> QED BY <1>0, <1>1, <1>2

(* What is read of a process are words, summed over its threads or not.    *)
LEMMA NewCountsAreWords ==
    ASSUME TotalsInv
    PROVE  /\ NewCounts \in Counts
           /\ NewCounts.bytes = metrics.counts.bytes
<1>0. metrics.counts \in Counts /\ IsFiniteSet(DOMAIN read) /\ Word \in Nat /\ Word > 0
  BY WordAssumption DEF TotalsInv, Metrics
<1>1. SumOfSwitches(Found) \in 0..Word - 1
  <2> DEFINE numbered == Found \X (1..MaxSwitches)
             each == {sw \in numbered : sw[2] <= read[sw[1]].switches}
  <2>1. IsFiniteSet(Found) /\ IsFiniteSet(1..MaxSwitches)
    <3>1. Found = {} \/ Found = DOMAIN read
      BY DEF Found
    <3>2. IsFiniteSet(1..MaxSwitches)
      BY WordAssumption, FS_Interval
    <3> QED BY <1>0, <3>1, <3>2, FS_EmptySet
  <2>2. IsFiniteSet(each)
    BY <2>1, FS_Product, FS_Subset
  <2>3. Cardinality(each) \in Nat
    BY <2>2, FS_CardinalityType
  <2>4. \A n \in Nat : n % Word \in 0..Word - 1
    BY <1>0
  <2>5. SumOfSwitches(Found) = Cardinality(each) % Word
    BY DEF SumOfSwitches
  <2> HIDE DEF each
  <2> QED BY <2>3, <2>4, <2>5
<1> QED BY <1>0, <1>1 DEF NewCounts, Counts

(* A process nobody has read has no counts.                                *)
LEMMA TotalsInit == Init => TotalsInv
BY WordAssumption, FS_EmptySet
   DEF Init, TotalsInv, TotalIsLastRead, Metrics, NoMetrics, Counts, Zero, Nobody

(* What the process does shows when it is read only.                       *)
LEMMA TotalsKernel == TotalsInv /\ Kernel => TotalsInv'
<1> SUFFICES ASSUME TotalsInv, Kernel PROVE TotalsInv'
  OBVIOUS
<1>1. UNCHANGED <<metrics, read, counts, first, total, known>>
  BY DEF Kernel, readerVars, trackVars
<1>2. switches' \in [Threads -> 0..MaxSwitches] /\ bytes' \in 0..MaxBytes
  <2>1. switches \in [Threads -> 0..MaxSwitches] /\ bytes \in 0..MaxBytes
    BY DEF TotalsInv
  <2>2. CASE Switch
    <3>1. PICK t : switches[t] < MaxSwitches /\ switches' = [switches EXCEPT ![t] = @ + 1]
      BY <2>2 DEF Switch
    <3>2. t \in Threads => switches[t] + 1 \in 0..MaxSwitches
      BY <2>1, <3>1, WordAssumption
    <3> QED BY <2>1, <2>2, <3>1, <3>2 DEF Switch
  <2>3. CASE ReadBytes
    BY <2>1, <2>3, WordAssumption DEF ReadBytes
  <2> QED BY <2>1, <2>2, <2>3 DEF Kernel, StartThread, ExitThread, Deny
<1> QED BY <1>1, <1>2 DEF TotalsInv, TotalIsLastRead

(* The total follows the counts kept.                                      *)
LEMMA TotalsHandle == TotalsInv /\ HandleProc => TotalsInv'
<1> SUFFICES ASSUME TotalsInv, HandleProc PROVE TotalsInv'
  OBVIOUS
<1>0. /\ NewCounts \in Counts /\ counts \in Counts /\ first \in Counts /\ total \in Counts
      /\ Zero \in Counts /\ Word \in Nat /\ Word > 0
  BY NewCountsAreWords, WordAssumption DEF TotalsInv, Counts, Zero
<1>1. /\ known' = TRUE /\ counts' = NewCounts
      /\ total' = [bytes |-> Plus(total.bytes, Latest.bytes),
                   switches |-> Plus(total.switches, Latest.switches)]
      /\ first' = IF known \/ StartedSince THEN first ELSE NewCounts
      /\ metrics' = NoMetrics /\ read' = Nobody
      /\ UNCHANGED <<switches, bytes>>
  BY DEF HandleProc, kernelVars
<1>2. NoMetrics \in Metrics /\ IsFiniteSet(DOMAIN Nobody)
  BY <1>0, FS_EmptySet DEF NoMetrics, Metrics, Nobody
<1>3. CASE known
  <2>1. /\ Latest.bytes = Minus(NewCounts.bytes, counts.bytes)
        /\ Latest.switches = Minus(NewCounts.switches, counts.switches)
        /\ total.bytes = Minus(counts.bytes, first.bytes)
        /\ total.switches = Minus(counts.switches, first.switches)
        /\ first' = first
    BY <1>1, <1>3 DEF Latest, TotalsInv, TotalIsLastRead
  <2>2. /\ total'.bytes = Minus(NewCounts.bytes, first.bytes)
        /\ total'.switches = Minus(NewCounts.switches, first.switches)
    BY <1>0, <1>1, <2>1, GlitchIsGone DEF Counts
  <2>3. total' \in Counts
    BY <1>0, <1>1, <2>1, Wraps DEF Counts
  <2> QED BY <1>0, <1>1, <1>2, <2>1, <2>2, <2>3 DEF TotalsInv, TotalIsLastRead
<1>4. CASE ~known
  <2>1. first = Zero /\ total = Zero
    BY <1>4 DEF TotalsInv
  <2>2. \A n \in 0..Word - 1 : Plus(0, n) = n /\ Minus(n, 0) = n /\ Minus(n, n) = 0
    BY <1>0, Wraps
  <2>3. CASE StartedSince
    <3>1. Latest = NewCounts /\ first' = Zero
      BY <1>1, <1>4, <2>1, <2>3 DEF Latest
    <3>2. /\ total'.bytes = NewCounts.bytes /\ total'.switches = NewCounts.switches
          /\ total' \in Counts
      BY <1>0, <1>1, <2>1, <2>2, <3>1 DEF Counts, Zero
    <3> QED BY <1>0, <1>1, <1>2, <2>2, <3>1, <3>2
            DEF TotalsInv, TotalIsLastRead, Counts, Zero
  <2>4. CASE ~StartedSince
    <3>1. Latest = Zero /\ first' = NewCounts
      BY <1>1, <1>4, <2>4 DEF Latest
    <3>2. total'.bytes = 0 /\ total'.switches = 0 /\ total' \in Counts
      BY <1>0, <1>1, <2>1, <2>2, <3>1 DEF Counts, Zero
    <3> QED BY <1>0, <1>1, <1>2, <2>2, <3>1, <3>2
            DEF TotalsInv, TotalIsLastRead, Counts
  <2> QED BY <2>3, <2>4
<1> QED BY <1>3, <1>4

(* Every step, by its action.                                              *)
LEMMA TotalsStep == TotalsInv /\ [Next]_vars => TotalsInv'
<1> SUFFICES ASSUME TotalsInv, [Next]_vars PROVE TotalsInv'
  OBVIOUS
<1>0. Word \in Nat /\ Word > 0 /\ MaxSwitches \in Nat /\ MaxSwitches < Word
      /\ MaxBytes \in Nat /\ MaxBytes < Word
  BY WordAssumption
<1>1. CASE Kernel
  BY <1>1, TotalsKernel
<1>2. CASE GetMetrics \/ ListThreads
  <2>1. UNCHANGED <<switches, bytes, read, counts, first, total, known>>
    BY <1>2 DEF GetMetrics, ListThreads, kernelVars, trackVars
  <2>2. metrics' \in Metrics
    <3>1. ASSUME GetMetrics PROVE metrics' \in Metrics
      <4>1. \A t : switches[t] \in 0..Word - 1 \/ t \notin Threads
        BY <1>0 DEF TotalsInv
      <4>2. bytes \in 0..Word - 1
        BY <1>0 DEF TotalsInv
      <4> QED BY <1>0, <3>1, <4>1, <4>2, ThreadsAssumption
              DEF GetMetrics, Metrics, Counts, IoErrors
    <3>2. ASSUME ListThreads PROVE metrics' \in Metrics
      BY <3>2 DEF ListThreads, TotalsInv, Metrics
    <3> QED BY <1>2, <3>1, <3>2
  <2> QED BY <2>1, <2>2 DEF TotalsInv, TotalIsLastRead
<1>3. ASSUME NEW t \in Threads, ReadThread(t) PROVE TotalsInv'
  <2>1. UNCHANGED <<switches, bytes, metrics, counts, first, total, known>>
    BY <1>3 DEF ReadThread, kernelVars, trackVars
  <2>2. DOMAIN read' \in {DOMAIN read, DOMAIN read \cup {t}}
    BY <1>3 DEF ReadThread
  <2>3. IsFiniteSet(DOMAIN read')
    BY <2>2, FS_AddElement DEF TotalsInv
  <2> QED BY <2>1, <2>3 DEF TotalsInv, TotalIsLastRead
<1>4. CASE HandleProc
  BY <1>4, TotalsHandle
<1>5. CASE UNCHANGED vars
  BY <1>5 DEF vars, kernelVars, readerVars, trackVars, TotalsInv, TotalIsLastRead
<1> QED BY <1>1, <1>2, <1>3, <1>4, <1>5 DEF Next

(* However often Sub and Add wrap around, the counters of the group are    *)
(* those last read, less those the process was tracked with.               *)
THEOREM TotalsAreLastRead == Spec => []TotalIsLastRead
<1>1. TotalsInv => TotalIsLastRead
  BY DEF TotalsInv
<1> QED BY <1>1, TotalsInit, TotalsStep, PTL DEF Spec

-----------------------------------------------------------------------------
(* BytesInv, from TotalsInv.                                               *)

(* Everything read is of the past, and the past does not grow.             *)
LEMMA BytesStep ==
    ASSUME TotalsInv, BytesInv, [Next]_vars
    PROVE  BytesInv'
<1>0. /\ bytes \in Nat /\ first.bytes \in Nat /\ counts.bytes \in Nat
      /\ metrics.counts.bytes \in Nat
      /\ NewCounts.bytes = metrics.counts.bytes /\ NewCounts \in Counts
  BY WordAssumption, NewCountsAreWords DEF TotalsInv, Counts, Metrics
<1>1. CASE Kernel
  <2>1. /\ bytes' \in Nat /\ bytes <= bytes'
    BY <1>0, <1>1 DEF Kernel, StartThread, ExitThread, Switch, ReadBytes, Deny
  <2> QED BY <1>0, <1>1, <2>1 DEF Kernel, readerVars, trackVars, BytesInv
<1>2. CASE GetMetrics
  <2>1. /\ metrics'.counts.bytes = IF readable THEN bytes ELSE 0
        /\ metrics'.soft = 0 => readable
        /\ UNCHANGED <<bytes, first, counts, update>>
    BY <1>2 DEF GetMetrics, IoErrors, kernelVars, trackVars
  <2> QED BY <1>0, <2>1 DEF BytesInv
<1>3. CASE ListThreads
  <2>1. /\ metrics'.counts = metrics.counts
        /\ metrics'.soft = 0 => metrics.soft = 0
        /\ UNCHANGED <<bytes, first, counts, update>> /\ pc # "idle"
    BY <1>3 DEF ListThreads, kernelVars, trackVars, TotalsInv, Metrics
  <2> QED BY <2>1 DEF BytesInv
<1>4. ASSUME NEW t \in Threads, ReadThread(t) PROVE BytesInv'
  BY <1>4 DEF ReadThread, kernelVars, trackVars, BytesInv
<1>5. CASE HandleProc
  <2>1. /\ counts' = NewCounts /\ update'.soft = metrics.soft /\ pc' = "idle"
        /\ first' = first \/ first' = NewCounts
        /\ metrics'.counts.bytes = 0 /\ bytes' = bytes /\ pc # "idle"
    BY <1>5 DEF HandleProc, NoMetrics, Zero, kernelVars
  <2> QED BY <1>0, <2>1 DEF BytesInv
<1>6. CASE UNCHANGED vars
  BY <1>6 DEF vars, kernelVars, readerVars, trackVars, BytesInv
<1> QED BY <1>1, <1>2, <1>3, <1>4, <1>5, <1>6 DEF Next

(* Two complete readings in a row only ever add to the total.              *)
LEMMA CompleteReadingsAdd ==
    ASSUME TotalsInv, BytesInv, HandleProc, update.soft # 1, metrics.soft # 1,
           update.soft \in 0..1
    PROVE  total.bytes <= total'.bytes
<1>0. /\ Word \in Nat /\ Word > 0
      /\ counts.bytes \in 0..Word - 1 /\ first.bytes \in 0..Word - 1
      /\ total.bytes \in 0..Word - 1 /\ metrics.counts.bytes \in 0..Word - 1
      /\ metrics.soft = 0 /\ update.soft = 0
  BY WordAssumption DEF TotalsInv, Counts, Metrics
<1>1. TotalsInv'
  BY TotalsStep DEF Next
<1>2. /\ counts'.bytes = metrics.counts.bytes /\ known'
      /\ first' = IF known \/ StartedSince THEN first ELSE NewCounts
      /\ pc # "idle"
  BY NewCountsAreWords DEF HandleProc
<1>3. CASE known
  <2>1. total.bytes = Minus(counts.bytes, first.bytes)
    BY <1>3 DEF TotalsInv, TotalIsLastRead
  <2>2. total'.bytes = Minus(metrics.counts.bytes, first.bytes)
    BY <1>1, <1>2, <1>3 DEF TotalsInv, TotalIsLastRead
  <2>3. /\ first.bytes <= counts.bytes /\ counts.bytes <= metrics.counts.bytes
        /\ first.bytes <= metrics.counts.bytes
    BY <1>0, <1>2 DEF BytesInv
  <2>4. /\ total.bytes = counts.bytes - first.bytes
        /\ total'.bytes = metrics.counts.bytes - first.bytes
    BY <1>0, <2>1, <2>2, <2>3, Wraps
  <2> QED BY <1>0, <2>3, <2>4
<1>4. CASE ~known
  <2>1. total.bytes = 0
    BY <1>4 DEF TotalsInv, Zero
  <2>2. total'.bytes \in Nat
    BY <1>0, <1>1 DEF TotalsInv, Counts
  <2> QED BY <2>1, <2>2
<1> QED BY <1>3, <1>4

(* The I/O counters of a group go down only next to a partial error.       *)
THEOREM DropsArePartialErrors == Spec => DropIsPartialError
<1> DEFINE Soft == update.soft \in 0..1
           Inv  == TotalsInv /\ BytesInv /\ Soft
<1>1. Init => Inv
  <2>1. Init => BytesInv /\ Soft
    BY DEF Init, BytesInv, NoMetrics, NoUpdate, Zero
  <2> QED BY <2>1, TotalsInit
<1>2. Inv /\ [Next]_vars => Inv'
  <2> SUFFICES ASSUME Inv, [Next]_vars PROVE Soft'
    BY TotalsStep, BytesStep
  <2>1. update' = update \/ update'.soft = metrics.soft
    <3>1. HandleProc => update'.soft = metrics.soft
      BY DEF HandleProc
    <3>2. ~HandleProc => update' = update
      BY DEF Next, Kernel, GetMetrics, ListThreads, ReadThread, trackVars, vars
    <3> QED BY <3>1, <3>2
  <2> QED BY <2>1 DEF TotalsInv, Metrics
<1>3. Inv /\ [Next]_vars =>
         [total'.bytes < total.bytes => update'.soft = 1 \/ update.soft = 1]_vars
  <2> SUFFICES ASSUME Inv, [Next]_vars, total'.bytes < total.bytes,
                      update'.soft # 1, update.soft # 1
               PROVE  FALSE
    OBVIOUS
  <2>1. total.bytes \in Int
    BY WordAssumption DEF TotalsInv, Counts
  <2>2. CASE HandleProc
    <3>1. metrics.soft # 1 /\ total'.bytes \in Int
      BY <2>2, TotalsStep, WordAssumption DEF HandleProc, TotalsInv, Counts
    <3> QED BY <2>1, <2>2, <3>1, CompleteReadingsAdd
  <2>3. CASE ~HandleProc
    <3>1. total' = total
      BY <2>3 DEF Next, Kernel, GetMetrics, ListThreads, ReadThread, trackVars, vars
    <3> QED BY <2>1, <3>1
  <2> QED BY <2>2, <2>3
<1> QED BY <1>1, <1>2, <1>3, PTL DEF Spec, DropIsPartialError
=============================================================================

------------------------------ MODULE ProcTable ------------------------------
(***************************************************************************)
(* The kernel's process table as the exporter sees it through /proc.  It   *)
(* is not code of this repository: it is what proc/read.go reads and what  *)
(* proc/tracker.go must cope with.  Processes fork, exec, burn resources   *)
(* and exit at any moment, also while a scan is under way; an orphan is    *)
(* inherited by init; a pid may be used again by a later process.          *)
(*                                                                         *)
(* A process is identified, as by proc.ID, with its pid and its start      *)
(* time: at most one process starts at each value of the clock.            *)
(***************************************************************************)
EXTENDS Integers, FiniteSets

CONSTANTS
    Pids,             \* the pids in play, positive integers
    InitPid,          \* the process every orphan is inherited by
    Names,            \* what the namer looks at: comm, cmdline, user, ...
    InitName,         \* the name of init
    MaxClock,         \* bound: number of clock ticks, hence of forks
    MaxUsed,          \* bound: resources one process may use
    MaxBusy,          \* bound: number of processes that use any
    MaxExecs          \* bound: number of exec and rename steps

ASSUME PidsAssumption == /\ Pids \subseteq Nat \ {0}
                         /\ InitPid \in Pids
ASSUME NamesAssumption == InitName \in Names
ASSUME TableBounds == /\ MaxClock \in Nat \ {0}
                      /\ MaxUsed \in Nat
                      /\ MaxBusy \in Nat
                      /\ MaxExecs \in Nat

(* A pid nobody has, and the pid init names as its parent.                 *)
NoPid == 0

(* proc.ID.  NoID is the zero value a map lookup returns for a missing key.*)
ID   == [pid : Pids, start : 0..MaxClock]
NoID == [pid |-> NoPid, start |-> 0]

VARIABLES
    clock,     \* the present
    table,     \* pid -> the process that has it; start < 0 when it is free
    used,      \* ID -> resources used so far, a counter that never decreases
    execs      \* exec and rename steps taken, bounded by MaxExecs

tableVars == <<clock, table, used, execs>>

Slot == [start : -1..MaxClock, ppid : Pids \cup {NoPid}, name : Names]
Free == [start |-> -1, ppid |-> NoPid, name |-> InitName]

Alive(p)   == table[p].start >= 0
IdOf(p)    == [pid |-> p, start |-> table[p].start]
Live(id)   == table[id.pid].start = id.start
ParentOf(p) ==
    LET parent == table[p].ppid
    IN  IF parent \in Pids /\ Alive(parent) THEN IdOf(parent) ELSE NoID
LivePids   == {p \in Pids : Alive(p)}

TableTypeOK ==
    /\ clock \in 0..MaxClock
    /\ table \in [Pids -> Slot]
    /\ used \in [ID -> 0..MaxUsed]
    /\ execs \in 0..MaxExecs

TableInit ==
    /\ clock = 1
    /\ table = [p \in Pids |->
                   IF p = InitPid
                   THEN [start |-> 0, ppid |-> NoPid, name |-> InitName]
                   ELSE Free]
    /\ used = [id \in ID |-> 0]
    /\ execs = 0

-----------------------------------------------------------------------------
(* Time passes without anything happening.                                 *)
Tick ==
    /\ clock < MaxClock
    /\ clock' = clock + 1
    /\ UNCHANGED <<table, used, execs>>

(* A process forks a child, which gets a free pid.                         *)
Fork(parent, p, name) ==
    /\ clock < MaxClock
    /\ Alive(parent)
    /\ ~Alive(p)
    /\ clock' = clock + 1
    /\ table' = [table EXCEPT ![p] =
                    [start |-> clock + 1, ppid |-> parent, name |-> name]]
    /\ UNCHANGED <<used, execs>>

(* A process changes its name, as by exec or prctl.                        *)
Exec(p, name) ==
    /\ Alive(p) /\ p # InitPid
    /\ execs < MaxExecs
    /\ name # table[p].name
    /\ table' = [table EXCEPT ![p].name = name]
    /\ execs' = execs + 1
    /\ UNCHANGED <<clock, used>>

(* A process uses resources.                                               *)
Busy == {id \in ID : used[id] > 0}

Work(p) ==
    /\ Alive(p)
    /\ used[IdOf(p)] < MaxUsed
    /\ Cardinality(Busy \cup {IdOf(p)}) <= MaxBusy
    /\ used' = [used EXCEPT ![IdOf(p)] = @ + 1]
    /\ UNCHANGED <<clock, table, execs>>

(* A process leaves the table and init inherits its children.              *)
Orphaned(p) ==
    [q \in Pids |->
        IF q = p THEN Free
        ELSE IF Alive(q) /\ table[q].ppid = p
             THEN [table[q] EXCEPT !.ppid = InitPid]
             ELSE table[q]]

Exit(p) ==
    /\ Alive(p) /\ p # InitPid
    /\ table' = Orphaned(p)
    /\ UNCHANGED <<clock, used, execs>>
=============================================================================

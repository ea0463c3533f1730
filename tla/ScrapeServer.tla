---------------------------- MODULE ScrapeServer ----------------------------
(***************************************************************************)
(* What a Prometheus server may rely on when it scrapes the exporter, from *)
(* several connections at once: a call is answered once, at one moment     *)
(* between its request and its return, and the counters of the answers,    *)
(* taken in the order they are given, never go down.                       *)
(***************************************************************************)
EXTENDS Integers

CONSTANTS Calls, Counters

VARIABLES
    status,    \* what each call is doing
    answer,    \* the counters a call was last answered with
    last       \* the counters of the last answer given to any call

serverVars == <<status, answer, last>>

Sample == [Counters -> Nat]
Zero   == [k \in Counters |-> 0]

ServerInit ==
    /\ status = [c \in Calls |-> "idle"]
    /\ answer = [c \in Calls |-> Zero]
    /\ last = Zero

Request(c) ==
    /\ status[c] = "idle"
    /\ status' = [status EXCEPT ![c] = "pending"]
    /\ UNCHANGED <<answer, last>>

Answer(c) ==
    /\ status[c] = "pending"
    /\ status' = [status EXCEPT ![c] = "answered"]
    /\ last' \in Sample
    /\ \A k \in Counters : last[k] <= last'[k]
    /\ answer' = [answer EXCEPT ![c] = last']

Return(c) ==
    /\ status[c] = "answered"
    /\ status' = [status EXCEPT ![c] = "idle"]
    /\ UNCHANGED <<answer, last>>

ServerNext == \E c \in Calls : Request(c) \/ Answer(c) \/ Return(c)

ServerSpec == ServerInit /\ [][ServerNext]_serverVars
=============================================================================

------------------------------ MODULE Exporter ------------------------------
(***************************************************************************)
(* The program (cmd/process-exporter/main.go) around its collector: main   *)
(* makes the collector, scrapes twice for -once-to-stdout-delay or serves  *)
(* HTTP, whose requests call Collect; a goroutine waits for a signal and   *)
(* shuts the server down, upon which main returns.                         *)
(*                                                                         *)
(* http.Server and os/signal are known by what main.go relies on.  A       *)
(* request whose client has given up goes on, since Collect is not told;   *)
(* the retry is another call.  A scrape may take any time, or hang in a    *)
(* read of /proc: fairness of the scrape is assumed only where it is named.*)
(***************************************************************************)
EXTENDS Collector

ASSUME SomeCall == Calls # {}

VARIABLES
    main,      \* where main() is, and how the program ended
    shutdown,  \* where the goroutine that shuts the server down is
    sigs,      \* signals in the channel of that name, which holds one
    asked      \* history: a signal came that the program handles itself

mainVars == <<main, shutdown, sigs, asked>>
allVars  == <<vars, mainVars>>

Ended   == {"ok", "failed", "killed"}
Running == main \notin Ended

ExporterTypeOK ==
    /\ TypeOK
    /\ main \in {"start", "first", "firstWait", "second", "secondWait",
                 "notify", "handle", "listen", "serve"} \cup Ended
    /\ shutdown \in {"none", "waiting", "closing", "done"}
    /\ sigs \in 0..1
    /\ asked \in BOOLEAN

ExporterInit ==
    /\ Init
    /\ main = "start"
    /\ shutdown = "none"
    /\ sigs = 0
    /\ asked = FALSE

-----------------------------------------------------------------------------
(* Mutants: what definitions below would be with a bug in the code.        *)

(* The channel grows, or has no room, so that only a receiver that waits   *)
(* gets a signal.                                                          *)
DeliverMore ==
    /\ sigs' = sigs + 1
    /\ asked' = TRUE
    /\ UNCHANGED <<main, shutdown>>

DeliverUnbuffered ==
    /\ sigs' = IF shutdown = "waiting" THEN 1 ELSE sigs
    /\ asked' = TRUE
    /\ UNCHANGED <<main, shutdown>>

-----------------------------------------------------------------------------
(* main().                                                                 *)
Go(from, to) == main = from /\ main' = to

Quiet == UNCHANGED <<vars, shutdown, sigs, asked>>

(* Flags, configuration and NewProcessCollector: any of them may fail, the *)
(* last one when its first Update does, and -version and -man end here.    *)
Construct ==
    /\ \E to \in {"first", "notify"} : Go("start", to)
    /\ FirstUpdate
    /\ UNCHANGED <<shutdown, sigs, asked>>

DoNotStart == (\E to \in {"ok", "failed"} : Go("start", to)) /\ Quiet

(* -once-to-stdout-delay: a scrape that is thrown away, the delay, and one *)
(* that is printed.                                                        *)
OnceCall == CHOOSE c \in Calls : TRUE

OnceScrape ==
    /\ Go("first", "firstWait") \/ Go("second", "secondWait")
    /\ Collect(OnceCall)
    /\ UNCHANGED <<shutdown, sigs, asked>>

OnceReturns ==
    /\ status[OnceCall] = "idle"
    /\ Go("firstWait", "second") \/ Go("secondWait", "ok")
    /\ Quiet

(* From here on a signal does not kill the program.                        *)
Notify == Go("notify", "handle") /\ Quiet

StartHandler ==
    /\ Go("handle", "listen")
    /\ shutdown' = "waiting"
    /\ UNCHANGED <<vars, sigs, asked>>

(* ListenAndServe returns an error at any time, or, as soon as Shutdown is *)
(* called, ErrServerClosed, without waiting for requests in flight.        *)
Listen == Go("listen", "serve") /\ Quiet

ServeFails == (Go("listen", "failed") \/ Go("serve", "failed")) /\ Quiet

ServerClosed ==
    /\ shutdown \in {"closing", "done"}
    /\ Go("listen", "ok") \/ Go("serve", "ok")
    /\ Quiet

Main ==
    \/ Construct \/ DoNotStart
    \/ OnceScrape \/ OnceReturns
    \/ Notify \/ StartHandler \/ Listen \/ ServerClosed

-----------------------------------------------------------------------------
(* Signals, and the goroutine that waits for the first of them.            *)
Deliver ==
    /\ sigs' = 1
    /\ asked' = TRUE
    /\ UNCHANGED <<main, shutdown>>

Killed == main' = "killed" /\ UNCHANGED <<shutdown, sigs, asked>>

Handled == main \in {"handle", "listen", "serve"}

Signal ==
    /\ Running
    /\ IF Handled THEN Deliver ELSE Killed
    /\ UNCHANGED vars

CallShutdown ==
    /\ Running
    /\ shutdown = "waiting" /\ sigs = 1
    /\ shutdown' = "closing"
    /\ sigs' = 0
    /\ UNCHANGED <<vars, main, asked>>

(* Shutdown returns when no request is in flight, or with an error: after  *)
(* five seconds, though the last request may just have ended, or when the  *)
(* listener cannot be closed.                                              *)
ShutdownDone ==
    /\ Running
    /\ shutdown = "closing" /\ \A c \in Calls : status[c] = "idle"
    /\ shutdown' = "done"
    /\ UNCHANGED <<vars, main, sigs, asked>>

ShutdownFails ==
    /\ shutdown = "closing"
    /\ Go("listen", "failed") \/ Go("serve", "failed")
    /\ Quiet

-----------------------------------------------------------------------------
(* Requests.  A connection accepted before Shutdown may still bring one.   *)
Request(c) ==
    /\ main = "serve" /\ shutdown # "done"
    /\ Collect(c)
    /\ UNCHANGED mainVars

Scrape ==
    /\ Running
    /\ Start
    /\ UNCHANGED mainVars

ExporterNext ==
    \/ Main
    \/ ServeFails
    \/ Signal
    \/ CallShutdown \/ ShutdownDone \/ ShutdownFails
    \/ \E c \in Calls : Request(c)
    \/ Scrape

ExporterSpec == ExporterInit /\ [][ExporterNext]_allVars

(* main goes on, and so does the goroutine that a signal has woken.        *)
ExporterFairSpec ==
    ExporterSpec /\ WF_allVars(Main) /\ WF_allVars(CallShutdown)

-----------------------------------------------------------------------------
(* Properties.                                                             *)

(* A signal the program has taken over ends it, also if it comes before    *)
(* the server listens, and even if a scrape hangs (main.go 316-344).       *)
SignalEnds == asked ~> ~Running

(* If scrapes do not hang, every request is answered, however many pile up *)
(* behind it because clients give up and retry, unless the program ends    *)
(* first (process_collector.go 257-269).                                   *)
EveryRequestEnds ==
    WF_allVars(Scrape) =>
        \A c \in Calls : status[c] # "idle" ~> status[c] = "idle" \/ ~Running
=============================================================================

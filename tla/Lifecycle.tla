------------------------------ MODULE Lifecycle ------------------------------
(***************************************************************************)
(* The process: cmd/k8s-storage-service-provider/main.go (run) and the     *)
(* HTTP server's Run (internal/apiserver/server.go), with the goroutines   *)
(* they start: the serving goroutine, the registrar (Registrar.tla) and    *)
(* the status monitor (monitoring/monitor.go, Start), here reduced to the  *)
(* number of events between its debouncer and NATS.  Main waits for the    *)
(* server only; when it returns, every goroutine ends with the process.    *)
(***************************************************************************)
EXTENDS Registrar

CONSTANTS MaxRequests,  \* bound on concurrent HTTP requests
          MaxEvents     \* bound on events between the debouncer and NATS

ASSUME LifecycleAssumption == MaxRequests \in Nat /\ MaxEvents \in Nat

\* What may be wrong with what the process starts from: the environment (a required
\* variable is empty, one does not parse, the access mode is none), the address, the
\* registration URL, the NATS URL, the kubeconfig.
EnvFaults == {"variable", "accessMode"}
Faults == EnvFaults \cup {"address", "registrationURL", "natsURL", "kubeconfig"}

VARIABLES
    bad,        \* the faults of this start
    mainPc,     \* where run is; see TypeOK
    exitErr,    \* run's return value is an error
    publisher,  \* the NATS connection: "none", "open" or "closed"
    serve,      \* the serving goroutine: "none", "serving", "failed", "closed"
    probed,     \* history: the readiness probe got its 200
    requests,   \* HTTP requests being handled
    monPc,      \* monitor.Start: "none", "running", "flushing", "stopped"
    events,     \* status events submitted and not yet published
    lost        \* history: events given up because NATS was closed

monitorVars == <<monPc, events, lost>>
procVars == <<bad, mainPc, exitErr, publisher, serve, probed, requests, monitorVars>>
vars == <<regVars, procVars>>

alive == mainPc # "exited"

Init ==
    /\ RegInit
    /\ bad \in SUBSET Faults
    /\ mainPc = "config"
    /\ exitErr = FALSE
    /\ publisher = "none"
    /\ serve = "none"
    /\ probed = FALSE
    /\ requests = 0
    /\ monPc = "none"
    /\ events = 0
    /\ lost = 0

-----------------------------------------------------------------------------
(* run and Server.Run                                                      *)

\* A step of run that starts nothing: it fails if one of its faults is there, and run
\* returns the error by way of the deferred calls made so far.
SetupStep(from, faults, to, deferred) ==
    /\ mainPc = from
    /\ mainPc' = IF bad \cap faults = {} THEN to ELSE deferred
    /\ exitErr' = (bad \cap faults # {})
    /\ UNCHANGED <<bad, regVars, serve, probed, requests, monitorVars>>

\* Mutant: the access mode is not validated.
LoadUnvalidated ==
    SetupStep("config", {"variable"}, "listen", "exit") /\ UNCHANGED publisher

\* config.Load.
Load == SetupStep("config", EnvFaults, "listen", "exit") /\ UNCHANGED publisher

\* net.Listen; signal.NotifyContext follows.
Listen == SetupStep("listen", {"address"}, "registrar", "exit") /\ UNCHANGED publisher

NewRegistrar ==
    SetupStep("registrar", {"registrationURL"}, "publisher", "cancel") /\ UNCHANGED publisher

\* An unreachable NATS is no fault: the connection may come up later.
NewNATSPublisher ==
    /\ SetupStep("publisher", {"natsURL"}, "client", "cancel")
    /\ publisher' = IF "natsURL" \in bad THEN publisher ELSE "open"

NewClient == SetupStep("client", {"kubeconfig"}, "run", "close") /\ UNCHANGED publisher

\* Run starts the serving goroutine.
StartServing ==
    /\ mainPc = "run"
    /\ mainPc' = "probe"
    /\ serve' = "serving"
    /\ UNCHANGED <<bad, regVars, exitErr, publisher, probed, requests, monitorVars>>

\* srv.Serve returns an error of its own.
ServeFails ==
    /\ alive /\ serve = "serving"
    /\ serve' = "failed"
    /\ UNCHANGED <<bad, regVars, mainPc, exitErr, publisher, probed, requests, monitorVars>>

\* waitForReady: the health endpoint answered 200.
ProbeOk ==
    /\ mainPc = "probe"
    /\ serve = "serving"
    /\ ~ctxDone
    /\ mainPc' = "ready"
    /\ probed' = TRUE
    /\ UNCHANGED <<bad, regVars, exitErr, publisher, serve, requests, monitorVars>>

\* Mutant: onReady runs after a failed probe too.
ProbeFailsReady ==
    /\ mainPc = "probe"
    /\ mainPc' = "ready"
    /\ UNCHANGED <<bad, regVars, exitErr, publisher, serve, probed, requests, monitorVars>>

\* waitForReady: ctx is done or its 5s deadline passes; onReady is skipped.
ProbeFails ==
    /\ mainPc = "probe"
    /\ mainPc' = "select"
    /\ UNCHANGED <<bad, regVars, exitErr, publisher, serve, probed, requests, monitorVars>>

\* onReady: registrar.Start and the monitor's goroutine.
OnReady ==
    /\ mainPc = "ready"
    /\ mainPc' = "select"
    /\ Start
    /\ monPc' = "running"
    /\ UNCHANGED <<bad, exitErr, publisher, serve, probed, requests, events, lost>>

\* The select takes ctx.Done(): Shutdown closes the listener first.
BeginShutdown ==
    /\ mainPc = "select"
    /\ ctxDone
    /\ mainPc' = "shutdown"
    /\ serve' = IF serve = "serving" THEN "closed" ELSE serve
    /\ UNCHANGED <<bad, regVars, exitErr, publisher, probed, requests, monitorVars>>

\* Mutant: the error of Serve is never looked at.
ServeErrorIgnored == FALSE /\ UNCHANGED vars

\* The select takes the error of Serve; run returns it.
ServeError ==
    /\ mainPc = "select"
    /\ serve = "failed"
    /\ mainPc' = "close"
    /\ exitErr' = TRUE
    /\ UNCHANGED <<bad, regVars, publisher, serve, probed, requests, monitorVars>>

\* Mutant: the server is closed instead of shut down.
ShutdownNoDrain ==
    /\ mainPc = "shutdown"
    /\ mainPc' = "close"
    /\ UNCHANGED <<bad, regVars, exitErr, publisher, serve, probed, requests, monitorVars>>

\* Shutdown has waited for every request.
ShutdownDone ==
    /\ mainPc = "shutdown"
    /\ requests = 0
    /\ mainPc' = "close"
    /\ UNCHANGED <<bad, regVars, exitErr, publisher, serve, probed, requests, monitorVars>>

\* Mutant: Shutdown is given a context without a deadline.
ShutdownNoTimeout == FALSE /\ UNCHANGED vars

\* cfg.Server.ShutdownTimeout passes first; run returns the error.
ShutdownTimesOut ==
    /\ mainPc = "shutdown"
    /\ requests > 0
    /\ mainPc' = "close"
    /\ exitErr' = TRUE
    /\ UNCHANGED <<bad, regVars, publisher, serve, probed, requests, monitorVars>>

\* The deferred calls of run, last first: publisher.Close() ...
ClosePublisher ==
    /\ mainPc = "close"
    /\ mainPc' = "cancel"
    /\ publisher' = "closed"
    /\ UNCHANGED <<bad, regVars, exitErr, serve, probed, requests, monitorVars>>

\* ... then stop(), which cancels ctx ...
StopSignals ==
    /\ mainPc = "cancel"
    /\ mainPc' = "exit"
    /\ ctxDone' = TRUE
    /\ UNCHANGED <<bad, regPc, starts, backoff, lastWait, registered, verdict, losses,
                   exitErr, publisher, serve, probed, requests, monitorVars>>

\* ... then ln.Close(); run returns and the process ends with what still runs.
Exit ==
    /\ mainPc = "exit"
    /\ mainPc' = "exited"
    /\ UNCHANGED <<bad, regVars, exitErr, publisher, serve, probed, requests, monitorVars>>

-----------------------------------------------------------------------------
(* What runs beside it                                                     *)

\* SIGTERM or SIGINT, once run has asked for them (before that the process just
\* dies); NotifyContext cancels ctx.
Signal ==
    /\ alive /\ mainPc \notin {"config", "listen"}
    /\ Cancel
    /\ UNCHANGED procVars

RequestArrives ==
    /\ alive /\ serve = "serving"
    /\ requests < MaxRequests
    /\ requests' = requests + 1
    /\ UNCHANGED <<bad, regVars, mainPc, exitErr, publisher, serve, probed, monitorVars>>

RequestDone ==
    /\ alive /\ requests > 0
    /\ requests' = requests - 1
    /\ UNCHANGED <<bad, regVars, mainPc, exitErr, publisher, serve, probed, monitorVars>>

Register == alive /\ RegStep /\ UNCHANGED procVars

\* A handler of the monitor submits an event.
MonitorSubmit ==
    /\ alive /\ monPc = "running"
    /\ events < MaxEvents
    /\ events' = events + 1
    /\ UNCHANGED <<bad, regVars, mainPc, exitErr, publisher, serve, probed, requests, monPc, lost>>

\* An event reaches NATS, or finds the connection closed.
MonitorPublish ==
    /\ alive /\ monPc \in {"running", "flushing"}
    /\ events > 0
    /\ events' = events - 1
    /\ lost' = IF publisher = "open" \/ lost = MaxEvents THEN lost ELSE lost + 1
    /\ UNCHANGED <<bad, regVars, mainPc, exitErr, publisher, serve, probed, requests, monPc>>

\* monitor.Start sees ctx.Done() and runs its deferred debouncer.Stop ...
MonitorStop ==
    /\ alive /\ monPc = "running" /\ ctxDone
    /\ monPc' = "flushing"
    /\ UNCHANGED <<bad, regVars, mainPc, exitErr, publisher, serve, probed, requests, events, lost>>

\* ... which returns when everything submitted was published; the informer
\* factories are shut down.
MonitorStopped ==
    /\ alive /\ monPc = "flushing" /\ events = 0
    /\ monPc' = "stopped"
    /\ UNCHANGED <<bad, regVars, mainPc, exitErr, publisher, serve, probed, requests, events, lost>>

-----------------------------------------------------------------------------

MainStep ==
    \/ Load \/ Listen \/ NewRegistrar \/ NewNATSPublisher \/ NewClient \/ StartServing
    \/ ProbeOk \/ ProbeFails \/ OnReady
    \/ BeginShutdown \/ ServeError \/ ShutdownDone \/ ShutdownTimesOut
    \/ ClosePublisher \/ StopSignals \/ Exit

Next ==
    \/ MainStep
    \/ ServeFails \/ Signal
    \/ RequestArrives \/ RequestDone
    \/ Register
    \/ MonitorSubmit \/ MonitorPublish \/ MonitorStop \/ MonitorStopped

Spec == Init /\ [][Next]_vars

\* Goroutines run and every wait of main has a timeout.  A request may take for
\* ever, and neither a signal nor an error of Serve need come.
Fairness ==
    /\ WF_vars(MainStep)
    /\ WF_vars(Register) /\ SF_vars(alive /\ WaitCancelled /\ UNCHANGED procVars)
    /\ WF_vars(MonitorPublish) /\ WF_vars(MonitorStop) /\ WF_vars(MonitorStopped)

FairSpec == Spec /\ Fairness
-----------------------------------------------------------------------------
TypeOK ==
    /\ RegTypeOK
    /\ bad \subseteq Faults
    /\ mainPc \in {"config", "listen", "registrar", "publisher", "client", "run",
                   "probe", "ready", "select", "shutdown",
                   "close", "cancel", "exit", "exited"}
    /\ {exitErr, probed} \subseteq BOOLEAN
    /\ publisher \in {"none", "open", "closed"}
    /\ serve \in {"none", "serving", "failed", "closed"}
    /\ requests \in 0..MaxRequests
    /\ monPc \in {"none", "running", "flushing", "stopped"}
    /\ {events, lost} \subseteq 0..MaxEvents

\* Registration and monitoring begin only after the server answered its own
\* probe: DCM never learns of an endpoint that is not served, and the informers
\* start "after the HTTP server is ready" (REQ-MON-160, server.go:399-411).
BackgroundAfterReady == regPc # "idle" \/ monPc # "none" => probed

\* A process that has anything wrong to start from "MUST exit before starting the
\* HTTP server or any subsystem" (AC-XC-CFG-020, 030), with an error and with what it
\* opened closed (main.go:34-62, config.go:66-87).
FailFast ==
    bad # {} =>
        /\ serve = "none" /\ regPc = "idle" /\ monPc = "none"
        /\ mainPc = "exited" => exitErr /\ publisher # "open"

\* A process that ends without an error cut no request off (server.go:424-430).
CleanExitDrained == mainPc = "exited" /\ ~exitErr => requests = 0

\* The process ends after a signal, at whatever point of startup, probing or
\* retrying it arrives (main.go:46-98).
SignalEnds == (ctxDone /\ mainPc # "exited") ~> (mainPc = "exited")

\* An error of Serve ends the process, also when it comes while main probes.
ServeFailureEnds == (serve = "failed") ~> (mainPc = "exited")

\* Registration ends while the process lives, or with it.
RegistrationSettles == (starts > 0) ~> (regPc = "done" \/ mainPc = "exited")

\* "The informer MUST be stopped during graceful shutdown" (REQ-MON-161), with a
\* "flush-only NATS publish budget after SIGTERM" (monitoring/config.go:13): a
\* process that ends without an error has stopped its monitor and lost nothing.
MonitorStoppedAtExit ==
    mainPc = "exited" /\ ~exitErr => monPc \in {"none", "stopped"} /\ lost = 0
==============================================================================

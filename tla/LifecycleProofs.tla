--------------------------- MODULE LifecycleProofs ---------------------------
(***************************************************************************)
(* Proofs about the process and its registrar, for any backoffs and any    *)
(* number of lost answers, requests and events.                            *)
(***************************************************************************)
EXTENDS Lifecycle, TLAPS

\* Whatever the registrar does was started, once; a verdict is its last step.
VerdictIsLast ==
    /\ regPc # "idle" => starts = 1
    /\ verdict # "none" => regPc = "done"

\* The process passed its probe on the way to every state that began
\* background work.
ReadyAfterProbe ==
    /\ mainPc = "ready" => probed
    /\ regPc # "idle" \/ monPc # "none" => probed

\* From shutdown on no request arrives, and a run without an error has waited
\* for those that had.
Drained ==
    /\ mainPc = "shutdown" => serve # "serving"
    /\ mainPc \in {"close", "cancel", "exit", "exited"} /\ ~exitErr =>
         serve # "serving" /\ requests = 0

\* What run has passed is not at fault; with a fault it never gets to Run, and what
\* is open is closed on the way out.
PassedSetup ==
    /\ mainPc \in {"listen", "registrar", "publisher", "client", "run"} => bad \cap EnvFaults = {}
    /\ mainPc \in {"registrar", "publisher", "client", "run"} => "address" \notin bad
    /\ mainPc \in {"publisher", "client", "run"} => "registrationURL" \notin bad
    /\ mainPc \in {"client", "run"} => "natsURL" \notin bad
    /\ mainPc \in {"run", "probe", "ready", "select", "shutdown"} => bad = {}
    /\ serve # "none" \/ regPc # "idle" \/ monPc # "none" => bad = {}
    /\ mainPc \in {"close", "cancel", "exit", "exited"} /\ bad # {} => exitErr
    /\ publisher = "open" =>
         mainPc \in {"client", "run", "probe", "ready", "select", "shutdown", "close"}

\* The inductive invariant.
IInv ==
    /\ TypeOK /\ ExponentialBackoff /\ VerdictIsLast
    /\ ReadyAfterProbe /\ Drained /\ PassedSetup

USE RegistrarAssumption, LifecycleAssumption

-----------------------------------------------------------------------------
\* The registrar's own steps preserve its part, whatever main does.
LEMMA RegStepPreserves ==
    ASSUME RegTypeOK, ExponentialBackoff, VerdictIsLast, RegStep
    PROVE  RegTypeOK' /\ ExponentialBackoff' /\ VerdictIsLast' /\ regPc # "idle"
<1> USE DEF RegTypeOK, ExponentialBackoff, VerdictIsLast
<1>1. CASE Send
  BY <1>1 DEF Send
<1>2. CASE AnswerOk
  BY <1>2 DEF AnswerOk, End
<1>3. CASE AnswerClientError
  BY <1>3 DEF AnswerClientError, End
<1>4. CASE AnswerLost
  <2>1. registered' \in BOOLEAN
    BY <1>4, Zenon DEF AnswerLost
  <2>2. QED
    BY <1>4, <2>1 DEF AnswerLost
<1>5. CASE SendCancelled
  BY <1>5 DEF SendCancelled
<1>6. CASE WaitOver
  <2>1. /\ backoff \in 1..MaxBackoff
        /\ lastWait' = backoff
        /\ backoff' = IF 2 * backoff > MaxBackoff THEN MaxBackoff ELSE 2 * backoff
    BY <1>6 DEF WaitOver, NextBackoff
  <2>2. backoff' \in backoff..MaxBackoff /\ (backoff' = 2 * backoff \/ backoff' = MaxBackoff)
    BY <2>1
  <2>3. QED
    BY <1>6, <2>1, <2>2 DEF WaitOver
<1>7. CASE WaitCancelled
  BY <1>7 DEF WaitCancelled, End
<1>8. QED
  BY <1>1, <1>2, <1>3, <1>4, <1>5, <1>6, <1>7 DEF RegStep

\* Every step of the process preserves the inductive invariant.
LEMMA Inductive == IInv /\ [Next]_vars => IInv'
<1> SUFFICES ASSUME IInv, [Next]_vars PROVE IInv'
  OBVIOUS
<1> USE DEF IInv, TypeOK, VerdictIsLast, ReadyAfterProbe, Drained, PassedSetup, monitorVars
<1>1. CASE Register
  <2>1. RegTypeOK' /\ ExponentialBackoff' /\ VerdictIsLast' /\ regPc # "idle"
    BY <1>1, RegStepPreserves DEF Register
  <2>2. QED
    BY <1>1, <2>1 DEF Register, procVars
<1>2. CASE OnReady
  BY <1>2 DEF OnReady, Start, RegTypeOK, ExponentialBackoff
<1>3. CASE StopSignals
  BY <1>3 DEF StopSignals, RegTypeOK, ExponentialBackoff
<1>4. CASE Signal
  BY <1>4 DEF Signal, Cancel, procVars, RegTypeOK, ExponentialBackoff
<1>5. ASSUME UNCHANGED regVars
      PROVE  RegTypeOK' /\ ExponentialBackoff' /\ VerdictIsLast' /\ regPc' = regPc
  BY <1>5 DEF regVars, RegTypeOK, ExponentialBackoff
<1>6. CASE Load
  BY <1>6, <1>5 DEF Load, SetupStep
<1>6a. CASE Listen
  BY <1>6a, <1>5 DEF Listen, SetupStep
<1>6b. CASE NewRegistrar
  BY <1>6b, <1>5 DEF NewRegistrar, SetupStep
<1>7. CASE NewNATSPublisher
  BY <1>7, <1>5 DEF NewNATSPublisher, SetupStep
<1>7a. CASE NewClient
  <2>1. bad \cap {"kubeconfig"} = {} => bad = {}
    BY <1>7a DEF NewClient, SetupStep, Faults, EnvFaults
  <2>2. QED
    BY <1>7a, <1>5, <2>1 DEF NewClient, SetupStep
<1>8. CASE StartServing
  BY <1>8, <1>5 DEF StartServing
<1>9. CASE ProbeOk
  BY <1>9, <1>5 DEF ProbeOk
<1>10. CASE ProbeFails
  BY <1>10, <1>5 DEF ProbeFails
<1>11. CASE BeginShutdown
  BY <1>11, <1>5 DEF BeginShutdown
<1>12. CASE ServeError
  BY <1>12, <1>5 DEF ServeError
<1>13. CASE ShutdownDone
  BY <1>13, <1>5 DEF ShutdownDone
<1>14. CASE ShutdownTimesOut
  BY <1>14, <1>5 DEF ShutdownTimesOut
<1>15. CASE ClosePublisher
  BY <1>15, <1>5 DEF ClosePublisher
<1>16. CASE Exit
  BY <1>16, <1>5 DEF Exit
<1>17. CASE ServeFails
  BY <1>17, <1>5 DEF ServeFails
<1>18. CASE RequestArrives
  BY <1>18, <1>5 DEF RequestArrives, alive
<1>19. CASE RequestDone
  BY <1>19, <1>5 DEF RequestDone
<1>20. CASE MonitorSubmit
  BY <1>20, <1>5 DEF MonitorSubmit
<1>21. CASE MonitorPublish
  BY <1>21, <1>5 DEF MonitorPublish
<1>22. CASE MonitorStop
  BY <1>22, <1>5 DEF MonitorStop
<1>23. CASE MonitorStopped
  BY <1>23, <1>5 DEF MonitorStopped
<1>24. CASE UNCHANGED vars
  BY <1>24, <1>5 DEF vars, procVars
<1>25. QED
  BY <1>1, <1>2, <1>3, <1>4, <1>6, <1>6a, <1>6b, <1>7, <1>7a, <1>8, <1>9, <1>10, <1>11,
     <1>12, <1>13, <1>14, <1>15, <1>16, <1>17, <1>18, <1>19, <1>20, <1>21, <1>22, <1>23, <1>24
     DEF Next, MainStep

LEMMA Initially == Init => IInv
<1> SUFFICES ASSUME Init PROVE IInv
  OBVIOUS
<1>1. {exitErr, probed} \subseteq BOOLEAN /\ registered \in BOOLEAN /\ ctxDone \in BOOLEAN
  BY DEF Init, RegInit
<1>2. RegTypeOK /\ ExponentialBackoff
  BY <1>1 DEF Init, RegInit, RegTypeOK, ExponentialBackoff
<1>3. {events, lost} \subseteq 0..MaxEvents /\ requests \in 0..MaxRequests
  BY DEF Init
<1>4. QED
  BY <1>1, <1>2, <1>3
     DEF Init, RegInit, IInv, TypeOK, VerdictIsLast, ReadyAfterProbe, Drained, PassedSetup

\* The inductive invariant holds in every reachable state (main.go run,
\* server.go Run, registration.go run).
THEOREM Invariance == Spec => []IInv
<1>1. QED
  BY Initially, Inductive, PTL DEF Spec

\* The process, its goroutines and their counters keep their types (main.go run,
\* server.go Run); no count of events or requests drops below zero.
THEOREM TypeCorrect == Spec => []TypeOK
<1>1. IInv => TypeOK
  BY DEF IInv
<1>2. QED
  BY <1>1, Invariance, PTL

\* The registrar's waits double up to the maximum (registration.go 148-174).
THEOREM WaitsDouble == Spec => []ExponentialBackoff
<1>1. IInv => ExponentialBackoff
  BY DEF IInv
<1>2. QED
  BY <1>1, Invariance, PTL

\* No background work begins before the probe's 200 (server.go 399-411).
THEOREM ReadyFirst == Spec => []BackgroundAfterReady
<1>1. IInv => BackgroundAfterReady
  BY DEF IInv, ReadyAfterProbe, BackgroundAfterReady
<1>2. QED
  BY <1>1, Invariance, PTL

\* A process that ends without an error cut no request off (server.go 424-430).
THEOREM CleanExit == Spec => []CleanExitDrained
<1>1. IInv => CleanExitDrained
  BY DEF IInv, Drained, CleanExitDrained
<1>2. QED
  BY <1>1, Invariance, PTL

\* What is wrong from the start keeps everything from starting, and is reported
\* (main.go 34-62, config.go 66-87).
THEOREM FaultsStopEverything == Spec => []FailFast
<1>1. IInv => FailFast
  BY DEF IInv, PassedSetup, FailFast
<1>2. QED
  BY <1>1, Invariance, PTL

\* The process runs its registrar as the registrar alone runs: it starts it once,
\* cancels it once, and otherwise leaves it to itself (main.go 65-98,
\* registration.go 132-176).
THEOREM RegistrarAsSpecified == Spec => RegSpec
<1>1. Init => RegInit
  BY DEF Init
<1>2. [Next]_vars => [RegNext]_regVars
  <2> SUFFICES ASSUME [Next]_vars PROVE [RegNext]_regVars
    OBVIOUS
  <2>1. CASE Register
    BY <2>1 DEF Register, RegNext
  <2>2. CASE OnReady
    BY <2>2 DEF OnReady, RegNext
  <2>3. CASE Signal
    BY <2>3 DEF Signal, RegNext
  <2>4. CASE StopSignals
    BY <2>4 DEF StopSignals, RegNext, Cancel, regVars
  <2>5. CASE UNCHANGED regVars
    BY <2>5
  <2>6. QED
    BY <2>1, <2>2, <2>3, <2>4, <2>5
       DEF Next, MainStep, vars, SetupStep, Load, Listen, NewRegistrar, NewNATSPublisher,
           NewClient, StartServing, ProbeOk, ProbeFails, BeginShutdown, ServeError,
           ShutdownDone, ShutdownTimesOut, ClosePublisher, Exit, ServeFails,
           RequestArrives, RequestDone, MonitorSubmit, MonitorPublish, MonitorStop,
           MonitorStopped
<1>3. QED
  BY <1>1, <1>2, PTL DEF Spec, RegSpec

\* A verdict on the registration is final, for the registry too
\* (registration.go 151-168).
THEOREM VerdictIsFinal == Spec => EndsOnce
<1>1. ASSUME IInv, [Next]_vars, verdict # "none"
      PROVE  UNCHANGED <<regPc, verdict, registered>>
  <2>1. regPc = "done" /\ starts = 1
    BY <1>1 DEF IInv, VerdictIsLast
  <2>2. ~RegStep
    BY <2>1 DEF RegStep, Send, AnswerOk, AnswerClientError, AnswerLost, SendCancelled,
                WaitOver, WaitCancelled
  <2>3. ~Start
    BY <2>1 DEF Start
  <2>4. QED
    BY <1>1, <2>2, <2>3
       DEF Next, MainStep, vars, regVars, Register, OnReady, StopSignals, Signal, Cancel,
           SetupStep, Load, Listen, NewRegistrar, NewNATSPublisher, NewClient, StartServing, ProbeOk, ProbeFails, BeginShutdown,
           ServeError, ShutdownDone, ShutdownTimesOut, ClosePublisher, Exit, ServeFails,
           RequestArrives, RequestDone, MonitorSubmit, MonitorPublish, MonitorStop,
           MonitorStopped
<1>2. IInv /\ [Next]_vars =>
        [verdict # "none" => UNCHANGED <<regPc, verdict, registered>>]_regVars
  BY <1>1
<1>3. QED
  BY <1>2, Invariance, PTL DEF Spec, EndsOnce
==============================================================================

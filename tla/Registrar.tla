------------------------------ MODULE Registrar ------------------------------
(***************************************************************************)
(* internal/registration/registration.go: the goroutine that announces the *)
(* provider to the DCM registry, with its exponential backoff.             *)
(*                                                                         *)
(* The registry is outside: it answers with a status class, or a request   *)
(* is lost before or after the registry took it.  Durations are numbers;   *)
(* how long an attempt or a wait really lasts is left out.                 *)
(***************************************************************************)
EXTENDS Integers

CONSTANTS InitialBackoff,  \* r.initialBackoff
          MaxBackoff,      \* r.maxBackoff
          MaxLosses        \* bound on answers that are neither success nor 4xx

ASSUME RegistrarAssumption ==
    /\ InitialBackoff \in Nat \ {0}
    /\ MaxBackoff \in Nat
    /\ InitialBackoff <= MaxBackoff   \* 1s and 60s; main.go overrides neither
    /\ MaxLosses \in Nat

VARIABLES
    regPc,       \* "idle", "attempt", "sent", "wait" or "done" (r.done closed)
    starts,      \* goroutines that Start launched (startOnce)
    backoff,     \* the wait after the next failed attempt
    lastWait,    \* history: the last wait that was over, 0 before the first
    registered,  \* the registry holds the provider's entry
    verdict,     \* how the run ended: "none", "ok", "rejected", "cancelled"
    losses,      \* what is left of MaxLosses
    ctxDone      \* the context of Start is cancelled

regVars == <<regPc, starts, backoff, lastWait, registered, verdict, losses, ctxDone>>

RegInit ==
    /\ regPc = "idle"
    /\ starts = 0
    /\ backoff = InitialBackoff
    /\ lastWait = 0
    /\ registered = FALSE
    /\ verdict = "none"
    /\ losses = MaxLosses
    /\ ctxDone = FALSE

\* Start, the first time: startOnce launches run.
Start ==
    /\ starts = 0
    /\ starts' = 1
    /\ regPc' = "attempt"
    /\ UNCHANGED <<backoff, lastWait, registered, verdict, losses, ctxDone>>

\* Start again: startOnce does nothing.
StartAgain == starts > 0 /\ UNCHANGED regVars

\* The client sends the request, unless its context is done.
Send ==
    /\ regPc = "attempt"
    /\ ~ctxDone
    /\ regPc' = "sent"
    /\ UNCHANGED <<starts, backoff, lastWait, registered, verdict, losses, ctxDone>>

End(v) == regPc' = "done" /\ verdict' = v

\* Mutant: the loop goes on after a success.
AnswerOkGoesOn ==
    /\ regPc = "sent"
    /\ registered' = TRUE
    /\ regPc' = "attempt" /\ verdict' = "ok"
    /\ UNCHANGED <<starts, backoff, lastWait, losses, ctxDone>>

\* 200 or 201: the registry created or updated the entry; run returns.
AnswerOk ==
    /\ regPc = "sent"
    /\ registered' = TRUE
    /\ End("ok")
    /\ UNCHANGED <<starts, backoff, lastWait, losses, ctxDone>>

\* Mutant: a client error is retried like any other.
AnswerClientErrorRetried ==
    /\ regPc = "sent"
    /\ regPc' = "wait"
    /\ UNCHANGED <<starts, backoff, lastWait, registered, verdict, losses, ctxDone>>

\* 4xx: non-retryable, run gives up.
AnswerClientError ==
    /\ regPc = "sent"
    /\ End("rejected")
    /\ UNCHANGED <<starts, backoff, lastWait, registered, losses, ctxDone>>

\* Any other status, a timeout or a broken connection.  The registry may have
\* taken the request all the same.
AnswerLost ==
    /\ regPc = "sent"
    /\ losses > 0
    /\ losses' = losses - 1
    /\ registered' \in {registered, TRUE}
    /\ regPc' = "wait"
    /\ UNCHANGED <<starts, backoff, lastWait, verdict, ctxDone>>

\* The request's context is done: the client gives an error.
SendCancelled ==
    /\ regPc \in {"attempt", "sent"}
    /\ ctxDone
    /\ registered' \in IF regPc = "sent" THEN {registered, TRUE} ELSE {registered}
    /\ regPc' = "wait"
    /\ UNCHANGED <<starts, backoff, lastWait, verdict, losses, ctxDone>>

\* Mutant: the doubled backoff is not capped.
NextBackoffUncapped(b) == 2 * b

\* The backoff after a wait of b.
NextBackoff(b) == IF 2 * b > MaxBackoff THEN MaxBackoff ELSE 2 * b

\* Mutant: the backoff is never doubled.
WaitOverConstant ==
    /\ regPc = "wait"
    /\ regPc' = "attempt"
    /\ lastWait' = backoff
    /\ UNCHANGED <<starts, backoff, registered, verdict, losses, ctxDone>>

\* The select takes the timer (also when ctx is done too).
WaitOver ==
    /\ regPc = "wait"
    /\ regPc' = "attempt"
    /\ lastWait' = backoff
    /\ backoff' = NextBackoff(backoff)
    /\ UNCHANGED <<starts, registered, verdict, losses, ctxDone>>

\* The select takes ctx.Done(); the timer is stopped and run returns.
WaitCancelled ==
    /\ regPc = "wait"
    /\ ctxDone
    /\ End("cancelled")
    /\ UNCHANGED <<starts, backoff, lastWait, registered, losses, ctxDone>>

RegStep ==
    \/ Send \/ AnswerOk \/ AnswerClientError \/ AnswerLost \/ SendCancelled
    \/ WaitOver \/ WaitCancelled

Cancel ==
    /\ ~ctxDone
    /\ ctxDone' = TRUE
    /\ UNCHANGED <<regPc, starts, backoff, lastWait, registered, verdict, losses>>

RegNext == Start \/ StartAgain \/ RegStep \/ Cancel

RegSpec == RegInit /\ [][RegNext]_regVars

\* The goroutine runs; every request ends (httpTimeout); losses are bounded, so
\* the registry finally gives an answer; select chooses at random among ready
\* cases, so it does not pass over ctx.Done() forever.
RegFairness == WF_regVars(RegStep) /\ SF_regVars(WaitCancelled)
-----------------------------------------------------------------------------
RegTypeOK ==
    /\ regPc \in {"idle", "attempt", "sent", "wait", "done"}
    /\ starts \in 0..1
    /\ backoff \in 1..MaxBackoff
    /\ lastWait \in 0..MaxBackoff
    /\ registered \in BOOLEAN
    /\ verdict \in {"none", "ok", "rejected", "cancelled"}
    /\ losses \in 0..MaxLosses
    /\ ctxDone \in BOOLEAN

\* "exponential backoff on failure with a maximum backoff interval"
\* (REQ-REG-050): from one wait to the next the backoff doubles until it
\* reaches the maximum, and stays there (registration.go:148-174).
ExponentialBackoff ==
    IF lastWait = 0 THEN backoff = InitialBackoff
                    ELSE /\ backoff \in lastWait..MaxBackoff
                         /\ backoff = 2 * lastWait \/ backoff = MaxBackoff

\* Once the registration has a verdict (success, 4xx or shutdown: r.done is
\* closed) no further request is sent and the registry is left alone, however
\* often Start is called (registration.go:132-139, 151-168).
EndsOnce ==
    [][verdict # "none" => UNCHANGED <<regPc, verdict, registered>>]_regVars

\* The registration ends: with success, with a 4xx, or because the context was
\* cancelled, also when that happens between two attempts.
RegistrationEnds == (starts > 0) ~> (regPc = "done")
==============================================================================

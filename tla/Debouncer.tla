------------------------------ MODULE Debouncer ------------------------------
(***************************************************************************)
(* internal/monitoring/debouncer.go.                                       *)
(*                                                                         *)
(* Submit and the body of a timer callback each run under d.mu, so each is *)
(* one step.  time.AfterFunc runs its callback on a goroutine of its own:  *)
(* a timer first fires (it can no longer be stopped) and only later does   *)
(* its callback get the mutex, and any number of Submits may come between. *)
(* Real time is left out: an armed timer may fire at any moment.           *)
(*                                                                         *)
(* The n-th Submit arms the n-th timer, so n names both the timer and the  *)
(* submission whose event it was armed for.                                *)
(***************************************************************************)
EXTENDS Integers, FiniteSets

CONSTANTS Instances,    \* instance IDs
          Events,       \* the events a caller may submit
          MaxSubmits    \* bound on the Submits before Stop

ASSUME MaxSubmitsAssumption == MaxSubmits \in Nat

VARIABLES
    instances,    \* d.instances: instance ID -> [pending, ver, timer]
    timers,       \* timers that are armed
    flying,       \* callbacks that started and have not yet locked d.mu
    publishing,   \* submissions inside publishFn on a callback's goroutine
    toFlush,      \* what Stop took from the map and has not published yet
    wg,           \* the counter of d.wg
    stopPc,       \* Stop: "running" (not called), "flushing", "returned"
    count,        \* Submits so far: the next timer's name is count + 1
    accepted,     \* history: every submission that was queued
    delivered     \* history: every submission whose publishFn returned

vars == <<instances, timers, flying, publishing, toFlush, wg, stopPc, count,
          accepted, delivered>>

\* What the closure given to time.AfterFunc captures, and the timer's name.
Timer == [id : Instances, ver : Nat, n : Nat]

\* A submission.
Job == [id : Instances, ev : Events, n : Nat]

\* Mutant: Stop forgets d.stopped = true.
stoppedForgotten == FALSE

\* d.stopped is set by the first step of Stop and never cleared.
stopped == stopPc # "running"

\* The submission that instance i holds.
PendingJob(i) == [id |-> i, ev |-> instances[i].pending, n |-> instances[i].timer]

\* The submissions the map holds, one per instance.
Pending == {PendingJob(i) : i \in DOMAIN instances}

\* Mutant: the callback forgets delete(d.instances, instanceID).
WithoutForgotten(S) == instances

\* The map without the instances of S: delete(d.instances, id).
Without(S) == [i \in DOMAIN instances \ S |-> instances[i]]

Init ==
    /\ instances = [i \in {} |-> {}]
    /\ timers = {}
    /\ flying = {}
    /\ publishing = {}
    /\ toFlush = {}
    /\ wg = 0
    /\ stopPc = "running"
    /\ count = 0
    /\ accepted = {}
    /\ delivered = {}

\* A new instanceState has ver 0, and every Submit increments it.
NextVer(i) == IF i \in DOMAIN instances THEN instances[i].ver + 1 ELSE 1

\* Mutant: the closure captures the version before the increment.
CapturedVerStale(i) == NextVer(i) - 1

\* The version the closure captures.
CapturedVer(i) == NextVer(i)

\* The timers left after Submit stopped the one it replaces, if still armed.
OtherTimers(i) ==
    IF i \in DOMAIN instances
    THEN {t \in timers : t.n # instances[i].timer}
    ELSE timers

Submit(i, e) ==
    /\ ~stopped
    /\ count < MaxSubmits
    /\ count' = count + 1
    /\ instances' =
         [k \in DOMAIN instances \cup {i} |->
            IF k = i
            THEN [pending |-> e, ver |-> NextVer(i), timer |-> count + 1]
            ELSE instances[k]]
    /\ timers' = OtherTimers(i) \cup {[id |-> i, ver |-> CapturedVer(i), n |-> count + 1]}
    /\ accepted' = accepted \cup {[id |-> i, ev |-> e, n |-> count + 1]}
    /\ UNCHANGED <<flying, publishing, toFlush, wg, stopPc, delivered>>

\* After Stop a Submit returns at once.
SubmitStopped == stopped /\ UNCHANGED vars

\* The runtime starts the callback's goroutine.
Fire(t) ==
    /\ t \in timers
    /\ timers' = timers \ {t}
    /\ flying' = flying \cup {t}
    /\ UNCHANGED <<instances, publishing, toFlush, wg, stopPc, count, accepted,
                   delivered>>

\* The version check of a callback: does c find the state it was armed for?
Current(c) ==
    /\ ~stopped
    /\ c.id \in DOMAIN instances
    /\ instances[c.id].ver = c.ver

\* Mutant: the callback publishes without d.wg.Add(1).
CallbackTakeNoAdd(c) ==
    /\ c \in flying
    /\ Current(c)
    /\ flying' = flying \ {c}
    /\ publishing' = publishing \cup {PendingJob(c.id)}
    /\ instances' = Without({c.id})
    /\ UNCHANGED <<timers, toFlush, wg, stopPc, count, accepted, delivered>>

\* The callback of the current version takes the pending event out of the map.
CallbackTake(c) ==
    /\ c \in flying
    /\ Current(c)
    /\ flying' = flying \ {c}
    /\ publishing' = publishing \cup {PendingJob(c.id)}
    /\ instances' = Without({c.id})
    /\ wg' = wg + 1
    /\ UNCHANGED <<timers, toFlush, stopPc, count, accepted, delivered>>

CallbackStale(c) ==
    /\ c \in flying
    /\ ~Current(c)
    /\ flying' = flying \ {c}
    /\ UNCHANGED <<instances, timers, publishing, toFlush, wg, stopPc, count,
                   accepted, delivered>>

\* Mutant: the deferred wg.Done is missing.
PublishReturnNoDone(j) ==
    /\ j \in publishing
    /\ publishing' = publishing \ {j}
    /\ delivered' = delivered \cup {j}
    /\ UNCHANGED <<instances, timers, flying, toFlush, wg, stopPc, count, accepted>>

\* publishFn returns on a callback's goroutine; the deferred wg.Done runs.
PublishReturn(j) ==
    /\ j \in publishing
    /\ publishing' = publishing \ {j}
    /\ wg' = wg - 1
    /\ delivered' = delivered \cup {j}
    /\ UNCHANGED <<instances, timers, flying, toFlush, stopPc, count, accepted>>

\* Mutant: Stop cancels the timers but does not flush.
StopNoFlush ==
    /\ ~stopped
    /\ stopPc' = "flushing"
    /\ timers' = {t \in timers : \A i \in DOMAIN instances : t.n # instances[i].timer}
    /\ instances' = Without(DOMAIN instances)
    /\ UNCHANGED <<flying, publishing, toFlush, wg, count, accepted, delivered>>

\* The locked part of Stop.
Stop ==
    /\ ~stopped
    /\ stopPc' = "flushing"
    /\ timers' = {t \in timers : \A i \in DOMAIN instances : t.n # instances[i].timer}
    /\ toFlush' = Pending
    /\ instances' = Without(DOMAIN instances)
    /\ wg' = wg + Cardinality(Pending)
    /\ UNCHANGED <<flying, publishing, count, accepted, delivered>>

\* One turn of Stop's loop.  It ranges over a slice filled from a map, so in
\* any order.
FlushOne(j) ==
    /\ stopPc = "flushing"
    /\ j \in toFlush
    /\ toFlush' = toFlush \ {j}
    /\ wg' = wg - 1
    /\ delivered' = delivered \cup {j}
    /\ UNCHANGED <<instances, timers, flying, publishing, stopPc, count, accepted>>

\* Mutant: Stop returns without d.wg.Wait().
StopReturnNoWait ==
    /\ stopPc = "flushing"
    /\ toFlush = {}
    /\ stopPc' = "returned"
    /\ UNCHANGED <<instances, timers, flying, publishing, toFlush, wg, count,
                   accepted, delivered>>

\* d.wg.Wait() lets Stop return.
StopReturn ==
    /\ stopPc = "flushing"
    /\ toFlush = {}
    /\ wg = 0
    /\ stopPc' = "returned"
    /\ UNCHANGED <<instances, timers, flying, publishing, toFlush, wg, count,
                   accepted, delivered>>

Next ==
    \/ \E i \in Instances, e \in Events : Submit(i, e)
    \/ SubmitStopped
    \/ \E t \in timers : Fire(t)
    \/ \E c \in flying : CallbackTake(c) \/ CallbackStale(c)
    \/ \E j \in publishing : PublishReturn(j)
    \/ Stop
    \/ \E j \in toFlush : FlushOne(j)
    \/ StopReturn

Spec == Init /\ [][Next]_vars

\* The Go runtime fires every timer that is not stopped and schedules every
\* goroutine; a publish ends (publishWithRetry bounds its attempts).  Whether
\* Stop is ever called is the program's choice.
Fairness ==
    /\ \A n \in 1..MaxSubmits :
         /\ WF_vars(\E t \in timers : t.n = n /\ Fire(t))
         /\ WF_vars(\E c \in flying : c.n = n /\ (CallbackTake(c) \/ CallbackStale(c)))
         /\ WF_vars(\E j \in publishing : j.n = n /\ PublishReturn(j))
         /\ WF_vars(\E j \in toFlush : j.n = n /\ FlushOne(j))
    /\ WF_vars(StopReturn)

FairSpec == Spec /\ Fairness
-----------------------------------------------------------------------------
\* Types: the map holds records of submissions that were made, timers and
\* callbacks carry the instance and version they captured (debouncer.go:9-24).
TypeOK ==
    /\ DOMAIN instances \subseteq Instances
    /\ instances \in [DOMAIN instances ->
                        [pending : Events, ver : Nat \ {0}, timer : 1..count]]
    /\ timers \subseteq Timer
    /\ flying \subseteq Timer
    /\ publishing \subseteq Job
    /\ toFlush \subseteq Job
    /\ wg \in Nat
    /\ stopPc \in {"running", "flushing", "returned"}
    /\ count \in Nat
    /\ accepted \subseteq Job
    /\ delivered \subseteq Job

InFlight == publishing \cup toFlush

\* The newest submission of every instance is never lost, whatever the order
\* of timers, callbacks, Submits and Stop: it is in the map, with a publisher,
\* or published ("flushed via publishFn", debouncer.go:94-96).
NewestNotLost ==
    \A a \in accepted :
        \/ \E b \in accepted : b.id = a.id /\ b.n > a.n
        \/ a \in Pending \cup InFlight \cup delivered

\* A pending event always has a callback on its way that will match its
\* version: no order of Submit, timer.Stop and firing strands it in the map
\* (debouncer.go:52-79).
PendingHasCallback ==
    \A i \in DOMAIN instances :
        \E t \in timers \cup flying :
            /\ t.id = i
            /\ t.ver = instances[i].ver
            /\ t.n = instances[i].timer

\* No submission is published twice: it is in the map, on a callback's
\* goroutine, in Stop's list or published, never two of these, although a
\* callback and Stop compete for it (debouncer.go:71-83, 98-109).
AtMostOnce ==
    /\ Pending \cap (InFlight \cup delivered) = {}
    /\ publishing \cap toFlush = {}
    /\ InFlight \cap delivered = {}

\* The wait group counts exactly the publishes Stop has to wait for
\* (debouncer.go:82, 89, 108, 113): the reason why Wait can be trusted.
WgCountsInFlight == wg = Cardinality(publishing) + Cardinality(toFlush)

\* Once Stop has returned nothing is in the map, nothing is being published,
\* and no callback that was still flying publishes anything: "Stop waits for
\* those flushes and any in-flight publishFn callbacks before returning"
\* (debouncer.go:96).
QuietAfterReturn ==
    [][stopPc = "returned" =>
         /\ InFlight' = {}
         /\ instances' = instances /\ DOMAIN instances = {}
         /\ delivered' = delivered]_vars

\* Every submission is published or replaced by a newer one of its instance.
\* MaxSubmits ends the stream: an instance submitted to forever at less than
\* the interval is never published, since each Submit restarts the window.
EventuallyDelivered ==
    \A n \in 1..MaxSubmits :
        (\E a \in accepted : a.n = n)
            ~> \/ \E d \in delivered : d.n = n
               \/ \E a, b \in accepted : a.n = n /\ b.id = a.id /\ b.n > n

\* Stop returns (debouncer.go:97-116), also when callbacks are publishing.
StopReturns == (stopPc = "flushing") ~> (stopPc = "returned")

\* The debouncer implements the coalescer.
C == INSTANCE Coalescer WITH
        waiting <- Pending,
        owed <- InFlight,
        done <- delivered,
        phase <- [running |-> "open", flushing |-> "closing", returned |-> "closed"][stopPc]

\* Every behaviour of the debouncer is one of the coalescer: replacing, taking,
\* delivering once, and returning from Stop only when nothing is owed.
ImplementsCoalescer == C!SafeSpec
==============================================================================

---------------------------- MODULE StatusMonitor ----------------------------
(***************************************************************************)
(* internal/monitoring/monitor.go and k8s_events.go with the informers,    *)
(* the debouncer and NATS around them.                                     *)
(*                                                                         *)
(* Each informer calls its handlers on one goroutine, so there are two     *)
(* handler threads: "pvc" and "event".  submitIfChanged leaves m.mu before *)
(* it calls debouncer.Submit, so between the two the other thread may run. *)
(* The debouncer is represented by its abstract specification (one waiting *)
(* event per instance, Coalescer.tla, which Debouncer.tla implements); the *)
(* publishFn callbacks it starts run concurrently with everything else.    *)
(***************************************************************************)
EXTENDS PvcStatus

CONSTANTS
    Instances,          \* instance IDs of managed claims
    PvcStates,          \* the states a claim takes in the cluster
    None,               \* no event, no claim
    MaxInFlight,        \* bound on publishes running outside Stop
    PublishMaxAttempts, \* cfg.PublishMaxAttempts
    Workloads,          \* bounds on changes of claims and arrivals of Warning
                        \* Events; a behaviour is held to one of them
    MaxFailures,        \* bound on Publish errors of NATS
    MaxSignals          \* bound on signals: 0 or 1

ASSUME MonitorAssumption ==
    /\ \A p \in PvcStates : IsPvcState(p)
    /\ MaxInFlight \in Nat \ {0}
    /\ PublishMaxAttempts \in Nat \ {0}
    /\ Workloads \subseteq [changes : Nat, warnings : Nat]
    /\ {MaxFailures, MaxSignals} \subseteq Nat

VARIABLES
    cache,         \* PVC informer store (and lister): instance -> claim or None
    pvcQueue,      \* notifications the PVC handler has not seen, oldest first
    warned,        \* instances with a terminal Warning Event the cluster keeps
    evQueue,       \* instances whose Warning Event the handler has yet to see
    found,         \* instance the event handler looked up, before submitIfChanged
    held,          \* thread -> event between m.mu.Unlock and debouncer.Submit
    lastPublished, \* m.lastPublished
    lastSubmitted, \* m.lastSubmitted
    pending,       \* debouncer: instance -> waiting event
    toFlush,       \* debouncer.Stop: events still to flush
    stopPc,        \* debouncer.Stop: "running", "flushing", "returned"
    pub,           \* publisher -> publishWithRetry's state; 0 is Stop's loop
    cancelled,     \* ctx is done
    lastSent,      \* NATS: the last message about an instance
    sent,          \* NATS: all messages (as a set)
    budget         \* what is left of a workload, MaxFailures and MaxSignals

informerVars == <<cache, pvcQueue, warned, evQueue>>
handlerVars == <<found, held, lastSubmitted>>
debouncerVars == <<pending, toFlush, stopPc>>
natsVars == <<lastSent, sent>>
vars == <<informerVars, handlerVars, lastPublished, debouncerVars, pub, cancelled,
          natsVars, budget>>

Threads == {"pvc", "event"}
Publishers == 0..MaxInFlight

EventOf(i, s) == [id |-> i, status |-> s.status, message |-> s.message]

\* The event of a claim, or of its absence.
ObservedEvent(i, p) == EventOf(i, IF p = None THEN DeletedStatus ELSE MapPVCToStatus(p))

\* The event of a terminal Warning Event.
WarningEvent(i) ==
    EventOf(i, [status |-> "FAILED", message |-> <<"ProvisioningFailed">>])

Event == {ObservedEvent(i, p) : i \in Instances, p \in PvcStates \cup {None}}
         \cup {WarningEvent(i) : i \in Instances}

ASSUME NoneAssumption ==
    \A S \in {Event, Instances, {"run", "fresh", "expired"}} : None \notin S

Idle == [pc |-> "idle", event |-> None, ctx |-> None, attempt |-> 0]

Init ==
    /\ cache = [i \in Instances |-> None]
    /\ pvcQueue = <<>>
    /\ warned = {} /\ evQueue = {}
    /\ found = None
    /\ held = [t \in Threads |-> None]
    /\ lastPublished = [i \in Instances |-> None]
    /\ lastSubmitted = [i \in Instances |-> None]
    /\ pending = [i \in Instances |-> None]
    /\ toFlush = {}
    /\ stopPc = "running"
    /\ pub = [p \in Publishers |-> Idle]
    /\ cancelled = FALSE
    /\ lastSent = [i \in Instances |-> None]
    /\ sent = {}
    /\ budget \in {[changes |-> w.changes, warnings |-> w.warnings,
                    failures |-> MaxFailures, signals |-> MaxSignals] : w \in Workloads}

-----------------------------------------------------------------------------
(* The informers (client-go and the cluster behind it).                    *)

\* Where Kubernetes can take a claim from p: it is created Pending, never
\* returns to Pending once bound, and a terminating claim only disappears.
Successors(p) ==
    CASE p = None -> {q \in PvcStates : q.phase = "Pending" /\ ~q.terminating}
      [] p # None /\ p.terminating -> {None}
      [] p # None /\ ~p.terminating ->
           {None} \cup {q \in PvcStates \ {p} : q.terminating \/ q.phase # "Pending"}

\* A claim is created, changes or disappears; the store is updated and the
\* handler's queue gets the notification.  Nothing arrives once ctx is done.
ClusterChange(i, p) ==
    /\ ~cancelled
    /\ budget.changes > 0
    /\ p \in Successors(cache[i])
    /\ cache' = [cache EXCEPT ![i] = p]
    /\ pvcQueue' = Append(pvcQueue, [id |-> i, pvc |-> p])
    /\ budget' = [budget EXCEPT !.changes = @ - 1]
    /\ UNCHANGED <<warned, evQueue, handlerVars, lastPublished, debouncerVars, pub,
                   cancelled, natsVars>>

\* The resync period elapses: every claim in the store is notified again.
\* Bound: only when the queue is empty, for i alone (Instances are resynced
\* one by one, in any order).
PvcResync(i) ==
    /\ ~cancelled
    /\ pvcQueue = <<>>
    /\ cache[i] # None
    /\ pvcQueue' = <<[id |-> i, pvc |-> cache[i]]>>
    /\ UNCHANGED <<cache, warned, evQueue, handlerVars, lastPublished, debouncerVars,
                   pub, cancelled, natsVars, budget>>

\* The cluster records a terminal Warning Event about a claim that is Pending or
\* Lost.  The informers watch apart from each other: the PVC informer may not have
\* stored the claim yet, or have dropped it already.
WarningArrives(i) ==
    /\ ~cancelled
    /\ budget.warnings > 0
    /\ cache[i] # None => cache[i].phase \in {"Pending", "Lost"}
    /\ warned' = warned \cup {i}
    /\ evQueue' = evQueue \cup {i}
    /\ budget' = [budget EXCEPT !.warnings = @ - 1]
    /\ UNCHANGED <<cache, pvcQueue, handlerVars, lastPublished, debouncerVars, pub,
                   cancelled, natsVars>>

\* The event informer resyncs: the Warning Events still kept come again.
\* Bound: only when the queue is empty.
EventResync ==
    /\ ~cancelled
    /\ evQueue = {} /\ warned # {}
    /\ evQueue' = warned
    /\ UNCHANGED <<cache, pvcQueue, warned, handlerVars, lastPublished, debouncerVars,
                   pub, cancelled, natsVars, budget>>

\* The cluster drops an old Event; the informer has no handler for that.
WarningExpires(i) ==
    /\ ~cancelled
    /\ i \in warned
    /\ warned' = warned \ {i}
    /\ UNCHANGED <<cache, pvcQueue, evQueue, handlerVars, lastPublished, debouncerVars,
                   pub, cancelled, natsVars, budget>>
-----------------------------------------------------------------------------
(* The handlers: submitIfChanged, up to its return or m.mu.Unlock.         *)

\* Mutant: compared with what was handed over instead of what was published.
UnchangedSinceSubmitted(e) == lastSubmitted[e.id] = e

\* The event equals the last one acknowledged: nothing to do (resync-safe).
Unchanged(e) == lastPublished[e.id] = e

\* Mutant: no latch, any status takes the place of a failure.
NotLatched(e) == FALSE

\* A failure is not downgraded to PROVISIONING.
Latched(e) ==
    /\ lastSubmitted[e.id] # None
    /\ lastSubmitted[e.id].status = "FAILED"
    /\ e.status = "PROVISIONING"

submitIfChanged(t, e) ==
    IF Unchanged(e) \/ Latched(e)
    THEN UNCHANGED <<lastSubmitted, held>>
    ELSE /\ lastSubmitted' = [lastSubmitted EXCEPT ![e.id] = e]
         /\ held' = [held EXCEPT ![t] = e]

\* handlePVCEvent and handlePVCDelete, on the PVC informer's goroutine.
HandlePVC ==
    /\ held["pvc"] = None
    /\ pvcQueue # <<>>
    /\ pvcQueue' = Tail(pvcQueue)
    /\ submitIfChanged("pvc", ObservedEvent(Head(pvcQueue).id, Head(pvcQueue).pvc))
    /\ UNCHANGED <<cache, warned, evQueue, found, lastPublished, debouncerVars, pub,
                   cancelled, natsVars, budget>>

\* handleWarningEvent: the lister finds the claim the warning is about, or the
\* warning is dropped.
LookupWarning(i) ==
    /\ found = None /\ held["event"] = None
    /\ i \in evQueue
    /\ evQueue' = evQueue \ {i}
    /\ found' = IF cache[i] = None THEN None ELSE i
    /\ UNCHANGED <<cache, pvcQueue, warned, held, lastSubmitted,
                   lastPublished, debouncerVars, pub, cancelled, natsVars, budget>>

HandleWarning ==
    /\ found # None
    /\ found' = None
    /\ submitIfChanged("event", WarningEvent(found))
    /\ UNCHANGED <<informerVars, lastPublished, debouncerVars, pub, cancelled,
                   natsVars, budget>>

\* debouncer.Submit(e): replaces the waiting event, or ignored after Stop.
Submit(t) ==
    /\ held[t] # None
    /\ held' = [held EXCEPT ![t] = None]
    /\ pending' = IF stopPc = "running"
                  THEN [pending EXCEPT ![held[t].id] = held[t]]
                  ELSE pending
    /\ UNCHANGED <<informerVars, found, lastSubmitted, lastPublished,
                   toFlush, stopPc, pub, cancelled, natsVars, budget>>

-----------------------------------------------------------------------------
(* Publishing: publishFn on a timer's goroutine (publishers 1..MaxInFlight) *)
(* or in Stop's loop (publisher 0).                                         *)

\* publishFn begins with the event; it looks at ctx.Err() in a later step.
Begin(e) == [pc |-> "start", event |-> e, ctx |-> None, attempt |-> 1]

\* The debounce window of i ends and its waiting event is taken.  Goroutines
\* have no identity: the first idle publisher stands for the new one.
Take(i, p) ==
    /\ stopPc = "running"
    /\ pending[i] # None
    /\ p # 0 /\ pub[p] = Idle
    /\ \A q \in 1..(p - 1) : pub[q] # Idle
    /\ pub' = [pub EXCEPT ![p] = Begin(pending[i])]
    /\ pending' = [pending EXCEPT ![i] = None]
    /\ UNCHANGED <<informerVars, handlerVars, lastPublished, toFlush, stopPc,
                   cancelled, natsVars, budget>>

\* Start's callback uses ctx, or a fresh context with a deadline if ctx is done.
PickContext(p) ==
    /\ pub[p].pc = "start"
    /\ pub' = [pub EXCEPT ![p].pc = "try",
                          ![p].ctx = IF cancelled THEN "fresh" ELSE "run"]
    /\ UNCHANGED <<informerVars, handlerVars, lastPublished, debouncerVars, cancelled,
                   natsVars, budget>>

\* Is p's context done?
CtxDone(p) == pub[p].ctx = "expired" \/ (pub[p].ctx = "run" /\ cancelled)

\* Mutant: one attempt too many.
AfterFailureOffByOne(p) ==
    IF pub[p].attempt <= PublishMaxAttempts
    THEN [pub EXCEPT ![p].pc = "backoff"]
    ELSE [pub EXCEPT ![p] = Idle]

\* publishWithRetry after a failed attempt: wait for the backoff, or give up.
AfterFailure(p) ==
    IF pub[p].attempt < PublishMaxAttempts
    THEN [pub EXCEPT ![p].pc = "backoff"]
    ELSE [pub EXCEPT ![p] = Idle]

\* Publish reaches NATS.
PublishOk(p) ==
    /\ pub[p].pc = "try" /\ ~CtxDone(p)
    /\ lastSent' = [lastSent EXCEPT ![pub[p].event.id] = pub[p].event]
    /\ sent' = sent \cup {pub[p].event}
    /\ pub' = [pub EXCEPT ![p].pc = "ack"]
    /\ UNCHANGED <<informerVars, handlerVars, lastPublished, debouncerVars, cancelled,
                   budget>>

\* Mutant: an error is taken for a success.
PublishErrorAcked(p) ==
    /\ pub[p].pc = "try" /\ ~CtxDone(p)
    /\ budget.failures > 0
    /\ budget' = [budget EXCEPT !.failures = @ - 1]
    /\ pub' = [pub EXCEPT ![p].pc = "ack"]
    /\ UNCHANGED <<informerVars, handlerVars, lastPublished, debouncerVars, cancelled,
                   natsVars>>

\* Publish returns an error of the connection.
PublishError(p) ==
    /\ pub[p].pc = "try" /\ ~CtxDone(p)
    /\ budget.failures > 0
    /\ budget' = [budget EXCEPT !.failures = @ - 1]
    /\ pub' = AfterFailure(p)
    /\ UNCHANGED <<informerVars, handlerVars, lastPublished, debouncerVars, cancelled,
                   natsVars>>

\* Publish finds its context done and sends nothing.
PublishCancelled(p) ==
    /\ pub[p].pc = "try" /\ CtxDone(p)
    /\ pub' = AfterFailure(p)
    /\ UNCHANGED <<informerVars, handlerVars, lastPublished, debouncerVars, cancelled,
                   natsVars, budget>>

\* The select between attempts takes the timer, also when ctx is done too.
Retry(p) ==
    /\ pub[p].pc = "backoff"
    /\ pub' = [pub EXCEPT ![p].pc = "try", ![p].attempt = @ + 1]
    /\ UNCHANGED <<informerVars, handlerVars, lastPublished, debouncerVars, cancelled,
                   natsVars, budget>>

\* The select between attempts takes ctx.Done(): the event is dropped.
GiveUp(p) ==
    /\ pub[p].pc = "backoff" /\ CtxDone(p)
    /\ pub' = [pub EXCEPT ![p] = Idle]
    /\ UNCHANGED <<informerVars, handlerVars, lastPublished, debouncerVars, cancelled,
                   natsVars, budget>>

\* Mutant: a published DELETED leaves the maps as they are.
AckKeepsDeleted(p) ==
    /\ pub[p].pc = "ack"
    /\ lastPublished' = [lastPublished EXCEPT ![pub[p].event.id] = pub[p].event]
    /\ pub' = [pub EXCEPT ![p] = Idle]
    /\ UNCHANGED <<informerVars, handlerVars, debouncerVars, cancelled, natsVars, budget>>

\* After a success, under m.mu: remember the event; DELETED forgets the instance.
Ack(p) ==
    LET e == pub[p].event
    IN  /\ pub[p].pc = "ack"
        /\ IF e.status = "DELETED"
           THEN /\ lastPublished' = [lastPublished EXCEPT ![e.id] = None]
                /\ lastSubmitted' = [lastSubmitted EXCEPT ![e.id] = None]
           ELSE /\ lastPublished' = [lastPublished EXCEPT ![e.id] = e]
                /\ UNCHANGED lastSubmitted
        /\ pub' = [pub EXCEPT ![p] = Idle]
        /\ UNCHANGED <<informerVars, found, held, debouncerVars, cancelled,
                       natsVars, budget>>

\* The shutdown publish budget of a fresh context runs out.
BudgetExpires(p) ==
    /\ pub[p].ctx = "fresh"
    /\ pub' = [pub EXCEPT ![p].ctx = "expired"]
    /\ UNCHANGED <<informerVars, handlerVars, lastPublished, debouncerVars, cancelled,
                   natsVars, budget>>

-----------------------------------------------------------------------------
(* Start after ctx is cancelled: the deferred debouncer.Stop.              *)

Cancel ==
    /\ ~cancelled
    /\ budget.signals > 0
    /\ cancelled' = TRUE
    /\ budget' = [budget EXCEPT !.signals = @ - 1]
    /\ UNCHANGED <<informerVars, handlerVars, lastPublished, debouncerVars, pub,
                   natsVars>>

Stop ==
    /\ cancelled /\ stopPc = "running"
    /\ stopPc' = "flushing"
    /\ toFlush' = {pending[i] : i \in Instances} \ {None}
    /\ pending' = [i \in Instances |-> None]
    /\ UNCHANGED <<informerVars, handlerVars, lastPublished, pub, cancelled, natsVars,
                   budget>>

\* Stop's loop publishes one event at a time.
FlushNext(e) ==
    /\ stopPc = "flushing"
    /\ e \in toFlush /\ pub[0] = Idle
    /\ toFlush' = toFlush \ {e}
    /\ pub' = [pub EXCEPT ![0] = Begin(e)]
    /\ UNCHANGED <<informerVars, handlerVars, lastPublished, pending, stopPc,
                   cancelled, natsVars, budget>>

\* Mutant: Stop does not wait for the callbacks in flight.
StopReturnNoWait ==
    /\ stopPc = "flushing" /\ toFlush = {}
    /\ pub[0] = Idle
    /\ stopPc' = "returned"
    /\ UNCHANGED <<informerVars, handlerVars, lastPublished, pending, toFlush, pub,
                   cancelled, natsVars, budget>>

StopReturn ==
    /\ stopPc = "flushing" /\ toFlush = {}
    /\ \A p \in Publishers : pub[p] = Idle
    /\ stopPc' = "returned"
    /\ UNCHANGED <<informerVars, handlerVars, lastPublished, pending, toFlush, pub,
                   cancelled, natsVars, budget>>

-----------------------------------------------------------------------------

Publish(p) ==
    \/ PickContext(p) \/ PublishOk(p) \/ PublishError(p) \/ PublishCancelled(p)
    \/ Retry(p) \/ GiveUp(p) \/ Ack(p)

Next ==
    \/ \E i \in Instances, p \in PvcStates \cup {None} : ClusterChange(i, p)
    \/ \E i \in Instances :
         PvcResync(i) \/ WarningArrives(i) \/ WarningExpires(i) \/ LookupWarning(i)
    \/ EventResync
    \/ HandlePVC
    \/ HandleWarning
    \/ \E t \in Threads : Submit(t)
    \/ \E i \in Instances, p \in Publishers : Take(i, p)
    \/ \E p \in Publishers : Publish(p) \/ BudgetExpires(p)
    \/ Cancel
    \/ Stop
    \/ \E e \in toFlush : FlushNext(e)
    \/ StopReturn

Spec == Init /\ [][Next]_vars

\* Goroutines run, timers fire, resyncs recur, a publish attempt ends.  A Warning
\* Event may be kept for ever.
Fairness ==
    /\ \A i \in Instances :
         /\ WF_vars(PvcResync(i)) /\ WF_vars(LookupWarning(i))
         /\ WF_vars(\E p \in Publishers : Take(i, p))
    /\ WF_vars(EventResync) /\ WF_vars(HandlePVC) /\ WF_vars(HandleWarning)
    /\ \A t \in Threads : WF_vars(Submit(t))
    /\ \A p \in Publishers : WF_vars(Publish(p))
    /\ WF_vars(Stop) /\ WF_vars(StopReturn)
    /\ WF_vars(\E e \in toFlush : FlushNext(e))

FairSpec == Spec /\ Fairness
-----------------------------------------------------------------------------
PublisherState ==
    [pc : {"idle", "start", "try", "backoff", "ack"}, event : Event \cup {None},
     ctx : {None, "run", "fresh", "expired"}, attempt : 0..PublishMaxAttempts]

\* Types of the monitor's state (monitor.go:24-33, debouncer.go:17-24); no
\* publish goes beyond its attempts.
TypeOK ==
    /\ cache \in [Instances -> PvcStates \cup {None}]
    /\ pvcQueue \in Seq([id : Instances, pvc : PvcStates \cup {None}])
    /\ evQueue \cup warned \subseteq Instances
    /\ found \in Instances \cup {None}
    /\ held \in [Threads -> Event \cup {None}]
    /\ {lastPublished, lastSubmitted, pending, lastSent}
           \subseteq [Instances -> Event \cup {None}]
    /\ toFlush \cup sent \subseteq Event
    /\ stopPc \in {"running", "flushing", "returned"}
    /\ pub \in [Publishers -> PublisherState]
    /\ cancelled \in BOOLEAN

\* What submitIfChanged suppresses as already published really went out: a
\* failed or dropped publish never enters lastPublished (monitor.go:197-201,
\* 220-243).
SuppressedWasSent ==
    \A i \in Instances : lastPublished[i] # None => lastPublished[i] \in sent

\* After Start's Stop has returned no message leaves, and no publish is left
\* running that main's publisher.Close could cut off (monitor.go:115-117).
SilentAfterStop ==
    [][stopPc = "returned" => /\ UNCHANGED natsVars
                              /\ \A p \in Publishers : pub'[p] = Idle]_vars

\* "The FAILED->PROVISIONING guard runs under the same lock as lastSubmitted
\* updates so concurrent informer callbacks cannot downgrade a latched failure"
\* (monitor.go:192-194): when both handlers have handed over what they decided on,
\* PROVISIONING does not wait in the place of a FAILED decided on after it.
FailureNotDowngraded ==
    \A i \in Instances :
        /\ \A t \in Threads : held[t] = None
        /\ pending[i] # None /\ pending[i].status = "PROVISIONING"
        => lastSubmitted[i] = None \/ lastSubmitted[i].status # "FAILED"

\* "only the last status within the debounce window MUST be published"
\* (AC-MON-090): a status that is handled while a different one waits takes its
\* place, unless the latch keeps a failure.
LastStatusInWindow ==
    [][HandlePVC =>
         LET e == ObservedEvent(Head(pvcQueue).id, Head(pvcQueue).pvc)
         IN  pending[e.id] \in {None, e} \/ Latched(e) \/ held'["pvc"] = e]_vars

\* The resync is the repair of every publish whose attempts were used up, and of
\* whatever was replaced, reordered or overlapped: the status of a claim that stays
\* as it is is finally acknowledged by NATS, for good (REQ-MON-170,
\* monitor.go:191-201, 230-235), unless a failure latches it.  While a Warning Event
\* is kept its own resyncs compete; that is WarningAcknowledged's.
StatusAcknowledged ==
    \A i \in Instances :
        <>[](\/ cancelled \/ cache[i] = None \/ i \in warned
             \/ lastPublished[i] = ObservedEvent(i, cache[i])
             \/ /\ MapPVCToStatus(cache[i]).status = "PROVISIONING"
                /\ lastSubmitted[i] # None /\ lastSubmitted[i].status = "FAILED")

\* A Warning Event that the cluster keeps is finally acknowledged as FAILED while its
\* claim stays PROVISIONING, and stays the last one acknowledged: also when it came
\* before the claim and was dropped (k8s_events.go:45-55), when its attempts were
\* used up, and when PROVISIONING overtook it (monitor.go:202-209).
WarningAcknowledged ==
    \A i \in Instances :
        <>[](\/ cancelled \/ i \notin warned
             \/ cache[i] = None \/ MapPVCToStatus(cache[i]).status # "PROVISIONING"
             \/ lastPublished[i] = WarningEvent(i))

\* No two publishes of an instance run at a time: each ends within the window.
Orderly ==
    \A p, q \in Publishers :
        p # q /\ pub[p] # Idle /\ pub[q] # Idle => pub[p].event.id # pub[q].event.id

\* NATS failed less often than one publish has attempts: none used them up.
ShortOutage == MaxFailures - budget.failures < PublishMaxAttempts

\* As long as publishes of an instance do not overlap and none uses up its attempts,
\* the last word on a claim that is gone is DELETED, however often it was deleted and
\* recreated (monitor.go:167-178, 236-242), or the failure of a Warning Event that
\* was looked up while it existed.
DeletedIsLastWord ==
    []Orderly =>
        \A i \in Instances :
            <>[](\/ cancelled \/ cache[i] # None \/ lastSent[i] = None \/ ~ShortOutage
                 \/ lastSent[i] \in {ObservedEvent(i, None), WarningEvent(i)})

\* "When a PVC object no longer exists for a previously tracked instance, the
\* status MUST be DELETED" (REQ-MON-050): the same without the exception.
GoneIsDeleted ==
    \A i \in Instances :
        <>[](\/ cancelled \/ cache[i] # None \/ lastSent[i] = None
             \/ lastSent[i].status = "DELETED")

\* Nothing is waiting between the cluster and NATS for i.
Settled(i) ==
    /\ \A k \in DOMAIN pvcQueue : pvcQueue[k].id # i
    /\ i \notin evQueue /\ found # i
    /\ \A t \in Threads : held[t] = None
    /\ pending[i] = None /\ toFlush = {}
    /\ \A p \in Publishers : pub[p] = Idle

\* "RUNNING: PVC Bound with no active resize conditions" (REQ-MON-120, the
\* status mapping): a bound claim whose notifications were all handled is not
\* reported FAILED.
BoundNotFailed ==
    \A i \in Instances :
        /\ stopPc = "running" /\ Settled(i)
        /\ cache[i] # None /\ MapPVCToStatus(cache[i]).status = "RUNNING"
        /\ lastSent[i] # None
        => lastSent[i].status # "FAILED"
==============================================================================

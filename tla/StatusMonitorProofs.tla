------------------------- MODULE StatusMonitorProofs -------------------------
(***************************************************************************)
(* Proofs about the status monitor, for any instances, claim states,       *)
(* attempts and any number of publishes in flight, changes, warnings and   *)
(* failures.                                                               *)
(***************************************************************************)
EXTENDS StatusMonitor, TLAPS

\* A publisher that is at work has an event; after a success NATS has it, too.
AtWork(w, messages) ==
    /\ w.pc = "idle" => w = Idle
    /\ w.pc # "idle" => w.event \in Event
    /\ w.pc = "backoff" => w.attempt < PublishMaxAttempts
    /\ w.pc = "ack" => w.event \in messages

PublishersAtWork == \A p \in Publishers : AtWork(pub[p], sent)

\* Once Stop began nothing waits; once it returned nothing runs.
StopDrained ==
    /\ stopPc # "running" => \A i \in Instances : pending[i] = None
    /\ stopPc = "returned" => toFlush = {} /\ \A p \in Publishers : pub[p] = Idle

\* The inductive invariant.
IInv == TypeOK /\ PublishersAtWork /\ SuppressedWasSent /\ StopDrained

USE MonitorAssumption, NoneAssumption

-----------------------------------------------------------------------------
\* An event belongs to an instance, and is not None.
LEMMA EventFacts == \A e \in Event : e.id \in Instances /\ e # None
  BY DEF Event, ObservedEvent, WarningEvent, EventOf

\* What the handlers submit is an event.
LEMMA Observed ==
    /\ \A i \in Instances, p \in PvcStates \cup {None} : ObservedEvent(i, p) \in Event
    /\ \A i \in Instances : WarningEvent(i) \in Event
  BY DEF Event

\* The head of a queue is one of its elements.
LEMMA HeadTail ==
    ASSUME NEW S, NEW q \in Seq(S), q # <<>>
    PROVE  Head(q) \in S /\ Tail(q) \in Seq(S)
  OBVIOUS

\* Deciding on an event keeps the types of what it changes.
LEMMA SubmitTypes ==
    ASSUME NEW t \in Threads, NEW e \in Event, TypeOK, submitIfChanged(t, e)
    PROVE  /\ lastSubmitted' \in [Instances -> Event \cup {None}]
           /\ held' \in [Threads -> Event \cup {None}]
<1>1. /\ lastSubmitted \in [Instances -> Event \cup {None}]
      /\ held \in [Threads -> Event \cup {None}]
  BY DEF TypeOK
<1>2. e.id \in Instances
  BY EventFacts
<1>3. QED
  BY <1>1, <1>2 DEF submitIfChanged

-----------------------------------------------------------------------------
\* The informers' steps leave the publishers and the debouncer alone.
LEMMA InformerStep ==
    ASSUME IInv,
           \/ \E i \in Instances, p \in PvcStates \cup {None} : ClusterChange(i, p)
           \/ \E i \in Instances :
                PvcResync(i) \/ WarningArrives(i) \/ WarningExpires(i) \/ LookupWarning(i)
           \/ EventResync
    PROVE  IInv'
<1> USE DEF IInv, TypeOK, PublishersAtWork, AtWork, SuppressedWasSent, StopDrained,
            handlerVars, debouncerVars, natsVars
<1>1. ASSUME NEW i \in Instances, NEW p \in PvcStates \cup {None}, ClusterChange(i, p)
      PROVE  IInv'
  BY <1>1 DEF ClusterChange
<1>2. ASSUME NEW i \in Instances, PvcResync(i) PROVE IInv'
  BY <1>2 DEF PvcResync
<1>3. ASSUME NEW i \in Instances, WarningArrives(i) PROVE IInv'
  BY <1>3 DEF WarningArrives
<1>4. ASSUME NEW i \in Instances, LookupWarning(i) PROVE IInv'
  BY <1>4 DEF LookupWarning
<1>5. CASE EventResync
  BY <1>5 DEF EventResync
<1>6. ASSUME NEW i \in Instances, WarningExpires(i) PROVE IInv'
  BY <1>6 DEF WarningExpires
<1>7. QED
  BY <1>1, <1>2, <1>3, <1>4, <1>5, <1>6

\* So do the handlers', until they submit.
LEMMA HandlerStep ==
    ASSUME IInv, HandlePVC \/ HandleWarning \/ \E t \in Threads : Submit(t)
    PROVE  IInv'
<1> USE DEF IInv, TypeOK, PublishersAtWork, AtWork, SuppressedWasSent, StopDrained,
            informerVars, debouncerVars, natsVars
<1>1. CASE HandlePVC
  <2> DEFINE n == Head(pvcQueue)
  <2>1. /\ n \in [id : Instances, pvc : PvcStates \cup {None}]
        /\ Tail(pvcQueue) \in Seq([id : Instances, pvc : PvcStates \cup {None}])
    BY <1>1, HeadTail DEF HandlePVC
  <2>2. ObservedEvent(n.id, n.pvc) \in Event
    BY <2>1, Observed
  <2>3. submitIfChanged("pvc", ObservedEvent(n.id, n.pvc))
    BY <1>1 DEF HandlePVC
  <2>4. /\ lastSubmitted' \in [Instances -> Event \cup {None}]
        /\ held' \in [Threads -> Event \cup {None}]
    BY <2>2, <2>3, SubmitTypes DEF Threads
  <2>5. QED
    BY <1>1, <2>1, <2>4 DEF HandlePVC
<1>2. CASE HandleWarning
  <2>1. WarningEvent(found) \in Event
    BY <1>2, Observed DEF HandleWarning
  <2>2. /\ lastSubmitted' \in [Instances -> Event \cup {None}]
        /\ held' \in [Threads -> Event \cup {None}]
    BY <1>2, <2>1, SubmitTypes DEF HandleWarning, Threads
  <2>3. QED
    BY <1>2, <2>2 DEF HandleWarning
<1>3. ASSUME NEW t \in Threads, Submit(t) PROVE IInv'
  <2>1. held[t] \in Event /\ held[t].id \in Instances
    BY <1>3, EventFacts DEF Submit
  <2>2. QED
    BY <1>3, <2>1 DEF Submit
<1>4. QED
  BY <1>1, <1>2, <1>3

\* One publisher moves, to a good state.
LEMMA PublisherMoves ==
    ASSUME TypeOK, PublishersAtWork, sent \subseteq sent',
           NEW p \in Publishers, NEW w \in PublisherState, AtWork(w, sent'),
           pub' = [pub EXCEPT ![p] = w]
    PROVE  (PublishersAtWork /\ pub \in [Publishers -> PublisherState])'
<1>1. ASSUME NEW q \in Publishers PROVE AtWork(pub'[q], sent')
  <2>1. pub'[q] = w \/ pub'[q] = pub[q]
    BY DEF TypeOK
  <2>2. QED
    BY <2>1 DEF PublishersAtWork, AtWork
<1>2. QED
  BY <1>1 DEF PublishersAtWork, TypeOK

\* Publishing moves one publisher; only Ack touches the maps, only PublishOk NATS.
LEMMA PublishStep ==
    ASSUME IInv, NEW p \in Publishers, Publish(p) \/ BudgetExpires(p)
    PROVE  IInv'
<1> DEFINE w == pub[p]
<1>1. w \in PublisherState /\ AtWork(w, sent) /\ w.attempt \in Nat
  BY DEF IInv, TypeOK, PublishersAtWork, PublisherState
<1>2. ASSUME w.pc # "idle", stopPc # "returned",
             (PublishersAtWork /\ pub \in [Publishers -> PublisherState])',
             UNCHANGED <<informerVars, handlerVars, lastPublished, debouncerVars, cancelled,
                         natsVars>>
      PROVE  IInv'
  BY <1>2 DEF IInv, TypeOK, SuppressedWasSent, StopDrained, informerVars, handlerVars,
              debouncerVars, natsVars
<1>3. w.pc # "idle" => stopPc # "returned"
  BY DEF IInv, StopDrained, Idle
<1>4. CASE PickContext(p)
  <2> DEFINE v == [w EXCEPT !.pc = "try", !.ctx = IF cancelled THEN "fresh" ELSE "run"]
  <2>1. pub' = [pub EXCEPT ![p] = v]
    BY <1>4 DEF PickContext
  <2>2. v \in PublisherState /\ AtWork(v, sent')
    BY <1>1, <1>4 DEF PickContext, PublisherState, AtWork
  <2>3. QED
    BY <1>2, <1>3, <1>4, <2>1, <2>2, PublisherMoves DEF PickContext, IInv, natsVars
<1>5. CASE PublishOk(p)
  <2> DEFINE v == [w EXCEPT !.pc = "ack"]
  <2>1. w.event \in Event /\ w.event.id \in Instances
    BY <1>1, <1>5, EventFacts DEF PublishOk, AtWork
  <2>2. v \in PublisherState /\ AtWork(v, sent')
    BY <1>1, <1>5, <2>1 DEF PublishOk, PublisherState, AtWork
  <2>3. (PublishersAtWork /\ pub \in [Publishers -> PublisherState])'
    BY <1>5, <2>2, PublisherMoves DEF PublishOk, IInv
  <2>4. QED
    BY <1>3, <1>5, <2>1, <2>3
       DEF PublishOk, IInv, TypeOK, SuppressedWasSent, StopDrained, informerVars, handlerVars,
           debouncerVars
<1>6. ASSUME w.pc = "try", pub' = AfterFailure(p), UNCHANGED sent
      PROVE  (PublishersAtWork /\ pub \in [Publishers -> PublisherState])'
  <2> DEFINE v == [w EXCEPT !.pc = "backoff"]
  <2>1. CASE w.attempt < PublishMaxAttempts
    <3>1. v \in PublisherState /\ AtWork(v, sent')
      BY <1>1, <1>6, <2>1 DEF PublisherState, AtWork
    <3>2. QED
      BY <1>6, <2>1, <3>1, PublisherMoves DEF AfterFailure, IInv
  <2>2. CASE ~(w.attempt < PublishMaxAttempts)
    <3>1. Idle \in PublisherState /\ AtWork(Idle, sent')
      BY DEF PublisherState, AtWork, Idle
    <3>2. QED
      BY <1>6, <2>2, <3>1, PublisherMoves DEF AfterFailure, IInv
  <2>3. QED
    BY <2>1, <2>2
<1>7. CASE PublishError(p) \/ PublishCancelled(p)
  BY <1>2, <1>3, <1>6, <1>7 DEF PublishError, PublishCancelled, natsVars
<1>8. CASE Retry(p)
  <2> DEFINE v == [w EXCEPT !.pc = "try", !.attempt = @ + 1]
  <2>1. w.attempt + 1 \in 0..PublishMaxAttempts
    BY <1>1, <1>8 DEF Retry, AtWork
  <2>2. v \in PublisherState
    BY <1>1, <2>1 DEF PublisherState
  <2>3. v.pc = "try" /\ v.event \in Event
    BY <1>1, <1>8 DEF Retry, PublisherState, AtWork
  <2>4. AtWork(v, sent')
    BY <2>3 DEF AtWork
  <2>5. pub' = [pub EXCEPT ![p] = v]
    BY <1>8 DEF Retry
  <2>6. QED
    BY <1>2, <1>3, <1>8, <2>2, <2>4, <2>5, PublisherMoves DEF Retry, IInv, natsVars
<1>9. ASSUME pub' = [pub EXCEPT ![p] = Idle], UNCHANGED sent
      PROVE  (PublishersAtWork /\ pub \in [Publishers -> PublisherState])'
  <2>1. Idle \in PublisherState /\ AtWork(Idle, sent')
    BY DEF PublisherState, AtWork, Idle
  <2>2. QED
    BY <1>9, <2>1, PublisherMoves DEF IInv
<1>10. CASE GiveUp(p)
  BY <1>2, <1>3, <1>9, <1>10 DEF GiveUp, natsVars
<1>11. CASE Ack(p)
  <2>1. w.event \in Event /\ w.event.id \in Instances /\ w.event \in sent
    BY <1>1, <1>11, EventFacts DEF Ack, AtWork
  <2>2. (PublishersAtWork /\ pub \in [Publishers -> PublisherState])'
    BY <1>9, <1>11 DEF Ack, natsVars
  <2>3. /\ lastPublished' \in [Instances -> Event \cup {None}]
        /\ lastSubmitted' \in [Instances -> Event \cup {None}]
    BY <1>11, <2>1 DEF Ack, natsVars, IInv, TypeOK
  <2>4. SuppressedWasSent'
    BY <1>11, <2>1 DEF Ack, natsVars, IInv, TypeOK, SuppressedWasSent
  <2>5. QED
    BY <1>3, <1>11, <2>2, <2>3, <2>4
       DEF Ack, IInv, TypeOK, StopDrained, informerVars, debouncerVars, natsVars
<1>12. CASE BudgetExpires(p)
  <2> DEFINE v == [w EXCEPT !.ctx = "expired"]
  <2>1. w.pc # "idle"
    BY <1>1, <1>12 DEF BudgetExpires, AtWork, Idle
  <2>2. v \in PublisherState /\ AtWork(v, sent')
    BY <1>1, <1>12, <2>1 DEF BudgetExpires, PublisherState, AtWork, natsVars
  <2>3. QED
    BY <1>2, <1>3, <1>12, <2>1, <2>2, PublisherMoves DEF BudgetExpires, IInv, natsVars
<1>13. QED
  BY <1>4, <1>5, <1>7, <1>8, <1>10, <1>11, <1>12 DEF Publish

\* An event that waits, or that Stop still holds, goes to an idle publisher.
LEMMA DebouncerStep ==
    ASSUME IInv,
           \/ \E i \in Instances, p \in Publishers : Take(i, p)
           \/ Cancel
           \/ Stop
           \/ \E e \in toFlush : FlushNext(e)
           \/ StopReturn
    PROVE  IInv'
<1> USE DEF IInv, TypeOK, PublishersAtWork, AtWork, SuppressedWasSent, StopDrained, PublisherState,
            informerVars, handlerVars, natsVars
<1>1. ASSUME NEW i \in Instances, NEW p \in Publishers, Take(i, p) PROVE IInv'
  BY <1>1 DEF Take, Begin, Idle
<1>2. CASE Cancel
  BY <1>2 DEF Cancel, debouncerVars
<1>3. CASE Stop
  BY <1>3 DEF Stop
<1>4. ASSUME NEW e \in toFlush, FlushNext(e) PROVE IInv'
  <2>1. 0 \in Publishers
    BY DEF Publishers
  <2>2. QED
    BY <1>4, <2>1 DEF FlushNext, Begin, Idle
<1>5. CASE StopReturn
  BY <1>5 DEF StopReturn
<1>6. QED
  BY <1>1, <1>2, <1>3, <1>4, <1>5

-----------------------------------------------------------------------------
LEMMA Initially == Init => IInv
<1> SUFFICES ASSUME Init PROVE IInv
  OBVIOUS
<1>1. {lastPublished, lastSubmitted, pending, lastSent} \subseteq [Instances -> Event \cup {None}]
  BY DEF Init
<1>2. pub \in [Publishers -> PublisherState]
  BY DEF Init, Idle, PublisherState
<1>3. PublishersAtWork
  BY DEF Init, PublishersAtWork, AtWork, Idle
<1>4. /\ SuppressedWasSent /\ StopDrained
      /\ cache \in [Instances -> PvcStates \cup {None}]
      /\ held \in [Threads -> Event \cup {None}]
  BY DEF Init, SuppressedWasSent, StopDrained
<1>5. pvcQueue \in Seq([id : Instances, pvc : PvcStates \cup {None}])
  BY DEF Init
<1>6. /\ evQueue \cup warned \subseteq Instances
      /\ found \in Instances \cup {None}
      /\ toFlush \cup sent \subseteq Event
      /\ stopPc \in {"running", "flushing", "returned"}
      /\ cancelled \in BOOLEAN
  BY DEF Init
<1>7. QED
  BY <1>1, <1>2, <1>3, <1>4, <1>5, <1>6 DEF IInv, TypeOK

LEMMA Inductive == IInv /\ [Next]_vars => IInv'
<1>1. ASSUME IInv, UNCHANGED vars PROVE IInv'
  BY <1>1 DEF vars, informerVars, handlerVars, debouncerVars, natsVars,
              IInv, TypeOK, PublishersAtWork, AtWork, SuppressedWasSent, StopDrained
<1>2. QED
  BY <1>1, InformerStep, HandlerStep, PublishStep, DebouncerStep DEF Next

\* The inductive invariant holds in every reachable state (monitor.go Start,
\* submitIfChanged, publishWithRetry, debouncer.go Stop).
THEOREM Invariance == Spec => []IInv
<1>1. QED
  BY Initially, Inductive, PTL DEF Spec

\* The monitor's maps, queues and publishers keep their types, and no publish goes
\* beyond its attempts (monitor.go:24-33, publishWithRetry).
THEOREM TypeCorrect == Spec => []TypeOK
<1>1. IInv => TypeOK
  BY DEF IInv
<1>2. QED
  BY <1>1, Invariance, PTL

\* What is suppressed as already published was sent (monitor.go:197-201, 220-243).
THEOREM SuppressionIsTrue == Spec => []SuppressedWasSent
<1>1. IInv => SuppressedWasSent
  BY DEF IInv
<1>2. QED
  BY <1>1, Invariance, PTL

\* After Start's Stop returned no message leaves and no publish runs, however
\* many timers fired before (monitor.go:115-117, debouncer.go Stop).
THEOREM SilentAfterStopHolds == Spec => SilentAfterStop
<1> DEFINE Silent == UNCHANGED natsVars /\ \A p \in Publishers : pub'[p] = Idle
<1>1. ASSUME IInv, [Next]_vars, stopPc = "returned" PROVE Silent
  <2>1. /\ toFlush = {}
        /\ \A p \in Publishers : pub[p] = Idle
    BY <1>1 DEF IInv, StopDrained
  <2>2. \A p \in Publishers : ~Publish(p) /\ ~BudgetExpires(p)
    BY <2>1 DEF Publish, PickContext, PublishOk, PublishError, PublishCancelled, Retry,
                GiveUp, Ack, BudgetExpires, Idle
  <2>3. UNCHANGED <<pub, natsVars>>
    BY <1>1, <2>1, <2>2
       DEF Next, vars, natsVars, ClusterChange, PvcResync, WarningArrives,
           WarningExpires, LookupWarning, EventResync, HandlePVC, HandleWarning, Submit, Take, Cancel, Stop, StopReturn
  <2>4. QED
    BY <2>1, <2>3
<1>2. IInv /\ [Next]_vars => [stopPc = "returned" => Silent]_vars
  BY <1>1
<1>3. QED
  BY <1>2, Invariance, PTL DEF Spec, SilentAfterStop
==============================================================================

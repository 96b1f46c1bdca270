--------------------------- MODULE DebouncerProofs ---------------------------
(***************************************************************************)
(* Proofs about the debouncer, for any number of instances, events and     *)
(* submissions: its types, its safety invariants, what Stop guarantees     *)
(* once it has returned, and that it implements the coalescer.             *)
(***************************************************************************)
EXTENDS Debouncer, FiniteSetTheorems, TLAPS

\* Types without the wait group's counter, which needs the counting argument.
Types ==
    /\ DOMAIN instances \subseteq Instances
    /\ instances \in [DOMAIN instances ->
                        [pending : Events, ver : Nat \ {0}, timer : 1..count]]
    /\ timers \subseteq Timer
    /\ flying \subseteq Timer
    /\ publishing \subseteq Job
    /\ toFlush \subseteq Job
    /\ stopPc \in {"running", "flushing", "returned"}
    /\ count \in Nat
    /\ accepted \subseteq Job
    /\ delivered \subseteq Job

\* Submissions are numbered in order, each number once, and everything that is
\* held, published or delivered was submitted.
Numbered ==
    /\ \A a \in accepted : a.n \in 1..count
    /\ \A a, b \in accepted : a.n = b.n => a = b
    /\ Pending \cup InFlight \cup delivered \subseteq accepted

\* What the map holds of an instance is its newest submission.
PendingIsNewest ==
    \A p \in Pending, a \in accepted : a.id = p.id => a.n <= p.n

\* What each phase of Stop leaves.
StopPhase ==
    /\ stopped => DOMAIN instances = {}
    /\ ~stopped => toFlush = {}
    /\ stopPc = "returned" => InFlight = {}

Finite == IsFiniteSet(Pending) /\ IsFiniteSet(publishing) /\ IsFiniteSet(toFlush)

\* The inductive invariant.
IInv ==
    /\ Types
    /\ Numbered
    /\ PendingIsNewest
    /\ StopPhase
    /\ Finite
    /\ AtMostOnce
    /\ NewestNotLost
    /\ PendingHasCallback
    /\ WgCountsInFlight

-----------------------------------------------------------------------------
(* What each step does to the set of submissions in the map.               *)

\* The map holds one submission per instance, and it is a submission.
LEMMA PendingFacts ==
    ASSUME Types
    PROVE  /\ Pending \subseteq Job
           /\ \A p \in Pending : p.id \in DOMAIN instances /\ p = PendingJob(p.id)
           /\ \A i \in DOMAIN instances : PendingJob(i) \in Pending /\ PendingJob(i).id = i
           /\ \A p, q \in Pending : p.id = q.id => p = q
  BY DEF Types, Pending, PendingJob, Job

\* A step that leaves the map alone leaves what it holds alone.
LEMMA SamePending ==
    ASSUME UNCHANGED instances
    PROVE  Pending' = Pending
  BY DEF Pending, PendingJob

\* Submit replaces the instance's waiting submission by the new one.
LEMMA SubmitPending ==
    ASSUME Types, NEW i \in Instances, NEW e \in Events, Submit(i, e)
    PROVE  Pending' = {p \in Pending : p.id # i}
                        \cup {[id |-> i, ev |-> e, n |-> count + 1]}
  <1> DEFINE new == [id |-> i, ev |-> e, n |-> count + 1]
  <1>1. /\ DOMAIN instances' = DOMAIN instances \cup {i}
        /\ instances'[i].pending = e /\ instances'[i].timer = count + 1
        /\ \A k \in DOMAIN instances \ {i} : instances'[k] = instances[k]
    BY DEF Submit, Types
  <1>2. PendingJob(i)' = new
    BY <1>1 DEF PendingJob
  <1>3. \A k \in DOMAIN instances \ {i} : PendingJob(k)' = PendingJob(k)
    BY <1>1 DEF PendingJob
  <1>4. \A k \in DOMAIN instances : PendingJob(k).id = k
    BY DEF PendingJob
  <1>5. Pending' = {PendingJob(k)' : k \in DOMAIN instances'}
    BY DEF Pending
  <1> HIDE DEF new
  <1>6. Pending' = {PendingJob(k) : k \in DOMAIN instances \ {i}} \cup {new}
    BY <1>1, <1>2, <1>3, <1>5
  <1>7. {PendingJob(k) : k \in DOMAIN instances \ {i}} = {p \in Pending : p.id # i}
    BY <1>4 DEF Pending
  <1> QED BY <1>6, <1>7 DEF new

\* A callback that takes removes one submission from the map.
LEMMA TakePending ==
    ASSUME Types, NEW c \in flying, CallbackTake(c)
    PROVE  /\ PendingJob(c.id) \in Pending
           /\ Pending' = Pending \ {PendingJob(c.id)}
  <1>1. /\ c.id \in DOMAIN instances
        /\ DOMAIN instances' = DOMAIN instances \ {c.id}
        /\ \A k \in DOMAIN instances \ {c.id} : instances'[k] = instances[k]
    BY DEF CallbackTake, Current, Without
  <1>2. \A k \in DOMAIN instances \ {c.id} : PendingJob(k)' = PendingJob(k)
    BY <1>1 DEF PendingJob
  <1>3. \A k, l \in DOMAIN instances : PendingJob(k) = PendingJob(l) => k = l
    BY DEF PendingJob
  <1>4. Pending' = {PendingJob(k)' : k \in DOMAIN instances'}
    BY DEF Pending
  <1>5. Pending' = {PendingJob(k) : k \in DOMAIN instances \ {c.id}}
    BY <1>1, <1>2, <1>4
  <1> QED BY <1>1, <1>3, <1>5 DEF Pending

\* Stop empties the map.
LEMMA StopPending ==
    ASSUME Stop
    PROVE  Pending' = {} /\ DOMAIN instances' = {}
  BY DEF Stop, Without, Pending

-----------------------------------------------------------------------------
(* Each part of the invariant is preserved by every step.                  *)

\* The case split all preservation lemmas share.
Step ==
    \/ \E i \in Instances, e \in Events : Submit(i, e)
    \/ \E t \in timers : Fire(t)
    \/ \E c \in flying : CallbackTake(c)
    \/ \E c \in flying : CallbackStale(c)
    \/ \E j \in publishing : PublishReturn(j)
    \/ Stop
    \/ \E j \in toFlush : FlushOne(j)
    \/ StopReturn
    \/ UNCHANGED vars

LEMMA NextIsStep ==
    ASSUME [Next]_vars
    PROVE  Step
  BY DEF Next, Step, SubmitStopped

\* Types are preserved.
LEMMA TypesStep ==
    ASSUME Types, Step
    PROVE  Types'
  <1>1. CASE \E i \in Instances, e \in Events : Submit(i, e)
    <2> PICK i \in Instances, e \in Events : Submit(i, e)  BY <1>1
    <2>1. NextVer(i) \in Nat \ {0}
      BY DEF Types, NextVer
    <2>2. instances' \in [DOMAIN instances' ->
                            [pending : Events, ver : Nat \ {0}, timer : 1..count']]
      BY <2>1 DEF Types, Submit
    <2>3. timers' \subseteq Timer /\ accepted' \subseteq Job
      BY <2>1 DEF Types, Submit, OtherTimers, CapturedVer, Timer, Job
    <2> QED BY <2>2, <2>3 DEF Types, Submit
  <1>2. CASE \E t \in timers : Fire(t)
    BY <1>2 DEF Types, Fire
  <1>3. CASE \E c \in flying : CallbackTake(c)
    <2> PICK c \in flying : CallbackTake(c)  BY <1>3
    <2>1. PendingJob(c.id) \in Job
      BY TakePending, PendingFacts
    <2>2. instances' \in [DOMAIN instances' ->
                            [pending : Events, ver : Nat \ {0}, timer : 1..count]]
      BY DEF Types, CallbackTake, Without
    <2> QED BY <2>1, <2>2 DEF Types, CallbackTake, Without
  <1>4. CASE \E c \in flying : CallbackStale(c)
    BY <1>4 DEF Types, CallbackStale
  <1>5. CASE \E j \in publishing : PublishReturn(j)
    BY <1>5 DEF Types, PublishReturn
  <1>6. CASE Stop
    <2>1. toFlush' \subseteq Job
      BY <1>6, PendingFacts DEF Stop
    <2>2. instances' \in [DOMAIN instances' ->
                            [pending : Events, ver : Nat \ {0}, timer : 1..count]]
      BY <1>6 DEF Types, Stop, Without
    <2> QED BY <1>6, <2>1, <2>2, StopPending DEF Types, Stop
  <1>7. CASE \E j \in toFlush : FlushOne(j)
    BY <1>7 DEF Types, FlushOne
  <1>8. CASE StopReturn
    BY <1>8 DEF Types, StopReturn
  <1>9. CASE UNCHANGED vars
    BY <1>9 DEF Types, vars
  <1> QED BY <1>1, <1>2, <1>3, <1>4, <1>5, <1>6, <1>7, <1>8, <1>9 DEF Step

\* The numbering of submissions, and the newest being the one in the map.
LEMMA NumberedStep ==
    ASSUME Types, Numbered, PendingIsNewest, StopPhase, Step
    PROVE  Numbered' /\ PendingIsNewest'
  <1>1. CASE \E i \in Instances, e \in Events : Submit(i, e)
    <2> PICK i \in Instances, e \in Events : Submit(i, e)  BY <1>1
    <2> DEFINE new == [id |-> i, ev |-> e, n |-> count + 1]
    <2>1. Pending' = {p \in Pending : p.id # i} \cup {new}
      BY SubmitPending
    <2>2. /\ accepted' = accepted \cup {new} /\ count' = count + 1
          /\ UNCHANGED <<publishing, toFlush, delivered>>
      BY DEF Submit
    <2>3. new.n = count + 1 /\ new.id = i /\ count \in Nat
      BY DEF Types
    <2>4. \A a \in accepted : a.n \in 1..count
      BY DEF Numbered
    <2> HIDE DEF new
    <2>5. Numbered'
      BY <2>1, <2>2, <2>3, <2>4 DEF Numbered, InFlight
    <2>6. PendingIsNewest'
      BY <2>1, <2>2, <2>3, <2>4 DEF Numbered, PendingIsNewest
    <2> QED BY <2>5, <2>6
  <1>2. CASE \E t \in timers : Fire(t)
    BY <1>2, SamePending DEF Numbered, PendingIsNewest, InFlight, Fire
  <1>3. CASE \E c \in flying : CallbackTake(c)
    <2> PICK c \in flying : CallbackTake(c)  BY <1>3
    <2>1. PendingJob(c.id) \in Pending /\ Pending' = Pending \ {PendingJob(c.id)}
      BY TakePending
    <2> QED BY <2>1 DEF Numbered, PendingIsNewest, InFlight, CallbackTake
  <1>4. CASE \E c \in flying : CallbackStale(c)
    BY <1>4, SamePending DEF Numbered, PendingIsNewest, InFlight, CallbackStale
  <1>5. CASE \E j \in publishing : PublishReturn(j)
    BY <1>5, SamePending DEF Numbered, PendingIsNewest, InFlight, PublishReturn
  <1>6. CASE Stop
    BY <1>6, StopPending DEF Numbered, PendingIsNewest, InFlight, Stop, StopPhase
  <1>7. CASE \E j \in toFlush : FlushOne(j)
    BY <1>7, SamePending DEF Numbered, PendingIsNewest, InFlight, FlushOne
  <1>8. CASE StopReturn
    BY <1>8, SamePending DEF Numbered, PendingIsNewest, InFlight, StopReturn
  <1>9. CASE UNCHANGED vars
    BY <1>9, SamePending DEF Numbered, PendingIsNewest, InFlight, vars
  <1> QED BY <1>1, <1>2, <1>3, <1>4, <1>5, <1>6, <1>7, <1>8, <1>9 DEF Step

\* What each phase of Stop leaves, and finiteness.
LEMMA StopPhaseStep ==
    ASSUME Types, StopPhase, Finite, WgCountsInFlight, Step
    PROVE  StopPhase' /\ Finite'
  <1>1. CASE \E i \in Instances, e \in Events : Submit(i, e)
    <2> PICK i \in Instances, e \in Events : Submit(i, e)  BY <1>1
    <2> DEFINE rest == {p \in Pending : p.id # i}
               new == [id |-> i, ev |-> e, n |-> count + 1]
    <2>1. Pending' = rest \cup {new}
      BY SubmitPending
    <2>2. IsFiniteSet(rest)
      BY FS_Subset DEF Finite
    <2>3. IsFiniteSet(Pending')
      BY <2>1, <2>2, FS_AddElement
    <2> QED BY <2>3 DEF StopPhase, Finite, InFlight, stopped, Submit
  <1>2. CASE \E t \in timers : Fire(t)
    BY <1>2, SamePending DEF StopPhase, Finite, InFlight, stopped, Fire
  <1>3. CASE \E c \in flying : CallbackTake(c)
    <2> PICK c \in flying : CallbackTake(c)  BY <1>3
    <2>1. IsFiniteSet(Pending')
      BY TakePending, FS_RemoveElement DEF Finite
    <2>2. IsFiniteSet(publishing')
      BY FS_AddElement DEF Finite, CallbackTake
    <2> QED BY <2>1, <2>2 DEF StopPhase, Finite, InFlight, stopped, CallbackTake, Current
  <1>4. CASE \E c \in flying : CallbackStale(c)
    BY <1>4, SamePending DEF StopPhase, Finite, InFlight, stopped, CallbackStale
  <1>5. CASE \E j \in publishing : PublishReturn(j)
    <2>1. IsFiniteSet(publishing')
      BY <1>5, FS_RemoveElement DEF Finite, PublishReturn
    <2> QED BY <1>5, <2>1, SamePending DEF StopPhase, Finite, InFlight, stopped, PublishReturn
  <1>6. CASE Stop
    <2>1. IsFiniteSet(Pending') /\ IsFiniteSet(toFlush')
      BY <1>6, StopPending, FS_EmptySet DEF Finite, Stop
    <2> QED BY <1>6, <2>1, StopPending DEF StopPhase, Finite, InFlight, stopped, Stop
  <1>7. CASE \E j \in toFlush : FlushOne(j)
    <2>1. IsFiniteSet(toFlush')
      BY <1>7, FS_RemoveElement DEF Finite, FlushOne
    <2> QED BY <1>7, <2>1, SamePending DEF StopPhase, Finite, InFlight, stopped, FlushOne
  <1>8. CASE StopReturn
    <2>1. publishing = {} /\ toFlush = {}
      <3>1. Cardinality(publishing) = 0
        BY <1>8, FS_EmptySet, FS_CardinalityType DEF StopReturn, WgCountsInFlight, Finite
      <3> QED BY <1>8, <3>1, FS_EmptySet DEF StopReturn, Finite
    <2> QED BY <1>8, <2>1, SamePending DEF StopPhase, Finite, InFlight, stopped, StopReturn
  <1>9. CASE UNCHANGED vars
    BY <1>9, SamePending DEF StopPhase, Finite, InFlight, stopped, vars
  <1> QED BY <1>1, <1>2, <1>3, <1>4, <1>5, <1>6, <1>7, <1>8, <1>9 DEF Step

\* The wait group counts the publishes in flight.
LEMMA WgStep ==
    ASSUME Types, Numbered, StopPhase, Finite, AtMostOnce, WgCountsInFlight, Step
    PROVE  WgCountsInFlight'
  <1> Cardinality(publishing) \in Nat /\ Cardinality(toFlush) \in Nat
    BY FS_CardinalityType DEF Finite
  <1>1. CASE \E i \in Instances, e \in Events : Submit(i, e)
    BY <1>1, SamePending DEF WgCountsInFlight, Submit
  <1>2. CASE \E t \in timers : Fire(t)
    BY <1>2, SamePending DEF WgCountsInFlight, Fire
  <1>3. CASE \E c \in flying : CallbackTake(c)
    <2> PICK c \in flying : CallbackTake(c)  BY <1>3
    <2>1. PendingJob(c.id) \notin publishing
      BY TakePending DEF AtMostOnce, InFlight
    <2>2. Cardinality(publishing') = Cardinality(publishing) + 1
      BY <2>1, FS_AddElement DEF Finite, CallbackTake
    <2> QED BY <2>2 DEF WgCountsInFlight, CallbackTake
  <1>4. CASE \E c \in flying : CallbackStale(c)
    BY <1>4, SamePending DEF WgCountsInFlight, CallbackStale
  <1>5. CASE \E j \in publishing : PublishReturn(j)
    <2>1. Cardinality(publishing') = Cardinality(publishing) - 1
      BY <1>5, FS_RemoveElement DEF Finite, PublishReturn
    <2> QED BY <1>5, <2>1 DEF WgCountsInFlight, PublishReturn
  <1>6. CASE Stop
    <2>1. toFlush = {} /\ Cardinality(toFlush) = 0
      BY <1>6, FS_EmptySet DEF StopPhase, Stop
    <2>2. Cardinality(Pending) \in Nat
      BY FS_CardinalityType DEF Finite
    <2> QED BY <1>6, <2>1, <2>2 DEF WgCountsInFlight, Stop
  <1>7. CASE \E j \in toFlush : FlushOne(j)
    <2>1. Cardinality(toFlush') = Cardinality(toFlush) - 1
      BY <1>7, FS_RemoveElement DEF Finite, FlushOne
    <2> QED BY <1>7, <2>1 DEF WgCountsInFlight, FlushOne
  <1>8. CASE StopReturn
    BY <1>8, SamePending DEF WgCountsInFlight, StopReturn
  <1>9. CASE UNCHANGED vars
    BY <1>9, SamePending DEF WgCountsInFlight, vars
  <1> QED BY <1>1, <1>2, <1>3, <1>4, <1>5, <1>6, <1>7, <1>8, <1>9 DEF Step

\* A submission is in one place only.
LEMMA AtMostOnceStep ==
    ASSUME Types, Numbered, StopPhase, AtMostOnce, Step
    PROVE  AtMostOnce'
  <1>1. CASE \E i \in Instances, e \in Events : Submit(i, e)
    <2> PICK i \in Instances, e \in Events : Submit(i, e)  BY <1>1
    <2> DEFINE new == [id |-> i, ev |-> e, n |-> count + 1]
    <2>1. Pending' = {p \in Pending : p.id # i} \cup {new}
      BY SubmitPending
    <2>2. new \notin accepted
      BY DEF Numbered, Types
    <2> HIDE DEF new
    <2> QED BY <2>1, <2>2 DEF AtMostOnce, InFlight, Numbered, Submit
  <1>2. CASE \E t \in timers : Fire(t)
    BY <1>2, SamePending DEF AtMostOnce, InFlight, Fire
  <1>3. CASE \E c \in flying : CallbackTake(c)
    <2> PICK c \in flying : CallbackTake(c)  BY <1>3
    <2>1. PendingJob(c.id) \in Pending /\ Pending' = Pending \ {PendingJob(c.id)}
      BY TakePending
    <2>2. toFlush = {}
      BY DEF CallbackTake, Current, StopPhase
    <2> QED BY <2>1, <2>2 DEF AtMostOnce, InFlight, CallbackTake
  <1>4. CASE \E c \in flying : CallbackStale(c)
    BY <1>4, SamePending DEF AtMostOnce, InFlight, CallbackStale
  <1>5. CASE \E j \in publishing : PublishReturn(j)
    BY <1>5, SamePending DEF AtMostOnce, InFlight, PublishReturn
  <1>6. CASE Stop
    BY <1>6, StopPending DEF AtMostOnce, InFlight, StopPhase, Stop
  <1>7. CASE \E j \in toFlush : FlushOne(j)
    BY <1>7, SamePending DEF AtMostOnce, InFlight, FlushOne
  <1>8. CASE StopReturn
    BY <1>8, SamePending DEF AtMostOnce, InFlight, StopReturn
  <1>9. CASE UNCHANGED vars
    BY <1>9, SamePending DEF AtMostOnce, InFlight, vars
  <1> QED BY <1>1, <1>2, <1>3, <1>4, <1>5, <1>6, <1>7, <1>8, <1>9 DEF Step

\* The newest submission of an instance is not lost.
LEMMA NewestNotLostStep ==
    ASSUME Types, Numbered, StopPhase, NewestNotLost, Step
    PROVE  NewestNotLost'
  <1>1. CASE \E i \in Instances, e \in Events : Submit(i, e)
    <2> PICK i \in Instances, e \in Events : Submit(i, e)  BY <1>1
    <2> DEFINE new == [id |-> i, ev |-> e, n |-> count + 1]
    <2>1. Pending' = {p \in Pending : p.id # i} \cup {new}
      BY SubmitPending
    <2>2. /\ accepted' = accepted \cup {new}
          /\ UNCHANGED <<publishing, toFlush, delivered>>
      BY DEF Submit
    <2>3. new.id = i /\ \A a \in accepted : new.n > a.n
      BY DEF Numbered, Types, Job
    <2> HIDE DEF new
    <2>4. SUFFICES ASSUME NEW a \in accepted'
                   PROVE  \/ \E b \in accepted' : b.id = a.id /\ b.n > a.n
                          \/ a \in (Pending \cup InFlight \cup delivered)'
      BY DEF NewestNotLost
    <2>5. CASE a = new
      BY <2>1, <2>5
    <2>6. CASE a \in accepted /\ a.id = i
      BY <2>2, <2>3, <2>6
    <2>7. CASE a \in accepted /\ a.id # i
      BY <2>1, <2>2, <2>7 DEF NewestNotLost, InFlight
    <2> QED BY <2>2, <2>5, <2>6, <2>7
  <1>2. CASE \E t \in timers : Fire(t)
    BY <1>2, SamePending DEF NewestNotLost, InFlight, Fire
  <1>3. CASE \E c \in flying : CallbackTake(c)
    <2> PICK c \in flying : CallbackTake(c)  BY <1>3
    <2>1. PendingJob(c.id) \in Pending /\ Pending' = Pending \ {PendingJob(c.id)}
      BY TakePending
    <2> QED BY <2>1 DEF NewestNotLost, InFlight, CallbackTake
  <1>4. CASE \E c \in flying : CallbackStale(c)
    BY <1>4, SamePending DEF NewestNotLost, InFlight, CallbackStale
  <1>5. CASE \E j \in publishing : PublishReturn(j)
    BY <1>5, SamePending DEF NewestNotLost, InFlight, PublishReturn
  <1>6. CASE Stop
    BY <1>6, StopPending DEF NewestNotLost, InFlight, StopPhase, Stop
  <1>7. CASE \E j \in toFlush : FlushOne(j)
    BY <1>7, SamePending DEF NewestNotLost, InFlight, FlushOne
  <1>8. CASE StopReturn
    BY <1>8, SamePending DEF NewestNotLost, InFlight, StopReturn
  <1>9. CASE UNCHANGED vars
    BY <1>9, SamePending DEF NewestNotLost, InFlight, vars
  <1> QED BY <1>1, <1>2, <1>3, <1>4, <1>5, <1>6, <1>7, <1>8, <1>9 DEF Step

\* A pending event keeps a callback that will match its version: Submit stops
\* only the timer it replaces, and a callback that finds another version is not
\* the one the event relies on.
LEMMA PendingHasCallbackStep ==
    ASSUME Types, Numbered, StopPhase, PendingHasCallback, Step
    PROVE  PendingHasCallback'
  <1>1. CASE \E i \in Instances, e \in Events : Submit(i, e)
    <2> PICK i \in Instances, e \in Events : Submit(i, e)  BY <1>1
    <2> DEFINE new == [id |-> i, ver |-> NextVer(i), n |-> count + 1]
    <2>1. /\ new \in timers' /\ flying' = flying
          /\ OtherTimers(i) \subseteq timers'
          /\ DOMAIN instances' = DOMAIN instances \cup {i}
          /\ instances'[i].ver = new.ver /\ instances'[i].timer = new.n
          /\ \A k \in DOMAIN instances \ {i} : instances'[k] = instances[k]
      BY DEF Submit, CapturedVer, Types
    <2>2. SUFFICES ASSUME NEW k \in DOMAIN instances', k # i
                   PROVE  \E t \in timers' \cup flying' :
                             /\ t.id = k
                             /\ t.ver = instances'[k].ver
                             /\ t.n = instances'[k].timer
      BY <2>1 DEF PendingHasCallback
    <2>3. PICK t \in timers \cup flying :
             /\ t.id = k
             /\ t.ver = instances[k].ver
             /\ t.n = instances[k].timer
      BY <2>1, <2>2 DEF PendingHasCallback
    <2>4. i \in DOMAIN instances => instances[i].timer # instances[k].timer
      <3>1. ASSUME i \in DOMAIN instances PROVE PendingJob(i).n # PendingJob(k).n
        BY <2>1, <2>2, <3>1, PendingFacts DEF Numbered
      <3> QED BY <3>1 DEF PendingJob
    <2>5. t \in timers' \cup flying'
      BY <2>1, <2>3, <2>4 DEF OtherTimers
    <2> QED BY <2>1, <2>2, <2>3, <2>5
  <1>2. CASE \E t \in timers : Fire(t)
    BY <1>2 DEF PendingHasCallback, Fire
  <1>3. CASE \E c \in flying : CallbackTake(c)
    <2> PICK c \in flying : CallbackTake(c)  BY <1>3
    <2>1. SUFFICES ASSUME NEW k \in DOMAIN instances'
                   PROVE  \E t \in timers' \cup flying' :
                             /\ t.id = k
                             /\ t.ver = instances'[k].ver
                             /\ t.n = instances'[k].timer
      BY DEF PendingHasCallback
    <2>2. k \in DOMAIN instances /\ k # c.id /\ instances'[k] = instances[k]
      BY <2>1 DEF CallbackTake, Without
    <2> QED BY <2>2 DEF PendingHasCallback, CallbackTake
  <1>4. CASE \E c \in flying : CallbackStale(c)
    <2> PICK c \in flying : CallbackStale(c)  BY <1>4
    <2>1. SUFFICES ASSUME NEW k \in DOMAIN instances
                   PROVE  \E t \in timers \cup (flying \ {c}) :
                             /\ t.id = k
                             /\ t.ver = instances[k].ver
                             /\ t.n = instances[k].timer
      BY DEF PendingHasCallback, CallbackStale
    <2>2. ~stopped
      BY <2>1 DEF StopPhase
    <2>3. c.id = k => instances[k].ver # c.ver
      BY <2>1, <2>2 DEF CallbackStale, Current
    <2> QED BY <2>3 DEF PendingHasCallback
  <1>5. CASE \E j \in publishing : PublishReturn(j)
    BY <1>5, SamePending DEF PendingHasCallback, PublishReturn
  <1>6. CASE Stop
    BY <1>6, StopPending DEF PendingHasCallback
  <1>7. CASE \E j \in toFlush : FlushOne(j)
    BY <1>7, SamePending DEF PendingHasCallback, FlushOne
  <1>8. CASE StopReturn
    BY <1>8, SamePending DEF PendingHasCallback, StopReturn
  <1>9. CASE UNCHANGED vars
    BY <1>9, SamePending DEF PendingHasCallback, vars
  <1> QED BY <1>1, <1>2, <1>3, <1>4, <1>5, <1>6, <1>7, <1>8, <1>9 DEF Step

-----------------------------------------------------------------------------

\* The invariant holds initially and every step preserves it.
LEMMA Inductive ==
    /\ Init => IInv
    /\ IInv /\ [Next]_vars => IInv'
  <1>1. ASSUME Init PROVE IInv
    <2>1. Pending = {}
      BY <1>1 DEF Init, Pending
    <2>2. Finite /\ WgCountsInFlight
      BY <1>1, <2>1, FS_EmptySet DEF Init, Finite, WgCountsInFlight
    <2> QED BY <1>1, <2>1, <2>2 DEF Init, IInv, Types, Numbered, PendingIsNewest,
                 StopPhase, stopped, AtMostOnce, NewestNotLost, PendingHasCallback,
                 InFlight
  <1>2. ASSUME IInv, [Next]_vars PROVE IInv'
    BY <1>2, NextIsStep, TypesStep, NumberedStep, StopPhaseStep, AtMostOnceStep,
       NewestNotLostStep, PendingHasCallbackStep, WgStep DEF IInv
  <1> QED BY <1>1, <1>2

\* The inductive invariant holds of the debouncer (Submit, the timer callbacks
\* and Stop of debouncer.go, in any order).
THEOREM Invariance == Spec => []IInv
  BY Inductive, PTL DEF Spec

\* The state keeps its types (debouncer.go:9-24); in particular d.wg never
\* drops below zero, which would panic.
THEOREM TypeCorrect == Spec => []TypeOK
  <1>1. IInv => TypeOK
    BY FS_CardinalityType DEF IInv, Types, TypeOK, Finite, WgCountsInFlight
  <1> QED BY Invariance, <1>1, PTL

\* The newest submission of every instance is in the map, being published or
\* published, in whatever order timers, callbacks, Submits and Stop come
\* (debouncer.go:94-96).
THEOREM NothingLost == Spec => []NewestNotLost
  <1>1. IInv => NewestNotLost
    BY DEF IInv
  <1> QED BY Invariance, <1>1, PTL

\* Nothing is published twice, although a callback and Stop compete for the
\* pending event (debouncer.go:71-83, 98-109).
THEOREM PublishedOnce == Spec => []AtMostOnce
  <1>1. IInv => AtMostOnce
    BY DEF IInv
  <1> QED BY Invariance, <1>1, PTL

\* A pending event always has a callback whose captured version will match
\* (debouncer.go:52-79).
THEOREM NothingStranded == Spec => []PendingHasCallback
  <1>1. IInv => PendingHasCallback
    BY DEF IInv
  <1> QED BY Invariance, <1>1, PTL

\* The wait group counts exactly the publishes that Stop must wait for
\* (debouncer.go:82, 89, 108, 113).
THEOREM WaitIsJustified == Spec => []WgCountsInFlight
  <1>1. IInv => WgCountsInFlight
    BY DEF IInv
  <1> QED BY Invariance, <1>1, PTL

\* Nothing is published once Stop has returned (debouncer.go:94-96).
THEOREM QuietAfterStop == Spec => QuietAfterReturn
  <1>1. ASSUME IInv, [Next]_vars, stopPc = "returned"
        PROVE  /\ InFlight' = {}
               /\ instances' = instances /\ DOMAIN instances = {}
               /\ delivered' = delivered
    <2>1. stopped /\ DOMAIN instances = {} /\ publishing = {} /\ toFlush = {}
      BY <1>1 DEF IInv, StopPhase, InFlight, stopped
    <2>2. CASE \E c \in flying : CallbackTake(c)
      BY <2>1, <2>2 DEF CallbackTake, Current
    <2>3. CASE \E t \in timers : Fire(t)
      BY <2>1, <2>3 DEF Fire, InFlight
    <2>4. CASE \E c \in flying : CallbackStale(c)
      BY <2>1, <2>4 DEF CallbackStale, InFlight
    <2>5. CASE UNCHANGED vars
      BY <2>1, <2>5 DEF vars, InFlight
    <2> QED BY <1>1, <2>1, <2>2, <2>3, <2>4, <2>5, NextIsStep
            DEF Step, Submit, Stop, StopReturn
  <1>2. IInv /\ [Next]_vars
          => [stopPc = "returned" => /\ InFlight' = {}
                                     /\ instances' = instances /\ DOMAIN instances = {}
                                     /\ delivered' = delivered]_vars
    BY <1>1
  <1> QED BY Invariance, <1>2, PTL DEF Spec, QuietAfterReturn

-----------------------------------------------------------------------------
(* Refinement: Submit is Put, a taking callback is Take, publishFn's return *)
(* is Deliver, the locked part of Stop is Close; firing timers and stale    *)
(* callbacks are invisible.                                                 *)

\* A step that changes nothing the coalescer sees.
LEMMA Invisible ==
    ASSUME Pending' = Pending, InFlight' = InFlight,
           UNCHANGED <<count, accepted, delivered, stopPc>>
    PROVE  UNCHANGED C!vars
  BY DEF C!vars

\* Every step of the debouncer is a step of the coalescer or a stutter.
LEMMA StepRefines ==
    ASSUME IInv, Step
    PROVE  [C!Next]_(C!vars)
  <1> USE DEF IInv
  <1>1. CASE \E i \in Instances, e \in Events : Submit(i, e)
    <2> PICK i \in Instances, e \in Events : Submit(i, e)  BY <1>1
    <2>1. InFlight' = InFlight
      BY DEF Submit, InFlight
    <2>2. stopPc = "running" /\ stopPc' = "running"
      BY DEF Submit, stopped
    <2>3. C!Put(i, e)
      BY <2>1, <2>2, SubmitPending DEF C!Put, Submit
    <2> QED BY <2>3 DEF C!Next
  <1>2. CASE \E t \in timers : Fire(t)
    BY <1>2, SamePending, Invisible DEF Fire, InFlight
  <1>3. CASE \E c \in flying : CallbackTake(c)
    <2> PICK c \in flying : CallbackTake(c)  BY <1>3
    <2>1. PendingJob(c.id) \in Pending /\ Pending' = Pending \ {PendingJob(c.id)}
      BY TakePending
    <2>2. InFlight' = InFlight \cup {PendingJob(c.id)}
      BY DEF CallbackTake, InFlight
    <2>3. stopPc = "running" /\ stopPc' = "running"
      BY DEF CallbackTake, Current, stopped
    <2>4. C!Take(PendingJob(c.id))
      BY <2>1, <2>2, <2>3 DEF C!Take, CallbackTake
    <2> QED BY <2>1, <2>4 DEF C!Next
  <1>4. CASE \E c \in flying : CallbackStale(c)
    BY <1>4, SamePending, Invisible DEF CallbackStale, InFlight
  <1>5. CASE \E j \in publishing : PublishReturn(j)
    <2> PICK j \in publishing : PublishReturn(j)  BY <1>5
    <2>1. j \in InFlight /\ InFlight' = InFlight \ {j}
      BY DEF PublishReturn, InFlight, AtMostOnce
    <2>2. C!Deliver(j)
      BY <2>1, SamePending DEF C!Deliver, PublishReturn
    <2> QED BY <2>1, <2>2 DEF C!Next
  <1>6. CASE Stop
    <2>1. Pending' = {} /\ InFlight' = InFlight \cup Pending
      BY <1>6, StopPending DEF Stop, InFlight, StopPhase
    <2>2. stopPc = "running" /\ stopPc' = "flushing"
      BY <1>6 DEF Stop, stopped
    <2>3. C!Close
      BY <1>6, <2>1, <2>2 DEF C!Close, Stop
    <2> QED BY <2>3 DEF C!Next
  <1>7. CASE \E j \in toFlush : FlushOne(j)
    <2> PICK j \in toFlush : FlushOne(j)  BY <1>7
    <2>1. j \in InFlight /\ InFlight' = InFlight \ {j}
      BY DEF FlushOne, InFlight, AtMostOnce
    <2>2. C!Deliver(j)
      BY <2>1, SamePending DEF C!Deliver, FlushOne
    <2> QED BY <2>1, <2>2 DEF C!Next
  <1>8. CASE StopReturn
    <2>1. publishing = {}
      <3>1. Cardinality(publishing) = 0
        BY <1>8, FS_EmptySet, FS_CardinalityType DEF StopReturn, WgCountsInFlight, Finite
      <3> QED BY <3>1, FS_EmptySet DEF Finite
    <2>2. InFlight = {} /\ InFlight' = {}
      BY <1>8, <2>1 DEF InFlight, StopReturn
    <2>3. C!Return
      BY <1>8, <2>2, SamePending DEF C!Return, StopReturn
    <2> QED BY <2>3 DEF C!Next
  <1>9. CASE UNCHANGED vars
    BY <1>9, SamePending, Invisible DEF vars, InFlight
  <1> QED BY <1>1, <1>2, <1>3, <1>4, <1>5, <1>6, <1>7, <1>8, <1>9 DEF Step

\* The debouncer implements the coalescer: whatever its timers, versions and
\* wait group do, a caller sees latest-wins submission, one delivery of what is
\* taken, and a Stop that returns with nothing owed (debouncer.go:15-16, 35-37,
\* 94-96).
THEOREM Refinement == Spec => ImplementsCoalescer
  <1>1. Init => C!Init
    BY DEF Init, Pending, InFlight, C!Init
  <1>2. IInv /\ [Next]_vars => [C!Next]_(C!vars)
    BY NextIsStep, StepRefines
  <1> QED BY Invariance, <1>1, <1>2, PTL DEF Spec, ImplementsCoalescer, C!SafeSpec
==============================================================================

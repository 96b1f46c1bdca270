# TLA+ models of the DCM Kubernetes storage service provider

The service provider is one Go process. It offers an HTTP API for volumes, each
volume being a PersistentVolumeClaim (PVC) in one Kubernetes namespace; it watches
those claims and publishes their status to NATS; and at startup it registers itself
with the DCM registry. It keeps no database: what it knows after a restart is what
Kubernetes knows.

These modules model the parts of it where order, concurrency and failure matter.
TLC checks them on small instances. TLAPS proves for every instance the safety
properties that TLC checks there, and both refinements; only liveness is left to TLC.

## 1. Inventory

| Part (source) | State | Operations | What is hard |
|---|---|---|---|
| Debouncer (`internal/monitoring/debouncer.go`) | map instance -> pending event, version, timer; `stopped`; wait group | `Submit`, timer callbacks, `Stop` | `timer.Stop` racing a fired callback; Stop against callbacks; versions that restart |
| Status monitor (`monitor.go`, `k8s_events.go`) | `lastPublished`, `lastSubmitted` under `mu` | informer handlers, `submitIfChanged`, `publishWithRetry`, shutdown | two handler goroutines, a lock released before the hand-over, overlapping retries, stale Warning Events |
| NATS publisher (`publisher.go`) | connection | `Publish`, `Close` | context done between the check and the send |
| Status mapping (`convert.go` 15-57) | none | `MapPVCToStatus` | order of the cases |
| Volume handlers (`handlers/volume`) | none (one goroutine per request) | create, get, delete, list | checks in order, errors mapped to codes |
| Kubernetes store (`internal/kubernetes/store*.go`, `labels.go`, `convert.go`) | none; the claims are the state | one or two API calls per operation | check-then-act between calls, lost answers, paging |
| Registrar (`registration.go`) | backoff, `startOnce`, `done` | `Start`, `run`, `register` | lost answers, cancellation while waiting |
| Process (`cmd/.../main.go`) and `Server.Run` (`apiserver/server.go` 266-299, 384-431) | goroutines, contexts, deferred calls | setup, probe, onReady, select, shutdown | what main does not wait for |
| Configuration and clients (`config.go`, `kubernetes/client.go`, `NewRegistrar`, `NewNATSPublisher`) | what run has opened so far | setup steps of `run` | a step that fails after others have opened something |
| HTTP middleware, routes, health handler (`apiserver/server.go` 34-264, 301-382, `api/server/server.gen.go`, `httperror`, `composite`, `health`) | per request: recorders, context, what was written | recovery, logging, timeout, validation, binding, strict handler | panics before and after the first byte, a deadline, a broken connection; layers that must agree on ids and codes |
| Generated client (`pkg/client/client.gen.go`) | none | build a request, parse a response | its table of codes against the server's |

How they interact: the informers call the monitor's handlers on one goroutine per
informer; a handler that has something new calls `debouncer.Submit`; the debouncer's
timers call the monitor's `publishWithRetry`, which calls the publisher and, on success,
writes `lastPublished`. HTTP requests reach the store through the handlers and share
nothing with the monitor but the cluster; on their way they pass recovery, logging, timeout
and validation, chi's routes and the strict handler, and come back the same way. `main` starts the server, and, once the
server has answered its own probe, the registrar and the monitor; at a signal it shuts
down the server, closes the publisher and exits.

## 2. Modules

| Module | Models | Notes |
|---|---|---|
| `Coalescer` | what a debouncer promises | abstract: waiting, owed, done |
| `Debouncer` | `debouncer.go` | one action per locked region, timer start, publish return |
| `DebouncerProofs` | | proofs about `Debouncer` |
| `PvcStatus` | `MapPVCToStatus` | pure operators |
| `StatusMonitor` | `monitor.go`, `k8s_events.go`, `publisher.go` | extends `PvcStatus`; the debouncer by its promise |
| `StatusMonitorProofs` | | proofs about `StatusMonitor` |
| `Registrar` | `registration.go` | a component of its own, composed by `Lifecycle` |
| `Lifecycle` | `main.go`, `config.Load`, the constructors that can fail, `Server.Run`, `waitForReady` | extends `Registrar` |
| `LifecycleProofs` | | proofs about `Lifecycle` |
| `VolumeSpec` | validation, labels, `buildPVC`, `volumeFromPVC` | pure operators, extends `PvcStatus` |
| `Positions` | the API server's key order and how it cuts pages | pure operators, without recursion |
| `PositionsProofs` | | lemmas about `Positions` |
| `VolumeRepository` | what `store.VolumeRepository` promises | abstract: names, calls, answers |
| `VolumeService` | handlers and store against an API server | extends `VolumeSpec`; one action per API call; implements `VolumeRepository` |
| `VolumeServiceProofs` | | proofs about `VolumeService` |
| `VolumeRefinementProofs` | | that `VolumeService` implements `VolumeRepository` |
| `HttpClient` | the generated client | pure operators, extends `VolumeSpec` |
| `HttpServer` | one request from client through middleware, routes and handler and back | extends `HttpClient`; one action per layer |
| `HttpServerProofs` | | proofs about `HttpServer` |
| `MC...` | | the values the configurations use |

State and code correspond by name: `instances`, `wg`, `lastPublished`, `lastSubmitted`,
`backoff` are the fields of those names. Where Go has a program counter the model has
one (`pc`, `stopPc`, `regPc`, `mainPc`), and an action runs from one point where another
goroutine can be seen to the next: a lock taken, a call to the API server, to NATS or to
the registry, a channel or a timer. History variables (`accepted`, `delivered`, `sent`,
`origin`, `lastWait`, `probed`, `lost`) are written and never read by the actions' guards,
except to number submissions and claims and to bound them.

*Debouncer.* `timers` holds the armed timers, `flying` the callbacks that have started but
not yet taken `d.mu`. `timer.Stop()` removes a timer from `timers` only, so a callback in
`flying` survives it, as in Go. The interval is abstracted: a timer may fire at any time.

*StatusMonitor.* `cache` and `pvcQueue` stand for the PVC informer's store and the
notifications its handler has not seen; they are external, as is the Warning Event queue.
`held[t]` is the event of a handler between `m.mu.Unlock()` and `debouncer.Submit`
(monitor.go 208-209). The debouncer is represented by `pending` and `toFlush`, that is by
`Coalescer`, which `Debouncer` is shown to implement.

*Lifecycle.* The monitor is reduced to the number of events between debouncer and NATS.
`bad` is the set of things that are wrong with the environment of this start: a variable, the
access mode, the address, the registration URL, the NATS URL, the kubeconfig. Each step of
`run` that may fail is an action; a failure leaves by way of the deferred calls made so far.

*VolumeService.* `pvcs` and `classes` are the cluster. A request's record holds its place,
its input and finally its answer. Each call may succeed, fail without effect, or take
effect and lose its answer (the request's deadline, server.go 235-248, or the network).
Others create and delete claims, the binder binds them, and a deleted claim terminates
before it goes. `origin` remembers which POST made a claim, so that answers, possibly
to other requests and much later, can be compared with what was asked.

*VolumeRepository.* A name is free, held by a volume, or by something else. Create takes
effect once and never over what holds the name; a listing shows one moment, whatever its
number of pages; Delete finds a volume first and marks what holds its name later, which is
all that the code's lookup and delete by name amount to (`VolumeDeleteRace` shows what that
costs). The refinement maps a request to the call it is, a claim that `findPVC` accepts to
"volume", and a listing in progress to what it has shown and will show.

*HttpServer.* A request's record holds what each layer left of it. `wrote` is the recovery's
`wroteHeader`, `status` the logging's `statusCode`, `head`, `ctype` and `body` what was
really written; the recovery writes its 500 to the inner writer, past both recorders, as in
Go. Requests meet in `volumes` only, where a handler's call to the store takes effect in one
step, which is what `ImplementsRepository` allows. A path is its segments below
`/api/v1alpha1/volumes`; what the document, the routes, the binding and the handler each make
of it is translated from each of them. `Panic` stands for a handler that panics, before or
after its first byte, or aborts: none of today's handlers is known to, the middleware is
written for those that do.

## 3. Runs

| Run | Question | Bounds | Result |
|---|---|---|---|
| `Debouncer` | is anything newest lost, published twice, or left behind by Stop; does it implement `Coalescer`? | 2 instances, 4 submissions | holds |
| `StatusMonitorShutdown` | is what is suppressed really published, does anything leave after Stop? | 1 instance, 2 publishes in flight, 2 changes among 6 states of the claim, 2 failures, 2 attempts, 1 signal | holds |
| `StatusMonitorResync` | do resyncs repair what was replaced, overtaken or given up; does a failure that the cluster keeps stay acknowledged; is DELETED the last word? | the same without the signal, 2 states; 4 changes, or 1 change and 1 warning | holds |
| `Lifecycle` | does a faulty start fail cleanly, does background work wait for the server, does the registrar back off and end, does the process end? | every set of faults, backoff 1 to 3, 3 lost answers, 1 request, 1 event | holds |
| `VolumeService` | do answers agree with requests and cluster, are listings complete, do handlers and store implement the repository? | 2 requests, 2 names, 7 kinds of input, 0 to 2 volumes at the start, 1 foreign claim, 1 class change | holds |
| `HttpServer` | is every request answered once, well-formed, logged as sent, decoded as meant; does every request end? | 2 requests, 14 calls of the client, 4 requests of others, 2 valid ids | holds |

The other six runs each show a statement of the documents or comments that the code
does not keep:

| Run | Statement | What happens |
|---|---|---|
| `StatusMonitorLatch` | comment at monitor.go 192-194: a latched failure cannot be downgraded | the lock is released before `Submit`, so the events can swap |
| `StatusMonitorWindow` | AC-MON-090: only the last status in the window is published | A published, then B and A again: A is suppressed, B is published |
| `StatusMonitorStaleWarning` | REQ-MON-120: Bound is RUNNING | a late or resynced Warning Event reports a bound claim FAILED until a later resync |
| `StatusMonitorGone` | REQ-MON-050: a claim that is gone is DELETED | an older status, retried, follows DELETED |
| `LifecycleFlush` | REQ-MON-161, config.go 13: the monitor is stopped and flushes at shutdown | main does not wait for it |
| `VolumeDeleteRace` | REQ-STR-080: delete the volume that matches, or not found | an unlabelled claim that took the name after the lookup is deleted |

`StatusMonitorLatch`'s trace is the race itself: the PVC handler decides on PROVISIONING, the
event handler records FAILED and submits it, then PROVISIONING is submitted and replaces it. A
later resync of the Warning Event repairs that, as `WarningAcknowledged` shows, if the cluster
still keeps the event. `GoneIsDeleted` is false for two more reasons: a DELETED whose attempts are
used up is not sent again (one publish in flight and two failures suffice), and a Warning
Event looked up before the deletion may be published after it. `DeletedIsLastWord` states what is
left: it assumes that no two publishes of an instance overlap and that none uses up its
attempts, and allows the failure.

More disagreements were met and have no run:

* REQ-API-041, AC-API-012a and the OpenAPI document want a POST whose `id` parameter is not its
  `metadata.name` answered 400; the handler lets the parameter win (handler.go 44), which
  `VolumeService` models and `AnswersAsAsked` shows to be consistent.
* REQ-HTTP-060 wants each request logged. The logging runs inside the recovery and not in a deferred
  call (server.go 255-261): a request whose handler panics is answered 500 and never logged.
* REQ-MON-175 wants a status published for every existing claim. `lastSubmitted` is not taken back
  when a publish has used up its attempts (monitor.go 230-235): a FAILED that NATS never got still
  suppresses the PROVISIONING of every resync (202-206), and once its Warning Event has expired
  nothing is published about the claim until it changes. `StatusAcknowledged` therefore exempts
  a PROVISIONING under a latched failure.
* The comments at debouncer.go 52 and 75 say that every stale callback is ignored; versions
  restart at 1 after a publish, so a late one can match and publish a new submission early.
  Nothing is lost or doubled by that (`NewestNotLost`, `AtMostOnce`).
* The document's pattern for capacities allows "1K", which `ParseQuantity` does not: it is answered
  400 by the store instead of the validation.
* REQ-API-211 and AC-API-060 want a GET after a DELETE answered 404. A claim that is still
  terminating is answered 200 with status DELETING; AC-K8S-100 allows the claim to remain.
* REQ-API-230 wants every error to be `application/problem+json` (RFC 9457); chi answers a path
  or a method without a route by itself, with plain text (404) or no body (405).

Why the bounds are enough to be interesting. Four submissions over two instances let a
stale callback, a replaced timer, a current timer and another instance exist at once. The
stale match needs three submissions of one instance. Two attempts are the fewest that retry.
Two publishes in flight are the fewest that overlap, and two failures the fewest that use up the
attempts of a publish, or leave one retry each to two publishes. A claim that is created,
deleted, recreated and deleted again takes four changes; a Warning Event meets a claim with one.
`Workloads` holds the two, and each behaviour of `StatusMonitorResync` is held to one of them,
since both at once have too many states. That run has `MaxSignals = 0`: its properties claim nothing
once the signal came, and `StatusMonitorShutdown` has it at every point. `SuppressedWasSent` and
`SilentAfterStop` are proved for any number of each (section 6). Three lost answers take the backoff 1, 2, 3, 3: doubling, the cap and
staying there. Two names and a page size of 1 or 2 give listings of one and two pages, with a page
whose only claim is skipped. Two requests are enough for every race between two; the
volumes at the start stand for those of earlier requests. Requests are interchangeable, so
`VolumeService` uses symmetry (it checks no liveness; the refinement is a safety property of
a specification that treats callers alike). The calls of `HttpServer` take each way through
the layers: bodies that only the handler or only the store refuses, bodies that do not parse,
the ids "health", "A", "", and "..", a page size above the limit, a parameter given twice,
a method without a route. Two requests are the fewest that meet in
the repository (a POST and a GET of its volume).

Deadlock is checked for the debouncer only. The other systems do stop: a monitor and a
process end after a signal, and a bounded cluster or set of requests runs out.

## 4. Properties

Each property's comment says what it means and which code it is about. The ones that
carry most: 

* `NewestNotLost`, `AtMostOnce`, `PendingHasCallback`: together, the newest submission of
  every instance is published exactly once whatever races.
* `QuietAfterReturn`, `WgCountsInFlight`, `StopReturns`: Stop waits for exactly what is in flight.
* `ImplementsCoalescer`: refinement; a submission is `waiting` while it is in the map,
  `owed` while a callback or Stop publishes it, `done` afterwards.
* `SuppressedWasSent`: what the monitor remembers as published reached NATS.
* `StatusAcknowledged`, `WarningAcknowledged`, `DeletedIsLastWord`: whatever was replaced, dropped,
  overtaken or given up, resyncs finally get a status or a kept failure acknowledged, and a claim
  that is gone is last reported gone (with the exceptions of section 3).
* `AnswersAsAsked`, `CreateAccounted`, `NoFalseDelete`, `NothingUnreachable`,
  `ListingComplete`: what clients are told agrees with the cluster, across requests.
* `ImplementsRepository`: refinement; handlers and store over several calls look like one step.
* `AnswersWellFormed`, `LoggedAsSent`: two recorders and a recovery that writes past them, with
  panics and broken connections anywhere, never give a client two answers or the log another
  status than the client's.
* `AcceptedIsReachable`, `ClientDecodes`: document, routes, handler, error mapping and client,
  written in five places, agree on ids and codes.
* `FailFast`: a start with a fault ends with an error, nothing open and nothing served.
* `SignalEnds`, `ServeFailureEnds`, `RegistrationSettles`, `EveryRequestEnds`: nothing waits for ever.

## 5. Fairness

* Debouncer: callbacks run and lock `d.mu`, `publishFn` returns, timers fire, Stop's loop and
  `Wait` proceed (goroutine scheduling and the timer runtime). Nobody has to submit or
  stop.
* StatusMonitor: the same, and the resyncs of both informers recur (`ResyncPeriod`). `Publish` may
  fail only `MaxFailures` times; NATS is not assumed to work for ever, but the failures end. Changes
  of the cluster and signals are not forced, and a Warning Event may expire or be kept for ever.
* Lifecycle: main's waits all have a deadline (probe 5 s, `ShutdownTimeout`) or are ended by an
  event that need not come (`select` on the context and on the server's error has no fairness
  of its own: it is enabled only once one of them has happened). A request may run for
  ever. The registrar's wait takes `ctx.Done()` at some time if both it and the timer are
  ready again and again (Go's `select` chooses at random): strong fairness.
* HttpServer: each layer's code runs on, the request's deadline passes, and a store call ends
  once its context is done (client-go). Before that the cluster may leave it waiting for ever.
  The check of the cluster's health takes no context (store.go 35); that it ends is assumed.

## 6. Proofs

Every safety invariant and safety action property of the passing runs is a theorem, and so
are the two refinements. Each component has one inductive invariant, `IInv`, proved in
`Invariance`; the theorems that name a checked property follow from it.

`DebouncerProofs` holds for every set of instances and events and every number of
submissions, from `MaxSubmitsAssumption` alone.

* The inductive invariant adds to the checked ones that submissions are numbered once and in
  order, that what waits of an instance is its newest submission, what each phase of Stop
  leaves, and that the sets that are counted are finite. `NewestNotLost` alone is not
  inductive: that a replaced submission is covered by a newer one needs `PendingIsNewest`,
  and `AtMostOnce` needs the numbering.
* `WgStep` is the counting argument: each step changes the wait group by exactly the change
  in the cardinalities of `publishing` and `toFlush`.
* `Refinement` uses the invariant for the step simulation: Submit is a Put, a current callback
  a Take, a returning publish or a flush a Deliver, Stop a Close, everything else a stutter
  (`Invisible`).

`LifecycleProofs` holds for every backoff, number of lost answers, requests and events,
from `RegistrarAssumption` (0 < initial backoff <= maximum, as in `NewRegistrar`'s
defaults) and `LifecycleAssumption`. Its invariant adds that a verdict is the last step of
a goroutine started once, that the probe's 200 precedes every state with background work,
that whoever is past a step of setup has none of its faults (`PassedSetup`), and that from
shutdown on the server accepts nothing. `RegistrarAsSpecified` says that the composition is
sound: projected to the registrar's variables, the process behaves as `RegSpec`.

`StatusMonitorProofs` holds for every set of instances and claims and every bound from
`MonitorAssumption` and `NoneAssumption` (None is not an event).

* The checked properties are not inductive: that what is remembered as published was sent
  needs what each publisher holds and that NATS has it once the publish
  succeeded (`PublishersAtWork`), and `SilentAfterStop` needs that nothing waits once Stop
  began and nothing runs once it returned (`StopDrained`).

`PositionsProofs` are the lemmas that listings need: an ascending enumeration of a finite
set of naturals exists, is unique and onto; enumerations of a set before another concatenate;
the first n members of a set are closed downwards. They go by induction. The library's
induction theorems take a predicate, which the provers cannot instantiate; `SetInduction`
says the same of a set of naturals (0 is in it, and with n also n + 1), and is itself proved from
the well-foundedness of strict inclusion on finite sets (`LeastMember`).

`VolumeServiceProofs` holds for any requests, names, POST bodies, earlier volumes, foreign
claims, classes (any default of the configuration and of the cluster, or none) and page sizes.

* The invariant's parts are operators on a namespace and on `origin`, because a listing's
  snapshot must satisfy them as the namespace of the moment does (`NamespaceOK`). `MadeFor` ties
  a claim to the input of its uid whatever the binder and deletions did since. `OnlyHolder` is
  what makes `NoFalseDelete` inductive: between lookup and delete the uid that was found can
  only leave the name, never come back or appear under another. `ShownUpTo` says of a listing that the
  items so far are those of the selected positions up to the token; with `PageOf` closed
  downwards a page extends that to its end, and a page without token reaches the last.
* `Evolves` says how a namespace may change in any step; that a request's part of the invariant
  survives the steps of others needs only that.
* Assumed: `PageAssumption` (the two constants of store_list.go, the default within the limit);
  `InputsAssumption` (names are strings, labels a map, and `Names` holds whatever an accepted
  POST may create); `ForeignAssumption` (nobody else gives a claim exactly the labels that Create
  gives the volume of that name: `isDCMManagedPVC` could not tell such a claim from a
  volume, so the code needs it, too); `NoneAssumption`, `WordAssumption` (a nil pointer is not a
  string, and the words that answers are made of are strings, which the provers do not know);
  `IdAssumption` (the pattern matches no empty id).

`VolumeRefinementProofs` proves `ImplementsRepository` from that invariant, with no assumption
more. `CallOf` maps a request to its call, `held` and `doomed` map the claims. A POST's validation
is a Call, its creation a Create and what the API server refuses an Exists; the first
page of a listing is the List, every further page a stutter, because what was shown and what is
yet to come together are what the first page saw (`ShownAndRest`, `ListingShows`), and the last a
ListReturn. The cluster's steps are Appear, Doom, Vanish, or nothing.

`HttpServerProofs` holds for any requests, calls, ids, document and timeout, from
`RequestsAssumption` (what clients may send: the client builds requests for the document's
operations, and others send what has a method and a path) and those of `VolumeSpec`.

* `PhaseOK` says for each point of a request's way what has been written, recorded and logged;
  what is promised of an answer is promised while the connection is not down, since a request
  whose connection broke may hold half an answer that nobody sees. `Served` lists the ways to
  have answered, and `AnswersWellFormed` and `ClientDecodes` are read off it.
* The recovery writes past both recorders; that the log still tells the client's status needs that
  a panic never returns through the logging, so that whatever is logged was recorded by a
  handler that returned (`PhaseOK` of "return": the recorded status is the one sent).
* `ReachOK` follows a GET or DELETE for a volume that stays through document, routes and binding
  to the handler of that operation: it takes that every id in `volumes` matches the pattern
  and is not reserved, which is the invariant's first conjunct.

Only model-checked: liveness, because fairness and `ENABLED` are out of the prover's reach.
That is `EventuallyDelivered` and `StopReturns` of the debouncer, `StatusAcknowledged`,
`WarningAcknowledged` and `DeletedIsLastWord` of the monitor, `SignalEnds`, `ServeFailureEnds` and
`RegistrationSettles` of the process, and `EveryRequestEnds` of the HTTP server.

## 7. Plan

Done, in this order: debouncer with its abstraction and proofs; status monitor; registrar
and process; volume service; proofs about the process; the repository's abstraction; HTTP
server and client; setup; proofs about the monitor; proofs about the volume service and its
refinement; proofs about the HTTP server.

Next:

1. `StatusMonitor` with the debouncer's full module in place of its promise, on the smallest
   instance, to check the composition, and a proof that the monitor's `pending`, `toFlush`
   and publishers behave as `Coalescer` does.
2. The cache sync at startup and its failure.
3. That `HttpServer`'s store, a set of ids, is what `VolumeRepository` allows, as a refinement.

## 8. Not modelled

* The values of the configuration and their defaults: `WriteTimeout` shorter than
  `RequestTimeout` appears as a connection that may break under any request.
* `New` without an OpenAPI document or its router (the document is embedded and loads), the
  `Flush` and `Unwrap` of the recorder, which no handler calls, and the client's options.
* `BuildPayload` of the registration, the generated accessors and the JSON of provider hints.
* The monitor's cache sync at startup.
* Changes of the cluster's default StorageClass: `ClusterDefaultClass` is a constant (it may be
  "none"), and a claim stored without a class is not given one later.
* The wording of errors and messages, CloudEvent encoding, logging, timestamps.
* The NATS client's own buffering and reconnection: `Publish` succeeds or fails.
* A missed watch: the informer finally sees every change, as client-go's relist ensures.
* Elapsed time: a timer that is armed may fire at any time, and a deadline pass at any time.

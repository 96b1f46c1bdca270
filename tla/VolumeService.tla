---------------------------- MODULE VolumeService ----------------------------
(***************************************************************************)
(* The volume API: concurrent HTTP requests (internal/handlers/volume)     *)
(* served by the Kubernetes-backed store (internal/kubernetes) against an  *)
(* API server that others change too.  A request is a goroutine; a step of *)
(* it ends at each call it makes to the API server, so what it read there  *)
(* may be stale by its next step.  Any call may fail, with or without      *)
(* effect: the request's own deadline (server.go 240) cancels it.          *)
(***************************************************************************)
EXTENDS VolumeSpec, Positions, FiniteSetsExt

CONSTANTS
    Requests,         \* the HTTP requests of a behaviour
    CreateInputs,     \* what POST requests may carry
    Stored,           \* the inputs of earlier POSTs, for distinct ids
    NameOrder,        \* the names in use, in the API server's key order
    Classes,          \* the StorageClasses, all of them there at first
    ForeignLabels,    \* the labels of claims that others create
    DefaultPageSize,  \* 50 in the code
    MaxPageSizeLimit, \* 1000 in the code
    PageSizes,        \* the max_page_size values that clients send, 0 if none
    MaxForeign,       \* bound on the claims that others create
    MaxClassChanges   \* bound on changes to the StorageClasses

Names == {NameOrder[k] : k \in DOMAIN NameOrder}

ASSUME PageAssumption ==
    /\ MaxPageSizeLimit \in Nat
    /\ DefaultPageSize \in 1..MaxPageSizeLimit
    /\ PageSizes \subseteq Nat

\* Labels are a map, and Names holds whatever a POST may create.
ASSUME InputsAssumption ==
    /\ NameOrder \in Seq(STRING)
    /\ \A in \in CreateInputs :
         /\ in.labels = [key \in DOMAIN in.labels |-> in.labels[key]]
         /\ ValidCreate(in) => InstanceId(in) \in Names
    /\ Stored \in Seq({in \in CreateInputs : ValidCreate(in) /\ Buildable(in)})

\* Nobody else gives a claim the labels that Create gives the volume of its name.
ASSUME ForeignAssumption ==
    \A labels \in ForeignLabels, name \in Names :
        \E key \in ReservedLabelKeys : ~HasLabel([labels |-> labels], key, Labels(name)[key])

VARIABLES
    pvcs,          \* name -> the claim in the namespace, or NoClaim
    classes,       \* the StorageClasses of the cluster
    origin,        \* history: uid -> {the input it was created for}, {} if foreign
    classChanges,  \* number of changes to classes
    req            \* request -> its local state and, once done, its answer

vars == <<pvcs, classes, origin, classChanges, req>>

\* in: the POST body; id: the volume id; uid: the claim it created or found; size,
\* at, snap: a listing's page size, position and snapshot; items: the volumes it
\* answers with, next to the uids of their claims.  An answered request keeps
\* neither in nor size.
NewRequest ==
    [pc |-> "new", op |-> None, in |-> None, id |-> None, uid |-> 0, code |-> 0,
     items |-> <<>>, size |-> 0, at |-> 0, snap |-> <<>>]

NoClaim == [uid |-> 0]

Uids == 1..Len(origin)
Live == {n \in Names : pvcs[n] # NoClaim}

\* The claims of none, some or all of the earlier POSTs.
Init ==
    /\ \E old \in 0..Len(Stored) :
         /\ origin = [u \in 1..old |-> {Stored[u]}]
         /\ pvcs = [n \in Names |->
              IF \E u \in 1..old : InstanceId(Stored[u]) = n
              THEN LET u == CHOOSE u \in 1..old : InstanceId(Stored[u]) = n
                   IN  buildPVC(Stored[u], u)
              ELSE NoClaim]
    /\ classes = Classes
    /\ classChanges = 0
    /\ req = [r \in Requests |-> NewRequest]

-----------------------------------------------------------------------------
(* The answers.                                                            *)

\* A mutant: what is not a typed error is the client's fault.
mapCreateErrorDefault400(err) ==
    CASE err = "Conflict" -> 409
      [] err = "FailedPrecondition" -> 422
      [] OTHER -> 400

mapCreateError(err) ==
    CASE err = "Conflict" -> 409
      [] err = "FailedPrecondition" -> 422
      [] err = "InvalidArgument" -> 400
      [] OTHER -> 500

mapGetError(err) == IF err = "NotFound" THEN 404 ELSE 500       \* mapDeleteError too

\* Both mapListErrors: only status code 400 is the client's fault.
mapListError(code) == IF code = 400 THEN 400 ELSE 500

Answer(r, code) ==
    req' = [req EXCEPT ![r].pc = "done", ![r].code = code, ![r].in = None, ![r].size = 0]

Shown(pvc, name) == [uid |-> pvc.uid, vol |-> volumeFromPVC(pvc, name)]

\* Code 200 or 201 with the volume of a claim.
AnswerVolume(r, code, pvc) ==
    req' = [req EXCEPT ![r].pc = "done", ![r].code = code, ![r].in = None,
                       ![r].uid = pvc.uid, ![r].items = <<Shown(pvc, req[r].id)>>]

-----------------------------------------------------------------------------
(* POST /volumes                                                           *)

\* Validation, then the store up to its first call to the API server.
CreateVolume(r, in) ==
    /\ req[r].pc = "new"
    /\ LET id == InstanceId(in)
           class == resolveStorageClass(in)
           call == [NewRequest EXCEPT !.op = "create", !.id = id]
       IN  req' = [req EXCEPT ![r] =
             IF ~ValidCreate(in)
             THEN [call EXCEPT !.pc = "done", !.code = 400]
             ELSE IF class # Unset THEN [call EXCEPT !.pc = "class", !.in = in]
             ELSE IF ~Buildable(in)
             THEN [call EXCEPT !.pc = "done", !.code = mapCreateError("InvalidArgument")]
             ELSE [call EXCEPT !.pc = "create", !.in = in]]
    /\ UNCHANGED <<pvcs, classes, origin, classChanges>>

\* The StorageClass GET answers; buildPVC follows without another call.
validateStorageClass(r) ==
    /\ req[r].pc = "class"
    /\ IF resolveStorageClass(req[r].in) \notin classes
       THEN Answer(r, mapCreateError("FailedPrecondition"))
       ELSE IF ~Buildable(req[r].in) THEN Answer(r, mapCreateError("InvalidArgument"))
       ELSE req' = [req EXCEPT ![r].pc = "create"]
    /\ UNCHANGED <<pvcs, classes, origin, classChanges>>

\* A mutant: a claim that exists already is taken for the one asked for.
CreatePVCExistsAdopted(r) ==
    /\ req[r].pc = "create"
    /\ pvcs[req[r].id] # NoClaim
    /\ Answer(r, 201)
    /\ UNCHANGED <<pvcs, classes, origin, classChanges>>

CreatePVCExists(r) ==
    /\ req[r].pc = "create"
    /\ pvcs[req[r].id] # NoClaim
    /\ Answer(r, mapCreateError("Conflict"))
    /\ UNCHANGED <<pvcs, classes, origin, classChanges>>

StorePVC(r) ==
    /\ pvcs' = [pvcs EXCEPT ![req[r].id] = buildPVC(req[r].in, Len(origin) + 1)]
    /\ origin' = Append(origin, {req[r].in})
    /\ UNCHANGED <<classes, classChanges>>

CreatePVC(r) ==
    /\ req[r].pc = "create"
    /\ pvcs[req[r].id] = NoClaim
    /\ StorePVC(r)
    /\ AnswerVolume(r, 201, buildPVC(req[r].in, Len(origin) + 1))

\* The claim is stored and its answer lost.
CreatePVCUnanswered(r) ==
    /\ req[r].pc = "create"
    /\ pvcs[req[r].id] = NoClaim
    /\ StorePVC(r)
    /\ req' = [req EXCEPT ![r].pc = "done", ![r].code = mapCreateError("other"),
                          ![r].in = None, ![r].uid = Len(origin) + 1]

CreateCallFails(r) ==
    /\ req[r].pc \in {"class", "create"}
    /\ Answer(r, mapCreateError("other"))
    /\ UNCHANGED <<pvcs, classes, origin, classChanges>>

-----------------------------------------------------------------------------
(* GET and DELETE /volumes/{volume_id}                                     *)

GetVolume(r, id) ==
    /\ req[r].pc = "new"
    /\ req' = [req EXCEPT ![r].op = "get", ![r].pc = "find", ![r].id = id]
    /\ UNCHANGED <<pvcs, classes, origin, classChanges>>

DeleteVolume(r, id) ==
    /\ req[r].pc = "new"
    /\ req' = [req EXCEPT ![r].op = "delete", ![r].pc = "find", ![r].id = id]
    /\ UNCHANGED <<pvcs, classes, origin, classChanges>>

Findable(id) == pvcs[id] # NoClaim /\ isDCMManagedPVC(pvcs[id], id)

FindPVCMissing(r) ==
    /\ req[r].pc = "find"
    /\ ~Findable(req[r].id)
    /\ Answer(r, mapGetError("NotFound"))
    /\ UNCHANGED <<pvcs, classes, origin, classChanges>>

GetFound(r) ==
    /\ req[r].pc = "find" /\ req[r].op = "get"
    /\ Findable(req[r].id)
    /\ AnswerVolume(r, 200, pvcs[req[r].id])
    /\ UNCHANGED <<pvcs, classes, origin, classChanges>>

DeleteFound(r) ==
    /\ req[r].pc = "find" /\ req[r].op = "delete"
    /\ Findable(req[r].id)
    /\ req' = [req EXCEPT ![r].pc = "delete", ![r].uid = pvcs[req[r].id].uid]
    /\ UNCHANGED <<pvcs, classes, origin, classChanges>>

\* A mutant: the lookup alone decides, a failed delete is not reported.
DeleteCallFailsIgnored(r) ==
    /\ req[r].pc = "delete"
    /\ Answer(r, 204)
    /\ UNCHANGED <<pvcs, classes, origin, classChanges>>

\* Every claim has the pvc-protection finalizer: a delete marks it, and it
\* goes when nothing uses it (PVCRemoved).
Terminate(name) ==
    pvcs' = IF pvcs[name] = NoClaim THEN pvcs
            ELSE [pvcs EXCEPT ![name].terminating = TRUE]

\* The delete is by name alone; NotFound counts as success.
DeletePVC(r) ==
    /\ req[r].pc = "delete"
    /\ Terminate(req[r].id)
    /\ Answer(r, 204)
    /\ UNCHANGED <<classes, origin, classChanges>>

\* The claim is marked and the answer lost.
DeletePVCUnanswered(r) ==
    /\ req[r].pc = "delete"
    /\ Terminate(req[r].id)
    /\ Answer(r, mapGetError("other"))
    /\ UNCHANGED <<classes, origin, classChanges>>

FindCallFails(r) ==
    /\ req[r].pc = "find"
    /\ Answer(r, mapGetError("other"))
    /\ UNCHANGED <<pvcs, classes, origin, classChanges>>

DeleteCallFails(r) ==
    /\ req[r].pc = "delete"
    /\ Answer(r, mapGetError("other"))
    /\ UNCHANGED <<pvcs, classes, origin, classChanges>>

-----------------------------------------------------------------------------
(* GET /volumes, one action per page; a client follows next_page_token     *)
(* until there is none.  The API server serves every page of a listing     *)
(* from the state that its first page saw.                                 *)

\* A mutant: no page size means no limit to the code after it.
normalizePageSizeNoDefault(m) == IF m > MaxPageSizeLimit THEN MaxPageSizeLimit ELSE m

normalizePageSize(m) ==
    IF m <= 0 THEN DefaultPageSize
    ELSE IF m > MaxPageSizeLimit THEN MaxPageSizeLimit ELSE m

ListVolumes(r, m) ==
    /\ req[r].pc = "new"
    /\ req' = [req EXCEPT ![r].op = "list", ![r].pc = "list",
                          ![r].size = normalizePageSize(m)]
    /\ UNCHANGED <<pvcs, classes, origin, classChanges>>

\* The positions after "at" that the selector matches.
Matching(snap, at) ==
    {k \in DOMAIN NameOrder :
        k > at /\ snap[NameOrder[k]] # NoClaim /\ Selected(snap[NameOrder[k]])}

\* The claims of the API server's page.
PageOf(snap, at, size) == FirstOf(Matching(snap, at), size)

\* The page's volumes: a selected claim that carries another id is skipped.
Own(snap, page) == {k \in page : isDCMManagedPVC(snap[NameOrder[k]], NameOrder[k])}

VolumesOf(snap, page) ==
    LET own == InOrder(Own(snap, page))
    IN  [k \in DOMAIN own |-> Shown(snap[NameOrder[own[k]]], NameOrder[own[k]])]

\* A mutant: a page short of volumes is taken for the last one.
NextTokenIfFull(snap, page, size) ==
    IF Cardinality(Own(snap, page)) < size THEN 0 ELSE Max(page)

\* The API server's Continue: where the page ended, while claims remain (0: none).
NextToken(snap, page, size) ==
    IF /\ Cardinality(page) = size
       /\ \E k \in DOMAIN NameOrder : k > Max(page) /\ snap[NameOrder[k]] # NoClaim
    THEN Max(page) ELSE 0

\* The ids of the volumes that a request q is answered with.
ShownIds(q) == [k \in DOMAIN q.items |-> q.items[k].vol.id]

ListPage(r) ==
    /\ req[r].pc = "list"
    /\ LET snap == IF req[r].at = 0 THEN pvcs ELSE req[r].snap
           page == PageOf(snap, req[r].at, req[r].size)
           next == NextToken(snap, page, req[r].size)
       IN  req' = [req EXCEPT
             ![r].items = @ \o VolumesOf(snap, page), ![r].at = next, ![r].snap = snap,
             ![r].pc = IF next = 0 THEN "done" ELSE "list",
             ![r].size = IF next = 0 THEN 0 ELSE @,
             ![r].code = IF next = 0 THEN 200 ELSE 0]
    /\ UNCHANGED <<pvcs, classes, origin, classChanges>>

\* A token nobody issued: the API server answers 400.
ListBadToken(r) ==
    /\ req[r].pc = "new"
    /\ req' = [req EXCEPT ![r].op = "list", ![r].pc = "done", ![r].code = mapListError(400)]
    /\ UNCHANGED <<pvcs, classes, origin, classChanges>>

\* The token's snapshot was compacted (410), or the call failed.
ListCallFails(r) ==
    /\ req[r].pc = "list"
    /\ Answer(r, mapListError(410))
    /\ UNCHANGED <<pvcs, classes, origin, classChanges>>

-----------------------------------------------------------------------------
(* The rest of the cluster.                                                *)

ForeignClaim(labels, uid) ==
    [uid |-> uid, labels |-> labels, capacity |-> "1Gi",
     storageClass |-> ClusterDefaultClass, accessMode |-> "ReadWriteOnce",
     volumeMode |-> "Filesystem", terminating |-> FALSE, phase |-> "Pending",
     volumeName |-> Unset, conditions |-> <<>>]

ForeignCreate(name, labels) ==
    /\ pvcs[name] = NoClaim
    /\ Cardinality({u \in Uids : origin[u] = {}}) < MaxForeign
    /\ pvcs' = [pvcs EXCEPT ![name] = ForeignClaim(labels, Len(origin) + 1)]
    /\ origin' = Append(origin, {})
    /\ UNCHANGED <<classes, classChanges, req>>

\* kubectl delete.
ForeignDelete(name) ==
    /\ name \in Live /\ ~pvcs[name].terminating
    /\ Terminate(name)
    /\ UNCHANGED <<classes, origin, classChanges, req>>

\* The binder and the pvc-protection controller.
PVCBound(name) ==
    /\ name \in Live /\ pvcs[name].phase = "Pending" /\ ~pvcs[name].terminating
    /\ pvcs' = [pvcs EXCEPT ![name].phase = "Bound"]
    /\ UNCHANGED <<classes, origin, classChanges, req>>

PVCRemoved(name) ==
    /\ name \in Live /\ pvcs[name].terminating
    /\ pvcs' = [pvcs EXCEPT ![name] = NoClaim]
    /\ UNCHANGED <<classes, origin, classChanges, req>>

ClassChange(c) ==
    /\ classChanges < MaxClassChanges
    /\ classChanges' = classChanges + 1
    /\ classes' = IF c \in classes THEN classes \ {c} ELSE classes \cup {c}
    /\ UNCHANGED <<pvcs, origin, req>>

-----------------------------------------------------------------------------
RequestStep(r) ==
    \/ \E in \in CreateInputs : CreateVolume(r, in)
    \/ validateStorageClass(r)
    \/ CreatePVCExists(r)
    \/ CreatePVC(r)
    \/ CreatePVCUnanswered(r)
    \/ CreateCallFails(r)
    \/ \E id \in Names : GetVolume(r, id)
    \/ \E id \in Names : DeleteVolume(r, id)
    \/ FindPVCMissing(r)
    \/ GetFound(r)
    \/ DeleteFound(r)
    \/ DeletePVC(r)
    \/ DeletePVCUnanswered(r)
    \/ FindCallFails(r)
    \/ DeleteCallFails(r)
    \/ \E m \in PageSizes : ListVolumes(r, m)
    \/ ListPage(r)
    \/ ListBadToken(r)
    \/ ListCallFails(r)

ClusterStep ==
    \/ \E name \in Names, labels \in ForeignLabels : ForeignCreate(name, labels)
    \/ \E name \in Names : ForeignDelete(name)
    \/ \E name \in Names : PVCBound(name)
    \/ \E name \in Names : PVCRemoved(name)
    \/ \E c \in Classes : ClassChange(c)

Next == ClusterStep \/ \E r \in Requests : RequestStep(r)

Spec == Init /\ [][Next]_vars

-----------------------------------------------------------------------------
Answered(r, codes) == req[r].pc = "done" /\ req[r].code \in codes

(* Types: a listing always asks the API server for a page of a legal size  *)
(* (Limit 0 would mean everything, store_list.go normalizePageSize), and   *)
(* every answer's code is one that the OpenAPI document gives its          *)
(* operation.                                                              *)
Codes ==
    [create |-> {201, 400, 409, 422, 500}, get |-> {200, 404, 500},
     delete |-> {204, 404, 500}, list |-> {200, 400, 500}]

TypeOK ==
    /\ classes \subseteq Classes
    /\ \A u \in Uids : origin[u] \subseteq CreateInputs
    /\ \A n \in Live : pvcs[n].uid \in Uids /\ IsPvcState(pvcs[n])
    /\ \A r \in Requests :
         /\ req[r].pc \in {"new", "class", "create", "find", "delete", "list", "done"}
         /\ req[r].pc = "done" => req[r].code \in Codes[req[r].op]
         /\ req[r].pc = "list" => req[r].size \in 1..MaxPageSizeLimit

(* The class of a volume is the hint, else the provider's default, else    *)
(* the cluster's (REQ-K8S-080).  An empty hint, which asks for none, gets  *)
(* the cluster's, too.                                                     *)
ClassAsked(in) ==
    LET named == IF in.storageClass = None THEN DefaultStorageClass ELSE in.storageClass
    IN  IF named = "" THEN ClusterDefaultClass ELSE named

(* What a client is told about a volume, in whichever answer and however   *)
(* late, is what the POST that made its claim asked for, under the id it   *)
(* asked for; a claim that no POST made is never shown (convert.go         *)
(* buildPVC, volumeFromPVC, labels.go, REQ-K8S-060).  A POST that names    *)
(* two ids is not refused, as REQ-API-041 has it: the parameter wins       *)
(* (handler.go 37-47), and is the id it asked for.                         *)
AsAsked(item) ==
    \E in \in origin[item.uid] :
        /\ item.vol.id = IF in.id = None THEN in.name ELSE in.id
        /\ item.vol.labels = in.labels
        /\ item.vol.capacity = Quantity[in.capacity]
        /\ item.vol.storageClass = ClassAsked(in)
        /\ in.accessMode \in {None, item.vol.accessMode}
        /\ in.volumeMode \in {None, item.vol.volumeMode}

AnswersAsAsked ==
    \A r \in Requests : \A k \in DOMAIN req[r].items :
        /\ AsAsked(req[r].items[k])
        /\ req[r].id \in {None, req[r].items[k].vol.id}

(* A POST that is refused (400, 409, 422) left nothing in the cluster, and *)
(* no two POSTs are told that they created the same claim: whatever fails  *)
(* after the claim is stored is answered 500 (errors.go mapCreateError,    *)
(* store_create.go Create).                                                *)
CreateAccounted ==
    \A r \in Requests :
        /\ Answered(r, {400, 409, 422}) => req[r].uid = 0
        /\ Answered(r, {201}) =>
             \A q \in Requests \ {r} : Answered(q, {201}) => req[q].uid # req[r].uid

(* A DELETE answered 204 is never a false report: the claim it looked up   *)
(* is terminating or gone, whoever deleted it (store_delete.go Delete,     *)
(* REQ-API-210, REQ-API-212).                                              *)
NoFalseDelete ==
    \A r \in Requests : Answered(r, {204}) =>
        \A n \in Live : pvcs[n].uid = req[r].uid => pvcs[n].terminating

(* Every claim that the service ever stored, answered or not, is one that  *)
(* its own lookups, listings and monitor recognise: a timed out POST never *)
(* leaves a claim that GET and DELETE cannot reach (store_create.go 14-22, *)
(* labels.go isDCMManagedPVC, REQ-XC-LBL-010).                             *)
NothingUnreachable ==
    \A n \in Live : origin[pvcs[n].uid] # {} => Findable(n)

(* A listing followed to its last page shows every volume of the state its *)
(* first page saw exactly once, in order, whatever the page size and the   *)
(* claims that pages skip (store_list.go List, REQ-K8S-180).               *)
ListingComplete ==
    \A r \in Requests :
        (Answered(r, {200}) /\ req[r].op = "list") =>
            LET snap == req[r].snap
                made == {k \in DOMAIN NameOrder :
                           /\ snap[NameOrder[k]] # NoClaim
                           /\ origin[snap[NameOrder[k]].uid] # {}}
            IN  ShownIds(req[r]) = Pick(NameOrder, made)

(* What a request deletes is the volume of its id (store_delete.go Delete, *)
(* REQ-STR-080).  Claims of others that bear no DCM labels are left alone. *)
DeletesOwnOnly ==
    [][\A n \in Names :
          (pvcs[n] # NoClaim /\ pvcs[n] # pvcs'[n] /\ req' # req) =>
              isDCMManagedPVC(pvcs[n], n)]_vars

-----------------------------------------------------------------------------
(* The repository that handlers and store implement together.              *)

Outcome(q) ==
    IF q.pc # "done" THEN None
    ELSE CASE q.code \in {200, 201, 204} -> "ok"
           [] q.code = 404 -> "missing"
           [] q.code = 409 -> "exists"
           [] q.code \in {400, 422} -> "refused"
           [] OTHER -> "error"

\* The names that a listing has shown and will show if it goes on; {} before its
\* first page.
Listing(q) ==
    IF q.op # "list" \/ (q.at = 0 /\ q.code # 200) THEN {}
    ELSE LET rest == IF q.at = 0 THEN {} ELSE Matching(q.snap, q.at)
         IN  {ShownIds(q) \o Pick(NameOrder, Own(q.snap, rest))}

CallOf(q) ==
    [op |-> q.op, id |-> q.id, found |-> q.op = "delete" /\ q.uid # 0,
     list |-> Listing(q), answer |-> Outcome(q)]

Ids == {InstanceId(in) : in \in CreateInputs}

held == [n \in Names |-> IF pvcs[n] = NoClaim THEN "free"
                         ELSE IF Findable(n) THEN "volume" ELSE "other"]

doomed == {n \in Live : pvcs[n].terminating}

calls == [r \in Requests |-> CallOf(req[r])]

Repository == INSTANCE VolumeRepository WITH Callers <- Requests, Nothing <- None

(* Handlers and store over a cluster that others change implement the      *)
(* volume repository (store/repository.go VolumeRepository): each call     *)
(* takes effect in one step, over any number of calls to the API server,   *)
(* pages and failures, and is answered for what that step did.             *)
ImplementsRepository == Repository!Spec
==============================================================================

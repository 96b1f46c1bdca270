-------------------------- MODULE VolumeServiceProofs --------------------------
(***************************************************************************)
(* Proofs about the volume API, for any requests, names, POST bodies,      *)
(* foreign claims and page sizes.                                          *)
(*                                                                         *)
(* The parts of the inductive invariant are operators on the claims of a   *)
(* namespace and on org, the inputs that uids were created for, so that    *)
(* the same facts serve the current namespace and a listing's snapshot.    *)
(***************************************************************************)
EXTENDS VolumeService, PositionsProofs

USE NoneAssumption, WordAssumption, PageAssumption, InputsAssumption

\* A claim as Create builds it for an input, whatever the cluster did to it since.
MadeFor(c, n, in) ==
    /\ ValidCreate(in) /\ InstanceId(in) = n
    /\ c.labels = MergeLabels(Labels(n), in.labels)
    /\ c.capacity = Quantity[in.capacity]
    /\ c.storageClass = ClassAsked(in)
    /\ c.accessMode = resolveAccessMode(in)
    /\ c.volumeMode = IF in.volumeMode = None THEN "Filesystem" ELSE in.volumeMode

\* A claim under a name: a POST's, or one that the service will not take for its own.
ClaimOK(c, n, org) ==
    /\ DOMAIN c = DOMAIN ForeignClaim(<<>>, 0)
    /\ c.uid \in DOMAIN org
    /\ IsPvcState(c)
    /\ org[c.uid] = {} => ~isDCMManagedPVC(c, n)
    /\ \A in \in org[c.uid] : MadeFor(c, n, in)

\* What the namespace holds, or held when a listing's first page saw it.
NamespaceOK(claims, org) ==
    /\ DOMAIN claims = Names
    /\ \A n \in Names : claims[n] # NoClaim => ClaimOK(claims[n], n, org)

Held(claims) == {n \in Names : claims[n] # NoClaim}

UidsApart(claims) == \A m, n \in Held(claims) : claims[m].uid = claims[n].uid => m = n

ClusterOK(claims, org) ==
    /\ org \in Seq(SUBSET CreateInputs)
    /\ NamespaceOK(claims, org)
    /\ UidsApart(claims)

\* Whoever holds a uid that a DELETE has looked up holds the name it looked up.
OnlyHolder(uid, id, claims) == \A n \in Held(claims) : claims[n].uid = uid => n = id

OnItsWay(uid, claims) == \A n \in Held(claims) : claims[n].uid = uid => claims[n].terminating

\* A request that has no part of an answer yet.
Fresh(q) == q.uid = 0 /\ q.items = <<>> /\ q.at = 0 /\ q.code = 0

\* The positions that a listing has shown are the selected ones up to one.
ShownUpTo(q, at, org) ==
    /\ NamespaceOK(q.snap, org)
    /\ q.items = VolumesOf(q.snap, {k \in Matching(q.snap, 0) : k <= at})

ListOK(q, org) ==
    /\ q.id = None /\ q.uid = 0
    /\ q.at # 0 => q.at \in DOMAIN NameOrder /\ q.code # 200 /\ ShownUpTo(q, q.at, org)
    /\ q.at = 0 /\ q.code # 200 => q.items = <<>>
    /\ q.code = 200 => ShownUpTo(q, Len(NameOrder), org)

DoneOK(q, claims, org) ==
    /\ q.op \in DOMAIN Codes /\ q.code \in Codes[q.op]
    /\ q.code \in {400, 409, 422} => q.uid = 0
    /\ q.code = 201 => q.uid \in DOMAIN org
    /\ q.code = 204 => q.uid \in DOMAIN org /\ OnItsWay(q.uid, claims)

\* One disjunct for each program counter.
PhaseOK(q, claims, org) ==
    \/ q.pc = "new" /\ Fresh(q) /\ q.op = None /\ q.id = None
    \/ /\ q.pc \in {"class", "create"} /\ Fresh(q) /\ q.op = "create"
       /\ q.in \in CreateInputs /\ ValidCreate(q.in) /\ q.id = InstanceId(q.in)
       /\ q.pc = "create" => Buildable(q.in)
    \/ q.pc = "find" /\ Fresh(q) /\ q.op \in {"get", "delete"} /\ q.id \in Names
    \/ /\ q.pc = "delete" /\ q.op = "delete" /\ q.id \in Names /\ q.items = <<>>
       /\ q.at = 0 /\ q.code = 0
       /\ q.uid \in DOMAIN org /\ OnlyHolder(q.uid, q.id, claims)
    \/ q.pc = "list" /\ q.op = "list" /\ q.code = 0 /\ q.size \in 1..MaxPageSizeLimit
    \/ q.pc = "done" /\ DoneOK(q, claims, org)

\* AsAsked, as an operator on org.
Asked(item, org) ==
    \E in \in org[item.uid] :
        /\ item.vol.id = IF in.id = None THEN in.name ELSE in.id
        /\ item.vol.labels = in.labels
        /\ item.vol.capacity = Quantity[in.capacity]
        /\ item.vol.storageClass = ClassAsked(in)
        /\ in.accessMode \in {None, item.vol.accessMode}
        /\ in.volumeMode \in {None, item.vol.volumeMode}

ItemsOK(q, org) ==
    \A k \in DOMAIN q.items :
        /\ q.items[k].uid \in DOMAIN org /\ Asked(q.items[k], org)
        /\ q.id \in {None, q.items[k].vol.id}

RequestOK(q, claims, org) ==
    /\ DOMAIN q = DOMAIN NewRequest
    /\ q.uid \in 0..Len(org)
    /\ PhaseOK(q, claims, org)
    /\ q.op = "list" => ListOK(q, org)
    /\ ItemsOK(q, org)

\* Two POSTs answered 201 created two claims.
CreatedApart(reqs) ==
    \A r, q \in Requests :
        /\ r # q
        /\ reqs[r].pc = "done" /\ reqs[r].code = 201
        /\ reqs[q].pc = "done" /\ reqs[q].code = 201
        => reqs[r].uid # reqs[q].uid

\* The inductive invariant.
IInv ==
    /\ classes \subseteq Classes
    /\ ClusterOK(pvcs, origin)
    /\ DOMAIN req = Requests
    /\ \A r \in Requests : RequestOK(req[r], pvcs, origin)
    /\ CreatedApart(req)

-----------------------------------------------------------------------------
(* How the cluster may change under a request.                             *)

\* Uids keep their inputs, and a claim of an old uid stays where it was and, once
\* on its way out, on its way.
Evolves(claims, org, claims2, org2) ==
    /\ DOMAIN org \subseteq DOMAIN org2
    /\ Len(org) <= Len(org2)
    /\ \A u \in DOMAIN org : org2[u] = org[u]
    /\ \A n \in Held(claims2) : claims2[n].uid \in DOMAIN org =>
         /\ n \in Held(claims)
         /\ claims2[n].uid = claims[n].uid
         /\ claims[n].terminating => claims2[n].terminating

\* What held of a namespace, or of a snapshot, goes on to hold.
LEMMA NamespaceStays ==
    ASSUME NEW claims, NEW org, NEW claims2, NEW org2, NEW snap,
           Evolves(claims, org, claims2, org2), NamespaceOK(snap, org)
    PROVE  NamespaceOK(snap, org2)
  BY DEF NamespaceOK, ClaimOK, Evolves

LEMMA ItemsStay ==
    ASSUME NEW claims, NEW org, NEW claims2, NEW org2, NEW q,
           Evolves(claims, org, claims2, org2), ItemsOK(q, org)
    PROVE  ItemsOK(q, org2)
  BY DEF ItemsOK, Asked, Evolves

LEMMA RequestStays ==
    ASSUME NEW claims, NEW org \in Seq(SUBSET CreateInputs),
           NEW claims2, NEW org2 \in Seq(SUBSET CreateInputs), NEW q,
           Evolves(claims, org, claims2, org2), RequestOK(q, claims, org)
    PROVE  RequestOK(q, claims2, org2)
<1>1. q.uid \in 0..Len(org2)
  BY DEF RequestOK, Evolves
<1>2. \A id : \A u \in DOMAIN org : OnlyHolder(u, id, claims) => OnlyHolder(u, id, claims2)
  BY DEF OnlyHolder, Evolves
<1>3. \A u \in DOMAIN org : OnItsWay(u, claims) => OnItsWay(u, claims2)
  BY DEF OnItsWay, Evolves
<1>4. DoneOK(q, claims, org) => DoneOK(q, claims2, org2)
  BY <1>3 DEF DoneOK, Evolves
<1>5. PhaseOK(q, claims2, org2)
  BY <1>2, <1>4 DEF PhaseOK, RequestOK, Evolves
<1>6. q.op = "list" => ListOK(q, org2)
  BY NamespaceStays DEF ListOK, ShownUpTo, RequestOK
<1>7. ItemsOK(q, org2)
  BY ItemsStay DEF RequestOK
<1>8. QED
  BY <1>1, <1>5, <1>6, <1>7 DEF RequestOK

-----------------------------------------------------------------------------
(* What Create builds, and what is shown of it.                            *)

LEMMA InputTypes ==
    ASSUME NEW in \in CreateInputs, ValidCreate(in)
    PROVE  /\ InstanceId(in) \in Names
           /\ in.labels = [key \in DOMAIN in.labels |-> in.labels[key]]
           /\ DOMAIN in.labels \cap ReservedLabelKeys = {}
  BY DEF ValidCreate, validateUserLabels

LEMMA Built ==
    ASSUME NEW in \in CreateInputs, ValidCreate(in), NEW uid
    PROVE  /\ DOMAIN buildPVC(in, uid) = DOMAIN ForeignClaim(<<>>, 0)
           /\ buildPVC(in, uid).uid = uid
           /\ IsPvcState(buildPVC(in, uid))
           /\ MadeFor(buildPVC(in, uid), InstanceId(in), in)
<1>1. DOMAIN buildPVC(in, uid) = DOMAIN ForeignClaim(<<>>, 0)
  BY DEF buildPVC, ForeignClaim
<1>2. IsPvcState(buildPVC(in, uid))
  <2>1. <<>> \in Seq(Condition)
    OBVIOUS
  <2> DEFINE c == buildPVC(in, uid)
  <2>2. c.terminating = FALSE /\ c.phase = "Pending" /\ c.volumeName = Unset /\ c.conditions = <<>>
    BY DEF buildPVC
  <2> HIDE DEF c
  <2>3. c.volumeName \in STRING
    BY <2>2
  <2>4. IsPvcState(c)
    BY <2>1, <2>2, <2>3 DEF IsPvcState
  <2>5. QED
    BY <2>4 DEF c
<1>3. MadeFor(buildPVC(in, uid), InstanceId(in), in)
  BY DEF buildPVC, MadeFor, resolveStorageClass, ClassAsked, Unset
<1>4. QED
  BY <1>1, <1>2, <1>3 DEF buildPVC

\* Lookups recognise whatever Create built.
LEMMA MadeIsManaged ==
    ASSUME NEW c, NEW n, NEW in, MadeFor(c, n, in)
    PROVE  isDCMManagedPVC(c, n)
<1>1. DOMAIN Labels(n) = ReservedLabelKeys
  BY DEF Labels, ReservedLabelKeys
<1>2. /\ ReservedLabelKeys \subseteq DOMAIN c.labels
      /\ \A k \in ReservedLabelKeys : c.labels[k] = Labels(n)[k]
  BY <1>1 DEF MadeFor, MergeLabels
<1>3. QED
  BY <1>2 DEF isDCMManagedPVC, Selected, HasLabel, Labels, ReservedLabelKeys

\* What a client is shown of a volume is what its POST asked for.
LEMMA ShownAsAsked ==
    ASSUME NEW org \in Seq(SUBSET CreateInputs), NEW c, NEW n,
           ClaimOK(c, n, org), isDCMManagedPVC(c, n)
    PROVE  /\ Shown(c, n).uid \in DOMAIN org /\ Shown(c, n).vol.id = n
           /\ Asked(Shown(c, n), org)
<1>1. PICK in \in org[c.uid] : MadeFor(c, n, in)
  BY DEF ClaimOK
<1>2. in \in CreateInputs /\ ValidCreate(in) /\ InstanceId(in) = n
  BY <1>1 DEF ClaimOK, MadeFor
<1>3. DOMAIN Labels(n) = ReservedLabelKeys
  BY DEF Labels, ReservedLabelKeys
<1>4. userLabelsFromPVC(c) = in.labels
  <2>1. DOMAIN c.labels = ReservedLabelKeys \cup DOMAIN in.labels
    BY <1>1, <1>3 DEF MadeFor, MergeLabels
  <2>2. DOMAIN c.labels \ ReservedLabelKeys = DOMAIN in.labels
    BY <1>2, <2>1, InputTypes
  <2>3. \A k \in DOMAIN in.labels : c.labels[k] = in.labels[k]
    BY <1>1, <1>2, <1>3, InputTypes DEF MadeFor, MergeLabels
  <2>4. userLabelsFromPVC(c) = [k \in DOMAIN in.labels |-> in.labels[k]]
    BY <2>2, <2>3 DEF userLabelsFromPVC
  <2>5. QED
    BY <1>2, <2>4, InputTypes
<1>5. c.accessMode = in.accessMode \/ in.accessMode = None
  BY <1>1 DEF MadeFor, resolveAccessMode
<1>6. c.volumeMode = in.volumeMode \/ in.volumeMode = None
  BY <1>1 DEF MadeFor
<1>7. c.storageClass = ClassAsked(in)
  BY <1>1 DEF MadeFor
<1>8. Shown(c, n).uid = c.uid /\ Shown(c, n).vol = volumeFromPVC(c, n)
  BY DEF Shown
<1>9. Asked(Shown(c, n), org)
  BY <1>1, <1>2, <1>4, <1>5, <1>6, <1>7, <1>8 DEF Asked, volumeFromPVC, MadeFor, InstanceId
<1>10. QED
  BY <1>8, <1>9 DEF ClaimOK, volumeFromPVC

-----------------------------------------------------------------------------
(* How each step of the cluster keeps the namespace.                       *)

LEMMA ClaimAdded ==
    ASSUME NEW claims, NEW org, ClusterOK(claims, org),
           NEW n \in Names, claims[n] = NoClaim,
           NEW S \in SUBSET CreateInputs, NEW c, c.uid = Len(org) + 1,
           ClaimOK(c, n, Append(org, S))
    PROVE  /\ ClusterOK([claims EXCEPT ![n] = c], Append(org, S))
           /\ Evolves(claims, org, [claims EXCEPT ![n] = c], Append(org, S))
<1> DEFINE claims2 == [claims EXCEPT ![n] = c]
           org2 == Append(org, S)
<1>1. /\ org \in Seq(SUBSET CreateInputs) /\ org2 \in Seq(SUBSET CreateInputs)
      /\ Len(org) \in Nat /\ Len(org2) = Len(org) + 1
      /\ DOMAIN org = 1..Len(org) /\ DOMAIN org2 = 1..Len(org2)
      /\ \A u \in DOMAIN org : org2[u] = org[u]
  BY DEF ClusterOK
<1>2. /\ DOMAIN claims = Names /\ DOMAIN claims2 = Names /\ claims2[n] = c
      /\ \A m \in Names : m # n => claims2[m] = claims[m]
  BY DEF ClusterOK, NamespaceOK
<1>3. \A m \in Held(claims) : ClaimOK(claims[m], m, org)
  BY DEF ClusterOK, NamespaceOK, Held
<1>4. \A m \in Held(claims) : claims[m].uid \in DOMAIN org /\ claims[m].uid # c.uid
  BY <1>1, <1>3 DEF ClaimOK
<1> HIDE DEF claims2, org2
<1>5. Evolves(claims, org, claims2, org2)
  <2>1. DOMAIN org \subseteq DOMAIN org2 /\ Len(org) <= Len(org2)
    BY <1>1
  <2>2. c.uid \notin DOMAIN org
    BY <1>1
  <2>3. QED
    BY <1>1, <1>2, <2>1, <2>2 DEF Evolves, Held
<1>6. NamespaceOK(claims2, org2)
  <2>1. NamespaceOK(claims, org2)
    BY <1>5, NamespaceStays DEF ClusterOK
  <2>2. QED
    BY <1>2, <2>1 DEF NamespaceOK, org2
<1>7. UidsApart(claims2)
  BY <1>2, <1>4 DEF UidsApart, Held, ClusterOK
<1>8. QED
  BY <1>1, <1>5, <1>6, <1>7 DEF ClusterOK, claims2, org2

LEMMA ClaimChanged ==
    ASSUME NEW claims, NEW org, ClusterOK(claims, org),
           NEW n \in Held(claims), NEW c, ClaimOK(c, n, org),
           c.uid = claims[n].uid, claims[n].terminating => c.terminating
    PROVE  /\ ClusterOK([claims EXCEPT ![n] = c], org)
           /\ Evolves(claims, org, [claims EXCEPT ![n] = c], org)
<1> DEFINE claims2 == [claims EXCEPT ![n] = c]
<1>1. /\ DOMAIN claims = Names /\ DOMAIN claims2 = Names /\ claims2[n] = c
      /\ \A m \in Names : m # n => claims2[m] = claims[m]
  BY DEF ClusterOK, NamespaceOK, Held
<1>2. Len(org) \in Nat
  BY DEF ClusterOK
<1> HIDE DEF claims2
<1>3. Evolves(claims, org, claims2, org)
  BY <1>1, <1>2 DEF Evolves, Held
<1>4. NamespaceOK(claims2, org)
  BY <1>1 DEF NamespaceOK, ClusterOK
<1>5. UidsApart(claims2)
  BY <1>1 DEF UidsApart, Held, ClusterOK
<1>6. QED
  BY <1>3, <1>4, <1>5 DEF ClusterOK, claims2

LEMMA ClaimRemoved ==
    ASSUME NEW claims, NEW org, ClusterOK(claims, org), NEW n \in Names
    PROVE  /\ ClusterOK([claims EXCEPT ![n] = NoClaim], org)
           /\ Evolves(claims, org, [claims EXCEPT ![n] = NoClaim], org)
<1> DEFINE claims2 == [claims EXCEPT ![n] = NoClaim]
<1>1. /\ DOMAIN claims = Names /\ DOMAIN claims2 = Names /\ claims2[n] = NoClaim
      /\ \A m \in Names : m # n => claims2[m] = claims[m]
  BY DEF ClusterOK, NamespaceOK
<1>2. Len(org) \in Nat
  BY DEF ClusterOK
<1> HIDE DEF claims2
<1>3. Evolves(claims, org, claims2, org)
  BY <1>1, <1>2 DEF Evolves, Held
<1>4. NamespaceOK(claims2, org) /\ UidsApart(claims2)
  BY <1>1 DEF NamespaceOK, UidsApart, Held, ClusterOK
<1>5. QED
  BY <1>3, <1>4 DEF ClusterOK, claims2

LEMMA NothingHappened ==
    ASSUME NEW claims, NEW org, ClusterOK(claims, org)
    PROVE  Evolves(claims, org, claims, org)
  BY DEF Evolves, ClusterOK

-----------------------------------------------------------------------------
(* Listings.                                                               *)

LEMMA PositionSets ==
    /\ Len(NameOrder) \in Nat /\ DOMAIN NameOrder = 1..Len(NameOrder)
    /\ \A S \in SUBSET DOMAIN NameOrder : S \in FiniteNats
<1>1. Len(NameOrder) \in Nat /\ DOMAIN NameOrder = 1..Len(NameOrder)
  OBVIOUS
<1>2. DOMAIN NameOrder \in FiniteNats
  BY <1>1, FS_Interval DEF FiniteNats
<1>3. QED
  BY <1>1, <1>2, SubsetFinite

\* What a listing shows for the claim at each position.
ShownAt(snap) == [p \in DOMAIN NameOrder |-> Shown(snap[NameOrder[p]], NameOrder[p])]

LEMMA VolumesArePicked ==
    ASSUME NEW snap, NEW page \in SUBSET DOMAIN NameOrder
    PROVE  /\ Own(snap, page) \in FiniteNats
           /\ VolumesOf(snap, page) = Pick(ShownAt(snap), Own(snap, page))
<1> DEFINE own == Own(snap, page)
<1>1. own \in SUBSET DOMAIN NameOrder /\ own \in FiniteNats
  BY PositionSets DEF Own
<1>2. \A k \in DOMAIN InOrder(own) : InOrder(own)[k] \in DOMAIN NameOrder
  BY <1>1, InOrderFacts
<1>3. VolumesOf(snap, page) = [k \in DOMAIN InOrder(own) |->
        Shown(snap[NameOrder[InOrder(own)[k]]], NameOrder[InOrder(own)[k]])]
  BY DEF VolumesOf
<1>4. Pick(ShownAt(snap), own) = [k \in DOMAIN InOrder(own) |-> ShownAt(snap)[InOrder(own)[k]]]
  BY DEF Pick
<1> HIDE DEF own
<1>5. \A k \in DOMAIN InOrder(own) : ShownAt(snap)[InOrder(own)[k]] =
        Shown(snap[NameOrder[InOrder(own)[k]]], NameOrder[InOrder(own)[k]])
  BY <1>2 DEF ShownAt
<1>6. VolumesOf(snap, page) = Pick(ShownAt(snap), own)
  BY <1>3, <1>4, <1>5
<1>7. QED
  BY <1>1, <1>6 DEF own

\* The ids of what is picked.
IdsOf(items) == [k \in DOMAIN items |-> items[k].vol.id]

LEMMA IdsOfPick ==
    ASSUME NEW snap, NEW S \in SUBSET DOMAIN NameOrder, NEW items,
           items = Pick(ShownAt(snap), S)
    PROVE  IdsOf(items) = Pick(NameOrder, S)
<1> DEFINE n == Cardinality(S)
<1>1. \A p \in DOMAIN NameOrder : ShownAt(snap)[p].vol.id = NameOrder[p]
  BY DEF ShownAt, Shown, volumeFromPVC
<1>2. DOMAIN InOrder(S) = 1..n /\ \A k \in 1..n : InOrder(S)[k] \in S
  BY PositionSets, InOrderFacts
<1>3. items = [k \in 1..n |-> ShownAt(snap)[InOrder(S)[k]]]
  BY <1>2 DEF Pick
<1>4. Pick(NameOrder, S) = [k \in 1..n |-> NameOrder[InOrder(S)[k]]]
  BY <1>2 DEF Pick
<1> HIDE DEF n
<1>5. DOMAIN items = 1..n /\ \A k \in 1..n : items[k].vol.id = NameOrder[InOrder(S)[k]]
  BY <1>1, <1>2, <1>3
<1>6. QED
  BY <1>4, <1>5 DEF IdsOf

\* Everything a listing shows is a volume as its POST asked for it.
LEMMA VolumesAsAsked ==
    ASSUME NEW org \in Seq(SUBSET CreateInputs), NEW snap, NamespaceOK(snap, org),
           NEW page \in SUBSET Matching(snap, 0)
    PROVE  \A k \in DOMAIN VolumesOf(snap, page) :
             /\ VolumesOf(snap, page)[k].uid \in DOMAIN org
             /\ Asked(VolumesOf(snap, page)[k], org)
<1> DEFINE own == Own(snap, page)
<1>1. page \in SUBSET DOMAIN NameOrder
  BY DEF Matching
<1>2. own \in FiniteNats /\ VolumesOf(snap, page) = Pick(ShownAt(snap), own)
  BY <1>1, VolumesArePicked
<1>3. \A p \in own : /\ ShownAt(snap)[p].uid \in DOMAIN org
                     /\ Asked(ShownAt(snap)[p], org)
  <2>1. SUFFICES ASSUME NEW p \in own
                 PROVE  /\ ShownAt(snap)[p].uid \in DOMAIN org
                        /\ Asked(ShownAt(snap)[p], org)
    OBVIOUS
  <2>2. /\ p \in DOMAIN NameOrder /\ snap[NameOrder[p]] # NoClaim
        /\ isDCMManagedPVC(snap[NameOrder[p]], NameOrder[p])
    BY DEF Own, Matching
  <2>3. ClaimOK(snap[NameOrder[p]], NameOrder[p], org)
    BY <2>2 DEF NamespaceOK, Names
  <2>4. ShownAt(snap)[p] = Shown(snap[NameOrder[p]], NameOrder[p])
    BY <2>2 DEF ShownAt
  <2>5. QED
    BY <2>2, <2>3, <2>4, ShownAsAsked
<1> HIDE DEF own
<1>4. \A k \in DOMAIN Pick(ShownAt(snap), own) :
        \E p \in own : Pick(ShownAt(snap), own)[k] = ShownAt(snap)[p]
  BY <1>2, InOrderFacts DEF Pick
<1>5. QED
  BY <1>2, <1>3, <1>4

\* A page goes on where the shown positions ended, and the last one ends them.
LEMMA PageGoesOn ==
    ASSUME NEW snap, NEW at \in {0} \cup DOMAIN NameOrder, NEW size \in Nat \ {0}
    PROVE  LET page == PageOf(snap, at, size)
               next == NextToken(snap, page, size)
               done == {k \in Matching(snap, 0) : k <= at}
           IN  /\ page \in SUBSET Matching(snap, at)
               /\ next \in {0} \cup DOMAIN NameOrder
               /\ \A k \in done, l \in page : k < l
               /\ next = 0 => done \cup page = Matching(snap, 0) /\ page = Matching(snap, at)
               /\ next # 0 =>
                    /\ done \cup page = {k \in Matching(snap, 0) : k <= next}
                    /\ Matching(snap, next) = Matching(snap, at) \ page
<1> DEFINE page == PageOf(snap, at, size)
           next == NextToken(snap, page, size)
           done == {k \in Matching(snap, 0) : k <= at}
           M == Matching(snap, at)
<1>1. /\ DOMAIN NameOrder \subseteq Nat \ {0} /\ at \in Nat
      /\ M \in SUBSET DOMAIN NameOrder /\ M \in FiniteNats
      /\ \A k \in M : k > at
  BY PositionSets DEF Matching
<1>2. /\ page \subseteq M /\ page \in FiniteNats
      /\ \A k \in page, j \in M : j < k => j \in page
      /\ Cardinality(page) # size => page = M
  BY <1>1, FirstOfFacts DEF PageOf
<1>3. Matching(snap, 0) = done \cup M
  BY <1>1 DEF Matching
<1>4. \A k \in done, l \in page : k < l
  <2>1. SUFFICES ASSUME NEW k \in done, NEW l \in page PROVE k < l
    OBVIOUS
  <2>2. k \in DOMAIN NameOrder /\ k <= at
    BY DEF Matching
  <2>3. l \in DOMAIN NameOrder /\ l > at
    BY <1>1, <1>2
  <2> HIDE DEF page, done
  <2>4. QED
    BY <1>1, <2>2, <2>3
<1>5. CASE page = M /\ next = 0
  BY <1>3, <1>4, <1>5
<1>6. ASSUME page # M \/ next # 0
      PROVE  /\ Max(page) \in page
             /\ page = {k \in M : k <= Max(page)}
             /\ next = Max(page)
  <2>1. Cardinality(page) = size
    BY <1>2, <1>6 DEF NextToken
  <2>2. page # {}
    BY <2>1, FS_EmptySet
  <2>3. PICK m \in page : \A k \in page : k <= m
    BY <1>2, <2>2, GreatestMember
  <2>4. Max(page) \in page /\ \A k \in page : k <= Max(page)
    <3>1. \A k \in page : m >= k
      BY <1>1, <1>2, <2>3
    <3>2. Max(page) \in page /\ \A k \in page : Max(page) >= k
      BY <3>1 DEF Max
    <3>3. QED
      BY <1>1, <1>2, <3>2
  <2>5. page = {k \in M : k <= Max(page)}
    <3>1. \A k \in M : k <= Max(page) => k \in page
      BY <1>1, <1>2, <2>4
    <3>2. QED
      BY <1>2, <2>4, <3>1
  <2>6. next = Max(page)
    <3>1. CASE next # 0
      BY <3>1 DEF NextToken
    <3>2. CASE page # M
      <4>1. PICK k \in M : k \notin page
        BY <1>2, <3>2
      <4>2. k > Max(page)
        BY <1>1, <1>2, <2>4, <2>5, <4>1
      <4>3. k \in DOMAIN NameOrder /\ snap[NameOrder[k]] # NoClaim
        BY DEF Matching
      <4>4. QED
        BY <2>1, <4>2, <4>3 DEF NextToken
    <3>3. QED
      BY <1>6, <3>1, <3>2
  <2>7. QED
    BY <2>4, <2>5, <2>6
<1>7. CASE ~(page = M /\ next = 0)
  <2>1. next \in page /\ page = {k \in M : k <= next}
    BY <1>6, <1>7
  <2>2. next \in DOMAIN NameOrder /\ next # 0 /\ at < next
    BY <1>1, <1>2, <2>1
  <2> HIDE DEF page, next
  <2>3. done \cup page = {k \in Matching(snap, 0) : k <= next}
    <3>1. \A k \in done : k <= next
      <4>1. \A k \in done : k \in Nat /\ k < next /\ next \in Nat
        BY <1>1, <1>4, <2>1, <2>2 DEF Matching
      <4> HIDE DEF done
      <4>2. QED
        BY <4>1
    <3>2. \A k \in M : k <= next <=> k \in page
      BY <2>1
    <3>3. page \subseteq M /\ M \cup done = Matching(snap, 0)
      BY <1>3, <2>1
    <3> HIDE DEF M, done
    <3>4. QED
      BY <3>1, <3>2, <3>3
  <2>4. Matching(snap, next) = M \ page
    <3>1. \A k \in DOMAIN NameOrder : k > next <=> k > at /\ ~(k <= next)
      BY <1>1, <2>2
    <3>2. QED
      BY <2>1, <3>1 DEF Matching
  <2>5. QED
    BY <1>2, <1>4, <2>2, <2>3, <2>4 DEF page, next
<1>8. QED
  BY <1>2, <1>5, <1>7

-----------------------------------------------------------------------------
(* Steps of requests.                                                      *)

LEMMA ClusterNow == ClusterOK(pvcs, origin) => Evolves(pvcs, origin, pvcs, origin)
  BY NothingHappened

\* Only the request r moved.
Moved(r) ==
    /\ DOMAIN req' = Requests
    /\ \A p \in Requests \ {r} : req'[p] = req[p]

\* The other requests and the cluster take a request's step as it comes.
LEMMA RequestMoves ==
    ASSUME IInv, NEW r \in Requests, Moved(r), classes' \subseteq Classes,
           ClusterOK(pvcs', origin'), Evolves(pvcs, origin, pvcs', origin'),
           RequestOK(req'[r], pvcs', origin'),
           req'[r].pc = "done" /\ req'[r].code = 201 => req'[r].uid \notin DOMAIN origin
    PROVE  IInv'
<1>1. \A p \in Requests : RequestOK(req'[p], pvcs', origin')
  BY RequestStays DEF IInv, Moved, ClusterOK
<1>2. \A p \in Requests : req[p].pc = "done" /\ req[p].code = 201 => req[p].uid \in DOMAIN origin
  BY DEF IInv, RequestOK, PhaseOK, DoneOK
<1>3. CreatedApart(req')
  BY <1>2 DEF CreatedApart, Moved, IInv
<1>4. QED
  BY <1>1, <1>3 DEF IInv, Moved

\* A step that leaves the cluster alone and creates nothing.
LEMMA RequestMovesAlone ==
    ASSUME IInv, NEW r \in Requests, Moved(r), UNCHANGED <<pvcs, classes, origin>>,
           RequestOK(req'[r], pvcs, origin), req'[r].code # 201
    PROVE  IInv'
<1>1. ClusterOK(pvcs', origin') /\ Evolves(pvcs, origin, pvcs', origin')
  BY ClusterNow DEF IInv
<1>2. RequestOK(req'[r], pvcs', origin') /\ classes' \subseteq Classes
  BY DEF IInv
<1>3. QED
  BY <1>1, <1>2, RequestMoves

\* What an answer keeps of the request, and its code.
Keeps(q, q2) ==
    /\ q2.op = q.op /\ q2.id = q.id /\ q2.uid = q.uid
    /\ q2.items = q.items /\ q2.at = q.at /\ q2.snap = q.snap

LEMMA AnswerFields ==
    ASSUME IInv, NEW r \in Requests, NEW code, Answer(r, code)
    PROVE  /\ Moved(r) /\ Keeps(req[r], req'[r])
           /\ DOMAIN req'[r] = DOMAIN NewRequest
           /\ req'[r].pc = "done" /\ req'[r].code = code
<1>1. DOMAIN req = Requests /\ DOMAIN req[r] = DOMAIN NewRequest
  BY DEF IInv, RequestOK
<1>2. QED
  BY <1>1 DEF Answer, Moved, Keeps, NewRequest

\* An answer that shows nothing new is sound if its code may follow.
LEMMA AnsweredOK ==
    ASSUME NEW claims, NEW org, NEW q, RequestOK(q, claims, org), q.pc # "done", q.op # None,
           NEW q2, DOMAIN q2 = DOMAIN NewRequest, Keeps(q, q2), q2.pc = "done",
           q2.op \in DOMAIN Codes, q2.code \in Codes[q2.op] \ {200, 201},
           q2.code \in {400, 409, 422} => q2.uid = 0,
           q2.code = 204 => q2.uid \in DOMAIN org /\ OnItsWay(q2.uid, claims)
    PROVE  RequestOK(q2, claims, org)
<1>1. q.code = 0
  BY DEF RequestOK, PhaseOK, Fresh
<1>2. PhaseOK(q2, claims, org)
  BY DEF PhaseOK, DoneOK
<1>3. q2.op = "list" => ListOK(q2, org)
  BY <1>1 DEF RequestOK, ListOK, ShownUpTo, Keeps
<1>4. ItemsOK(q2, org)
  BY DEF RequestOK, ItemsOK, Keeps
<1>5. QED
  BY <1>2, <1>3, <1>4 DEF RequestOK, Keeps

LEMMA CodesOf ==
    /\ DOMAIN Codes = {"create", "get", "delete", "list"}
    /\ Codes["create"] = {201, 400, 409, 422, 500} /\ Codes["get"] = {200, 404, 500}
    /\ Codes["delete"] = {204, 404, 500} /\ Codes["list"] = {200, 400, 500}
    /\ None \notin DOMAIN Codes
  BY DEF Codes

LEMMA ErrorCodes ==
    /\ mapCreateError("Conflict") = 409 /\ mapCreateError("FailedPrecondition") = 422
    /\ mapCreateError("InvalidArgument") = 400 /\ mapCreateError("other") = 500
    /\ mapGetError("NotFound") = 404 /\ mapGetError("other") = 500
    /\ mapListError(400) = 400 /\ mapListError(410) = 500
  BY DEF mapCreateError, mapGetError, mapListError

LEMMA CreateVolumeStep ==
    ASSUME IInv, NEW r \in Requests, NEW in \in CreateInputs, CreateVolume(r, in)
    PROVE  IInv'
<1> DEFINE q == req'[r]
<1>1. DOMAIN req = Requests /\ Len(origin) \in Nat
  BY DEF IInv, ClusterOK
<1>2. /\ Moved(r) /\ DOMAIN q = DOMAIN NewRequest
      /\ q.op = "create" /\ q.id = InstanceId(in) /\ q.uid = 0
      /\ q.items = <<>> /\ q.at = 0
      /\ \/ q.pc = "done" /\ q.code = 400
         \/ q.pc \in {"class", "create"} /\ q.code = 0 /\ q.in = in /\ ValidCreate(in)
            /\ (q.pc = "create" => Buildable(in))
  BY <1>1, ErrorCodes DEF CreateVolume, Moved, NewRequest
<1>3. PhaseOK(q, pvcs, origin)
  BY <1>2, CodesOf DEF PhaseOK, DoneOK, Fresh
<1>4. RequestOK(q, pvcs, origin) /\ q.code # 201
  BY <1>1, <1>2, <1>3 DEF RequestOK, ItemsOK
<1>5. QED
  BY <1>2, <1>4, RequestMovesAlone DEF CreateVolume

\* Answering with a code that shows nothing and claims nothing new.
LEMMA PlainAnswerStep ==
    ASSUME IInv, NEW r \in Requests, NEW code, Answer(r, code),
           req[r].pc # "done", req[r].op \in DOMAIN Codes,
           code \in Codes[req[r].op] \ {200, 201, 204},
           code \in {400, 409, 422} => req[r].uid = 0,
           UNCHANGED <<pvcs, classes, origin>>
    PROVE  IInv'
<1>1. /\ Moved(r) /\ Keeps(req[r], req'[r]) /\ DOMAIN req'[r] = DOMAIN NewRequest
      /\ req'[r].pc = "done" /\ req'[r].code = code
  BY AnswerFields
<1>2. RequestOK(req[r], pvcs, origin) /\ req[r].op # None
  BY CodesOf DEF IInv
<1>3. req'[r].op \in DOMAIN Codes /\ req'[r].code \in Codes[req'[r].op] \ {200, 201}
  BY <1>1 DEF Keeps
<1>4. req'[r].uid = req[r].uid
  BY <1>1 DEF Keeps
<1>5. RequestOK(req'[r], pvcs, origin)
  BY <1>1, <1>2, <1>3, <1>4, AnsweredOK
<1>6. QED
  BY <1>1, <1>5, RequestMovesAlone

LEMMA PhaseFacts ==
    ASSUME IInv, NEW r \in Requests
    PROVE  LET q == req[r]
           IN  /\ q.pc \in {"class", "create"} =>
                    /\ Fresh(q) /\ q.op = "create" /\ q.in \in CreateInputs /\ ValidCreate(q.in)
                    /\ q.id = InstanceId(q.in) /\ q.id \in Names
                    /\ q.pc = "create" => Buildable(q.in)
               /\ q.pc = "find" => Fresh(q) /\ q.op \in {"get", "delete"} /\ q.id \in Names
               /\ q.pc = "delete" =>
                    /\ q.op = "delete" /\ q.id \in Names /\ q.items = <<>> /\ q.at = 0
                    /\ q.uid \in DOMAIN origin /\ OnlyHolder(q.uid, q.id, pvcs)
               /\ q.pc = "list" => q.op = "list" /\ q.code = 0 /\ q.size \in 1..MaxPageSizeLimit
               /\ q.pc = "list" => ListOK(q, origin)
               /\ q.pc = "new" => Fresh(q) /\ q.op = None /\ q.id = None
               /\ DOMAIN q = DOMAIN NewRequest
  BY InputTypes DEF IInv, RequestOK, PhaseOK

LEMMA validateStorageClassStep ==
    ASSUME IInv, NEW r \in Requests, validateStorageClass(r)
    PROVE  IInv'
<1> DEFINE q == req'[r]
<1>1. req[r].pc = "class" /\ UNCHANGED <<pvcs, classes, origin>>
  BY DEF validateStorageClass
<1>2. Fresh(req[r]) /\ req[r].op = "create" /\ req[r].uid = 0
  BY <1>1, PhaseFacts DEF Fresh
<1>3. ASSUME NEW code \in {400, 422}, Answer(r, code) PROVE IInv'
  <2>1. /\ req[r].pc # "done" /\ req[r].op \in DOMAIN Codes
        /\ code \in Codes[req[r].op] \ {200, 201, 204}
    BY <1>1, <1>2, CodesOf
  <2>2. QED
    BY <1>1, <1>2, <1>3, <2>1, PlainAnswerStep
<1>4. CASE Buildable(req[r].in) /\ req' = [req EXCEPT ![r].pc = "create"]
  <2>1. /\ Moved(r) /\ DOMAIN q = DOMAIN NewRequest /\ q.pc = "create"
        /\ Keeps(req[r], q) /\ q.in = req[r].in /\ q.code = req[r].code
    BY <1>4, PhaseFacts DEF IInv, Moved, Keeps, NewRequest
  <2>2. PhaseOK(q, pvcs, origin)
    BY <1>1, <1>4, <2>1, PhaseFacts DEF PhaseOK, Fresh, Keeps
  <2>3. RequestOK(q, pvcs, origin) /\ q.code # 201
    BY <1>2, <2>1, <2>2 DEF IInv, RequestOK, ItemsOK, Keeps, Fresh
  <2>4. QED
    BY <1>1, <2>1, <2>3, RequestMovesAlone
<1>5. QED
  BY <1>3, <1>4, ErrorCodes DEF validateStorageClass

LEMMA CreatePVCExistsStep ==
    ASSUME IInv, NEW r \in Requests, CreatePVCExists(r)
    PROVE  IInv'
<1>1. req[r].op = "create" /\ req[r].uid = 0 /\ Answer(r, 409)
  BY PhaseFacts, ErrorCodes DEF CreatePVCExists, Fresh
<1>2. QED
  BY <1>1, CodesOf, PlainAnswerStep DEF CreatePVCExists

LEMMA CreateCallFailsStep ==
    ASSUME IInv, NEW r \in Requests, CreateCallFails(r)
    PROVE  IInv'
<1>1. req[r].op = "create" /\ Answer(r, 500)
  BY PhaseFacts, ErrorCodes DEF CreateCallFails
<1>2. QED
  BY <1>1, CodesOf, PlainAnswerStep DEF CreateCallFails

LEMMA FindMissesStep ==
    ASSUME IInv, NEW r \in Requests, FindPVCMissing(r) \/ FindCallFails(r) \/ DeleteCallFails(r)
    PROVE  IInv'
<1>1. req[r].op \in {"get", "delete"} /\ req[r].pc # "done" /\ (Answer(r, 404) \/ Answer(r, 500))
  BY PhaseFacts, ErrorCodes DEF FindPVCMissing, FindCallFails, DeleteCallFails
<1>2. UNCHANGED <<pvcs, classes, origin>>
  BY DEF FindPVCMissing, FindCallFails, DeleteCallFails
<1>3. ASSUME NEW code \in {404, 500}, Answer(r, code) PROVE IInv'
  <2>1. /\ req[r].op \in DOMAIN Codes /\ code \in Codes[req[r].op] \ {200, 201, 204}
        /\ code \notin {400, 409, 422}
    BY <1>1, CodesOf
  <2>2. QED
    BY <1>1, <1>2, <1>3, <2>1, PlainAnswerStep
<1>4. QED
  BY <1>1, <1>3

LEMMA ListCallFailsStep ==
    ASSUME IInv, NEW r \in Requests, ListCallFails(r)
    PROVE  IInv'
<1>1. req[r].op = "list" /\ Answer(r, 500)
  BY PhaseFacts, ErrorCodes DEF ListCallFails
<1>2. QED
  BY <1>1, CodesOf, PlainAnswerStep DEF ListCallFails

\* A new claim stored for the request's input.
LEMMA Stores ==
    ASSUME IInv, NEW r \in Requests, req[r].pc = "create", pvcs[req[r].id] = NoClaim, StorePVC(r)
    PROVE  /\ ClusterOK(pvcs', origin') /\ Evolves(pvcs, origin, pvcs', origin')
           /\ classes' = classes
           /\ Len(origin') = Len(origin) + 1 /\ DOMAIN origin' = 1..Len(origin')
           /\ Len(origin) \in Nat /\ DOMAIN origin = 1..Len(origin)
           /\ ClaimOK(buildPVC(req[r].in, Len(origin) + 1), req[r].id, origin')
           /\ isDCMManagedPVC(buildPVC(req[r].in, Len(origin) + 1), req[r].id)
<1> DEFINE n == Len(origin)
           in == req[r].in
           c == buildPVC(in, n + 1)
           org2 == Append(origin, {in})
<1>1. /\ in \in CreateInputs /\ ValidCreate(in)
      /\ req[r].id = InstanceId(in) /\ req[r].id \in Names
  BY PhaseFacts
<1>2. /\ origin \in Seq(SUBSET CreateInputs) /\ n \in Nat /\ DOMAIN origin = 1..n
      /\ org2 \in Seq(SUBSET CreateInputs) /\ Len(org2) = n + 1 /\ DOMAIN org2 = 1..n + 1
      /\ org2[n + 1] = {in}
  BY <1>1 DEF IInv, ClusterOK
<1>3. /\ DOMAIN c = DOMAIN ForeignClaim(<<>>, 0) /\ c.uid = n + 1 /\ IsPvcState(c)
      /\ MadeFor(c, req[r].id, in)
  BY <1>1, Built
<1> HIDE DEF n, in, c, org2
<1>4. ClaimOK(c, req[r].id, org2)
  <2>1. c.uid \in DOMAIN org2 /\ org2[c.uid] = {in}
    BY <1>2, <1>3
  <2>2. \A in2 \in org2[c.uid] : MadeFor(c, req[r].id, in2)
    BY <1>3, <2>1
  <2>3. QED
    BY <1>3, <2>1, <2>2 DEF ClaimOK
<1>5. isDCMManagedPVC(c, req[r].id)
  BY <1>3, MadeIsManaged
<1>6. /\ ClusterOK([pvcs EXCEPT ![req[r].id] = c], org2)
      /\ Evolves(pvcs, origin, [pvcs EXCEPT ![req[r].id] = c], org2)
  <2>1. {in} \in SUBSET CreateInputs /\ c.uid = Len(origin) + 1 /\ ClusterOK(pvcs, origin)
    BY <1>1, <1>3 DEF n, IInv
  <2>2. QED
    BY <1>1, <1>4, <2>1, ClaimAdded DEF org2
<1>7. pvcs' = [pvcs EXCEPT ![req[r].id] = c] /\ origin' = org2 /\ classes' = classes
  BY DEF StorePVC, c, in, n, org2
<1>8. QED
  BY <1>2, <1>4, <1>5, <1>6, <1>7 DEF c, in, n

\* What an answer with a claim's volume says.
LEMMA AnswerVolumeFields ==
    ASSUME IInv, NEW r \in Requests, NEW code, NEW pvc, AnswerVolume(r, code, pvc)
    PROVE  /\ Moved(r) /\ DOMAIN req'[r] = DOMAIN NewRequest
           /\ req'[r].pc = "done" /\ req'[r].code = code
           /\ req'[r].op = req[r].op /\ req'[r].id = req[r].id
           /\ req'[r].uid = pvc.uid /\ req'[r].items = <<Shown(pvc, req[r].id)>>
<1>1. DOMAIN req = Requests /\ DOMAIN req[r] = DOMAIN NewRequest
  BY DEF IInv, RequestOK
<1>2. QED
  BY <1>1 DEF AnswerVolume, Moved, NewRequest

LEMMA AnsweredVolumeOK ==
    ASSUME NEW claims, NEW org \in Seq(SUBSET CreateInputs), NEW c, NEW q,
           ClaimOK(c, q.id, org), isDCMManagedPVC(c, q.id), q.uid = c.uid,
           DOMAIN q = DOMAIN NewRequest, q.pc = "done", q.items = <<Shown(c, q.id)>>,
           (q.op = "get" /\ q.code = 200) \/ (q.op = "create" /\ q.code = 201)
    PROVE  RequestOK(q, claims, org)
<1>1. q.uid \in DOMAIN org /\ q.uid \in 0..Len(org)
  BY DEF ClaimOK
<1>2. PhaseOK(q, claims, org)
  BY <1>1, CodesOf DEF PhaseOK, DoneOK
<1>3. /\ Shown(c, q.id).uid \in DOMAIN org /\ Shown(c, q.id).vol.id = q.id
      /\ Asked(Shown(c, q.id), org)
  BY ShownAsAsked
<1>4. ItemsOK(q, org)
  <2>1. DOMAIN q.items = {1} /\ q.items[1] = Shown(c, q.id)
    OBVIOUS
  <2>2. QED
    BY <1>3, <2>1 DEF ItemsOK
<1>5. QED
  BY <1>1, <1>2, <1>4 DEF RequestOK

LEMMA GetFoundStep ==
    ASSUME IInv, NEW r \in Requests, GetFound(r)
    PROVE  IInv'
<1> DEFINE q == req'[r]
           c == pvcs[req[r].id]
<1>1. /\ req[r].op = "get" /\ req[r].id \in Names /\ AnswerVolume(r, 200, c)
      /\ c # NoClaim /\ isDCMManagedPVC(c, req[r].id)
  BY PhaseFacts DEF GetFound, Findable
<1>2. ClaimOK(c, req[r].id, origin) /\ origin \in Seq(SUBSET CreateInputs)
  BY <1>1 DEF IInv, ClusterOK, NamespaceOK
<1>3. /\ Moved(r) /\ DOMAIN q = DOMAIN NewRequest /\ q.pc = "done" /\ q.code = 200
      /\ q.op = "get" /\ q.id = req[r].id /\ q.uid = c.uid /\ q.items = <<Shown(c, req[r].id)>>
  BY <1>1, AnswerVolumeFields
<1> HIDE DEF q, c
<1>4. RequestOK(q, pvcs, origin)
  <2>1. /\ ClaimOK(c, q.id, origin) /\ isDCMManagedPVC(c, q.id)
        /\ q.uid = c.uid /\ DOMAIN q = DOMAIN NewRequest /\ q.pc = "done"
        /\ q.items = <<Shown(c, q.id)>> /\ q.op = "get" /\ q.code = 200
    BY <1>1, <1>2, <1>3
  <2>2. QED
    BY <1>2, <2>1, AnsweredVolumeOK
<1>5. QED
  BY <1>3, <1>4, RequestMovesAlone DEF GetFound, q

LEMMA CreatePVCStep ==
    ASSUME IInv, NEW r \in Requests, CreatePVC(r)
    PROVE  IInv'
<1> DEFINE q == req'[r]
           c == buildPVC(req[r].in, Len(origin) + 1)
<1>1. /\ req[r].op = "create" /\ req[r].in \in CreateInputs /\ ValidCreate(req[r].in)
      /\ AnswerVolume(r, 201, c)
  BY PhaseFacts DEF CreatePVC
<1>2. /\ ClusterOK(pvcs', origin') /\ Evolves(pvcs, origin, pvcs', origin')
      /\ classes' = classes
      /\ Len(origin') = Len(origin) + 1 /\ Len(origin) \in Nat
      /\ DOMAIN origin = 1..Len(origin)
      /\ ClaimOK(c, req[r].id, origin') /\ isDCMManagedPVC(c, req[r].id)
  BY Stores DEF CreatePVC
<1>3. /\ Moved(r) /\ DOMAIN q = DOMAIN NewRequest /\ q.pc = "done" /\ q.code = 201
      /\ q.op = "create" /\ q.id = req[r].id /\ q.uid = c.uid
      /\ q.items = <<Shown(c, req[r].id)>>
  BY <1>1, AnswerVolumeFields
<1>4. c.uid = Len(origin) + 1
  BY <1>1, Built
<1> HIDE DEF q, c
<1>5. RequestOK(q, pvcs', origin')
  <2>1. origin' \in Seq(SUBSET CreateInputs)
    BY <1>2 DEF ClusterOK
  <2>2. QED
    BY <1>2, <1>3, <2>1, AnsweredVolumeOK
<1>6. q.uid \notin DOMAIN origin
  BY <1>2, <1>3, <1>4
<1>7. classes' \subseteq Classes
  BY <1>2 DEF IInv
<1>8. QED
  BY <1>2, <1>3, <1>5, <1>6, <1>7, RequestMoves DEF q

LEMMA CreatePVCUnansweredStep ==
    ASSUME IInv, NEW r \in Requests, CreatePVCUnanswered(r)
    PROVE  IInv'
<1> DEFINE q == req'[r]
<1>1. req[r].op = "create" /\ Fresh(req[r]) /\ DOMAIN req[r] = DOMAIN NewRequest
  BY PhaseFacts DEF CreatePVCUnanswered
<1>2. /\ ClusterOK(pvcs', origin') /\ Evolves(pvcs, origin, pvcs', origin')
      /\ classes' = classes
      /\ Len(origin') = Len(origin) + 1 /\ Len(origin) \in Nat
  BY Stores DEF CreatePVCUnanswered
<1>3. /\ Moved(r) /\ DOMAIN q = DOMAIN NewRequest /\ q.pc = "done" /\ q.code = 500
      /\ q.op = "create" /\ q.items = <<>> /\ q.uid = Len(origin) + 1
  BY <1>1, ErrorCodes DEF IInv, CreatePVCUnanswered, Moved, NewRequest, Fresh
<1> HIDE DEF q
<1>4. PhaseOK(q, pvcs', origin') /\ ItemsOK(q, origin')
  BY <1>3, CodesOf DEF PhaseOK, DoneOK, ItemsOK
<1>5. RequestOK(q, pvcs', origin')
  BY <1>2, <1>3, <1>4 DEF RequestOK
<1>6. classes' \subseteq Classes
  BY <1>2 DEF IInv
<1>7. QED
  BY <1>2, <1>3, <1>5, <1>6, RequestMoves DEF q

LEMMA FindStarts ==
    ASSUME IInv, NEW r \in Requests, NEW id \in Names, GetVolume(r, id) \/ DeleteVolume(r, id)
    PROVE  IInv'
<1> DEFINE q == req'[r]
<1>1. /\ UNCHANGED <<pvcs, classes, origin>>
      /\ req[r].pc = "new" /\ Fresh(req[r]) /\ DOMAIN req[r] = DOMAIN NewRequest
  BY PhaseFacts DEF GetVolume, DeleteVolume
<1>2. /\ Moved(r) /\ DOMAIN q = DOMAIN NewRequest /\ q.pc = "find"
      /\ q.op \in {"get", "delete"} /\ q.id = id /\ Fresh(q)
  BY <1>1 DEF IInv, GetVolume, DeleteVolume, Moved, NewRequest, Fresh
<1> HIDE DEF q
<1>3. RequestOK(q, pvcs, origin) /\ q.code # 201
  BY <1>2 DEF RequestOK, PhaseOK, ItemsOK, Fresh, IInv, ClusterOK
<1>4. QED
  BY <1>1, <1>2, <1>3, RequestMovesAlone DEF q

LEMMA DeleteFoundStep ==
    ASSUME IInv, NEW r \in Requests, DeleteFound(r)
    PROVE  IInv'
<1> DEFINE q == req'[r]
           c == pvcs[req[r].id]
<1>1. /\ UNCHANGED <<pvcs, classes, origin>>
      /\ Fresh(req[r]) /\ DOMAIN req[r] = DOMAIN NewRequest /\ req[r].id \in Names
      /\ c # NoClaim /\ req[r].op = "delete"
  BY PhaseFacts DEF DeleteFound, Findable
<1>2. c.uid \in DOMAIN origin
  BY <1>1 DEF IInv, ClusterOK, NamespaceOK, ClaimOK
<1>3. OnlyHolder(c.uid, req[r].id, pvcs)
  BY <1>1 DEF OnlyHolder, IInv, ClusterOK, UidsApart, Held
<1>4. /\ Moved(r) /\ DOMAIN q = DOMAIN NewRequest /\ q.pc = "delete"
      /\ q.op = "delete" /\ q.id = req[r].id /\ q.uid = c.uid
      /\ q.items = <<>> /\ q.at = 0 /\ q.code = 0
  BY <1>1 DEF IInv, DeleteFound, Moved, NewRequest, Fresh
<1>5. origin \in Seq(SUBSET CreateInputs)
  BY DEF IInv, ClusterOK
<1> HIDE DEF q, c
<1>6. PhaseOK(q, pvcs, origin)
  BY <1>1, <1>2, <1>3, <1>4 DEF PhaseOK
<1>7. RequestOK(q, pvcs, origin)
  BY <1>2, <1>4, <1>5, <1>6 DEF RequestOK, ItemsOK
<1>8. QED
  BY <1>1, <1>4, <1>7, RequestMovesAlone DEF q

\* A delete marks what holds the name.
LEMMA Terminates ==
    ASSUME IInv, NEW name \in Names, Terminate(name), origin' = origin
    PROVE  /\ ClusterOK(pvcs', origin') /\ Evolves(pvcs, origin, pvcs', origin')
           /\ name \in Held(pvcs') => pvcs'[name].terminating
<1>1. CASE pvcs[name] = NoClaim
  <2>1. pvcs' = pvcs
    BY <1>1 DEF Terminate
  <2>2. QED
    BY <1>1, <2>1, ClusterNow DEF IInv, Held
<1>2. CASE pvcs[name] # NoClaim
  <2> DEFINE c == [pvcs[name] EXCEPT !.terminating = TRUE]
  <2>1. ClaimOK(pvcs[name], name, origin) /\ DOMAIN pvcs = Names
    BY <1>2 DEF IInv, ClusterOK, NamespaceOK
  <2>2. pvcs' = [pvcs EXCEPT ![name] = c]
    BY <1>2 DEF Terminate
  <2>3. /\ DOMAIN c = DOMAIN ForeignClaim(<<>>, 0) /\ c.terminating = TRUE
        /\ c.uid = pvcs[name].uid /\ c.labels = pvcs[name].labels
        /\ c.capacity = pvcs[name].capacity /\ c.storageClass = pvcs[name].storageClass
        /\ c.accessMode = pvcs[name].accessMode /\ c.volumeMode = pvcs[name].volumeMode
        /\ c.phase = pvcs[name].phase /\ c.volumeName = pvcs[name].volumeName
        /\ c.conditions = pvcs[name].conditions
    BY <2>1 DEF ClaimOK, ForeignClaim
  <2> HIDE DEF c
  <2>4. ClaimOK(c, name, origin)
    BY <2>1, <2>3
    DEF ClaimOK, MadeFor, IsPvcState, isDCMManagedPVC, Selected, HasLabel
  <2>5. name \in Held(pvcs) /\ ClusterOK(pvcs, origin)
    BY <1>2 DEF Held, IInv
  <2>6. /\ ClusterOK([pvcs EXCEPT ![name] = c], origin)
        /\ Evolves(pvcs, origin, [pvcs EXCEPT ![name] = c], origin)
    BY <2>3, <2>4, <2>5, ClaimChanged
  <2>7. [pvcs EXCEPT ![name] = c][name] = c
    BY <2>1
  <2>8. QED
    BY <2>2, <2>3, <2>6, <2>7
<1>3. QED
  BY <1>1, <1>2

LEMMA DeletePVCStep ==
    ASSUME IInv, NEW r \in Requests, DeletePVC(r) \/ DeletePVCUnanswered(r)
    PROVE  IInv'
<1> DEFINE q == req'[r]
<1>1. /\ req[r].pc = "delete" /\ req[r].op = "delete" /\ req[r].id \in Names
      /\ req[r].uid \in DOMAIN origin /\ OnlyHolder(req[r].uid, req[r].id, pvcs)
      /\ Terminate(req[r].id) /\ origin' = origin /\ classes' = classes
  BY PhaseFacts DEF DeletePVC, DeletePVCUnanswered
<1>2. /\ ClusterOK(pvcs', origin') /\ Evolves(pvcs, origin, pvcs', origin')
      /\ req[r].id \in Held(pvcs') => pvcs'[req[r].id].terminating
  BY <1>1, Terminates
<1>3. OnItsWay(req[r].uid, pvcs')
  BY <1>1, <1>2 DEF OnItsWay, OnlyHolder, Evolves
<1>4. Answer(r, 204) \/ Answer(r, 500)
  BY ErrorCodes DEF DeletePVC, DeletePVCUnanswered
<1>5. /\ Moved(r) /\ Keeps(req[r], q) /\ DOMAIN q = DOMAIN NewRequest
      /\ q.pc = "done" /\ q.code \in {204, 500}
  BY <1>4, AnswerFields
<1>6. RequestOK(req[r], pvcs', origin')
  BY <1>2, RequestStays DEF IInv, ClusterOK
<1> HIDE DEF q
<1>7. q.op = "delete" /\ q.uid = req[r].uid
  BY <1>1, <1>5 DEF Keeps
<1>8. /\ req[r].pc # "done" /\ req[r].op # None /\ q.op \in DOMAIN Codes
      /\ q.code \in Codes[q.op] \ {200, 201} /\ q.code \notin {400, 409, 422}
      /\ q.uid \in DOMAIN origin' /\ OnItsWay(q.uid, pvcs')
  BY <1>1, <1>3, <1>5, <1>7, CodesOf
<1>9. RequestOK(q, pvcs', origin')
  BY <1>5, <1>6, <1>8, AnsweredOK
<1>10. classes' \subseteq Classes /\ q.code # 201
  BY <1>1, <1>5 DEF IInv
<1>11. QED
  BY <1>2, <1>5, <1>9, <1>10, RequestMoves DEF q

LEMMA PageSize == \A m \in PageSizes : normalizePageSize(m) \in 1..MaxPageSizeLimit
  BY DEF normalizePageSize

LEMMA ListStarts ==
    ASSUME IInv, NEW r \in Requests, ListBadToken(r) \/ \E m \in PageSizes : ListVolumes(r, m)
    PROVE  IInv'
<1> DEFINE q == req'[r]
<1>1. /\ UNCHANGED <<pvcs, classes, origin>>
      /\ Fresh(req[r]) /\ DOMAIN req[r] = DOMAIN NewRequest /\ req[r].id = None
  BY PhaseFacts DEF ListBadToken, ListVolumes
<1>2. /\ Moved(r) /\ DOMAIN q = DOMAIN NewRequest /\ q.op = "list" /\ q.id = None
      /\ q.uid = 0 /\ q.items = <<>> /\ q.at = 0
      /\ \/ q.pc = "done" /\ q.code = 400
         \/ q.pc = "list" /\ q.code = 0 /\ q.size \in 1..MaxPageSizeLimit
  <2>1. CASE ListBadToken(r)
    BY <1>1, <2>1, ErrorCodes DEF IInv, ListBadToken, Moved, NewRequest, Fresh
  <2>2. ASSUME NEW m \in PageSizes, ListVolumes(r, m)
        PROVE  /\ Moved(r) /\ DOMAIN q = DOMAIN NewRequest /\ q.op = "list" /\ q.id = None
               /\ q.uid = 0 /\ q.items = <<>> /\ q.at = 0
               /\ q.pc = "list" /\ q.code = 0 /\ q.size \in 1..MaxPageSizeLimit
    BY <1>1, <2>2, PageSize DEF IInv, ListVolumes, Moved, NewRequest, Fresh
  <2>3. QED
    BY <2>1, <2>2
<1> HIDE DEF q
<1>3. PhaseOK(q, pvcs, origin)
  BY <1>2, CodesOf DEF PhaseOK, DoneOK
<1>4. RequestOK(q, pvcs, origin)
  BY <1>2, <1>3 DEF RequestOK, ItemsOK, ListOK, IInv, ClusterOK
<1>5. QED
  BY <1>1, <1>2, <1>4, RequestMovesAlone DEF q

\* What two parts of the list show, one after the other, both show.
LEMMA VolumesConcat ==
    ASSUME NEW snap, NEW A \in SUBSET DOMAIN NameOrder, NEW B \in SUBSET DOMAIN NameOrder,
           \A a \in A, b \in B : a < b
    PROVE  VolumesOf(snap, A \cup B) = VolumesOf(snap, A) \o VolumesOf(snap, B)
<1>1. /\ Own(snap, A \cup B) = Own(snap, A) \cup Own(snap, B)
      /\ \A a \in Own(snap, A), b \in Own(snap, B) : a < b
  BY DEF Own
<1>2. /\ Own(snap, A) \in FiniteNats /\ VolumesOf(snap, A) = Pick(ShownAt(snap), Own(snap, A))
      /\ Own(snap, B) \in FiniteNats /\ VolumesOf(snap, B) = Pick(ShownAt(snap), Own(snap, B))
      /\ VolumesOf(snap, A \cup B) = Pick(ShownAt(snap), Own(snap, A \cup B))
  BY VolumesArePicked
<1>3. Pick(ShownAt(snap), Own(snap, A) \cup Own(snap, B)) =
        Pick(ShownAt(snap), Own(snap, A)) \o Pick(ShownAt(snap), Own(snap, B))
  BY <1>1, <1>2, PickConcat
<1>4. QED
  BY <1>1, <1>2, <1>3

LEMMA VolumesOfNone == ASSUME NEW snap PROVE VolumesOf(snap, {}) = <<>>
<1>1. Own(snap, {}) = {}
  BY DEF Own
<1>2. QED
  BY <1>1, VolumesArePicked, PickEmpty

\* What a listing knows when it asks for a page.
LEMMA BeforePage ==
    ASSUME IInv, NEW r \in Requests, req[r].pc = "list"
    PROVE  LET q == req[r]
               snap == IF q.at = 0 THEN pvcs ELSE q.snap
           IN  /\ NamespaceOK(snap, origin) /\ q.at \in {0} \cup DOMAIN NameOrder
               /\ q.size \in Nat \ {0} /\ q.op = "list" /\ q.id = None /\ q.uid = 0
               /\ q.items = VolumesOf(snap, {k \in Matching(snap, 0) : k <= q.at})
<1> DEFINE q == req[r]
           snap == IF q.at = 0 THEN pvcs ELSE q.snap
<1>1. ListOK(q, origin) /\ q.op = "list" /\ q.code = 0 /\ q.size \in Nat \ {0}
  <2>1. ListOK(q, origin) /\ q.op = "list" /\ q.code = 0 /\ q.size \in 1..MaxPageSizeLimit
    BY PhaseFacts
  <2>2. QED
    BY <2>1
<1>2. CASE q.at = 0
  <2>1. {k \in Matching(pvcs, 0) : k <= 0} = {}
    BY PositionSets DEF Matching
  <2>2. q.items = <<>> /\ NamespaceOK(pvcs, origin)
    BY <1>1, <1>2 DEF ListOK, IInv, ClusterOK
  <2> HIDE DEF q
  <2>3. QED
    <3>1. snap = pvcs /\ {k \in Matching(snap, 0) : k <= q.at} = {}
      BY <1>2, <2>1
    <3>2. q.items = VolumesOf(snap, {k \in Matching(snap, 0) : k <= q.at})
      BY <2>2, <3>1, VolumesOfNone
    <3>3. QED
      BY <1>1, <1>2, <2>2, <3>1, <3>2 DEF ListOK, q
<1>3. CASE q.at # 0
  BY <1>1, <1>3 DEF ListOK, ShownUpTo
<1>4. QED
  BY <1>2, <1>3

\* A listing of snap that has shown the items up to at gets a page, the token next,
\* and with it all items.
GetsPage(org, snap, at, size, items, page, next, all) ==
    /\ org \in Seq(SUBSET CreateInputs) /\ NamespaceOK(snap, org)
    /\ at \in {0} \cup DOMAIN NameOrder /\ size \in Nat \ {0}
    /\ items = VolumesOf(snap, {k \in Matching(snap, 0) : k <= at})
    /\ page = PageOf(snap, at, size)
    /\ next = NextToken(snap, page, size)
    /\ all = items \o VolumesOf(snap, page)

\* What it knows after it.
LEMMA AfterPage ==
    ASSUME NEW org, NEW snap, NEW at, NEW size, NEW items, NEW page, NEW next, NEW all,
           GetsPage(org, snap, at, size, items, page, next, all)
    PROVE  /\ next \in {0} \cup DOMAIN NameOrder
           /\ next = 0 => all = VolumesOf(snap, Matching(snap, 0))
           /\ next # 0 => all = VolumesOf(snap, {k \in Matching(snap, 0) : k <= next})
           /\ \A k \in DOMAIN all : all[k].uid \in DOMAIN org /\ Asked(all[k], org)
<1> DEFINE done == {k \in Matching(snap, 0) : k <= at}
<1>0. /\ org \in Seq(SUBSET CreateInputs) /\ NamespaceOK(snap, org)
      /\ at \in {0} \cup DOMAIN NameOrder /\ size \in Nat \ {0}
      /\ items = VolumesOf(snap, done) /\ page = PageOf(snap, at, size)
      /\ next = NextToken(snap, page, size) /\ all = items \o VolumesOf(snap, page)
  BY DEF GetsPage
<1>1. /\ page \in SUBSET Matching(snap, at)
      /\ next \in {0} \cup DOMAIN NameOrder
      /\ \A k \in done, l \in page : k < l
      /\ next = 0 => done \cup page = Matching(snap, 0)
      /\ next # 0 => done \cup page = {k \in Matching(snap, 0) : k <= next}
  BY <1>0, PageGoesOn
<1>2. page \in SUBSET DOMAIN NameOrder /\ done \in SUBSET DOMAIN NameOrder
  BY <1>1 DEF Matching
<1>3. all = VolumesOf(snap, done \cup page)
  BY <1>0, <1>1, <1>2, VolumesConcat
<1>4. done \cup page \in SUBSET Matching(snap, 0)
  BY <1>1
<1> HIDE DEF done
<1>5. \A k \in DOMAIN all : all[k].uid \in DOMAIN org /\ Asked(all[k], org)
  BY <1>0, <1>3, <1>4, VolumesAsAsked
<1>6. QED
  BY <1>1, <1>3, <1>5

\* What a page makes of the request.
LEMMA PageFields ==
    ASSUME IInv, NEW r \in Requests, ListPage(r)
    PROVE  LET q == req[r]
               q2 == req'[r]
               snap == IF q.at = 0 THEN pvcs ELSE q.snap
               page == PageOf(snap, q.at, q.size)
               next == NextToken(snap, page, q.size)
           IN  /\ Moved(r) /\ DOMAIN q2 = DOMAIN NewRequest
               /\ q2.op = q.op /\ q2.id = q.id /\ q2.uid = q.uid
               /\ q2.items = q.items \o VolumesOf(snap, page)
               /\ q2.at = next /\ q2.snap = snap
               /\ q2.pc = (IF next = 0 THEN "done" ELSE "list")
               /\ q2.size = (IF next = 0 THEN 0 ELSE q.size)
               /\ q2.code = (IF next = 0 THEN 200 ELSE 0)
<1> DEFINE q == req[r]
           snap == IF q.at = 0 THEN pvcs ELSE q.snap
           page == PageOf(snap, q.at, q.size)
           next == NextToken(snap, page, q.size)
<1>1. DOMAIN req = Requests /\ DOMAIN q = DOMAIN NewRequest
  BY PhaseFacts DEF IInv
<1>2. req' = [req EXCEPT
             ![r].items = @ \o VolumesOf(snap, page), ![r].at = next, ![r].snap = snap,
             ![r].pc = IF next = 0 THEN "done" ELSE "list",
             ![r].size = IF next = 0 THEN 0 ELSE @,
             ![r].code = IF next = 0 THEN 200 ELSE 0]
  BY DEF ListPage
<1> HIDE DEF next, page, snap
<1>3. /\ Moved(r) /\ DOMAIN req'[r] = DOMAIN NewRequest
      /\ req'[r].op = q.op /\ req'[r].id = q.id /\ req'[r].uid = q.uid
      /\ req'[r].items = q.items \o VolumesOf(snap, page)
      /\ req'[r].at = next /\ req'[r].snap = snap
      /\ req'[r].pc = (IF next = 0 THEN "done" ELSE "list")
      /\ req'[r].size = (IF next = 0 THEN 0 ELSE q.size)
      /\ req'[r].code = (IF next = 0 THEN 200 ELSE 0)
  BY <1>1, <1>2 DEF Moved, NewRequest
<1>4. QED
  BY <1>3 DEF next, page, snap

LEMMA ListPageStep ==
    ASSUME IInv, NEW r \in Requests, ListPage(r)
    PROVE  IInv'
<1> DEFINE q == req[r]
           q2 == req'[r]
           snap == IF q.at = 0 THEN pvcs ELSE q.snap
           page == PageOf(snap, q.at, q.size)
           next == NextToken(snap, page, q.size)
           all == q.items \o VolumesOf(snap, page)
<1>1. /\ NamespaceOK(snap, origin) /\ q.at \in {0} \cup DOMAIN NameOrder
      /\ q.size \in Nat \ {0} /\ q.op = "list" /\ q.id = None /\ q.uid = 0
      /\ q.items = VolumesOf(snap, {k \in Matching(snap, 0) : k <= q.at})
  BY BeforePage DEF ListPage
<1>2. origin \in Seq(SUBSET CreateInputs) /\ Len(origin) \in Nat
  BY DEF IInv, ClusterOK
<1>3. /\ Moved(r) /\ DOMAIN q2 = DOMAIN NewRequest
      /\ q2.op = q.op /\ q2.id = q.id /\ q2.uid = q.uid
      /\ q2.items = all /\ q2.at = next /\ q2.snap = snap
      /\ q2.pc = (IF next = 0 THEN "done" ELSE "list")
      /\ q2.size = (IF next = 0 THEN 0 ELSE q.size)
      /\ q2.code = (IF next = 0 THEN 200 ELSE 0)
  BY PageFields
<1>4. UNCHANGED <<pvcs, classes, origin>> /\ q.size \in 1..MaxPageSizeLimit
  BY PhaseFacts DEF ListPage
<1> HIDE DEF next, page, snap, all, q, q2
<1>5. /\ next \in {0} \cup DOMAIN NameOrder
      /\ next = 0 => all = VolumesOf(snap, Matching(snap, 0))
      /\ next # 0 => all = VolumesOf(snap, {k \in Matching(snap, 0) : k <= next})
      /\ \A k \in DOMAIN all : all[k].uid \in DOMAIN origin /\ Asked(all[k], origin)
  <2>1. GetsPage(origin, snap, q.at, q.size, q.items, page, next, all)
    BY <1>1, <1>2 DEF GetsPage, next, page, all
  <2>2. QED
    BY <2>1, AfterPage
<1>6. Matching(snap, 0) = {k \in Matching(snap, 0) : k <= Len(NameOrder)}
  BY PositionSets DEF Matching
<1>7. ListOK(q2, origin)
  <2>1. CASE next = 0
    <3>1. all = VolumesOf(snap, {k \in Matching(snap, 0) : k <= Len(NameOrder)})
      BY <1>5, <1>6, <2>1
    <3>2. ShownUpTo(q2, Len(NameOrder), origin)
      BY <1>1, <1>3, <3>1 DEF ShownUpTo
    <3>3. QED
      BY <1>1, <1>3, <2>1, <3>2 DEF ListOK
  <2>2. CASE next # 0
    <3>1. ShownUpTo(q2, next, origin)
      BY <1>1, <1>3, <1>5, <2>2 DEF ShownUpTo
    <3>2. QED
      BY <1>1, <1>3, <1>5, <2>2, <3>1 DEF ListOK
  <2>3. QED
    BY <2>1, <2>2
<1>8. PhaseOK(q2, pvcs, origin)
  BY <1>1, <1>3, <1>4, CodesOf DEF PhaseOK, DoneOK
<1>9. ItemsOK(q2, origin)
  BY <1>1, <1>3, <1>5 DEF ItemsOK
<1>10. RequestOK(q2, pvcs, origin) /\ q2.code # 201
  BY <1>1, <1>2, <1>3, <1>7, <1>8, <1>9 DEF RequestOK
<1>11. QED
  BY <1>3, <1>4, <1>10, RequestMovesAlone DEF q2

-----------------------------------------------------------------------------
(* Steps of the cluster, and the first state.                              *)

\* The requests take a step of the cluster as it comes.
LEMMA ClusterMoves ==
    ASSUME IInv, UNCHANGED req, classes' \subseteq Classes,
           ClusterOK(pvcs', origin'), Evolves(pvcs, origin, pvcs', origin')
    PROVE  IInv'
<1>1. \A r \in Requests : RequestOK(req'[r], pvcs', origin')
  BY RequestStays DEF IInv, ClusterOK
<1>2. QED
  BY <1>1 DEF IInv

\* The service takes no claim of somebody else's for its own.
LEMMA ForeignIsForeign ==
    ASSUME NEW labels \in ForeignLabels, NEW name \in Names
    PROVE  ~isDCMManagedPVC([labels |-> labels], name)
<1> DEFINE c == [labels |-> labels]
           own == Labels(name)
<1>1. PICK key \in ReservedLabelKeys : ~HasLabel(c, key, own[key])
  BY ForeignAssumption
<1>2. own.managedBy = "dcm" /\ own.instanceId = name /\ own.serviceType = "storage"
  BY DEF Labels
<1> HIDE DEF c, own
<1>3. ~(/\ HasLabel(c, "managedBy", "dcm") /\ HasLabel(c, "serviceType", "storage")
        /\ HasLabel(c, "instanceId", name))
  BY <1>1, <1>2 DEF ReservedLabelKeys
<1>4. QED
  BY <1>3 DEF isDCMManagedPVC, Selected, c

LEMMA ForeignCreateStep ==
    ASSUME IInv, NEW name \in Names, NEW labels \in ForeignLabels, ForeignCreate(name, labels)
    PROVE  IInv'
<1> DEFINE n == Len(origin)
           c == ForeignClaim(labels, n + 1)
           org2 == Append(origin, {})
<1>1. /\ origin \in Seq(SUBSET CreateInputs) /\ n \in Nat
      /\ org2 \in Seq(SUBSET CreateInputs) /\ DOMAIN org2 = 1..n + 1 /\ org2[n + 1] = {}
  BY DEF IInv, ClusterOK
<1>2. /\ DOMAIN c = DOMAIN ForeignClaim(<<>>, 0) /\ c.uid = n + 1 /\ c.labels = labels
      /\ c.terminating = FALSE /\ c.phase = "Pending"
      /\ c.volumeName = Unset /\ c.conditions = <<>>
  BY DEF ForeignClaim
<1>3. /\ pvcs[name] = NoClaim /\ pvcs' = [pvcs EXCEPT ![name] = c] /\ origin' = org2
      /\ UNCHANGED <<classes, req>>
  BY DEF ForeignCreate
<1> HIDE DEF n, c, org2
<1>4. ~isDCMManagedPVC(c, name)
  <2>1. ~isDCMManagedPVC([labels |-> labels], name)
    BY ForeignIsForeign
  <2>2. QED
    BY <1>2, <2>1 DEF isDCMManagedPVC, Selected, HasLabel
<1>5. IsPvcState(c)
  <2>1. <<>> \in Seq(Condition)
    OBVIOUS
  <2>2. QED
    BY <1>2, <2>1 DEF IsPvcState
<1>6. ClaimOK(c, name, org2)
  BY <1>1, <1>2, <1>4, <1>5 DEF ClaimOK
<1>7. ClusterOK(pvcs', origin') /\ Evolves(pvcs, origin, pvcs', origin')
  <2>1. {} \in SUBSET CreateInputs /\ c.uid = Len(origin) + 1 /\ ClusterOK(pvcs, origin)
    BY <1>2 DEF n, IInv
  <2>2. QED
    BY <1>3, <1>6, <2>1, ClaimAdded DEF org2
<1>8. QED
  BY <1>3, <1>7, ClusterMoves DEF IInv

LEMMA ForeignDeleteStep ==
    ASSUME IInv, NEW name \in Names, ForeignDelete(name)
    PROVE  IInv'
  BY Terminates, ClusterMoves DEF ForeignDelete, IInv

LEMMA PVCBoundStep ==
    ASSUME IInv, NEW name \in Names, PVCBound(name)
    PROVE  IInv'
<1> DEFINE c == [pvcs[name] EXCEPT !.phase = "Bound"]
<1>1. /\ ClaimOK(pvcs[name], name, origin) /\ DOMAIN pvcs = Names
      /\ name \in Held(pvcs) /\ ClusterOK(pvcs, origin)
  BY DEF PVCBound, Live, Held, IInv, ClusterOK, NamespaceOK
<1>2. pvcs' = [pvcs EXCEPT ![name] = c] /\ UNCHANGED <<classes, origin, req>>
  BY DEF PVCBound
<1>3. /\ DOMAIN c = DOMAIN ForeignClaim(<<>>, 0) /\ c.phase = "Bound"
      /\ c.uid = pvcs[name].uid /\ c.labels = pvcs[name].labels
      /\ c.capacity = pvcs[name].capacity /\ c.storageClass = pvcs[name].storageClass
      /\ c.accessMode = pvcs[name].accessMode /\ c.volumeMode = pvcs[name].volumeMode
      /\ c.terminating = pvcs[name].terminating /\ c.volumeName = pvcs[name].volumeName
      /\ c.conditions = pvcs[name].conditions
  BY <1>1 DEF ClaimOK, ForeignClaim
<1> HIDE DEF c
<1>4. ClaimOK(c, name, origin)
  BY <1>1, <1>3 DEF ClaimOK, MadeFor, IsPvcState, isDCMManagedPVC, Selected, HasLabel
<1>5. ClusterOK(pvcs', origin') /\ Evolves(pvcs, origin, pvcs', origin')
  BY <1>1, <1>2, <1>3, <1>4, ClaimChanged
<1>6. QED
  BY <1>2, <1>5, ClusterMoves DEF IInv

LEMMA PVCRemovedStep ==
    ASSUME IInv, NEW name \in Names, PVCRemoved(name)
    PROVE  IInv'
<1>1. ClusterOK(pvcs', origin') /\ Evolves(pvcs, origin, pvcs', origin')
  BY ClaimRemoved DEF PVCRemoved, IInv
<1>2. QED
  BY <1>1, ClusterMoves DEF PVCRemoved, IInv

LEMMA ClassChangeStep ==
    ASSUME IInv, NEW c \in Classes, ClassChange(c)
    PROVE  IInv'
<1>1. UNCHANGED <<pvcs, origin, req>> /\ classes' \subseteq Classes
  BY DEF ClassChange, IInv
<1>2. QED
  BY <1>1, ClusterNow, ClusterMoves DEF IInv

LEMMA InitOK == Init => IInv
<1> SUFFICES ASSUME Init PROVE IInv
  OBVIOUS
<1>1. PICK old \in 0..Len(Stored) :
         /\ origin = [u \in 1..old |-> {Stored[u]}]
         /\ pvcs = [n \in Names |->
              IF \E u \in 1..old : InstanceId(Stored[u]) = n
              THEN LET u == CHOOSE u \in 1..old : InstanceId(Stored[u]) = n
                   IN  buildPVC(Stored[u], u)
              ELSE NoClaim]
  BY DEF Init
<1>2. /\ old \in Nat /\ \A u \in 1..old : u \in DOMAIN Stored
      /\ \A u \in 1..old :
            Stored[u] \in CreateInputs /\ ValidCreate(Stored[u]) /\ Buildable(Stored[u])
  OBVIOUS
<1>3. /\ origin \in Seq(SUBSET CreateInputs) /\ Len(origin) = old /\ DOMAIN origin = 1..old
      /\ \A u \in 1..old : origin[u] = {Stored[u]}
  <2>1. origin \in [1..old -> SUBSET CreateInputs]
    BY <1>1, <1>2
  <2>2. QED
    BY <1>1, <1>2, <2>1
<1>4. \A n \in Names : pvcs[n] # NoClaim =>
         \E u \in 1..old : InstanceId(Stored[u]) = n /\ pvcs[n] = buildPVC(Stored[u], u)
  BY <1>1
<1>5. ASSUME NEW n \in Names, NEW u \in 1..old, InstanceId(Stored[u]) = n,
             pvcs[n] = buildPVC(Stored[u], u)
      PROVE  ClaimOK(pvcs[n], n, origin) /\ pvcs[n].uid = u
  <2>1. /\ DOMAIN pvcs[n] = DOMAIN ForeignClaim(<<>>, 0) /\ pvcs[n].uid = u
        /\ IsPvcState(pvcs[n]) /\ MadeFor(pvcs[n], n, Stored[u])
    BY <1>2, <1>5, Built
  <2>2. pvcs[n].uid \in DOMAIN origin /\ origin[pvcs[n].uid] = {Stored[u]}
    BY <1>3, <2>1
  <2>3. \A in \in origin[pvcs[n].uid] : MadeFor(pvcs[n], n, in)
    BY <2>1, <2>2
  <2>4. QED
    BY <2>1, <2>2, <2>3 DEF ClaimOK
<1>6. NamespaceOK(pvcs, origin)
  BY <1>1, <1>4, <1>5 DEF NamespaceOK
<1>7. UidsApart(pvcs)
  <2>1. SUFFICES ASSUME NEW m \in Names, NEW n \in Names, pvcs[m] # NoClaim, pvcs[n] # NoClaim,
                        pvcs[m].uid = pvcs[n].uid
                 PROVE  m = n
    BY DEF UidsApart, Held
  <2>2. PICK u \in 1..old : InstanceId(Stored[u]) = m /\ pvcs[m] = buildPVC(Stored[u], u)
    BY <1>4, <2>1
  <2>3. PICK v \in 1..old : InstanceId(Stored[v]) = n /\ pvcs[n] = buildPVC(Stored[v], v)
    BY <1>4, <2>1
  <2>4. u = v
    BY <1>5, <2>1, <2>2, <2>3
  <2>5. QED
    BY <2>2, <2>3, <2>4
<1>8. \A r \in Requests : RequestOK(req[r], pvcs, origin)
  <2>1. SUFFICES ASSUME NEW r \in Requests PROVE RequestOK(NewRequest, pvcs, origin)
    BY DEF Init
  <2> DEFINE q == NewRequest
  <2>2. q.pc = "new" /\ q.op = None /\ q.id = None /\ Fresh(q)
    BY DEF NewRequest, Fresh
  <2> HIDE DEF q
  <2>3. RequestOK(q, pvcs, origin)
    BY <1>2, <1>3, <2>2 DEF RequestOK, PhaseOK, ItemsOK, Fresh, q
  <2>4. QED
    BY <2>3 DEF q
<1>9. CreatedApart(req)
  BY DEF CreatedApart, Init, NewRequest
<1>10. QED
  BY <1>3, <1>6, <1>7, <1>8, <1>9 DEF IInv, ClusterOK, Init

-----------------------------------------------------------------------------
(* The invariant, and what follows from it.                                *)

LEMMA Inductive == IInv /\ [Next]_vars => IInv'
<1> SUFFICES ASSUME IInv, [Next]_vars PROVE IInv'
  OBVIOUS
<1>1. ASSUME NEW r \in Requests, RequestStep(r) PROVE IInv'
  <2>1. CASE \E in \in CreateInputs : CreateVolume(r, in)
    BY <2>1, CreateVolumeStep
  <2>2. CASE validateStorageClass(r)
    BY <2>2, validateStorageClassStep
  <2>3. CASE CreatePVCExists(r)
    BY <2>3, CreatePVCExistsStep
  <2>4. CASE CreatePVC(r)
    BY <2>4, CreatePVCStep
  <2>5. CASE CreatePVCUnanswered(r)
    BY <2>5, CreatePVCUnansweredStep
  <2>6. CASE CreateCallFails(r)
    BY <2>6, CreateCallFailsStep
  <2>7. CASE \E id \in Names : GetVolume(r, id) \/ DeleteVolume(r, id)
    BY <2>7, FindStarts
  <2>8. CASE FindPVCMissing(r) \/ FindCallFails(r) \/ DeleteCallFails(r)
    BY <2>8, FindMissesStep
  <2>9. CASE GetFound(r)
    BY <2>9, GetFoundStep
  <2>10. CASE DeleteFound(r)
    BY <2>10, DeleteFoundStep
  <2>11. CASE DeletePVC(r) \/ DeletePVCUnanswered(r)
    BY <2>11, DeletePVCStep
  <2>12. CASE ListBadToken(r) \/ \E m \in PageSizes : ListVolumes(r, m)
    BY <2>12, ListStarts
  <2>13. CASE ListPage(r)
    BY <2>13, ListPageStep
  <2>14. CASE ListCallFails(r)
    BY <2>14, ListCallFailsStep
  <2>15. QED
    BY <1>1, <2>1, <2>2, <2>3, <2>4, <2>5, <2>6, <2>7, <2>8, <2>9, <2>10, <2>11, <2>12,
       <2>13, <2>14 DEF RequestStep
<1>2. CASE ClusterStep
  <2>1. CASE \E name \in Names, labels \in ForeignLabels : ForeignCreate(name, labels)
    BY <2>1, ForeignCreateStep
  <2>2. CASE \E name \in Names : ForeignDelete(name)
    BY <2>2, ForeignDeleteStep
  <2>3. CASE \E name \in Names : PVCBound(name)
    BY <2>3, PVCBoundStep
  <2>4. CASE \E name \in Names : PVCRemoved(name)
    BY <2>4, PVCRemovedStep
  <2>5. CASE \E c \in Classes : ClassChange(c)
    BY <2>5, ClassChangeStep
  <2>6. QED
    BY <1>2, <2>1, <2>2, <2>3, <2>4, <2>5 DEF ClusterStep
<1>3. CASE UNCHANGED vars
  BY <1>3 DEF IInv, vars
<1>4. QED
  BY <1>1, <1>2, <1>3 DEF Next

\* Every reachable state satisfies the inductive invariant.
THEOREM Invariance == Spec => []IInv
  BY InitOK, Inductive, PTL DEF Spec

LEMMA LiveIsHeld == Live = Held(pvcs)
  BY DEF Live, Held

\* A listing asks for pages of a legal size, claims have uids that were given, and
\* every answer's code is one that the OpenAPI document gives its operation.
THEOREM TypeCorrect == Spec => []TypeOK
<1>1. IInv => TypeOK
  <2> SUFFICES ASSUME IInv PROVE TypeOK
    OBVIOUS
  <2>1. Uids = DOMAIN origin /\ \A u \in Uids : origin[u] \subseteq CreateInputs
    BY DEF IInv, ClusterOK, Uids
  <2>2. \A n \in Live : pvcs[n].uid \in Uids /\ IsPvcState(pvcs[n])
    BY <2>1 DEF IInv, ClusterOK, NamespaceOK, ClaimOK, Live
  <2>3. \A r \in Requests :
          /\ req[r].pc \in {"new", "class", "create", "find", "delete", "list", "done"}
          /\ req[r].pc = "done" => req[r].code \in Codes[req[r].op]
          /\ req[r].pc = "list" => req[r].size \in 1..MaxPageSizeLimit
    BY DEF IInv, RequestOK, PhaseOK, DoneOK
  <2>4. QED
    BY <2>1, <2>2, <2>3 DEF TypeOK, IInv
<1>2. QED
  BY <1>1, Invariance, PTL

\* Whatever a client is told about a volume, however late, is what the POST that
\* made its claim asked for, under the id it asked for.
THEOREM ToldAsAsked == Spec => []AnswersAsAsked
<1>1. IInv => AnswersAsAsked
  BY DEF IInv, RequestOK, ItemsOK, Asked, AnswersAsAsked, AsAsked
<1>2. QED
  BY <1>1, Invariance, PTL

\* A POST refused with 400, 409 or 422 left nothing behind, and no claim is the
\* answer to two POSTs.
THEOREM CreatesAccounted == Spec => []CreateAccounted
<1>1. IInv => CreateAccounted
  BY DEF IInv, RequestOK, PhaseOK, DoneOK, CreatedApart, CreateAccounted, Answered
<1>2. QED
  BY <1>1, Invariance, PTL

\* A DELETE is answered 204 only when the claim that it looked up is on its way out
\* or gone.
THEOREM DeletesAreTrue == Spec => []NoFalseDelete
<1>1. IInv => NoFalseDelete
  BY LiveIsHeld DEF IInv, RequestOK, PhaseOK, DoneOK, OnItsWay, NoFalseDelete, Answered
<1>2. QED
  BY <1>1, Invariance, PTL

\* Lookups, listings and deletes recognise every claim that a POST ever stored.
THEOREM StoredIsReachable == Spec => []NothingUnreachable
<1>1. IInv => NothingUnreachable
  <2> SUFFICES ASSUME IInv, NEW n \in Live, origin[pvcs[n].uid] # {} PROVE Findable(n)
    BY DEF NothingUnreachable
  <2>1. ClaimOK(pvcs[n], n, origin) /\ pvcs[n] # NoClaim
    BY DEF IInv, ClusterOK, NamespaceOK, Live
  <2>2. PICK in \in origin[pvcs[n].uid] : MadeFor(pvcs[n], n, in)
    BY <2>1 DEF ClaimOK
  <2>3. QED
    BY <2>1, <2>2, MadeIsManaged DEF Findable
<1>2. QED
  BY <1>1, Invariance, PTL

\* The volumes that POSTs made are the selected claims that carry their own id.
MadeAt(snap, org) ==
    {k \in DOMAIN NameOrder :
        snap[NameOrder[k]] # NoClaim /\ org[snap[NameOrder[k]].uid] # {}}

LEMMA MadeAreOwn ==
    ASSUME NEW snap, NEW org, NamespaceOK(snap, org)
    PROVE  Own(snap, Matching(snap, 0)) = MadeAt(snap, org)
<1>1. ASSUME NEW k \in DOMAIN NameOrder, snap[NameOrder[k]] # NoClaim
      PROVE  /\ org[snap[NameOrder[k]].uid] # {} <=>
                  isDCMManagedPVC(snap[NameOrder[k]], NameOrder[k])
             /\ isDCMManagedPVC(snap[NameOrder[k]], NameOrder[k]) => Selected(snap[NameOrder[k]])
  <2>1. ClaimOK(snap[NameOrder[k]], NameOrder[k], org)
    BY <1>1 DEF NamespaceOK, Names
  <2>2. QED
    BY <2>1, MadeIsManaged DEF ClaimOK, isDCMManagedPVC
<1>2. \A k \in DOMAIN NameOrder : k > 0
  BY PositionSets
<1>3. QED
  BY <1>1, <1>2 DEF Own, Matching, MadeAt

\* A listing followed to its end shows every volume of the state its first page saw,
\* once and in order.
THEOREM ListingsComplete == Spec => []ListingComplete
<1>1. IInv => ListingComplete
  <2> SUFFICES ASSUME IInv, NEW r \in Requests, Answered(r, {200}), req[r].op = "list"
               PROVE  ShownIds(req[r]) = Pick(NameOrder,
                        {k \in DOMAIN NameOrder :
                           /\ req[r].snap[NameOrder[k]] # NoClaim
                           /\ origin[req[r].snap[NameOrder[k]].uid] # {}})
    BY DEF ListingComplete
  <2> DEFINE q == req[r]
             snap == q.snap
             own == Own(snap, Matching(snap, 0))
  <2>1. NamespaceOK(snap, origin)
        /\ q.items = VolumesOf(snap, {k \in Matching(snap, 0) : k <= Len(NameOrder)})
    BY DEF IInv, RequestOK, ListOK, ShownUpTo, Answered
  <2>2. {k \in Matching(snap, 0) : k <= Len(NameOrder)} = Matching(snap, 0)
    BY PositionSets DEF Matching
  <2>3. q.items = Pick(ShownAt(snap), own)
    BY <2>1, <2>2, VolumesArePicked DEF Matching
  <2>4. own \in SUBSET DOMAIN NameOrder
    BY DEF Own, Matching
  <2>5. ShownIds(q) = Pick(NameOrder, own)
    BY <2>3, <2>4, IdsOfPick DEF ShownIds, IdsOf
  <2>6. own = MadeAt(snap, origin)
    BY <2>1, MadeAreOwn
  <2>7. QED
    BY <2>5, <2>6 DEF MadeAt
<1>2. QED
  BY <1>1, Invariance, PTL
================================================================================

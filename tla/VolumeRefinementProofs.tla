------------------------- MODULE VolumeRefinementProofs -------------------------
(***************************************************************************)
(* The volume API over its cluster implements the volume repository: each  *)
(* of its steps is one of VolumeRepository, or none.                       *)
(***************************************************************************)
EXTENDS VolumeServiceProofs

\* A DELETE's call before and after it has found its volume.
Seeking(id) == [op |-> "delete", id |-> id, found |-> FALSE, list |-> {}, answer |-> None]

Deleting(id) == [op |-> "delete", id |-> id, found |-> TRUE, list |-> {}, answer |-> None]

Finds(call) == [call EXCEPT !.found = TRUE]

LEMMA FoundSet == ASSUME NEW id PROVE Finds(Seeking(id)) = Deleting(id)
<1> DEFINE Call(f) == [op |-> "delete", id |-> id, found |-> f, list |-> {}, answer |-> None]
           no == FALSE
           yes == TRUE
<1> HIDE DEF no, yes
<1>1. [Call(no) EXCEPT !.found = yes] = Call(yes)
  OBVIOUS
<1>2. QED
  BY <1>1 DEF no, yes, Finds, Seeking, Deleting

\* A listing's call by its parts, and once it shows something.
ListCall(id, list, answer) ==
    [op |-> "list", id |-> id, found |-> FALSE, list |-> list, answer |-> answer]

Shows(call, list, answer) == [call EXCEPT !.answer = answer, !.list = list]

LEMMA ListCallMoves ==
    ASSUME NEW id, NEW list, NEW list2, NEW a, NEW b
    PROVE  Shows(ListCall(id, list, a), list2, b) = ListCall(id, list2, b)
<1> DEFINE c == ListCall(id, list, a)
           d == ListCall(id, list2, b)
           e == [c EXCEPT !.answer = b, !.list = list2]
<1>1. DOMAIN c = {"op", "id", "found", "list", "answer"} /\ DOMAIN d = DOMAIN c
  BY DEF ListCall
<1>2. d = [k \in DOMAIN d |-> d[k]]
  BY DEF ListCall
<1>3. d.op = c.op /\ d.id = c.id /\ d.found = c.found /\ d.list = list2 /\ d.answer = b
  BY DEF ListCall
<1> HIDE DEF c, d
<1>4. /\ e = [k \in DOMAIN e |-> e[k]] /\ DOMAIN e = DOMAIN c
      /\ \A k \in DOMAIN e :
           e[k] = IF k = "list" THEN list2 ELSE IF k = "answer" THEN b ELSE c[k]
  OBVIOUS
<1> HIDE DEF e
<1>5. \A k \in DOMAIN d : d[k] = e[k]
  BY <1>1, <1>3, <1>4
<1>6. e = d
  BY <1>1, <1>2, <1>4, <1>5
<1>7. QED
  BY <1>6 DEF c, d, e, Shows

UpTo(snap, u) == {k \in Matching(snap, 0) : k <= u}
After(snap, u) == {k \in Matching(snap, 0) : k > u}

\* What has been shown up to a position and what comes after it is everything.
LEMMA ShownAndRest ==
    ASSUME NEW snap, NEW u \in Nat, NEW items, items = VolumesOf(snap, UpTo(snap, u)),
           NEW after, after = After(snap, u)
    PROVE  IdsOf(items) \o Pick(NameOrder, Own(snap, after))
             = Pick(NameOrder, Own(snap, Matching(snap, 0)))
<1> DEFINE shown == UpTo(snap, u)
           A == Own(snap, shown)
           B == Own(snap, after)
<1>1. /\ DOMAIN NameOrder \subseteq Nat /\ Matching(snap, 0) \subseteq DOMAIN NameOrder
      /\ shown \in SUBSET DOMAIN NameOrder /\ after \in SUBSET DOMAIN NameOrder
  BY PositionSets DEF Matching, UpTo, After
<1>2. /\ A \in FiniteNats /\ B \in FiniteNats /\ items = Pick(ShownAt(snap), A)
      /\ A \in SUBSET DOMAIN NameOrder
  <2>1. A \in SUBSET DOMAIN NameOrder
    BY <1>1 DEF Own
  <2>2. QED
    BY <1>1, <2>1, VolumesArePicked
<1>3. \A a \in A, b \in B : a < b
  BY <1>1 DEF Own, UpTo, After
<1>4. A \cup B = Own(snap, Matching(snap, 0))
  BY <1>1 DEF Own, UpTo, After
<1> HIDE DEF A, B
<1>5. IdsOf(items) = Pick(NameOrder, A)
  BY <1>2, IdsOfPick
<1>6. Pick(NameOrder, A \cup B) = Pick(NameOrder, A) \o Pick(NameOrder, B)
  BY <1>2, <1>3, PickConcat
<1>7. QED
  BY <1>4, <1>5, <1>6 DEF B

\* What a listing has shown and will show is decided by its first page.
LEMMA ListingShows ==
    ASSUME NEW org, NEW q, q.op = "list", ListOK(q, org), q.at # 0 \/ q.code = 200
    PROVE  Listing(q) = {Pick(NameOrder, Own(q.snap, Matching(q.snap, 0)))}
<1> DEFINE rest == IF q.at = 0 THEN {} ELSE Matching(q.snap, q.at)
           u == IF q.at = 0 THEN Len(NameOrder) ELSE q.at
<1>1. Listing(q) = {ShownIds(q) \o Pick(NameOrder, Own(q.snap, rest))}
  BY DEF Listing
<1>2. u \in Nat /\ q.items = VolumesOf(q.snap, UpTo(q.snap, u))
  <2>1. u \in Nat /\ ShownUpTo(q, u, org)
    BY PositionSets DEF ListOK
  <2>2. QED
    BY <2>1 DEF ShownUpTo, UpTo
<1>3. rest = After(q.snap, u)
  <2>1. CASE q.at = 0
    BY <2>1, PositionSets DEF Matching, After
  <2>2. CASE q.at # 0
    <3>1. q.at \in DOMAIN NameOrder
      BY <2>2 DEF ListOK
    <3>2. QED
      BY <2>2, <3>1, PositionSets DEF Matching, After
  <2>3. QED
    BY <2>1, <2>2
<1> HIDE DEF rest, u
<1> DEFINE items == q.items
           snap == q.snap
<1>4. IdsOf(items) \o Pick(NameOrder, Own(snap, rest))
        = Pick(NameOrder, Own(snap, Matching(snap, 0)))
  <2>1. u \in Nat /\ items = VolumesOf(snap, UpTo(snap, u)) /\ rest = After(snap, u)
    BY <1>2, <1>3
  <2> HIDE DEF items, snap
  <2>2. QED
    BY <2>1, ShownAndRest
<1>5. QED
  BY <1>1, <1>4 DEF ShownIds, IdsOf

USE NoneAssumption, WordAssumption, PageAssumption, InputsAssumption

LEMMA SameOrder == ASSUME NEW S PROVE Repository!InOrder(S) = InOrder(S)
  BY Zenon DEF Repository!InOrder, InOrder, Repository!Cardinality, Cardinality

LEMMA SamePick == \A list, S : Repository!Pick(list, S) = Pick(list, S)
  BY SameOrder DEF Repository!Pick, Pick

-----------------------------------------------------------------------------
(* What calls, held and doomed become in a step.                           *)

LEMMA CallsMove ==
    ASSUME NEW r \in Requests, Moved(r)
    PROVE  /\ calls[r] = CallOf(req[r])
           /\ calls' = [calls EXCEPT ![r] = CallOf(req'[r])]
           /\ calls'[r] = CallOf(req'[r])
           /\ \A p \in Requests \ {r} : calls'[p] = calls[p]
  BY DEF calls, Moved

LEMMA CallFields ==
    ASSUME NEW q
    PROVE  /\ CallOf(q).op = q.op /\ CallOf(q).id = q.id
           /\ CallOf(q).found <=> q.op = "delete" /\ q.uid # 0
           /\ CallOf(q).list = Listing(q) /\ CallOf(q).answer = Outcome(q)
  BY DEF CallOf

LEMMA OutcomeOf ==
    ASSUME NEW q
    PROVE  /\ q.pc # "done" => Outcome(q) = None
           /\ q.pc = "done" =>
                /\ q.code \in {200, 201, 204} => Outcome(q) = "ok"
                /\ q.code = 404 => Outcome(q) = "missing"
                /\ q.code = 409 => Outcome(q) = "exists"
                /\ q.code \in {400, 422} => Outcome(q) = "refused"
                /\ q.code = 500 => Outcome(q) = "error"
           /\ Listing(q) # {} => q.op = "list"
           /\ q.at = 0 /\ q.code # 200 => Listing(q) = {}
  BY DEF Outcome, Listing

LEMMA NoListing == ASSUME NEW q, q.op # "list" PROVE Listing(q) = {}
  BY DEF Listing

LEMMA ClaimIsThere ==
    ASSUME NEW c, NEW n, NEW org, ClaimOK(c, n, org)
    PROVE  c # NoClaim
<1>1. "labels" \in DOMAIN c
  BY DEF ClaimOK, ForeignClaim
<1>2. "labels" \notin DOMAIN NoClaim
  BY DEF NoClaim
<1>3. QED
  BY <1>1, <1>2

\* What holds a name.
LEMMA HeldAt ==
    /\ DOMAIN held = Names
    /\ \A n \in Names :
         /\ held[n] \in {"free", "volume", "other"}
         /\ held[n] = "free" <=> pvcs[n] = NoClaim
         /\ held[n] = "volume" <=> Findable(n)
  BY DEF held, Findable

LEMMA HeldSame ==
    ASSUME UNCHANGED pvcs PROVE UNCHANGED held /\ UNCHANGED doomed
  BY DEF held, doomed, Findable, Live

\* A step that changes what holds one name.
LEMMA HeldMoves ==
    ASSUME NEW n \in Names, DOMAIN pvcs = Names, NEW c, pvcs' = [pvcs EXCEPT ![n] = c]
    PROVE  LET h == IF c = NoClaim THEN "free"
                    ELSE IF isDCMManagedPVC(c, n) THEN "volume" ELSE "other"
           IN  /\ held' = [held EXCEPT ![n] = h]
               /\ doomed' = (doomed \ {n}) \cup
                     {m \in {n} : c # NoClaim /\ c.terminating}
<1>1. /\ pvcs'[n] = c
      /\ \A m \in Names \ {n} : pvcs'[m] = pvcs[m]
  OBVIOUS
<1>2. held' = [m \in Names |-> IF pvcs'[m] = NoClaim THEN "free"
                      ELSE IF isDCMManagedPVC(pvcs'[m], m) THEN "volume" ELSE "other"]
  BY DEF held, Findable
<1>3. held = [m \in Names |-> IF pvcs[m] = NoClaim THEN "free"
                      ELSE IF isDCMManagedPVC(pvcs[m], m) THEN "volume" ELSE "other"]
  BY DEF held, Findable
<1>4. doomed' = {m \in Names : pvcs'[m] # NoClaim /\ pvcs'[m].terminating}
  BY DEF doomed, Live
<1>5. doomed = {m \in Names : pvcs[m] # NoClaim /\ pvcs[m].terminating}
  BY DEF doomed, Live
<1>6. QED
  BY <1>1, <1>2, <1>3, <1>4, <1>5

-----------------------------------------------------------------------------
LEMMA InitMaps == Init => Repository!Init
<1> SUFFICES ASSUME Init PROVE Repository!Init
  OBVIOUS
<1>1. IInv
  BY InitOK
<1>2. PICK old \in 0..Len(Stored) :
         /\ origin = [u \in 1..old |-> {Stored[u]}]
         /\ pvcs = [n \in Names |->
              IF \E u \in 1..old : InstanceId(Stored[u]) = n
              THEN LET u == CHOOSE u \in 1..old : InstanceId(Stored[u]) = n
                   IN  buildPVC(Stored[u], u)
              ELSE NoClaim]
  BY DEF Init
<1>3. ASSUME NEW n \in Names, pvcs[n] # NoClaim
      PROVE  isDCMManagedPVC(pvcs[n], n) /\ pvcs[n].terminating = FALSE
  <2>1. PICK u \in 1..old : pvcs[n] = buildPVC(Stored[u], u)
    BY <1>2, <1>3
  <2>2. ClaimOK(pvcs[n], n, origin)
    BY <1>1, <1>3 DEF IInv, ClusterOK, NamespaceOK
  <2>3. origin[pvcs[n].uid] # {}
    BY <1>2, <2>2 DEF ClaimOK
  <2>4. isDCMManagedPVC(pvcs[n], n)
    BY <2>2, <2>3, MadeIsManaged DEF ClaimOK
  <2>5. QED
    BY <2>1, <2>4 DEF buildPVC
<1>4. held \in [Names -> {"free", "volume"}]
  BY <1>3 DEF held, Findable
<1>5. doomed = {}
  BY <1>3 DEF doomed, Live
<1>6. calls = [r \in Requests |-> Repository!Idle]
  <2>1. CallOf(NewRequest) = Repository!Idle
    <3>1. /\ NewRequest.op = None /\ NewRequest.id = None
          /\ (NewRequest.op = "delete" /\ NewRequest.uid # 0) = FALSE
          /\ Listing(NewRequest) = {} /\ Outcome(NewRequest) = None
      BY OutcomeOf DEF NewRequest
    <3>2. CallOf(NewRequest) =
            [op |-> None, id |-> None, found |-> FALSE, list |-> {}, answer |-> None]
      BY <3>1 DEF CallOf
    <3>3. QED
      BY <3>2 DEF Repository!Idle, Repository!Asked
  <2>2. QED
    BY <2>1 DEF calls, Init
<1>7. QED
  BY <1>4, <1>5, <1>6 DEF Repository!Init

-----------------------------------------------------------------------------
(* Requests that are answered.                                             *)

\* The requests q and q2 are the same call but for its answer.
SameCall(q, q2) ==
    /\ q2.op = q.op /\ q2.id = q.id /\ Listing(q2) = Listing(q)
    /\ q2.op = "delete" => q2.uid = q.uid

LEMMA SameCallMaps ==
    ASSUME NEW q, NEW q2, SameCall(q, q2)
    PROVE  CallOf(q2) = [CallOf(q) EXCEPT !.answer = Outcome(q2)]
<1>1. (q2.op = "delete" /\ q2.uid # 0) = (q.op = "delete" /\ q.uid # 0)
  BY DEF SameCall
<1>2. CallOf(q2) = [op |-> q.op, id |-> q.id, found |-> q.op = "delete" /\ q.uid # 0,
                    list |-> Listing(q), answer |-> Outcome(q2)]
  BY <1>1, Zenon DEF CallOf, SameCall
<1>3. QED
  BY <1>2 DEF CallOf

LEMMA AnswerIsWord ==
    ASSUME NEW q, q.pc = "done" PROVE Outcome(q) # None
  BY DEF Outcome

\* A request that is answered answers its call.
LEMMA AnswerMaps ==
    ASSUME NEW r \in Requests, Moved(r), SameCall(req[r], req'[r]),
           req[r].pc # "done", req'[r].pc = "done"
    PROVE  /\ Repository!Answer(r, Outcome(req'[r]))
           /\ calls[r].answer = None /\ calls'[r] # calls[r]
<1>1. calls[r] = CallOf(req[r]) /\ calls' = [calls EXCEPT ![r] = CallOf(req'[r])]
  BY CallsMove
<1>2. CallOf(req'[r]) = [calls[r] EXCEPT !.answer = Outcome(req'[r])]
  BY <1>1, SameCallMaps
<1>3. calls[r].answer = None
  BY <1>1, CallFields, OutcomeOf
<1>4. Repository!Answer(r, Outcome(req'[r]))
  BY <1>1, <1>2 DEF Repository!Answer
<1>5. calls'[r].answer # None
  BY AnswerIsWord, CallFields, CallsMove
<1>6. QED
  BY <1>3, <1>4, <1>5

\* The store's Answer, which shows nothing new.
LEMMA StoreAnswers ==
    ASSUME IInv, NEW r \in Requests, NEW code, code # 200, Answer(r, code), req[r].pc # "done"
    PROVE  /\ Moved(r) /\ SameCall(req[r], req'[r])
           /\ req'[r].pc = "done" /\ req'[r].code = code
<1>1. /\ Moved(r) /\ Keeps(req[r], req'[r])
      /\ req'[r].pc = "done" /\ req'[r].code = code
  BY AnswerFields
<1>2. req[r].code # 200
  BY DEF IInv, RequestOK, PhaseOK, Fresh
<1>3. Listing(req'[r]) = Listing(req[r])
  <2> DEFINE q == req[r]
             q2 == req'[r]
  <2>1. /\ q2.op = q.op /\ q2.at = q.at /\ q2.snap = q.snap /\ q2.items = q.items
        /\ q.code # 200 /\ q2.code # 200
    BY <1>1, <1>2 DEF Keeps
  <2>2. ShownIds(q2) = ShownIds(q)
    BY <2>1 DEF ShownIds
  <2> HIDE DEF q, q2
  <2>3. Listing(q2) = Listing(q)
    BY <2>1, <2>2 DEF Listing
  <2>4. QED
    BY <2>3 DEF q, q2
<1>4. QED
  BY <1>1, <1>3 DEF SameCall, Keeps

LEMMA RefuseMaps ==
    ASSUME IInv, NEW r \in Requests, req[r].op = "create", req[r].pc # "done",
           Answer(r, 400) \/ Answer(r, 422), UNCHANGED pvcs
    PROVE  Repository!Step(r)
<1>1. /\ Moved(r) /\ SameCall(req[r], req'[r])
      /\ req'[r].pc = "done" /\ req'[r].code \in {400, 422}
  BY StoreAnswers
<1>2. /\ Repository!Answer(r, "refused") /\ calls[r].answer = None /\ calls'[r] # calls[r]
      /\ calls[r].op = "create"
  BY <1>1, AnswerMaps, OutcomeOf, CallFields, CallsMove
<1>3. QED
  BY <1>2, HeldSame DEF Repository!Step, Repository!Refuse

LEMMA ExistsMaps ==
    ASSUME IInv, NEW r \in Requests, CreatePVCExists(r)
    PROVE  Repository!Step(r)
<1>1. /\ Answer(r, 409) /\ UNCHANGED pvcs /\ req[r].op = "create" /\ req[r].pc # "done"
      /\ req[r].id \in Names /\ pvcs[req[r].id] # NoClaim
  BY ErrorCodes, PhaseFacts DEF CreatePVCExists
<1>2. /\ Moved(r) /\ SameCall(req[r], req'[r])
      /\ req'[r].pc = "done" /\ req'[r].code = 409
  BY <1>1, StoreAnswers
<1>3. /\ Repository!Answer(r, "exists") /\ calls[r].answer = None /\ calls'[r] # calls[r]
      /\ calls[r].op = "create" /\ calls[r].id = req[r].id
  BY <1>1, <1>2, AnswerMaps, OutcomeOf, CallFields, CallsMove
<1>4. held[req[r].id] # "free"
  BY <1>1, HeldAt
<1>5. QED
  BY <1>1, <1>3, <1>4, HeldSame DEF Repository!Step, Repository!Exists

\* Whatever fails without effect.
LEMMA FailMaps ==
    ASSUME IInv, NEW r \in Requests,
           \/ CreateCallFails(r) \/ FindCallFails(r) \/ DeleteCallFails(r) \/ ListCallFails(r)
    PROVE  Repository!Step(r)
<1>1. Answer(r, 500) /\ UNCHANGED pvcs /\ req[r].op # None /\ req[r].pc # "done"
  BY ErrorCodes, PhaseFacts DEF CreateCallFails, FindCallFails, DeleteCallFails, ListCallFails
<1>2. /\ Moved(r) /\ SameCall(req[r], req'[r])
      /\ req'[r].pc = "done" /\ req'[r].code = 500
  BY <1>1, StoreAnswers
<1>3. /\ Repository!Answer(r, "error") /\ calls[r].answer = None /\ calls'[r] # calls[r]
      /\ calls[r].op # None
  BY <1>1, <1>2, AnswerMaps, OutcomeOf, CallFields, CallsMove
<1>4. QED
  BY <1>1, <1>3, HeldSame DEF Repository!Step, Repository!Fail

LEMMA MissingMaps ==
    ASSUME IInv, NEW r \in Requests, FindPVCMissing(r)
    PROVE  Repository!Step(r)
<1>1. /\ Answer(r, 404) /\ UNCHANGED pvcs /\ req[r].op \in {"get", "delete"}
      /\ req[r].pc # "done" /\ req[r].id \in Names /\ ~Findable(req[r].id) /\ req[r].uid = 0
  BY ErrorCodes, PhaseFacts DEF FindPVCMissing, Fresh
<1>2. /\ Moved(r) /\ SameCall(req[r], req'[r])
      /\ req'[r].pc = "done" /\ req'[r].code = 404
  BY <1>1, StoreAnswers
<1>3. /\ Repository!Answer(r, "missing") /\ calls[r].answer = None /\ calls'[r] # calls[r]
      /\ calls[r].op \in {"get", "delete"} /\ calls[r].id = req[r].id /\ ~calls[r].found
  <2>1. Repository!Answer(r, "missing") /\ calls[r].answer = None /\ calls'[r] # calls[r]
    BY <1>1, <1>2, AnswerMaps, OutcomeOf
  <2>2. calls[r] = CallOf(req[r])
    BY <1>2, CallsMove
  <2>3. QED
    BY <1>1, <2>1, <2>2, CallFields
<1>4. held[req[r].id] # "volume"
  BY <1>1, HeldAt
<1>5. QED
  BY <1>1, <1>3, <1>4, HeldSame DEF Repository!Step, Repository!Get, Repository!DeleteFind

-----------------------------------------------------------------------------
(* Requests that arrive.                                                   *)

LEMMA NewCallMaps ==
    ASSUME NEW q, q.uid = 0, q.at = 0, q.code # 200
    PROVE  CallOf(q) = Repository!Asked(q.op, q.id, Outcome(q))
<1>1. (q.op = "delete" /\ q.uid # 0) = FALSE /\ Listing(q) = {}
  BY OutcomeOf
<1>2. QED
  BY <1>1, Zenon DEF CallOf, Repository!Asked

\* What may become of a request that arrives.
Arrives(q) ==
    \/ q.pc # "done" /\ q.op \in {"create", "get", "delete"} /\ q.id \in Names
    \/ q.pc = "done" /\ q.code = 400 /\ q.op = "create" /\ q.id \in Ids
    \/ q.pc # "done" /\ q.op = "list" /\ q.id = None
    \/ q.pc = "done" /\ q.code = 400 /\ q.op = "list" /\ q.id = None

LEMMA ArrivalMaps ==
    ASSUME IInv, NEW r \in Requests, Moved(r), UNCHANGED pvcs, req[r].pc = "new",
           req'[r].uid = 0, req'[r].at = 0, req'[r].code # 200, Arrives(req'[r])
    PROVE  Repository!Step(r)
<1> DEFINE q == req'[r]
           a == Outcome(q)
           call == Repository!Asked(q.op, q.id, a)
<1>1. /\ calls[r].answer = None /\ calls[r].op = None
      /\ calls'[r] = call /\ \A d \in Requests \ {r} : calls'[d] = calls[d]
  <2>1. req[r].op = None /\ req[r].pc # "done"
    BY PhaseFacts
  <2>2. CallOf(q) = call
    BY NewCallMaps
  <2>3. calls[r] = CallOf(req[r])
    BY CallsMove
  <2>4. QED
    BY <2>1, <2>2, <2>3, CallsMove, CallFields, OutcomeOf
<1>2. q.pc # "done" => a = None
  BY OutcomeOf
<1>3. q.pc = "done" /\ q.code = 400 => a = "refused"
  BY OutcomeOf
<1> HIDE DEF q, a
<1>4. \/ \E op \in {"create", "get", "delete"}, id \in Names :
             call = Repository!Asked(op, id, None)
      \/ \E id \in Ids :
             call = Repository!Asked("create", id, "refused")
      \/ \E b \in {None, "refused"} :
             call = Repository!Asked("list", None, b)
  <2>1. CASE q.pc # "done" /\ q.op \in {"create", "get", "delete"} /\ q.id \in Names
    BY <1>2, <2>1
  <2>2. CASE q.pc = "done" /\ q.code = 400 /\ q.op = "create" /\ q.id \in Ids
    BY <1>3, <2>2
  <2>3. CASE q.pc # "done" /\ q.op = "list" /\ q.id = None
    BY <1>2, <2>3
  <2>4. CASE q.pc = "done" /\ q.code = 400 /\ q.op = "list" /\ q.id = None
    BY <1>3, <2>4
  <2>5. QED
    BY <2>1, <2>2, <2>3, <2>4 DEF Arrives, q
<1>5. Repository!Call(r)
  BY <1>1, <1>4, HeldSame DEF Repository!Call
<1>6. calls'[r].op # None
  <2>1. q.op \in {"create", "get", "delete", "list"}
    BY DEF Arrives, q
  <2>2. calls'[r].op = q.op
    BY <1>1 DEF Repository!Asked
  <2>3. QED
    BY <2>1, <2>2
<1>7. QED
  BY <1>1, <1>5, <1>6 DEF Repository!Step

LEMMA CreateVolumeMaps ==
    ASSUME IInv, NEW r \in Requests, NEW in \in CreateInputs, CreateVolume(r, in)
    PROVE  Repository!Step(r)
<1> DEFINE q == req'[r]
<1>1. DOMAIN req = Requests /\ req[r].pc = "new" /\ UNCHANGED pvcs
  BY DEF IInv, CreateVolume
<1>2. /\ Moved(r) /\ q.op = "create" /\ q.id = InstanceId(in) /\ q.uid = 0 /\ q.at = 0
      /\ \/ q.pc = "done" /\ q.code = 400
         \/ q.pc # "done" /\ q.code = 0 /\ ValidCreate(in)
  BY <1>1, ErrorCodes DEF CreateVolume, Moved, NewRequest
<1> HIDE DEF q
<1>3. Arrives(q)
  BY <1>2, InputTypes DEF Arrives, Ids
<1>4. QED
  BY <1>1, <1>2, <1>3, ArrivalMaps DEF q

LEMMA FindStartsMaps ==
    ASSUME IInv, NEW r \in Requests, NEW id \in Names, GetVolume(r, id) \/ DeleteVolume(r, id)
    PROVE  Repository!Step(r)
<1> DEFINE q == req'[r]
<1>1. /\ DOMAIN req = Requests /\ req[r].pc = "new" /\ UNCHANGED pvcs
      /\ Fresh(req[r]) /\ DOMAIN req[r] = DOMAIN NewRequest
  BY PhaseFacts DEF IInv, GetVolume, DeleteVolume
<1>2. /\ Moved(r) /\ q.op \in {"get", "delete"} /\ q.id = id /\ q.uid = 0 /\ q.at = 0
      /\ q.pc = "find" /\ q.code = 0
  BY <1>1 DEF GetVolume, DeleteVolume, Moved, NewRequest, Fresh
<1> HIDE DEF q
<1>3. Arrives(q)
  BY <1>2 DEF Arrives
<1>4. QED
  BY <1>1, <1>2, <1>3, ArrivalMaps DEF q

LEMMA ListStartsMaps ==
    ASSUME IInv, NEW r \in Requests, ListBadToken(r) \/ \E m \in PageSizes : ListVolumes(r, m)
    PROVE  Repository!Step(r)
<1> DEFINE q == req'[r]
<1>1. /\ DOMAIN req = Requests /\ req[r].pc = "new" /\ UNCHANGED pvcs /\ req[r].id = None
      /\ Fresh(req[r]) /\ DOMAIN req[r] = DOMAIN NewRequest
  BY PhaseFacts DEF IInv, ListBadToken, ListVolumes
<1>2. /\ Moved(r) /\ q.op = "list" /\ q.id = None /\ q.uid = 0 /\ q.at = 0
      /\ \/ q.pc = "done" /\ q.code = 400
         \/ q.pc = "list" /\ q.code = 0
  BY <1>1, ErrorCodes DEF ListBadToken, ListVolumes, Moved, NewRequest, Fresh
<1> HIDE DEF q
<1>3. Arrives(q)
  BY <1>2 DEF Arrives
<1>4. QED
  BY <1>1, <1>2, <1>3, ArrivalMaps DEF q

-----------------------------------------------------------------------------
(* Requests that are served in between.                                    *)

\* The repository sees nothing of a step that keeps the call unanswered.
LEMMA HiddenStep ==
    ASSUME NEW r \in Requests, Moved(r), UNCHANGED pvcs, SameCall(req[r], req'[r]),
           req[r].pc # "done", req'[r].pc # "done"
    PROVE  UNCHANGED Repository!vars
<1>1. Outcome(req'[r]) = None /\ Outcome(req[r]) = None
  BY OutcomeOf
<1>2. CallOf(req'[r]) = [CallOf(req[r]) EXCEPT !.answer = None]
  BY <1>1, SameCallMaps
<1>3. CallOf(req[r]).answer = None /\ calls[r] = CallOf(req[r])
  BY <1>1, CallFields, CallsMove
<1>4. CallOf(req'[r]) = CallOf(req[r])
  BY <1>2, <1>3 DEF CallOf
<1>5. calls' = calls
  BY <1>3, <1>4, CallsMove DEF calls
<1>6. QED
  BY <1>5, HeldSame DEF Repository!vars

LEMMA ClassCheckMaps ==
    ASSUME IInv, NEW r \in Requests, validateStorageClass(r)
    PROVE  Repository!Step(r) \/ UNCHANGED Repository!vars
<1>1. /\ req[r].op = "create" /\ req[r].pc = "class" /\ UNCHANGED pvcs
      /\ DOMAIN req = Requests /\ DOMAIN req[r] = DOMAIN NewRequest
  BY PhaseFacts DEF validateStorageClass, IInv
<1>2. CASE req' = [req EXCEPT ![r].pc = "create"]
  <2> DEFINE q == req[r]
             q2 == req'[r]
  <2>1. /\ Moved(r) /\ q2.pc = "create" /\ q2.op = "create" /\ q.op = "create"
        /\ q2.id = q.id
    BY <1>1, <1>2 DEF Moved, NewRequest
  <2> HIDE DEF q, q2
  <2>2. Listing(q2) = Listing(q)
    BY <2>1, NoListing
  <2>3. SameCall(q, q2)
    BY <2>1, <2>2 DEF SameCall
  <2>4. QED
    BY <1>1, <2>1, <2>3, HiddenStep DEF q, q2
<1>3. CASE Answer(r, 400) \/ Answer(r, 422)
  BY <1>1, <1>3, RefuseMaps
<1>4. QED
  BY <1>2, <1>3, ErrorCodes DEF validateStorageClass

LEMMA GetFoundMaps ==
    ASSUME IInv, NEW r \in Requests, GetFound(r)
    PROVE  Repository!Step(r)
<1> DEFINE q == req[r]
           q2 == req'[r]
<1>1. /\ q.op = "get" /\ q.pc = "find" /\ UNCHANGED pvcs /\ q.id \in Names /\ Findable(q.id)
      /\ AnswerVolume(r, 200, pvcs[q.id])
  BY PhaseFacts DEF GetFound
<1>2. Moved(r) /\ q2.pc = "done" /\ q2.code = 200 /\ q2.op = "get" /\ q2.id = q.id
  BY <1>1, AnswerVolumeFields
<1> HIDE DEF q, q2
<1>3. SameCall(q, q2)
  <2>1. Listing(q) = {} /\ Listing(q2) = {}
    BY <1>1, <1>2, NoListing
  <2>2. QED
    BY <1>1, <1>2, <2>1 DEF SameCall
<1>4. Repository!Answer(r, "ok") /\ calls[r].answer = None /\ calls'[r] # calls[r]
  BY <1>1, <1>2, <1>3, AnswerMaps, OutcomeOf DEF q, q2
<1>5. calls[r].op = "get" /\ calls[r].id = q.id
  BY <1>1, <1>2, CallsMove, CallFields DEF q
<1>6. held[q.id] = "volume"
  BY <1>1, HeldAt
<1>7. QED
  BY <1>1, <1>4, <1>5, <1>6, HeldSame DEF Repository!Step, Repository!Get

LEMMA DeleteFoundMaps ==
    ASSUME IInv, NEW r \in Requests, DeleteFound(r)
    PROVE  Repository!Step(r)
<1> DEFINE q == req[r]
           q2 == req'[r]
<1>1. /\ q.op = "delete" /\ q.pc = "find" /\ UNCHANGED pvcs /\ q.id \in Names /\ Findable(q.id)
      /\ q.uid = 0 /\ DOMAIN req = Requests /\ DOMAIN q = DOMAIN NewRequest
  BY PhaseFacts DEF DeleteFound, Fresh, IInv
<1>2. pvcs[q.id].uid # 0
  <2>1. ClaimOK(pvcs[q.id], q.id, origin) /\ origin \in Seq(SUBSET CreateInputs)
    BY <1>1 DEF IInv, ClusterOK, NamespaceOK, Findable
  <2>2. QED
    BY <2>1 DEF ClaimOK
<1>3. Moved(r) /\ q2.pc = "delete" /\ q2.op = "delete" /\ q2.id = q.id /\ q2.uid # 0
  BY <1>1, <1>2 DEF DeleteFound, Moved, NewRequest
<1> HIDE DEF q, q2
<1>4. calls[r] = CallOf(q) /\ calls' = [calls EXCEPT ![r] = CallOf(q2)] /\ calls'[r] = CallOf(q2)
  BY <1>3, CallsMove DEF q, q2
<1>5. /\ (q.op = "delete" /\ q.uid # 0) = FALSE /\ (q2.op = "delete" /\ q2.uid # 0) = TRUE
      /\ Listing(q) = {} /\ Listing(q2) = {} /\ Outcome(q) = None /\ Outcome(q2) = None
  BY <1>1, <1>3, OutcomeOf
<1>6. /\ CallOf(q) = [op |-> "delete", id |-> q.id, found |-> FALSE,
                      list |-> {}, answer |-> None]
      /\ CallOf(q2) = [op |-> "delete", id |-> q.id, found |-> TRUE,
                       list |-> {}, answer |-> None]
  BY <1>1, <1>3, <1>5 DEF CallOf
<1>7. /\ calls[r].op = "delete" /\ calls[r].id = q.id /\ calls[r].answer = None
      /\ ~calls[r].found /\ calls'[r] # calls[r]
      /\ calls' = [calls EXCEPT ![r].found = TRUE]
  <2>1. /\ calls[r].op = "delete" /\ calls[r].id = q.id /\ calls[r].answer = None
        /\ calls[r].found = FALSE /\ calls'[r].found = TRUE
    BY <1>4, <1>6
  <2>2. CallOf(q2) = [calls[r] EXCEPT !.found = TRUE]
    <3>1. CallOf(q) = Seeking(q.id) /\ CallOf(q2) = Deleting(q.id)
      BY <1>6 DEF Seeking, Deleting
    <3>2. CallOf(q2) = Finds(CallOf(q))
      BY <3>1, FoundSet
    <3>3. QED
      BY <1>4, <3>2 DEF Finds
  <2>3. calls'[r] # calls[r]
    BY <2>1
  <2>4. calls' = [calls EXCEPT ![r].found = TRUE]
    BY <1>4, <2>2
  <2>5. QED
    BY <2>1, <2>3, <2>4
<1>8. held[q.id] = "volume"
  BY <1>1, HeldAt
<1>9. Repository!DeleteFind(r)
  BY <1>1, <1>7, <1>8, HeldSame DEF Repository!DeleteFind
<1>10. QED
  BY <1>7, <1>9 DEF Repository!Step

\* What marking the holder of a name does to held and doomed.
LEMMA MarksMap ==
    ASSUME IInv, NEW n \in Names, Terminate(n)
    PROVE  /\ UNCHANGED held
           /\ doomed' = doomed \cup ({n} \ {m \in Names : held[m] = "free"})
<1>1. DOMAIN pvcs = Names /\ DOMAIN held = Names /\ doomed \subseteq Names
  BY HeldAt DEF IInv, ClusterOK, NamespaceOK, doomed, Live
<1>2. CASE pvcs[n] = NoClaim
  <2>1. held[n] = "free" /\ UNCHANGED pvcs
    BY <1>2, HeldAt DEF Terminate
  <2>2. QED
    BY <2>1, HeldSame
<1>3. CASE pvcs[n] # NoClaim
  <2> DEFINE c == [pvcs[n] EXCEPT !.terminating = TRUE]
  <2>1. ClaimOK(pvcs[n], n, origin)
    BY <1>3 DEF IInv, ClusterOK, NamespaceOK
  <2>2. /\ DOMAIN c = DOMAIN ForeignClaim(<<>>, 0) /\ c.terminating = TRUE
        /\ c.labels = pvcs[n].labels
    BY <2>1 DEF ClaimOK, ForeignClaim
  <2>3. pvcs' = [pvcs EXCEPT ![n] = c]
    BY <1>3 DEF Terminate
  <2> HIDE DEF c
  <2>4. c # NoClaim
    <3>1. "labels" \in DOMAIN c /\ "labels" \notin DOMAIN NoClaim
      BY <2>2 DEF ForeignClaim, NoClaim
    <3>2. QED
      BY <3>1
  <2>5. isDCMManagedPVC(c, n) <=> isDCMManagedPVC(pvcs[n], n)
    BY <2>2 DEF isDCMManagedPVC, Selected, HasLabel
  <2> DEFINE h == IF c = NoClaim THEN "free"
                  ELSE IF isDCMManagedPVC(c, n) THEN "volume" ELSE "other"
  <2>6. /\ held' = [held EXCEPT ![n] = h]
        /\ doomed' = (doomed \ {n}) \cup {m \in {n} : c # NoClaim /\ c.terminating}
    BY <1>1, <2>3, HeldMoves
  <2>7. h = held[n] /\ held[n] # "free"
    BY <1>3, <2>4, <2>5, HeldAt DEF held, Findable
  <2> HIDE DEF h
  <2>8. held' = held
    <3>1. held = [m \in Names |-> held[m]]
      BY DEF held
    <3>2. QED
      BY <2>6, <2>7, <3>1
  <2>9. doomed' = doomed \cup {n}
    BY <1>1, <2>2, <2>4, <2>6
  <2>10. QED
    BY <2>7, <2>8, <2>9
<1>4. QED
  BY <1>2, <1>3

LEMMA DeleteMaps ==
    ASSUME IInv, NEW r \in Requests, DeletePVC(r) \/ DeletePVCUnanswered(r)
    PROVE  Repository!Step(r)
<1>1. /\ req[r].op = "delete" /\ req[r].pc = "delete" /\ req[r].id \in Names
      /\ req[r].uid # 0 /\ Terminate(req[r].id)
      /\ Answer(r, 204) \/ Answer(r, 500)
  <2>1. origin \in Seq(SUBSET CreateInputs)
    BY DEF IInv, ClusterOK
  <2>2. req[r].pc = "delete"
    BY DEF DeletePVC, DeletePVCUnanswered
  <2>3. req[r].op = "delete" /\ req[r].id \in Names /\ req[r].uid # 0
    BY <2>1, <2>2, PhaseFacts
  <2>4. QED
    BY <2>2, <2>3, ErrorCodes DEF DeletePVC, DeletePVCUnanswered
<1>2. /\ Moved(r) /\ SameCall(req[r], req'[r])
      /\ req'[r].pc = "done" /\ req'[r].code \in {204, 500}
  BY <1>1, StoreAnswers
<1>3. /\ Repository!Answer(r, Outcome(req'[r])) /\ Outcome(req'[r]) \in {"ok", "error"}
      /\ calls[r].answer = None /\ calls'[r] # calls[r]
  BY <1>1, <1>2, AnswerMaps, OutcomeOf
<1>4. calls[r].op = "delete" /\ calls[r].id = req[r].id /\ calls[r].found
  <2>1. calls[r] = CallOf(req[r])
    BY <1>2, CallsMove
  <2>2. QED
    BY <1>1, <2>1, CallFields
<1>5. UNCHANGED held /\ doomed' = doomed \cup ({req[r].id} \ {m \in Names : held[m] = "free"})
  BY <1>1, MarksMap
<1>6. Repository!Delete(r)
  BY <1>3, <1>4, <1>5 DEF Repository!Delete
<1>7. QED
  BY <1>3, <1>4, <1>6 DEF Repository!Step

LEMMA CreateMaps ==
    ASSUME IInv, NEW r \in Requests, CreatePVC(r) \/ CreatePVCUnanswered(r)
    PROVE  Repository!Step(r)
<1> DEFINE q == req[r]
           q2 == req'[r]
           c == buildPVC(q.in, Len(origin) + 1)
<1>1. /\ q.pc = "create" /\ q.op = "create" /\ q.id \in Names /\ pvcs[q.id] = NoClaim
      /\ StorePVC(r) /\ DOMAIN pvcs = Names
  BY PhaseFacts DEF CreatePVC, CreatePVCUnanswered, IInv, ClusterOK, NamespaceOK
<1>2. /\ Moved(r) /\ q2.pc = "done" /\ q2.op = q.op /\ q2.id = q.id /\ q2.code \in {201, 500}
  <2>1. CASE CreatePVC(r)
    <3>1. AnswerVolume(r, 201, c)
      BY <2>1 DEF CreatePVC
    <3>2. QED
      BY <3>1, AnswerVolumeFields
  <2>2. CASE CreatePVCUnanswered(r)
    BY <2>2, ErrorCodes, PhaseFacts DEF IInv, CreatePVCUnanswered, Moved, NewRequest
  <2>3. QED
    BY <2>1, <2>2
<1>3. ClaimOK(c, q.id, origin') /\ isDCMManagedPVC(c, q.id)
  BY <1>1, Stores
<1>4. pvcs' = [pvcs EXCEPT ![q.id] = c] /\ c.terminating = FALSE
  BY <1>1 DEF StorePVC, buildPVC
<1> HIDE DEF q, q2, c
<1>5. /\ held' = [held EXCEPT ![q.id] = "volume"]
      /\ UNCHANGED doomed /\ held[q.id] = "free"
  <2>1. c # NoClaim
    BY <1>3, ClaimIsThere
  <2>2. q.id \notin doomed /\ held[q.id] = "free"
    BY <1>1, HeldAt DEF doomed, Live
  <2> DEFINE h == IF c = NoClaim THEN "free"
                  ELSE IF isDCMManagedPVC(c, q.id) THEN "volume" ELSE "other"
  <2>3. /\ held' = [held EXCEPT ![q.id] = h]
        /\ doomed' = (doomed \ {q.id}) \cup {m \in {q.id} : c # NoClaim /\ c.terminating}
    BY <1>1, <1>4, HeldMoves
  <2>4. h = "volume"
    BY <1>3, <2>1
  <2> HIDE DEF h
  <2>5. QED
    BY <1>4, <2>2, <2>3, <2>4
<1>6. SameCall(q, q2)
  <2>1. Listing(q) = {} /\ Listing(q2) = {}
    BY <1>1, <1>2, NoListing
  <2>2. QED
    BY <1>1, <1>2, <2>1 DEF SameCall
<1>7. /\ Repository!Answer(r, Outcome(q2)) /\ Outcome(q2) \in {"ok", "error"}
      /\ calls[r].answer = None /\ calls'[r] # calls[r]
  BY <1>1, <1>2, <1>6, AnswerMaps, OutcomeOf DEF q, q2
<1>8. calls[r].op = "create" /\ calls[r].id = q.id
  BY <1>1, <1>2, CallsMove, CallFields DEF q
<1>9. Repository!Create(r)
  BY <1>5, <1>7, <1>8 DEF Repository!Create
<1>10. QED
  BY <1>7, <1>8, <1>9 DEF Repository!Step

-----------------------------------------------------------------------------
(* Listings.                                                               *)

\* The volumes of the repository are those that a listing of the cluster shows.
LEMMA VolumeNamesOfCluster ==
    Repository!VolumeNames = Pick(NameOrder, Own(pvcs, Matching(pvcs, 0)))
<1>1. \A k \in DOMAIN NameOrder : NameOrder[k] \in Names /\ k > 0
  BY PositionSets DEF Names
<1>2. {k \in DOMAIN NameOrder : held[NameOrder[k]] = "volume"} = Own(pvcs, Matching(pvcs, 0))
  BY <1>1, HeldAt DEF Own, Matching, Findable, isDCMManagedPVC
<1>3. QED
  BY <1>2, SamePick DEF Repository!VolumeNames

LEMMA ListPageMaps ==
    ASSUME IInv, IInv', NEW r \in Requests, ListPage(r)
    PROVE  Repository!Step(r) \/ UNCHANGED Repository!vars
<1> DEFINE q == req[r]
           q2 == req'[r]
           shows == {Pick(NameOrder, Own(q2.snap, Matching(q2.snap, 0)))}
<1>1. q.op = "list" /\ q.pc = "list" /\ q.code = 0 /\ ListOK(q, origin) /\ UNCHANGED pvcs
  BY PhaseFacts DEF ListPage
<1>2. /\ Moved(r) /\ q2.op = "list" /\ q2.id = q.id
      /\ q2.snap = (IF q.at = 0 THEN pvcs ELSE q.snap)
      /\ \/ q2.at = 0 /\ q2.pc = "done" /\ q2.code = 200
         \/ q2.at # 0 /\ q2.pc = "list" /\ q2.code = 0
  <2> DEFINE snap == IF q.at = 0 THEN pvcs ELSE q.snap
             page == PageOf(snap, q.at, q.size)
             next == NextToken(snap, page, q.size)
  <2>1. /\ Moved(r) /\ q2.op = q.op /\ q2.id = q.id /\ q2.at = next /\ q2.snap = snap
        /\ q2.pc = (IF next = 0 THEN "done" ELSE "list")
        /\ q2.code = (IF next = 0 THEN 200 ELSE 0)
    BY PageFields
  <2> HIDE DEF next
  <2>2. QED
    BY <1>1, <2>1
<1>3. ListOK(q2, origin')
  BY <1>2 DEF IInv, RequestOK
<1> HIDE DEF q, q2
<1>4. Listing(q2) = shows
  BY <1>2, <1>3, ListingShows
<1>5. /\ calls[r] = CallOf(q) /\ calls' = [calls EXCEPT ![r] = CallOf(q2)]
      /\ Outcome(q) = None /\ Outcome(q2) \in {None, "ok"}
      /\ q2.pc = "done" => Outcome(q2) = "ok"
  BY <1>1, <1>2, CallsMove, OutcomeOf DEF q, q2
<1>6. /\ (q.op = "delete" /\ q.uid # 0) = FALSE /\ (q2.op = "delete" /\ q2.uid # 0) = FALSE
  BY <1>1, <1>2
<1>7. calls[r].op = "list" /\ calls[r].answer = None /\ calls[r].list = Listing(q)
  BY <1>1, <1>5, CallFields
<1>8. CASE q.at = 0
  <2>1. Listing(q) = {}
    BY <1>1, <1>8 DEF Listing
  <2>2. shows = {Repository!VolumeNames}
    BY <1>2, <1>8, VolumeNamesOfCluster
  <2> HIDE DEF shows
  <2>3. CallOf(q2) = [calls[r] EXCEPT !.answer = Outcome(q2), !.list = {Repository!VolumeNames}]
    <3>1. /\ CallOf(q) = ListCall(q.id, {}, None)
          /\ CallOf(q2) = ListCall(q.id, {Repository!VolumeNames}, Outcome(q2))
      BY <1>1, <1>2, <1>4, <1>5, <1>6, <2>1, <2>2 DEF CallOf, ListCall
    <3>2. CallOf(q2) = Shows(CallOf(q), {Repository!VolumeNames}, Outcome(q2))
      BY <3>1, ListCallMoves
    <3>3. QED
      BY <1>5, <3>2 DEF Shows
  <2>4. calls' = [calls EXCEPT ![r].answer = Outcome(q2), ![r].list = {Repository!VolumeNames}]
    BY <1>5, <2>3
  <2>5. calls'[r].list = shows /\ shows # {}
    BY <1>2, <1>4, CallsMove, CallFields DEF q2, shows
  <2>6. Repository!List(r)
    BY <1>1, <1>5, <1>7, <2>1, <2>4, HeldSame DEF Repository!List
  <2>7. QED
    BY <1>7, <2>1, <2>5, <2>6 DEF Repository!Step
<1>9. CASE q.at # 0
  <2>1. Listing(q) = shows
    BY <1>1, <1>2, <1>9, ListingShows
  <2>2. SameCall(q, q2)
    BY <1>1, <1>2, <1>4, <2>1 DEF SameCall
  <2>3. CASE q2.pc = "done"
    <3>1. /\ Repository!Answer(r, "ok") /\ calls'[r] # calls[r]
      BY <1>1, <1>2, <1>5, <2>2, <2>3, AnswerMaps DEF q, q2
    <3>2. Repository!ListReturn(r)
      BY <1>1, <1>7, <2>1, <3>1, HeldSame DEF Repository!ListReturn
    <3>3. QED
      BY <1>7, <3>1, <3>2 DEF Repository!Step
  <2>4. CASE q2.pc # "done"
    BY <1>1, <1>2, <2>2, <2>4, HiddenStep DEF q, q2
  <2>5. QED
    BY <2>3, <2>4
<1>10. QED
  BY <1>8, <1>9

-----------------------------------------------------------------------------
(* Steps of the cluster, and the refinement.                               *)

LEMMA ForeignCreateMaps ==
    ASSUME IInv, NEW n \in Names, NEW labels \in ForeignLabels, ForeignCreate(n, labels)
    PROVE  Repository!Appear(n)
<1> DEFINE c == ForeignClaim(labels, Len(origin) + 1)
           h == IF c = NoClaim THEN "free"
                ELSE IF isDCMManagedPVC(c, n) THEN "volume" ELSE "other"
<1>1. pvcs[n] = NoClaim /\ pvcs' = [pvcs EXCEPT ![n] = c] /\ UNCHANGED req /\ DOMAIN pvcs = Names
  BY DEF ForeignCreate, IInv, ClusterOK, NamespaceOK
<1>2. c.labels = labels /\ c.terminating = FALSE /\ "labels" \in DOMAIN c
  BY DEF ForeignClaim
<1> HIDE DEF c
<1>3. c # NoClaim
  <2>1. "labels" \notin DOMAIN NoClaim
    BY DEF NoClaim
  <2>2. QED
    BY <1>2, <2>1
<1>4. ~isDCMManagedPVC(c, n)
  <2>1. ~isDCMManagedPVC([labels |-> labels], n)
    BY ForeignIsForeign
  <2>2. QED
    BY <1>2, <2>1 DEF isDCMManagedPVC, Selected, HasLabel
<1>5. /\ held' = [held EXCEPT ![n] = h]
      /\ doomed' = (doomed \ {n}) \cup {m \in {n} : c # NoClaim /\ c.terminating}
  BY <1>1, HeldMoves
<1>6. h = "other"
  BY <1>3, <1>4
<1>7. n \notin doomed /\ held[n] = "free"
  BY <1>1, HeldAt DEF doomed, Live
<1> HIDE DEF h
<1>8. UNCHANGED doomed /\ UNCHANGED calls
  BY <1>1, <1>2, <1>5, <1>7 DEF calls
<1>9. QED
  BY <1>5, <1>6, <1>7, <1>8 DEF Repository!Appear

LEMMA ForeignDeleteMaps ==
    ASSUME IInv, NEW n \in Names, ForeignDelete(n)
    PROVE  Repository!Doom(n)
<1>1. Terminate(n) /\ pvcs[n] # NoClaim /\ UNCHANGED req
  BY DEF ForeignDelete, Live
<1>2. held[n] # "free" /\ UNCHANGED calls
  BY <1>1, HeldAt DEF calls
<1>3. /\ UNCHANGED held
      /\ doomed' = doomed \cup ({n} \ {m \in Names : held[m] = "free"})
  BY <1>1, MarksMap
<1>4. QED
  BY <1>2, <1>3 DEF Repository!Doom

\* Binding a claim changes nothing that the repository speaks of.
LEMMA PVCBoundMaps ==
    ASSUME IInv, NEW n \in Names, PVCBound(n)
    PROVE  UNCHANGED Repository!vars
<1> DEFINE c == [pvcs[n] EXCEPT !.phase = "Bound"]
           h == IF c = NoClaim THEN "free"
                ELSE IF isDCMManagedPVC(c, n) THEN "volume" ELSE "other"
<1>1. /\ pvcs[n] # NoClaim /\ pvcs' = [pvcs EXCEPT ![n] = c] /\ UNCHANGED req
      /\ DOMAIN pvcs = Names /\ ClaimOK(pvcs[n], n, origin) /\ ~pvcs[n].terminating
  BY DEF PVCBound, Live, IInv, ClusterOK, NamespaceOK
<1>2. /\ c.labels = pvcs[n].labels /\ c.terminating = pvcs[n].terminating
      /\ "labels" \in DOMAIN c
  BY <1>1 DEF ClaimOK, ForeignClaim
<1> HIDE DEF c
<1>3. c # NoClaim
  <2>1. "labels" \notin DOMAIN NoClaim
    BY DEF NoClaim
  <2>2. QED
    BY <1>2, <2>1
<1>4. isDCMManagedPVC(c, n) <=> isDCMManagedPVC(pvcs[n], n)
  BY <1>2 DEF isDCMManagedPVC, Selected, HasLabel
<1>5. /\ held' = [held EXCEPT ![n] = h]
      /\ doomed' = (doomed \ {n}) \cup {m \in {n} : c # NoClaim /\ c.terminating}
  BY <1>1, HeldMoves
<1>6. h = held[n] /\ held = [m \in Names |-> held[m]]
  BY <1>1, <1>3, <1>4 DEF held, Findable
<1>7. n \notin doomed
  BY <1>1 DEF doomed
<1> HIDE DEF h
<1>8. UNCHANGED held
  BY <1>5, <1>6
<1>9. UNCHANGED doomed /\ UNCHANGED calls
  BY <1>1, <1>2, <1>5, <1>7 DEF calls
<1>10. QED
  BY <1>8, <1>9 DEF Repository!vars

LEMMA PVCRemovedMaps ==
    ASSUME IInv, NEW n \in Names, PVCRemoved(n)
    PROVE  Repository!Vanish(n)
<1>1. /\ n \in doomed /\ pvcs' = [pvcs EXCEPT ![n] = NoClaim] /\ UNCHANGED req
      /\ DOMAIN pvcs = Names
  BY DEF PVCRemoved, doomed, IInv, ClusterOK, NamespaceOK
<1>2. /\ held' = [held EXCEPT ![n] = "free"]
      /\ doomed' = doomed \ {n}
  BY <1>1, HeldMoves
<1>3. QED
  BY <1>1, <1>2 DEF Repository!Vanish, calls

LEMMA NextMaps == IInv /\ IInv' /\ [Next]_vars => [Repository!Next]_(Repository!vars)
<1> SUFFICES ASSUME IInv, IInv', [Next]_vars
             PROVE  [Repository!Next]_(Repository!vars)
  OBVIOUS
<1>1. ASSUME NEW r \in Requests, RequestStep(r)
      PROVE  Repository!Step(r) \/ UNCHANGED Repository!vars
  <2>1. CASE \E in \in CreateInputs : CreateVolume(r, in)
    BY <2>1, CreateVolumeMaps
  <2>2. CASE validateStorageClass(r)
    BY <2>2, ClassCheckMaps
  <2>3. CASE CreatePVCExists(r)
    BY <2>3, ExistsMaps
  <2>4. CASE CreatePVC(r) \/ CreatePVCUnanswered(r)
    BY <2>4, CreateMaps
  <2>5. CASE CreateCallFails(r) \/ FindCallFails(r) \/ DeleteCallFails(r) \/ ListCallFails(r)
    BY <2>5, FailMaps
  <2>6. CASE \E id \in Names : GetVolume(r, id) \/ DeleteVolume(r, id)
    BY <2>6, FindStartsMaps
  <2>7. CASE FindPVCMissing(r)
    BY <2>7, MissingMaps
  <2>8. CASE GetFound(r)
    BY <2>8, GetFoundMaps
  <2>9. CASE DeleteFound(r)
    BY <2>9, DeleteFoundMaps
  <2>10. CASE DeletePVC(r) \/ DeletePVCUnanswered(r)
    BY <2>10, DeleteMaps
  <2>11. CASE ListBadToken(r) \/ \E m \in PageSizes : ListVolumes(r, m)
    BY <2>11, ListStartsMaps
  <2>12. CASE ListPage(r)
    BY <2>12, ListPageMaps
  <2>13. QED
    BY <1>1, <2>1, <2>2, <2>3, <2>4, <2>5, <2>6, <2>7, <2>8, <2>9, <2>10, <2>11, <2>12
    DEF RequestStep
<1>2. CASE ClusterStep
  <2>1. CASE \E n \in Names, labels \in ForeignLabels : ForeignCreate(n, labels)
    BY <2>1, ForeignCreateMaps DEF Repository!Next
  <2>2. CASE \E n \in Names : ForeignDelete(n)
    BY <2>2, ForeignDeleteMaps DEF Repository!Next
  <2>3. CASE \E n \in Names : PVCBound(n)
    BY <2>3, PVCBoundMaps
  <2>4. CASE \E n \in Names : PVCRemoved(n)
    BY <2>4, PVCRemovedMaps DEF Repository!Next
  <2>5. CASE \E c \in Classes : ClassChange(c)
    BY <2>5, HeldSame DEF ClassChange, calls, Repository!vars
  <2>6. QED
    BY <1>2, <2>1, <2>2, <2>3, <2>4, <2>5 DEF ClusterStep
<1>3. CASE UNCHANGED vars
  BY <1>3, HeldSame DEF vars, calls, Repository!vars
<1>4. QED
  BY <1>1, <1>2, <1>3 DEF Next, Repository!Next

\* Handlers and store over a cluster that others change implement the volume
\* repository: each call takes effect in one step, and is answered for it.
THEOREM RepositoryImplemented == Spec => ImplementsRepository
<1>1. Init => Repository!Init
  BY InitMaps
<1>2. IInv /\ IInv' /\ [Next]_vars => [Repository!Next]_(Repository!vars)
  BY NextMaps
<1>3. Spec => []IInv
  BY Invariance
<1>4. QED
  BY <1>1, <1>2, <1>3, PTL DEF Spec, ImplementsRepository, Repository!Spec
================================================================================

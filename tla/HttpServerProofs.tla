--------------------------- MODULE HttpServerProofs ---------------------------
(***************************************************************************)
(* Proofs about the HTTP server, for any calls, requests, ids, schema and  *)
(* request timeout.                                                        *)
(***************************************************************************)
EXTENDS HttpServer, TLAPS

ErrorCodes == {400, 404, 409, 422, 500}

\* Nothing is written and nothing logged.
Blank(q) == q.head = 0 /\ q.body = NoBody /\ q.wrote = FALSE /\ q.log = None

\* One disjunct for each way to have answered: no body, chi's two refusals, a
\* problem report, and the result that the operation's response object carries.
Served(q) ==
    \/ q.body = NoBody /\ q.head \in {200, 204}
    \/ q.body.kind = "text" /\ q.head = 404 /\ q.handler = "NotFound"
    \/ q.body = NoBody /\ q.head = 405 /\ q.handler = "MethodNotAllowed"
    \/ q.body = Problem(q.head) /\ q.head \in ErrorCodes /\ q.ctype = "problem"
    \/ /\ q.handler \in Operations /\ q.head \in DOMAIN ResponseOf(q.handler)
       /\ q.body.kind = ResponseOf(q.handler)[q.head]
       /\ q.body.kind \notin {"none", "Error"} /\ q.ctype = "json"

ContentType(kind) ==
    CASE kind = "Error" -> "problem" [] kind = "none" -> None [] OTHER -> "json"

\* The response object of an operation for a code.
ObjectOf(op, code) ==
    Response(code, ContentType(ResponseOf(op)[code]), ResponseOf(op)[code])

ResponseOK(q) ==
    /\ q.handler \in Operations
    /\ \E code \in DOMAIN ResponseOf(q.handler) : q.resp = ObjectOf(q.handler, code)

\* One disjunct for each program counter.  What is promised of an answer is promised
\* while it can reach its client.
PhaseOK(q) ==
    \/ q.pc = "new" /\ q = NewRequest
    \/ q.pc \in {"middleware", "route"} /\ Blank(q) /\ q.handler = None
    \/ q.pc \in {"handle", "expired"} /\ Blank(q) /\ q.handler \in Operations
    \/ q.pc = "visit" /\ Blank(q) /\ ResponseOK(q)
    \/ /\ q.pc \in {"panicking", "aborting"} /\ q.handler \in Operations
       /\ q.log = None /\ q.body = NoBody
       /\ (q.head = 0 /\ q.wrote = FALSE) \/ (q.head = 200 /\ q.wrote = TRUE)
    \/ /\ q.pc = "return" /\ q.log = None
       /\ q.conn # "down" => Served(q) /\ q.status = q.head
    \/ /\ q.pc = "answered"
       /\ q.conn # "down" => Served(q) /\ q.log \in {None, q.head}
    \/ /\ q.pc = "done"
       /\ q.got # "lost" =>
            /\ q.conn # "down" /\ Served(q) /\ q.log \in {None, q.head}
            /\ q.called # None => q.got = Parse(q.called, q)

Looking == {"GetVolume", "DeleteVolume"}

\* The request that the client builds for a volume that is there.
Sought(q, ids) ==
    /\ q.http.fault = None
    /\ q.http.method = (IF q.called = "GetVolume" THEN "GET" ELSE "DELETE")
    /\ \E id \in ids : q.http.path = <<id>>

\* A request for a volume that stays finds its way to it.
ReachOK(q, ids) ==
    q.stayed /\ q.called \in Looking =>
        /\ q.pc \in {"middleware", "route", "handle", "expired"} => Sought(q, ids)
        /\ q.pc \in {"handle", "expired", "visit"} => q.handler = q.called
        /\ q.pc = "visit" => q.resp.code \in {200, 204, 500}
        /\ q.pc \in {"return", "answered", "done"} /\ q.conn # "down" =>
             q.head \in {200, 204, 500} /\ (q.head = 200 => q.body.kind \in {"none", "Volume"})

Heads == {0, 200, 201, 204, 400, 404, 405, 409, 422, 500}

\* The operations of the client, and None for a request of another one.
Callable == Operations \cup {None}

RequestOK(q, ids) ==
    /\ DOMAIN q = DOMAIN NewRequest
    /\ q.head \in Heads
    /\ q.called \in Callable
    /\ q.handler \in Operations \cup {None, "emptyID", "NotFound", "MethodNotAllowed"}
    /\ PhaseOK(q)
    /\ ReachOK(q, ids)

\* The inductive invariant.
IInv ==
    /\ volumes \subseteq AepIds \ ReservedVolumeIDs
    /\ DOMAIN req = Requests
    /\ \A r \in Requests : RequestOK(req[r], volumes)

-----------------------------------------------------------------------------
(* The operators that write.                                               *)

IsRequest(w) == DOMAIN w = DOMAIN NewRequest

\* All but what is written is as before.
SameRequest(w, w2) ==
    /\ IsRequest(w2) /\ w2.pc = w.pc /\ w2.http = w.http /\ w2.called = w.called
    /\ w2.handler = w.handler /\ w2.resp = w.resp /\ w2.conn = w.conn /\ w2.log = w.log
    /\ w2.stayed = w.stayed

LEMMA ContentTypeSet ==
    ASSUME NEW w, IsRequest(w), NEW ctype
    PROVE  LET w2 == SetContentType(w, ctype)
           IN  /\ SameRequest(w, w2) /\ w2.head = w.head /\ w2.body = w.body
               /\ w2.status = w.status /\ w2.wrote = w.wrote
               /\ w.head = 0 => w2.ctype = ctype
  BY DEF SetContentType, SameRequest, IsRequest, NewRequest

LEMMA HeaderWritten ==
    ASSUME NEW w, IsRequest(w), NEW code
    PROVE  LET w2 == WriteHeader(w, code)
           IN  /\ SameRequest(w, w2) /\ w2.head = (IF w.head = 0 THEN code ELSE w.head)
               /\ w2.body = w.body /\ w2.status = code /\ w2.wrote = TRUE /\ w2.ctype = w.ctype
  BY DEF WriteHeader, SameRequest, IsRequest, NewRequest

LEMMA BodyWritten ==
    ASSUME NEW w, IsRequest(w), NEW body
    PROVE  LET w2 == Write(w, body)
           IN  /\ SameRequest(w, w2) /\ w2.head = w.head /\ w2.status = w.status
               /\ w2.wrote = w.wrote /\ w2.ctype = w.ctype
               /\ w.body = NoBody => w2.body = body
  BY DEF Write, SameRequest, IsRequest, NewRequest

\* A complete answer: its type, its status line and its body.
Whole(w, code, ctype, body) == Write(WriteHeader(SetContentType(w, ctype), code), body)

LEMMA WholeWritten ==
    ASSUME NEW w, IsRequest(w), w.body = NoBody, NEW code, NEW ctype, NEW body
    PROVE  LET w2 == Whole(w, code, ctype, body)
           IN  /\ SameRequest(w, w2) /\ w2.body = body /\ w2.status = code
               /\ w2.head = (IF w.head = 0 THEN code ELSE w.head)
               /\ w.head = 0 => w2.ctype = ctype
<1> DEFINE a == SetContentType(w, ctype)
           b == WriteHeader(a, code)
           c == Write(b, body)
<1>1. /\ SameRequest(w, a) /\ a.head = w.head /\ a.body = w.body
      /\ w.head = 0 => a.ctype = ctype
  BY ContentTypeSet
<1> HIDE DEF a
<1>2. /\ SameRequest(a, b) /\ b.head = (IF a.head = 0 THEN code ELSE a.head)
      /\ b.body = a.body /\ b.status = code /\ b.ctype = a.ctype
  <2>1. IsRequest(a)
    BY <1>1 DEF SameRequest
  <2>2. QED
    BY <2>1, HeaderWritten
<1> HIDE DEF b
<1>3. /\ SameRequest(b, c) /\ c.head = b.head /\ c.status = b.status /\ c.ctype = b.ctype
      /\ b.body = NoBody => c.body = body
  <2>1. IsRequest(b)
    BY <1>2 DEF SameRequest
  <2>2. QED
    BY <2>1, BodyWritten
<1> HIDE DEF c
<1>4. /\ SameRequest(w, c) /\ c.body = body /\ c.status = code
      /\ c.head = (IF w.head = 0 THEN code ELSE w.head)
      /\ w.head = 0 => c.ctype = ctype
  BY <1>1, <1>2, <1>3 DEF SameRequest
<1>5. QED
  BY <1>4 DEF Whole, a, b, c

LEMMA ProblemWritten ==
    ASSUME NEW w, IsRequest(w), w.body = NoBody, NEW code
    PROVE  LET w2 == WriteResponse(w, code)
           IN  /\ SameRequest(w, w2) /\ w2.body = Problem(code) /\ w2.status = code
               /\ w2.head = (IF w.head = 0 THEN code ELSE w.head)
               /\ w.head = 0 => w2.ctype = "problem"
  BY WholeWritten DEF WriteResponse, Whole

LEMMA PlainWritten ==
    ASSUME NEW w, IsRequest(w), w.body = NoBody, NEW code
    PROVE  LET w2 == PlainError(w, code)
           IN  /\ SameRequest(w, w2) /\ w2.body = [kind |-> "text", status |-> 0]
               /\ w2.status = code /\ w2.head = (IF w.head = 0 THEN code ELSE w.head)
  BY WholeWritten DEF PlainError, Whole

LEMMA NotAllowedWritten ==
    ASSUME NEW w, IsRequest(w), w.head = 0
    PROVE  LET w2 == methodNotAllowedHandler(w)
           IN  /\ SameRequest(w, w2) /\ w2.body = w.body /\ w2.status = 405 /\ w2.head = 405
  BY DEF methodNotAllowedHandler, WriteHeader, SameRequest, IsRequest, NewRequest

LEMMA PhaseSet ==
    ASSUME NEW w, IsRequest(w), NEW pc
    PROVE  LET w2 == [w EXCEPT !.pc = pc]
           IN  /\ IsRequest(w2) /\ w2.pc = pc /\ w2.http = w.http /\ w2.called = w.called
               /\ w2.handler = w.handler /\ w2.resp = w.resp /\ w2.conn = w.conn
               /\ w2.log = w.log /\ w2.stayed = w.stayed /\ w2.head = w.head
               /\ w2.ctype = w.ctype /\ w2.body = w.body /\ w2.status = w.status
               /\ w2.wrote = w.wrote
  BY DEF IsRequest, NewRequest

-----------------------------------------------------------------------------
(* The tables of responses.                                                *)

LEMMA Tables ==
    ASSUME NEW op \in Operations, NEW code \in DOMAIN ResponseOf(op)
    PROVE  LET kind == ResponseOf(op)[code]
           IN  /\ code \in Heads \ {0, 405}
               /\ kind \in {"VolumeList", "Volume", "Health", "none", "Error"}
               /\ kind = "Error" <=> code \in ErrorCodes
               /\ kind = "none" <=> code = 204
               /\ kind # "none" => code \in DOMAIN Decoded(op) /\ Decoded(op)[code] = kind
               /\ op \in Looking => code \in {200, 204, 404, 500}
               /\ op \in Looking /\ code = 200 => kind = "Volume"
<1>1. CASE op = "ListVolumes"
  BY <1>1 DEF ResponseOf, ListVolumesResponse, Answers, Heads, ErrorCodes, Looking,
              Decoded, ParseListVolumesResponse
<1>2. CASE op = "CreateVolume"
  BY <1>2 DEF ResponseOf, CreateVolumeResponse, Answers, Heads, ErrorCodes, Looking,
              Decoded, ParseCreateVolumeResponse
<1>3. CASE op = "GetHealth"
  BY <1>3 DEF ResponseOf, GetHealthResponse, Answers, Heads, ErrorCodes, Looking,
              Decoded, ParseGetHealthResponse
<1>4. CASE op = "DeleteVolume"
  BY <1>4 DEF ResponseOf, DeleteVolumeResponse, Answers, Heads, ErrorCodes, Looking,
              Decoded, ParseDeleteVolumeResponse
<1>5. CASE op = "GetVolume"
  BY <1>5 DEF ResponseOf, GetVolumeResponse, Answers, Heads, ErrorCodes, Looking,
              Decoded, ParseGetVolumeResponse
<1>6. QED
  BY <1>1, <1>2, <1>3, <1>4, <1>5 DEF Operations

-----------------------------------------------------------------------------
(* Steps of one request.                                                   *)

LEMMA MoreVolumes ==
    ASSUME NEW q, NEW ids, NEW ids2, ids \subseteq ids2, RequestOK(q, ids)
    PROVE  RequestOK(q, ids2)
<1>1. Sought(q, ids) => Sought(q, ids2)
  BY DEF Sought
<1>2. QED
  BY <1>1 DEF RequestOK, ReachOK

LEMMA Moves ==
    ASSUME IInv, NEW r \in Requests, NEW q, Set(r, q), RequestOK(q, volumes'),
           volumes' \subseteq AepIds \ ReservedVolumeIDs, volumes \subseteq volumes'
    PROVE  IInv'
<1>1. /\ DOMAIN req' = Requests /\ req'[r] = q
      /\ \A p \in Requests \ {r} : req'[p] = req[p]
  BY DEF Set, IInv
<1>2. \A p \in Requests : RequestOK(req'[p], volumes')
  BY <1>1, MoreVolumes DEF IInv
<1>3. QED
  BY <1>1, <1>2 DEF IInv

LEMMA MovesAlone ==
    ASSUME IInv, NEW r \in Requests, NEW q, Set(r, q), RequestOK(q, volumes), UNCHANGED volumes
    PROVE  IInv'
  BY Moves DEF IInv

\* A request that its answer may leave with.
LEMMA Returns ==
    ASSUME NEW q, NEW ids, IsRequest(q), q.pc = "return", q.log = None, q.head \in Heads,
           q.handler \in Operations \cup {None, "emptyID", "NotFound", "MethodNotAllowed"},
           q.called \in Callable,
           q.conn # "down" => Served(q) /\ q.status = q.head,
           q.stayed /\ q.called \in Looking /\ q.conn # "down" =>
             q.head \in {200, 204, 500} /\ (q.head = 200 => q.body.kind \in {"none", "Volume"})
    PROVE  RequestOK(q, ids)
<1>1. PhaseOK(q)
  BY DEF PhaseOK
<1>2. ReachOK(q, ids)
  BY DEF ReachOK
<1>3. QED
  BY <1>1, <1>2 DEF RequestOK, IsRequest

LEMMA SendStep ==
    ASSUME IInv, NEW r \in Requests, NEW m \in Sent, Send(r, m)
    PROVE  IInv'
<1> DEFINE q == [NewRequest EXCEPT !.pc = "middleware", !.http = m.http, !.called = m.called,
                   !.stayed = Len(m.http.path) = 1 /\ m.http.path[1] \in volumes]
<1>1. Set(r, q) /\ UNCHANGED volumes
  BY DEF Send
<1>2. /\ IsRequest(q) /\ q.pc = "middleware" /\ q.http = m.http /\ q.called = m.called
      /\ q.head = 0 /\ q.body = NoBody /\ q.wrote = FALSE /\ q.log = None /\ q.handler = None
      /\ q.stayed <=> Len(m.http.path) = 1 /\ m.http.path[1] \in volumes
  BY DEF NewRequest, IsRequest
<1> HIDE DEF q
<1>3. ASSUME q.stayed, q.called \in Looking
      PROVE  Sought(q, volumes)
  <2>1. m.called # None
    BY <1>2, <1>3, NoneAssumption, RequestsAssumption DEF Looking, Operations
  <2>2. PICK call \in Calls : m.http = RequestOf(call) /\ m.called = call.op
    BY <2>1 DEF Sent
  <2>3. m.http = HttpRequest(IF q.called = "GetVolume" THEN "GET" ELSE "DELETE",
                             VolumePath(call.id))
    BY <1>2, <1>3, <2>2
    DEF Looking, RequestOf, NewGetVolumeRequest, NewDeleteVolumeRequest
  <2>4. /\ m.http.fault = None
        /\ m.http.method = (IF q.called = "GetVolume" THEN "GET" ELSE "DELETE")
        /\ m.http.path = VolumePath(call.id)
    BY <2>3 DEF HttpRequest
  <2>5. VolumePath(call.id) # Elsewhere
    BY <1>2, <1>3, <2>4 DEF Elsewhere
  <2>6. PICK id : VolumePath(call.id) = <<id>>
    BY <2>5 DEF VolumePath
  <2>7. id \in volumes
    BY <1>2, <1>3, <2>4, <2>6
  <2>8. QED
    BY <1>2, <2>4, <2>6, <2>7 DEF Sought
<1>4. PhaseOK(q)
  BY <1>2 DEF PhaseOK, Blank
<1>5. ReachOK(q, volumes)
  BY <1>2, <1>3 DEF ReachOK
<1>6. q.called \in Callable
  BY <1>2, RequestsAssumption DEF Sent, Callable
<1>7. RequestOK(q, volumes)
  BY <1>2, <1>4, <1>5, <1>6 DEF RequestOK, IsRequest, Heads
<1>8. QED
  BY <1>1, <1>7, MovesAlone

LEMMA TimeoutArmed ==
    ASSUME NEW w, IsRequest(w)
    PROVE  LET w2 == requestTimeoutMiddleware(w)
           IN  /\ SameRequest(w, w2) /\ w2.head = w.head /\ w2.body = w.body
               /\ w2.wrote = w.wrote /\ w2.status = w.status
  BY DEF requestTimeoutMiddleware, SameRequest, IsRequest, NewRequest

\* The document and the routes let through whoever looks for a volume.
LEMMA SoughtFindsWay ==
    ASSUME NEW q, NEW ids \in SUBSET (AepIds \ ReservedVolumeIDs),
           q.called \in Looking, Sought(q, ids)
    PROVE  /\ DocumentAllows(q.http) /\ Route(q.http) = q.called
           /\ Binds(q.http) /\ q.http.fault # "undecodable"
           /\ Len(q.http.path) = 1 /\ q.http.path[1] \in ids
<1>1. PICK id \in ids : q.http.path = <<id>>
  BY DEF Sought
<1>2. id # Unset /\ id # "health" /\ id \in AepIds
  BY IdAssumption DEF ReservedVolumeIDs
<1> DEFINE p == q.http.path
<1>3. p = <<id>> /\ p # <<>> /\ p # <<"health">> /\ p # <<Unset>> /\ p # Elsewhere
  BY <1>1, <1>2 DEF Elsewhere
<1>4. q.http.method \in {"GET", "DELETE"} /\ Len(p) = 1 /\ p[1] = id
  BY <1>3 DEF Sought
<1>5. DocumentAllows(q.http)
  BY <1>2, <1>3, <1>4 DEF DocumentAllows
<1>6. Route(q.http) = q.called
  BY <1>3, <1>4 DEF Route, Sought, Looking
<1>7. Binds(q.http) /\ q.http.fault # "undecodable"
  BY NoneAssumption, RequestsAssumption DEF Binds, Sought
<1>8. QED
  BY <1>4, <1>5, <1>6, <1>7
LEMMA openAPIValidationStep ==
    ASSUME IInv, NEW r \in Requests, openAPIValidationMiddleware(r)
    PROVE  IInv'
<1> DEFINE q == req[r]
           w == requestTimeoutMiddleware(q)
<1>1. /\ RequestOK(q, volumes) /\ IsRequest(q) /\ q.pc = "middleware" /\ UNCHANGED volumes
      /\ Set(r, IF DocumentAllows(w.http) THEN [w EXCEPT !.pc = "route"]
                ELSE [badRequestHandler(w) EXCEPT !.pc = "return"])
  BY DEF IInv, RequestOK, IsRequest, openAPIValidationMiddleware
<1>2. Blank(q) /\ q.handler = None
  BY <1>1 DEF RequestOK, PhaseOK
<1>3. /\ q.called \in Callable
      /\ q.stayed /\ q.called \in Looking => Sought(q, volumes)
  BY <1>1 DEF RequestOK, ReachOK
<1> HIDE DEF q
<1>4. /\ SameRequest(q, w) /\ w.head = q.head /\ w.body = q.body
      /\ w.wrote = q.wrote /\ w.status = q.status
  BY <1>1, TimeoutArmed
<1>5. IsRequest(w)
  BY <1>4 DEF SameRequest
<1>6. q.stayed /\ q.called \in Looking => DocumentAllows(q.http)
  BY <1>3, SoughtFindsWay, volumes \in SUBSET (AepIds \ ReservedVolumeIDs) DEF IInv
<1> HIDE DEF w
<1>7. CASE DocumentAllows(w.http)
  <2> DEFINE z == [w EXCEPT !.pc = "route"]
  <2>1. /\ IsRequest(z) /\ z.pc = "route" /\ z.http = w.http /\ z.called = w.called
        /\ z.handler = w.handler /\ z.log = w.log /\ z.stayed = w.stayed
        /\ z.head = w.head /\ z.body = w.body /\ z.wrote = w.wrote
    BY <1>5, PhaseSet
  <2>2. Set(r, z)
    BY <1>1, <1>7
  <2> HIDE DEF z
  <2>3. Blank(z) /\ z.handler = None /\ z.called \in Callable
    BY <1>2, <1>3, <1>4, <2>1 DEF Blank, SameRequest
  <2>4. ReachOK(z, volumes)
    BY <1>3, <1>4, <2>1 DEF ReachOK, SameRequest, Sought
  <2>5. RequestOK(z, volumes)
    BY <2>1, <2>3, <2>4 DEF RequestOK, PhaseOK, Blank, Heads, IsRequest
  <2>6. QED
    BY <1>1, <2>2, <2>5, MovesAlone
<1>8. CASE ~DocumentAllows(w.http)
  <2> DEFINE a == badRequestHandler(w)
             z == [a EXCEPT !.pc = "return"]
  <2>1. /\ SameRequest(w, a) /\ a.body = Problem(400) /\ a.status = 400
        /\ a.head = 400 /\ a.ctype = "problem"
    BY <1>2, <1>4, <1>5, ProblemWritten DEF badRequestHandler, Blank
  <2>2. IsRequest(a)
    BY <2>1 DEF SameRequest
  <2> HIDE DEF a
  <2>3. /\ IsRequest(z) /\ z.pc = "return" /\ z.http = a.http /\ z.called = a.called
        /\ z.handler = a.handler /\ z.log = a.log /\ z.stayed = a.stayed
        /\ z.head = a.head /\ z.body = a.body /\ z.status = a.status /\ z.ctype = a.ctype
    BY <2>2, PhaseSet
  <2>4. Set(r, z)
    BY <1>1, <1>8 DEF a
  <2> HIDE DEF z
  <2>5. /\ z.handler = None /\ z.log = None /\ z.head = 400 /\ z.status = 400
        /\ z.called \in Callable /\ ~(z.stayed /\ z.called \in Looking)
    BY <1>2, <1>3, <1>4, <1>6, <1>8, <2>1, <2>3 DEF SameRequest, Blank
  <2>6. Served(z)
    BY <2>1, <2>3 DEF Served, ErrorCodes
  <2>7. RequestOK(z, volumes)
    BY <2>3, <2>5, <2>6, Returns DEF Heads
  <2>8. QED
    BY <1>1, <2>4, <2>7, MovesAlone
<1>9. QED
  BY <1>7, <1>8

\* A refusal by a problem report, of a request that looks for nothing that stays.
LEMMA Refusal ==
    ASSUME NEW w, IsRequest(w), Blank(w), NEW ids, NEW code \in ErrorCodes,
           w.handler \in Operations \cup {None, "emptyID", "NotFound", "MethodNotAllowed"},
           w.called \in Callable,
           ~(w.stayed /\ w.called \in Looking)
    PROVE  RequestOK([WriteResponse(w, code) EXCEPT !.pc = "return"], ids)
<1> DEFINE a == WriteResponse(w, code)
           z == [a EXCEPT !.pc = "return"]
<1>1. /\ SameRequest(w, a) /\ a.body = Problem(code) /\ a.status = code
      /\ a.head = code /\ a.ctype = "problem"
  BY ProblemWritten DEF Blank
<1>2. IsRequest(a)
  BY <1>1 DEF SameRequest
<1> HIDE DEF a
<1>3. /\ IsRequest(z) /\ z.pc = "return" /\ z.called = a.called
      /\ z.handler = a.handler /\ z.log = a.log /\ z.stayed = a.stayed
      /\ z.head = a.head /\ z.body = a.body /\ z.status = a.status /\ z.ctype = a.ctype
  BY <1>2, PhaseSet
<1> HIDE DEF z
<1>4. Served(z)
  BY <1>1, <1>3 DEF Served
<1>5. /\ z.log = None /\ z.head \in Heads /\ z.status = z.head /\ z.handler = w.handler
      /\ z.called = w.called /\ ~(z.stayed /\ z.called \in Looking)
  BY <1>1, <1>3 DEF SameRequest, Blank, ErrorCodes, Heads
<1>6. RequestOK(z, ids)
  BY <1>3, <1>4, <1>5, Returns
<1>7. QED
  BY <1>6 DEF a, z

\* The router's own answers, as a status line with or without plain text.
Unrouted(a) ==
    \/ a.handler = "NotFound" /\ a.head = 404 /\ a.body = [kind |-> "text", status |-> 0]
    \/ a.handler = "MethodNotAllowed" /\ a.head = 405 /\ a.body = NoBody

\* So a request without a route is answered as the invariant says.
LEMMA PlainRefusal ==
    ASSUME NEW w, IsRequest(w), Blank(w), NEW ids, w.called \in Callable,
           ~(w.stayed /\ w.called \in Looking),
           NEW a, SameRequest(w, a), Unrouted(a), a.status = a.head
    PROVE  RequestOK([a EXCEPT !.pc = "return"], ids)
<1> DEFINE z == [a EXCEPT !.pc = "return"]
<1>1. IsRequest(a)
  BY DEF SameRequest
<1>2. /\ IsRequest(z) /\ z.pc = "return" /\ z.called = a.called
      /\ z.handler = a.handler /\ z.log = a.log /\ z.stayed = a.stayed
      /\ z.head = a.head /\ z.body = a.body /\ z.status = a.status
  BY <1>1, PhaseSet
<1> HIDE DEF z
<1>3. Served(z)
  BY <1>2 DEF Served, Unrouted
<1>4. /\ z.log = None /\ z.head \in Heads /\ z.status = z.head
      /\ z.handler \in {"NotFound", "MethodNotAllowed"}
      /\ z.called = w.called /\ ~(z.stayed /\ z.called \in Looking)
  BY <1>2 DEF SameRequest, Blank, Heads, Unrouted
<1>5. RequestOK(z, ids)
  BY <1>2, <1>3, <1>4, Returns
<1>6. QED
  BY <1>5 DEF z

LEMMA ServeHTTPStep ==
    ASSUME IInv, NEW r \in Requests, ServeHTTP(r)
    PROVE  IInv'
<1> DEFINE q == req[r]
           to == Route(q.http)
           w == [q EXCEPT !.handler = to]
           z == CASE to = "NotFound" -> [PlainError(w, 404) EXCEPT !.pc = "return"]
                  [] to = "MethodNotAllowed" ->
                       [methodNotAllowedHandler(w) EXCEPT !.pc = "return"]
                  [] to = "emptyID" -> [WriteResponse(w, 400) EXCEPT !.pc = "return"]
                  [] to \in Operations /\ ~Binds(w.http) ->
                       [badRequestHandler(w) EXCEPT !.pc = "return"]
                  [] to \in Operations /\ Binds(w.http) /\ w.http.fault = "undecodable" ->
                       [RequestErrorHandler(w) EXCEPT !.pc = "return"]
                  [] OTHER -> [w EXCEPT !.pc = "handle"]
<1>1. RequestOK(q, volumes) /\ IsRequest(q) /\ q.pc = "route" /\ UNCHANGED volumes
  BY DEF IInv, RequestOK, IsRequest, ServeHTTP
<1>2. /\ IsRequest(w) /\ w.http = q.http /\ w.called = q.called /\ w.handler = to
      /\ w.log = q.log /\ w.stayed = q.stayed /\ w.head = q.head /\ w.body = q.body
      /\ w.wrote = q.wrote
  BY <1>1 DEF IsRequest, NewRequest
<1>3. Set(r, z)
  BY <1>2 DEF ServeHTTP
<1>4. Blank(q)
  BY <1>1 DEF RequestOK, PhaseOK
<1>5. q.stayed /\ q.called \in Looking => Sought(q, volumes)
  BY <1>1 DEF RequestOK, ReachOK
<1>6. q.stayed /\ q.called \in Looking =>
        to = q.called /\ Binds(q.http) /\ q.http.fault # "undecodable"
  <2> HIDE DEF q
  <2>1. QED
    BY <1>5, SoughtFindsWay, volumes \in SUBSET (AepIds \ ReservedVolumeIDs) DEF IInv, to
<1>7. to \in Operations \cup {"emptyID", "NotFound", "MethodNotAllowed"}
  BY DEF Route, Operations
<1>8. Blank(w) /\ w.called \in Callable
  BY <1>1, <1>2, <1>4 DEF Blank, RequestOK
<1>9. Looking \subseteq Operations \ {"emptyID", "NotFound", "MethodNotAllowed"}
  BY DEF Looking, Operations
<1>10. 400 \in ErrorCodes
  BY DEF ErrorCodes
<1>11. {"emptyID", "NotFound", "MethodNotAllowed"} \cap Operations = {}
  BY DEF Operations
<1> HIDE DEF q, to, w
<1>12. CASE to = "NotFound"
  <2> DEFINE a == PlainError(w, 404)
  <2>1. z = [a EXCEPT !.pc = "return"]
    BY <1>11, <1>12 DEF z
  <2>2. ~(w.stayed /\ w.called \in Looking)
    BY <1>2, <1>6, <1>12 DEF Looking
  <2>3. SameRequest(w, a) /\ Unrouted(a) /\ a.status = a.head /\ IsRequest(w)
    BY <1>2, <1>8, <1>12, PlainWritten DEF Blank, Unrouted, SameRequest
  <2> HIDE DEF z, a
  <2>4. RequestOK(z, volumes)
    BY <1>8, <2>1, <2>2, <2>3, PlainRefusal
  <2>5. QED
    BY <1>1, <1>3, <2>4, MovesAlone
<1>13. CASE to = "MethodNotAllowed"
  <2> DEFINE a == methodNotAllowedHandler(w)
  <2>1. z = [a EXCEPT !.pc = "return"]
    BY <1>11, <1>13 DEF z
  <2>2. ~(w.stayed /\ w.called \in Looking)
    BY <1>2, <1>6, <1>13 DEF Looking
  <2>3. SameRequest(w, a) /\ a.head = 405 /\ a.status = 405 /\ a.body = NoBody
    BY <1>2, <1>8, NotAllowedWritten DEF Blank
  <2>4. Unrouted(a) /\ a.status = a.head /\ IsRequest(w)
    BY <1>2, <1>13, <2>3 DEF Unrouted, SameRequest
  <2> HIDE DEF z, a
  <2>5. RequestOK(z, volumes)
    BY <1>8, <2>1, <2>2, <2>3, <2>4, PlainRefusal
  <2>6. QED
    BY <1>1, <1>3, <2>5, MovesAlone
<1>14. CASE to = "emptyID" \/ (to \in Operations /\ (~Binds(w.http) \/ w.http.fault = "undecodable"))
  <2>1. z = [WriteResponse(w, 400) EXCEPT !.pc = "return"]
    BY <1>11, <1>14 DEF z, RequestErrorHandler, badRequestHandler
  <2>2. ~(w.stayed /\ w.called \in Looking)
    BY <1>2, <1>6, <1>9, <1>14
  <2>3. RequestOK(z, volumes)
    BY <1>2, <1>7, <1>8, <1>10, <2>1, <2>2, Refusal
  <2>4. QED
    BY <1>1, <1>3, <2>3, MovesAlone
<1>15. CASE to \in Operations /\ Binds(w.http) /\ w.http.fault # "undecodable"
  <2>1. z = [w EXCEPT !.pc = "handle"]
    BY <1>11, <1>15 DEF z
  <2> HIDE DEF z
  <2>2. /\ IsRequest(z) /\ z.pc = "handle" /\ z.http = w.http /\ z.called = w.called
        /\ z.handler = w.handler /\ z.log = w.log /\ z.stayed = w.stayed
        /\ z.head = w.head /\ z.body = w.body /\ z.wrote = w.wrote
    BY <1>2, <2>1, PhaseSet
  <2>3. Blank(z) /\ z.handler \in Operations
    BY <1>2, <1>8, <1>15, <2>2 DEF Blank
  <2>4. PhaseOK(z)
    BY <2>2, <2>3 DEF PhaseOK
  <2>5. ReachOK(z, volumes)
    BY <1>2, <1>5, <1>6, <2>2 DEF ReachOK, Sought
  <2>6. RequestOK(z, volumes)
    BY <1>8, <2>2, <2>3, <2>4, <2>5 DEF RequestOK, Blank, Heads, IsRequest
  <2>7. QED
    BY <1>1, <1>3, <2>6, MovesAlone
<1>16. QED
  BY <1>7, <1>12, <1>13, <1>14, <1>15

-----------------------------------------------------------------------------
(* The handlers' steps.                                                    *)

LEMMA Responds ==
    ASSUME IInv, NEW r \in Requests, NEW op \in Operations, Handles(r, op),
           NEW code \in DOMAIN ResponseOf(op), Respond(r, code),
           req[r].stayed /\ req[r].called \in Looking => code \in {200, 204, 500},
           volumes' \subseteq AepIds \ ReservedVolumeIDs, volumes \subseteq volumes'
    PROVE  IInv'
<1> DEFINE q == req[r]
           object == ObjectOf(op, code)
           z == [q EXCEPT !.pc = "visit", !.resp = object]
<1>1. RequestOK(q, volumes) /\ IsRequest(q) /\ q.pc \in {"handle", "expired"} /\ q.handler = op
  BY DEF IInv, RequestOK, IsRequest, Handles
<1>2. Set(r, z)
  BY <1>1 DEF Respond, ObjectOf, ContentType
<1>3. object.code = code
  BY DEF ObjectOf, Response
<1>4. Blank(q)
  BY <1>1 DEF RequestOK, PhaseOK
<1> HIDE DEF q, object
<1>5. /\ IsRequest(z) /\ z.pc = "visit" /\ z.resp = object /\ z.called = q.called
      /\ z.handler = q.handler /\ z.log = q.log /\ z.stayed = q.stayed
      /\ z.head = q.head /\ z.body = q.body /\ z.wrote = q.wrote
  BY <1>1 DEF IsRequest, NewRequest
<1> HIDE DEF z
<1>6. Blank(z)
  BY <1>4, <1>5 DEF Blank
<1>7. ResponseOK(z)
  BY <1>1, <1>5 DEF ResponseOK, object
<1>8. PhaseOK(z)
  BY <1>5, <1>6, <1>7 DEF PhaseOK
<1>9. q.stayed /\ q.called \in Looking => q.handler = q.called
  BY <1>1 DEF RequestOK, ReachOK
<1>10. q.stayed /\ q.called \in Looking => code \in {200, 204, 500}
  BY DEF q
<1>11. ReachOK(z, volumes')
  BY <1>3, <1>5, <1>9, <1>10 DEF ReachOK
<1>12. RequestOK(z, volumes')
  BY <1>1, <1>5, <1>6, <1>8, <1>11 DEF RequestOK, Blank, Heads, IsRequest
<1>13. QED
  BY <1>2, <1>12, Moves

LEMMA RespondsAlone ==
    ASSUME IInv, NEW r \in Requests, NEW op \in Operations, Handles(r, op),
           NEW code \in DOMAIN ResponseOf(op), Respond(r, code), UNCHANGED volumes,
           req[r].stayed /\ req[r].called \in Looking => code \in {200, 204, 500}
    PROVE  IInv'
  BY Responds DEF IInv

\* What is known of a handler's request, when what is looked for stays.
LEMMA Found ==
    ASSUME IInv, NEW r \in Requests, NEW op, Handles(r, op),
           req[r].stayed, req[r].called \in Looking
    PROVE  op = req[r].called /\ req[r].http.path[1] \in volumes
<1>1. RequestOK(req[r], volumes) /\ req[r].pc \in {"handle", "expired"} /\ req[r].handler = op
  BY DEF IInv, Handles
<1>2. Sought(req[r], volumes) /\ req[r].handler = req[r].called
  BY <1>1 DEF RequestOK, ReachOK
<1>3. QED
  BY <1>1, <1>2 DEF Sought

LEMMA CreateRefusedStep ==
    ASSUME IInv, NEW r \in Requests, CreateRefused(r)
    PROVE  IInv'
<1>1. Handles(r, "CreateVolume") /\ UNCHANGED volumes /\ (Respond(r, 400) \/ Respond(r, 422))
  BY DEF CreateRefused
<1>2. {400, 422} \subseteq DOMAIN ResponseOf("CreateVolume") /\ "CreateVolume" \in Operations
  BY DEF ResponseOf, CreateVolumeResponse, Answers, Operations
<1>3. ~(req[r].stayed /\ req[r].called \in Looking)
  BY <1>1, Found DEF Looking
<1>4. QED
  BY <1>1, <1>2, <1>3, RespondsAlone

LEMMA CreateVolumeStep ==
    ASSUME IInv, NEW r \in Requests, CreateVolume(r)
    PROVE  IInv'
<1> DEFINE id == InstanceId(Input(req[r].http))
<1>1. /\ Handles(r, "CreateVolume") /\ validateVolumeID(id)
      /\ \/ Respond(r, 409) /\ UNCHANGED volumes
         \/ volumes' = volumes \cup {id} /\ (Respond(r, 201) \/ Respond(r, 500))
  BY DEF CreateVolume, ValidCreate
<1>2. {409, 201, 500} \subseteq DOMAIN ResponseOf("CreateVolume") /\ "CreateVolume" \in Operations
  BY DEF ResponseOf, CreateVolumeResponse, Answers, Operations
<1>3. ~(req[r].stayed /\ req[r].called \in Looking)
  BY <1>1, Found DEF Looking
<1>4. volumes' \subseteq AepIds \ ReservedVolumeIDs /\ volumes \subseteq volumes'
  BY <1>1 DEF IInv, validateVolumeID
<1>5. QED
  BY <1>1, <1>2, <1>3, <1>4, Responds

LEMMA LookStep ==
    ASSUME IInv, NEW r \in Requests, GetVolume(r) \/ DeleteVolume(r)
    PROVE  IInv'
<1>1. PICK op \in Looking, found \in {200, 204} :
        /\ Handles(r, op) /\ UNCHANGED volumes /\ {found, 404} \subseteq DOMAIN ResponseOf(op)
        /\ Respond(r, IF req[r].http.path[1] \in volumes THEN found ELSE 404)
  <2>1. CASE GetVolume(r)
    <3>1. {200, 404} \subseteq DOMAIN ResponseOf("GetVolume") /\ "GetVolume" \in Looking
      BY DEF ResponseOf, GetVolumeResponse, Answers, Looking
    <3>2. QED
      BY <2>1, <3>1 DEF GetVolume
  <2>2. CASE DeleteVolume(r)
    <3>1. {204, 404} \subseteq DOMAIN ResponseOf("DeleteVolume") /\ "DeleteVolume" \in Looking
      BY DEF ResponseOf, DeleteVolumeResponse, Answers, Looking
    <3>2. QED
      BY <2>2, <3>1 DEF DeleteVolume
  <2>3. QED
    BY <2>1, <2>2
<1> DEFINE code == IF req[r].http.path[1] \in volumes THEN found ELSE 404
<1>2. code \in DOMAIN ResponseOf(op) /\ op \in Operations
  BY <1>1 DEF Looking, Operations
<1>3. req[r].stayed /\ req[r].called \in Looking => code \in {200, 204, 500}
  BY <1>1, Found
<1>4. Respond(r, code)
  BY <1>1
<1> HIDE DEF code
<1>5. QED
  BY <1>1, <1>2, <1>3, <1>4, RespondsAlone

LEMMA ListStep ==
    ASSUME IInv, NEW r \in Requests, ListVolumes(r)
    PROVE  IInv'
<1>1. PICK code \in {200, 400} :
        Handles(r, "ListVolumes") /\ UNCHANGED volumes /\ Respond(r, code)
  BY DEF ListVolumes
<1>2. code \in DOMAIN ResponseOf("ListVolumes") /\ "ListVolumes" \in Operations
  BY DEF ResponseOf, ListVolumesResponse, Answers, Operations
<1>3. ~(req[r].stayed /\ req[r].called \in Looking)
  BY <1>1, Found DEF Looking
<1>4. QED
  BY <1>1, <1>2, <1>3, RespondsAlone

LEMMA HealthStep ==
    ASSUME IInv, NEW r \in Requests, GetHealth(r)
    PROVE  IInv'
<1>1. Handles(r, "GetHealth") /\ UNCHANGED volumes /\ Respond(r, 200)
  BY DEF GetHealth
<1>2. 200 \in DOMAIN ResponseOf("GetHealth") /\ "GetHealth" \in Operations
  BY DEF ResponseOf, GetHealthResponse, Answers, Operations
<1>3. QED
  BY <1>1, <1>2, RespondsAlone

LEMMA StoreFailsStep ==
    ASSUME IInv, NEW r \in Requests, StoreFails(r)
    PROVE  IInv'
<1>1. PICK op \in Operations \ {"GetHealth"} :
        Handles(r, op) /\ UNCHANGED volumes /\ Respond(r, 500)
  BY DEF StoreFails
<1>2. 500 \in DOMAIN ResponseOf(op)
  <2>1. op \in {"ListVolumes", "CreateVolume", "DeleteVolume", "GetVolume"}
    BY DEF Operations
  <2>2. QED
    BY <2>1 DEF ResponseOf, ListVolumesResponse, CreateVolumeResponse, DeleteVolumeResponse,
              GetVolumeResponse, Answers
<1>3. QED
  BY <1>1, <1>2, RespondsAlone

-----------------------------------------------------------------------------
(* The way out.                                                            *)

\* The status line of an operation's object is the first to be written, and stays.
LEMMA Overwritten ==
    ASSUME NEW w, IsRequest(w), w.head # 0, NEW code
    PROVE  LET w2 == WriteResponse(w, code)
           IN  SameRequest(w, w2) /\ w2.head = w.head
<1> DEFINE a == SetContentType(w, "problem")
           b == WriteHeader(a, code)
           c == Write(b, Problem(code))
<1>1. SameRequest(w, a) /\ a.head = w.head
  BY ContentTypeSet
<1> HIDE DEF a
<1>2. SameRequest(a, b) /\ b.head = a.head
  <2>1. IsRequest(a)
    BY <1>1 DEF SameRequest
  <2>2. QED
    BY <1>1, <2>1, HeaderWritten
<1> HIDE DEF b
<1>3. SameRequest(b, c) /\ c.head = b.head
  <2>1. IsRequest(b)
    BY <1>2 DEF SameRequest
  <2>2. QED
    BY <2>1, BodyWritten
<1> HIDE DEF c
<1>4. SameRequest(w, c) /\ c.head = w.head
  BY <1>1, <1>2, <1>3 DEF SameRequest
<1>5. QED
  BY <1>4 DEF WriteResponse, a, b, c

\* A response object, as it is written.
LEMMA ObjectServed ==
    ASSUME NEW q, q.handler \in Operations, NEW code \in DOMAIN ResponseOf(q.handler),
           LET object == ObjectOf(q.handler, code)
           IN  q.head = object.code /\ q.ctype = object.ctype /\ q.body = object.body
    PROVE  /\ Served(q) /\ q.head = code
           /\ q.handler \in Looking /\ code = 200 => q.body.kind = "Volume"
<1> DEFINE kind == ResponseOf(q.handler)[code]
<1>1. /\ kind = "Error" <=> code \in ErrorCodes
      /\ kind = "none" <=> code = 204
      /\ q.handler \in Looking /\ code = 200 => kind = "Volume"
  BY Tables
<1>2. /\ q.head = code /\ q.ctype = ContentType(kind)
      /\ q.body = [kind |-> kind, status |-> IF kind = "Error" THEN code ELSE 0]
  BY DEF ObjectOf, Response
<1> HIDE DEF kind
<1>3. CASE kind = "none"
  BY <1>1, <1>2, <1>3 DEF Served, NoBody, Looking
<1>4. CASE kind = "Error"
  BY <1>1, <1>2, <1>4 DEF Served, Problem, ContentType, ErrorCodes
<1>5. CASE kind \notin {"none", "Error"}
  BY <1>1, <1>2, <1>5 DEF Served, ContentType, kind
<1>6. QED
  BY <1>3, <1>4, <1>5

LEMMA VisitStep ==
    ASSUME IInv, NEW r \in Requests, VisitResponse(r)
    PROVE  IInv'
<1> DEFINE q == req[r]
           w == Whole(q, q.resp.code, q.resp.ctype, q.resp.body)
<1>1. RequestOK(q, volumes) /\ IsRequest(q) /\ q.pc = "visit" /\ UNCHANGED volumes
  BY DEF IInv, RequestOK, IsRequest, VisitResponse
<1>2. \/ Set(r, [w EXCEPT !.pc = "return"])
      \/ q.conn = "down" /\ Set(r, [ResponseErrorHandler(w) EXCEPT !.pc = "return"])
  <2>1. w.conn = q.conn /\ w.resp = q.resp
    <3> HIDE DEF q
    <3>1. QED
      BY <1>1 DEF Whole, SetContentType, WriteHeader, Write, IsRequest, NewRequest
  <2>2. QED
    BY <2>1 DEF VisitResponse, Whole
<1>3. Blank(q) /\ ResponseOK(q) /\ q.called \in Callable
  BY <1>1 DEF RequestOK, PhaseOK
<1> HIDE DEF q
<1>4. PICK code \in DOMAIN ResponseOf(q.handler) : q.resp = ObjectOf(q.handler, code)
  BY <1>3 DEF ResponseOK
<1>5. q.resp.code = code /\ code \in Heads \ {0} /\ q.handler \in Operations
  BY <1>3, <1>4, Tables DEF ObjectOf, Response, ResponseOK
<1>6. /\ SameRequest(q, w) /\ w.body = q.resp.body /\ w.status = code
      /\ w.head = code /\ w.ctype = q.resp.ctype
  BY <1>1, <1>3, <1>5, WholeWritten DEF Blank
<1>7. IsRequest(w)
  BY <1>6 DEF SameRequest
<1>8. q.stayed /\ q.called \in Looking => q.handler = q.called /\ code \in {200, 204, 500}
  BY <1>1, <1>5 DEF RequestOK, ReachOK
<1> HIDE DEF w
<1>9. CASE Set(r, [w EXCEPT !.pc = "return"])
  <2> DEFINE z == [w EXCEPT !.pc = "return"]
  <2>1. /\ IsRequest(z) /\ z.pc = "return" /\ z.called = q.called
        /\ z.handler = q.handler /\ z.log = None /\ z.stayed = q.stayed
        /\ z.head = code /\ z.body = q.resp.body /\ z.status = code /\ z.ctype = q.resp.ctype
    BY <1>3, <1>6, <1>7, PhaseSet DEF SameRequest, Blank
  <2> HIDE DEF z
  <2>2. Served(z) /\ (z.handler \in Looking /\ code = 200 => z.body.kind = "Volume")
    BY <1>4, <1>5, <2>1, ObjectServed
  <2>3. RequestOK(z, volumes)
    BY <1>3, <1>5, <1>8, <2>1, <2>2, Returns
  <2>4. QED
    BY <1>1, <1>9, <2>3, MovesAlone DEF z
<1>10. CASE q.conn = "down" /\ Set(r, [ResponseErrorHandler(w) EXCEPT !.pc = "return"])
  <2> DEFINE a == WriteResponse(w, 500)
             z == [a EXCEPT !.pc = "return"]
  <2>1. SameRequest(w, a) /\ a.head = code
    BY <1>5, <1>6, <1>7, Overwritten
  <2>2. IsRequest(a)
    BY <2>1 DEF SameRequest
  <2> HIDE DEF a
  <2>3. /\ IsRequest(z) /\ z.pc = "return" /\ z.conn = "down" /\ z.log = None
        /\ z.handler = q.handler /\ z.head = code /\ z.called = q.called
    BY <1>3, <1>6, <1>10, <2>1, <2>2, PhaseSet DEF SameRequest, Blank
  <2> HIDE DEF z
  <2>4. RequestOK(z, volumes)
    BY <1>3, <1>5, <2>3, Returns
  <2>5. QED
    BY <1>1, <1>10, <2>4, MovesAlone DEF z, a, ResponseErrorHandler
<1>11. QED
  BY <1>2, <1>9, <1>10

\* A handler that begins to stream its answer.
LEMMA StreamBegun ==
    ASSUME NEW w, IsRequest(w), w.head = 0
    PROVE  LET w2 == WriteHeader(SetContentType(w, "json"), 200)
           IN  SameRequest(w, w2) /\ w2.head = 200 /\ w2.body = w.body /\ w2.wrote = TRUE
<1> DEFINE code == 200
           a == SetContentType(w, "json")
           b == WriteHeader(a, code)
<1>1. SameRequest(w, a) /\ a.head = w.head /\ a.body = w.body
  BY ContentTypeSet
<1>2. IsRequest(a)
  BY <1>1 DEF SameRequest
<1> HIDE DEF a
<1>3. /\ SameRequest(a, b) /\ b.head = (IF a.head = 0 THEN code ELSE a.head)
      /\ b.body = a.body /\ b.wrote = TRUE
  <2> HIDE DEF code
  <2>1. QED
    BY <1>2, HeaderWritten
<1> HIDE DEF b, code
<1>4. SameRequest(w, b) /\ b.head = code /\ b.body = w.body /\ b.wrote = TRUE
  BY <1>1, <1>3 DEF SameRequest
<1>5. QED
  BY <1>4 DEF a, b, code

LEMMA PanicStep ==
    ASSUME IInv, NEW r \in Requests, NEW streaming \in BOOLEAN, NEW abort \in BOOLEAN,
           Panic(r, streaming, abort)
    PROVE  IInv'
<1> DEFINE q == req[r]
           begun == WriteHeader(SetContentType(q, "json"), 200)
           w == IF streaming THEN begun ELSE q
           pc == IF abort THEN "aborting" ELSE "panicking"
           z == [w EXCEPT !.pc = pc]
<1>1. RequestOK(q, volumes) /\ IsRequest(q) /\ q.pc \in {"handle", "expired"}
      /\ UNCHANGED volumes /\ Set(r, z)
  BY DEF IInv, RequestOK, IsRequest, Panic
<1>2. Blank(q) /\ q.handler \in Operations /\ q.called \in Callable
  BY <1>1 DEF RequestOK, PhaseOK
<1>3. pc \in {"aborting", "panicking"}
  OBVIOUS
<1> HIDE DEF q, pc
<1>4. /\ SameRequest(q, begun) /\ begun.head = 200 /\ begun.body = q.body
      /\ begun.wrote = TRUE
  <2>1. IsRequest(q) /\ q.head = 0
    BY <1>1, <1>2 DEF Blank
  <2>2. QED
    BY <2>1, StreamBegun
<1> HIDE DEF begun
<1>5. /\ IsRequest(w) /\ w.log = None /\ w.body = NoBody /\ w.handler \in Operations
      /\ w.called \in Callable
      /\ (w.head = 0 /\ w.wrote = FALSE) \/ (w.head = 200 /\ w.wrote = TRUE)
  BY <1>1, <1>2, <1>4 DEF SameRequest, Blank
<1> HIDE DEF w
<1>6. /\ IsRequest(z) /\ z.pc = pc /\ z.log = w.log /\ z.body = w.body /\ z.handler = w.handler
      /\ z.head = w.head /\ z.wrote = w.wrote /\ z.called = w.called
  BY <1>5, PhaseSet
<1> HIDE DEF z
<1>7. PhaseOK(z)
  BY <1>3, <1>5, <1>6 DEF PhaseOK
<1>8. ReachOK(z, volumes)
  BY <1>3, <1>6 DEF ReachOK
<1>9. RequestOK(z, volumes)
  BY <1>5, <1>6, <1>7, <1>8 DEF RequestOK, IsRequest, Heads
<1>10. QED
  BY <1>1, <1>9, MovesAlone

LEMMA ServedSame ==
    ASSUME NEW q, NEW z, Served(q), z.body = q.body, z.head = q.head, z.handler = q.handler,
           z.ctype = q.ctype
    PROVE  Served(z)
  BY DEF Served

\* An answer on its way to its client.
LEMMA Answered ==
    ASSUME NEW q, NEW ids, IsRequest(q), q.pc = "answered", q.head \in Heads,
           q.handler \in Operations \cup {None, "emptyID", "NotFound", "MethodNotAllowed"},
           q.called \in Callable,
           q.conn # "down" => Served(q) /\ q.log \in {None, q.head},
           q.stayed /\ q.called \in Looking /\ q.conn # "down" =>
             q.head \in {200, 204, 500} /\ (q.head = 200 => q.body.kind \in {"none", "Volume"})
    PROVE  RequestOK(q, ids)
<1>1. PhaseOK(q)
  BY DEF PhaseOK
<1>2. ReachOK(q, ids)
  BY DEF ReachOK
<1>3. QED
  BY <1>1, <1>2 DEF RequestOK, IsRequest

LEMMA LoggingStep ==
    ASSUME IInv, NEW r \in Requests, requestLoggingMiddleware(r)
    PROVE  IInv'
<1> DEFINE q == req[r]
           z == [q EXCEPT !.log = q.status, !.pc = "answered"]
<1>1. RequestOK(q, volumes) /\ IsRequest(q) /\ q.pc = "return" /\ UNCHANGED volumes /\ Set(r, z)
  BY DEF IInv, RequestOK, IsRequest, requestLoggingMiddleware
<1> HIDE DEF q
<1>2. /\ IsRequest(z) /\ z.pc = "answered" /\ z.log = q.status /\ z.called = q.called
      /\ z.handler = q.handler /\ z.conn = q.conn /\ z.stayed = q.stayed /\ z.head = q.head
      /\ z.ctype = q.ctype /\ z.body = q.body
  BY <1>1 DEF IsRequest, NewRequest
<1> HIDE DEF z
<1>3. q.conn # "down" => Served(q) /\ q.status = q.head
  BY <1>1 DEF RequestOK, PhaseOK
<1>4. q.stayed /\ q.called \in Looking /\ q.conn # "down" =>
        q.head \in {200, 204, 500} /\ (q.head = 200 => q.body.kind \in {"none", "Volume"})
  BY <1>1 DEF RequestOK, ReachOK
<1>5. z.conn # "down" => Served(z) /\ z.log \in {None, z.head}
  BY <1>2, <1>3, ServedSame
<1>6. RequestOK(z, volumes)
  BY <1>1, <1>2, <1>4, <1>5, Answered DEF RequestOK
<1>7. QED
  BY <1>1, <1>6, MovesAlone

LEMMA RecoveryStep ==
    ASSUME IInv, NEW r \in Requests, recoveryMiddleware(r)
    PROVE  IInv'
<1> DEFINE q == req[r]
           a == WriteResponse(q, 500)
           aborted == [q EXCEPT !.conn = "down", !.pc = "answered"]
           cut == [q EXCEPT !.pc = "answered"]
           told == [a EXCEPT !.pc = "answered", !.wrote = q.wrote, !.status = q.status]
<1>1. /\ RequestOK(q, volumes) /\ IsRequest(q) /\ q.pc \in {"panicking", "aborting"}
      /\ UNCHANGED volumes
      /\ \/ Set(r, aborted)
         \/ q.wrote /\ Set(r, cut)
         \/ ~q.wrote /\ Set(r, told)
  BY DEF IInv, RequestOK, IsRequest, recoveryMiddleware
<1>2. /\ q.handler \in Operations /\ q.called \in Callable /\ q.log = None /\ q.body = NoBody
      /\ (q.head = 0 /\ q.wrote = FALSE) \/ (q.head = 200 /\ q.wrote = TRUE)
  BY <1>1 DEF RequestOK, PhaseOK
<1> HIDE DEF q
<1>3. CASE Set(r, aborted)
  <2>1. /\ IsRequest(aborted) /\ aborted.pc = "answered" /\ aborted.conn = "down"
        /\ aborted.handler = q.handler /\ aborted.head = q.head
        /\ aborted.called = q.called
    BY <1>1 DEF IsRequest, NewRequest
  <2> HIDE DEF aborted
  <2>2. RequestOK(aborted, volumes)
    BY <1>2, <2>1, Answered DEF Heads
  <2>3. QED
    BY <1>1, <1>3, <2>2, MovesAlone
<1>4. CASE q.wrote /\ Set(r, cut)
  <2>1. /\ IsRequest(cut) /\ cut.pc = "answered" /\ cut.handler = q.handler
        /\ cut.head = q.head /\ cut.body = q.body /\ cut.log = q.log
        /\ cut.called = q.called
    BY <1>1, PhaseSet
  <2> HIDE DEF cut
  <2>2. cut.head = 200 /\ cut.body = NoBody /\ cut.log = None /\ cut.handler \in Operations
    BY <1>2, <1>4, <2>1
  <2>3. Served(cut) /\ cut.body.kind = "none"
    BY <2>2 DEF Served, NoBody
  <2>4. RequestOK(cut, volumes)
    BY <1>2, <2>1, <2>2, <2>3, Answered DEF Heads
  <2>5. QED
    BY <1>1, <1>4, <2>4, MovesAlone
<1>5. CASE ~q.wrote /\ Set(r, told)
  <2>1. /\ SameRequest(q, a) /\ a.body = Problem(500) /\ a.head = 500 /\ a.ctype = "problem"
    BY <1>1, <1>2, <1>5, ProblemWritten
  <2>2. IsRequest(a)
    BY <2>1 DEF SameRequest
  <2> HIDE DEF a
  <2>3. /\ IsRequest(told) /\ told.pc = "answered" /\ told.handler = a.handler
        /\ told.head = a.head /\ told.body = a.body /\ told.log = a.log /\ told.ctype = a.ctype
        /\ told.called = a.called
    BY <2>2 DEF IsRequest, NewRequest
  <2> HIDE DEF told
  <2>4. /\ told.head = 500 /\ told.log = None /\ told.handler \in Operations
        /\ told.called \in Callable
    BY <1>2, <2>1, <2>3 DEF SameRequest
  <2>5. Served(told)
    BY <2>1, <2>3, <2>4 DEF Served, ErrorCodes
  <2>6. RequestOK(told, volumes)
    BY <2>3, <2>4, <2>5, Answered DEF Heads
  <2>7. QED
    BY <1>1, <1>5, <2>6, MovesAlone
<1>6. QED
  BY <1>1, <1>3, <1>4, <1>5

LEMMA ParseStep ==
    ASSUME IInv, NEW r \in Requests, ParseResponse(r)
    PROVE  IInv'
<1> DEFINE q == req[r]
           lost == [NewRequest EXCEPT !.pc = "done", !.got = "lost"]
           z == [q EXCEPT !.pc = "done", !.armed = FALSE, !.resp = None,
                   !.wrote = FALSE, !.status = 200,
                   !.got = IF q.called = None THEN "raw" ELSE Parse(q.called, q)]
<1>1. /\ RequestOK(q, volumes) /\ IsRequest(q) /\ q.pc = "answered" /\ UNCHANGED volumes
      /\ IF q.conn = "down" THEN Set(r, lost) ELSE Set(r, z)
  BY DEF IInv, RequestOK, IsRequest, ParseResponse
<1> HIDE DEF q
<1>2. CASE q.conn = "down"
  <2>1. /\ IsRequest(lost) /\ lost.pc = "done" /\ lost.got = "lost" /\ lost.stayed = FALSE
        /\ lost.handler = None /\ lost.head = 0 /\ lost.called = None
    BY DEF IsRequest, NewRequest
  <2>2. Set(r, lost)
    BY <1>1, <1>2
  <2> HIDE DEF lost
  <2>3. RequestOK(lost, volumes)
    BY <2>1 DEF RequestOK, PhaseOK, ReachOK, IsRequest, Heads, Callable
  <2>4. QED
    BY <1>1, <2>2, <2>3, MovesAlone
<1>3. CASE q.conn # "down"
  <2>1. /\ IsRequest(z) /\ z.pc = "done" /\ z.called = q.called /\ z.handler = q.handler
        /\ z.conn = q.conn /\ z.stayed = q.stayed /\ z.head = q.head /\ z.ctype = q.ctype
        /\ z.body = q.body /\ z.log = q.log
        /\ z.got = (IF q.called = None THEN "raw" ELSE Parse(q.called, q))
    BY <1>1 DEF IsRequest, NewRequest
  <2>2. Set(r, z)
    BY <1>1, <1>3
  <2> HIDE DEF z
  <2>3. Served(q) /\ q.log \in {None, q.head}
    BY <1>1, <1>3 DEF RequestOK, PhaseOK
  <2>4. Served(z) /\ z.log \in {None, z.head} /\ z.conn # "down"
    BY <1>3, <2>1, <2>3, ServedSame
  <2>5. z.called # None => z.got = Parse(z.called, z)
    BY <2>1 DEF Parse
  <2>6. PhaseOK(z)
    BY <2>1, <2>4, <2>5 DEF PhaseOK
  <2>7. ReachOK(z, volumes)
    BY <1>1, <1>3, <2>1 DEF RequestOK, ReachOK
  <2>8. RequestOK(z, volumes)
    BY <1>1, <2>1, <2>6, <2>7 DEF RequestOK, IsRequest
  <2>9. QED
    BY <1>1, <2>2, <2>8, MovesAlone
<1>4. QED
  BY <1>2, <1>3

-----------------------------------------------------------------------------
(* The rest of the world.                                                  *)

LEMMA DeadlineStep ==
    ASSUME IInv, NEW r \in Requests, Deadline(r)
    PROVE  IInv'
<1> DEFINE q == req[r]
           z == [q EXCEPT !.pc = "expired"]
<1>1. RequestOK(q, volumes) /\ IsRequest(q) /\ q.pc = "handle" /\ UNCHANGED volumes /\ Set(r, z)
  BY DEF IInv, RequestOK, IsRequest, Deadline
<1> HIDE DEF q
<1>2. /\ IsRequest(z) /\ z.pc = "expired" /\ z.http = q.http /\ z.called = q.called
      /\ z.handler = q.handler /\ z.log = q.log /\ z.stayed = q.stayed /\ z.head = q.head
      /\ z.body = q.body /\ z.wrote = q.wrote
  BY <1>1, PhaseSet
<1> HIDE DEF z
<1>3. PhaseOK(z)
  BY <1>1, <1>2 DEF RequestOK, PhaseOK, Blank
<1>4. ReachOK(z, volumes)
  BY <1>1, <1>2 DEF RequestOK, ReachOK, Sought
<1>5. RequestOK(z, volumes)
  BY <1>1, <1>2, <1>3, <1>4 DEF RequestOK, IsRequest
<1>6. QED
  BY <1>1, <1>5, MovesAlone

LEMMA BreakStep ==
    ASSUME IInv, NEW r \in Requests, ConnectionBreaks(r)
    PROVE  IInv'
<1> DEFINE q == req[r]
           z == [q EXCEPT !.conn = "down"]
<1>1. /\ RequestOK(q, volumes) /\ IsRequest(q) /\ q.pc \notin {"new", "done"}
      /\ UNCHANGED volumes /\ Set(r, z)
  BY DEF IInv, RequestOK, IsRequest, ConnectionBreaks, InFlight
<1> HIDE DEF q
<1>2. /\ IsRequest(z) /\ z.pc = q.pc /\ z.http = q.http /\ z.called = q.called
      /\ z.handler = q.handler /\ z.log = q.log /\ z.stayed = q.stayed /\ z.head = q.head
      /\ z.body = q.body /\ z.wrote = q.wrote /\ z.resp = q.resp /\ z.conn = "down"
  BY <1>1 DEF IsRequest, NewRequest
<1> HIDE DEF z
<1>3. PhaseOK(z)
  BY <1>1, <1>2 DEF RequestOK, PhaseOK, Blank, ResponseOK
<1>4. ReachOK(z, volumes)
  BY <1>1, <1>2 DEF RequestOK, ReachOK, Sought
<1>5. RequestOK(z, volumes)
  BY <1>1, <1>2, <1>3, <1>4 DEF RequestOK, IsRequest
<1>6. QED
  BY <1>1, <1>5, MovesAlone

\* Who looks for a volume that goes is no longer promised to find it.
LEMMA VanishStep ==
    ASSUME IInv, NEW id \in volumes, Vanish(id)
    PROVE  IInv'
<1>1. /\ volumes' = volumes \ {id}
      /\ DOMAIN req' = Requests
      /\ \A r \in Requests :
           req'[r] = IF InFlight(r) /\ req[r].http.path = <<id>>
                     THEN [req[r] EXCEPT !.stayed = FALSE] ELSE req[r]
  BY DEF Vanish
<1>2. ASSUME NEW r \in Requests
      PROVE  RequestOK(req'[r], volumes')
  <2> DEFINE q == req[r]
             z == [q EXCEPT !.stayed = FALSE]
  <2>1. RequestOK(q, volumes) /\ IsRequest(q)
    BY DEF IInv, RequestOK, IsRequest
  <2>2. CASE InFlight(r) /\ q.http.path = <<id>>
    <3>1. q.pc # "new" /\ req'[r] = z
      BY <1>1, <2>2 DEF InFlight
    <3> HIDE DEF q
    <3>2. /\ IsRequest(z) /\ z.pc = q.pc /\ z.called = q.called /\ z.handler = q.handler
          /\ z.log = q.log /\ z.stayed = FALSE /\ z.head = q.head /\ z.body = q.body
          /\ z.wrote = q.wrote /\ z.resp = q.resp /\ z.conn = q.conn /\ z.ctype = q.ctype
          /\ z.status = q.status /\ z.got = q.got
      BY <2>1 DEF IsRequest, NewRequest
    <3> HIDE DEF z
    <3>3. Served(q) => Served(z)
      BY <3>2, ServedSame
    <3>4. Parse(z.called, z) = Parse(q.called, q)
      BY <3>2 DEF Parse
    <3>5. PhaseOK(z)
      BY <2>1, <3>1, <3>2, <3>3, <3>4 DEF RequestOK, PhaseOK, Blank, ResponseOK
    <3>6. ReachOK(z, volumes')
      BY <3>2 DEF ReachOK
    <3>7. QED
      BY <2>1, <3>1, <3>2, <3>5, <3>6 DEF RequestOK, IsRequest
  <2>3. CASE ~(InFlight(r) /\ q.http.path = <<id>>)
    <3>1. req'[r] = q
      BY <1>1, <2>3
    <3>2. q.pc \in {"middleware", "route", "handle", "expired"} => q.http.path # <<id>>
      BY <2>3 DEF InFlight
    <3> HIDE DEF q
    <3>3. q.http.path # <<id>> /\ Sought(q, volumes) => Sought(q, volumes')
      BY <1>1 DEF Sought
    <3>4. ReachOK(q, volumes')
      BY <2>1, <3>2, <3>3 DEF RequestOK, ReachOK
    <3>5. QED
      BY <2>1, <3>1, <3>4 DEF RequestOK
  <2>4. QED
    BY <2>2, <2>3
<1>3. QED
  BY <1>1, <1>2 DEF IInv

-----------------------------------------------------------------------------
(* The invariant.                                                          *)

LEMMA InitOK == Init => IInv
<1> SUFFICES ASSUME Init PROVE IInv
  OBVIOUS
<1>1. RequestOK(NewRequest, volumes)
  BY DEF RequestOK, PhaseOK, ReachOK, NewRequest, Heads, Callable
<1>2. QED
  BY <1>1 DEF Init, IInv

LEMMA Inductive == IInv /\ [Next]_vars => IInv'
<1> SUFFICES ASSUME IInv, [Next]_vars PROVE IInv'
  OBVIOUS
<1>1. ASSUME NEW r \in Requests, NEW m \in Sent, Send(r, m) PROVE IInv'
  BY <1>1, SendStep
<1>2. ASSUME NEW r \in Requests, Step(r) PROVE IInv'
  BY <1>2, openAPIValidationStep, ServeHTTPStep, CreateRefusedStep, CreateVolumeStep, LookStep,
     ListStep, HealthStep, StoreFailsStep, VisitStep, PanicStep, LoggingStep, RecoveryStep,
     ParseStep, DeadlineStep, BreakStep DEF Step
<1>3. ASSUME NEW id \in volumes, Vanish(id) PROVE IInv'
  BY <1>3, VanishStep
<1>4. CASE UNCHANGED vars
  BY <1>4 DEF vars, IInv
<1>5. QED
  BY <1>1, <1>2, <1>3, <1>4 DEF Next

\* Every reachable state satisfies the inductive invariant, whatever the calls, the
\* other clients' requests, the ids, the document's patterns and the timeout.
THEOREM Invariance == Spec => []IInv
<1>1. QED
  BY InitOK, Inductive, PTL DEF Spec

-----------------------------------------------------------------------------
(* What the runs check, for every value of the constants.                  *)

\* What is known of a request whose answer was received.
LEMMA GotServed ==
    ASSUME IInv, NEW r \in Requests, Got(r)
    PROVE  LET q == req[r]
           IN  /\ RequestOK(q, volumes) /\ q.pc = "done" /\ q.conn # "down" /\ Served(q)
               /\ q.log \in {None, q.head}
               /\ q.called # None => q.got = Parse(q.called, q)
  BY DEF IInv, RequestOK, PhaseOK, Got, NewRequest

LEMMA TypeFollows == IInv => TypeOK
<1> SUFFICES ASSUME IInv PROVE TypeOK
  OBVIOUS
<1>1. ASSUME NEW r \in Requests
      PROVE  /\ req[r].pc \in {"new", "middleware", "route", "handle", "expired", "visit",
                               "return", "panicking", "aborting", "answered", "done"}
             /\ req[r].handler \in Operations \cup {None, "emptyID", "NotFound", "MethodNotAllowed"}
             /\ req[r].head \in Heads
  BY DEF IInv, RequestOK, PhaseOK
<1>2. ASSUME NEW r \in Requests, Got(r)
      PROVE  req[r].head # 0
  <2> DEFINE q == req[r]
  <2>1. Served(q)
    BY <1>2, GotServed
  <2> HIDE DEF q
  <2>2. q.head # 0
    BY <2>1, Tables DEF Served, ErrorCodes
  <2>3. QED
    BY <2>2 DEF q
<1>3. QED
  BY <1>1, <1>2 DEF IInv, TypeOK, Heads

\* Every volume has an id that the API accepts, every request is somewhere in the
\* stack of middlewares that server.go New builds, and no client gets an answer
\* whose status line no layer wrote.
THEOREM TypeCorrect == Spec => []TypeOK
<1>1. QED
  BY Invariance, TypeFollows, PTL

LEMMA WellFormedFollows == IInv => AnswersWellFormed
<1> SUFFICES ASSUME IInv, NEW r \in Requests, Got(r)
             PROVE  LET w == req[r]
                    IN  /\ w.body.kind # "mixed"
                        /\ w.body.kind = "Error" => w.body.status = w.head /\ w.ctype = "problem"
                        /\ w.head >= 400 /\ w.handler \notin {"NotFound", "MethodNotAllowed"} =>
                             w.body.kind = "Error"
  BY DEF AnswersWellFormed
<1> DEFINE q == req[r]
<1>1. Served(q)
  BY GotServed
<1> HIDE DEF q
<1>2. CASE q.body = NoBody /\ q.head \in {200, 204}
  BY <1>2 DEF NoBody, q
<1>3. CASE \/ q.body.kind = "text" /\ q.head = 404 /\ q.handler = "NotFound"
           \/ q.body = NoBody /\ q.head = 405 /\ q.handler = "MethodNotAllowed"
  BY <1>3 DEF NoBody, q
<1>4. CASE q.body = Problem(q.head) /\ q.head \in ErrorCodes /\ q.ctype = "problem"
  BY <1>4 DEF Problem, q
<1>5. CASE /\ q.handler \in Operations /\ q.head \in DOMAIN ResponseOf(q.handler)
           /\ q.body.kind = ResponseOf(q.handler)[q.head]
           /\ q.body.kind \notin {"none", "Error"} /\ q.ctype = "json"
  <2>1. /\ q.head \in Heads \ ({0, 405} \cup ErrorCodes)
        /\ q.body.kind \in {"VolumeList", "Volume", "Health"}
    BY <1>5, Tables
  <2>2. ~(q.head >= 400)
    BY <2>1 DEF Heads, ErrorCodes
  <2>3. QED
    BY <2>1, <2>2 DEF q
<1>6. QED
  BY <1>1, <1>2, <1>3, <1>4, <1>5 DEF Served

\* Whatever strikes in whichever layer, an answer is never continued by another, and
\* an error of a routed request is a problem report that says the status line's
\* status (server.go recoveryMiddleware and New, httperror/write.go).
THEOREM AnswersAreWellFormed == Spec => []AnswersWellFormed
<1>1. QED
  BY Invariance, WellFormedFollows, PTL

\* The status in the access log is the one that the client saw
\* (server.go statusRecordingResponseWriter, requestLoggingMiddleware).
THEOREM LogTellsTheStatus == Spec => []LoggedAsSent
<1>1. IInv => LoggedAsSent
  BY GotServed DEF LoggedAsSent
<1>2. QED
  BY <1>1, Invariance, PTL

\* GET and DELETE reach every volume that POST accepted, for as long as it exists
\* (validation.go reservedVolumeIDs, the routes of server.gen.go, openapi.yaml).
THEOREM AcceptedReachable == Spec => []AcceptedIsReachable
<1>1. IInv => AcceptedIsReachable
  BY GotServed DEF AcceptedIsReachable, RequestOK, ReachOK, Looking
<1>2. QED
  BY <1>1, Invariance, PTL

LEMMA DecodesFollows == IInv => ClientDecodes
<1> SUFFICES ASSUME IInv, NEW r \in Requests, Got(r), req[r].called # None,
                    req[r].handler = req[r].called,
                    req[r].head \in DOMAIN ResponseOf(req[r].called),
                    req[r].body.kind # "none"
             PROVE  req[r].got = req[r].body.kind
  BY DEF ClientDecodes
<1> DEFINE q == req[r]
<1>1. Served(q) /\ q.got = Parse(q.called, q) /\ RequestOK(q, volumes)
  BY GotServed
<1>2. /\ q.handler = q.called /\ q.head \in DOMAIN ResponseOf(q.called)
      /\ q.body.kind # "none" /\ q.called # None
  OBVIOUS
<1> HIDE DEF q
<1>3. q.called \in Operations
  BY <1>1, <1>2 DEF RequestOK, Callable
<1>4. PICK kind : /\ kind = ResponseOf(q.called)[q.head] /\ q.body.kind = kind
                  /\ q.ctype \in {"json", "problem"}
  <2>1. q.head # 405
    BY <1>2, <1>3, Tables
  <2>2. q.handler \notin {"NotFound", "MethodNotAllowed"}
    BY <1>2, <1>3 DEF Operations
  <2>3. q.body # NoBody
    BY <1>2 DEF NoBody
  <2>4. CASE q.body = Problem(q.head) /\ q.head \in ErrorCodes /\ q.ctype = "problem"
    BY <1>2, <1>3, <2>4, Tables DEF Problem
  <2>5. CASE q.body.kind = ResponseOf(q.handler)[q.head] /\ q.ctype = "json"
    BY <1>2, <2>5
  <2>6. QED
    BY <1>1, <2>2, <2>3, <2>4, <2>5 DEF Served
<1>5. /\ q.head \in DOMAIN Decoded(q.called) /\ Decoded(q.called)[q.head] = kind
      /\ kind \in {"VolumeList", "Volume", "Health", "Error"}
  BY <1>2, <1>3, <1>4, Tables
<1>6. Parse(q.called, q) = kind
  BY <1>4, <1>5 DEF Parse
<1>7. QED
  BY <1>1, <1>4, <1>6 DEF q

\* The generated client decodes what the generated server encodes, whichever layer
\* answered (client.gen.go Parse..., server.gen.go Visit..., errors.go).
THEOREM ClientUnderstands == Spec => []ClientDecodes
<1>1. QED
  BY Invariance, DecodesFollows, PTL
===============================================================================

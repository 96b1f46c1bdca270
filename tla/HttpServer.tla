------------------------------ MODULE HttpServer ------------------------------
(***************************************************************************)
(* One HTTP request from the generated client to its answer:               *)
(*                                                                         *)
(*   recovery > logging > timeout > OpenAPI validation   (server.go New)   *)
(*     > chi route > parameter binding > strict handler  (server.gen.go)   *)
(*     > composite > health or volume handler > repository                 *)
(*                                                                         *)
(* and back through the same layers.  Requests meet in the repository      *)
(* only, whose calls take effect as VolumeRepository says (VolumeService   *)
(* shows that the store's do).  The deadline, a client that leaves, a      *)
(* failing cluster and a panic may strike between any two steps.           *)
(***************************************************************************)
EXTENDS HttpClient

CONSTANTS
    Requests,        \* the requests of a behaviour
    Calls,           \* what the callers of the generated client ask for
    RawRequests,     \* requests that only other clients send
    OpenApiCapacity, \* the capacities that match the document's pattern
    RequestTimeout   \* 30 s in the code, 0 for none

Operations == {"ListVolumes", "CreateVolume", "GetHealth", "DeleteVolume", "GetVolume"}

ASSUME RequestsAssumption ==
    /\ RequestTimeout \in Nat
    /\ Operations \cup {"malformed", "undecodable", "twice"} \subseteq STRING
    /\ \A call \in Calls : call.op \in Operations /\ RequestOf(call).fault = None
    /\ RawRequests \cap {RequestOf(call) : call \in Calls} = {}

VARIABLES
    volumes,         \* the ids of the volumes in the namespace
    req              \* request -> its local state

vars == <<volumes, req>>

(* http: the request; called: the client's operation, None for other       *)
(* clients; handler: what chi routed to; resp: the response object;        *)
(* armed: the deadline is set; conn: "up" while an answer can still reach  *)
(* the client; head, ctype, body: the response as it was written           *)
(* (head 0: nothing yet); wrote: wroteHeader of the recovery's recorder;   *)
(* status: statusCode of the logging's; log: the status in the access      *)
(* log; got: what the client made of it; stayed: history, the volume of    *)
(* this id was there since the request was sent.                           *)
NoBody == [kind |-> "none", status |-> 0]

NewRequest ==
    [pc |-> "new", http |-> None, called |-> None, handler |-> None, resp |-> None,
     armed |-> FALSE, conn |-> "up", head |-> 0, ctype |-> None,
     body |-> NoBody, wrote |-> FALSE, status |-> 200, log |-> None, got |-> None,
     stayed |-> FALSE]

Init ==
    /\ volumes \in SUBSET (AepIds \ ReservedVolumeIDs)
    /\ req = [r \in Requests |-> NewRequest]

Set(r, q) == req' = [req EXCEPT ![r] = q]

-----------------------------------------------------------------------------
(* Writing: w below is a request's state, and so is the result.            *)

\* A mutant: a status code is recorded by the first write of a body only.
StatusRecorderForgets(w, code) ==
    [w EXCEPT !.wrote = TRUE, !.head = IF @ = 0 THEN code ELSE @]

\* Through both recorders; net/http ignores all but the first.
WriteHeader(w, code) ==
    [w EXCEPT !.wrote = TRUE, !.status = code, !.head = IF @ = 0 THEN code ELSE @]

\* Headers can be set until the status line is written.
SetContentType(w, ctype) == IF w.head = 0 THEN [w EXCEPT !.ctype = ctype] ELSE w

Write(w, body) ==
    [w EXCEPT !.body = IF @ = NoBody THEN body ELSE [kind |-> "mixed", status |-> 0]]

Problem(code) == [kind |-> "Error", status |-> code]

\* httperror.WriteResponse; the body's status is the one it is given.
WriteResponse(w, code) ==
    Write(WriteHeader(SetContentType(w, "problem"), code), Problem(code))

badRequestHandler(w) == WriteResponse(w, 400)

ResponseErrorHandler(w) == WriteResponse(w, 500)

\* http.Error of net/http, also chi's 404.
PlainError(w, code) ==
    Write(WriteHeader(SetContentType(w, "text"), code), [kind |-> "text", status |-> 0])

\* chi's 405: a status line without a body.
methodNotAllowedHandler(w) == WriteHeader(w, 405)

\* A mutant: the strict handler keeps the default of NewStrictHandler.
RequestErrorHandlerDefault(w) == PlainError(w, 400)

RequestErrorHandler(w) == badRequestHandler(w)

-----------------------------------------------------------------------------
(* The way in.                                                             *)

\* What is sent: by the generated client for a call, or by other clients.
Sent ==
    {[http |-> RequestOf(call), called |-> call.op] : call \in Calls}
    \cup {[http |-> http, called |-> None] : http \in RawRequests}

Send(r, m) ==
    /\ req[r].pc = "new"
    /\ Set(r, [NewRequest EXCEPT !.pc = "middleware", !.http = m.http, !.called = m.called,
                 !.stayed = Len(m.http.path) = 1 /\ m.http.path[1] \in volumes])
    /\ UNCHANGED volumes

\* A mutant: a positive timeout, too, disables the middleware.
requestTimeoutMiddlewareOff(w) == w

requestTimeoutMiddleware(w) == [w EXCEPT !.armed = RequestTimeout > 0]

VolumeAccessMode == {"ReadWriteOnce", "ReadOnlyMany", "ReadWriteMany"}
VolumeMode == {"Filesystem", "Block"}

\* The schema of a Volume without read-only fields.
SchemaAllows(in) ==
    /\ in.serviceType = "storage"
    /\ in.name \in AepIds
    /\ in.capacity \in OpenApiCapacity
    /\ in.accessMode \in VolumeAccessMode \cup {None}
    /\ in.volumeMode \in VolumeMode \cup {None}

\* The faults: a body that is "malformed"; one that is "undecodable", whose fields
\* the schema does not know but encoding/json, which ignores case, does; a
\* parameter given "twice", of which the document's check takes the first.
DocumentAllows(http) ==
    LET p == http.path
    IN  CASE p = <<>> /\ http.method = "GET" -> http.size \in {None} \cup 1..1000
          [] p = <<>> /\ http.method = "POST" ->
               /\ http.id \in AepIds \cup {None}
               /\ http.fault # "malformed"
               /\ http.fault = "undecodable" \/ SchemaAllows(http.body)
          [] p \in {<<"health">>, <<Unset>>, Elsewhere} \/ http.method \notin {"GET", "DELETE"} -> TRUE
          [] OTHER -> p[1] \in AepIds

\* The outer middlewares, up to the document's verdict.
openAPIValidationMiddleware(r) ==
    /\ req[r].pc = "middleware"
    /\ LET w == requestTimeoutMiddleware(req[r])
       IN  Set(r, IF DocumentAllows(w.http)
                  THEN [w EXCEPT !.pc = "route"]
                  ELSE [badRequestHandler(w) EXCEPT !.pc = "return"])
    /\ UNCHANGED volumes

\* The routes of HandlerWithOptions and the two guards of New, most specific first.
Route(http) ==
    LET p == http.path
    IN  CASE p = <<>> /\ http.method = "GET" -> "ListVolumes"
          [] p = <<>> /\ http.method = "POST" -> "CreateVolume"
          [] p = <<Unset>> /\ http.method \in {"GET", "DELETE"} -> "emptyID"
          [] p = <<"health">> /\ http.method = "GET" -> "GetHealth"
          [] Len(p) = 1 /\ p # <<Unset>> /\ http.method = "DELETE" -> "DeleteVolume"
          [] Len(p) = 1 /\ p # <<Unset>> /\ http.method = "GET" -> "GetVolume"
          [] p = Elsewhere -> "NotFound"
          [] OTHER -> "MethodNotAllowed"

\* ServerInterfaceWrapper: a single-valued parameter may not be given twice.
Binds(http) == http.fault # "twice"

\* chi, then the wrapper, then what the strict handler does before its handler.
ServeHTTP(r) ==
    /\ req[r].pc = "route"
    /\ LET w == req[r]
           to == Route(w.http)
           routed == [w EXCEPT !.handler = to]
       IN  Set(r, CASE to = "NotFound" -> [PlainError(routed, 404) EXCEPT !.pc = "return"]
                    [] to = "MethodNotAllowed" ->
                         [methodNotAllowedHandler(routed) EXCEPT !.pc = "return"]
                    [] to = "emptyID" -> [WriteResponse(routed, 400) EXCEPT !.pc = "return"]
                    [] to \in Operations /\ ~Binds(w.http) ->
                         [badRequestHandler(routed) EXCEPT !.pc = "return"]
                    [] to \in Operations /\ Binds(w.http) /\ w.http.fault = "undecodable" ->
                         [RequestErrorHandler(routed) EXCEPT !.pc = "return"]
                    [] OTHER -> [routed EXCEPT !.pc = "handle"])
    /\ UNCHANGED volumes

-----------------------------------------------------------------------------
(* The handlers.  A response object is [code, ctype, body].                *)

Response(code, ctype, kind) ==
    [code |-> code, ctype |-> ctype,
     body |-> [kind |-> kind, status |-> IF kind = "Error" THEN code ELSE 0]]

\* The response types of server.gen.go.
ListVolumesResponse == Answers(200, "VolumeList", {400, 500})
CreateVolumeResponse == Answers(201, "Volume", {400, 409, 422, 500})
GetHealthResponse == Answers(200, "Health", {})
DeleteVolumeResponse == Answers(204, "none", {404, 500})
GetVolumeResponse == Answers(200, "Volume", {404, 500})

ResponseOf(op) ==
    CASE op = "ListVolumes" -> ListVolumesResponse
      [] op = "CreateVolume" -> CreateVolumeResponse
      [] op = "GetHealth" -> GetHealthResponse
      [] op = "DeleteVolume" -> DeleteVolumeResponse
      [] op = "GetVolume" -> GetVolumeResponse

Respond(r, code) ==
    LET kind == ResponseOf(req[r].handler)[code]
    IN  Set(r, [req[r] EXCEPT !.pc = "visit",
                  !.resp = Response(code, CASE kind = "Error" -> "problem"
                                            [] kind = "none" -> None
                                            [] OTHER -> "json", kind)])

\* "expired": as "handle", with the request's context done.
Handles(r, op) == req[r].pc \in {"handle", "expired"} /\ req[r].handler = op

Input(http) == IF http.id = None THEN http.body ELSE [http.body EXCEPT !.id = http.id]

\* What the handler or the store refuses before it asks for the claim.
CreateRefused(r) ==
    /\ Handles(r, "CreateVolume")
    /\ LET in == Input(req[r].http)
       IN  \/ (~ValidCreate(in) \/ ~Buildable(in)) /\ Respond(r, 400)
           \/ ValidCreate(in) /\ resolveStorageClass(in) # Unset /\ Respond(r, 422)
    /\ UNCHANGED volumes

CreateVolume(r) ==
    /\ Handles(r, "CreateVolume")
    /\ LET in == Input(req[r].http)
       IN  /\ ValidCreate(in) /\ Buildable(in)
           /\ IF InstanceId(in) \in volumes
              THEN Respond(r, 409) /\ UNCHANGED volumes
              ELSE /\ volumes' = volumes \cup {InstanceId(in)}
                   /\ \E code \in {201, 500} : Respond(r, code)

GetVolume(r) ==
    /\ Handles(r, "GetVolume")
    /\ Respond(r, IF req[r].http.path[1] \in volumes THEN 200 ELSE 404)
    /\ UNCHANGED volumes

\* The claim stays until its finalizers are done (Vanish).
DeleteVolume(r) ==
    /\ Handles(r, "DeleteVolume")
    /\ Respond(r, IF req[r].http.path[1] \in volumes THEN 204 ELSE 404)
    /\ UNCHANGED volumes

\* 400: a page token that nobody issued.
ListVolumes(r) ==
    /\ Handles(r, "ListVolumes")
    /\ \E code \in {200, 400} : Respond(r, code)
    /\ UNCHANGED volumes

\* CheckHealth pays no attention to the context; client-go gives up by itself.
GetHealth(r) ==
    /\ Handles(r, "GetHealth")
    /\ Respond(r, 200)
    /\ UNCHANGED volumes

\* The store fails: for the done context, or for whatever reason.
StoreFails(r) ==
    /\ \E op \in Operations \ {"GetHealth"} : Handles(r, op)
    /\ Respond(r, 500)
    /\ UNCHANGED volumes

\* The rest of the strict handler.  On a broken connection the write may fail,
\* and the error handler writes over what was written.
VisitResponse(r) ==
    /\ req[r].pc = "visit"
    /\ LET w == req[r]
           head == WriteHeader(SetContentType(w, w.resp.ctype), w.resp.code)
           whole == Write(head, w.resp.body)
       IN  \/ Set(r, [whole EXCEPT !.pc = "return"])
           \/ /\ w.conn = "down" /\ w.resp.body.kind # "none"
              /\ Set(r, [ResponseErrorHandler(whole) EXCEPT !.pc = "return"])
    /\ UNCHANGED volumes

\* What a handler behind the middlewares may do: panic, before or after it began
\* to write, on its own account or to abort the connection.
Panic(r, streaming, abort) ==
    /\ req[r].pc \in {"handle", "expired"}
    /\ LET w == IF streaming THEN WriteHeader(SetContentType(req[r], "json"), 200) ELSE req[r]
       IN  Set(r, [w EXCEPT !.pc = IF abort THEN "aborting" ELSE "panicking"])
    /\ UNCHANGED volumes

-----------------------------------------------------------------------------
(* The way out.                                                            *)

requestLoggingMiddleware(r) ==
    /\ req[r].pc = "return"
    /\ Set(r, [req[r] EXCEPT !.log = req[r].status, !.pc = "answered"])
    /\ UNCHANGED volumes

\* A mutant: an answer is written whatever the handler has written.
recoveryMiddlewareAlways(r) ==
    /\ req[r].pc \in {"panicking", "aborting"}
    /\ Set(r, IF req[r].pc = "aborting"
              THEN [req[r] EXCEPT !.conn = "down", !.pc = "answered"]
              ELSE [WriteResponse(req[r], 500) EXCEPT !.pc = "answered"])
    /\ UNCHANGED volumes

\* A panic skips the logging.  The answer bypasses both recorders.
recoveryMiddleware(r) ==
    /\ req[r].pc \in {"panicking", "aborting"}
    /\ LET w == req[r]
       IN  Set(r, CASE w.pc = "aborting" -> [w EXCEPT !.conn = "down", !.pc = "answered"]
                    [] w.pc = "panicking" /\ w.wrote -> [w EXCEPT !.pc = "answered"]
                    [] OTHER -> [WriteResponse(w, 500) EXCEPT !.pc = "answered",
                                   !.wrote = w.wrote, !.status = w.status])
    /\ UNCHANGED volumes

\* net/http sends what was written and the client parses it.  Of a request that is
\* over the state keeps what it was and what the client got; nothing, if that is lost.
ParseResponse(r) ==
    /\ req[r].pc = "answered"
    /\ LET w == req[r]
       IN  Set(r, IF w.conn = "down"
                  THEN [NewRequest EXCEPT !.pc = "done", !.got = "lost"]
                  ELSE [w EXCEPT !.pc = "done", !.armed = FALSE, !.resp = None,
                          !.wrote = FALSE, !.status = 200,
                          !.got = IF w.called = None THEN "raw" ELSE Parse(w.called, w)])
    /\ UNCHANGED volumes

-----------------------------------------------------------------------------
(* The rest of the world.                                                  *)

InFlight(r) == req[r].pc \notin {"new", "done"}

\* Nothing else looks at the context.
Deadline(r) ==
    /\ req[r].pc = "handle" /\ req[r].armed
    /\ Set(r, [req[r] EXCEPT !.pc = "expired"])
    /\ UNCHANGED volumes

\* The client leaves (the context it ends may as well be ended by the deadline), or
\* the server's write deadline passes.
ConnectionBreaks(r) ==
    /\ InFlight(r) /\ req[r].conn = "up"
    /\ Set(r, [req[r] EXCEPT !.conn = "down"])
    /\ UNCHANGED volumes

\* A claim goes: after a DELETE, or at the hands of others.
Vanish(id) ==
    /\ id \in volumes
    /\ volumes' = volumes \ {id}
    /\ req' = [r \in Requests |->
         IF InFlight(r) /\ req[r].http.path = <<id>>
         THEN [req[r] EXCEPT !.stayed = FALSE] ELSE req[r]]

-----------------------------------------------------------------------------
Step(r) ==
    \/ openAPIValidationMiddleware(r)
    \/ ServeHTTP(r)
    \/ CreateRefused(r)
    \/ CreateVolume(r)
    \/ GetVolume(r)
    \/ DeleteVolume(r)
    \/ ListVolumes(r)
    \/ GetHealth(r)
    \/ StoreFails(r)
    \/ VisitResponse(r)
    \/ \E streaming, abort \in BOOLEAN : Panic(r, streaming, abort)
    \/ requestLoggingMiddleware(r)
    \/ recoveryMiddleware(r)
    \/ ParseResponse(r)
    \/ Deadline(r)
    \/ ConnectionBreaks(r)

Next ==
    \/ \E r \in Requests :
          \/ \E m \in Sent : Send(r, m)
          \/ Step(r)
    \/ \E id \in volumes : Vanish(id)

\* Code runs on, deadlines pass, and a store call ends once its context is done
\* (client-go); until then the cluster may keep it waiting.  Only the check of
\* the cluster's health ends without a context.
Fairness ==
    \A r \in Requests :
        /\ WF_vars(openAPIValidationMiddleware(r))
        /\ WF_vars(ServeHTTP(r))
        /\ WF_vars(GetHealth(r))
        /\ WF_vars(req[r].pc = "expired" /\ StoreFails(r))
        /\ WF_vars(VisitResponse(r))
        /\ WF_vars(requestLoggingMiddleware(r))
        /\ WF_vars(recoveryMiddleware(r))
        /\ WF_vars(ParseResponse(r))
        /\ WF_vars(Deadline(r))

Spec == Init /\ [][Next]_vars

FairSpec == Spec /\ Fairness

-----------------------------------------------------------------------------
Got(r) == req[r].pc = "done" /\ req[r].got # "lost"

(* Types: every volume is one whose id the API accepts, and every layer's  *)
(* way out of a request writes a status line.                              *)
TypeOK ==
    /\ volumes \subseteq AepIds \ ReservedVolumeIDs
    /\ \A r \in Requests :
         /\ req[r].pc \in {"new", "middleware", "route", "handle", "expired", "visit", "return",
                           "panicking", "aborting", "answered", "done"}
         /\ req[r].handler \in Operations \cup {None, "emptyID", "NotFound", "MethodNotAllowed"}
         /\ req[r].head \in {0, 200, 201, 204, 400, 404, 405, 409, 422, 500}
         /\ Got(r) => req[r].head # 0

(* Whatever strikes in whichever layer, a client gets at most one answer:  *)
(* its body is never continued by another, a problem report says the       *)
(* status that the status line says and is labelled as one, and every      *)
(* error of a routed request is a problem report (server.go recovery-      *)
(* Middleware, New; httperror/write.go; REQ-HTTP-070, REQ-HTTP-091).       *)
AnswersWellFormed ==
    \A r \in Requests : Got(r) =>
        LET w == req[r]
        IN  /\ w.body.kind # "mixed"
            /\ w.body.kind = "Error" => w.body.status = w.head /\ w.ctype = "problem"
            /\ w.head >= 400 /\ w.handler \notin {"NotFound", "MethodNotAllowed"} =>
                 w.body.kind = "Error"

(* The access log tells the status that the client saw, if it saw any      *)
(* (server.go statusRecordingResponseWriter, requestLoggingMiddleware).    *)
LoggedAsSent ==
    \A r \in Requests : Got(r) /\ req[r].log # None => req[r].log = req[r].head

(* A volume that POST accepted is one that GET and DELETE of the same      *)
(* client reach: while it exists neither route nor binding nor validation  *)
(* nor lookup refuses its id, and what GET decodes is a Volume             *)
(* (validation.go reservedVolumeIDs against the routes of server.gen.go    *)
(* and the patterns of openapi.yaml).                                      *)
AcceptedIsReachable ==
    \A r \in Requests :
        (Got(r) /\ req[r].stayed /\ req[r].called \in {"GetVolume", "DeleteVolume"}) =>
            /\ req[r].head \in {200, 204, 500}
            /\ req[r].head = 200 => req[r].body.kind \in {"Volume", "none"}

(* Client and server agree: an answer of the operation that was called,    *)
(* whichever layer gave it, is decoded into the type that was sent, if its *)
(* status is one of the operation's and no panic cut its body off          *)
(* (client.gen.go Parse..., server.gen.go Visit..., errors.go).            *)
ClientDecodes ==
    \A r \in Requests :
        (Got(r) /\ req[r].called # None /\ req[r].handler = req[r].called
           /\ req[r].head \in DOMAIN ResponseOf(req[r].called) /\ req[r].body.kind # "none") =>
              req[r].got = req[r].body.kind

(* Every request ends, even one whose store call the cluster never         *)
(* answers (server.go requestTimeoutMiddleware, REQ-HTTP-110).             *)
EveryRequestEnds == \A r \in Requests : InFlight(r) ~> req[r].pc = "done"
==============================================================================

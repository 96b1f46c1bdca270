------------------------------ MODULE HttpClient ------------------------------
(***************************************************************************)
(* The generated client (pkg/client/client.gen.go): the HTTP request it    *)
(* builds for an operation, and what it makes of the response.             *)
(*                                                                         *)
(* A path is what follows /api/v1alpha1/volumes, segment by segment, or    *)
(* Elsewhere; a fault is what only other clients get wrong.  A response is *)
(* [head, ctype, body]: status code, kind of Content-Type, and the JSON    *)
(* object it carries.                                                      *)
(***************************************************************************)
EXTENDS VolumeSpec

Elsewhere == <<"elsewhere", "elsewhere">>

HttpRequest(method, path) ==
    [method |-> method, path |-> path, id |-> None, size |-> None, body |-> None,
     fault |-> None]

NewListVolumesRequest(size) == [HttpRequest("GET", <<>>) EXCEPT !.size = size]

NewCreateVolumeRequest(id, body) ==
    [HttpRequest("POST", <<>>) EXCEPT !.id = id, !.body = body]

NewGetHealthRequest == HttpRequest("GET", <<"health">>)

\* url.Parse resolves dot segments; any other id is escaped into one segment.
VolumePath(id) ==
    CASE id \in {Unset, "."} -> <<Unset>>
      [] id = ".." -> Elsewhere
      [] OTHER -> <<id>>

NewDeleteVolumeRequest(id) == HttpRequest("DELETE", VolumePath(id))

NewGetVolumeRequest(id) == HttpRequest("GET", VolumePath(id))

\* A call is [op, id, size, body], with None for what op does not take.
RequestOf(call) ==
    CASE call.op = "ListVolumes" -> NewListVolumesRequest(call.size)
      [] call.op = "CreateVolume" -> NewCreateVolumeRequest(call.id, call.body)
      [] call.op = "GetHealth" -> NewGetHealthRequest
      [] call.op = "DeleteVolume" -> NewDeleteVolumeRequest(call.id)
      [] call.op = "GetVolume" -> NewGetVolumeRequest(call.id)

-----------------------------------------------------------------------------
(* Parsing: for each operation, the codes that it decodes and into what.   *)
(* json.Unmarshal fails on what is not one JSON object; it takes any other *)
(* object, whatever its fields.                                            *)

\* One successful code, whose answer is of a kind, and the codes of problem reports.
Answers(ok, kind, errors) ==
    [code \in {ok} \cup errors |-> IF code = ok THEN kind ELSE "Error"]

ParseListVolumesResponse == Answers(200, "VolumeList", {400, 500})

ParseCreateVolumeResponse == Answers(201, "Volume", {400, 409, 422, 500})

ParseGetHealthResponse == Answers(200, "Health", {})

ParseDeleteVolumeResponse == [code \in {404, 500} |-> "Error"]

\* A mutant: "not found" is left to the caller.
ParseGetVolumeResponseNo404 == Answers(200, "Volume", {500})

ParseGetVolumeResponse == Answers(200, "Volume", {404, 500})

Decoded(op) ==
    CASE op = "ListVolumes" -> ParseListVolumesResponse
      [] op = "CreateVolume" -> ParseCreateVolumeResponse
      [] op = "GetHealth" -> ParseGetHealthResponse
      [] op = "DeleteVolume" -> ParseDeleteVolumeResponse
      [] op = "GetVolume" -> ParseGetVolumeResponse

\* What the caller gets: an error, a typed field, or the status code only.
Parse(op, rsp) ==
    IF rsp.ctype \notin {"json", "problem"} \/ rsp.head \notin DOMAIN Decoded(op)
    THEN "status"
    ELSE IF rsp.body.kind \in {"none", "mixed"} THEN "error"
    ELSE Decoded(op)[rsp.head]
==============================================================================

----------------------------- MODULE MCHttpServer -----------------------------
(***************************************************************************)
(* TLC instances of the HTTP server: the calls and requests that take      *)
(* every way through validation, routing, binding and handlers.            *)
(***************************************************************************)
EXTENDS HttpServer

NoLabels == [k \in {} |-> ""]

Plain ==
    [id |-> None, serviceType |-> "storage", capacity |-> "1Gi", name |-> "a",
     labels |-> NoLabels, storageClass |-> "", accessMode |-> None, volumeMode |-> None]

Classed == [Plain EXCEPT !.storageClass = "fast"]
Health == [Plain EXCEPT !.name = "health"]
KiloBytes == [Plain EXCEPT !.capacity = "1K"]     \* allowed by the document only

Call(op) == [op |-> op, id |-> None, size |-> None, body |-> None]
Create(body) == [Call("CreateVolume") EXCEPT !.body = body]
Item(op, id) == [Call(op) EXCEPT !.id = id]

TestCalls ==
    {Create(body) : body \in {Classed, Health, KiloBytes}}
    \cup {[Create(Plain) EXCEPT !.id = "health"]}
    \cup {Item("GetVolume", id) : id \in {"a", "health", "A", ".."}}
    \cup {Item("DeleteVolume", id) : id \in {"a", "health", ""}}
    \cup {Call("ListVolumes"), [Call("ListVolumes") EXCEPT !.size = 2000], Call("GetHealth")}

TestRequests ==
    {[HttpRequest("GET", <<>>) EXCEPT !.fault = "twice"],
     HttpRequest("PUT", <<>>),
     [HttpRequest("POST", <<>>) EXCEPT !.fault = "malformed"],
     [HttpRequest("POST", <<>>) EXCEPT !.fault = "undecodable"]}

Ids == {"a", "health"}
Capacities == {"1Gi", "1024Mi", "1K"}
==============================================================================

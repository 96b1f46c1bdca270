--------------------------- MODULE VolumeRepository ---------------------------
(***************************************************************************)
(* What the volume repository (internal/store/repository.go) promises its  *)
(* concurrent callers, without claims, labels, pages or calls to a         *)
(* cluster.  A name is free, holds a volume, or is taken by something      *)
(* else.  Create takes effect in one step and never over what holds the    *)
(* name; Get and List, whatever their number of pages, answer with what    *)
(* one moment held; Delete finds a volume first and marks what holds its   *)
(* name in a later step.  A call that fails may have taken effect.         *)
(***************************************************************************)
EXTENDS Positions

CONSTANTS
    Callers,     \* the concurrent calls
    Ids,         \* what callers may ask a volume to be called
    Names,       \* the names of the namespace
    NameOrder,   \* the names, in the order that listings show them
    Nothing      \* not a name nor an answer

VARIABLES
    held,        \* name -> "free", "volume" or "other"
    doomed,      \* the names whose holder is on its way out
    calls        \* caller -> its call

vars == <<held, doomed, calls>>

\* list: {} until the listing's moment, then the set of the names it shows in order.
Asked(op, id, answer) == [op |-> op, id |-> id, found |-> FALSE, list |-> {}, answer |-> answer]
Idle == Asked(Nothing, Nothing, Nothing)

Init ==
    /\ held \in [Names -> {"free", "volume"}]
    /\ doomed = {}
    /\ calls = [c \in Callers |-> Idle]

-----------------------------------------------------------------------------
Answer(c, a) == calls' = [calls EXCEPT ![c].answer = a]

\* Arguments that no volume can have or no listing can use are refused at once.
Call(c) ==
    /\ \/ \E op \in {"create", "get", "delete"}, id \in Names :
             calls'[c] = Asked(op, id, Nothing)
       \/ \E id \in Ids : calls'[c] = Asked("create", id, "refused")
       \/ \E a \in {Nothing, "refused"} : calls'[c] = Asked("list", Nothing, a)
    /\ UNCHANGED <<held, doomed>>
    /\ \A d \in Callers \ {c} : calls'[d] = calls[d]

Refuse(c) ==
    /\ Answer(c, "refused")
    /\ UNCHANGED <<held, doomed>>

Create(c) ==
    /\ held[calls[c].id] = "free"
    /\ held' = [held EXCEPT ![calls[c].id] = "volume"]
    /\ \E a \in {"ok", "error"} : Answer(c, a)
    /\ UNCHANGED doomed

Exists(c) ==
    /\ held[calls[c].id] # "free"
    /\ Answer(c, "exists")
    /\ UNCHANGED <<held, doomed>>

Get(c) ==
    /\ Answer(c, IF held[calls[c].id] = "volume" THEN "ok" ELSE "missing")
    /\ UNCHANGED <<held, doomed>>

DeleteFind(c) ==
    /\ ~calls[c].found
    /\ IF held[calls[c].id] = "volume"
       THEN calls' = [calls EXCEPT ![c].found = TRUE]
       ELSE Answer(c, "missing")
    /\ UNCHANGED <<held, doomed>>

Delete(c) ==
    /\ calls[c].found
    /\ doomed' = doomed \cup ({calls[c].id} \ {n \in Names : held[n] = "free"})
    /\ \E a \in {"ok", "error"} : Answer(c, a)
    /\ UNCHANGED held

VolumeNames == Pick(NameOrder, {k \in DOMAIN NameOrder : held[NameOrder[k]] = "volume"})

\* The moment that a listing shows; a short one is answered in the same step.
List(c) ==
    /\ calls[c].list = {}
    /\ \E a \in {Nothing, "ok"} :
         calls' = [calls EXCEPT ![c].answer = a, ![c].list = {VolumeNames}]
    /\ UNCHANGED <<held, doomed>>

ListReturn(c) ==
    /\ calls[c].list # {}
    /\ Answer(c, "ok")
    /\ UNCHANGED <<held, doomed>>

\* A call that fails without effect; a listing may be given up after some pages.
Fail(c) ==
    /\ Answer(c, "error")
    /\ UNCHANGED <<held, doomed>>

\* Every step of a call moves it, which spares TLC the others.
Step(c) ==
    LET call == calls[c]
    IN  /\ call.answer = Nothing
        /\ calls'[c] # call
        /\ \/ call.op = Nothing /\ Call(c)
           \/ call.op = "create" /\ (Refuse(c) \/ Create(c) \/ Exists(c))
           \/ call.op = "get" /\ Get(c)
           \/ call.op = "delete" /\ (DeleteFind(c) \/ Delete(c))
           \/ call.op = "list" /\ (List(c) \/ ListReturn(c))
           \/ call.op # Nothing /\ Fail(c)

-----------------------------------------------------------------------------
(* The namespace belongs to others too.                                    *)

Appear(n) == held[n] = "free" /\ held' = [held EXCEPT ![n] = "other"] /\ UNCHANGED <<doomed, calls>>

Doom(n) == held[n] # "free" /\ doomed' = doomed \cup {n} /\ UNCHANGED <<held, calls>>

Vanish(n) ==
    /\ n \in doomed
    /\ held' = [held EXCEPT ![n] = "free"]
    /\ doomed' = doomed \ {n}
    /\ UNCHANGED calls

Next ==
    \/ \E c \in Callers : Step(c)
    \/ \E n \in Names : Appear(n) \/ Doom(n) \/ Vanish(n)

Spec == Init /\ [][Next]_vars
==============================================================================

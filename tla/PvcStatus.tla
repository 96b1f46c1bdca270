------------------------------ MODULE PvcStatus ------------------------------
(***************************************************************************)
(* internal/kubernetes/convert.go, MapPVCToStatus: the DCM status and      *)
(* message of a PersistentVolumeClaim.  A message is the tuple of its      *)
(* parts.                                                                  *)
(***************************************************************************)
EXTENDS Naturals, Sequences

\* A string field without a value.
Unset == ""

\* A status condition: its type, and whether its status is True.
Condition == [type : {"Resizing", "FileSystemResizePending", "other"}, true : BOOLEAN]

IsPvcState(p) ==
    /\ p.terminating \in BOOLEAN                          \* has a deletionTimestamp
    /\ p.phase \in {"Pending", "Bound", "Lost", "other"}
    /\ p.volumeName \in STRING                            \* "" until bound
    /\ p.conditions \in Seq(Condition)

\* The positions of the conditions that mean an active resize.
ResizeConditions(p) ==
    {k \in DOMAIN p.conditions :
        p.conditions[k].true /\ p.conditions[k].type # "other"}

\* The first of them in list order decides the message.
pvcResizeStatus(p) ==
    LET first == CHOOSE k \in ResizeConditions(p) :
                    \A l \in ResizeConditions(p) : k <= l
    IN  <<p.conditions[first].type>>

BoundMessage(p) ==
    IF p.volumeName = Unset THEN <<"PVC is bound">>
                         ELSE <<"PVC is bound to volume", p.volumeName>>

MapPVCToStatus(p) ==
    CASE p.terminating ->
           [status |-> "DELETING", message |-> <<"PVC is terminating">>]
      [] ~p.terminating /\ p.phase = "Pending" ->
           [status |-> "PROVISIONING", message |-> <<"PVC is pending binding">>]
      [] ~p.terminating /\ p.phase = "Lost" ->
           [status |-> "FAILED", message |-> <<"PVC is lost">>]
      [] ~p.terminating /\ p.phase = "Bound" /\ ResizeConditions(p) # {} ->
           [status |-> "PROVISIONING", message |-> pvcResizeStatus(p)]
      [] ~p.terminating /\ p.phase = "Bound" /\ ResizeConditions(p) = {} ->
           [status |-> "RUNNING", message |-> BoundMessage(p)]
      [] ~p.terminating /\ p.phase = "other" ->
           [status |-> "PROVISIONING", message |-> <<p.phase>>]

\* What the monitor reports of a claim that no longer exists.
DeletedStatus == [status |-> "DELETED", message |-> <<"resource no longer exists">>]

Statuses == {"PROVISIONING", "RUNNING", "FAILED", "DELETING", "DELETED"}
==============================================================================

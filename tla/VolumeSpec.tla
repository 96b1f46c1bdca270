------------------------------ MODULE VolumeSpec ------------------------------
(***************************************************************************)
(* What the volume API turns a create request into and back: validation    *)
(* (internal/handlers/volume/validation.go), DCM labels (internal/dcm,     *)
(* internal/kubernetes/labels.go) and the conversions between a            *)
(* StorageSpec, a PersistentVolumeClaim and a Volume                       *)
(* (internal/kubernetes/convert.go).                                       *)
(*                                                                         *)
(* A create input is a record [id, serviceType, capacity, name, labels,    *)
(* storageClass, accessMode, volumeMode]: id is the query parameter,       *)
(* labels a function on label keys, and an absent pointer is None.         *)
(***************************************************************************)
EXTENDS Naturals, Sequences, PvcStatus

CONSTANTS
    AepIds,               \* the ids that match the AEP-122 pattern
    DefaultStorageClass,  \* K8sConfig; "" leaves the choice to the cluster
    DefaultAccessMode,    \* K8sConfig; "" falls back to ReadWriteOnce
    ClusterDefaultClass,  \* the cluster's default StorageClass, Unset if it has none
    None                  \* an absent pointer

ASSUME NoneAssumption == None \notin STRING

\* The pattern matches no empty id.
ASSUME IdAssumption == Unset \notin AepIds

\* Words are strings: true of TLA+, but not known to its provers.
ASSUME WordAssumption ==
    {Unset, "create", "get", "delete", "list", "ok", "missing", "exists", "refused", "error"}
        \subseteq STRING

ReservedVolumeIDs == {"health"}

\* The keys that DCM owns stand for "dcm.project/managed-by", ".../dcm-instance-id"
\* and ".../dcm-service-type".
ReservedLabelKeys == {"managedBy", "instanceId", "serviceType"}

\* A mutant: the labels that Create writes are not those that lookups require.
LabelsWrongType(id) ==
    [managedBy |-> "dcm", instanceId |-> id, serviceType |-> "volume"]

Labels(id) ==
    [managedBy |-> "dcm", instanceId |-> id, serviceType |-> "storage"]

\* base wins.
MergeLabels(base, user) ==
    [k \in DOMAIN base \cup DOMAIN user |-> IF k \in DOMAIN base THEN base[k] ELSE user[k]]

HasLabel(pvc, key, value) == key \in DOMAIN pvc.labels /\ pvc.labels[key] = value

\* dcm.Selector, as the API server evaluates it.
Selected(pvc) == HasLabel(pvc, "managedBy", "dcm") /\ HasLabel(pvc, "serviceType", "storage")

\* A mutant: the label that ties a claim to its id is not compared.
isDCMManagedAnyInstance(pvc, id) == Selected(pvc)

isDCMManagedPVC(pvc, id) == Selected(pvc) /\ HasLabel(pvc, "instanceId", id)

-----------------------------------------------------------------------------
(* The handler's checks, in the order that CreateVolume runs them.         *)

\* The id parameter overrides metadata.name.
InstanceId(in) == IF in.id = None THEN in.name ELSE in.id

validateCreateSpec(in) ==
    in.serviceType = "storage" /\ in.capacity # Unset /\ InstanceId(in) # Unset

\* A mutant: the ids that routes take are not refused.
validateVolumeIDPatternOnly(id) == id \in AepIds

validateVolumeID(id) == id \notin ReservedVolumeIDs /\ id \in AepIds

validateUserLabels(in) == DOMAIN in.labels \cap ReservedLabelKeys = {}

ValidCreate(in) ==
    /\ validateCreateSpec(in)
    /\ validateVolumeID(InstanceId(in))
    /\ validateUserLabels(in)

-----------------------------------------------------------------------------
(* Building the claim.                                                     *)

\* resource.ParseQuantity and Quantity.String: what parses, in canonical form.
Quantity == [q \in {"1Gi", "1024Mi"} |-> "1Gi"]

AccessModes == {"ReadWriteOnce", "ReadOnlyMany", "ReadWriteMany"}
VolumeModes == {"Filesystem", "Block"}

resolveAccessMode(in) ==
    IF in.accessMode # None THEN in.accessMode
    ELSE IF DefaultAccessMode # Unset THEN DefaultAccessMode ELSE "ReadWriteOnce"

\* An explicit "" keeps the provider's default away, not the cluster's: it leaves
\* the claim without StorageClassName, as no hint and no default do.
resolveStorageClass(in) ==
    IF in.storageClass # None THEN in.storageClass ELSE DefaultStorageClass

\* buildPVC returns no InvalidArgumentError.
Buildable(in) ==
    /\ in.capacity \in DOMAIN Quantity
    /\ resolveAccessMode(in) \in AccessModes
    /\ in.volumeMode \in VolumeModes \cup {None}

\* The claim that the API server stores for the one Create sends: it fills in
\* the volume mode and, where StorageClassName is nil, the cluster's default class
\* (external), and the binder finds it Pending.
buildPVC(in, uid) ==
    [uid |-> uid,
     labels |-> MergeLabels(Labels(InstanceId(in)), in.labels),
     capacity |-> Quantity[in.capacity],
     storageClass |-> LET class == resolveStorageClass(in)
                      IN  IF class = Unset THEN ClusterDefaultClass ELSE class,
     accessMode |-> resolveAccessMode(in),
     volumeMode |-> IF in.volumeMode = None THEN "Filesystem" ELSE in.volumeMode,
     terminating |-> FALSE, phase |-> "Pending", volumeName |-> Unset, conditions |-> <<>>]

userLabelsFromPVC(pvc) ==
    [k \in DOMAIN pvc.labels \ ReservedLabelKeys |-> pvc.labels[k]]

\* path, create_time, update_time and volume_name are left out.
volumeFromPVC(pvc, name) ==
    [id |-> name,
     labels |-> userLabelsFromPVC(pvc),
     capacity |-> pvc.capacity,
     storageClass |-> pvc.storageClass,
     accessMode |-> pvc.accessMode,
     volumeMode |-> pvc.volumeMode,
     status |-> MapPVCToStatus(pvc).status]
==============================================================================

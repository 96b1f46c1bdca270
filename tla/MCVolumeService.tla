--------------------------- MODULE MCVolumeService ---------------------------
(***************************************************************************)
(* TLC instances of the volume API: two names, one StorageClass, POST      *)
(* bodies for each way through the checks.                                 *)
(***************************************************************************)
EXTENDS VolumeService, TLC

ClassNames == {"fast"}
TwoNames == <<"a", "b">>
ValidIds == {"a", "b", "health"}
NoLabels == [k \in {} |-> ""]

Plain ==
    [id |-> None, serviceType |-> "storage", capacity |-> "1Gi", name |-> "a",
     labels |-> NoLabels, storageClass |-> "", accessMode |-> None, volumeMode |-> None]

\* The id parameter renames, labels and hints are kept, the class is the provider's
\* default; Plain's empty hint leaves it to the cluster.
Full ==
    [id |-> "b", serviceType |-> "storage", capacity |-> "1024Mi", name |-> "a",
     labels |-> [app |-> "db"], storageClass |-> None, accessMode |-> "ReadWriteMany",
     volumeMode |-> "Block"]

Classed == [Plain EXCEPT !.storageClass = "fast"]
BadCapacity == [Classed EXCEPT !.capacity = "huge"]
BadMode == [Plain EXCEPT !.accessMode = "ReadWriteOncePod"]
Reserved == [Plain EXCEPT !.labels = [managedBy |-> "me"]]
HealthId == [Plain EXCEPT !.id = "health"]

Earlier == <<Plain, Full>>
Inputs == {Plain, Full, Classed, BadCapacity, BadMode, Reserved, HealthId}

\* Others' claims: with the labels of another instance, or unlabelled.
Strangers == {[managedBy |-> "dcm", instanceId |-> "z", serviceType |-> "storage"]}
Unlabelled == {NoLabels}
PlainOnly == {Plain}
PlainFirst == <<Plain>>
ListSizes == {0, 3}
ZeroSize == {0}

Symmetry == Permutations(Requests)
==============================================================================

------------------------------ MODULE MCCluster ------------------------------
(* Instances of Cluster for TLC. *)
EXTENDS Cluster

(* Three masters, two replicas of the last. *)
MCReplicaOf == [n \in {4, 5} |-> 3]

(* Two masters, two replicas of the second. *)
TwoReplicas == [n \in {3, 4} |-> 2]

(* CLUSTER SET-CONFIG-EPOCH gave each master an epoch of its own. *)
OwnEpoch == [n \in Master |-> n]

(* New masters settled their epochs among themselves: the greatest name    *)
(* kept 0 (clusterHandleConfigEpochCollision).                             *)
SettledEpoch == [n \in Master |-> Cardinality(Master) - n]
=============================================================================

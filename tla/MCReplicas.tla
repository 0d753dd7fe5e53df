---- MODULE MCReplicas ----
(* Replicas for TLC: the other constants are given in the .cfg files. *)
EXTENDS Replicas

\* Values for ReplicaCounts: the schema sets no minimum.
CountsFromBelowZero == {-1, 0, 1}
====

---- MODULE MCSnapshots ----
(* Snapshots for TLC.  A .cfg file has no negative numbers: the values of *)
(* constants that need one are defined here.                              *)
EXTENDS Snapshots

AnyRetained == {-1, 1}
AnyFloor == -1
====

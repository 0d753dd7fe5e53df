---- MODULE MCRestore ----
(* Restore for TLC: the constants are given in the .cfg files. *)
EXTENDS Restore
====

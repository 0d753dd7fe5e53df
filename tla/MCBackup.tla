---- MODULE MCBackup ----
(* Backup for TLC: the constants are given in the .cfg files. *)
EXTENDS Backup
====

---------------------------- MODULE BackupLife ------------------------------
(***************************************************************************)
(* What a DirectoryBackup whose name is used once promises, without        *)
(* controllers, caches, jobs and clones: some time after it was asked for, *)
(* the volume of its name holds the directory as it was then or later, and *)
(* nothing is reported before that.  Backup implements it (Backup!Life);   *)
(* BackupRestore relies on it.                                             *)
(***************************************************************************)
EXTENDS Integers

CONSTANT MaxData      \* bound: versions of the directory data

VARIABLES
    data,             \* the version of the directory data now
    asked,            \* the version when the backup was asked for, or 0
    live,             \* the DirectoryBackup exists
    kept,             \* contents of its volume
    reported          \* its status has a completion time

lifeVars == <<data, asked, live, kept, reported>>

NoVolume == -1
EmptyVolume == 0

LifeInit ==
    /\ data = 1
    /\ asked = 0 /\ live = FALSE /\ reported = FALSE
    /\ kept = NoVolume

Change ==
    /\ data < MaxData
    /\ data' = data + 1
    /\ UNCHANGED <<asked, live, kept, reported>>

Ask ==
    /\ asked = 0
    /\ asked' = data /\ live' = TRUE
    /\ UNCHANGED <<data, kept, reported>>

\* The resource is deleted; its volume stays.
Withdraw ==
    /\ live
    /\ live' = FALSE /\ reported' = FALSE
    /\ UNCHANGED <<data, asked, kept>>

MakeVolume ==
    /\ asked # 0 /\ kept = NoVolume
    /\ kept' = EmptyVolume
    /\ UNCHANGED <<data, asked, live, reported>>

\* An export, which may end after the resource was deleted.
Export ==
    /\ asked # 0 /\ kept # NoVolume
    /\ kept' \in {v \in asked .. data : v >= kept}
    /\ UNCHANGED <<data, asked, live, reported>>

Report ==
    /\ live
    /\ kept >= asked
    /\ reported' = TRUE
    /\ UNCHANGED <<data, asked, live, kept>>

LifeNext == Change \/ Ask \/ Withdraw \/ MakeVolume \/ Export \/ Report
LifeSpec == LifeInit /\ [][LifeNext]_lifeVars

=============================================================================

--------------------------- MODULE BackupRestore ----------------------------
(***************************************************************************)
(* A DirectoryRestore of what a DirectoryBackup keeps: Restore composed    *)
(* with the abstract specification of the backup, which Backup implements. *)
(* They share the volume that spec.sourcePvcName names: "source" is the    *)
(* backup's "kept".  Both run on their own; a restore may be asked for     *)
(* before, while and after the backup is made.                             *)
(***************************************************************************)
EXTENDS Restore

VARIABLES
    data, asked, live, reported,    \* see BackupLife
    promised                        \* history: the version that a completed
                                    \*   backup promised when dr was created

B == INSTANCE BackupLife WITH kept <- source, MaxData <- MaxSource

lifeVars == <<data, asked, live, reported>>
endToEndVars == <<restoreVars, lifeVars, promised>>

EndToEndInit ==
    /\ RestoreInit /\ B!LifeInit
    /\ promised = 0

\* A step of the restore, or of its cluster and users.
RestoreStep ==
    /\ RestorePass \/ RestoreCluster
    /\ promised' = IF creates' = creates THEN promised
                   ELSE IF reported THEN asked ELSE 0
    /\ UNCHANGED lifeVars

\* A step of the backup, or of its cluster and users.
BackupStep ==
    /\ B!LifeNext
    /\ UNCHANGED <<crVars, passVars, job, volume, snap, cacheVars, creates,
                   faults, promised>>

EndToEndNext == RestoreStep \/ BackupStep
EndToEndSpec == EndToEndInit /\ [][EndToEndNext]_endToEndVars

-----------------------------------------------------------------------------
\* directorybackup_types.go:77 and directoryrestore_controller.go:99-113: a
\* DirectoryRestore that was created when a backup was reported complete ends
\* with a snapshot of data no older than that backup was asked for, whatever
\* both controllers' passes, jobs and failures come between.
RestoredIsFresh ==
    dr # None /\ snap # None /\ snap.owner = dr.born /\ snap.content # Pending
        => snap.content >= promised

=============================================================================

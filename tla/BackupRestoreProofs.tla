------------------------- MODULE BackupRestoreProofs ------------------------
(***************************************************************************)
(* Proofs about BackupRestore: the composition is a behaviour of the       *)
(* backup and of the restore, and the promise of a completed backup        *)
(* reaches the snapshot of the restore, for any number of versions,        *)
(* recreations and faults.                                                 *)
(***************************************************************************)
EXTENDS BackupRestore, RestoreProofs

\* The abstract backup: its volume holds nothing that is older than what was
\* asked for, and a backup that is reported complete is there.
LifeInv ==
    /\ data \in 1 .. MaxSource
    /\ asked \in 0 .. data
    /\ source \in -1 .. data
    /\ asked = 0 => source = -1 /\ ~live
    /\ asked # 0 => source = -1 \/ source = 0 \/ source >= asked
    /\ reported => live /\ source >= asked

\* What was promised when the restore was created is not lost on the way from
\* the backup's volume to the restored volume and to its snapshot.
Kept ==
    /\ promised \in 0 .. MaxSource
    /\ creates = 0 => promised = 0
    /\ promised # 0 => source >= promised
    /\ creates = 1 /\ dr # None /\ Complete(job) => volume.content >= promised
    /\ /\ creates = 1 /\ dr # None /\ snap # None /\ snap.content # Pending
       => snap.content >= promised

-----------------------------------------------------------------------------
\* There is no backup at the start.
LEMMA LifeInvInit ==
    B!LifeInit => LifeInv
  BY RestoreConstants DEF B!LifeInit, LifeInv, B!NoVolume

\* A step of the backup keeps the invariant, and its volume never gets older.
LEMMA LifeInvStep ==
    ASSUME LifeInv, B!LifeNext
    PROVE  LifeInv' /\ source' >= source /\ source' \in -1 .. MaxSource
  <1> USE DEF LifeInv, B!NoVolume, B!EmptyVolume
  <1>0. MaxSource \in Nat
    BY RestoreConstants
  <1>1. CASE B!Change
    BY <1>0, <1>1 DEF B!Change
  <1>2. CASE B!Ask
    BY <1>0, <1>2 DEF B!Ask
  <1>3. CASE B!Withdraw
    BY <1>0, <1>3 DEF B!Withdraw
  <1>4. CASE B!MakeVolume
    BY <1>0, <1>4 DEF B!MakeVolume
  <1>5. CASE B!Export
    BY <1>0, <1>5 DEF B!Export
  <1>6. CASE B!Report
    BY <1>0, <1>6 DEF B!Report
  <1> QED
    BY <1>1, <1>2, <1>3, <1>4, <1>5, <1>6 DEF B!LifeNext

\* No step of the restore touches the volume of the backup.
LEMMA RestoreOnlyReads ==
    ASSUME RestorePass \/ RestoreCluster
    PROVE  UNCHANGED source
  BY DEF RestorePass, RestoreCluster, ClusterWork, storeVars,
     Begin, BeginGone, JobNotComplete, JobHadFailures, JobSucceeded, TakeSnapshot,
     UpdateRestoreStatus, EnsureVolume, EnsureJob, RestoreRefused, RestoreFails,
     ImportBegins, ImportEnds, ImportFails, SnapshotTaken, Collect,
     UserCreatesRestore, UserDeletesRestore, SyncRestore, SyncCaches, Resync,
     RestartOperator

\* To the restore, a step of the backup is a change of its source, or nothing.
LEMMA RestoreSees ==
    ASSUME LifeInv, [EndToEndNext]_endToEndVars
    PROVE  [RestoreNext]_restoreVars
  <1>1. CASE RestoreStep
    BY <1>1 DEF RestoreStep, RestoreNext
  <1>2. CASE BackupStep
    <2>1. /\ source' >= source /\ source' \in -1 .. MaxSource
          /\ source \in -1 .. MaxSource
      BY <1>2, LifeInvStep, RestoreConstants DEF BackupStep, LifeInv
    <2>2. CASE source' = source
      BY <1>2, <2>2 DEF BackupStep, restoreVars, crVars, passVars, storeVars,
         cacheVars
    <2>3. CASE source' # source
      <3>1. source' \in {v \in {Blank} \cup Versions : v > source}
        BY <2>1, <2>3, RestoreConstants DEF Blank, Versions
      <3> QED
        BY <1>2, <3>1 DEF BackupStep, SourceChanges, RestoreNext
    <2> QED
      BY <2>2, <2>3
  <1>3. CASE UNCHANGED endToEndVars
    BY <1>3 DEF endToEndVars
  <1> QED
    BY <1>1, <1>2, <1>3 DEF EndToEndNext

\* To the backup, a step of the restore is nothing.
LEMMA BackupSees ==
    ASSUME [EndToEndNext]_endToEndVars
    PROVE  [B!LifeNext]_(B!lifeVars)
  <1>1. CASE RestoreStep
    BY <1>1, RestoreOnlyReads DEF RestoreStep, lifeVars, B!lifeVars
  <1>2. CASE BackupStep
    BY <1>2 DEF BackupStep
  <1>3. CASE UNCHANGED endToEndVars
    BY <1>3 DEF endToEndVars, restoreVars, storeVars, lifeVars, B!lifeVars
  <1> QED
    BY <1>1, <1>2, <1>3 DEF EndToEndNext

\* Whatever the backup does with the volume they share is what the restore
\* expects of its source, and the restore leaves the backup alone: the
\* composition is a behaviour of both.
THEOREM BothRun ==
    EndToEndSpec => RestoreSpec /\ B!LifeSpec
  <1>1. EndToEndInit => RestoreInit /\ B!LifeInit /\ LifeInv
    BY LifeInvInit DEF EndToEndInit
  <1>2. LifeInv /\ [EndToEndNext]_endToEndVars => LifeInv'
    <2> SUFFICES ASSUME LifeInv, [EndToEndNext]_endToEndVars PROVE LifeInv'
      OBVIOUS
    <2>1. CASE B!LifeNext
      BY <2>1, LifeInvStep
    <2>2. CASE UNCHANGED B!lifeVars
      BY <2>2 DEF LifeInv, B!lifeVars
    <2> QED
      BY <2>1, <2>2, BackupSees
  <1>3. LifeInv /\ [EndToEndNext]_endToEndVars => [RestoreNext]_restoreVars
    BY RestoreSees
  <1>4. [EndToEndNext]_endToEndVars => [B!LifeNext]_(B!lifeVars)
    BY BackupSees
  <1>5. B!LifeSpec <=> B!LifeInit /\ [][B!LifeNext]_(B!lifeVars)
    BY DEF B!LifeSpec
  <1> QED
    BY <1>1, <1>2, <1>3, <1>4, <1>5, PTL DEF EndToEndSpec, RestoreSpec

-----------------------------------------------------------------------------
\* Data flows forward only: a job that becomes complete has filled the volume
\* from the source, a snapshot that is filled is one of the volume that a
\* complete job left, and neither is touched afterwards.
LEMMA FlowStep ==
    ASSUME TypeInv, InPlace, dr # None,
           RestorePass \/ (RestoreCluster /\ ~UserCreatesRestore)
    PROVE  /\ Complete(job)' =>
                \/ Complete(job) /\ volume' = volume
                \/ volume'.content = source /\ source \in Versions
           /\ snap' # None /\ snap'.content # Pending =>
                \/ snap' = snap
                \/ Complete(job) /\ snap'.content = volume.content
  <1>1. CASE UNCHANGED <<job, volume, snap>>
    BY <1>1 DEF Complete
  <1>2. CASE TakeSnapshot
    BY <1>2 DEF TakeSnapshot, Complete
  <1>3. CASE EnsureVolume
    <2>1. UNCHANGED <<job, snap>> /\ (volume = None \/ UNCHANGED volume)
      BY <1>3 DEF EnsureVolume
    <2> QED
      BY <2>1 DEF InPlace, Complete
  <1>4. CASE EnsureJob
    <2>1. UNCHANGED <<volume, snap>>
      BY <1>4 DEF EnsureJob
    <2>2. CASE UNCHANGED job
      BY <2>1, <2>2 DEF Complete
    <2>3. CASE job' = [owner |-> my.born, state |-> "running", failures |-> FALSE]
      <3>1. job'.state = "running"
        BY <2>3, Zenon
      <3> QED
        BY <2>1, <3>1 DEF Complete
    <2> QED
      BY <1>4, <2>2, <2>3, Zenon DEF EnsureJob
  <1>5. CASE ImportBegins
    BY <1>5 DEF ImportBegins, JobIsRunning, Complete
  <1>6. CASE ImportEnds
    <2>1. volume \in Volumes /\ source \in Versions /\ UNCHANGED snap
      BY <1>6 DEF ImportEnds, JobIsRunning, TypeInv, OwnTypeOK
    <2>2. volume'.content = source
      BY <1>6, <2>1 DEF ImportEnds, Volumes
    <2> QED
      BY <2>1, <2>2
  <1>7. CASE ImportFails
    <2>1. job \in Jobs /\ UNCHANGED <<volume, snap>>
      BY <1>7 DEF ImportFails, JobIsRunning, TypeInv, OwnTypeOK
    <2>2. PICK st \in {"running", "failed"}, b \in BOOLEAN :
            job' = [job EXCEPT !.state = st, !.failures = b]
      BY <1>7, Zenon DEF ImportFails
    <2>3. job'.state # "done"
      BY <2>1, <2>2 DEF Jobs
    <2> QED
      BY <2>1, <2>3 DEF Complete
  <1>8. CASE SnapshotTaken
    <2>1. snap \in Copies /\ snap # None /\ UNCHANGED <<job, volume>>
      BY <1>8 DEF SnapshotTaken, TypeInv, OwnTypeOK
    <2>2. snap'.content = volume.content
      BY <1>8, <2>1 DEF SnapshotTaken, Copies
    <2> QED
      BY <2>1, <2>2 DEF InPlace, Complete
  <1>9. CASE Collect
    BY <1>9 DEF Collect, Orphan, InPlace, Owned
  <1> QED
    BY <1>1, <1>2, <1>3, <1>4, <1>5, <1>6, <1>7, <1>8, <1>9
       DEF RestorePass, RestoreCluster, ClusterWork, storeVars, Begin, BeginGone,
       JobNotComplete, JobHadFailures, JobSucceeded, UpdateRestoreStatus,
       RestoreRefused, RestoreFails, UserDeletesRestore, SyncRestore, SyncCaches,
       Resync, RestartOperator

\* The invariant of the composition holds at the start.
LEMMA KeptInit ==
    EndToEndInit => Kept
  BY RestoreConstants DEF EndToEndInit, RestoreInit, Kept, Complete

\* A step of the backup leaves the promise, and what is behind it only grows.
LEMMA BackupKeepsPromise ==
    ASSUME LifeInv, Kept, BackupStep
    PROVE  Kept'
  <1>1. /\ source' >= source /\ source' \in Int /\ source \in Int
        /\ promised \in Int
    BY LifeInvStep, RestoreConstants DEF BackupStep, LifeInv, Kept
  <1> QED
    BY <1>1 DEF BackupStep, Kept, Complete, crVars

\* A step of the restore keeps the promise.
LEMMA RestoreKeepsPromise ==
    ASSUME TypeInv, TypeInv', Once, Once', LifeInv, Kept, RestoreStep
    PROVE  Kept'
  <1>0. /\ UNCHANGED source /\ creates \in Nat
        /\ creates' = creates \/ UserCreatesRestore
        /\ UserCreatesRestore => creates' = creates + 1
        /\ dr = None /\ dr' # None => UserCreatesRestore
    <2>1. creates \in Nat
      BY RestoreConstants DEF TypeInv, OwnTypeOK
    <2>2. [RestoreNext]_restoreVars
      BY DEF RestoreStep, RestoreNext
    <2>3. UNCHANGED source
      BY RestoreOnlyReads DEF RestoreStep
    <2> QED
      BY <2>1, <2>2, <2>3, CreatesCount DEF UserCreatesRestore
  <1>1. CASE UserCreatesRestore
    <2>1. promised' = IF reported THEN asked ELSE 0
      BY <1>0, <1>1 DEF RestoreStep
    <2>2. /\ promised' \in 0 .. MaxSource /\ creates' # 0
          /\ promised' # 0 => source' >= promised'
      BY <1>0, <1>1, <2>1, RestoreConstants DEF LifeInv
    <2>3. creates' = 1 => job' = None /\ snap' = None
      BY <1>0, <1>1 DEF Once, Unused, UserCreatesRestore, storeVars
    <2> QED
      BY <2>2, <2>3 DEF Kept, Complete
  <1>2. CASE ~UserCreatesRestore
    <2>1. creates' = creates /\ promised' = promised
      BY <1>0, <1>2 DEF RestoreStep
    <2>2. ASSUME creates' = 1, dr' # None
          PROVE  /\ Complete(job)' => volume'.content >= promised'
                 /\ snap' # None /\ snap'.content # Pending =>
                        snap'.content >= promised'
      <3>1. creates = 1 /\ dr # None /\ InPlace
        BY <1>0, <1>2, <2>1, <2>2 DEF Once
      <3>2. /\ Complete(job)' =>
                \/ Complete(job) /\ volume' = volume
                \/ volume'.content = source /\ source \in Versions
            /\ snap' # None /\ snap'.content # Pending =>
                \/ snap' = snap
                \/ Complete(job) /\ snap'.content = volume.content
        BY <1>2, <3>1, FlowStep DEF RestoreStep
      <3>3. source \in Versions => source >= promised
        BY RestoreConstants DEF Kept, Versions
      <3> QED
        BY <2>1, <3>1, <3>2, <3>3 DEF Kept
    <2> QED
      BY <1>0, <2>1, <2>2 DEF Kept
  <1> QED
    BY <1>1, <1>2

\* directorybackup_types.go:77 and directoryrestore_controller.go:99-113: a
\* DirectoryRestore whose name is used once, created when a backup was reported
\* complete, has a snapshot of data no older than that backup was asked for,
\* whatever both controllers' passes, jobs and failures come between.
THEOREM RestoredSafe ==
    EndToEndSpec => [](creates <= 1 => RestoredIsFresh)
  <1>1. EndToEndInit => LifeInv /\ Kept
    BY LifeInvInit, KeptInit DEF EndToEndInit
  <1>2. /\ LifeInv /\ Kept
        /\ TypeInv /\ Once /\ (TypeInv /\ Once)'
        /\ [EndToEndNext]_endToEndVars
        => (LifeInv /\ Kept)'
    <2> SUFFICES ASSUME LifeInv, Kept, TypeInv, Once, TypeInv', Once',
                        [EndToEndNext]_endToEndVars
                 PROVE  LifeInv' /\ Kept'
      OBVIOUS
    <2>1. CASE RestoreStep
      <3>1. LifeInv'
        BY <2>1, RestoreOnlyReads DEF RestoreStep, LifeInv, lifeVars
      <3> QED
        BY <2>1, <3>1, RestoreKeepsPromise
    <2>2. CASE BackupStep
      BY <2>2, LifeInvStep, BackupKeepsPromise DEF BackupStep
    <2>3. CASE UNCHANGED endToEndVars
      BY <2>3 DEF endToEndVars, restoreVars, crVars, storeVars, lifeVars, LifeInv,
         Kept, Complete
    <2> QED
      BY <2>1, <2>2, <2>3 DEF EndToEndNext
  <1>3. Kept /\ TypeInv /\ Once => (creates <= 1 => RestoredIsFresh)
    <2>1. TypeInv => creates \in Nat
      BY RestoreConstants DEF TypeInv, OwnTypeOK
    <2> QED
      BY <2>1 DEF Kept, Once, Unused, RestoredIsFresh
  <1> QED
    BY <1>1, <1>2, <1>3, BothRun, RestoreInvariant, PTL DEF EndToEndSpec

=============================================================================

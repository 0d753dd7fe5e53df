------------------------------ MODULE Restore -------------------------------
(***************************************************************************)
(* One DirectoryRestore name: controllers/directoryrestore_controller.go   *)
(* and controllers/job.go, with the cluster around them.                   *)
(*                                                                         *)
(* Reconcile makes a volume, a job that imports a backup into it and, when *)
(* it sees that the job is complete, a snapshot of the volume, from which  *)
(* a directory can be initialised.  As with a DirectoryBackup the names    *)
(* are fixed.  The contents of a volume are the version of the backup that *)
(* was imported.                                                           *)
(***************************************************************************)
EXTENDS Integers

CONSTANTS
    None,             \* no such object
    MaxSource,        \* bound: versions of the backup
    MaxCreates,       \* bound: how often users create the resource
    MaxFaults         \* bound: failed calls, lost answers, failed pods, restarts

ASSUME RestoreConstants ==
    /\ MaxSource \in Nat \ {0} /\ MaxCreates \in Nat /\ MaxFaults \in Nat

VARIABLES
    pc, dr, drCache, cacheFresh, my, myFresh,
    queued,               \* a request for this name waits in the work queue
    requeueWhileJobRunning,
    job, jobCache,        \* the stored job and the informer's copy
    volume, volumeCache,  \* the claim temp-<name>
    snap, snapCache,      \* the snapshot temp-<name>
    source,               \* the version of the backup in spec.sourcePvcName
    creates, faults

CR == INSTANCE Reconciler WITH ds <- dr, dsCache <- drCache, NoDS <- None

crVars == <<pc, dr, drCache, cacheFresh, my, myFresh>>
passVars == <<queued, requeueWhileJobRunning>>
storeVars == <<job, volume, snap, source>>
cacheVars == <<jobCache, volumeCache, snapCache>>
restoreVars == <<crVars, passVars, storeVars, cacheVars, creates, faults>>

Pending == -2         \* a snapshot that has not been taken
Torn == -1            \* an import has begun and not ended
Blank == 0            \* a new volume
NoSource == -1        \* the volume of the backup is not there
Versions == 1 .. MaxSource
Uids == 1 .. MaxCreates

\* As in Backup, a completion time is abstracted to the owner of the job.
RestoreStatuses == [done : {0} \cup Uids]
Jobs == [owner : Uids, state : {"running", "done", "failed"}, failures : BOOLEAN]
Volumes == [owner : Uids, content : {Torn, Blank} \cup Versions]
Copies == [owner : Uids, content : {Pending, Torn, Blank} \cup Versions]

ASSUME NoneIsNoObject ==
    /\ None \notin CR!Objects({"spec"}, RestoreStatuses, Uids)
    /\ None \notin Jobs \cup Volumes \cup Copies

RestoreInit ==
    /\ pc = "idle"
    /\ dr = None /\ drCache = None /\ cacheFresh = TRUE
    /\ my = None /\ myFresh = FALSE
    /\ queued = FALSE /\ requeueWhileJobRunning = FALSE
    /\ job = None /\ jobCache = None
    /\ volume = None /\ volumeCache = None
    /\ snap = None /\ snapCache = None
    /\ source = NoSource
    /\ creates = 0 /\ faults = 0

\* Something goes wrong that no step of the system asked for.
Fault ==
    /\ faults < MaxFaults
    /\ faults' = faults + 1

-----------------------------------------------------------------------------
(***************************************************************************)
(* The handler.                                                            *)
(***************************************************************************)

\* Reconcile of a request; r.Get of the resource.
Begin ==
    /\ queued /\ queued' = FALSE
    /\ CR!Load("job")
    /\ requeueWhileJobRunning' = TRUE
    /\ UNCHANGED <<storeVars, cacheVars, creates, faults>>

\* The resource is gone.
BeginGone ==
    /\ queued /\ queued' = FALSE
    /\ CR!LoadNothing
    /\ UNCHANGED <<requeueWhileJobRunning, storeVars, cacheVars, creates, faults>>

\* Every return clears what the pass kept; again: the request is queued.
ReturnWith(again) ==
    /\ CR!Return
    /\ queued' = (queued \/ again)
    /\ requeueWhileJobRunning' = FALSE

\* A job has a completion time only when it succeeds.
Complete(j) == j # None /\ j.state = "done"

\* There is no job, or it has no completion time.
JobNotComplete ==
    /\ CR!At("job") /\ ~Complete(jobCache)
    /\ CR!Goto("status")
    /\ UNCHANGED <<passVars, storeVars, cacheVars, creates, faults>>

\* The job is complete, but a pod of it failed on the way: an error, before
\* the status is written.
JobHadFailures ==
    /\ CR!At("job") /\ Complete(jobCache) /\ jobCache.failures
    /\ ReturnWith(TRUE)
    /\ UNCHANGED <<storeVars, cacheVars, creates, faults>>

\* Mutants of JobSucceeded: the snapshot is forgotten; it is taken of a job that
\* has started.
JobSucceededNoSnapshot ==
    /\ CR!At("job") /\ Complete(jobCache) /\ ~jobCache.failures
    /\ CR!Observe([done |-> jobCache.owner], "status")
    /\ requeueWhileJobRunning' = FALSE
    /\ UNCHANGED <<queued, storeVars, cacheVars, creates, faults>>

JobStarted ==
    /\ CR!At("job") /\ jobCache # None /\ ~jobCache.failures
    /\ CR!Observe([done |-> jobCache.owner], "snap")
    /\ requeueWhileJobRunning' = FALSE
    /\ UNCHANGED <<queued, storeVars, cacheVars, creates, faults>>

\* The job succeeded.
JobSucceeded ==
    /\ CR!At("job") /\ Complete(jobCache) /\ ~jobCache.failures
    /\ CR!Observe([done |-> jobCache.owner], "snap")
    /\ requeueWhileJobRunning' = FALSE
    /\ UNCHANGED <<queued, storeVars, cacheVars, creates, faults>>

\* CreateOrUpdate of the snapshot: one that exists is kept, whoever made it,
\* and an error is ignored.
TakeSnapshot ==
    /\ CR!At("snap")
    /\ \/ /\ snapCache = None /\ snap = None
          /\ snap' = [owner |-> my.born, content |-> Pending]
          /\ UNCHANGED faults
       \/ /\ snapCache # None \/ snap # None
          /\ UNCHANGED <<snap, faults>>
       \/ Fault /\ UNCHANGED snap
    /\ CR!Goto("status")
    /\ UNCHANGED <<passVars, job, volume, source, cacheVars, creates>>

UpdateRestoreStatus ==
    /\ CR!At("status")
    /\ CR!WriteStatus(my.status, "pvc")
    /\ UNCHANGED <<passVars, storeVars, cacheVars, creates, faults>>

\* Mutant of EnsureVolume: no controller reference is set.
EnsureUnownedVolume ==
    /\ CR!At("pvc")
    /\ volumeCache = None /\ volume = None
    /\ volume' = [owner |-> 0, content |-> Blank]
    /\ CR!Goto("mkjob")
    /\ UNCHANGED <<passVars, job, snap, source, cacheVars, creates, faults>>

\* CreateOrUpdate of the volume: one that exists is kept, whoever made it.
EnsureVolume ==
    /\ CR!At("pvc")
    /\ \/ /\ volumeCache = None /\ volume = None
          /\ volume' = [owner |-> my.born, content |-> Blank]
       \/ volumeCache # None /\ UNCHANGED volume
    /\ \/ CR!Goto("mkjob") /\ UNCHANGED <<passVars, faults>>
       \/ ReturnWith(TRUE) /\ Fault
    /\ UNCHANGED <<job, snap, source, cacheVars, creates>>

\* createDSJob, and the return: come back while the job is running.
EnsureJob ==
    /\ CR!At("mkjob")
    /\ \/ /\ jobCache = None /\ job = None
          /\ job' = [owner |-> my.born, state |-> "running", failures |-> FALSE]
       \/ jobCache # None /\ UNCHANGED job
    /\ \/ ReturnWith(requeueWhileJobRunning) /\ UNCHANGED faults
       \/ ReturnWith(TRUE) /\ Fault
    /\ UNCHANGED <<volume, snap, source, cacheVars, creates>>

\* The API server refuses a create of what exists and an update from a copy
\* that is out of date.
RestoreRefused ==
    /\ \/ CR!At("status") /\ ~myFresh
       \/ CR!At("pvc") /\ volumeCache = None /\ volume # None
       \/ CR!At("mkjob") /\ jobCache = None /\ job # None
    /\ ReturnWith(TRUE)
    /\ UNCHANGED <<storeVars, cacheVars, creates, faults>>

\* A call fails before it has an effect, or the status update's answer is lost.
RestoreFails ==
    /\ \/ pc \in {"job", "pvc", "mkjob"} /\ CR!Return
       \/ pc = "status" /\ CR!WriteStatusAndReturn(my.status)
    /\ queued' = TRUE /\ requeueWhileJobRunning' = FALSE
    /\ Fault
    /\ UNCHANGED <<storeVars, cacheVars, creates>>

-----------------------------------------------------------------------------
(***************************************************************************)
(* The cluster.                                                            *)
(***************************************************************************)

\* The volume of the backup is made, or a newer backup is written to it.
SourceChanges ==
    /\ source' \in {v \in {Blank} \cup Versions : v > source}
    /\ UNCHANGED <<crVars, passVars, job, volume, snap, cacheVars, creates,
                   faults>>

\* Its pods need both volumes.
JobIsRunning ==
    job # None /\ job.state = "running" /\ volume # None /\ source # NoSource

\* A pod of the job starts to import...
ImportBegins ==
    /\ JobIsRunning
    /\ volume.content # Torn
    /\ volume' = [volume EXCEPT !.content = Torn]
    /\ UNCHANGED <<crVars, passVars, job, snap, source, cacheVars, creates,
                   faults>>

\* ... it ends, if there is a backup ...
ImportEnds ==
    /\ JobIsRunning /\ source \in Versions
    /\ volume.content = Torn
    /\ volume' = [volume EXCEPT !.content = source]
    /\ job' = [job EXCEPT !.state = "done"]
    /\ UNCHANGED <<crVars, passVars, snap, source, cacheVars, creates, faults>>

\* ... or it fails, and another pod starts unless the job gives up.
ImportFails ==
    /\ JobIsRunning
    /\ volume.content = Torn
    /\ \E st \in {"running", "failed"} :
          job' = [job EXCEPT !.state = st, !.failures = TRUE]
    /\ Fault
    /\ UNCHANGED <<crVars, passVars, volume, snap, source, cacheVars, creates>>

\* The snapshot controller takes the volume of that name as it is.
SnapshotTaken ==
    /\ snap # None /\ snap.content = Pending
    /\ volume # None
    /\ snap' = [snap EXCEPT !.content = volume.content]
    /\ UNCHANGED <<crVars, passVars, job, volume, source, cacheVars, creates,
                   faults>>

\* The garbage collector: an object goes when its owner is not there.
Orphan(obj) ==
    /\ obj # None
    /\ dr # None => dr.born # obj.owner

Collect ==
    /\ \/ Orphan(job) /\ job' = None /\ UNCHANGED <<volume, snap>>
       \/ Orphan(volume) /\ volume' = None /\ UNCHANGED <<job, snap>>
       \/ Orphan(snap) /\ snap' = None /\ UNCHANGED <<job, volume>>
    /\ UNCHANGED <<crVars, passVars, source, cacheVars, creates, faults>>

UserCreatesRestore ==
    /\ creates < MaxCreates
    /\ creates' = creates + 1
    /\ CR!UserCreates("spec", [done |-> 0], creates + 1)
    /\ UNCHANGED <<passVars, storeVars, cacheVars, faults>>

UserDeletesRestore ==
    /\ CR!UserDeletes
    /\ UNCHANGED <<passVars, storeVars, cacheVars, creates, faults>>

\* The watch of the resource brings an event, which is put in the queue; this
\* controller watches nothing else.
SyncRestore ==
    /\ CR!SyncDS
    /\ queued' = TRUE
    /\ UNCHANGED <<requeueWhileJobRunning, storeVars, cacheVars, creates, faults>>

SyncCaches ==
    /\ \/ jobCache # job /\ jobCache' = job /\ UNCHANGED <<volumeCache, snapCache>>
       \/ /\ volumeCache # volume /\ volumeCache' = volume
          /\ UNCHANGED <<jobCache, snapCache>>
       \/ snapCache # snap /\ snapCache' = snap /\ UNCHANGED <<jobCache, volumeCache>>
    /\ UNCHANGED <<crVars, passVars, storeVars, creates, faults>>

\* The informer's periodic resync queues every resource again.
Resync ==
    /\ ~queued /\ drCache # None
    /\ queued' = TRUE
    /\ UNCHANGED <<crVars, requeueWhileJobRunning, storeVars, cacheVars, creates,
                   faults>>

\* The operator's process ends and is started again.
RestartOperator ==
    /\ CR!Restart
    /\ Fault
    /\ queued' = TRUE /\ requeueWhileJobRunning' = FALSE
    /\ jobCache' = job /\ volumeCache' = volume /\ snapCache' = snap
    /\ UNCHANGED <<storeVars, creates>>

-----------------------------------------------------------------------------
RestorePass ==
    \/ Begin \/ BeginGone
    \/ JobNotComplete \/ JobHadFailures \/ JobSucceeded
    \/ TakeSnapshot \/ UpdateRestoreStatus \/ EnsureVolume \/ EnsureJob
    \/ RestoreRefused

\* Storage, the job controller and the garbage collector.
ClusterWork == ImportBegins \/ ImportEnds \/ SnapshotTaken \/ Collect

RestoreCluster ==
    \/ ClusterWork
    \/ ImportFails \/ UserCreatesRestore \/ UserDeletesRestore
    \/ SyncRestore \/ SyncCaches \/ Resync
    \/ RestoreFails \/ RestartOperator

RestoreNext == RestorePass \/ RestoreCluster \/ SourceChanges
RestoreSpec == RestoreInit /\ [][RestoreNext]_restoreVars

\* Queued requests are handled, the watches deliver, the informers resync, and
\* the cluster's controllers do the work there is.
RestoreFairness ==
    /\ WF_restoreVars(RestorePass)
    /\ WF_restoreVars(SyncRestore)
    /\ WF_restoreVars(SyncCaches)
    /\ WF_restoreVars(Resync)
    /\ WF_restoreVars(ClusterWork)

RestoreFairSpec == RestoreSpec /\ RestoreFairness

-----------------------------------------------------------------------------
(***************************************************************************)
(* Properties.                                                             *)
(***************************************************************************)

RestoreSteps == {"idle", "job", "snap", "status", "pvc", "mkjob"}

\* Types; every owner is a resource that was created, and between passes
\* nothing is left of the decision to come back.
RestoreTypeOK ==
    /\ pc \in RestoreSteps
    /\ CR!RecTypeOK(CR!Objects({"spec"}, RestoreStatuses, 1 .. creates))
    /\ queued \in BOOLEAN /\ requeueWhileJobRunning \in BOOLEAN
    /\ job \in Jobs \cup {None} /\ jobCache \in Jobs \cup {None}
    /\ volume \in Volumes \cup {None} /\ volumeCache \in Volumes \cup {None}
    /\ snap \in Copies \cup {None} /\ snapCache \in Copies \cup {None}
    /\ source \in {NoSource, Blank} \cup Versions
    /\ creates \in 0 .. MaxCreates /\ faults \in 0 .. MaxFaults
    /\ pc = "idle" => ~requeueWhileJobRunning

\* directoryrestore_controller.go:160, "Once the Job completes, we will
\* snapshot this PVC": the snapshot of a restore holds a whole backup, neither
\* an empty volume nor one that an import is working on.  A name that is used
\* again may find the job of its predecessor and break this.
SnapshotIsRestored ==
    dr # None /\ snap # None /\ snap.owner = dr.born /\ snap.content # Pending
        => snap.content \in Versions

\* README.md:344-347: a DirectoryRestore that is not deleted again and has a
\* backup to restore ends with a snapshot of the restored data, unless a pod of
\* its job fails.
RestoreFinishes ==
    <>[](dr # None /\ source \in Versions) =>
        <>( \/ job # None /\ job.failures
            \/ /\ dr # None /\ dr.status.done = dr.born
               /\ snap # None /\ snap.content \in Versions )

=============================================================================

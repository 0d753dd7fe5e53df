------------------------------- MODULE Backup -------------------------------
(***************************************************************************)
(* One DirectoryBackup name: controllers/directorybackup_controller.go and *)
(* controllers/job.go, with the cluster around them.                       *)
(*                                                                         *)
(* Reconcile makes the volume that keeps the backup (the vault), a         *)
(* snapshot of the directory's claim, a clone of that snapshot, and a job  *)
(* that exports the clone to the vault.  All of them have fixed names, so  *)
(* a resource that is deleted and created again meets the leftovers of its *)
(* predecessor.  The contents of a volume are the version of the directory *)
(* data it holds.                                                          *)
(***************************************************************************)
EXTENDS Integers

CONSTANTS
    None,             \* no such object
    MaxData,          \* bound: versions of the directory data
    MaxCreates,       \* bound: how often users create the resource
    MaxFaults         \* bound: failed calls, lost answers and restarts

ASSUME BackupConstants ==
    /\ MaxData \in Nat \ {0} /\ MaxCreates \in Nat /\ MaxFaults \in Nat

VARIABLES
    pc, db, dbCache, cacheFresh, my, myFresh,
    queued,           \* a request for this name waits in the work queue
    job, jobCache,    \* the stored job and the informer's copy
    snap, snapCache,  \* the snapshot temp-<name>
    clone, cloneCache,\* the claim temp-<name>
    vault,            \* contents of the claim <name>
    vaultSeen,        \* the informer has that claim
    data,             \* the version of the directory data now
    since,            \* the version when db was created
    creates, faults

CR == INSTANCE Reconciler WITH ds <- db, dsCache <- dbCache, NoDS <- None

crVars == <<pc, db, dbCache, cacheFresh, my, myFresh>>
storeVars == <<job, snap, clone, vault, data>>
cacheVars == <<jobCache, snapCache, cloneCache, vaultSeen>>
userVars == <<since, creates>>
backupVars == <<crVars, queued, storeVars, cacheVars, userVars, faults>>

Absent == -1          \* contents of a volume that is not there (yet)
Blank == 0            \* contents of a new volume
Versions == 1 .. MaxData
Contents == {Absent, Blank} \cup Versions
Uids == 1 .. MaxCreates

\* The completion time of a job is abstracted to the resource the job belongs
\* to; 0 is a time stamp that is not set.  The start time is left out: that it
\* changes too is in WriteStatus.
BackupStatuses == [done : {0} \cup Uids]
BackupObjects == CR!Objects({"spec"}, BackupStatuses, Uids)
Jobs == [owner : Uids, state : {"running", "done", "failed"}]
Copies == [owner : Uids, content : Contents]   \* snapshots and clones

ASSUME NoneIsNoObject == None \notin BackupObjects

BackupInit ==
    /\ pc = "idle"
    /\ db = None /\ dbCache = None /\ cacheFresh = TRUE
    /\ my = None /\ myFresh = FALSE
    /\ queued = FALSE
    /\ job = None /\ jobCache = None
    /\ snap = None /\ snapCache = None
    /\ clone = None /\ cloneCache = None
    /\ vault = Absent /\ vaultSeen = FALSE
    /\ data = 1 /\ since = 0
    /\ creates = 0 /\ faults = 0

\* Something goes wrong that no step of the system asked for.
Fault ==
    /\ faults < MaxFaults
    /\ faults' = faults + 1

-----------------------------------------------------------------------------
(***************************************************************************)
(* The handler.                                                            *)
(***************************************************************************)

\* Reconcile of a request; r.Get of the resource.
Begin ==
    /\ queued /\ queued' = FALSE
    /\ CR!Load("job")
    /\ UNCHANGED <<storeVars, cacheVars, userVars, faults>>

\* The resource is gone.
BeginGone ==
    /\ queued /\ queued' = FALSE
    /\ CR!LoadNothing
    /\ UNCHANGED <<storeVars, cacheVars, userVars, faults>>

\* Mutants of Seen: the completion time is not copied; a job that exists is a
\* job that is complete.
SeenNothing(status) == status

SeenComplete(status) ==
    IF jobCache = None THEN status ELSE [done |-> jobCache.owner]

\* What the job of that name tells: its completion time once it has one (a job
\* that fails never gets one).
Seen(status) ==
    IF jobCache # None /\ jobCache.state = "done"
    THEN [done |-> jobCache.owner] ELSE status

ReadJob ==
    /\ CR!At("job")
    /\ CR!Observe(Seen(my.status), "status")
    /\ UNCHANGED <<queued, storeVars, cacheVars, userVars, faults>>

UpdateBackupStatus ==
    /\ CR!At("status")
    /\ CR!WriteStatus(my.status, "vault")
    /\ UNCHANGED <<queued, storeVars, cacheVars, userVars, faults>>

\* The pass ends with an error, which puts the request back in the queue.
ReturnError ==
    /\ CR!Return
    /\ queued' = TRUE

\* A write is answered and the pass goes on, or the answer is lost.
AnsweredOrLost(step) ==
    \/ CR!Goto(step) /\ UNCHANGED <<queued, faults>>
    \/ ReturnError /\ Fault

\* Mutant of EnsureVault: the claim is made again by every pass.
RemakeVault ==
    /\ CR!At("vault")
    /\ vault' = Blank
    /\ AnsweredOrLost("snap")
    /\ UNCHANGED <<job, snap, clone, data, cacheVars, userVars>>

\* CreateOrUpdate of the claim for the backup, which belongs to nobody: created
\* if the cache does not show it, and otherwise kept as it is.
EnsureVault ==
    /\ CR!At("vault")
    /\ \/ ~vaultSeen /\ vault = Absent /\ vault' = Blank
       \/ vaultSeen /\ vault' = vault
    /\ AnsweredOrLost("snap")
    /\ UNCHANGED <<job, snap, clone, data, cacheVars, userVars>>

\* Mutant of Ensured: an object of an earlier resource is replaced by an empty
\* one.
EnsuredAnew(stored, cached, new) ==
    IF cached = None THEN IF stored = None THEN {new} ELSE {}
    ELSE IF cached.owner = my.born THEN {stored}
    ELSE IF stored = cached THEN {[owner |-> my.born, content |-> Blank]}
    ELSE {}

\* CreateOrUpdate of an object with SetOwnerReference: created if the cache
\* does not show it, and otherwise, whoever made it, given this resource as
\* owner in place of an earlier one of the same name.  The result is the set
\* of values the API server may store, empty when it refuses.
Ensured(stored, cached, new) ==
    IF cached = None THEN IF stored = None THEN {new} ELSE {}
    ELSE IF cached.owner = my.born THEN {stored}
    ELSE IF stored = cached THEN {[stored EXCEPT !.owner = my.born]}
    ELSE {}

\* Mutant of NewSnapshot: no owner reference is set.
NewUnownedSnapshot == [owner |-> 0, content |-> Absent]

NewSnapshot == [owner |-> my.born, content |-> Absent]

NewClone == [owner |-> my.born, content |-> Absent]

NewJob == [owner |-> my.born, state |-> "running"]

EnsureSnapshot ==
    /\ CR!At("snap")
    /\ snap' \in Ensured(snap, snapCache, NewSnapshot)
    /\ AnsweredOrLost("clone")
    /\ UNCHANGED <<job, clone, vault, data, cacheVars, userVars>>

EnsureClone ==
    /\ CR!At("clone")
    /\ clone' \in Ensured(clone, cloneCache, NewClone)
    /\ AnsweredOrLost("mkjob")
    /\ UNCHANGED <<job, snap, vault, data, cacheVars, userVars>>

\* createDSJob, and the return without a requeue: an existing job is left
\* alone, and the owner it sets on the clone in memory is never sent.
EnsureJob ==
    /\ CR!At("mkjob")
    /\ \/ jobCache = None /\ job = None /\ job' = NewJob
       \/ jobCache # None /\ job' = job
    /\ CR!Return
    /\ \/ UNCHANGED <<queued, faults>>
       \/ queued' = TRUE /\ Fault
    /\ UNCHANGED <<snap, clone, vault, data, cacheVars, userVars>>

\* The API server refuses a create of what exists and an update from a copy
\* that is out of date.
BackupRefused ==
    /\ \/ CR!At("status") /\ ~myFresh
       \/ CR!At("vault") /\ ~vaultSeen /\ vault # Absent
       \/ CR!At("snap") /\ Ensured(snap, snapCache, NewSnapshot) = {}
       \/ CR!At("clone") /\ Ensured(clone, cloneCache, NewClone) = {}
       \/ CR!At("mkjob") /\ jobCache = None /\ job # None
    /\ ReturnError
    /\ UNCHANGED <<storeVars, cacheVars, userVars, faults>>

\* A call fails before it has an effect, or the status update's answer is lost.
BackupFails ==
    /\ \/ pc \in {"job", "vault", "snap", "clone", "mkjob"} /\ CR!Return
       \/ pc = "status" /\ CR!WriteStatusAndReturn(my.status)
    /\ queued' = TRUE
    /\ Fault
    /\ UNCHANGED <<storeVars, cacheVars, userVars>>

-----------------------------------------------------------------------------
(***************************************************************************)
(* The cluster.                                                            *)
(***************************************************************************)

DataChanges ==
    /\ data < MaxData
    /\ data' = data + 1
    /\ UNCHANGED <<crVars, queued, job, snap, clone, vault, cacheVars,
                   userVars, faults>>

\* The snapshot controller and the storage provider do their work.
SnapshotTaken ==
    /\ snap # None /\ snap.content = Absent
    /\ snap' = [snap EXCEPT !.content = data]
    /\ UNCHANGED <<crVars, queued, job, clone, vault, data, cacheVars,
                   userVars, faults>>

CloneFilled ==
    /\ clone # None /\ clone.content = Absent
    /\ snap # None /\ snap.content # Absent
    /\ clone' = [clone EXCEPT !.content = snap.content]
    /\ UNCHANGED <<crVars, queued, job, snap, vault, data, cacheVars, userVars,
                   faults>>

\* The job's pods mount both claims and end: with the data exported, or with
\* more failures than the job may have (the vault keeps its last export).
JobEnds ==
    /\ job # None /\ job.state = "running"
    /\ vault # Absent
    /\ clone # None /\ clone.content # Absent
    /\ \/ job' = [job EXCEPT !.state = "done"] /\ vault' = clone.content
       \/ job' = [job EXCEPT !.state = "failed"] /\ vault' = vault
    /\ UNCHANGED <<crVars, queued, snap, clone, data, cacheVars, userVars,
                   faults>>

\* The garbage collector: an object goes when its owner is not there; one
\* that names no owner (0) stays.
Orphan(obj) ==
    /\ obj # None
    /\ obj.owner # 0
    /\ db # None => db.born # obj.owner

CollectJob ==
    /\ Orphan(job) /\ job' = None
    /\ UNCHANGED <<crVars, queued, snap, clone, vault, data, cacheVars,
                   userVars, faults>>

CollectSnapshot ==
    /\ Orphan(snap) /\ snap' = None
    /\ UNCHANGED <<crVars, queued, job, clone, vault, data, cacheVars,
                   userVars, faults>>

CollectClone ==
    /\ Orphan(clone) /\ clone' = None
    /\ UNCHANGED <<crVars, queued, job, snap, vault, data, cacheVars, userVars,
                   faults>>

UserCreatesBackup ==
    /\ creates < MaxCreates
    /\ creates' = creates + 1
    /\ since' = data
    /\ CR!UserCreates("spec", [done |-> 0], creates + 1)
    /\ UNCHANGED <<queued, storeVars, cacheVars, faults>>

UserDeletesBackup ==
    /\ CR!UserDeletes
    /\ UNCHANGED <<queued, storeVars, cacheVars, userVars, faults>>

\* The watch of the resource brings an event, which is put in the queue.  The
\* watches of jobs, claims and snapshots do not: the owner references made
\* here are not controller references, and Owns looks for those.
SyncBackup ==
    /\ CR!SyncDS
    /\ queued' = TRUE
    /\ UNCHANGED <<storeVars, cacheVars, userVars, faults>>

SyncCaches ==
    /\ \/ /\ jobCache # job /\ jobCache' = job
          /\ UNCHANGED <<snapCache, cloneCache, vaultSeen>>
       \/ /\ snapCache # snap /\ snapCache' = snap
          /\ UNCHANGED <<jobCache, cloneCache, vaultSeen>>
       \/ /\ cloneCache # clone /\ cloneCache' = clone
          /\ UNCHANGED <<jobCache, snapCache, vaultSeen>>
       \/ /\ ~vaultSeen /\ vault # Absent /\ vaultSeen' = TRUE
          /\ UNCHANGED <<jobCache, snapCache, cloneCache>>
    /\ UNCHANGED <<crVars, queued, storeVars, userVars, faults>>

\* The informer's periodic resync queues every resource again.
Resync ==
    /\ ~queued /\ dbCache # None
    /\ queued' = TRUE
    /\ UNCHANGED <<crVars, storeVars, cacheVars, userVars, faults>>

\* The operator's process ends and is started again.
RestartOperator ==
    /\ CR!Restart
    /\ Fault
    /\ queued' = TRUE
    /\ jobCache' = job /\ snapCache' = snap /\ cloneCache' = clone
    /\ vaultSeen' = (vault # Absent)
    /\ UNCHANGED <<storeVars, userVars>>

-----------------------------------------------------------------------------
BackupPass ==
    \/ Begin \/ BeginGone
    \/ ReadJob \/ UpdateBackupStatus
    \/ EnsureVault \/ EnsureSnapshot \/ EnsureClone \/ EnsureJob
    \/ BackupRefused

\* Storage, the job controller and the garbage collector.
ClusterWork ==
    \/ SnapshotTaken \/ CloneFilled \/ JobEnds
    \/ CollectJob \/ CollectSnapshot \/ CollectClone

BackupCluster ==
    \/ ClusterWork
    \/ DataChanges \/ UserCreatesBackup \/ UserDeletesBackup
    \/ SyncBackup \/ SyncCaches \/ Resync
    \/ BackupFails \/ RestartOperator

BackupNext == BackupPass \/ BackupCluster
BackupSpec == BackupInit /\ [][BackupNext]_backupVars

\* Queued requests are handled, the watches deliver, the informers resync, and
\* the cluster's controllers do the work there is.
BackupFairness ==
    /\ WF_backupVars(BackupPass)
    /\ WF_backupVars(SyncBackup)
    /\ WF_backupVars(SyncCaches)
    /\ WF_backupVars(Resync)
    /\ WF_backupVars(ClusterWork)

BackupFairSpec == BackupSpec /\ BackupFairness

-----------------------------------------------------------------------------
(***************************************************************************)
(* Properties.                                                             *)
(***************************************************************************)

BackupSteps == {"idle", "job", "status", "vault", "snap", "clone", "mkjob"}

\* Types; every owner is a resource, and the handler holds one during a pass.
BackupTypeOK ==
    /\ pc \in BackupSteps
    /\ CR!RecTypeOK(BackupObjects)
    /\ queued \in BOOLEAN
    /\ job \in Jobs \cup {None} /\ jobCache \in Jobs \cup {None}
    /\ snap \in Copies \cup {None} /\ snapCache \in Copies \cup {None}
    /\ clone \in Copies \cup {None} /\ cloneCache \in Copies \cup {None}
    /\ vault \in Contents /\ vaultSeen \in BOOLEAN
    /\ data \in Versions /\ since \in 0 .. data
    /\ creates \in 0 .. MaxCreates /\ faults \in 0 .. MaxFaults

\* README.md:337: the vault is kept when a DirectoryBackup is deleted and used
\* again by the next one of that name, which may also take over a snapshot or
\* a clone of its predecessor (directorybackup_controller.go:133, 172) while the
\* collector and the predecessor's job are still at work.  What it holds is never
\* replaced by older data, nor by an empty volume.
VaultNeverRegresses == [][vault' >= vault]_backupVars

\* directorybackup_types.go:77, "the time a backup was completed": when the
\* status says so, the vault holds data no older than the resource.  A name
\* that is used again may find the job of its predecessor and break this.
CompletedIsFresh == db # None /\ db.status.done # 0 => vault >= since

\* Asked for, exported, reported: the backup model implements its abstract
\* specification.
Life == INSTANCE BackupLife WITH
    asked <- since, live <- db # None, kept <- vault,
    reported <- db # None /\ db.status.done # 0

\* directorybackup_controller.go:52-190: whatever the order of snapshot, clone,
\* job, status and deletion, and whatever fails on the way, a backup whose name
\* is used once goes through the life BackupLife allows.
BackupLives == Life!LifeSpec

\* README.md:337, "Deleting a DirectoryBackup resource deletes the associated
\* volume snapshot and PVC clone", also when a pass was under way.
CleanedUp ==
    <>[](db = None) => <>[](snap = None /\ clone = None /\ job = None)

\* A DirectoryBackup that is not deleted again is carried out and says so for
\* good, unless its job fails, whatever an earlier one of its name left behind.
EventuallyReported ==
    <>[](db # None) =>
        <>[]( /\ db # None
              /\ \/ db.status.done = db.born
                 \/ job # None /\ job.owner = db.born /\ job.state = "failed" )

=============================================================================

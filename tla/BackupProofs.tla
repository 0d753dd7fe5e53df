---------------------------- MODULE BackupProofs ----------------------------
(***************************************************************************)
(* Proofs about Backup for any number of versions, recreations and faults. *)
(***************************************************************************)
EXTENDS Backup, TLAPS

\* The copies of the resource: types, a cache that is up to date equals the
\* store, and a handler whose copy is the stored version knows there is one.
CopiesOK ==
    /\ CR!RecTypeOK(BackupObjects)
    /\ cacheFresh => dbCache = db
    /\ myFresh => db # None

\* The part of the types that is about the other objects.
OwnTypeOK ==
    /\ queued \in BOOLEAN
    /\ job \in Jobs \cup {None} /\ jobCache \in Jobs \cup {None}
    /\ snap \in Copies \cup {None} /\ snapCache \in Copies \cup {None}
    /\ clone \in Copies \cup {None} /\ cloneCache \in Copies \cup {None}
    /\ vault \in Contents /\ vaultSeen \in BOOLEAN
    /\ data \in Versions /\ since \in 0 .. data
    /\ creates \in 0 .. MaxCreates /\ faults \in 0 .. MaxFaults

TypeInv == pc \in BackupSteps /\ CopiesOK /\ OwnTypeOK

\* Data flows from the directory to the snapshot, the clone and the vault: of
\* those that are there and filled, none is newer than the one before it.
Chain ==
    /\ vault <= data
    /\ snap # None /\ snap.content # Absent =>
            vault <= snap.content /\ snap.content <= data
    /\ clone # None /\ clone.content # Absent =>
            vault <= clone.content /\ clone.content <= data
    /\ /\ clone # None /\ clone.content # Absent
       /\ snap # None /\ snap.content # Absent
       => clone.content <= snap.content

-----------------------------------------------------------------------------
\* Replacing the status of a resource gives a resource.
LEMMA WithStatus ==
    ASSUME NEW o \in BackupObjects, NEW st \in BackupStatuses
    PROVE  /\ [o EXCEPT !.status = st] \in BackupObjects
           /\ o.born \in Uids /\ o.status \in BackupStatuses
  BY DEF BackupObjects, CR!Objects

\* What the handler learns from the job is a status (Reconcile, lines 76-83).
LEMMA SeenIsStatus ==
    ASSUME OwnTypeOK, NEW st \in BackupStatuses
    PROVE  Seen(st) \in BackupStatuses
  BY DEF Seen, OwnTypeOK, Jobs, BackupStatuses

\* The steps of the handler that do not write the resource keep the copies.
LEMMA HandlerKeepsCopies ==
    ASSUME CopiesOK, NEW step,
           \/ CR!Load(step)
           \/ CR!LoadNothing
           \/ pc # "idle" /\ CR!Goto(step)
           \/ CR!Return
           \/ CR!Restart
           \/ CR!SyncDS
           \/ UNCHANGED crVars
    PROVE  CopiesOK'
  <1> USE DEF CopiesOK, CR!RecTypeOK
  <1>1. CASE CR!Load(step)
    BY <1>1, Zenon DEF CR!Load
  <1>2. CASE CR!LoadNothing
    BY <1>2 DEF CR!LoadNothing, CR!recVars
  <1>3. CASE pc # "idle" /\ CR!Goto(step)
    BY <1>3, Zenon DEF CR!Goto
  <1>4. CASE CR!Return
    BY <1>4, Zenon DEF CR!Return
  <1>5. CASE CR!Restart
    BY <1>5, Zenon DEF CR!Restart
  <1>6. CASE CR!SyncDS
    BY <1>6, Zenon DEF CR!SyncDS
  <1>7. CASE UNCHANGED crVars
    BY <1>7 DEF crVars
  <1> QED
    BY <1>1, <1>2, <1>3, <1>4, <1>5, <1>6, <1>7

\* So does a step that assigns to the status of the handler's copy.
LEMMA ObserveKeepsCopies ==
    ASSUME CopiesOK, pc # "idle", NEW st \in BackupStatuses, NEW step,
           CR!Observe(st, step)
    PROVE  CopiesOK'
  <1>1. my \in BackupObjects
    BY DEF CopiesOK, CR!RecTypeOK
  <1>2. my' \in BackupObjects
    BY <1>1, WithStatus DEF CR!Observe
  <1> QED
    BY <1>2, Zenon DEF CR!Observe, CopiesOK, CR!RecTypeOK

\* A status write keeps the copies, applied or not (lines 85-89).
LEMMA WriteKeepsCopies ==
    ASSUME CopiesOK, pc # "idle", NEW st \in BackupStatuses, NEW step,
           CR!WriteStatus(st, step) \/ CR!WriteStatusAndReturn(st)
    PROVE  CopiesOK'
  <1> DEFINE Written == /\ myFresh
                        /\ db' = [db EXCEPT !.status = st]
                        /\ \E other \in BOOLEAN :
                             cacheFresh' = (cacheFresh /\ db' = db /\ ~other)
  <1>1. ASSUME Written
        PROVE  /\ db' \in BackupObjects /\ db' # None
               /\ cacheFresh' \in BOOLEAN
               /\ cacheFresh' => dbCache = db'
    <2>1. db \in BackupObjects
      BY <1>1, Zenon DEF CopiesOK, CR!RecTypeOK
    <2>2. db' \in BackupObjects
      BY <1>1, <2>1, WithStatus
    <2>3. cacheFresh' \in BOOLEAN /\ (cacheFresh' => cacheFresh /\ db' = db)
      BY <1>1, Zenon
    <2> QED
      BY <2>2, <2>3, NoneIsNoObject, Zenon DEF CopiesOK
  <1>2. CASE CR!WriteStatus(st, step)
    <2>1. Written /\ my' = [my EXCEPT !.status = st]
      BY <1>2, Zenon DEF CR!WriteStatus
    <2>2. my' \in BackupObjects
      <3>1. my \in BackupObjects
        BY DEF CopiesOK, CR!RecTypeOK
      <3> QED
        BY <2>1, <3>1, WithStatus
    <2> QED
      BY <1>1, <1>2, <2>1, <2>2, Zenon DEF CR!WriteStatus, CopiesOK, CR!RecTypeOK
  <1>3. CASE CR!WriteStatusAndReturn(st)
    <2>1. CASE UNCHANGED <<db, cacheFresh>>
      BY <1>3, <2>1, Zenon DEF CR!WriteStatusAndReturn, CopiesOK, CR!RecTypeOK
    <2>2. CASE Written
      BY <1>1, <1>3, <2>2, Zenon DEF CR!WriteStatusAndReturn, CopiesOK, CR!RecTypeOK
    <2> QED
      BY <1>3, <2>1, <2>2, Zenon DEF CR!WriteStatusAndReturn
  <1> QED
    BY <1>2, <1>3

\* Users keep the copies: what they create is not what a copy was read from.
LEMMA UserKeepsCopies ==
    ASSUME CopiesOK, NEW u \in Uids, NEW st \in BackupStatuses,
           CR!UserCreates("spec", st, u) \/ CR!UserDeletes
    PROVE  CopiesOK'
  <1>1. CASE CR!UserCreates("spec", st, u)
    <2>1. db' \in BackupObjects
      BY <1>1 DEF CR!UserCreates, BackupObjects, CR!Objects
    <2>2. ~myFresh
      BY <1>1, Zenon DEF CR!UserCreates, CopiesOK
    <2> QED
      BY <1>1, <2>1, <2>2, Zenon DEF CR!UserCreates, CopiesOK, CR!RecTypeOK
  <1>2. CASE CR!UserDeletes
    BY <1>2, Zenon DEF CR!UserDeletes, CopiesOK, CR!RecTypeOK
  <1> QED
    BY <1>1, <1>2

\* CreateOrUpdate with SetOwnerReference (lines 121-135, 150-174) makes an
\* empty object or leaves the contents of the stored one.
LEMMA EnsuredKeepsContents ==
    ASSUME NEW old \in Copies \cup {None}, NEW cached \in Copies \cup {None},
           my.born \in Uids,
           NEW fresh, fresh = [owner |-> my.born, content |-> Absent],
           NEW new \in Ensured(old, cached, fresh)
    PROVE  /\ new \in Copies \cup {None}
           /\ \/ new = fresh /\ new.content = Absent
              \/ new = old
              \/ old # None /\ new.content = old.content
  <1>1. fresh \in Copies /\ fresh.content = Absent
    BY DEF Copies, Contents
  <1>2. CASE new = fresh
    BY <1>1, <1>2
  <1>3. CASE new = old
    BY <1>3
  <1>4. CASE cached # None /\ old = cached /\ new = [old EXCEPT !.owner = my.born]
    <2>1. old \in Copies
      BY <1>4
    <2>2. new \in Copies /\ new.content = old.content
      BY <1>4, <2>1 DEF Copies
    <2> QED
      BY <1>4, <2>2
  <1> QED
    BY <1>2, <1>3, <1>4 DEF Ensured

-----------------------------------------------------------------------------
\* The system starts with no resource, no object of its own and no vault.
LEMMA BackupTypesInit ==
    BackupInit => TypeInv
  <1> SUFFICES ASSUME BackupInit PROVE TypeInv
    OBVIOUS
  <1>1. CopiesOK
    BY Zenon DEF BackupInit, CopiesOK, CR!RecTypeOK
  <1>2. /\ vault \in Contents /\ data \in Versions /\ since \in 0 .. data
        /\ creates \in 0 .. MaxCreates /\ faults \in 0 .. MaxFaults
    BY BackupConstants DEF BackupInit, Contents, Versions
  <1>3. OwnTypeOK
    BY <1>2, Zenon DEF BackupInit, OwnTypeOK
  <1> QED
    BY <1>1, <1>3 DEF BackupInit, TypeInv, BackupSteps

\* A failed call or a restart is counted within its bound.
LEMMA FaultIsCounted ==
    ASSUME OwnTypeOK, Fault \/ UNCHANGED faults
    PROVE  faults' \in 0 .. MaxFaults
  BY BackupConstants DEF OwnTypeOK, Fault

\* The handler holds a resource during a pass, so it knows the owner to set.
LEMMA HandlerKnowsOwner ==
    ASSUME CopiesOK, pc # "idle"
    PROVE  /\ my \in BackupObjects
           /\ my.born \in Uids /\ my.status \in BackupStatuses
  <1>1. my \in BackupObjects
    BY DEF CopiesOK, CR!RecTypeOK
  <1> QED
    BY <1>1 DEF BackupObjects, CR!Objects

\* A write of another object that is answered, or whose answer is lost, keeps
\* the copies of the resource and the types of the queue.
LEMMA AnsweredOrLostTypes ==
    ASSUME TypeInv, pc # "idle", NEW step \in BackupSteps, AnsweredOrLost(step)
    PROVE  /\ CopiesOK' /\ pc' \in BackupSteps
           /\ queued' \in BOOLEAN /\ faults' \in 0 .. MaxFaults
  <1>1. CASE CR!Goto(step) /\ UNCHANGED <<queued, faults>>
    <2>1. CopiesOK'
      BY <1>1, HandlerKeepsCopies DEF TypeInv
    <2> QED
      BY <1>1, <2>1 DEF TypeInv, OwnTypeOK, CR!Goto
  <1>2. CASE ReturnError /\ Fault
    <2>1. CopiesOK'
      BY <1>2, HandlerKeepsCopies DEF TypeInv, ReturnError
    <2>2. pc' \in BackupSteps
      BY <1>2 DEF ReturnError, CR!Return, BackupSteps
    <2>3. queued' \in BOOLEAN
      BY <1>2, Zenon DEF ReturnError
    <2>4. faults' \in 0 .. MaxFaults
      BY <1>2, FaultIsCounted DEF TypeInv
    <2> QED
      BY <2>1, <2>2, <2>3, <2>4
  <1> QED
    BY <1>1, <1>2 DEF AnsweredOrLost

\* The steps of a pass of Reconcile keep the types.
LEMMA PassKeepsTypes ==
    ASSUME TypeInv, BackupPass
    PROVE  TypeInv'
  <1> USE DEF TypeInv
  <1>1. CASE Begin
    <2>1. CopiesOK'
      BY <1>1, HandlerKeepsCopies DEF Begin
    <2>2. pc' \in BackupSteps
      BY <1>1 DEF Begin, CR!Load, BackupSteps
    <2>3. OwnTypeOK'
      BY <1>1 DEF Begin, OwnTypeOK, storeVars, cacheVars, userVars
    <2> QED
      BY <2>1, <2>2, <2>3
  <1>2. CASE BeginGone
    <2>1. CopiesOK'
      BY <1>2, HandlerKeepsCopies DEF BeginGone
    <2>2. pc' \in BackupSteps
      BY <1>2 DEF BeginGone, CR!LoadNothing, CR!recVars
    <2>3. OwnTypeOK'
      BY <1>2 DEF BeginGone, OwnTypeOK, storeVars, cacheVars, userVars
    <2> QED
      BY <2>1, <2>2, <2>3
  <1>3. CASE ReadJob
    <2>1. pc # "idle"
      BY <1>3 DEF ReadJob, CR!At
    <2>2. Seen(my.status) \in BackupStatuses
      BY <2>1, HandlerKnowsOwner, SeenIsStatus
    <2>3. CopiesOK'
      BY <1>3, <2>1, <2>2, ObserveKeepsCopies DEF ReadJob
    <2>4. pc' \in BackupSteps
      BY <1>3 DEF ReadJob, CR!Observe, BackupSteps
    <2>5. OwnTypeOK'
      BY <1>3 DEF ReadJob, OwnTypeOK, storeVars, cacheVars, userVars
    <2> QED
      BY <2>3, <2>4, <2>5
  <1>4. CASE UpdateBackupStatus
    <2>1. pc # "idle"
      BY <1>4 DEF UpdateBackupStatus, CR!At
    <2>2. my.status \in BackupStatuses
      BY <2>1, HandlerKnowsOwner
    <2>3. CopiesOK'
      BY <1>4, <2>1, <2>2, WriteKeepsCopies DEF UpdateBackupStatus
    <2>4. pc' \in BackupSteps
      BY <1>4, Zenon DEF UpdateBackupStatus, CR!WriteStatus, BackupSteps
    <2>5. OwnTypeOK'
      BY <1>4 DEF UpdateBackupStatus, OwnTypeOK, storeVars, cacheVars, userVars
    <2> QED
      BY <2>3, <2>4, <2>5
  <1>5. CASE EnsureVault
    <2>1. pc # "idle" /\ "snap" \in BackupSteps
      BY <1>5 DEF EnsureVault, CR!At, BackupSteps
    <2>2. /\ CopiesOK' /\ pc' \in BackupSteps
          /\ queued' \in BOOLEAN /\ faults' \in 0 .. MaxFaults
      BY <1>5, <2>1, AnsweredOrLostTypes DEF EnsureVault
    <2>3. OwnTypeOK'
      BY <1>5, <2>2 DEF EnsureVault, OwnTypeOK, Contents, cacheVars, userVars
    <2> QED
      BY <2>2, <2>3
  <1>6. CASE EnsureSnapshot
    <2>1. pc # "idle" /\ "clone" \in BackupSteps
      BY <1>6 DEF EnsureSnapshot, CR!At, BackupSteps
    <2>2. /\ CopiesOK' /\ pc' \in BackupSteps
          /\ queued' \in BOOLEAN /\ faults' \in 0 .. MaxFaults
      BY <1>6, <2>1, AnsweredOrLostTypes DEF EnsureSnapshot
    <2>3. snap' \in Copies \cup {None}
      BY <1>6, <2>1, HandlerKnowsOwner, EnsuredKeepsContents
         DEF EnsureSnapshot, NewSnapshot, OwnTypeOK
    <2>4. OwnTypeOK'
      BY <1>6, <2>2, <2>3 DEF EnsureSnapshot, OwnTypeOK, cacheVars, userVars
    <2> QED
      BY <2>2, <2>4
  <1>7. CASE EnsureClone
    <2>1. pc # "idle" /\ "mkjob" \in BackupSteps
      BY <1>7 DEF EnsureClone, CR!At, BackupSteps
    <2>2. /\ CopiesOK' /\ pc' \in BackupSteps
          /\ queued' \in BOOLEAN /\ faults' \in 0 .. MaxFaults
      BY <1>7, <2>1, AnsweredOrLostTypes DEF EnsureClone
    <2>3. clone' \in Copies \cup {None}
      BY <1>7, <2>1, HandlerKnowsOwner, EnsuredKeepsContents
         DEF EnsureClone, NewClone, OwnTypeOK
    <2>4. OwnTypeOK'
      BY <1>7, <2>2, <2>3 DEF EnsureClone, OwnTypeOK, cacheVars, userVars
    <2> QED
      BY <2>2, <2>4
  <1>8. CASE EnsureJob
    <2>1. pc # "idle"
      BY <1>8 DEF EnsureJob, CR!At
    <2>2. CopiesOK'
      BY <1>8, HandlerKeepsCopies DEF EnsureJob
    <2>3. pc' \in BackupSteps
      BY <1>8 DEF EnsureJob, CR!Return, BackupSteps
    <2>4. job' \in Jobs \cup {None}
      BY <1>8, <2>1, HandlerKnowsOwner DEF EnsureJob, NewJob, Jobs, OwnTypeOK
    <2>5. queued' \in BOOLEAN
      BY <1>8, Zenon DEF EnsureJob, OwnTypeOK
    <2>6. faults' \in 0 .. MaxFaults
      BY <1>8, FaultIsCounted DEF EnsureJob
    <2>7. OwnTypeOK'
      BY <1>8, <2>4, <2>5, <2>6 DEF EnsureJob, OwnTypeOK, cacheVars, userVars
    <2> QED
      BY <2>2, <2>3, <2>7
  <1>9. CASE BackupRefused
    <2>1. CopiesOK'
      BY <1>9, HandlerKeepsCopies DEF BackupRefused, ReturnError
    <2>2. pc' \in BackupSteps
      BY <1>9 DEF BackupRefused, ReturnError, CR!Return, BackupSteps
    <2>3. OwnTypeOK'
      BY <1>9 DEF BackupRefused, ReturnError, OwnTypeOK, storeVars, cacheVars, userVars
    <2> QED
      BY <2>1, <2>2, <2>3
  <1> QED
    BY <1>1, <1>2, <1>3, <1>4, <1>5, <1>6, <1>7, <1>8, <1>9 DEF BackupPass

\* Filling a snapshot or a clone gives one, with those contents.
LEMMA Filled ==
    ASSUME NEW o \in Copies, NEW c \in Contents, NEW p,
           p = [o EXCEPT !.content = c]
    PROVE  p \in Copies /\ p.content = c
  BY DEF Copies

\* Storage, the job controller and the garbage collector keep the types.
LEMMA WorkKeepsTypes ==
    ASSUME TypeInv, ClusterWork
    PROVE  TypeInv'
  <1>1. crVars' = crVars /\ UNCHANGED <<queued, data, cacheVars, userVars, faults>>
    BY DEF ClusterWork, SnapshotTaken, CloneFilled, JobEnds, CollectJob,
           CollectSnapshot, CollectClone
  <1>2. CopiesOK' /\ pc' \in BackupSteps
    BY <1>1, HandlerKeepsCopies DEF TypeInv, crVars
  <1>3. snap' \in Copies \cup {None}
    <2>1. CASE SnapshotTaken
      BY <2>1, Filled DEF SnapshotTaken, TypeInv, OwnTypeOK, Contents
    <2>2. CASE snap' = snap \/ snap' = None
      BY <2>2 DEF TypeInv, OwnTypeOK
    <2> QED
      BY <2>1, <2>2 DEF ClusterWork, CloneFilled, JobEnds, CollectJob,
                        CollectSnapshot, CollectClone
  <1>4. clone' \in Copies \cup {None}
    <2>1. CASE CloneFilled
      <3>1. clone \in Copies /\ snap.content \in Contents
        BY <2>1 DEF CloneFilled, TypeInv, OwnTypeOK, Copies
      <3> QED
        BY <2>1, <3>1, Filled DEF CloneFilled
    <2>2. CASE clone' = clone \/ clone' = None
      BY <2>2 DEF TypeInv, OwnTypeOK
    <2> QED
      BY <2>1, <2>2 DEF ClusterWork, SnapshotTaken, JobEnds, CollectJob,
                        CollectSnapshot, CollectClone
  <1>5. job' \in Jobs \cup {None} /\ vault' \in Contents
    <2>1. CASE JobEnds
      <3>1. job \in Jobs /\ clone.content \in Contents /\ vault \in Contents
        BY <2>1 DEF JobEnds, TypeInv, OwnTypeOK, Copies
      <3> QED
        BY <2>1, <3>1 DEF JobEnds, Jobs
    <2>2. CASE (job' = job \/ job' = None) /\ vault' = vault
      BY <2>2 DEF TypeInv, OwnTypeOK
    <2> QED
      BY <2>1, <2>2 DEF ClusterWork, SnapshotTaken, CloneFilled, CollectJob,
                        CollectSnapshot, CollectClone
  <1>6. OwnTypeOK'
    BY <1>1, <1>3, <1>4, <1>5 DEF TypeInv, OwnTypeOK, cacheVars, userVars
  <1> QED
    BY <1>2, <1>6 DEF TypeInv

\* So do users, the watches, failed calls and a restart of the operator.
LEMMA EnvironmentKeepsTypes ==
    ASSUME TypeInv,
           \/ DataChanges \/ UserCreatesBackup \/ UserDeletesBackup
           \/ SyncBackup \/ SyncCaches \/ Resync
           \/ BackupFails \/ RestartOperator
    PROVE  TypeInv'
  <1> USE DEF TypeInv
  <1>1. CASE DataChanges
    <2>1. CopiesOK' /\ pc' \in BackupSteps
      BY <1>1, HandlerKeepsCopies DEF DataChanges, crVars
    <2>2. data' \in Versions /\ since' \in 0 .. data'
      BY <1>1, BackupConstants DEF DataChanges, OwnTypeOK, Versions, userVars
    <2>3. OwnTypeOK'
      BY <1>1, <2>2 DEF DataChanges, OwnTypeOK, cacheVars, userVars
    <2> QED
      BY <2>1, <2>3
  <1>2. CASE UserCreatesBackup
    <2>1. /\ creates + 1 \in Uids /\ creates' \in 0 .. MaxCreates
          /\ [done |-> 0] \in BackupStatuses /\ since' \in 0 .. data
      BY <1>2, BackupConstants
         DEF UserCreatesBackup, OwnTypeOK, Uids, BackupStatuses, Versions
    <2>2. CopiesOK'
      BY <1>2, <2>1, UserKeepsCopies DEF UserCreatesBackup
    <2>3. pc' = pc
      BY <1>2 DEF UserCreatesBackup, CR!UserCreates
    <2>4. OwnTypeOK'
      BY <1>2, <2>1 DEF UserCreatesBackup, OwnTypeOK, storeVars, cacheVars
    <2> QED
      BY <2>2, <2>3, <2>4
  <1>3. CASE UserDeletesBackup
    <2>1. CopiesOK'
      BY <1>3, Zenon DEF UserDeletesBackup, CR!UserDeletes, CopiesOK, CR!RecTypeOK
    <2>2. pc' = pc
      BY <1>3 DEF UserDeletesBackup, CR!UserDeletes
    <2>3. OwnTypeOK'
      BY <1>3 DEF UserDeletesBackup, OwnTypeOK, storeVars, cacheVars, userVars
    <2> QED
      BY <2>1, <2>2, <2>3
  <1>4. CASE SyncBackup
    <2>1. CopiesOK'
      BY <1>4, HandlerKeepsCopies DEF SyncBackup
    <2>2. pc' = pc
      BY <1>4 DEF SyncBackup, CR!SyncDS
    <2>3. OwnTypeOK'
      BY <1>4 DEF SyncBackup, OwnTypeOK, storeVars, cacheVars, userVars
    <2> QED
      BY <2>1, <2>2, <2>3
  <1>5. CASE SyncCaches
    <2>1. CopiesOK' /\ pc' \in BackupSteps
      BY <1>5, HandlerKeepsCopies DEF SyncCaches, crVars
    <2>2. OwnTypeOK'
      BY <1>5 DEF SyncCaches, OwnTypeOK, storeVars, userVars
    <2> QED
      BY <2>1, <2>2
  <1>6. CASE Resync
    <2>1. CopiesOK' /\ pc' \in BackupSteps
      BY <1>6, HandlerKeepsCopies DEF Resync, crVars
    <2>2. OwnTypeOK'
      BY <1>6 DEF Resync, OwnTypeOK, storeVars, cacheVars, userVars
    <2> QED
      BY <2>1, <2>2
  <1>7. CASE BackupFails
    <2>1. pc # "idle"
      BY <1>7 DEF BackupFails
    <2>2. CopiesOK'
      BY <1>7, <2>1, HandlerKnowsOwner, HandlerKeepsCopies, WriteKeepsCopies
         DEF BackupFails
    <2>3. pc' \in BackupSteps
      BY <1>7, Zenon
         DEF BackupFails, CR!Return, CR!WriteStatusAndReturn, BackupSteps
    <2>4. faults' \in 0 .. MaxFaults
      BY <1>7, FaultIsCounted DEF BackupFails
    <2>5. OwnTypeOK'
      BY <1>7, <2>4 DEF BackupFails, OwnTypeOK, storeVars, cacheVars, userVars
    <2> QED
      BY <2>2, <2>3, <2>5
  <1>8. CASE RestartOperator
    <2>1. CopiesOK'
      BY <1>8, HandlerKeepsCopies DEF RestartOperator
    <2>2. pc' \in BackupSteps
      BY <1>8 DEF RestartOperator, CR!Restart, BackupSteps
    <2>3. faults' \in 0 .. MaxFaults
      BY <1>8, FaultIsCounted DEF RestartOperator
    <2>4. OwnTypeOK'
      BY <1>8, <2>3 DEF RestartOperator, OwnTypeOK, storeVars, userVars
    <2> QED
      BY <2>1, <2>2, <2>4
  <1> QED
    BY <1>1, <1>2, <1>3, <1>4, <1>5, <1>6, <1>7, <1>8

\* Every step keeps the types.
LEMMA TypesStep ==
    TypeInv /\ [BackupNext]_backupVars => TypeInv'
  <1> SUFFICES ASSUME TypeInv, [BackupNext]_backupVars PROVE TypeInv'
    OBVIOUS
  <1>1. CASE UNCHANGED backupVars
    <2>1. CopiesOK' /\ pc' \in BackupSteps
      BY <1>1, HandlerKeepsCopies DEF TypeInv, backupVars, crVars
    <2>2. OwnTypeOK'
      BY <1>1 DEF TypeInv, OwnTypeOK, backupVars, storeVars, cacheVars, userVars
    <2> QED
      BY <2>1, <2>2 DEF TypeInv
  <1> QED
    BY <1>1, PassKeepsTypes, WorkKeepsTypes, EnvironmentKeepsTypes
       DEF BackupNext, BackupCluster

\* Types, for any number of versions, recreations and faults: in particular the
\* handler holds a resource whenever it sets an owner reference to it
\* (directorybackup_controller.go:59, 133, 172).
THEOREM BackupTypes == BackupSpec => []BackupTypeOK
  <1>1. TypeInv => BackupTypeOK
    BY DEF TypeInv, CopiesOK, OwnTypeOK, BackupTypeOK
  <1> QED
    BY BackupTypesInit, TypesStep, <1>1, PTL DEF BackupSpec

-----------------------------------------------------------------------------
\* Volumes that are there hold blanks or versions.
LEMMA ContentsAreNumbers ==
    /\ \A c \in Contents : c \in Int /\ (c # Absent => c >= Blank)
    /\ \A d \in Versions : d \in Int /\ d > Blank
  BY BackupConstants DEF Contents, Versions, Absent, Blank

\* The chain holds at first: there is no copy.
LEMMA ChainInit ==
    BackupInit => Chain
  BY DEF BackupInit, Chain, Absent

\* Every step keeps the chain, and no step puts older data in the vault.
LEMMA ChainStep ==
    ASSUME TypeInv, Chain, [BackupNext]_backupVars
    PROVE  Chain' /\ vault' >= vault
  <1>0. /\ vault \in Contents /\ data \in Versions
        /\ snap \in Copies \cup {None} /\ clone \in Copies \cup {None}
        /\ snap # None => snap.content \in Contents
        /\ clone # None => clone.content \in Contents
    BY DEF TypeInv, OwnTypeOK, Copies
  <1> USE <1>0, ContentsAreNumbers DEF Chain
  <1>1. CASE EnsureVault
    BY <1>1 DEF EnsureVault, Absent, Blank
  <1>2. CASE EnsureSnapshot
    <2>1. snap' \in Ensured(snap, snapCache, NewSnapshot) /\ my.born \in Uids
      BY <1>2, HandlerKnowsOwner DEF EnsureSnapshot, CR!At, TypeInv
    <2>2. \/ snap'.content = Absent
          \/ snap' = snap
          \/ snap # None /\ snap'.content = snap.content
      BY <2>1, EnsuredKeepsContents DEF NewSnapshot, TypeInv, OwnTypeOK
    <2> QED
      BY <1>2, <2>2 DEF EnsureSnapshot
  <1>3. CASE EnsureClone
    <2>1. clone' \in Ensured(clone, cloneCache, NewClone) /\ my.born \in Uids
      BY <1>3, HandlerKnowsOwner DEF EnsureClone, CR!At, TypeInv
    <2>2. \/ clone'.content = Absent
          \/ clone' = clone
          \/ clone # None /\ clone'.content = clone.content
      BY <2>1, EnsuredKeepsContents DEF NewClone, TypeInv, OwnTypeOK
    <2> QED
      BY <1>3, <2>2 DEF EnsureClone
  <1>4. CASE SnapshotTaken
    <2>1. snap'.content = data
      BY <1>4, Filled DEF SnapshotTaken, Contents
    <2> QED
      BY <1>4, <2>1 DEF SnapshotTaken
  <1>5. CASE CloneFilled
    <2>1. clone'.content = snap.content
      BY <1>5, Filled DEF CloneFilled
    <2> QED
      BY <1>5, <2>1 DEF CloneFilled
  <1>6. CASE JobEnds
    BY <1>6 DEF JobEnds
  <1>7. CASE CollectSnapshot
    BY <1>7 DEF CollectSnapshot
  <1>8. CASE CollectClone
    BY <1>8 DEF CollectClone
  <1>9. CASE DataChanges
    BY <1>9 DEF DataChanges
  <1>10. CASE UNCHANGED <<snap, clone, vault, data>>
    BY <1>10
  <1> QED
    BY <1>1, <1>2, <1>3, <1>4, <1>5, <1>6, <1>7, <1>8, <1>9, <1>10
       DEF BackupNext, BackupPass, BackupCluster, ClusterWork, backupVars,
           storeVars, Begin, BeginGone, ReadJob, UpdateBackupStatus, EnsureJob,
           BackupRefused, CollectJob, UserCreatesBackup, UserDeletesBackup,
           SyncBackup, SyncCaches, Resync, BackupFails, RestartOperator

\* However often a DirectoryBackup is deleted and created again, and whatever
\* it takes over from its predecessors (CreateOrUpdate at
\* directorybackup_controller.go:96, 121, 150), an export never replaces newer
\* data in the vault by older data.
THEOREM VaultSafe == BackupSpec => VaultNeverRegresses
  <1> DEFINE Grows == vault' >= vault
  <1>1. BackupInit => TypeInv /\ Chain
    BY BackupTypesInit, ChainInit
  <1>2. TypeInv /\ Chain /\ [BackupNext]_backupVars => (TypeInv /\ Chain)'
    BY TypesStep, ChainStep
  <1>3. TypeInv /\ Chain /\ [BackupNext]_backupVars => [Grows]_backupVars
    BY ChainStep
  <1>4. VaultNeverRegresses <=> [][Grows]_backupVars
    BY DEF VaultNeverRegresses
  <1> HIDE DEF Grows
  <1> QED
    BY <1>1, <1>2, <1>3, <1>4, PTL DEF BackupSpec

-----------------------------------------------------------------------------
(***************************************************************************)
(* A name that is used once.  Before its first use nothing of that name is *)
(* there; from then on whatever is there was made for it, so that what     *)
(* says "done" was done after it was asked for.                            *)
(***************************************************************************)

Unused ==
    /\ pc = "idle" /\ db = None /\ dbCache = None
    /\ job = None /\ jobCache = None /\ snap = None /\ clone = None
    /\ vault = Absent /\ since = 0

Exported(j) == j # None /\ j.state = "done"

\* Copies that are filled are no older than the request, and an export that
\* is done, or was done when the cache last looked, has reached the vault.
FreshData ==
    /\ since \in Versions
    /\ snap # None /\ snap.content # Absent => snap.content >= since
    /\ clone # None /\ clone.content # Absent => clone.content >= since
    /\ Exported(job) \/ Exported(jobCache) => vault >= since

Reports(o) == o # None /\ o.status.done # 0

\* No copy of the resource, stale or not, reports what has not reached the
\* vault; and a handler that may write does not take back a report.
FreshStatus ==
    /\ Reports(db) \/ Reports(dbCache) => vault >= since
    /\ pc # "idle" /\ Reports(my) => vault >= since
    /\ myFresh /\ Reports(db) => pc # "idle" /\ Reports(my)

Once ==
    /\ creates = 0 => Unused
    /\ creates = 1 => FreshData /\ FreshStatus

\* The system starts with the name unused.
LEMMA OnceInit == BackupInit => Once
  BY DEF BackupInit, Once, Unused

\* While no resource was created nothing of its name is made.
LEMMA UnusedStep ==
    ASSUME TypeInv, Unused, [BackupNext]_backupVars, creates' = creates
    PROVE  Unused'
  <1>1. ~myFresh
    BY Zenon DEF TypeInv, CopiesOK, Unused
  <1>2. CASE BackupPass
    BY <1>2 DEF Unused, BackupPass, Begin, BeginGone, ReadJob, UpdateBackupStatus,
       EnsureVault, EnsureSnapshot, EnsureClone, EnsureJob, BackupRefused, CR!At,
       CR!Load, CR!LoadNothing, CR!recVars, storeVars, cacheVars, userVars
  <1>3. CASE ClusterWork
    BY <1>3 DEF Unused, ClusterWork, SnapshotTaken, CloneFilled, JobEnds,
       CollectJob, CollectSnapshot, CollectClone, Orphan
  <1>4. CASE UserCreatesBackup
    BY <1>4 DEF UserCreatesBackup, TypeInv, OwnTypeOK
  <1>5. CASE SyncBackup \/ RestartOperator
    BY <1>5 DEF Unused, SyncBackup, RestartOperator, CR!SyncDS, CR!Restart,
       storeVars, cacheVars, userVars
  <1>6. CASE \/ DataChanges \/ UserDeletesBackup \/ SyncCaches \/ Resync
             \/ BackupFails \/ UNCHANGED backupVars
    BY <1>6 DEF Unused, DataChanges, UserDeletesBackup, CR!UserDeletes, SyncCaches,
       Resync, BackupFails, backupVars, crVars, storeVars, cacheVars, userVars
  <1> QED
    BY <1>2, <1>3, <1>4, <1>5, <1>6 DEF BackupNext, BackupCluster

\* The first use finds nothing that could be taken for its own.
LEMMA FirstUse ==
    ASSUME TypeInv, Unused, creates = 0, [BackupNext]_backupVars, creates' = 1
    PROVE  UserCreatesBackup /\ FreshData' /\ FreshStatus'
  <1>1. UserCreatesBackup
    BY DEF BackupNext, BackupPass, BackupCluster, ClusterWork, backupVars, Begin,
       BeginGone, ReadJob, UpdateBackupStatus, EnsureVault, EnsureSnapshot,
       EnsureClone, EnsureJob, BackupRefused, BackupFails, DataChanges,
       SnapshotTaken, CloneFilled, JobEnds, CollectJob, CollectSnapshot,
       CollectClone, UserDeletesBackup, SyncBackup, SyncCaches, Resync,
       RestartOperator, userVars
  <1>2. FreshData'
    BY <1>1 DEF UserCreatesBackup, storeVars, cacheVars, Unused, FreshData,
       Exported, TypeInv, OwnTypeOK
  <1>3. db' # None /\ db'.status.done = 0 /\ dbCache' = None /\ pc' = "idle"
    <2>1. db' = [spec |-> "spec", status |-> [done |-> 0], born |-> creates + 1]
      BY <1>1 DEF UserCreatesBackup, CR!UserCreates
    <2>2. db' \in BackupObjects
      <3>1. creates + 1 \in Uids /\ [done |-> 0] \in BackupStatuses
        BY <1>1, BackupConstants
           DEF UserCreatesBackup, TypeInv, OwnTypeOK, Uids, BackupStatuses
      <3> QED
        BY <2>1, <3>1 DEF BackupObjects, CR!Objects
    <2> QED
      BY <1>1, <2>1, <2>2, NoneIsNoObject
         DEF UserCreatesBackup, CR!UserCreates, Unused
  <1>4. FreshStatus'
    BY <1>3 DEF FreshStatus, Reports
  <1> QED
    BY <1>1, <1>2, <1>4

\* The request stays what it was until the name is used again.
LEMMA SinceStays ==
    ASSUME TypeInv, [BackupNext]_backupVars, creates' = creates
    PROVE  since' = since
  BY DEF TypeInv, OwnTypeOK, BackupNext, BackupPass, BackupCluster, ClusterWork,
     backupVars, Begin, BeginGone, ReadJob, UpdateBackupStatus, EnsureVault,
     EnsureSnapshot, EnsureClone, EnsureJob, BackupRefused, BackupFails,
     DataChanges, SnapshotTaken, CloneFilled, JobEnds, CollectJob,
     CollectSnapshot, CollectClone, UserCreatesBackup, UserDeletesBackup,
     SyncBackup, SyncCaches, Resync, RestartOperator, userVars

\* Copies and exports stay fresh: they are filled from what is fresh.
LEMMA FreshDataStep ==
    ASSUME TypeInv, Chain, FreshData, [BackupNext]_backupVars, creates' = creates
    PROVE  FreshData'
  <1>0. /\ vault \in Contents /\ data \in Versions /\ since <= data
        /\ snap \in Copies \cup {None} /\ clone \in Copies \cup {None}
        /\ snap # None => snap.content \in Contents
        /\ clone # None => clone.content \in Contents
    BY DEF TypeInv, OwnTypeOK, Copies
  <1>1. since' = since /\ vault' >= vault /\ vault' \in Contents
    <2>1. TypeInv'
      BY TypesStep
    <2> QED
      BY <2>1, SinceStays, ChainStep DEF TypeInv, OwnTypeOK
  <1>2. vault >= since => vault' >= since'
    BY <1>0, <1>1, ContentsAreNumbers DEF FreshData
  <1>3. snap' # None /\ snap'.content # Absent => snap'.content >= since'
    <2>1. CASE EnsureSnapshot
      <3>1. snap' \in Ensured(snap, snapCache, NewSnapshot) /\ my.born \in Uids
        BY <2>1, HandlerKnowsOwner DEF EnsureSnapshot, CR!At, TypeInv
      <3>2. \/ snap'.content = Absent
            \/ snap' = snap
            \/ snap # None /\ snap'.content = snap.content
        BY <3>1, EnsuredKeepsContents DEF NewSnapshot, TypeInv, OwnTypeOK
      <3> QED
        BY <1>1, <3>2 DEF FreshData
    <2>2. CASE SnapshotTaken
      <3>1. snap'.content = data
        BY <1>0, <2>2, Filled DEF SnapshotTaken, Contents
      <3> QED
        BY <1>0, <1>1, <3>1, ContentsAreNumbers DEF FreshData
    <2>3. CASE snap' = None \/ snap' = snap
      BY <1>1, <2>3 DEF FreshData
    <2> QED
      BY <2>1, <2>2, <2>3
         DEF BackupNext, BackupPass, BackupCluster, ClusterWork, backupVars,
             storeVars, Begin, BeginGone, ReadJob, UpdateBackupStatus, EnsureVault,
             EnsureClone, EnsureJob, BackupRefused, BackupFails, DataChanges,
             CloneFilled, JobEnds, CollectJob, CollectSnapshot, CollectClone,
             UserCreatesBackup, UserDeletesBackup, SyncBackup, SyncCaches, Resync,
             RestartOperator
  <1>4. clone' # None /\ clone'.content # Absent => clone'.content >= since'
    <2>1. CASE EnsureClone
      <3>1. clone' \in Ensured(clone, cloneCache, NewClone) /\ my.born \in Uids
        BY <2>1, HandlerKnowsOwner DEF EnsureClone, CR!At, TypeInv
      <3>2. \/ clone'.content = Absent
            \/ clone' = clone
            \/ clone # None /\ clone'.content = clone.content
        BY <3>1, EnsuredKeepsContents DEF NewClone, TypeInv, OwnTypeOK
      <3> QED
        BY <1>1, <3>2 DEF FreshData
    <2>2. CASE CloneFilled
      <3>1. clone'.content = snap.content
        BY <1>0, <2>2, Filled DEF CloneFilled
      <3> QED
        BY <1>1, <2>2, <3>1 DEF FreshData, CloneFilled
    <2>3. CASE clone' = None \/ clone' = clone
      BY <1>1, <2>3 DEF FreshData
    <2> QED
      BY <2>1, <2>2, <2>3
         DEF BackupNext, BackupPass, BackupCluster, ClusterWork, backupVars,
             storeVars, Begin, BeginGone, ReadJob, UpdateBackupStatus, EnsureVault,
             EnsureSnapshot, EnsureJob, BackupRefused, BackupFails, DataChanges,
             SnapshotTaken, JobEnds, CollectJob, CollectSnapshot, CollectClone,
             UserCreatesBackup, UserDeletesBackup, SyncBackup, SyncCaches, Resync,
             RestartOperator
  <1>5. Exported(job') \/ Exported(jobCache') => vault' >= since'
    <2>1. CASE EnsureJob
      <3>1. jobCache' = jobCache /\ (job' = job \/ job'.state = "running")
        BY <2>1 DEF EnsureJob, NewJob, cacheVars
      <3> QED
        BY <1>2, <3>1 DEF FreshData, Exported
    <2>2. CASE JobEnds
      <3>1. jobCache' = jobCache
        BY <2>2 DEF JobEnds, cacheVars
      <3>2. CASE job' = [job EXCEPT !.state = "done"] /\ vault' = clone.content
        BY <1>1, <2>2, <3>2 DEF JobEnds, FreshData
      <3>3. CASE job' = [job EXCEPT !.state = "failed"]
        <4>1. job'.state = "failed"
          BY <2>2, <3>3 DEF JobEnds, TypeInv, OwnTypeOK, Jobs
        <4> QED
          BY <1>2, <3>1, <4>1 DEF FreshData, Exported
      <3> QED
        BY <2>2, <3>2, <3>3 DEF JobEnds
    <2>3. CASE job' \in {job, None} /\ jobCache' \in {job, jobCache}
      BY <1>2, <2>3 DEF FreshData, Exported
    <2> QED
      BY <2>1, <2>2, <2>3
         DEF BackupNext, BackupPass, BackupCluster, ClusterWork, backupVars,
             storeVars, cacheVars, Begin, BeginGone, ReadJob, UpdateBackupStatus,
             EnsureVault, EnsureSnapshot, EnsureClone, BackupRefused, BackupFails,
             DataChanges, SnapshotTaken, CloneFilled, CollectJob, CollectSnapshot,
             CollectClone, UserCreatesBackup, UserDeletesBackup, SyncBackup,
             SyncCaches, Resync, RestartOperator
  <1> QED
    BY <1>1, <1>3, <1>4, <1>5 DEF FreshData, Exported

\* A resource reports what its status says.
LEMMA ReportsStatus ==
    ASSUME NEW o \in BackupObjects, NEW st \in BackupStatuses,
           NEW p, p = [o EXCEPT !.status = st]
    PROVE  /\ Reports(o) <=> o.status.done # 0
           /\ Reports(p) <=> st.done # 0
  <1>1. p \in BackupObjects /\ p.status = st
    BY DEF BackupObjects, CR!Objects
  <1> QED
    BY <1>1, NoneIsNoObject DEF Reports

\* The status write, applied or not, stores what the handler's copy reports
\* (directorybackup_controller.go:85-89).
LEMMA WrittenReports ==
    ASSUME TypeInv, FreshStatus, pc # "idle", NEW step,
           CR!WriteStatus(my.status, step) \/ CR!WriteStatusAndReturn(my.status)
    PROVE  /\ Reports(db') => Reports(db) \/ Reports(my)
           /\ Reports(db) => Reports(db')
           /\ CR!WriteStatus(my.status, step) =>
                (Reports(my') <=> Reports(my)) /\ (Reports(db') <=> Reports(my))
  <1>1. my \in BackupObjects /\ my.status \in BackupStatuses
    BY HandlerKnowsOwner DEF TypeInv
  <1>2. ASSUME myFresh, db' = [db EXCEPT !.status = my.status]
        PROVE  Reports(db') <=> Reports(my)
    <2>1. db \in BackupObjects
      BY <1>2, Zenon DEF TypeInv, CopiesOK, CR!RecTypeOK
    <2> QED
      BY <1>1, <1>2, <2>1, ReportsStatus
  <1>3. CASE CR!WriteStatus(my.status, step)
    <2>1. myFresh /\ db' = [db EXCEPT !.status = my.status]
                  /\ my' = [my EXCEPT !.status = my.status]
      BY <1>3, Zenon DEF CR!WriteStatus
    <2>2. Reports(my') <=> Reports(my)
      BY <1>1, <2>1, ReportsStatus
    <2>3. Reports(db') <=> Reports(my)
      BY <1>2, <2>1
    <2> QED
      BY <2>1, <2>2, <2>3 DEF FreshStatus
  <1>4. CASE CR!WriteStatusAndReturn(my.status) /\ ~CR!WriteStatus(my.status, step)
    <2>1. \/ db' = db
          \/ myFresh /\ db' = [db EXCEPT !.status = my.status]
      BY <1>4, Zenon DEF CR!WriteStatusAndReturn
    <2> QED
      BY <1>2, <1>4, <2>1 DEF FreshStatus, Reports
  <1> QED
    BY <1>3, <1>4

\* Reports stay true: the handler reports only an export that is done.
LEMMA FreshStatusStep ==
    ASSUME TypeInv, Chain, FreshData, FreshStatus, [BackupNext]_backupVars,
           creates' = creates
    PROVE  FreshStatus'
  <1>0. vault >= since => vault' >= since'
    <2>1. /\ since' = since /\ since \in Versions /\ vault' >= vault
          /\ vault \in Contents /\ vault' \in Contents
      BY SinceStays, ChainStep, TypesStep DEF FreshData, TypeInv, OwnTypeOK
    <2> QED
      BY <2>1, ContentsAreNumbers
  <1>1. CASE Begin
    <2>1. /\ pc' = "job" /\ my' = dbCache /\ db' = db /\ dbCache' = dbCache
          /\ myFresh' => dbCache = db
      BY <1>1, Zenon DEF Begin, CR!Load, TypeInv, CopiesOK
    <2> QED
      BY <1>0, <2>1 DEF FreshStatus, Reports
  <1>2. CASE ReadJob
    <2>1. /\ pc = "job" /\ pc' = "status" /\ db' = db /\ dbCache' = dbCache
          /\ my' = [my EXCEPT !.status = Seen(my.status)] /\ myFresh' = myFresh
      BY <1>2 DEF ReadJob, CR!At, CR!Observe
    <2>2. my \in BackupObjects /\ my.status \in BackupStatuses
      BY <2>1, HandlerKnowsOwner DEF TypeInv
    <2>3. Seen(my.status) \in BackupStatuses
      BY <2>2, SeenIsStatus DEF TypeInv
    <2>4. /\ Reports(my) <=> my.status.done # 0
          /\ Reports(my') <=> Seen(my.status).done # 0
      BY <2>1, <2>2, <2>3, ReportsStatus
    <2>5. /\ Seen(my.status).done # 0 => Exported(jobCache) \/ my.status.done # 0
          /\ my.status.done # 0 => Seen(my.status).done # 0
      BY DEF Seen, Exported, TypeInv, OwnTypeOK, Jobs, Uids
    <2> QED
      BY <1>0, <2>1, <2>4, <2>5 DEF FreshStatus, FreshData, Reports
  <1>3. CASE UpdateBackupStatus
    <2>1. CR!WriteStatus(my.status, "vault") /\ pc # "idle"
      BY <1>3 DEF UpdateBackupStatus, CR!At
    <2>2. (Reports(my') <=> Reports(my)) /\ (Reports(db') <=> Reports(my))
      BY <2>1, WrittenReports
    <2>3. pc' = "vault" /\ dbCache' = dbCache
      BY <2>1, Zenon DEF CR!WriteStatus
    <2> QED
      BY <1>0, <2>1, <2>2, <2>3 DEF FreshStatus, Reports
  <1>4. CASE CR!Return
    BY <1>0, <1>4 DEF CR!Return, FreshStatus, Reports
  <1>5. CASE EnsureVault \/ EnsureSnapshot \/ EnsureClone
    <2>1. CASE CR!Return
      BY <1>4, <2>1
    <2>2. CASE pc # "idle" /\ pc' # "idle" /\ UNCHANGED <<db, dbCache, my, myFresh>>
      BY <1>0, <2>2 DEF FreshStatus, Reports
    <2> QED
      BY <1>5, <2>1, <2>2 DEF EnsureVault, EnsureSnapshot, EnsureClone, CR!At,
         AnsweredOrLost, CR!Goto, ReturnError
  <1>6. CASE BackupFails
    <2>1. CASE CR!Return
      BY <1>4, <2>1
    <2>2. CASE pc = "status" /\ CR!WriteStatusAndReturn(my.status)
      <3>1. Reports(db') => Reports(db) \/ Reports(my)
        BY <2>2, WrittenReports
      <3>2. pc' = "idle" /\ ~myFresh' /\ dbCache' = dbCache
        BY <2>2, Zenon DEF CR!WriteStatusAndReturn
      <3> QED
        BY <1>0, <2>2, <3>1, <3>2 DEF FreshStatus, Reports
    <2> QED
      BY <1>6, <2>1, <2>2 DEF BackupFails
  <1>7. CASE SyncBackup
    BY <1>0, <1>7 DEF SyncBackup, CR!SyncDS, FreshStatus, Reports
  <1>8. CASE RestartOperator
    BY <1>0, <1>8 DEF RestartOperator, CR!Restart, FreshStatus, Reports
  <1>9. CASE UserDeletesBackup
    BY <1>0, <1>9 DEF UserDeletesBackup, CR!UserDeletes, FreshStatus, Reports
  <1>10. CASE UserCreatesBackup
    BY <1>10 DEF UserCreatesBackup, TypeInv, OwnTypeOK
  <1>11. CASE UNCHANGED crVars
    BY <1>0, <1>11 DEF crVars, FreshStatus, Reports
  <1> QED
    BY <1>1, <1>2, <1>3, <1>4, <1>5, <1>6, <1>7, <1>8, <1>9, <1>10, <1>11
       DEF BackupNext, BackupPass, BackupCluster, ClusterWork, backupVars,
           BeginGone, CR!LoadNothing, CR!recVars, crVars, EnsureJob, BackupRefused,
           ReturnError, DataChanges, SnapshotTaken, CloneFilled, JobEnds,
           CollectJob, CollectSnapshot, CollectClone, SyncCaches, Resync

\* Every step keeps the invariant of a name used once.
LEMMA OnceStep ==
    ASSUME TypeInv, Chain, Once, [BackupNext]_backupVars
    PROVE  Once'
  <1>1. creates \in Nat /\ creates' \in {creates, creates + 1}
    BY BackupConstants
       DEF TypeInv, OwnTypeOK, BackupNext, BackupPass, BackupCluster, ClusterWork,
           backupVars, Begin, BeginGone, ReadJob, UpdateBackupStatus, EnsureVault,
           EnsureSnapshot, EnsureClone, EnsureJob, BackupRefused, BackupFails,
           DataChanges, SnapshotTaken, CloneFilled, JobEnds, CollectJob,
           CollectSnapshot, CollectClone, UserCreatesBackup, UserDeletesBackup,
           SyncBackup, SyncCaches, Resync, RestartOperator, userVars
  <1>2. CASE creates' = creates
    BY <1>2, UnusedStep, FreshDataStep, FreshStatusStep DEF Once
  <1>3. CASE creates' = creates + 1
    BY <1>1, <1>3, FirstUse DEF Once
  <1> QED
    BY <1>1, <1>2, <1>3

\* Types, the order of the data and the life of a name used once hold together
\* at every moment (directorybackup_controller.go:52-190).
THEOREM BackupInvariant == BackupSpec => [](TypeInv /\ Chain /\ Once)
  <1>1. BackupInit => TypeInv /\ Chain /\ Once
    BY BackupTypesInit, ChainInit, OnceInit
  <1>2. TypeInv /\ Chain /\ Once /\ [BackupNext]_backupVars
            => (TypeInv /\ Chain /\ Once)'
    BY TypesStep, ChainStep, OnceStep
  <1> QED
    BY <1>1, <1>2, PTL DEF BackupSpec

\* As long as a name has been used once only, a DirectoryBackup that says it is
\* complete (directorybackup_controller.go:80) has its vault filled with data no
\* older than the request, whatever is stale, fails or is restarted.
THEOREM CompletedSafe == BackupSpec => [](creates <= 1 => CompletedIsFresh)
  <1>1. TypeInv /\ Chain /\ Once => (creates <= 1 => CompletedIsFresh)
    BY DEF TypeInv, OwnTypeOK, Once, Unused, FreshStatus, Reports, CompletedIsFresh
  <1> QED
    BY <1>1, BackupInvariant, PTL

-----------------------------------------------------------------------------
(***************************************************************************)
(* The detailed model implements BackupLife while the name is used once.   *)
(***************************************************************************)

\* What the abstract life sees of the resource: is it there, does it report.
SeenAlike == (db' # None <=> db # None) /\ (Reports(db') <=> Reports(db))

\* A step that shows none of it is a stutter of the abstract life.
LEMMA LifeStutters ==
    ASSUME SeenAlike, UNCHANGED <<data, since, vault>>
    PROVE  UNCHANGED Life!lifeVars
  BY Zenon DEF SeenAlike, Reports, Life!lifeVars

\* Users' steps and changes of the data are steps of the abstract life.
LEMMA LifeOfUsers ==
    ASSUME TypeInv, Once, creates' <= 1,
           DataChanges \/ UserCreatesBackup \/ UserDeletesBackup
    PROVE  Life!LifeNext
  <1>1. CASE DataChanges
    BY <1>1, Zenon DEF DataChanges, crVars, userVars, Life!LifeNext, Life!Change
  <1>2. CASE UserCreatesBackup
    <2>1. creates = 0 /\ creates' = 1
      BY <1>2 DEF UserCreatesBackup, TypeInv, OwnTypeOK
    <2>2. Unused
      BY <2>1 DEF Once
    <2>3. [BackupNext]_backupVars
      BY <1>2 DEF BackupNext, BackupCluster
    <2>4. db = None /\ db' # None /\ ~Reports(db')
      <3>1. db' = [spec |-> "spec", status |-> [done |-> 0], born |-> creates + 1]
        BY <1>2 DEF UserCreatesBackup, CR!UserCreates
      <3>2. db'.status.done = 0
        BY <3>1
      <3>3. db' \in BackupObjects
        <4>1. creates + 1 \in Uids /\ [done |-> 0] \in BackupStatuses
          BY <1>2, BackupConstants
             DEF UserCreatesBackup, TypeInv, OwnTypeOK, Uids, BackupStatuses
        <4> QED
          BY <3>1, <4>1 DEF BackupObjects, CR!Objects
      <3> QED
        BY <2>2, <3>2, <3>3, NoneIsNoObject DEF Unused, Reports
    <2>5. since = 0 /\ since' = data /\ UNCHANGED <<data, vault>>
      BY <1>2, <2>2 DEF UserCreatesBackup, storeVars, Unused
    <2>6. Life!Ask
      BY <2>4, <2>5, Zenon DEF Life!Ask, Reports
    <2> QED
      BY <2>6 DEF Life!LifeNext
  <1>3. CASE UserDeletesBackup
    <2>1. db # None /\ db' = None /\ UNCHANGED <<data, since, vault>>
      BY <1>3 DEF UserDeletesBackup, CR!UserDeletes, storeVars, userVars
    <2>2. Life!Withdraw
      BY <2>1, Zenon DEF Life!Withdraw
    <2> QED
      BY <2>2 DEF Life!LifeNext
  <1> QED
    BY <1>1, <1>2, <1>3

\* A status write is a report, of what has reached the vault, or a stutter.
LEMMA LifeOfStatus ==
    ASSUME TypeInv, Once, creates = 1, pc # "idle", NEW step,
           UNCHANGED <<data, since, vault>>,
           CR!WriteStatus(my.status, step) \/ CR!WriteStatusAndReturn(my.status)
    PROVE  Life!LifeNext \/ UNCHANGED Life!lifeVars
  <1>1. FreshData /\ FreshStatus
    BY DEF Once
  <1>2. /\ Reports(db') => Reports(db) \/ Reports(my)
        /\ Reports(db) => Reports(db')
    BY <1>1, WrittenReports
  <1>3. db' # None <=> db # None
    <2>1. \/ db' = db
          \/ myFresh /\ db' = [db EXCEPT !.status = my.status]
      BY Zenon DEF CR!WriteStatus, CR!WriteStatusAndReturn
    <2>2. ASSUME myFresh, db' = [db EXCEPT !.status = my.status]
          PROVE  db # None /\ db' # None
      <3>1. db # None /\ db \in BackupObjects
        BY <2>2, Zenon DEF TypeInv, CopiesOK, CR!RecTypeOK
      <3>2. db' \in BackupObjects
        BY <2>2, <3>1, WithStatus, HandlerKnowsOwner DEF TypeInv
      <3> QED
        BY <3>1, <3>2, NoneIsNoObject
    <2> QED
      BY <2>1, <2>2
  <1>4. CASE Reports(db') <=> Reports(db)
    BY <1>3, <1>4, LifeStutters DEF SeenAlike
  <1>5. CASE Reports(db') /\ ~Reports(db)
    <2>1. vault >= since
      BY <1>1, <1>2, <1>5 DEF FreshStatus
    <2>2. db # None /\ db' # None
      BY <1>3, <1>5 DEF Reports
    <2>3. Life!Report
      BY <1>5, <2>1, <2>2, Zenon DEF Life!Report, Reports
    <2> QED
      BY <2>3 DEF Life!LifeNext
  <1> QED
    BY <1>2, <1>4, <1>5

\* The vault is made for a request, and filled with data of the right age.
LEMMA LifeOfVault ==
    ASSUME TypeInv, Chain, Once, creates = 1, EnsureVault \/ JobEnds
    PROVE  Life!LifeNext \/ UNCHANGED Life!lifeVars
  <1>0. FreshData
    BY DEF Once
  <1>1. SeenAlike /\ UNCHANGED <<data, since>>
    BY DEF EnsureVault, JobEnds, SeenAlike, Reports, AnsweredOrLost, CR!Goto,
       ReturnError, CR!Return, crVars, userVars
  <1>2. CASE vault' = vault
    BY <1>1, <1>2, LifeStutters
  <1>3. CASE EnsureVault /\ vault = Absent /\ vault' = Blank
    <2>1. since # 0
      BY <1>0, ContentsAreNumbers DEF FreshData, Blank
    <2>2. Life!NoVolume = Absent /\ Life!EmptyVolume = Blank
      BY DEF Life!NoVolume, Life!EmptyVolume, Absent, Blank
    <2>3. Life!MakeVolume
      BY <1>1, <1>3, <2>1, <2>2, Zenon DEF SeenAlike, Reports, Life!MakeVolume
    <2> QED
      BY <2>3 DEF Life!LifeNext
  <1>4. CASE JobEnds /\ vault' = clone.content
    <2>1. /\ clone # None /\ clone.content # Absent /\ clone.content \in Contents
          /\ vault # Absent /\ vault \in Contents
          /\ data \in Versions /\ since \in Versions
      BY <1>0, <1>4 DEF JobEnds, TypeInv, OwnTypeOK, Copies, FreshData
    <2>2. /\ since <= vault' /\ vault' <= data /\ vault' >= vault
      BY <1>0, <1>4, <2>1, ContentsAreNumbers DEF Chain, FreshData
    <2>3. since # 0 /\ vault # Life!NoVolume
          /\ vault' \in {v \in since .. data : v >= vault}
      BY <1>4, <2>1, <2>2, ContentsAreNumbers DEF Absent, Blank, Life!NoVolume
    <2>4. Life!Export
      BY <1>1, <2>3, Zenon DEF SeenAlike, Reports, Life!Export
    <2> QED
      BY <2>4 DEF Life!LifeNext
  <1> QED
    BY <1>2, <1>3, <1>4 DEF EnsureVault, JobEnds

\* Every step is a step of the abstract life, or none.
LEMMA LifeStep ==
    ASSUME TypeInv, Chain, Once, [BackupNext]_backupVars, creates' <= 1
    PROVE  [Life!LifeNext]_(Life!lifeVars)
  <1>1. CASE DataChanges \/ UserCreatesBackup \/ UserDeletesBackup
    BY <1>1, LifeOfUsers
  <1>2. CASE UpdateBackupStatus \/ EnsureVault \/ JobEnds \/ BackupFails
    <2>1. creates = 1
      BY <1>2 DEF UpdateBackupStatus, EnsureVault, JobEnds, BackupFails, CR!At,
         userVars, TypeInv, OwnTypeOK, Once, Unused
    <2>2. CASE UpdateBackupStatus
      BY <2>1, <2>2, LifeOfStatus DEF UpdateBackupStatus, CR!At, storeVars, userVars
    <2>3. CASE BackupFails
      <3>1. UNCHANGED <<data, since, vault>> /\ pc # "idle"
        BY <2>3 DEF BackupFails, storeVars, userVars
      <3>2. CASE CR!Return
        BY <3>1, <3>2, LifeStutters DEF CR!Return, SeenAlike, Reports
      <3>3. CASE CR!WriteStatusAndReturn(my.status)
        BY <2>1, <3>1, <3>3, LifeOfStatus
      <3> QED
        BY <2>3, <3>2, <3>3 DEF BackupFails
    <2> QED
      BY <1>2, <2>1, <2>2, <2>3, LifeOfVault
  <1>3. CASE UNCHANGED <<db, data, since, vault>>
    BY <1>3, LifeStutters DEF SeenAlike, Reports
  <1> QED
    BY <1>1, <1>2, <1>3
       DEF BackupNext, BackupPass, BackupCluster, ClusterWork, backupVars, crVars,
           storeVars, userVars, Begin, BeginGone, ReadJob, EnsureSnapshot,
           EnsureClone, EnsureJob, BackupRefused, SnapshotTaken, CloneFilled,
           CollectJob, CollectSnapshot, CollectClone, SyncBackup, SyncCaches,
           Resync, RestartOperator, AnsweredOrLost, ReturnError, CR!Load,
           CR!LoadNothing, CR!recVars, CR!Observe, CR!Goto, CR!Return, CR!SyncDS,
           CR!Restart

\* As long as its name is used once only, a DirectoryBackup with its controller,
\* caches, job, snapshot, clone and faults goes through the life that BackupLife
\* describes (directorybackup_controller.go:52-190).
THEOREM BackupImplementsLife == BackupSpec /\ [](creates <= 1) => BackupLives
  <1>1. BackupInit => Life!LifeInit
    BY Zenon DEF BackupInit, Life!LifeInit, Life!NoVolume, Absent
  <1>2. TypeInv /\ Chain /\ Once /\ [BackupNext]_backupVars /\ (creates <= 1)'
            => [Life!LifeNext]_(Life!lifeVars)
    BY LifeStep
  <1>3. BackupLives <=> Life!LifeInit /\ [][Life!LifeNext]_(Life!lifeVars)
    BY DEF BackupLives, Life!LifeSpec
  <1> QED
    BY <1>1, <1>2, <1>3, BackupInvariant, PTL DEF BackupSpec

=============================================================================

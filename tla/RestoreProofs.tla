---------------------------- MODULE RestoreProofs ---------------------------
(***************************************************************************)
(* Proofs about Restore for any number of versions, recreations and        *)
(* faults.                                                                 *)
(***************************************************************************)
EXTENDS Restore, TLAPS

CRP == INSTANCE ReconcilerProofs WITH ds <- dr, dsCache <- drCache, NoDS <- None

\* The resources there can be after n of them were created.
Resources(n) == CR!Objects({"spec"}, RestoreStatuses, 1 .. n)

\* The copies of the resource: types, and what a copy of the stored version
\* has in common with the stored resource.
CopiesOK(n) == CR!RecTypeOK(Resources(n)) /\ CRP!SpecsAgree

\* The part of the types that is about the other objects.
OwnTypeOK ==
    /\ queued \in BOOLEAN /\ requeueWhileJobRunning \in BOOLEAN
    /\ job \in Jobs \cup {None} /\ jobCache \in Jobs \cup {None}
    /\ volume \in Volumes \cup {None} /\ volumeCache \in Volumes \cup {None}
    /\ snap \in Copies \cup {None} /\ snapCache \in Copies \cup {None}
    /\ source \in {NoSource, Blank} \cup Versions
    /\ creates \in 0 .. MaxCreates /\ faults \in 0 .. MaxFaults
    /\ pc = "idle" => ~requeueWhileJobRunning

TypeInv == pc \in RestoreSteps /\ CopiesOK(creates) /\ OwnTypeOK

-----------------------------------------------------------------------------
\* The two instances of Reconciler are the same actions on the same variables.
LEMMA SameActions ==
    ASSUME NEW Obj, NEW st, NEW step, NEW sp, NEW ti
    PROVE  /\ CR!RecTypeOK(Obj) <=> CRP!RecTypeOK(Obj)
           /\ CR!RecTypeOK(Obj)' <=> CRP!RecTypeOK(Obj)'
           /\ CR!Load(step) <=> CRP!Load(step)
           /\ CR!LoadNothing <=> CRP!LoadNothing
           /\ CR!Goto(step) <=> CRP!Goto(step)
           /\ CR!Return <=> CRP!Return
           /\ CR!Restart <=> CRP!Restart
           /\ CR!SyncDS <=> CRP!SyncDS
           /\ CR!UserDeletes <=> CRP!UserDeletes
           /\ (UNCHANGED crVars) <=> UNCHANGED CRP!recVars
           /\ CR!Observe(st, step) <=> CRP!Observe(st, step)
           /\ CR!WriteStatus(st, step) <=> CRP!WriteStatus(st, step)
           /\ CR!WriteStatusAndReturn(st) <=> CRP!WriteStatusAndReturn(st)
           /\ CR!UserCreates(sp, st, ti) <=> CRP!UserCreates(sp, st, ti)
  <1>1. /\ CR!RecTypeOK(Obj) <=> CRP!RecTypeOK(Obj)
        /\ CR!RecTypeOK(Obj)' <=> CRP!RecTypeOK(Obj)'
    BY Zenon DEF CR!RecTypeOK, CRP!RecTypeOK
  <1>2. /\ CR!Load(step) <=> CRP!Load(step)
        /\ CR!LoadNothing <=> CRP!LoadNothing
        /\ CR!Goto(step) <=> CRP!Goto(step)
        /\ CR!Return <=> CRP!Return
        /\ CR!Restart <=> CRP!Restart
    BY Zenon DEF CR!Load, CRP!Load, CR!LoadNothing, CRP!LoadNothing, CR!Goto, CRP!Goto,
       CR!Return, CRP!Return, CR!Restart, CRP!Restart, CR!At, CRP!At,
       CR!recVars, CRP!recVars
  <1>3. /\ CR!SyncDS <=> CRP!SyncDS
        /\ CR!UserDeletes <=> CRP!UserDeletes
        /\ (UNCHANGED crVars) <=> UNCHANGED CRP!recVars
        /\ CR!Observe(st, step) <=> CRP!Observe(st, step)
        /\ CR!UserCreates(sp, st, ti) <=> CRP!UserCreates(sp, st, ti)
    BY Zenon DEF CR!SyncDS, CRP!SyncDS, CR!UserDeletes, CRP!UserDeletes, crVars,
       CRP!recVars, CR!Observe, CRP!Observe, CR!UserCreates, CRP!UserCreates
  <1>4. /\ CR!WriteStatus(st, step) <=> CRP!WriteStatus(st, step)
        /\ CR!WriteStatusAndReturn(st) <=> CRP!WriteStatusAndReturn(st)
    BY Zenon DEF CR!WriteStatus, CRP!WriteStatus, CR!WriteStatusAndReturn,
       CRP!WriteStatusAndReturn
  <1> QED
    BY <1>1, <1>2, <1>3, <1>4

\* The sets of resources in both instances are the same; none of their members
\* is "no resource", and a later set has all members of an earlier one.
LEMMA ResourceSets ==
    ASSUME NEW n \in 0 .. MaxCreates
    PROVE  /\ Resources(n) = CRP!Objects({"spec"}, RestoreStatuses, 1 .. n)
           /\ None \notin Resources(n)
           /\ Resources(n) \subseteq Resources(n + 1)
           /\ \A o \in Resources(n) :
                o.born \in 1 .. n /\ o.born \in Uids /\ o.status \in RestoreStatuses
  <1>1. Resources(n) = CRP!Objects({"spec"}, RestoreStatuses, 1 .. n)
    BY DEF Resources, CR!Objects, CRP!Objects
  <1>2. 1 .. n \subseteq Uids /\ 1 .. n \subseteq 1 .. (n + 1)
    BY RestoreConstants DEF Uids
  <1>3. Resources(n) \subseteq CR!Objects({"spec"}, RestoreStatuses, Uids)
    BY <1>2 DEF Resources, CR!Objects
  <1>4. Resources(n) \subseteq Resources(n + 1)
    BY <1>2 DEF Resources, CR!Objects
  <1>5. \A o \in Resources(n) :
            o.born \in 1 .. n /\ o.born \in Uids /\ o.status \in RestoreStatuses
    BY <1>2 DEF Resources, CR!Objects
  <1> QED
    BY <1>1, <1>3, <1>4, <1>5, NoneIsNoObject

\* The steps that write no resource keep the copies.
LEMMA QuietKeepsCopies ==
    ASSUME NEW n \in 0 .. MaxCreates, CopiesOK(n), NEW step,
           \/ CR!Load(step) \/ CR!LoadNothing
           \/ pc # "idle" /\ CR!Goto(step)
           \/ CR!Return \/ CR!Restart
           \/ CR!SyncDS \/ CR!UserDeletes
           \/ UNCHANGED crVars
    PROVE  CopiesOK(n)'
  <1> DEFINE Obj == Resources(n)
  <1>1. CRP!RecTypeOK(Obj) /\ CRP!SpecsAgree
    BY SameActions DEF CopiesOK
  <1>2. \/ CRP!Load(step) \/ CRP!LoadNothing
        \/ pc # "idle" /\ CRP!Goto(step)
        \/ CRP!Return \/ CRP!Restart
        \/ CRP!SyncDS \/ CRP!UserDeletes
        \/ UNCHANGED CRP!recVars
    BY SameActions
  <1> HIDE DEF Obj
  <1>3. CRP!RecTypeOK(Obj)' /\ CRP!SpecsAgree'
    BY <1>1, <1>2, CRP!QuietKeepsSpecs
  <1> QED
    BY <1>3, SameActions DEF CopiesOK, Obj

\* So do an assignment to the status in memory and a status write, applied or
\* not (directoryrestore_controller.go:83-118); the birth is never written.
LEMMA StatusKeepsCopies ==
    ASSUME NEW n \in 0 .. MaxCreates, CopiesOK(n), pc # "idle",
           NEW st \in RestoreStatuses, NEW step,
           \/ CR!Observe(st, step)
           \/ CR!WriteStatus(st, step) \/ CR!WriteStatusAndReturn(st)
    PROVE  CopiesOK(n)'
  <1> DEFINE Obj == CRP!Objects({"spec"}, RestoreStatuses, 1 .. n)
  <1>1. CRP!RecTypeOK(Obj) /\ CRP!SpecsAgree /\ None \notin Obj
    BY SameActions, ResourceSets DEF CopiesOK
  <1>2. CASE CR!Observe(st, step)
    <2>1. CRP!Observe(st, step)
      BY <1>2, SameActions
    <2>2. CRP!RecTypeOK(Obj)' /\ CRP!SpecsAgree'
      BY <1>1, <2>1, CRP!ObserveKeepsSpecs
    <2> QED
      BY <2>2, SameActions, ResourceSets DEF CopiesOK
  <1>3. CASE CR!WriteStatus(st, step) \/ CR!WriteStatusAndReturn(st)
    <2>1. CRP!WriteStatus(st, step) \/ CRP!WriteStatusAndReturn(st)
      BY <1>3, SameActions
    <2>2. CRP!RecTypeOK(Obj)' /\ CRP!SpecsAgree'
      BY <1>1, <2>1, CRP!StatusKeepsSpecs
    <2> QED
      BY <2>2, SameActions, ResourceSets DEF CopiesOK
  <1> QED
    BY <1>2, <1>3

\* A creation gives the resource a birth that no earlier one had.
LEMMA CreateKeepsCopies ==
    ASSUME NEW n \in 0 .. MaxCreates, n < MaxCreates, CopiesOK(n),
           CR!UserCreates("spec", [done |-> 0], n + 1)
    PROVE  CopiesOK(n + 1)'
  <1> DEFINE Obj == CRP!Objects({"spec"}, RestoreStatuses, 1 .. (n + 1))
  <1>1. n + 1 \in 0 .. MaxCreates /\ n + 1 \in 1 .. (n + 1)
    BY RestoreConstants
  <1>2. Resources(n + 1) = Obj /\ Resources(n) \subseteq Resources(n + 1)
    BY <1>1, ResourceSets
  <1>3. CR!RecTypeOK(Resources(n + 1)) /\ CRP!SpecsAgree
    BY <1>2, Zenon DEF CopiesOK, CR!RecTypeOK
  <1>4. CRP!RecTypeOK(Obj) /\ CRP!UserCreates("spec", [done |-> 0], n + 1)
    BY <1>2, <1>3, SameActions
  <1>5. [done |-> 0] \in RestoreStatuses
    BY DEF RestoreStatuses
  <1>6. CRP!RecTypeOK(Obj)' /\ CRP!SpecsAgree'
    BY <1>1, <1>3, <1>4, <1>5, CRP!UserKeepsSpecs
  <1> QED
    BY <1>2, <1>6, SameActions DEF CopiesOK

\* The handler holds a resource during a pass, so it knows the owner to set.
LEMMA HandlerKnowsOwner ==
    ASSUME TypeInv, pc # "idle"
    PROVE  /\ my.born \in 1 .. creates /\ my.born \in Uids
           /\ my.status \in RestoreStatuses
  <1>1. my \in Resources(creates) /\ creates \in 0 .. MaxCreates
    BY Zenon DEF TypeInv, CopiesOK, CR!RecTypeOK, OwnTypeOK
  <1> QED
    BY <1>1, ResourceSets

-----------------------------------------------------------------------------
\* The system starts with no resource and no object of its own.
LEMMA RestoreTypesInit ==
    RestoreInit => TypeInv
  <1> SUFFICES ASSUME RestoreInit PROVE TypeInv
    OBVIOUS
  <1>1. CopiesOK(creates)
    BY Zenon DEF RestoreInit, CopiesOK, CR!RecTypeOK, CRP!SpecsAgree
  <1>2. /\ source \in {NoSource, Blank} \cup Versions
        /\ creates \in 0 .. MaxCreates /\ faults \in 0 .. MaxFaults
    BY RestoreConstants DEF RestoreInit, NoSource
  <1>3. OwnTypeOK
    BY <1>2, Zenon DEF RestoreInit, OwnTypeOK
  <1> QED
    BY <1>1, <1>3 DEF RestoreInit, TypeInv, RestoreSteps

\* A failed call or a restart is counted within its bound.
LEMMA FaultIsCounted ==
    ASSUME OwnTypeOK, Fault \/ UNCHANGED faults
    PROVE  faults' \in 0 .. MaxFaults
  BY RestoreConstants DEF OwnTypeOK, Fault

\* A return drops the copy and what the pass decided about coming back.
LEMMA ReturnTypes ==
    ASSUME TypeInv, NEW again \in BOOLEAN, ReturnWith(again), UNCHANGED creates
    PROVE  /\ CopiesOK(creates)' /\ pc' \in RestoreSteps
           /\ queued' \in BOOLEAN /\ requeueWhileJobRunning' = FALSE
  <1>1. CopiesOK(creates)'
    BY QuietKeepsCopies DEF TypeInv, OwnTypeOK, ReturnWith
  <1>2. pc' \in RestoreSteps
    BY DEF ReturnWith, CR!Return, RestoreSteps
  <1>3. queued' \in BOOLEAN /\ requeueWhileJobRunning' = FALSE
    BY Zenon DEF ReturnWith, TypeInv, OwnTypeOK
  <1> QED
    BY <1>1, <1>2, <1>3

\* createDSJob makes a job, and the job controller's changes keep it one.
LEMMA JobRecords ==
    /\ \A u \in Uids, st \in {"running", "done", "failed"}, b \in BOOLEAN :
            [owner |-> u, state |-> st, failures |-> b] \in Jobs
    /\ \A u \in Uids :
            [owner |-> u, state |-> "running", failures |-> FALSE] \in Jobs
    /\ \A j \in Jobs, st \in {"running", "done", "failed"}, b \in BOOLEAN :
            /\ [j EXCEPT !.state = st] \in Jobs
            /\ [j EXCEPT !.state = st, !.failures = b] \in Jobs
            /\ [j EXCEPT !.state = st].owner = j.owner
            /\ [j EXCEPT !.state = st, !.failures = b].owner = j.owner
            /\ [j EXCEPT !.state = st].state = st
            /\ [j EXCEPT !.state = st, !.failures = b].state = st
  <1>1. \A u \in Uids, st \in {"running", "done", "failed"}, b \in BOOLEAN :
            [owner |-> u, state |-> st, failures |-> b] \in Jobs
    BY DEF Jobs
  <1>2. \A u \in Uids :
            [owner |-> u, state |-> "running", failures |-> FALSE] \in Jobs
    BY <1>1, Zenon
  <1>3. \A j \in Jobs, st \in {"running", "done", "failed"}, b \in BOOLEAN :
            /\ [j EXCEPT !.state = st] \in Jobs
            /\ [j EXCEPT !.state = st, !.failures = b] \in Jobs
            /\ [j EXCEPT !.state = st].owner = j.owner
            /\ [j EXCEPT !.state = st, !.failures = b].owner = j.owner
            /\ [j EXCEPT !.state = st].state = st
            /\ [j EXCEPT !.state = st, !.failures = b].state = st
    BY DEF Jobs
  <1> QED
    BY <1>1, <1>2, <1>3

\* The steps of a pass of Reconcile keep the types.
LEMMA PassKeepsTypes ==
    ASSUME TypeInv, RestorePass
    PROVE  TypeInv'
  <1> USE DEF TypeInv
  <1>0. creates \in 0 .. MaxCreates
    BY DEF OwnTypeOK
  <1>1. CASE Begin
    <2>1. CopiesOK(creates)'
      BY <1>0, <1>1, QuietKeepsCopies DEF Begin
    <2>2. pc' \in RestoreSteps /\ pc' # "idle"
      BY <1>1 DEF Begin, CR!Load, RestoreSteps
    <2>3. OwnTypeOK'
      BY <1>1, <2>2 DEF Begin, OwnTypeOK, storeVars, cacheVars
    <2> QED
      BY <2>1, <2>2, <2>3
  <1>2. CASE BeginGone
    <2>1. CopiesOK(creates)'
      BY <1>0, <1>2, QuietKeepsCopies DEF BeginGone
    <2>2. pc' = pc
      BY <1>2 DEF BeginGone, CR!LoadNothing, CR!recVars
    <2>3. OwnTypeOK'
      BY <1>2, <2>2 DEF BeginGone, OwnTypeOK, storeVars, cacheVars
    <2> QED
      BY <2>1, <2>2, <2>3
  <1>3. CASE JobNotComplete
    <2>1. CopiesOK(creates)'
      BY <1>0, <1>3, QuietKeepsCopies DEF JobNotComplete, CR!At
    <2>2. pc' \in RestoreSteps /\ pc' # "idle"
      BY <1>3 DEF JobNotComplete, CR!Goto, RestoreSteps
    <2>3. OwnTypeOK'
      BY <1>3, <2>2 DEF JobNotComplete, OwnTypeOK, passVars, storeVars, cacheVars
    <2> QED
      BY <2>1, <2>2, <2>3
  <1>4. CASE JobHadFailures
    <2>1. /\ CopiesOK(creates)' /\ pc' \in RestoreSteps
          /\ queued' \in BOOLEAN /\ requeueWhileJobRunning' = FALSE
      BY <1>4, ReturnTypes DEF JobHadFailures
    <2>2. OwnTypeOK'
      BY <1>4, <2>1 DEF JobHadFailures, OwnTypeOK, storeVars, cacheVars
    <2> QED
      BY <2>1, <2>2
  <1>5. CASE JobSucceeded
    <2>1. pc # "idle" /\ jobCache \in Jobs
      BY <1>5 DEF JobSucceeded, CR!At, Complete, OwnTypeOK
    <2>2. [done |-> jobCache.owner] \in RestoreStatuses
      BY <2>1 DEF Jobs, RestoreStatuses
    <2>3. CopiesOK(creates)'
      BY <1>0, <1>5, <2>1, <2>2, StatusKeepsCopies DEF JobSucceeded
    <2>4. pc' \in RestoreSteps /\ pc' # "idle"
      BY <1>5 DEF JobSucceeded, CR!Observe, RestoreSteps
    <2>5. OwnTypeOK'
      BY <1>5, <2>4 DEF JobSucceeded, OwnTypeOK, storeVars, cacheVars
    <2> QED
      BY <2>3, <2>4, <2>5
  <1>6. CASE TakeSnapshot
    <2>1. pc # "idle"
      BY <1>6 DEF TakeSnapshot, CR!At
    <2>2. CopiesOK(creates)'
      BY <1>0, <1>6, <2>1, QuietKeepsCopies DEF TakeSnapshot
    <2>3. pc' \in RestoreSteps /\ pc' # "idle"
      BY <1>6 DEF TakeSnapshot, CR!Goto, RestoreSteps
    <2>4. snap' \in Copies \cup {None}
      BY <1>6, <2>1, HandlerKnowsOwner DEF TakeSnapshot, Copies, OwnTypeOK
    <2>5. faults' \in 0 .. MaxFaults
      BY <1>6, FaultIsCounted DEF TakeSnapshot
    <2>6. OwnTypeOK'
      BY <1>6, <2>3, <2>4, <2>5 DEF TakeSnapshot, OwnTypeOK, passVars, cacheVars
    <2> QED
      BY <2>2, <2>3, <2>6
  <1>7. CASE UpdateRestoreStatus
    <2>1. pc # "idle"
      BY <1>7 DEF UpdateRestoreStatus, CR!At
    <2>2. my.status \in RestoreStatuses
      BY <2>1, HandlerKnowsOwner
    <2>3. CopiesOK(creates)'
      BY <1>0, <1>7, <2>1, <2>2, StatusKeepsCopies DEF UpdateRestoreStatus
    <2>4. pc' = "pvc"
      BY <1>7, Zenon DEF UpdateRestoreStatus, CR!WriteStatus
    <2>5. OwnTypeOK'
      BY <1>7, <2>4
         DEF UpdateRestoreStatus, OwnTypeOK, passVars, storeVars, cacheVars
    <2> QED
      BY <2>3, <2>4, <2>5 DEF RestoreSteps
  <1>8. CASE EnsureVolume
    <2>1. pc # "idle"
      BY <1>8 DEF EnsureVolume, CR!At
    <2>2. volume' \in Volumes \cup {None}
      BY <1>8, <2>1, HandlerKnowsOwner DEF EnsureVolume, Volumes, OwnTypeOK
    <2>3. faults' \in 0 .. MaxFaults
      BY <1>8, FaultIsCounted DEF EnsureVolume
    <2>4. CASE CR!Goto("mkjob") /\ UNCHANGED <<passVars, faults>>
      <3>1. CopiesOK(creates)'
        BY <1>0, <1>8, <2>1, <2>4, QuietKeepsCopies DEF EnsureVolume
      <3>2. pc' \in RestoreSteps /\ pc' # "idle"
        BY <2>4 DEF CR!Goto, RestoreSteps
      <3>3. OwnTypeOK'
        BY <1>8, <2>2, <2>3, <2>4, <3>2 DEF EnsureVolume, OwnTypeOK, passVars, cacheVars
      <3> QED
        BY <3>1, <3>2, <3>3
    <2>5. CASE ReturnWith(TRUE) /\ Fault
      <3>1. /\ CopiesOK(creates)' /\ pc' \in RestoreSteps
            /\ queued' \in BOOLEAN /\ requeueWhileJobRunning' = FALSE
        BY <1>8, <2>5, ReturnTypes DEF EnsureVolume
      <3>2. OwnTypeOK'
        BY <1>8, <2>2, <2>3, <3>1 DEF EnsureVolume, OwnTypeOK, cacheVars
      <3> QED
        BY <3>1, <3>2
    <2> QED
      BY <1>8, <2>4, <2>5 DEF EnsureVolume
  <1>9. CASE EnsureJob
    <2>1. pc # "idle"
      BY <1>9 DEF EnsureJob, CR!At
    <2>2. job' \in Jobs \cup {None}
      <3>1. my.born \in Uids
        BY <2>1, HandlerKnowsOwner
      <3>2. CASE UNCHANGED job
        BY <3>2 DEF OwnTypeOK
      <3>3. CASE job' = [owner |-> my.born, state |-> "running",
                         failures |-> FALSE]
        <4>1. job' \in Jobs
          BY <3>1, <3>3, JobRecords, Zenon
        <4> QED
          BY <4>1
      <3> QED
        BY <1>9, <3>2, <3>3, Zenon DEF EnsureJob
    <2>3. faults' \in 0 .. MaxFaults
      BY <1>9, FaultIsCounted DEF EnsureJob
    <2>4. \E again \in BOOLEAN : ReturnWith(again)
      BY <1>9, Zenon DEF EnsureJob, OwnTypeOK
    <2>5. /\ CopiesOK(creates)' /\ pc' \in RestoreSteps
          /\ queued' \in BOOLEAN /\ requeueWhileJobRunning' = FALSE
      BY <1>9, <2>4, ReturnTypes DEF EnsureJob
    <2>6. OwnTypeOK'
      BY <1>9, <2>2, <2>3, <2>5 DEF EnsureJob, OwnTypeOK, cacheVars
    <2> QED
      BY <2>5, <2>6
  <1>10. CASE RestoreRefused
    <2>1. /\ CopiesOK(creates)' /\ pc' \in RestoreSteps
          /\ queued' \in BOOLEAN /\ requeueWhileJobRunning' = FALSE
      BY <1>10, ReturnTypes DEF RestoreRefused
    <2>2. OwnTypeOK'
      BY <1>10, <2>1 DEF RestoreRefused, OwnTypeOK, storeVars, cacheVars
    <2> QED
      BY <2>1, <2>2
  <1> QED
    BY <1>1, <1>2, <1>3, <1>4, <1>5, <1>6, <1>7, <1>8, <1>9, <1>10 DEF RestorePass

\* The cluster's steps keep the types.
LEMMA ClusterKeepsTypes ==
    ASSUME TypeInv, ClusterWork \/ ImportFails \/ SyncCaches \/ Resync \/ SourceChanges
    PROVE  TypeInv'
  <1> USE DEF TypeInv
  <1>0. creates \in 0 .. MaxCreates
    BY DEF OwnTypeOK
  <1>1. CASE ImportBegins
    <2>1. UNCHANGED crVars
      BY <1>1 DEF ImportBegins
    <2>2. CopiesOK(creates)' /\ pc' \in RestoreSteps
      BY <1>0, <1>1, <2>1, QuietKeepsCopies DEF ImportBegins, crVars
    <2>3. volume' \in Volumes
      BY <1>1 DEF ImportBegins, JobIsRunning, OwnTypeOK, Volumes
    <2>4. OwnTypeOK'
      BY <1>1, <2>1, <2>3 DEF ImportBegins, OwnTypeOK, crVars, passVars, cacheVars
    <2> QED
      BY <2>2, <2>4
  <1>2. CASE ImportEnds
    <2>1. UNCHANGED crVars
      BY <1>2 DEF ImportEnds
    <2>2. CopiesOK(creates)' /\ pc' \in RestoreSteps
      BY <1>0, <1>2, <2>1, QuietKeepsCopies DEF ImportEnds, crVars
    <2>3. volume' \in Volumes /\ job' \in Jobs
      <3>1. volume \in Volumes /\ job \in Jobs /\ source \in Versions
        BY <1>2 DEF ImportEnds, JobIsRunning, OwnTypeOK
      <3>2. volume' \in Volumes
        BY <1>2, <3>1 DEF ImportEnds, Volumes
      <3>3. job' \in Jobs
        BY <1>2, <3>1 DEF ImportEnds, Jobs
      <3> QED
        BY <3>2, <3>3
    <2>4. OwnTypeOK'
      BY <1>2, <2>1, <2>3 DEF ImportEnds, OwnTypeOK, crVars, passVars, cacheVars
    <2> QED
      BY <2>2, <2>4
  <1>3. CASE ImportFails
    <2>1. UNCHANGED crVars
      BY <1>3 DEF ImportFails
    <2>2. CopiesOK(creates)' /\ pc' \in RestoreSteps
      BY <1>0, <1>3, <2>1, QuietKeepsCopies DEF ImportFails, crVars
    <2>3. job' \in Jobs /\ faults' \in 0 .. MaxFaults
      <3>1. job \in Jobs
        BY <1>3 DEF ImportFails, JobIsRunning, OwnTypeOK
      <3>2. \E st \in {"running", "done", "failed"}, b \in BOOLEAN :
                job' = [job EXCEPT !.state = st, !.failures = b]
        BY <1>3, Zenon DEF ImportFails
      <3>3. job' \in Jobs
        BY <3>1, <3>2 DEF Jobs
      <3> QED
        BY <1>3, <3>3, FaultIsCounted DEF ImportFails
    <2>4. OwnTypeOK'
      BY <1>3, <2>1, <2>3 DEF ImportFails, OwnTypeOK, crVars, passVars, cacheVars
    <2> QED
      BY <2>2, <2>4
  <1>4. CASE SnapshotTaken
    <2>1. UNCHANGED crVars
      BY <1>4 DEF SnapshotTaken
    <2>2. CopiesOK(creates)' /\ pc' \in RestoreSteps
      BY <1>0, <1>4, <2>1, QuietKeepsCopies DEF SnapshotTaken, crVars
    <2>3. snap' \in Copies
      BY <1>4 DEF SnapshotTaken, OwnTypeOK, Volumes, Copies
    <2>4. OwnTypeOK'
      BY <1>4, <2>1, <2>3 DEF SnapshotTaken, OwnTypeOK, crVars, passVars, cacheVars
    <2> QED
      BY <2>2, <2>4
  <1>5. CASE Collect
    <2>1. UNCHANGED crVars
      BY <1>5 DEF Collect
    <2>2. CopiesOK(creates)' /\ pc' \in RestoreSteps
      BY <1>0, <1>5, <2>1, QuietKeepsCopies DEF Collect, crVars
    <2>4. OwnTypeOK'
      BY <1>5, <2>1 DEF Collect, OwnTypeOK, crVars, passVars, cacheVars
    <2> QED
      BY <2>2, <2>4
  <1>6. CASE SyncCaches
    <2>1. UNCHANGED crVars
      BY <1>6 DEF SyncCaches
    <2>2. CopiesOK(creates)' /\ pc' \in RestoreSteps
      BY <1>0, <1>6, <2>1, QuietKeepsCopies DEF SyncCaches, crVars
    <2>4. OwnTypeOK'
      BY <1>6, <2>1 DEF SyncCaches, OwnTypeOK, crVars, passVars, storeVars
    <2> QED
      BY <2>2, <2>4
  <1>7. CASE Resync
    <2>1. UNCHANGED crVars
      BY <1>7 DEF Resync
    <2>2. CopiesOK(creates)' /\ pc' \in RestoreSteps
      BY <1>0, <1>7, <2>1, QuietKeepsCopies DEF Resync, crVars
    <2>4. OwnTypeOK'
      BY <1>7, <2>1 DEF Resync, OwnTypeOK, crVars, storeVars, cacheVars
    <2> QED
      BY <2>2, <2>4
  <1>8. CASE SourceChanges
    <2>1. UNCHANGED crVars
      BY <1>8 DEF SourceChanges
    <2>2. CopiesOK(creates)' /\ pc' \in RestoreSteps
      BY <1>0, <1>8, <2>1, QuietKeepsCopies DEF SourceChanges, crVars
    <2>4. OwnTypeOK'
      BY <1>8, <2>1 DEF SourceChanges, OwnTypeOK, crVars, passVars, cacheVars
    <2> QED
      BY <2>2, <2>4
  <1> QED
    BY <1>1, <1>2, <1>3, <1>4, <1>5, <1>6, <1>7, <1>8 DEF ClusterWork

\* Users, the watch of the resource, failures and restarts keep the types.
LEMMA OthersKeepTypes ==
    ASSUME TypeInv,
           \/ UserCreatesRestore \/ UserDeletesRestore \/ SyncRestore
           \/ RestoreFails \/ RestartOperator
    PROVE  TypeInv'
  <1> USE DEF TypeInv
  <1>0. creates \in 0 .. MaxCreates
    BY DEF OwnTypeOK
  <1>1. CASE UserCreatesRestore
    <2>1. creates < MaxCreates /\ creates' = creates + 1
      BY <1>1 DEF UserCreatesRestore
    <2>2. CopiesOK(creates)'
      BY <1>0, <1>1, <2>1, CreateKeepsCopies DEF UserCreatesRestore
    <2>3. CopiesOK(creates)' /\ creates' \in 0 .. MaxCreates
      BY <1>0, <2>1, <2>2, RestoreConstants
    <2>4. pc' = pc
      BY <1>1 DEF UserCreatesRestore, CR!UserCreates
    <2>5. OwnTypeOK'
      BY <1>1, <2>3, <2>4
         DEF UserCreatesRestore, OwnTypeOK, passVars, storeVars, cacheVars
    <2> QED
      BY <2>3, <2>4, <2>5
  <1>2. CASE UserDeletesRestore
    <2>1. CopiesOK(creates)' /\ pc' = pc
      BY <1>0, <1>2, QuietKeepsCopies DEF UserDeletesRestore, CR!UserDeletes
    <2>2. OwnTypeOK'
      BY <1>2, <2>1 DEF UserDeletesRestore, OwnTypeOK, passVars, storeVars, cacheVars
    <2> QED
      BY <2>1, <2>2
  <1>3. CASE SyncRestore
    <2>1. CopiesOK(creates)' /\ pc' = pc
      BY <1>0, <1>3, QuietKeepsCopies DEF SyncRestore, CR!SyncDS
    <2>2. OwnTypeOK'
      BY <1>3, <2>1 DEF SyncRestore, OwnTypeOK, storeVars, cacheVars
    <2> QED
      BY <2>1, <2>2
  <1>4. CASE RestoreFails
    <2>1. pc # "idle"
      BY <1>4 DEF RestoreFails
    <2>2. my.status \in RestoreStatuses
      BY <2>1, HandlerKnowsOwner
    <2>3. CASE CR!Return
      <3>1. CopiesOK(creates)' /\ pc' = "idle"
        BY <1>0, <1>4, <2>3, QuietKeepsCopies DEF RestoreFails, CR!Return
      <3> QED
        BY <1>4, <3>1, FaultIsCounted
           DEF RestoreFails, OwnTypeOK, storeVars, cacheVars, RestoreSteps
    <2>4. CASE CR!WriteStatusAndReturn(my.status)
      <3>1. pc' = "idle"
        BY <2>4, Zenon DEF CR!WriteStatusAndReturn
      <3>2. CopiesOK(creates)'
        BY <1>0, <1>4, <2>1, <2>2, <2>4, StatusKeepsCopies DEF RestoreFails
      <3> QED
        BY <1>4, <3>1, <3>2, FaultIsCounted
           DEF RestoreFails, OwnTypeOK, storeVars, cacheVars, RestoreSteps
    <2> QED
      BY <1>4, <2>3, <2>4 DEF RestoreFails
  <1>5. CASE RestartOperator
    <2>1. CopiesOK(creates)'
      BY <1>0, <1>5, QuietKeepsCopies DEF RestartOperator
    <2>2. pc' \in RestoreSteps /\ requeueWhileJobRunning' = FALSE
      BY <1>5 DEF RestartOperator, CR!Restart, RestoreSteps
    <2>3. OwnTypeOK'
      BY <1>5, <2>2, FaultIsCounted DEF RestartOperator, OwnTypeOK, storeVars
    <2> QED
      BY <2>1, <2>2, <2>3
  <1> QED
    BY <1>1, <1>2, <1>3, <1>4, <1>5

\* A stuttering step changes nothing.
LEMMA StutterKeepsTypes ==
    ASSUME TypeInv, UNCHANGED restoreVars
    PROVE  TypeInv'
  <1>1. CopiesOK(creates)'
    BY QuietKeepsCopies DEF TypeInv, OwnTypeOK, restoreVars
  <1> QED
    BY <1>1 DEF TypeInv, OwnTypeOK, restoreVars, crVars, passVars, storeVars, cacheVars

\* Reconcile of a DirectoryRestore and the cluster around it keep every type,
\* whatever the bounds are.
THEOREM RestoreTypes ==
    RestoreSpec => []RestoreTypeOK
  <1>1. TypeInv /\ [RestoreNext]_restoreVars => TypeInv'
    BY PassKeepsTypes, ClusterKeepsTypes, OthersKeepTypes, StutterKeepsTypes
       DEF RestoreNext, RestoreCluster
  <1>2. TypeInv => RestoreTypeOK
    BY DEF TypeInv, OwnTypeOK, CopiesOK, Resources, RestoreTypeOK
  <1> QED
    BY <1>1, <1>2, RestoreTypesInit, PTL DEF RestoreSpec

-----------------------------------------------------------------------------
(***************************************************************************)
(* What a name that is used once restores.  Names are fixed, so a resource *)
(* that is deleted and created again can meet the objects of its           *)
(* predecessor; the first resource of a name meets none.                   *)
(***************************************************************************)

\* Nobody has used the name yet.
Unused ==
    /\ pc = "idle"
    /\ dr = None /\ drCache = None
    /\ job = None /\ jobCache = None
    /\ volume = None /\ snap = None

Owned(obj) == obj # None => obj.owner = dr.born

\* The objects are this resource's own, the snapshot comes after the job, and a
\* job that is complete has filled the volume for good.
InPlace ==
    /\ Owned(job) /\ Owned(volume) /\ Owned(snap)
    /\ Complete(jobCache) => Complete(job)
    /\ pc = "snap" \/ snap # None => Complete(job)
    /\ Complete(job) => volume # None /\ volume.content \in Versions
    /\ snap # None => snap.content \in {Pending} \cup Versions

Once ==
    /\ creates = 0 => Unused
    /\ creates = 1 /\ dr # None => InPlace

\* The first resource of a name was born first.
LEMMA FirstBirth ==
    ASSUME TypeInv, creates = 1
    PROVE  /\ dr # None => dr.born = 1
           /\ pc # "idle" => my.born = 1
  <1>1. 1 \in 0 .. MaxCreates
    BY DEF TypeInv, OwnTypeOK
  <1>2. /\ dr # None => dr \in Resources(1)
        /\ pc # "idle" => my \in Resources(1)
    BY Zenon DEF TypeInv, CopiesOK, CR!RecTypeOK
  <1>3. \A o \in Resources(1) : o.born = 1
    BY <1>1, ResourceSets
  <1> QED
    BY <1>2, <1>3

\* Only users bring a resource into being, and every time they do is counted.
LEMMA CreatesCount ==
    ASSUME TypeInv, [RestoreNext]_restoreVars
    PROVE  /\ creates' = creates \/ UserCreatesRestore
           /\ dr = None /\ dr' # None => UserCreatesRestore
  <1>1. creates' = creates \/ UserCreatesRestore
    BY DEF RestoreNext, RestorePass, RestoreCluster, ClusterWork, restoreVars,
       Begin, BeginGone, JobNotComplete, JobHadFailures, JobSucceeded, TakeSnapshot,
       UpdateRestoreStatus, EnsureVolume, EnsureJob, RestoreRefused, RestoreFails,
       ImportBegins, ImportEnds, ImportFails, SnapshotTaken, Collect,
       UserDeletesRestore, SyncRestore, SyncCaches, Resync, RestartOperator,
       SourceChanges
  <1>2. ASSUME dr = None, dr' # None
        PROVE  UserCreatesRestore
    <2>1. ~myFresh
      BY <1>2, Zenon DEF TypeInv, CopiesOK, CRP!SpecsAgree
    <2>2. ~CR!WriteStatus(my.status, "pvc")
      BY <2>1, Zenon DEF CR!WriteStatus
    <2>3. CR!WriteStatusAndReturn(my.status) => dr' = dr
      BY <2>1, Zenon DEF CR!WriteStatusAndReturn
    <2> QED
      BY <1>2, <2>2, <2>3
         DEF RestoreNext, RestorePass, RestoreCluster, ClusterWork, restoreVars,
         Begin, BeginGone, JobNotComplete, JobHadFailures, JobSucceeded, TakeSnapshot,
         UpdateRestoreStatus, EnsureVolume, EnsureJob, RestoreRefused, RestoreFails,
         ImportBegins, ImportEnds, ImportFails, SnapshotTaken, Collect,
         UserDeletesRestore, SyncRestore, SyncCaches, Resync, RestartOperator,
         SourceChanges, ReturnWith, crVars, CR!Load, CR!LoadNothing, CR!recVars,
         CR!Return, CR!Goto, CR!Observe, CR!UserDeletes, CR!SyncDS, CR!Restart
  <1> QED
    BY <1>1, <1>2

\* A name that nobody used stays unused until a resource is created.
LEMMA UnusedStep ==
    ASSUME Unused, [RestoreNext]_restoreVars, ~UserCreatesRestore
    PROVE  Unused'
  <1> USE DEF Unused
  <1>1. CASE RestorePass
    <2>1. BeginGone
      BY <1>1 DEF RestorePass, Begin, CR!Load, JobNotComplete, JobHadFailures,
         JobSucceeded, TakeSnapshot, UpdateRestoreStatus, EnsureVolume, EnsureJob,
         RestoreRefused, CR!At
    <2> QED
      BY <2>1 DEF BeginGone, CR!LoadNothing, CR!recVars, storeVars, cacheVars
  <1>2. CASE ClusterWork \/ ImportFails
    BY <1>2 DEF ClusterWork, ImportBegins, ImportEnds, ImportFails, JobIsRunning,
       SnapshotTaken, Collect, Orphan
  <1>3. CASE SyncRestore
    BY <1>3 DEF SyncRestore, CR!SyncDS, storeVars, cacheVars
  <1>4. CASE RestartOperator
    BY <1>4 DEF RestartOperator, CR!Restart, storeVars
  <1>5. CASE SyncCaches \/ Resync \/ SourceChanges \/ UNCHANGED restoreVars
    BY <1>5 DEF SyncCaches, Resync, SourceChanges, restoreVars, crVars, storeVars,
       cacheVars
  <1>6. CASE UserDeletesRestore \/ RestoreFails
    BY <1>6 DEF UserDeletesRestore, CR!UserDeletes, RestoreFails
  <1> QED
    BY <1>1, <1>2, <1>3, <1>4, <1>5, <1>6 DEF RestoreNext, RestoreCluster

\* A step that changes no object and does not come to the snapshot keeps all of
\* them in place.
LEMMA QuietKeepsPlace ==
    ASSUME InPlace, dr'.born = dr.born, UNCHANGED <<job, volume, snap>>,
           jobCache' = jobCache \/ jobCache' = job,
           pc' = pc \/ pc' # "snap"
    PROVE  InPlace'
  BY DEF InPlace, Owned, Complete

\* A pass of Reconcile keeps the objects of the first resource in place.
LEMMA PassKeepsPlace ==
    ASSUME TypeInv, InPlace, creates = 1, dr # None, dr'.born = dr.born,
           RestorePass
    PROVE  InPlace'
  <1>0. dr.born = 1 /\ (pc # "idle" => my.born = 1)
    BY FirstBirth
  <1>1. CASE Begin
    BY <1>1, QuietKeepsPlace DEF Begin, CR!Load, storeVars, cacheVars
  <1>2. CASE BeginGone
    BY <1>2, QuietKeepsPlace DEF BeginGone, CR!LoadNothing, CR!recVars, storeVars,
       cacheVars
  <1>3. CASE JobNotComplete
    BY <1>3, QuietKeepsPlace DEF JobNotComplete, CR!Goto, storeVars, cacheVars
  <1>4. CASE JobHadFailures
    BY <1>4, QuietKeepsPlace DEF JobHadFailures, ReturnWith, CR!Return, storeVars,
       cacheVars
  <1>5. CASE JobSucceeded
    <2>1. UNCHANGED <<job, jobCache, volume, snap>> /\ Complete(jobCache)
      BY <1>5 DEF JobSucceeded, storeVars, cacheVars
    <2>2. Complete(job)
      BY <2>1 DEF InPlace
    <2> QED
      BY <2>1, <2>2 DEF InPlace, Owned, Complete
  <1>6. CASE TakeSnapshot
    <2>1. UNCHANGED <<job, jobCache, volume>> /\ Complete(job)
      BY <1>6 DEF TakeSnapshot, CR!At, cacheVars, InPlace
    <2>2. \/ snap' = [owner |-> 1, content |-> Pending]
          \/ snap' = snap
      BY <1>0, <1>6 DEF TakeSnapshot, CR!At
    <2> QED
      BY <1>0, <2>1, <2>2 DEF InPlace, Owned, Complete
  <1>7. CASE UpdateRestoreStatus
    <2>1. pc' = "pvc"
      BY <1>7, Zenon DEF UpdateRestoreStatus, CR!WriteStatus
    <2> QED
      BY <1>7, <2>1, QuietKeepsPlace DEF UpdateRestoreStatus, storeVars, cacheVars
  <1>8. CASE EnsureVolume
    <2>1. UNCHANGED <<job, jobCache, snap>> /\ pc' # "snap"
      BY <1>8 DEF EnsureVolume, ReturnWith, CR!Return, CR!Goto, cacheVars
    <2>2. \/ volume = None /\ volume' = [owner |-> 1, content |-> Blank]
          \/ volume' = volume
      BY <1>0, <1>8 DEF EnsureVolume, CR!At
    <2> QED
      BY <1>0, <2>1, <2>2 DEF InPlace, Owned, Complete
  <1>9. CASE EnsureJob
    <2>1. UNCHANGED <<jobCache, volume, snap>> /\ pc' # "snap"
      BY <1>9 DEF EnsureJob, ReturnWith, CR!Return, cacheVars
    <2>2. CASE UNCHANGED job
      BY <2>1, <2>2, QuietKeepsPlace
    <2>3. CASE /\ job = None
               /\ job' = [owner |-> my.born, state |-> "running", failures |-> FALSE]
      <3>1. job'.owner = 1 /\ job'.state = "running"
        <4>1. my.born = 1
          BY <1>0, <1>9 DEF EnsureJob, CR!At
        <4> QED
          BY <2>3, <4>1, Zenon
      <3>2. snap = None /\ ~Complete(jobCache) /\ ~Complete(job')
        BY <2>3, <3>1 DEF InPlace, Complete
      <3> QED
        BY <1>0, <2>1, <3>1, <3>2 DEF InPlace, Owned, Complete
    <2> QED
      BY <1>9, <2>2, <2>3, Zenon DEF EnsureJob
  <1>10. CASE RestoreRefused
    BY <1>10, QuietKeepsPlace DEF RestoreRefused, ReturnWith, CR!Return, storeVars,
       cacheVars
  <1> QED
    BY <1>1, <1>2, <1>3, <1>4, <1>5, <1>6, <1>7, <1>8, <1>9, <1>10 DEF RestorePass

\* So do the job's pods, the snapshot controller, the garbage collector and the
\* other steps around the handler.
LEMMA OthersKeepPlace ==
    ASSUME TypeInv, InPlace, creates = 1, dr # None, dr'.born = dr.born,
           \/ RestoreCluster /\ ~UserCreatesRestore
           \/ SourceChanges
    PROVE  InPlace'
  <1>1. CASE ImportBegins
    <2>1. volume \in Volumes /\ ~Complete(job)
      BY <1>1 DEF ImportBegins, JobIsRunning, Complete, TypeInv, OwnTypeOK
    <2>2. /\ UNCHANGED <<pc, job, jobCache, snap>>
          /\ volume' # None => volume'.owner = volume.owner
          /\ volume # None
      BY <1>1, <2>1 DEF ImportBegins, JobIsRunning, crVars, cacheVars, Volumes
    <2> QED
      BY <2>1, <2>2 DEF InPlace, Owned, Complete
  <1>2. CASE ImportEnds
    <2>1. /\ volume \in Volumes /\ job \in Jobs /\ ~Complete(job)
          /\ source \in Versions
      BY <1>2 DEF ImportEnds, JobIsRunning, Complete, TypeInv, OwnTypeOK
    <2>2. UNCHANGED <<pc, jobCache, snap>> /\ volume # None /\ job # None
      BY <1>2 DEF ImportEnds, JobIsRunning, crVars, cacheVars
    <2>3. volume'.owner = volume.owner /\ volume'.content = source /\ volume' \in Volumes
      BY <1>2, <2>1 DEF ImportEnds, Volumes
    <2>4. job'.owner = job.owner /\ job'.state = "done"
      BY <1>2, <2>1 DEF ImportEnds, Jobs
    <2>5. snap = None /\ ~Complete(jobCache) /\ pc # "snap"
      BY <2>1 DEF InPlace
    <2> QED
      BY <2>1, <2>2, <2>3, <2>4, <2>5, NoneIsNoObject DEF InPlace, Owned, Complete
  <1>3. CASE ImportFails
    <2>1. job \in Jobs /\ ~Complete(job) /\ job # None
      BY <1>3 DEF ImportFails, JobIsRunning, Complete, TypeInv, OwnTypeOK
    <2>2. UNCHANGED <<pc, jobCache, volume, snap>>
      BY <1>3 DEF ImportFails, crVars, cacheVars
    <2>3. PICK st \in {"running", "failed"}, b \in BOOLEAN :
            job' = [job EXCEPT !.state = st, !.failures = b]
      BY <1>3, Zenon DEF ImportFails
    <2>4. job'.owner = job.owner /\ job'.state \in {"running", "failed"}
      BY <2>1, <2>3 DEF Jobs
    <2> QED
      BY <2>1, <2>2, <2>4 DEF InPlace, Owned, Complete
  <1>4. CASE SnapshotTaken
    <2>1. snap \in Copies /\ snap # None
      BY <1>4 DEF SnapshotTaken, TypeInv, OwnTypeOK
    <2>2. UNCHANGED <<pc, job, jobCache, volume>>
      BY <1>4 DEF SnapshotTaken, crVars, cacheVars
    <2>3. Complete(job) /\ volume.content \in Versions
      BY <2>1 DEF InPlace
    <2>4. snap'.owner = snap.owner /\ snap'.content = volume.content
      BY <1>4, <2>1 DEF SnapshotTaken, Copies
    <2> QED
      BY <2>1, <2>2, <2>3, <2>4 DEF InPlace, Owned, Complete
  <1>5. CASE Collect
    <2>1. FALSE
      BY <1>5 DEF Collect, Orphan, InPlace, Owned
    <2> QED
      BY <2>1
  <1>6. CASE UserDeletesRestore
    BY <1>6, QuietKeepsPlace DEF UserDeletesRestore, CR!UserDeletes, storeVars,
       cacheVars
  <1>7. CASE SyncRestore
    BY <1>7, QuietKeepsPlace DEF SyncRestore, CR!SyncDS, storeVars, cacheVars
  <1>8. CASE SyncCaches
    BY <1>8, QuietKeepsPlace DEF SyncCaches, crVars, storeVars
  <1>9. CASE Resync \/ SourceChanges
    BY <1>9, QuietKeepsPlace DEF Resync, SourceChanges, crVars, storeVars, cacheVars
  <1>10. CASE RestoreFails
    <2>1. pc' = "idle"
      BY <1>10, Zenon DEF RestoreFails, CR!Return, CR!WriteStatusAndReturn
    <2> QED
      BY <1>10, <2>1, QuietKeepsPlace DEF RestoreFails, storeVars, cacheVars
  <1>11. CASE RestartOperator
    BY <1>11, QuietKeepsPlace DEF RestartOperator, CR!Restart, storeVars
  <1> QED
    BY <1>1, <1>2, <1>3, <1>4, <1>5, <1>6, <1>7, <1>8, <1>9, <1>10, <1>11
       DEF RestoreCluster, ClusterWork

\* A first resource finds no objects of its names.
LEMMA FirstUse ==
    ASSUME Unused, UserCreatesRestore
    PROVE  InPlace'
  BY DEF Unused, UserCreatesRestore, CR!UserCreates, storeVars, cacheVars, InPlace,
     Owned, Complete

\* The first resource of a name stays the same resource while it is there, and
\* its objects stay in place.
LEMMA OnceStep ==
    ASSUME TypeInv, TypeInv', Once, [RestoreNext]_restoreVars
    PROVE  Once'
  <1>0. /\ creates \in Nat
        /\ creates' = creates \/ UserCreatesRestore
        /\ UserCreatesRestore => creates' = creates + 1
        /\ dr = None /\ dr' # None => UserCreatesRestore
    <2>1. creates \in Nat
      BY RestoreConstants DEF TypeInv, OwnTypeOK
    <2> QED
      BY <2>1, CreatesCount DEF UserCreatesRestore
  <1>1. ASSUME creates' = 0
        PROVE  Unused'
    BY <1>0, <1>1, UnusedStep DEF Once
  <1>2. ASSUME creates' = 1, dr' # None
        PROVE  InPlace'
    <2>1. CASE UserCreatesRestore
      BY <1>0, <1>2, <2>1, FirstUse DEF Once
    <2>2. CASE ~UserCreatesRestore
      <3>1. creates = 1 /\ dr # None /\ InPlace
        BY <1>0, <1>2, <2>2 DEF Once
      <3>2. dr.born = 1 /\ dr'.born = 1
        <4>1. dr.born = 1
          BY <3>1, FirstBirth
        <4>2. dr' \in Resources(1) /\ 1 \in 0 .. MaxCreates
          <5>1. dr' \in Resources(creates')
            BY <1>2, Zenon DEF TypeInv, CopiesOK, CR!RecTypeOK
          <5>2. 1 \in 0 .. MaxCreates
            BY <3>1 DEF TypeInv, OwnTypeOK
          <5> QED
            BY <1>2, <5>1, <5>2
        <4>3. dr'.born = 1
          BY <4>2, ResourceSets
        <4> QED
          BY <4>1, <4>3
      <3>3. CASE RestorePass
        BY <3>1, <3>2, <3>3, PassKeepsPlace
      <3>4. CASE RestoreCluster \/ SourceChanges
        BY <2>2, <3>1, <3>2, <3>4, OthersKeepPlace
      <3>5. CASE UNCHANGED restoreVars
        BY <3>1, <3>5 DEF InPlace, Owned, Complete, restoreVars, crVars, storeVars,
           cacheVars
      <3> QED
        BY <3>3, <3>4, <3>5 DEF RestoreNext
    <2> QED
      BY <2>1, <2>2
  <1> QED
    BY <1>1, <1>2 DEF Once

\* Types, and what holds of a name that is used once, are an inductive
\* invariant of Restore.
THEOREM RestoreInvariant ==
    RestoreSpec => [](TypeInv /\ Once)
  <1>1. RestoreInit => TypeInv /\ Once
    BY RestoreTypesInit DEF RestoreInit, Once, Unused
  <1>2. TypeInv /\ Once /\ [RestoreNext]_restoreVars => (TypeInv /\ Once)'
    <2>1. TypeInv /\ [RestoreNext]_restoreVars => TypeInv'
      BY PassKeepsTypes, ClusterKeepsTypes, OthersKeepTypes, StutterKeepsTypes
         DEF RestoreNext, RestoreCluster
    <2> QED
      BY <2>1, OnceStep
  <1> QED
    BY <1>1, <1>2, PTL DEF RestoreSpec

\* directoryrestore_controller.go:160: while a name is used for one resource
\* only, the snapshot of a restore is taken after the import has ended and holds
\* a whole backup, whatever fails, is retried, restarted or seen late.
THEOREM SnapshotSafe ==
    RestoreSpec => [](creates <= 1 => SnapshotIsRestored)
  <1>1. TypeInv /\ Once => (creates <= 1 => SnapshotIsRestored)
    <2> SUFFICES ASSUME TypeInv, Once, creates <= 1
                 PROVE  SnapshotIsRestored
      OBVIOUS
    <2>1. creates = 0 \/ creates = 1
      BY RestoreConstants DEF TypeInv, OwnTypeOK
    <2> QED
      BY <2>1 DEF Once, Unused, InPlace, SnapshotIsRestored
  <1> QED
    BY <1>1, RestoreInvariant, PTL

=============================================================================

--------------------------- MODULE SnapshotsProofs ---------------------------
(***************************************************************************)
(* Proofs about Snapshots for every choice of its constants: any set of    *)
(* periods and retention counts, any length of a behaviour, any number of  *)
(* edits.                                                                  *)
(***************************************************************************)
EXTENDS Snapshots, ReconcilerProofs, FiniteSetTheorems

\* Every period, in seconds, is a number an int32 can hold.
PeriodsFit == \A p \in Periods : p * Minute \in -HalfRange .. HalfRange - 1

\* Every copy of the object is from the past, and so is its time stamp, which
\* is unset or not older than the object.
Dated(o) ==
    o # NoDS => /\ o.born <= clock
                /\ o.status.last = 0 \/ o.status.last >= o.born

\* What a pass that has read the clock knows about the time it read.
TimesAgree ==
    /\ Dated(ds) /\ Dated(dsCache) /\ Dated(my)
    /\ pc \in {"first", "create", "record"} => now >= my.born
    /\ pc = "first" => my.status.last = 0
    /\ pc \in {"create", "record"} =>
            my.status.last # 0 /\ now >= Deadline(my)

-----------------------------------------------------------------------------
\* Int32 is the identity on what fits; Deadline is what the reader expects.
LEMMA Int32Fits ==
    ASSUME NEW x \in -HalfRange .. HalfRange - 1
    PROVE  Int32(x) = x
  BY SnapConstants DEF Int32

\* The initial state has the types, and its copies agree.
LEMMA TypeInit == SnapInit => SnapTypeOK /\ CopiesAgree
  <1> SUFFICES ASSUME SnapInit PROVE SnapTypeOK /\ CopiesAgree
    OBVIOUS
  <1>1. clock \in Times /\ now \in {0} \cup Times /\ edits \in 0 .. MaxEdits
    BY SnapConstants DEF SnapInit, Times
  <1>2. RecTypeOK(DSObjects) /\ pc \in Steps
    BY Zenon DEF SnapInit, RecTypeOK, Steps
  <1>3. /\ snaps \subseteq VolumeSnapshots
        /\ snapCache \subseteq VolumeSnapshots
        /\ victims \subseteq VolumeSnapshots
    BY DEF SnapInit
  <1>4. pc = "idle"
    BY DEF SnapInit
  <1> QED
    BY <1>1, <1>2, <1>3, <1>4 DEF SnapInit, SnapTypeOK, CopiesAgree

\* The part of the types that is not about the copies of the object.
OwnTypeOK ==
    /\ pc \in Steps
    /\ clock \in Times
    /\ snaps \subseteq VolumeSnapshots
    /\ snapCache \subseteq VolumeSnapshots
    /\ victims \subseteq VolumeSnapshots
    /\ now \in {0} \cup Times
    /\ edits \in 0 .. MaxEdits
    /\ pc \in {"first", "create", "record"} => now \in Times

\* One step keeps the types and the agreement of the copies.
LEMMA TypeStep ==
    ASSUME SnapTypeOK, CopiesAgree, [SnapNext]_allVars
    PROVE  SnapTypeOK' /\ CopiesAgree'
  <1> USE SnapConstants, NoDSIsNoObject
  <1>0. /\ OwnTypeOK /\ RecTypeOK(DSObjects)
        /\ \A t \in {0} \cup Times : [last |-> t] \in SnapStatuses
        /\ pc # "idle" => my.status \in SnapStatuses
    <2>1. OwnTypeOK /\ RecTypeOK(DSObjects)
      BY DEF SnapTypeOK, OwnTypeOK
    <2>2. pc # "idle" => my.status \in SnapStatuses
      BY <2>1, ObjectParts, Zenon DEF RecTypeOK, DSObjects
    <2>3. \A t \in {0} \cup Times : [last |-> t] \in SnapStatuses
      BY DEF SnapStatuses
    <2> QED
      BY <2>1, <2>2, <2>3
  <1> SUFFICES OwnTypeOK' /\ RecTypeOK(DSObjects)' /\ CopiesAgree'
    BY DEF SnapTypeOK, OwnTypeOK
  <1>1. CASE StartReconcile
    BY <1>0, <1>1, LoadKeeps DEF StartReconcile, snapVars, Load, OwnTypeOK, Steps
  <1>2. CASE SkipDisabled \/ SkipEarly \/ LdapDone
    BY <1>0, <1>2, GotoKeeps
       DEF SkipDisabled, SkipEarly, LdapDone, snapVars, Goto, At, OwnTypeOK, Steps
  <1>3. CASE SkipFirst \/ SnapshotDue
    BY <1>0, <1>3, GotoKeeps
       DEF SkipFirst, SnapshotDue, snapVars, Goto, At, OwnTypeOK, Steps
  <1>4. CASE RecordFirst \/ RecordSnapshot
    BY <1>0, <1>4, WriteStatusKeeps
       DEF RecordFirst, RecordSnapshot, WriteStatus, OwnTypeOK, Steps, DSObjects
  <1>5. CASE CreateSnapshot
    BY <1>0, <1>5, GotoKeeps
       DEF CreateSnapshot, Goto, At, OwnTypeOK, Steps, VolumeSnapshots
  <1>6. CASE RecordFails
    BY <1>0, <1>6, WriteStatusAndReturnKeeps
       DEF RecordFails, WriteStatusAndReturn, OwnTypeOK, Steps, DSObjects
  <1>7. CASE ListSnapshots
    BY <1>0, <1>7, GotoKeeps DEF ListSnapshots, Oldest, Goto, At, OwnTypeOK, Steps
  <1>8. CASE PruneOne
    BY <1>0, <1>8, GotoKeeps DEF PruneOne, Goto, At, OwnTypeOK, Steps
  <1>9. CASE PruneDone
    BY <1>0, <1>9, GotoKeeps, RestartKeeps
       DEF PruneDone, Goto, Restart, At, snapVars, OwnTypeOK, Steps
  <1>10. CASE EndPass
    BY <1>0, <1>10, ReturnKeeps DEF EndPass, Return, snapVars, OwnTypeOK, Steps
  <1>11. CASE UpdateCR
    BY <1>0, <1>11, WriteObjectKeeps
       DEF UpdateCR, WriteObject, snapVars, OwnTypeOK, Steps, DSObjects
  <1>12. CASE UpdateCRFails
    BY <1>0, <1>12, WriteObjectAndReturnKeeps
       DEF UpdateCRFails, WriteObjectAndReturn, snapVars, OwnTypeOK, Steps, DSObjects
  <1>13. CASE UpdateStatus
    BY <1>0, <1>13, WriteStatusAndReturnKeeps
       DEF UpdateStatus, WriteStatusAndReturn, At, snapVars, OwnTypeOK, Steps,
           DSObjects
  <1>14. CASE Tick
    BY <1>0, <1>14, UnchangedKeeps DEF Tick, recVars, OwnTypeOK, Steps, Times
  <1>15. CASE UserStep
    <2>1. OwnTypeOK'
      BY <1>0, <1>15
         DEF UserStep, UserCreates, UserEdits, UserDeletes, OwnTypeOK, Steps
    <2>2. CASE UserDeletes
      BY <1>0, <2>1, <2>2, UserDeletesKeeps
    <2>3. CASE \E s \in SnapSpecs :
                 UserCreates(s, [last |-> 0], clock) \/ UserEdits(s)
      BY <1>0, <2>1, <2>3, UserKeeps DEF DSObjects, OwnTypeOK
    <2> QED
      BY <1>15, <2>2, <2>3 DEF UserStep
  <1>16. CASE SyncCR
    BY <1>0, <1>16, SyncDSKeeps DEF SyncCR, SyncDS, snapVars, OwnTypeOK, Steps
  <1>17. CASE SyncSnapshot
    BY <1>0, <1>17, UnchangedKeeps DEF SyncSnapshot, recVars, OwnTypeOK, Steps
  <1>18. CASE Crash
    BY <1>0, <1>18, RestartKeeps DEF Crash, Restart, OwnTypeOK, Steps
  <1>19. CASE UNCHANGED allVars
    BY <1>0, <1>19, UnchangedKeeps DEF allVars, recVars, snapVars, OwnTypeOK
  <1> QED
    BY <1>1, <1>2, <1>3, <1>4, <1>5, <1>6, <1>7, <1>8, <1>9, <1>10, <1>11,
       <1>12, <1>13, <1>14, <1>15, <1>16, <1>17, <1>18, <1>19
       DEF SnapNext, Handler, Environment

-----------------------------------------------------------------------------
\* The initial state has no times to agree on.
LEMMA TimesInit == SnapInit => TimesAgree
  BY DEF SnapInit, TimesAgree, Dated

\* One step keeps the agreement of the times.
LEMMA TimesStep ==
    ASSUME SnapTypeOK, CopiesAgree, TimesAgree, [SnapNext]_allVars
    PROVE  TimesAgree'
  <1> USE SnapConstants, NoDSIsNoObject
  <1>0. /\ RecTypeOK(DSObjects)
        /\ clock \in Int /\ clock \in Times /\ now \in Int
        /\ pc \in {"first", "record"} => [last |-> now] \in SnapStatuses
        /\ pc # "idle" => my \in DSObjects /\ my.status \in SnapStatuses
        /\ \A o \in DSObjects : o.born \in Int
    <2>1. \A o \in DSObjects : o.born \in Times /\ o.status \in SnapStatuses
      BY ObjectParts, Zenon DEF DSObjects
    <2> QED
      BY <2>1 DEF SnapTypeOK, RecTypeOK, SnapStatuses, Times
  <1>1. CASE StartReconcile
    BY <1>1 DEF StartReconcile, Load, snapVars, TimesAgree, Dated
  <1>2. CASE SkipDisabled \/ SkipEarly \/ LdapDone \/ ListSnapshots \/ PruneOne
    BY <1>2 DEF SkipDisabled, SkipEarly, LdapDone, ListSnapshots, PruneOne, Goto,
                snapVars, TimesAgree, Dated
  <1>3. CASE SkipFirst
    BY <1>0, <1>3 DEF SkipFirst, At, Goto, TimesAgree, Dated, RecTypeOK
  <1>4. CASE SnapshotDue
    BY <1>0, <1>4 DEF SnapshotDue, At, Goto, TimesAgree, Dated
  <1>5. CASE CreateSnapshot
    BY <1>5 DEF CreateSnapshot, At, Goto, TimesAgree, Dated
  <1>6. CASE RecordFirst \/ RecordSnapshot
    <2>1. PICK step \in {"ldap", "list"} : WriteStatus([last |-> now], step)
      BY <1>6 DEF RecordFirst, RecordSnapshot
    <2>2. /\ my = ds /\ my' = ds' /\ ds'.status.last = now
          /\ ds'.born = ds.born /\ ds \in DSObjects
      BY <1>0, <1>6, <2>1, WriteStatusKeeps DEF RecordFirst, RecordSnapshot, At, DSObjects
    <2>3. now >= ds.born /\ ds.born <= clock
      BY <1>0, <1>6, <2>2 DEF RecordFirst, RecordSnapshot, At, TimesAgree, Dated
    <2>4. clock' = clock /\ dsCache' = dsCache /\ pc' \in {"ldap", "list"}
      BY <1>6, <2>1 DEF RecordFirst, RecordSnapshot, WriteStatus
    <2> QED
      BY <1>0, <2>2, <2>3, <2>4 DEF TimesAgree, Dated
  <1>7. CASE RecordFails
    <2>0. WriteStatusAndReturn([last |-> now]) /\ [last |-> now] \in SnapStatuses
      BY <1>0, <1>7 DEF RecordFails
    <2>1. \/ ds' = ds
          \/ /\ my = ds /\ ds'.status = [last |-> now]
             /\ ds'.born = ds.born /\ ds \in DSObjects
      BY <1>0, <2>0, WriteStatusAndReturnKeeps DEF DSObjects
    <2>3. pc' = "idle" /\ my' = NoDS /\ dsCache' = dsCache /\ clock' = clock
      BY <1>7 DEF RecordFails, WriteStatusAndReturn
    <2>2. my = ds /\ ds \in DSObjects => now >= ds.born
      BY <1>7, <1>0 DEF RecordFails, TimesAgree
    <2> QED
      BY <2>1, <2>2, <2>3 DEF TimesAgree, Dated
  <1>8. CASE PruneDone
    BY <1>8 DEF PruneDone, At, Goto, Restart, snapVars, TimesAgree, Dated
  <1>9. CASE EndPass
    BY <1>9 DEF EndPass, Return, snapVars, TimesAgree, Dated
  <1>10. CASE UpdateCR
    <2>1. ds' = ds /\ my' = my /\ pc' = "status" /\ dsCache' = dsCache /\ clock' = clock
      BY <1>0, <1>10, WriteObjectKeeps DEF UpdateCR, WriteObject, DSObjects, snapVars
    <2> QED
      BY <2>1 DEF TimesAgree, Dated
  <1>11. CASE UpdateCRFails
    <2>1. ds' = ds /\ my' = NoDS /\ pc' = "idle" /\ dsCache' = dsCache /\ clock' = clock
      BY <1>0, <1>11, WriteObjectAndReturnKeeps
         DEF UpdateCRFails, WriteObjectAndReturn, DSObjects, snapVars
    <2> QED
      BY <2>1 DEF TimesAgree, Dated
  <1>12. CASE UpdateStatus
    <2>1. /\ \/ ds' = ds
             \/ /\ ds'.status = ds.status
                /\ ds'.born = ds.born /\ ds # NoDS
          /\ pc' = "idle" /\ my' = NoDS /\ dsCache' = dsCache /\ clock' = clock
      BY <1>0, <1>12, WriteStatusAndReturnKeeps
         DEF UpdateStatus, At, DSObjects, WriteStatusAndReturn, snapVars
    <2> QED
      BY <2>1 DEF TimesAgree, Dated
  <1>13. CASE Tick
    <2>1. UNCHANGED recVars /\ now' = now /\ clock' = clock + 1
      BY <1>13 DEF Tick
    <2> QED
      BY <1>0, <2>1 DEF recVars, TimesAgree, Dated, RecTypeOK
  <1>14. CASE UserStep
    <2>1. UNCHANGED <<pc, my, dsCache, clock, now>>
      BY <1>14 DEF UserStep, UserCreates, UserEdits, UserDeletes
    <2>2. CASE UserDeletes
      BY <2>1, <2>2 DEF UserDeletes, TimesAgree, Dated
    <2>3. CASE \E s \in SnapSpecs :
                 UserCreates(s, [last |-> 0], clock) \/ UserEdits(s)
      <3>1. [last |-> 0] \in SnapStatuses
        BY DEF SnapStatuses
      <3>2. \/ ds'.status = [last |-> 0] /\ ds'.born = clock
            \/ ds # NoDS /\ ds'.status = ds.status /\ ds'.born = ds.born
        BY <1>0, <2>3, <3>1, UserKeeps DEF DSObjects
      <3>3. Dated(ds)'
        BY <1>0, <2>1, <3>2 DEF TimesAgree, Dated
      <3> QED
        BY <2>1, <3>3 DEF TimesAgree, Dated
    <2> QED
      BY <1>14, <2>2, <2>3 DEF UserStep
  <1>15. CASE SyncCR
    BY <1>15 DEF SyncCR, SyncDS, snapVars, TimesAgree, Dated
  <1>16. CASE SyncSnapshot
    BY <1>16 DEF SyncSnapshot, recVars, TimesAgree, Dated
  <1>17. CASE Crash
    BY <1>17 DEF Crash, Restart, TimesAgree, Dated
  <1>18. CASE UNCHANGED allVars
    BY <1>18 DEF allVars, recVars, snapVars, TimesAgree, Dated
  <1> QED
    BY <1>1, <1>2, <1>3, <1>4, <1>5, <1>6, <1>7, <1>8, <1>9, <1>10, <1>11,
       <1>12, <1>13, <1>14, <1>15, <1>16, <1>17, <1>18
       DEF SnapNext, Handler, Environment

-----------------------------------------------------------------------------
(***************************************************************************)
(* The theorems.                                                           *)
(***************************************************************************)

\* The invariant the theorems about time rest on.
TimeInv == SnapTypeOK /\ CopiesAgree /\ TimesAgree

\* Types, and the facts about the copies and their times, hold always.
THEOREM TimeInvariant == SnapSpec => []TimeInv
  <1>1. SnapInit => TimeInv
    BY TypeInit, TimesInit DEF TimeInv
  <1>2. TimeInv /\ [SnapNext]_allVars => TimeInv'
    BY TypeStep, TimesStep DEF TimeInv
  <1> QED
    BY <1>1, <1>2, PTL DEF SnapSpec

\* The types of the model's state (snapshots.go and the writes of Reconcile).
THEOREM SnapTypes == SnapSpec => []SnapTypeOK
  BY TimeInvariant, PTL DEF TimeInv

\* The stored time stamp moves by full periods, for every set of periods that
\* fits an int32 (snapshots.go:51-110).
THEOREM Spacing ==
    ASSUME PeriodsFit
    PROVE  SnapSpec => RecordedSpacing
  <1> DEFINE Moved == /\ ds # NoDS /\ ds' # NoDS
                      /\ ds.status.last # 0
                      /\ ds'.status.last # ds.status.last
             Apart == ds'.status.last >= ds.status.last + my.spec.period * Minute
  <1>1. ASSUME TimeInv, [SnapNext]_allVars, Moved
        PROVE  Apart
    <2> USE SnapConstants, NoDSIsNoObject
    <2>0. /\ RecTypeOK(DSObjects) /\ CopiesAgree
          /\ \A t \in {0} \cup Times : [last |-> t] \in SnapStatuses
          /\ now \in {0} \cup Times
          /\ pc # "idle" => my \in DSObjects
      BY <1>1 DEF TimeInv, SnapTypeOK, RecTypeOK, SnapStatuses
    <2>1. CASE RecordSnapshot \/ RecordFirst \/ RecordFails
      <3>1. my = ds /\ ds'.status.last = now /\ my \in DSObjects
        <4>1. CASE RecordFails
          <5>1. WriteStatusAndReturn([last |-> now]) /\ [last |-> now] \in SnapStatuses
            BY <2>0, <4>1 DEF RecordFails
          <5>2. \/ ds' = ds
                \/ my = ds /\ ds'.status = [last |-> now] /\ ds \in DSObjects
            BY <2>0, <5>1, WriteStatusAndReturnKeeps DEF DSObjects
          <5> QED
            BY <1>1, <5>2
        <4>2. CASE RecordSnapshot \/ RecordFirst
          <5>1. PICK step : WriteStatus([last |-> now], step)
            BY <4>2 DEF RecordSnapshot, RecordFirst
          <5>2. my = ds /\ ds'.status = [last |-> now] /\ ds \in DSObjects
            BY <2>0, <5>1, WriteStatusKeeps DEF DSObjects
          <5> QED
            BY <5>2
        <4> QED
          BY <2>1, <4>1, <4>2
      <3>2. pc = "record"
        BY <1>1, <2>1, <3>1
           DEF RecordSnapshot, RecordFirst, RecordFails, At, TimeInv, TimesAgree
      <3>3. now >= my.status.last + Int32(my.spec.period * Minute)
        BY <1>1, <3>2 DEF TimeInv, TimesAgree, Deadline
      <3>4. my.spec.period \in Periods /\ my.status.last \in Int
        BY <3>1 DEF DSObjects, Objects, SnapSpecs, SnapStatuses, Times
      <3>5. Int32(my.spec.period * Minute) = my.spec.period * Minute
        BY PeriodsFit, <3>4, Int32Fits DEF PeriodsFit
      <3> QED
        BY <3>1, <3>3, <3>5
    <2>2. CASE UpdateCR \/ UpdateCRFails
      <3>1. ds' = ds
        BY <2>0, <2>2, WriteObjectKeeps, WriteObjectAndReturnKeeps
           DEF UpdateCR, UpdateCRFails, DSObjects
      <3> QED
        BY <1>1, <3>1
    <2>3. CASE UpdateStatus
      <3>1. my.status \in SnapStatuses
        BY <2>0, <2>3, ObjectParts, Zenon DEF UpdateStatus, At, DSObjects
      <3>2. ds' = ds \/ ds'.status = ds.status
        BY <2>0, <2>3, <3>1, WriteStatusAndReturnKeeps DEF UpdateStatus, DSObjects
      <3> QED
        BY <1>1, <3>2
    <2>4. CASE UserStep
      <3>1. CASE UserDeletes
        BY <1>1, <3>1 DEF UserDeletes
      <3>2. CASE \E s \in SnapSpecs :
                   UserCreates(s, [last |-> 0], clock) \/ UserEdits(s)
        <4>1. PICK s \in SnapSpecs : UserEdits(s)
          BY <1>1, <3>2 DEF UserCreates
        <4>2. ds' = [ds EXCEPT !.spec = s] /\ ds \in DSObjects
          BY <2>0, <4>1 DEF UserEdits, RecTypeOK
        <4>3. ds'.status = ds.status
          BY <4>2, WithSpec DEF DSObjects
        <4> QED
          BY <1>1, <4>3
      <3> QED
        BY <2>4, <3>1, <3>2 DEF UserStep
    <2>5. CASE ds' = ds
      BY <1>1, <2>5
    <2> QED
      BY <1>1, <2>1, <2>2, <2>3, <2>4, <2>5
         DEF SnapNext, Handler, Environment, StartReconcile, SkipDisabled,
             SkipFirst, SkipEarly, SnapshotDue, CreateSnapshot, ListSnapshots,
             PruneOne, PruneDone, EndPass, LdapDone, Tick, SyncCR, SyncSnapshot,
             Crash, Load, Goto, Return, Restart, SyncDS, allVars, recVars
  <1>2. TimeInv /\ [SnapNext]_allVars => [Moved => Apart]_allVars
    BY <1>1
  <1> QED
    BY <1>2, TimeInvariant, PTL DEF SnapSpec, RecordedSpacing

\* A snapshot waits for one period of the life of its directory
\* (snapshots.go:38-60).
THEOREM FirstDelayed ==
    ASSUME PeriodsFit
    PROVE  SnapSpec => FirstSnapshotDelayed
  <1> DEFINE Waited == now >= my.born + my.spec.period * Minute
  <1>1. ASSUME TimeInv, [SnapNext]_allVars, ~(snaps' \subseteq snaps)
        PROVE  Waited
    <2>1. CreateSnapshot
      BY <1>1
         DEF SnapNext, Handler, Environment, StartReconcile, SkipDisabled,
             SkipFirst, SkipEarly, SnapshotDue, RecordFirst, RecordSnapshot,
             RecordFails, ListSnapshots, PruneOne, PruneDone, EndPass, LdapDone,
             UpdateCR, UpdateCRFails, UpdateStatus, Tick, UserStep, SyncCR,
             SyncSnapshot, Crash, allVars, snapVars
    <2>2. /\ my.status.last # 0 /\ Dated(my) /\ my \in DSObjects
          /\ now >= my.status.last + Int32(my.spec.period * Minute)
          /\ now \in Int
      BY <1>1, <2>1, SnapConstants
         DEF CreateSnapshot, At, TimeInv, TimesAgree, SnapTypeOK, RecTypeOK,
             Deadline, Times
    <2>3. /\ my.spec.period \in Periods /\ my.status.last \in Int
          /\ my.born \in Int
      BY <2>2, SnapConstants DEF DSObjects, Objects, SnapSpecs, SnapStatuses, Times
    <2>4. Int32(my.spec.period * Minute) = my.spec.period * Minute
      BY PeriodsFit, <2>3, Int32Fits DEF PeriodsFit
    <2>5. my.status.last >= my.born
      BY <2>2, NoDSIsNoObject DEF Dated
    <2>6. my.spec.period * Minute \in Int
      <3>1. \A p \in Periods, m \in Nat : p * m \in Int
        BY SnapConstants
      <3> QED
        BY <2>3, <3>1, SnapConstants
    <2> QED
      BY <2>2, <2>3, <2>4, <2>5, <2>6
  <1>2. TimeInv /\ [SnapNext]_allVars =>
            [snaps' \subseteq snaps \/ Waited]_allVars
    BY <1>1
  <1> QED
    BY <1>2, TimeInvariant, PTL DEF SnapSpec, FirstSnapshotDelayed

-----------------------------------------------------------------------------
(***************************************************************************)
(* Pruning.  The list the prune loop decides on may show snapshots that    *)
(* are gone.  What saves the newer ones is that each snapshot that is gone *)
(* and still shown, and each that is yet to be deleted, has Floor newer    *)
(* ones alive.                                                             *)
(***************************************************************************)

Shown == snapCache \cup victims

\* A snapshot is known by its name, and by its time of creation.
Distinct ==
    /\ \A x, y \in snaps \cup Shown : x.name = y.name => x = y
    /\ \A x, y \in snaps \cup Shown : x.created = y.created => x = y
    /\ \A x \in snaps \cup Shown : x.created <= clock

\* The prune loop works only between the list and the end of the pass, and
\* what it has yet to delete is shown by the cache unless it is gone.
VictimsListed ==
    /\ pc # "prune" => victims = {}
    /\ \A v \in victims : v \in snaps => v \in snapCache

Kept ==
    \A x \in victims \cup (snapCache \ snaps) :
        Cardinality(Newer(x, snaps)) >= Floor

PruneInv ==
    /\ SnapTypeOK /\ CopiesAgree
    /\ IsFiniteSet(snaps) /\ IsFiniteSet(snapCache)
    /\ Distinct /\ VictimsListed /\ Kept

\* A larger set has more newer elements, and an older element has more.
LEMMA NewerGrows ==
    ASSUME NEW S, NEW T, IsFiniteSet(T), S \subseteq T,
           S \subseteq VolumeSnapshots, T \subseteq VolumeSnapshots,
           NEW x \in VolumeSnapshots, NEW y \in VolumeSnapshots,
           x.created <= y.created
    PROVE  /\ IsFiniteSet(Newer(x, T))
           /\ Cardinality(Newer(x, T)) \in Nat
           /\ Cardinality(Newer(y, S)) \in Nat
           /\ Cardinality(Newer(y, S)) <= Cardinality(Newer(x, T))
  <1>1. Newer(y, S) \subseteq Newer(x, T)
    BY SnapConstants DEF Newer, VolumeSnapshots, Times
  <1>2. Newer(x, T) \subseteq T
    BY DEF Newer
  <1>3. IsFiniteSet(Newer(x, T)) /\ IsFiniteSet(Newer(y, S))
    BY <1>1, <1>2, FS_Subset
  <1> QED
    BY <1>1, <1>3, FS_Subset, FS_CardinalityType

\* What is kept of a list with no two elements of one time is newer than all
\* that is deleted of it, and there are Floor of them.
LEMMA OldestLeavesNewer ==
    ASSUME NEW L, IsFiniteSet(L), L \subseteq VolumeSnapshots,
           \A x, y \in L : x.created = y.created => x = y,
           NEW r \in RetainedCounts, NEW V \in Oldest(L, r), NEW v \in V
    PROVE  /\ V \subseteq L
           /\ L \ V \subseteq Newer(v, L)
           /\ IsFiniteSet(L \ V)
           /\ Cardinality(L \ V) >= Floor
  <1>1. V \subseteq L /\ IsFiniteSet(V) /\ IsFiniteSet(L \ V)
    BY FS_Subset, FS_Difference DEF Oldest
  <1>2. L \ V \subseteq Newer(v, L)
    BY <1>1, SnapConstants DEF Oldest, Newer, VolumeSnapshots, Times
  <1>3. Cardinality(L \ V) = Cardinality(L) - Cardinality(V)
    <2>1. L \cap V = V
      BY <1>1
    <2> QED
      BY <1>1, <2>1, FS_Difference
  <1>4. Cardinality(L) \in Nat /\ Cardinality(V) \in Nat /\ Cardinality(V) # 0
    BY <1>1, FS_CardinalityType, FS_EmptySet
  <1>5. Cardinality(V) = IF r < 0 THEN Cardinality(L)
                         ELSE IF Cardinality(L) > r
                              THEN Cardinality(L) - r ELSE 0
    BY DEF Oldest
  <1>6. r \in Int /\ r >= Floor /\ Floor \in Int
    BY SnapConstants
  <1>7. Cardinality(L \ V) >= Floor
    BY <1>3, <1>4, <1>5, <1>6
  <1> QED
    BY <1>1, <1>2, <1>7

\* The initial state has nothing to prune.
LEMMA PruneInit == SnapInit => PruneInv
  <1> SUFFICES ASSUME SnapInit PROVE PruneInv
    OBVIOUS
  <1>1. snaps = {} /\ snapCache = {} /\ victims = {}
    BY DEF SnapInit
  <1> QED
    BY <1>1, TypeInit, FS_EmptySet
       DEF PruneInv, Distinct, VictimsListed, Kept, Shown

\* One step keeps the invariant of pruning.
LEMMA PruneStep ==
    ASSUME OnePerSecond = TRUE, PruneInv, [SnapNext]_allVars
    PROVE  PruneInv'
  <1> DEFINE Rest == /\ IsFiniteSet(snaps) /\ IsFiniteSet(snapCache)
                     /\ Distinct /\ VictimsListed /\ Kept
  <1>0. /\ snaps \subseteq VolumeSnapshots /\ IsFiniteSet(snaps)
        /\ snapCache \subseteq VolumeSnapshots /\ IsFiniteSet(snapCache)
        /\ victims \subseteq VolumeSnapshots
        /\ clock \in Int /\ Floor \in Int
        /\ Distinct /\ VictimsListed /\ Kept
    BY SnapConstants DEF PruneInv, SnapTypeOK, Times
  <1>t. SnapTypeOK' /\ CopiesAgree'
    BY TypeStep DEF PruneInv
  <1> SUFFICES Rest'
    BY <1>t DEF PruneInv
  <1>1. CASE /\ UNCHANGED <<snaps, snapCache, victims>>
             /\ pc' # "prune" => victims = {}
             /\ clock' \in {clock, clock + 1}
    <2>1. IsFiniteSet(snaps)' /\ IsFiniteSet(snapCache)'
      BY <1>0, <1>1
    <2>2. Distinct'
      BY <1>0, <1>1 DEF Distinct, Shown, VolumeSnapshots, Times
    <2>3. VictimsListed' /\ Kept'
      BY <1>0, <1>1 DEF VictimsListed, Kept
    <2> QED
      BY <2>1, <2>2, <2>3
  <1>2. CASE CreateSnapshot
    <2> DEFINE s == [name |-> now, created |-> clock]
    <2>1. CASE snaps' = snaps
      BY <1>1, <1>2, <2>1, <1>0 DEF CreateSnapshot, Goto, At, VictimsListed
    <2>2. CASE /\ now \notin Names(snaps \cup snapCache)
               /\ \A u \in snaps \cup snapCache : u.created < clock
               /\ snaps' = snaps \cup {s}
      <3>1. /\ victims = {} /\ victims' = {} /\ snapCache' = snapCache
            /\ clock' = clock /\ pc' = "record"
        BY <1>0, <1>2 DEF CreateSnapshot, Goto, At, VictimsListed
      <3>2. IsFiniteSet(snaps')
        BY <1>0, <2>2, FS_AddElement
      <3>3. Distinct'
        BY <1>0, <2>2, <3>1 DEF Distinct, Shown, Names, VolumeSnapshots, Times
      <3>4. ASSUME NEW x \in snapCache \ snaps'
            PROVE  Cardinality(Newer(x, snaps')) >= Floor
        <4>1. /\ x \in snapCache \ snaps /\ x \in VolumeSnapshots
              /\ x.created \in Int
          BY <1>0, <2>2, SnapConstants DEF VolumeSnapshots, Times
        <4>2. Cardinality(Newer(x, snaps)) >= Floor
          BY <1>0, <4>1 DEF Kept
        <4>3. snaps \subseteq snaps' /\ snaps' \subseteq VolumeSnapshots
          BY <1>0, <1>t, <2>2 DEF SnapTypeOK
        <4>4. /\ Cardinality(Newer(x, snaps)) \in Nat
              /\ Cardinality(Newer(x, snaps')) \in Nat
              /\ Cardinality(Newer(x, snaps)) <= Cardinality(Newer(x, snaps'))
          BY <1>0, <3>2, <4>1, <4>3, NewerGrows
        <4> QED
          BY <1>0, <4>2, <4>4
      <3> QED
        BY <1>0, <3>1, <3>2, <3>3, <3>4 DEF VictimsListed, Kept
    <2> QED
      BY <1>2, <2>1, <2>2 DEF CreateSnapshot
  <1>3. CASE ListSnapshots
    <2>1. /\ victims' \in Oldest(snapCache, my.spec.retained)
          /\ UNCHANGED <<snaps, snapCache, clock>>
          /\ pc' = "prune" /\ my.spec.retained \in RetainedCounts
      BY <1>3 DEF ListSnapshots, Goto, At, PruneInv, SnapTypeOK, RecTypeOK,
                  DSObjects, Objects, SnapSpecs
    <2>2. victims' \subseteq snapCache
      BY <2>1 DEF Oldest
    <2>3. \A x, y \in snapCache : x.created = y.created => x = y
      BY <1>0 DEF Distinct, Shown
    <2>4. Distinct'
      BY <1>0, <2>1, <2>2 DEF Distinct, Shown
    <2>5. ASSUME NEW v \in victims'
          PROVE  Cardinality(Newer(v, snaps)) >= Floor
      <3> DEFINE K == snapCache \ victims'
      <3>1. /\ K \subseteq Newer(v, snapCache) /\ IsFiniteSet(K)
            /\ Cardinality(K) >= Floor
        BY <1>0, <2>1, <2>3, OldestLeavesNewer
      <3>2. v \in VolumeSnapshots /\ v \in snapCache
        BY <1>0, <2>2
      <3>3. CASE K \subseteq snaps
        <4>1. K \subseteq Newer(v, snaps)
          BY <3>1, <3>3 DEF Newer
        <4>2. IsFiniteSet(Newer(v, snaps))
          BY <1>0, FS_Subset DEF Newer
        <4>3. Cardinality(K) <= Cardinality(Newer(v, snaps))
          BY <4>1, <4>2, FS_Subset
        <4> QED
          BY <1>0, <3>1, <4>2, <4>3, FS_CardinalityType
      <3>4. CASE ~(K \subseteq snaps)
        <4>1. PICK y \in K : y \notin snaps
          BY <3>4
        <4>2. y \in VolumeSnapshots /\ y \in snapCache \ snaps
          BY <1>0, <4>1
        <4>3. Cardinality(Newer(y, snaps)) >= Floor
          BY <1>0, <4>2 DEF Kept
        <4>4. v.created <= y.created
          BY <3>1, <3>2, <4>1, <4>2, SnapConstants
             DEF Newer, VolumeSnapshots, Times
        <4>5. /\ Cardinality(Newer(y, snaps)) <= Cardinality(Newer(v, snaps))
              /\ Cardinality(Newer(y, snaps)) \in Nat
              /\ Cardinality(Newer(v, snaps)) \in Nat
          BY <1>0, <3>2, <4>2, <4>4, NewerGrows
        <4> QED
          BY <1>0, <4>3, <4>5
      <3> QED
        BY <3>3, <3>4
    <2>6. VictimsListed'
      BY <2>1, <2>2 DEF VictimsListed
    <2>7. Kept'
      BY <1>0, <2>1, <2>5 DEF Kept
    <2> QED
      BY <1>0, <2>1, <2>4, <2>6, <2>7
  <1>4. CASE PruneOne
    <2>1. PICK v \in victims :
            /\ \A w \in victims : v.created <= w.created
            /\ snaps' \in {snaps, {s \in snaps : s.name # v.name}}
            /\ victims' = victims \ {v}
      BY <1>4 DEF PruneOne
    <2>2. UNCHANGED <<snapCache, clock>> /\ pc' = "prune"
      BY <1>4 DEF PruneOne, Goto
    <2>3. snaps' \subseteq snaps /\ snaps \subseteq snaps' \cup {v}
      BY <1>0, <2>1 DEF Distinct, Shown
    <2>4. IsFiniteSet(snaps')
      BY <1>0, <2>3, FS_Subset
    <2>5. Distinct' /\ VictimsListed'
      BY <1>0, <2>1, <2>2, <2>3 DEF Distinct, VictimsListed, Shown
    <2>6. ASSUME NEW x \in VolumeSnapshots, x.created >= v.created
          PROVE  Newer(x, snaps') = Newer(x, snaps)
      <3>1. v \notin Newer(x, snaps)
        BY <1>0, <2>6, SnapConstants DEF Newer, VolumeSnapshots, Times
      <3> QED
        BY <2>3, <3>1 DEF Newer
    <2>7. ASSUME NEW x \in victims' \cup (snapCache \ snaps')
          PROVE  Cardinality(Newer(x, snaps')) >= Floor
      <3>1. v \in VolumeSnapshots /\ x \in VolumeSnapshots
        BY <1>0, <2>1
      <3>2. CASE x.created >= v.created
        <4>1. x \in victims \cup (snapCache \ snaps)
          BY <2>1, <2>3
        <4> QED
          BY <1>0, <2>6, <3>1, <3>2, <4>1 DEF Kept
      <3>3. CASE x.created < v.created
        <4>1. Cardinality(Newer(v, snaps')) >= Floor
          BY <1>0, <2>6, <3>1, SnapConstants DEF Kept, VolumeSnapshots, Times
        <4>2. snaps' \subseteq VolumeSnapshots
          BY <1>0, <2>3
        <4>3. x.created <= v.created
          BY <3>1, <3>3, SnapConstants DEF VolumeSnapshots, Times
        <4>4. /\ Cardinality(Newer(v, snaps')) <= Cardinality(Newer(x, snaps'))
              /\ Cardinality(Newer(v, snaps')) \in Nat
              /\ Cardinality(Newer(x, snaps')) \in Nat
          BY <2>4, <3>1, <4>2, <4>3, NewerGrows
        <4> QED
          BY <1>0, <4>1, <4>4
      <3> QED
        BY <3>1, <3>2, <3>3, SnapConstants DEF VolumeSnapshots, Times
    <2>8. Kept'
      BY <2>2, <2>7 DEF Kept
    <2> QED
      BY <1>0, <2>2, <2>4, <2>5, <2>8
  <1>5. CASE /\ snapCache' = snaps /\ victims' = {}
             /\ UNCHANGED <<snaps, clock>>
    BY <1>0, <1>5 DEF Distinct, VictimsListed, Kept, Shown
  <1>6. CASE SyncSnapshot
    <2>1. /\ \/ \E s \in snaps \ snapCache : snapCache' = snapCache \cup {s}
             \/ \E s \in snapCache \ snaps : snapCache' = snapCache \ {s}
          /\ UNCHANGED <<pc, clock, snaps, victims>>
      BY <1>6 DEF SyncSnapshot, recVars
    <2>2. IsFiniteSet(snapCache')
      BY <1>0, <2>1, FS_AddElement, FS_Subset
    <2>3. Distinct' /\ VictimsListed' /\ Kept'
      BY <1>0, <2>1 DEF Distinct, VictimsListed, Kept, Shown
    <2> QED
      BY <1>0, <2>1, <2>2, <2>3
  <1>7. CASE PruneDone
    BY <1>0, <1>1, <1>5, <1>7 DEF PruneDone, Goto, Restart, snapVars
  <1>8. CASE Crash
    BY <1>5, <1>8 DEF Crash
  <1>9. CASE UNCHANGED allVars \/ Tick \/ UserStep \/ SyncCR
    BY <1>0, <1>1, <1>9
       DEF allVars, recVars, snapVars, Tick, UserStep, UserCreates, UserEdits,
           UserDeletes, SyncCR, SyncDS, VictimsListed
  <1>10. CASE \/ StartReconcile \/ SkipDisabled \/ SkipFirst \/ SkipEarly
              \/ SnapshotDue \/ RecordFirst \/ RecordSnapshot \/ RecordFails
              \/ EndPass \/ LdapDone \/ UpdateCR \/ UpdateCRFails \/ UpdateStatus
    <2>1. pc # "prune" /\ UNCHANGED <<snaps, snapCache, victims, clock>>
      BY <1>10
         DEF StartReconcile, SkipDisabled, SkipFirst, SkipEarly, SnapshotDue,
             RecordFirst, RecordSnapshot, RecordFails, EndPass, LdapDone,
             UpdateCR, UpdateCRFails, UpdateStatus, At, Load, snapVars
    <2> QED
      BY <1>0, <1>1, <2>1 DEF VictimsListed
  <1> QED
    BY <1>2, <1>3, <1>4, <1>6, <1>7, <1>8, <1>9, <1>10
       DEF SnapNext, Handler, Environment

\* Where no two snapshots carry one time stamp, pruning leaves as many newer
\* snapshots as the smallest retention count, however old the list is that
\* it decides on and whichever creations and deletions failed
\* (snapshots.go:112-130).
THEOREM NewestKept ==
    ASSUME OnePerSecond = TRUE
    PROVE  SnapSpec => PruneKeepsNewest
  <1> DEFINE Enough == \A x \in snaps \ snaps' : Cardinality(Newer(x, snaps')) >= Floor
  <1>1. SnapSpec => []PruneInv
    BY PruneInit, PruneStep, PTL DEF SnapSpec
  <1>2. ASSUME PruneInv, [SnapNext]_allVars
        PROVE  Enough
    <2>1. CASE PruneOne
      <3>1. PICK v \in victims :
              /\ snaps' \in {snaps, {s \in snaps : s.name # v.name}}
        BY <2>1 DEF PruneOne
      <3>2. Cardinality(Newer(v, snaps)) >= Floor
        BY <1>2 DEF PruneInv, Kept
      <3>3. v \in VolumeSnapshots /\ snaps \ snaps' \subseteq {v}
        BY <1>2, <3>1 DEF PruneInv, Distinct, Shown, SnapTypeOK
      <3>4. v \notin Newer(v, snaps)
        BY <3>3, SnapConstants DEF Newer, VolumeSnapshots, Times
      <3>5. Newer(v, snaps') = Newer(v, snaps)
        BY <3>1, <3>3, <3>4 DEF Newer
      <3> QED
        BY <3>2, <3>3, <3>5
    <2>2. CASE snaps \subseteq snaps'
      BY <2>2
    <2> QED
      BY <1>2, <2>1, <2>2
         DEF SnapNext, Handler, Environment, StartReconcile, SkipDisabled,
             SkipFirst, SkipEarly, SnapshotDue, RecordFirst, CreateSnapshot,
             RecordSnapshot, RecordFails, ListSnapshots, PruneDone, EndPass,
             LdapDone, UpdateCR, UpdateCRFails, UpdateStatus, Tick, UserStep,
             SyncCR, SyncSnapshot, Crash, allVars, snapVars
  <1>3. PruneInv /\ [SnapNext]_allVars => [Enough]_allVars
    BY <1>2
  <1> QED
    BY <1>1, <1>3, PTL DEF SnapSpec, PruneKeepsNewest

\* With at least one snapshot retained, what "$(latest)" resolves to from the
\* cache has not been pruned (snapshots.go:117-130, pvc.go:73-81).
THEOREM LatestLive ==
    ASSUME OnePerSecond = TRUE, Floor >= 1
    PROVE  SnapSpec => []LatestIsLive
  <1> DEFINE Inv == PruneInv /\ LatestIsLive
  <1>1. SnapInit => Inv
    BY PruneInit DEF SnapInit, LatestIsLive
  <1>2. ASSUME Inv, [SnapNext]_allVars
        PROVE  Inv'
    <2>0. /\ snapCache \subseteq VolumeSnapshots /\ IsFiniteSet(snapCache)
          /\ snaps \subseteq VolumeSnapshots /\ victims \subseteq VolumeSnapshots
          /\ Distinct /\ VictimsListed /\ LatestIsLive
      BY <1>2 DEF PruneInv, SnapTypeOK
    <2>i. PruneInv'
      BY <1>2, PruneStep
    <2> SUFFICES LatestIsLive'
      BY <2>i
    <2>1. CASE /\ snaps \subseteq snaps' /\ snapCache' = snapCache
               /\ victims' \subseteq victims
      BY <2>0, <2>1 DEF LatestIsLive
    <2>2. CASE ListSnapshots
      <3>1. /\ victims' \in Oldest(snapCache, my.spec.retained)
            /\ UNCHANGED <<snaps, snapCache>>
            /\ my.spec.retained \in RetainedCounts
        BY <1>2, <2>2
           DEF ListSnapshots, At, PruneInv, SnapTypeOK, RecTypeOK, DSObjects,
               Objects, SnapSpecs
      <3>2. ASSUME NEW x \in snapCache, Newer(x, snapCache) = {}
            PROVE  x \notin victims'
        <4> SUFFICES ASSUME x \in victims' PROVE FALSE
          OBVIOUS
        <4>1. \A y, z \in snapCache : y.created = z.created => y = z
          BY <2>0 DEF Distinct, Shown
        <4>2. /\ snapCache \ victims' \subseteq Newer(x, snapCache)
              /\ Cardinality(snapCache \ victims') >= Floor
          BY <2>0, <3>1, <4>1, OldestLeavesNewer
        <4>3. snapCache \ victims' = {}
          BY <3>2, <4>2
        <4> QED
          BY <4>2, <4>3, FS_EmptySet, SnapConstants
      <3> QED
        BY <2>0, <3>1, <3>2 DEF LatestIsLive
    <2>3. CASE PruneOne
      <3>1. PICK v \in victims :
              /\ snaps' \in {snaps, {s \in snaps : s.name # v.name}}
              /\ victims' = victims \ {v}
        BY <2>3 DEF PruneOne
      <3>2. snaps \subseteq snaps' \cup {v} /\ snapCache' = snapCache
        BY <2>0, <2>3, <3>1 DEF Distinct, Shown, PruneOne
      <3> QED
        BY <2>0, <3>1, <3>2 DEF LatestIsLive
    <2>4. CASE snapCache' = snaps /\ snaps' = snaps /\ victims' = {}
      BY <2>4 DEF LatestIsLive
    <2>5. CASE SyncSnapshot
      <3>1. UNCHANGED <<snaps, victims>>
        BY <2>5 DEF SyncSnapshot
      <3>2. ASSUME NEW s \in snaps \ snapCache, snapCache' = snapCache \cup {s}
            PROVE  LatestIsLive'
        <4>1. s \notin victims
          BY <2>0 DEF VictimsListed
        <4> QED
          BY <2>0, <3>1, <3>2, <4>1 DEF LatestIsLive, Newer
      <3>3. ASSUME NEW s \in snapCache \ snaps, snapCache' = snapCache \ {s}
            PROVE  LatestIsLive'
        <4>1. ASSUME NEW x \in snapCache', Newer(x, snapCache') = {}
              PROVE  Newer(x, snapCache) = {}
          <5>1. PICK z \in snapCache : z.created > s.created
            BY <2>0 DEF LatestIsLive, Newer
          <5>2. /\ z # s /\ z.created \in Int /\ s.created \in Int
                /\ x.created \in Int
            BY <2>0, <3>3, <4>1, <5>1, SnapConstants DEF VolumeSnapshots, Times
          <5>3. ~(s.created > x.created)
            BY <3>3, <4>1, <5>1, <5>2 DEF Newer
          <5> QED
            BY <3>3, <4>1, <5>3 DEF Newer
        <4> QED
          BY <2>0, <3>1, <3>3, <4>1 DEF LatestIsLive
      <3> QED
        BY <2>5, <3>2, <3>3 DEF SyncSnapshot
    <2> QED
      BY <1>2, <2>1, <2>2, <2>3, <2>4, <2>5
         DEF SnapNext, Handler, Environment, StartReconcile, SkipDisabled,
             SkipFirst, SkipEarly, SnapshotDue, RecordFirst, CreateSnapshot,
             RecordSnapshot, RecordFails, PruneDone, EndPass, LdapDone,
             UpdateCR, UpdateCRFails, UpdateStatus, Tick, UserStep, SyncCR,
             Crash, allVars, snapVars
  <1> QED
    BY <1>1, <1>2, PTL DEF SnapSpec

=============================================================================

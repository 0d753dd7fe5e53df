--------------------------- MODULE ReplicasProofs ---------------------------
(***************************************************************************)
(* Proofs about Replicas for all replica counts, images and limits, and    *)
(* any number of user changes, snapshots and faults.                       *)
(***************************************************************************)
EXTENDS Replicas, ReconcilerProofs, SequenceTheorems

\* What the API server admits: the schema's limit holds for every stored
\* resource, and so for every copy of one and every StatefulSet made from it.
AdmittedSpecs == {s \in RepSpecs : s.replicas <= SchemaLimit}
Admitted == Objects(AdmittedSpecs, RepStatuses, Births)
AdmittedSts == {s \in StatefulSets : s.replicas <= SchemaLimit}

CopiesOK == RecTypeOK(Admitted) /\ SpecsAgree

\* The part of the types that is about the other objects.
ClaimsOK ==
    /\ i \in 0 .. SchemaLimit
    /\ claims \in [Ordinals -> ClaimValues \cup {NoClaim}]
    /\ claimCache \subseteq Ordinals
    /\ latest \in 0 .. MaxSnaps /\ latestCache \in 0 .. latest

StsOK ==
    /\ sts \in AdmittedSts \cup {NoSts}
    /\ stsCache \in AdmittedSts \cup {NoSts}
    /\ stsFresh \in BOOLEAN

CountsOK ==
    /\ edits \in 0 .. MaxEdits /\ claimDeletes \in 0 .. MaxClaimDeletes
    /\ faults \in 0 .. MaxFaults

TypeInv == pc \in RepSteps /\ CopiesOK /\ ClaimsOK /\ StsOK /\ CountsOK

-----------------------------------------------------------------------------
\* The constants that are numbers.
LEMMA Numbers ==
    /\ ReplicaCounts \subseteq Int /\ SchemaLimit \in Nat
    /\ MaxEdits \in Nat /\ MaxClaimDeletes \in Nat /\ MaxSnaps \in Nat
    /\ MaxFaults \in Nat
  BY ReplicasConstants, Zenon

\* An admitted resource is a resource, within the limit.
LEMMA AdmittedParts ==
    /\ Admitted \subseteq RepObjects /\ NoDS \notin Admitted
    /\ \A o \in Admitted :
        /\ o.spec.replicas \in ReplicaCounts /\ o.spec.replicas <= SchemaLimit
        /\ o.spec.image \in Images
        /\ o.status \in RepStatuses /\ o.born \in Births
  <1>1. \A o \in Admitted :
        /\ o.spec \in AdmittedSpecs
        /\ o.status \in RepStatuses /\ o.born \in Births
    BY ObjectParts DEF Admitted
  <1>2. \A s \in AdmittedSpecs :
        /\ s.replicas \in ReplicaCounts /\ s.replicas <= SchemaLimit
        /\ s.image \in Images
    <2> TAKE s \in AdmittedSpecs
    <2>1. s \in RepSpecs /\ s.replicas <= SchemaLimit
      BY DEF AdmittedSpecs
    <2>2. s.replicas \in ReplicaCounts /\ s.image \in Images
      BY <2>1 DEF RepSpecs
    <2> QED
      BY <2>1, <2>2
  <1>3. Admitted \subseteq RepObjects
    BY DEF Admitted, RepObjects, Objects, AdmittedSpecs
  <1> QED
    BY <1>1, <1>2, <1>3, NothingIsNoObject

\* The handler holds an admitted resource during a pass.
LEMMA HandlerHolds ==
    ASSUME CopiesOK, pc # "idle"
    PROVE  /\ my \in Admitted
           /\ my.spec.replicas \in ReplicaCounts /\ my.spec.replicas <= SchemaLimit
           /\ my.spec.image \in Images
           /\ my.status \in RepStatuses /\ my.born \in Births
  <1>1. my \in Admitted
    BY Zenon DEF CopiesOK, RecTypeOK
  <1> QED
    BY <1>1, AdmittedParts

\* The replica count it holds may be any number that the schema admits.
LEMMA HandlerCounts ==
    ASSUME CopiesOK, pc # "idle"
    PROVE  /\ my.spec.replicas \in Int /\ my.spec.replicas <= SchemaLimit
           /\ ValidCount => my.spec.replicas \in ReplicaCounts \cap Nat
  <1>1. my.spec.replicas \in ReplicaCounts /\ my.spec.replicas <= SchemaLimit
    BY HandlerHolds
  <1>2. my.spec.replicas \in Int
    BY <1>1, Numbers, Zenon
  <1> QED
    BY <1>1, <1>2 DEF ValidCount

\* The steps that write no resource keep the copies.
LEMMA QuietKeepsCopies ==
    ASSUME CopiesOK, NEW step,
           \/ Load(step) \/ LoadNothing
           \/ pc # "idle" /\ Goto(step)
           \/ Return \/ Restart
           \/ SyncDS \/ UserDeletes
           \/ UNCHANGED recVars
    PROVE  CopiesOK'
  BY QuietKeepsSpecs DEF CopiesOK

\* So do the steps that write its status, in memory or in the store, and no
\* spec changes by them.
LEMMA StatusKeepsCopies ==
    ASSUME CopiesOK, pc # "idle", NEW st \in RepStatuses, NEW step,
           Observe(st, step) \/ WriteStatus(st, step) \/ WriteStatusAndReturn(st)
    PROVE  /\ CopiesOK'
           /\ ds # NoDS => ds'.spec = ds.spec
  <1>1. CASE Observe(st, step)
    <2>1. RecTypeOK(Admitted)' /\ SpecsAgree'
      BY <1>1, ObserveKeepsSpecs DEF CopiesOK, Admitted
    <2> QED
      BY <1>1, <2>1 DEF CopiesOK, Observe
  <1>2. CASE WriteStatus(st, step) \/ WriteStatusAndReturn(st)
    BY <1>2, AdmittedParts, StatusKeepsSpecs DEF CopiesOK, Admitted
  <1> QED
    BY <1>1, <1>2

\* So does r.Update, and it changes nothing in the store.
LEMMA UpdateKeepsCopies ==
    ASSUME CopiesOK, pc # "idle", NEW st \in RepStatuses, NEW step,
           WriteObject(st, step) \/ WriteObjectAndReturn
    PROVE  CopiesOK' /\ ds' = ds
  BY UpdateKeepsSpecs DEF CopiesOK, Admitted

\* Users keep them: what they write is admitted.
LEMMA UserKeepsCopies ==
    ASSUME CopiesOK, NEW s \in AdmittedSpecs, NEW t \in Births,
           UserCreates(s, [current |-> Unset], t) \/ UserEdits(s)
    PROVE  CopiesOK'
  <1>1. [current |-> Unset] \in RepStatuses
    BY DEF RepStatuses
  <1> QED
    BY <1>1, UserKeepsSpecs DEF CopiesOK, Admitted

\* updateDSStatefulSet makes an admitted StatefulSet of an admitted one
\* (sts.go:57-77), with the replica count the handler holds.
LEMMA WantedIsAdmitted ==
    ASSUME TypeInv, pc # "idle", stsCache # NoSts, ValidCount
    PROVE  Wanted \in AdmittedSts /\ Wanted.replicas = my.spec.replicas
  <1>1. stsCache \in AdmittedSts
    BY DEF TypeInv, StsOK
  <1>2. /\ my.spec.replicas \in ReplicaCounts /\ my.spec.replicas <= SchemaLimit
        /\ my.spec.image \in Images
    BY HandlerHolds DEF TypeInv
  <1>3. stsCache.images \in Seq(Images)
    BY <1>1 DEF AdmittedSts, StatefulSets
  <1>0. my.spec.replicas \in ReplicaCounts \cap Nat
    BY HandlerCounts DEF TypeInv
  <1> DEFINE images == [stsCache.images EXCEPT ![1] = my.spec.image]
             scaled == [stsCache EXCEPT !.replicas = my.spec.replicas]
  <1>4. images \in Seq(Images)
    <2>1. CASE 1 \in 1 .. Len(stsCache.images)
      BY <1>2, <1>3, <2>1, ExceptSeq
    <2>2. CASE 1 \notin 1 .. Len(stsCache.images)
      <3>1. images = stsCache.images
        BY <1>3, <2>2
      <3> QED
        BY <1>3, <3>1
    <2> QED
      BY <2>1, <2>2
  <1>5. /\ scaled \in AdmittedSts /\ scaled.replicas = my.spec.replicas
        /\ scaled.images = stsCache.images
    BY <1>0, <1>1, <1>2 DEF AdmittedSts, StatefulSets
  <1>6. Wanted = [scaled EXCEPT !.images = [scaled.images EXCEPT ![1] = my.spec.image]]
    BY Zenon DEF Wanted
  <1>7. Wanted = [scaled EXCEPT !.images = images]
    BY <1>5, <1>6, Zenon
  <1> HIDE DEF images, scaled
  <1> QED
    BY <1>4, <1>5, <1>7 DEF AdmittedSts, StatefulSets

-----------------------------------------------------------------------------
\* The system starts with nothing.
LEMMA RepTypesInit ==
    RepInit => TypeInv
  <1> SUFFICES ASSUME RepInit PROVE TypeInv
    OBVIOUS
  <1>1. CopiesOK
    BY Zenon DEF RepInit, CopiesOK, RecTypeOK, SpecsAgree
  <1>2. ClaimsOK
    BY Numbers DEF RepInit, ClaimsOK
  <1>3. StsOK
    BY Zenon DEF RepInit, StsOK
  <1>4. CountsOK
    BY Numbers DEF RepInit, CountsOK
  <1> QED
    BY <1>1, <1>2, <1>3, <1>4 DEF RepInit, TypeInv, RepSteps

\* A failed call or a restart is counted within its bound.
LEMMA FaultIsCounted ==
    ASSUME CountsOK, Fault \/ UNCHANGED faults
    PROVE  faults' \in 0 .. MaxFaults
  BY Numbers DEF CountsOK, Fault

\* The data source of a claim or of a template is empty or a snapshot.
LEMMA SourcesAreSources ==
    ASSUME ClaimsOK, NEW spec
    PROVE  SourcesFor(spec) \subseteq Sources
  <1>1. {Blank, latestCache} \subseteq Sources
    BY Numbers DEF ClaimsOK, Sources, Blank
  <1> QED
    BY <1>1 DEF SourcesFor

\* The steps of the loop over the claims keep the types (pvc.go:22-69).
LEMMA LoopKeepsTypes ==
    ASSUME TypeInv, StartPass \/ SkipPass \/ ClaimExists \/ CreateClaim \/ ClaimsDone
    PROVE  TypeInv'
  <1> USE DEF TypeInv
  <1>1. CASE StartPass
    <2>1. CopiesOK' /\ pc' \in RepSteps
      BY <1>1, QuietKeepsCopies DEF StartPass, Load, RepSteps
    <2>2. ClaimsOK'
      BY <1>1, Numbers DEF StartPass, ClaimsOK
    <2> QED
      BY <1>1, <2>1, <2>2 DEF StartPass, StsOK, CountsOK
  <1>2. CASE SkipPass
    <2>1. CopiesOK' /\ pc' \in RepSteps
      BY <1>2, QuietKeepsCopies DEF SkipPass, LoadNothing, recVars
    <2> QED
      BY <1>2, <2>1 DEF SkipPass, ownVars, ClaimsOK, StsOK, CountsOK
  <1>3. CASE ClaimExists
    <2>1. pc # "idle"
      BY <1>3 DEF ClaimExists, At
    <2>2. CopiesOK' /\ pc' \in RepSteps
      BY <1>3, <2>1, QuietKeepsCopies DEF ClaimExists, Goto, RepSteps
    <2>3. i' \in 0 .. SchemaLimit
      <3>1. my.spec.replicas \in Int /\ my.spec.replicas <= SchemaLimit
        BY <2>1, HandlerCounts
      <3> QED
        BY <1>3, <3>1, Numbers DEF ClaimExists, ClaimsOK
    <2> QED
      BY <1>3, <2>2, <2>3 DEF ClaimExists, ClaimsOK, StsOK, CountsOK
  <1>4. CASE CreateClaim
    <2>1. pc # "idle"
      BY <1>4 DEF CreateClaim, At
    <2>2. CopiesOK' /\ pc' \in RepSteps
      <3>1. CASE Goto("pvc")
        BY <2>1, <3>1, QuietKeepsCopies DEF Goto, RepSteps
      <3>2. CASE Return
        BY <3>2, QuietKeepsCopies DEF Return, RepSteps
      <3> QED
        BY <1>4, <3>1, <3>2 DEF CreateClaim
    <2>3. i' \in 0 .. SchemaLimit
      BY <1>4, <2>1, HandlerCounts, Numbers DEF CreateClaim, ClaimsOK
    <2>4. claims' \in [Ordinals -> ClaimValues \cup {NoClaim}]
      <3>1. PICK from \in Sources :
                claims' = [claims EXCEPT ![i] = [by |-> "operator", from |-> from]]
        BY <1>4, SourcesAreSources DEF CreateClaim
      <3>2. [by |-> "operator", from |-> from] \in ClaimValues
        BY DEF ClaimValues
      <3> QED
        BY <3>1, <3>2 DEF ClaimsOK
    <2>5. faults' \in 0 .. MaxFaults
      BY <1>4, FaultIsCounted DEF CreateClaim
    <2>6. ClaimsOK'
      BY <1>4, <2>3, <2>4 DEF CreateClaim, ClaimsOK
    <2> QED
      BY <1>4, <2>2, <2>5, <2>6 DEF CreateClaim, StsOK, CountsOK
  <1>5. CASE ClaimsDone
    <2>1. pc # "idle"
      BY <1>5 DEF ClaimsDone, At
    <2>2. CopiesOK' /\ pc' \in RepSteps
      BY <1>5, <2>1, QuietKeepsCopies DEF ClaimsDone, Goto, RepSteps
    <2>3. ClaimsOK'
      BY <1>5, Numbers DEF ClaimsDone, ClaimsOK
    <2> QED
      BY <1>5, <2>2, <2>3 DEF ClaimsDone, StsOK, CountsOK
  <1> QED
    BY <1>1, <1>2, <1>3, <1>4, <1>5

\* createDSStatefulSet and updateDSStatefulSet keep the types (sts.go:29-100).
LEMMA StsStepsKeepTypes ==
    ASSUME TypeInv, CreateSts \/ UpdateSts
    PROVE  TypeInv'
  <1> USE DEF TypeInv
  <1>0. pc # "idle"
    BY DEF CreateSts, UpdateSts, At
  <1>1. CASE CreateSts
    <2>1. CopiesOK' /\ pc' \in RepSteps
      <3>1. CASE Goto("snap")
        BY <1>0, <3>1, QuietKeepsCopies DEF Goto, RepSteps
      <3>2. CASE Return
        BY <3>2, QuietKeepsCopies DEF Return, RepSteps
      <3> QED
        BY <1>1, <3>1, <3>2 DEF CreateSts
    <2>2. PICK from \in Sources :
            sts' = [owner |-> my.born, replicas |-> my.spec.replicas,
                    images |-> ContainerImages(my.spec.image),
                    template |-> from, current |-> 0]
      BY <1>1, SourcesAreSources DEF CreateSts
    <2>3. ContainerImages(my.spec.image) \in Seq(Images)
      BY <1>0, HandlerHolds DEF ContainerImages
    <2>4. sts' \in AdmittedSts
      <3>1. my.spec.replicas \in ReplicaCounts \cap Nat /\ my.born \in Births
        BY <1>0, <1>1, HandlerHolds, HandlerCounts DEF CreateSts
      <3> QED
        BY <1>0, <2>2, <2>3, <3>1, HandlerHolds DEF AdmittedSts, StatefulSets
    <2>5. StsOK'
      BY <1>1, <2>4, Zenon DEF CreateSts, StsOK
    <2>6. ClaimsOK'
      BY <1>1 DEF CreateSts, ClaimsOK
    <2>7. CountsOK'
      BY <1>1, FaultIsCounted DEF CreateSts, CountsOK
    <2> QED
      BY <2>1, <2>5, <2>6, <2>7
  <1>2. CASE UpdateSts
    <2>1. stsCache \in AdmittedSts /\ stsCache # NoSts
      BY <1>2 DEF UpdateSts, StsOK
    <2>2. CopiesOK' /\ pc' \in RepSteps
      <3>1. CASE Observe([current |-> stsCache.current], "snap")
        <4>1. [current |-> stsCache.current] \in RepStatuses
          BY <2>1 DEF AdmittedSts, StatefulSets, RepStatuses
        <4>2. CopiesOK'
          BY <1>0, <3>1, <4>1, StatusKeepsCopies
        <4> QED
          BY <3>1, <4>2 DEF Observe, RepSteps
      <3>2. CASE Return
        BY <3>2, QuietKeepsCopies DEF Return, RepSteps
      <3> QED
        BY <1>2, <3>1, <3>2 DEF UpdateSts
    <2>3. ValidCount => Wanted \in AdmittedSts
      BY <1>0, <2>1, WantedIsAdmitted
    <2>4. StsOK'
      BY <1>2, <2>3, Zenon DEF UpdateSts, StsOK
    <2>5. ClaimsOK'
      BY <1>2 DEF UpdateSts, ClaimsOK
    <2>6. CountsOK'
      BY <1>2, FaultIsCounted DEF UpdateSts, CountsOK
    <2> QED
      BY <2>2, <2>4, <2>5, <2>6
  <1> QED
    BY <1>1, <1>2

\* The writes of the resource, and the ends of a pass, keep the types and every
\* stored spec (directoryservice_controller.go:133-175).
LEMMA WritesKeepTypes ==
    ASSUME TypeInv,
           \/ SnapshotStep \/ PasswordStep \/ UpdateObject \/ FinalStatus
           \/ Refused \/ PassFails
    PROVE  TypeInv' /\ (ds # NoDS => ds'.spec = ds.spec)
  <1> USE DEF TypeInv
  <1>0. pc # "idle"
    BY DEF SnapshotStep, PasswordStep, UpdateObject, FinalStatus, Refused, PassFails, At
  <1>1. my.status \in RepStatuses
    BY <1>0, HandlerHolds
  <1>2. CASE SnapshotStep
    <2>1. CASE Goto("ldap")
      BY <1>0, <1>2, <2>1, QuietKeepsCopies
         DEF SnapshotStep, Goto, RepSteps, ownVars, ClaimsOK, StsOK, CountsOK
    <2>2. CASE WriteStatus(my.status, "ldap")
      <3>1. pc' = "ldap"
        BY <2>2, Zenon DEF WriteStatus
      <3>2. CopiesOK' /\ (ds # NoDS => ds'.spec = ds.spec)
        BY <1>0, <1>1, <2>2, StatusKeepsCopies
      <3> QED
        BY <1>2, <3>1, <3>2
           DEF SnapshotStep, RepSteps, ownVars, ClaimsOK, StsOK, CountsOK
    <2> QED
      BY <1>2, <2>1, <2>2 DEF SnapshotStep
  <1>3. CASE PasswordStep
    BY <1>0, <1>3, QuietKeepsCopies
       DEF PasswordStep, Goto, RepSteps, ownVars, ClaimsOK, StsOK, CountsOK
  <1>4. CASE UpdateObject
    <2>1. PICK st \in RepStatuses : WriteObject(st, "status")
      <3>1. WriteObject(IF ds.status.current = Unset THEN my.status ELSE ds.status,
                        "status")
        BY <1>4 DEF UpdateObject
      <3>2. ds \in Admitted
        <4>1. myFresh
          BY <3>1, Zenon DEF WriteObject
        <4> QED
          BY <4>1, Zenon DEF CopiesOK, RecTypeOK, SpecsAgree
      <3>3. ds.status \in RepStatuses
        BY <3>2, AdmittedParts
      <3> QED
        BY <1>1, <3>1, <3>3, Zenon
    <2>2. CopiesOK' /\ ds' = ds
      BY <1>0, <2>1, UpdateKeepsCopies
    <2>3. pc' = "status"
      BY <2>1, Zenon DEF WriteObject
    <2> QED
      BY <1>4, <2>2, <2>3 DEF UpdateObject, RepSteps, ownVars, ClaimsOK, StsOK, CountsOK
  <1>5. CASE FinalStatus
    <2>1. CopiesOK' /\ (ds # NoDS => ds'.spec = ds.spec)
      BY <1>0, <1>1, <1>5, StatusKeepsCopies DEF FinalStatus
    <2>2. pc' = "idle"
      BY <1>5, Zenon DEF FinalStatus, WriteStatusAndReturn
    <2> QED
      BY <1>5, <2>1, <2>2 DEF FinalStatus, RepSteps, ownVars, ClaimsOK, StsOK, CountsOK
  <1>6. CASE Refused
    <2>1. CopiesOK' /\ pc' \in RepSteps /\ ds' = ds
      BY <1>6, QuietKeepsCopies DEF Refused, Return, RepSteps
    <2>2. ClaimsOK'
      BY <1>6, Numbers DEF Refused, ClaimsOK
    <2> QED
      BY <1>6, <2>1, <2>2 DEF Refused, StsOK, CountsOK
  <1>7. CASE PassFails
    <2>1. CopiesOK' /\ pc' = "idle" /\ (ds # NoDS => ds'.spec = ds.spec)
      <3>1. CASE Return
        BY <3>1, QuietKeepsCopies DEF Return
      <3>2. CASE WriteStatusAndReturn(my.status)
        <4>1. pc' = "idle"
          BY <3>2, Zenon DEF WriteStatusAndReturn
        <4> QED
          BY <1>0, <1>1, <3>2, <4>1, StatusKeepsCopies
      <3>3. CASE WriteObjectAndReturn
        <4>1. pc' = "idle"
          BY <3>3, Zenon DEF WriteObjectAndReturn
        <4> QED
          BY <1>0, <1>1, <3>3, <4>1, UpdateKeepsCopies
      <3> QED
        BY <1>7, <3>1, <3>2, <3>3 DEF PassFails
    <2>2. ClaimsOK'
      BY <1>7, Numbers DEF PassFails, ClaimsOK
    <2>3. CountsOK'
      BY <1>7, FaultIsCounted DEF PassFails, CountsOK
    <2> QED
      BY <1>7, <2>1, <2>2, <2>3 DEF PassFails, StsOK, RepSteps
  <1> QED
    BY <1>2, <1>3, <1>4, <1>5, <1>6, <1>7

\* Users, the cluster's controllers and the watches keep the types.
LEMMA ClusterKeepsTypes ==
    ASSUME TypeInv,
           \/ UserChange \/ UserDeletesClaim
           \/ StsMakesClaim \/ StsScalesPods \/ CollectSts \/ NewSnapshot
           \/ SyncObject \/ SyncSts \/ SyncClaims \/ SyncLatest
           \/ RestartOperator \/ UNCHANGED repVars
    PROVE  TypeInv'
  <1> USE DEF TypeInv
  <1>1. CASE UserChange
    <2>1. edits \in Births /\ edits' \in 0 .. MaxEdits
      BY <1>1, Numbers DEF UserChange, CountsOK, Births
    <2>2. CopiesOK' /\ pc' = pc
      <3>1. ASSUME NEW s \in RepSpecs,
                   \/ AdmitCreate(s) /\ UserCreates(s, [current |-> Unset], edits)
                   \/ AdmitUpdate(s) /\ UserEdits(s)
            PROVE  CopiesOK' /\ pc' = pc
        <4>1. s \in AdmittedSpecs
          BY <3>1 DEF AdmittedSpecs, AdmitCreate, AdmitUpdate
        <4> QED
          BY <2>1, <3>1, <4>1, UserKeepsCopies DEF UserCreates, UserEdits
      <3>2. CASE UserDeletes
        BY <3>2, QuietKeepsCopies DEF UserDeletes
      <3> QED
        BY <1>1, <3>1, <3>2 DEF UserChange
    <2> QED
      BY <1>1, <2>1, <2>2 DEF UserChange, ClaimsOK, StsOK, CountsOK
  <1>2. CASE UserDeletesClaim
    <2>1. CopiesOK' /\ pc' = pc
      BY <1>2, QuietKeepsCopies DEF UserDeletesClaim, recVars
    <2>2. claims' \in [Ordinals -> ClaimValues \cup {NoClaim}]
      BY <1>2 DEF UserDeletesClaim, ClaimsOK
    <2>3. CountsOK'
      BY <1>2, Numbers DEF UserDeletesClaim, CountsOK
    <2> QED
      BY <1>2, <2>1, <2>2, <2>3 DEF UserDeletesClaim, ClaimsOK, StsOK
  <1>3. CASE StsMakesClaim
    <2>1. CopiesOK' /\ pc' = pc
      BY <1>3, QuietKeepsCopies DEF StsMakesClaim, recVars
    <2>2. [by |-> "sts", from |-> sts.template] \in ClaimValues
      <3>1. sts \in AdmittedSts
        BY <1>3 DEF StsMakesClaim, StsOK
      <3> QED
        BY <3>1 DEF AdmittedSts, StatefulSets, ClaimValues
    <2>3. claims' \in [Ordinals -> ClaimValues \cup {NoClaim}]
      BY <1>3, <2>2 DEF StsMakesClaim, ClaimsOK
    <2> QED
      BY <1>3, <2>1, <2>3 DEF StsMakesClaim, ClaimsOK, StsOK, CountsOK
  <1>4. CASE StsScalesPods
    <2>1. CopiesOK' /\ pc' = pc
      BY <1>4, QuietKeepsCopies DEF StsScalesPods, recVars
    <2>2. sts' \in AdmittedSts
      <3>1. sts \in AdmittedSts
        BY <1>4 DEF StsScalesPods, StsOK
      <3>2. sts.replicas \in Nat
        BY <3>1, Numbers DEF AdmittedSts, StatefulSets
      <3> QED
        BY <1>4, <3>1, <3>2 DEF StsScalesPods, AdmittedSts, StatefulSets
    <2>3. StsOK'
      BY <1>4, <2>2, Zenon DEF StsScalesPods, StsOK
    <2> QED
      BY <1>4, <2>1, <2>3 DEF StsScalesPods, ClaimsOK, CountsOK
  <1>5. CASE CollectSts
    <2>1. CopiesOK' /\ pc' = pc
      BY <1>5, QuietKeepsCopies DEF CollectSts, recVars
    <2>2. StsOK'
      BY <1>5, Zenon DEF CollectSts, StsOK
    <2> QED
      BY <1>5, <2>1, <2>2 DEF CollectSts, ClaimsOK, CountsOK
  <1>6. CASE NewSnapshot
    <2>1. CopiesOK' /\ pc' = pc
      BY <1>6, QuietKeepsCopies DEF NewSnapshot, recVars
    <2>2. ClaimsOK'
      BY <1>6, Numbers DEF NewSnapshot, ClaimsOK
    <2> QED
      BY <1>6, <2>1, <2>2 DEF NewSnapshot, StsOK, CountsOK
  <1>7. CASE SyncObject
    BY <1>7, QuietKeepsCopies
       DEF SyncObject, SyncDS, ownVars, ClaimsOK, StsOK, CountsOK
  <1>8. CASE SyncSts
    <2>1. CopiesOK' /\ pc' = pc
      BY <1>8, QuietKeepsCopies DEF SyncSts, recVars
    <2>2. StsOK'
      BY <1>8, Zenon DEF SyncSts, StsOK
    <2> QED
      BY <1>8, <2>1, <2>2 DEF SyncSts, ClaimsOK, CountsOK
  <1>9. CASE SyncClaims
    <2>1. CopiesOK' /\ pc' = pc
      BY <1>9, QuietKeepsCopies DEF SyncClaims, recVars
    <2> QED
      BY <1>9, <2>1 DEF SyncClaims, StoredOrdinals, ClaimsOK, StsOK, CountsOK
  <1>10. CASE SyncLatest
    <2>1. CopiesOK' /\ pc' = pc
      BY <1>10, QuietKeepsCopies DEF SyncLatest, recVars
    <2> QED
      BY <1>10, <2>1, Numbers DEF SyncLatest, ClaimsOK, StsOK, CountsOK
  <1>11. CASE RestartOperator
    <2>1. CopiesOK' /\ pc' \in RepSteps
      BY <1>11, QuietKeepsCopies DEF RestartOperator, Restart, RepSteps
    <2>2. ClaimsOK'
      BY <1>11, Numbers DEF RestartOperator, StoredOrdinals, ClaimsOK
    <2>3. StsOK'
      BY <1>11, Zenon DEF RestartOperator, StsOK
    <2>4. CountsOK'
      BY <1>11, FaultIsCounted DEF RestartOperator, CountsOK
    <2> QED
      BY <2>1, <2>2, <2>3, <2>4
  <1>12. CASE UNCHANGED repVars
    <2>1. CopiesOK' /\ pc' = pc
      BY <1>12, QuietKeepsCopies DEF repVars, recVars
    <2> QED
      BY <1>12, <2>1 DEF repVars, ownVars, ClaimsOK, StsOK, CountsOK
  <1> QED
    BY <1>1, <1>2, <1>3, <1>4, <1>5, <1>6, <1>7, <1>8, <1>9, <1>10, <1>11, <1>12

\* Every step keeps the types.
LEMMA RepTypesStep ==
    ASSUME TypeInv, [RepNext]_repVars
    PROVE  TypeInv'
  BY LoopKeepsTypes, StsStepsKeepTypes, WritesKeepTypes, ClusterKeepsTypes
     DEF RepNext, Pass, Cluster

\* The types, the agreement of the copies and the schema's limit on them.
THEOREM RepInvariant ==
    RepSpec => []TypeInv
  BY RepTypesInit, RepTypesStep, PTL DEF RepSpec

\* The claims, the StatefulSet and the handler of a DirectoryService keep their
\* types; the loop never asks for a claim that the schema does not allow.
THEOREM RepTypes ==
    RepSpec => []RepTypeOK
  <1>1. TypeInv => RepTypeOK
    <2> SUFFICES ASSUME TypeInv PROVE RepTypeOK
      OBVIOUS
    <2>1. RecTypeOK(RepObjects)
      BY AdmittedParts, Zenon DEF TypeInv, CopiesOK, RecTypeOK
    <2> QED
      BY <2>1 DEF TypeInv, ClaimsOK, StsOK, CountsOK, AdmittedSts, RepTypeOK
  <1> QED
    BY <1>1, RepInvariant, PTL

\* directoryservice_controller.go:164: r.Update of a whole object never takes
\* back what users changed, however stale the cache it was read from, since a
\* copy that is not the stored version is refused.
THEOREM SpecNeverReverted ==
    RepSpec => NoSpecReverted
  <1>1. TypeInv /\ [RepNext]_repVars
            => [ds # NoDS /\ ds' # NoDS /\ pc' # pc => ds'.spec = ds.spec]_repVars
    <2> SUFFICES ASSUME TypeInv, RepNext, ds # NoDS, ds' # NoDS, pc' # pc
                 PROVE  ds'.spec = ds.spec
      OBVIOUS
    <2>1. CASE \/ SnapshotStep \/ PasswordStep \/ UpdateObject \/ FinalStatus
               \/ Refused \/ PassFails
      BY <2>1, WritesKeepTypes
    <2>2. CASE ds' = ds
      BY <2>2
    <2>3. CASE UserChange
      BY <2>3 DEF UserChange, UserCreates, UserEdits, UserDeletes
    <2> QED
      BY <2>1, <2>2, <2>3
         DEF RepNext, Pass, Cluster, StartPass, SkipPass, ClaimExists, CreateClaim,
         ClaimsDone, CreateSts, UpdateSts, UserDeletesClaim, StsMakesClaim,
         StsScalesPods, CollectSts, NewSnapshot, SyncObject, SyncSts, SyncClaims,
         SyncLatest, RestartOperator, recVars, Load, LoadNothing, Goto, Return,
         Observe, SyncDS, Restart
  <1> QED
    BY <1>1, RepInvariant, PTL DEF RepSpec, NoSpecReverted

-----------------------------------------------------------------------------
(***************************************************************************)
(* The claims a StatefulSet asks for are there before it asks for them, as *)
(* long as no user deletes claims: the informer's list of claims, however  *)
(* old, then names no claim that is gone.                                  *)
(***************************************************************************)

\* The claims below n exist.
Made(n) == \A o \in Ordinals : o < n => claims[o] # NoClaim

ClaimsMade ==
    /\ ClaimsBeforePods
    /\ \A o \in claimCache : claims[o] # NoClaim
    /\ sts # NoSts => Made(sts.replicas)
    /\ pc = "pvc" => Made(i)
    /\ pc = "sts" => Made(my.spec.replicas)

\* A step after which all claims are as they were, and the handler is at
\* neither place that counts on them, keeps this.
LEMMA QuietKeepsClaims ==
    ASSUME TypeInv, ClaimsMade, UNCHANGED claims,
           claimCache' = claimCache \/ claimCache' = StoredOrdinals,
           sts' = sts \/ sts' = NoSts \/ (sts # NoSts /\ sts'.replicas = sts.replicas),
           \/ pc' \notin {"pvc", "sts"}
           \/ UNCHANGED <<pc, i, my>>
    PROVE  ClaimsMade'
  BY DEF ClaimsMade, Made, ClaimsBeforePods, StoredOrdinals

\* The handler's steps keep this.
LEMMA PassKeepsClaims ==
    ASSUME TypeInv, ClaimsMade, Pass
    PROVE  ClaimsMade'
  <1>1. CASE StartPass
    BY <1>1 DEF StartPass, Load, ClaimsMade, Made, ClaimsBeforePods, Ordinals
  <1>2. CASE SkipPass
    BY <1>2, QuietKeepsClaims DEF SkipPass, LoadNothing, recVars, ownVars
  <1>3. CASE ClaimExists
    <2>1. Made(i + 1)
      BY <1>3 DEF ClaimExists, At, ClaimsMade, Made, TypeInv, ClaimsOK, Ordinals
    <2> QED
      BY <1>3, <2>1 DEF ClaimExists, At, Goto, ClaimsMade, Made, ClaimsBeforePods
  <1>4. CASE CreateClaim
    <2>1. PICK from : claims' = [claims EXCEPT ![i] = [by |-> "operator", from |-> from]]
                      /\ from \in Sources
      BY <1>4, SourcesAreSources DEF CreateClaim, TypeInv
    <2>2. /\ [by |-> "operator", from |-> from] \in ClaimValues
          /\ [by |-> "operator", from |-> from] # NoClaim
      BY <2>1, NothingIsNoObject DEF ClaimValues
    <2>3. /\ \A o \in Ordinals : claims[o] # NoClaim => claims'[o] # NoClaim
          /\ i \in Ordinals => claims'[i] # NoClaim
          /\ \A o \in Ordinals : claims'[o] = claims[o] \/ claims'[o].by = "operator"
      BY <2>1, <2>2 DEF TypeInv, ClaimsOK
    <2>4. /\ UNCHANGED <<claimCache, sts>> /\ pc = "pvc" /\ i \in Nat
          /\ pc' = "idle" \/ (pc' = "pvc" /\ i' = i + 1)
      BY <1>4 DEF CreateClaim, At, Goto, Return, TypeInv, ClaimsOK
    <2>5. pc' = "pvc" => Made(i)'
      BY <2>3, <2>4 DEF ClaimsMade, Made, Ordinals
    <2>6. /\ ClaimsBeforePods'
          /\ \A o \in claimCache' : claims'[o] # NoClaim
          /\ sts' # NoSts => Made(sts.replicas)'
      BY <2>3, <2>4 DEF ClaimsMade, Made, ClaimsBeforePods, TypeInv, ClaimsOK
    <2> QED
      BY <2>4, <2>5, <2>6 DEF ClaimsMade
  <1>5. CASE ClaimsDone
    <2>1. my.spec.replicas \in Int /\ i \in Nat
      <3>1. pc # "idle"
        BY <1>5 DEF ClaimsDone, At
      <3> QED
        BY <3>1, HandlerCounts DEF TypeInv, ClaimsOK
    <2>2. Made(my.spec.replicas)
      BY <1>5, <2>1 DEF ClaimsDone, At, ClaimsMade, Made, Ordinals
    <2> QED
      BY <1>5, <2>2 DEF ClaimsDone, Goto, ClaimsMade, Made, ClaimsBeforePods
  <1>6. CASE CreateSts
    <2>1. sts'.replicas = my.spec.replicas /\ UNCHANGED <<claims, claimCache>>
      BY <1>6 DEF CreateSts
    <2>2. pc' \notin {"pvc", "sts"} /\ pc = "sts"
      BY <1>6 DEF CreateSts, At, Goto, Return
    <2> QED
      BY <2>1, <2>2 DEF ClaimsMade, Made, ClaimsBeforePods
  <1>7. CASE UpdateSts
    <2>1. /\ pc # "idle" /\ pc = "sts" /\ stsCache # NoSts
          /\ UNCHANGED <<claims, claimCache>>
          /\ sts' = sts \/ (ValidCount /\ sts' = Wanted)
      BY <1>7 DEF UpdateSts, At
    <2>2. pc' \notin {"pvc", "sts"}
      BY <1>7 DEF UpdateSts, Observe, Return
    <2>3. ValidCount => Wanted.replicas = my.spec.replicas
      BY <2>1, WantedIsAdmitted
    <2> QED
      BY <2>1, <2>2, <2>3 DEF ClaimsMade, Made, ClaimsBeforePods
  <1>8. CASE SnapshotStep
    <2>1. pc' = "ldap"
      BY <1>8, Zenon DEF SnapshotStep, Goto, WriteStatus
    <2> QED
      BY <1>8, <2>1, QuietKeepsClaims DEF SnapshotStep, ownVars
  <1>9. CASE PasswordStep
    BY <1>9, QuietKeepsClaims DEF PasswordStep, Goto, ownVars
  <1>10. CASE UpdateObject
    <2>1. pc' = "status"
      BY <1>10, Zenon DEF UpdateObject, WriteObject
    <2> QED
      BY <1>10, <2>1, QuietKeepsClaims DEF UpdateObject, ownVars
  <1>11. CASE FinalStatus
    <2>1. pc' = "idle"
      BY <1>11, Zenon DEF FinalStatus, WriteStatusAndReturn
    <2> QED
      BY <1>11, <2>1, QuietKeepsClaims DEF FinalStatus, ownVars
  <1>12. CASE Refused
    BY <1>12, QuietKeepsClaims DEF Refused, Return
  <1> QED
    BY <1>1, <1>2, <1>3, <1>4, <1>5, <1>6, <1>7, <1>8, <1>9, <1>10, <1>11, <1>12
       DEF Pass

\* So do the steps around it: the StatefulSet controller finds no claim to make.
LEMMA ClusterKeepsClaims ==
    ASSUME TypeInv, ClaimsMade, Cluster \/ UNCHANGED repVars, ~UserDeletesClaim
    PROVE  ClaimsMade'
  <1>1. CASE UserChange
    BY <1>1, QuietKeepsClaims
       DEF UserChange, UserCreates, UserEdits, UserDeletes
  <1>2. CASE StsMakesClaim
    <2>1. sts \in AdmittedSts /\ Made(sts.replicas)
      BY <1>2 DEF StsMakesClaim, TypeInv, StsOK, ClaimsMade
    <2>2. sts.replicas \in Nat /\ sts.replicas <= SchemaLimit
      BY <2>1, Numbers DEF AdmittedSts, StatefulSets
    <2>3. \A o \in 0 .. sts.replicas - 1 : claims[o] # NoClaim
      BY <2>1, <2>2, Numbers DEF Made, Ordinals
    <2> QED
      BY <1>2, <2>3 DEF StsMakesClaim
  <1>3. CASE StsScalesPods
    <2>1. sts # NoSts /\ sts'.replicas = sts.replicas
      <3>1. sts # NoSts /\ sts \in StatefulSets
        BY <1>3 DEF StsScalesPods, TypeInv, StsOK, AdmittedSts
      <3> QED
        BY <1>3, <3>1 DEF StsScalesPods, StatefulSets
    <2> QED
      BY <1>3, <2>1, QuietKeepsClaims DEF StsScalesPods, recVars
  <1>4. CASE CollectSts
    BY <1>4, QuietKeepsClaims DEF CollectSts, recVars
  <1>5. CASE NewSnapshot \/ SyncSts \/ SyncLatest \/ SyncClaims
    BY <1>5, QuietKeepsClaims DEF NewSnapshot, SyncSts, SyncLatest, SyncClaims, recVars
  <1>6. CASE SyncObject
    BY <1>6, QuietKeepsClaims DEF SyncObject, SyncDS, ownVars
  <1>7. CASE PassFails
    <2>1. pc' = "idle"
      BY <1>7, Zenon DEF PassFails, Return, WriteStatusAndReturn, WriteObjectAndReturn
    <2> QED
      BY <1>7, <2>1, QuietKeepsClaims DEF PassFails
  <1>8. CASE RestartOperator
    BY <1>8, QuietKeepsClaims DEF RestartOperator, Restart
  <1>9. CASE UNCHANGED repVars
    BY <1>9, QuietKeepsClaims DEF repVars, recVars, ownVars
  <1> QED
    BY <1>1, <1>2, <1>3, <1>4, <1>5, <1>6, <1>7, <1>8, <1>9 DEF Cluster

\* A claim that users delete is counted, and nobody else deletes one.
LEMMA DeletesCount ==
    ASSUME TypeInv, [RepNext]_repVars, claimDeletes' = 0
    PROVE  claimDeletes = 0 /\ ~UserDeletesClaim
  <1>1. claimDeletes \in Nat
    BY DEF TypeInv, CountsOK
  <1>2. ~UserDeletesClaim
    BY <1>1 DEF UserDeletesClaim
  <1>3. claimDeletes' = claimDeletes
    BY <1>2 DEF RepNext, Pass, Cluster, repVars, ownVars, StartPass, SkipPass,
       ClaimExists, CreateClaim, ClaimsDone, CreateSts, UpdateSts, SnapshotStep,
       PasswordStep, UpdateObject, FinalStatus, Refused, UserChange, StsMakesClaim,
       StsScalesPods, CollectSts, NewSnapshot, SyncObject, SyncSts, SyncClaims,
       SyncLatest, PassFails, RestartOperator
  <1> QED
    BY <1>2, <1>3

\* pvc.go:16-20, sts.go:349: while no user has deleted a claim, no claim is made
\* from the StatefulSet's template, through scaling, recreation, stale caches,
\* refused writes and faults.
THEOREM OperatorMakesClaims ==
    RepSpec => [](claimDeletes = 0 => ClaimsBeforePods)
  <1> DEFINE Inv == claimDeletes = 0 => ClaimsMade
  <1>1. RepInit => Inv
    BY DEF RepInit, ClaimsMade, ClaimsBeforePods, Made
  <1>2. TypeInv /\ Inv /\ [RepNext]_repVars => Inv'
    <2> SUFFICES ASSUME TypeInv, Inv, [RepNext]_repVars, claimDeletes' = 0
                 PROVE  ClaimsMade'
      OBVIOUS
    <2>1. ClaimsMade /\ ~UserDeletesClaim
      BY DeletesCount
    <2> QED
      BY <2>1, PassKeepsClaims, ClusterKeepsClaims DEF RepNext
  <1>3. Inv => (claimDeletes = 0 => ClaimsBeforePods)
    BY DEF ClaimsMade
  <1> HIDE DEF Inv
  <1> QED
    BY <1>1, <1>2, <1>3, RepInvariant, PTL DEF RepSpec

=============================================================================

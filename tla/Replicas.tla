------------------------------ MODULE Replicas ------------------------------
(***************************************************************************)
(* The volume claims and the StatefulSet of a DirectoryService:            *)
(* controllers/pvc.go and controllers/sts.go as steps of Reconcile, with   *)
(* the writes of the CR that end the pass, next to what else acts on the   *)
(* same objects: users (through the admission webhook), the StatefulSet    *)
(* controller and the garbage collector.                                   *)
(*                                                                         *)
(* Pods, probes, volumes and labels are left out: of a StatefulSet the     *)
(* model keeps its owner, its replica count, the images of its containers, *)
(* the data source of its claim template and its observed pod count.       *)
(***************************************************************************)
EXTENDS Reconciler, Integers, Sequences

CONSTANTS
    ReplicaCounts,    \* the values of spec.replicas users try
    Images,           \* the values of spec.podTemplate.image
    Webhooks,         \* ENABLE_WEBHOOKS
    CreateLimit,      \* the webhook's limit on creation: 6 in the code
    SchemaLimit,      \* the limit of the CRD's schema: 8 in the code
    DebugContainer,   \* debug containers are put in front of the others
    NoClaim, NoSts,   \* no such object
    MaxEdits,         \* bound: how often users change the resource
    MaxClaimDeletes,  \* bound: how often users delete a claim
    MaxSnaps,         \* bound: snapshots taken during a behaviour
    MaxFaults         \* bound: failed calls, lost answers and restarts

ASSUME ReplicasConstants ==
    /\ ReplicaCounts \subseteq Int
    /\ CreateLimit \in Nat /\ SchemaLimit \in Nat
    /\ Webhooks \in BOOLEAN /\ DebugContainer \in BOOLEAN
    /\ MaxEdits \in Nat /\ MaxClaimDeletes \in Nat /\ MaxSnaps \in Nat
    /\ MaxFaults \in Nat

VARIABLES
    i,                \* the index of the loop over the claims
    claims,           \* the stored claims, by ordinal
    claimCache,       \* the ordinals whose claims the informer shows
    sts,              \* the stored StatefulSet
    stsCache,         \* the informer's copy of it
    stsFresh,         \* the copy is the stored version
    latest,           \* the number of the newest snapshot, 0: there is none
    latestCache,      \* the newest one the informer shows
    edits, claimDeletes, faults

ownVars == <<i, claims, claimCache, sts, stsCache, stsFresh, latest,
             latestCache, edits, claimDeletes, faults>>
repVars == <<recVars, ownVars>>

Blank == 0            \* no data source: an empty volume
Unset == -1           \* status.currentReplicas has never been stored
Sources == Blank .. MaxSnaps
Ordinals == 0 .. SchemaLimit - 1
Births == 0 .. MaxEdits
RepSpecs == [replicas : ReplicaCounts, image : Images, latest : BOOLEAN]
RepStatuses == [current : {Unset} \cup Nat]
RepObjects == Objects(RepSpecs, RepStatuses, Births)
ClaimValues == [by : {"operator", "sts"}, from : Sources]
StatefulSets ==
    [owner : Births, replicas : ReplicaCounts \cap Nat, images : Seq(Images),
     template : Sources, current : Nat]

ASSUME NothingIsNoObject == NoDS \notin RepObjects /\ NoClaim \notin ClaimValues

RepInit ==
    /\ pc = "idle"
    /\ ds = NoDS /\ dsCache = NoDS /\ cacheFresh = TRUE
    /\ my = NoDS /\ myFresh = FALSE
    /\ i = 0
    /\ claims = [o \in Ordinals |-> NoClaim] /\ claimCache = {}
    /\ sts = NoSts /\ stsCache = NoSts /\ stsFresh = TRUE
    /\ latest = 0 /\ latestCache = 0
    /\ edits = 0 /\ claimDeletes = 0 /\ faults = 0

\* Something goes wrong that no step of the system asked for.
Fault ==
    /\ faults < MaxFaults
    /\ faults' = faults + 1

-----------------------------------------------------------------------------
(***************************************************************************)
(* The handler.                                                            *)
(***************************************************************************)

\* Reconcile, up to the loop over the claims.
StartPass ==
    /\ Load("pvc")
    /\ i' = 0
    /\ UNCHANGED <<claims, claimCache, sts, stsCache, stsFresh, latest,
                   latestCache, edits, claimDeletes, faults>>

\* Reconcile of a resource that is gone.
SkipPass ==
    /\ LoadNothing
    /\ UNCHANGED ownVars

\* setVolumeClaimTemplateFromSnapshot: "$(latest)" stands for the newest
\* snapshot the cache shows, for an empty volume when there is none or the
\* list fails.
SourcesFor(spec) == IF spec.latest THEN {Blank, latestCache} ELSE {Blank}

\* CreateOrUpdate of claim i when the cache shows it: claims are immutable,
\* nothing is changed.
ClaimExists ==
    /\ At("pvc") /\ i < my.spec.replicas
    /\ i \in claimCache
    /\ i' = i + 1
    /\ Goto("pvc")
    /\ UNCHANGED <<claims, claimCache, sts, stsCache, stsFresh, latest,
                   latestCache, edits, claimDeletes, faults>>

\* CreateOrUpdate of claim i when the cache does not show it.  The answer may
\* be lost, which ends the pass like an error.
CreateClaim ==
    /\ At("pvc") /\ i < my.spec.replicas
    /\ i \notin claimCache
    /\ claims[i] = NoClaim
    /\ \E from \in SourcesFor(my.spec) :
          claims' = [claims EXCEPT ![i] = [by |-> "operator", from |-> from]]
    /\ \/ i' = i + 1 /\ Goto("pvc") /\ UNCHANGED faults
       \/ i' = 0 /\ Return /\ Fault
    /\ UNCHANGED <<claimCache, sts, stsCache, stsFresh, latest, latestCache,
                   edits, claimDeletes>>

\* Mutant of ClaimsDone: the loop ends one claim early.
ClaimsDoneEarly ==
    /\ At("pvc") /\ i >= my.spec.replicas - 1
    /\ i' = 0
    /\ Goto("sts")
    /\ UNCHANGED <<claims, claimCache, sts, stsCache, stsFresh, latest,
                   latestCache, edits, claimDeletes, faults>>

\* The claims are there; reconcileSecrets comes next and touches none of this.
ClaimsDone ==
    /\ At("pvc") /\ i >= my.spec.replicas
    /\ i' = 0
    /\ Goto("sts")
    /\ UNCHANGED <<claims, claimCache, sts, stsCache, stsFresh, latest,
                   latestCache, edits, claimDeletes, faults>>

\* The images of a new StatefulSet's containers, in order: debug containers
\* are put before the directory server.
ContainerImages(image) ==
    IF DebugContainer THEN <<image, image>> ELSE <<image>>

\* The API server refuses a StatefulSet with a negative replica count.
ValidCount == my.spec.replicas >= 0

\* createDSStatefulSet; the API server refuses a second one (stale cache).
CreateSts ==
    /\ At("sts") /\ ValidCount
    /\ stsCache = NoSts
    /\ sts = NoSts
    /\ \E from \in SourcesFor(my.spec) :
          sts' = [owner |-> my.born, replicas |-> my.spec.replicas,
                  images |-> ContainerImages(my.spec.image),
                  template |-> from, current |-> 0]
    /\ stsFresh' = FALSE
    /\ \/ Goto("snap") /\ UNCHANGED faults
       \/ Return /\ Fault
    /\ UNCHANGED <<i, claims, claimCache, stsCache, latest, latestCache, edits,
                   claimDeletes>>

\* Mutants of Wanted: the image is not updated; the replica count is taken
\* from the status.
WantedOldImage == [stsCache EXCEPT !.replicas = my.spec.replicas]

WantedFromStatus ==
    [stsCache EXCEPT !.replicas = my.status.current,
                     !.images[1] = my.spec.image]

\* updateDSStatefulSet: replicas and the image of the first container.
Wanted ==
    [stsCache EXCEPT !.replicas = my.spec.replicas,
                     !.images[1] = my.spec.image]

\* The update path: the handler's status takes the observed pod count, and
\* CreateOrUpdate sends the object only if the mutation changed it (a copy
\* that is out of date is refused; a lost answer ends the pass).
UpdateSts ==
    /\ At("sts")
    /\ stsCache # NoSts
    /\ \/ /\ Wanted = stsCache
          /\ UNCHANGED <<sts, stsFresh>>
       \/ /\ Wanted # stsCache
          /\ stsFresh /\ ValidCount
          /\ sts' = Wanted
          /\ stsFresh' = FALSE
    /\ \/ Observe([current |-> stsCache.current], "snap") /\ UNCHANGED faults
       \/ Return /\ Fault
    /\ UNCHANGED <<i, claims, claimCache, stsCache, latest, latestCache, edits,
                   claimDeletes>>

\* The snapshot step in between: it may write the status (a snapshot or the
\* first time stamp is recorded) or not (nothing due, or not enabled).
SnapshotStep ==
    /\ At("snap")
    /\ Goto("ldap") \/ WriteStatus(my.status, "ldap")
    /\ UNCHANGED ownVars

\* LDAP connection and passwords.
PasswordStep ==
    /\ At("ldap")
    /\ Goto("update")
    /\ UNCHANGED ownVars

\* r.Update.  Decoding the answer overwrites the status of the handler's copy
\* with the stored one, field by field: a field that was never stored is
\* absent from the answer and keeps its value.
UpdateObject ==
    /\ At("update")
    /\ WriteObject(IF ds.status.current = Unset THEN my.status ELSE ds.status,
                   "status")
    /\ UNCHANGED ownVars

\* The final r.Status().Update.
FinalStatus ==
    /\ At("status")
    /\ WriteStatusAndReturn(my.status)
    /\ myFresh => ds'.status = my.status
    /\ UNCHANGED ownVars

\* The API server refuses a create of what exists, an update from a copy that is
\* out of date and a negative replica count, and the pass ends.
Refused ==
    /\ \/ /\ At("pvc") /\ i < my.spec.replicas
          /\ i \notin claimCache /\ claims[i] # NoClaim
       \/ At("sts") /\ stsCache = NoSts /\ sts # NoSts
       \/ At("sts") /\ stsCache # NoSts /\ Wanted # stsCache /\ ~stsFresh
       \/ At("sts") /\ ~ValidCount
       \/ pc \in {"snap", "update"} /\ ~myFresh
    /\ Return
    /\ i' = 0
    /\ UNCHANGED <<claims, claimCache, sts, stsCache, stsFresh, latest,
                   latestCache, edits, claimDeletes, faults>>

\* Any call answers with an error, its effect lost or only its answer.
PassFails ==
    /\ \/ pc \in {"pvc", "sts", "ldap"} /\ Return
       \/ pc \in {"snap", "status"} /\ WriteStatusAndReturn(my.status)
       \/ pc = "update" /\ WriteObjectAndReturn
    /\ Fault
    /\ i' = 0
    /\ UNCHANGED <<claims, claimCache, sts, stsCache, stsFresh, latest,
                   latestCache, edits, claimDeletes>>

-----------------------------------------------------------------------------
(***************************************************************************)
(* The environment.                                                        *)
(***************************************************************************)

\* The checks of the schema, which sets no minimum, and of the webhook on
\* creation.
AdmitCreate(spec) ==
    /\ spec.replicas <= SchemaLimit
    /\ Webhooks => spec.replicas <= CreateLimit

\* ValidateUpdate checks nothing.
AdmitUpdate(spec) == spec.replicas <= SchemaLimit

UserChange ==
    /\ edits < MaxEdits
    /\ edits' = edits + 1
    /\ \/ \E s \in RepSpecs :
            \/ AdmitCreate(s) /\ UserCreates(s, [current |-> Unset], edits)
            \/ AdmitUpdate(s) /\ UserEdits(s)
       \/ UserDeletes
    /\ UNCHANGED <<i, claims, claimCache, sts, stsCache, stsFresh, latest,
                   latestCache, claimDeletes, faults>>

\* kubectl delete pvc, of a claim that neither the resource nor the StatefulSet
\* asks for and no pod uses: after scaling down, or to roll back (README.md:162).
UserDeletesClaim ==
    /\ claimDeletes < MaxClaimDeletes
    /\ claimDeletes' = claimDeletes + 1
    /\ \E o \in Ordinals :
        /\ claims[o] # NoClaim
        /\ ds # NoDS => o >= ds.spec.replicas
        /\ sts # NoSts => o >= sts.replicas /\ o >= sts.current
        /\ claims' = [claims EXCEPT ![o] = NoClaim]
    /\ UNCHANGED <<recVars, i, claimCache, sts, stsCache, stsFresh, latest,
                   latestCache, edits, faults>>

\* The StatefulSet controller makes the claims it misses from its template...
StsMakesClaim ==
    /\ sts # NoSts
    /\ \E o \in 0 .. sts.replicas - 1 :
        /\ claims[o] = NoClaim
        /\ claims' = [claims EXCEPT ![o] = [by |-> "sts", from |-> sts.template]]
    /\ UNCHANGED <<recVars, i, claimCache, sts, stsCache, stsFresh, latest,
                   latestCache, edits, claimDeletes, faults>>

\* ... and runs the pods.
StsScalesPods ==
    /\ sts # NoSts
    /\ sts.current # sts.replicas
    /\ \A o \in 0 .. sts.replicas - 1 : claims[o] # NoClaim
    /\ sts' = [sts EXCEPT !.current = sts.replicas]
    /\ stsFresh' = FALSE
    /\ UNCHANGED <<recVars, i, claims, claimCache, stsCache, latest,
                   latestCache, edits, claimDeletes, faults>>

\* The garbage collector removes a StatefulSet whose owner is gone.
CollectSts ==
    /\ sts # NoSts
    /\ ds # NoDS => ds.born # sts.owner
    /\ sts' = NoSts
    /\ stsFresh' = FALSE
    /\ UNCHANGED <<recVars, i, claims, claimCache, stsCache, latest,
                   latestCache, edits, claimDeletes, faults>>

\* A snapshot is taken.
NewSnapshot ==
    /\ latest < MaxSnaps
    /\ latest' = latest + 1
    /\ UNCHANGED <<recVars, i, claims, claimCache, sts, stsCache, stsFresh,
                   latestCache, edits, claimDeletes, faults>>

StoredOrdinals == {o \in Ordinals : claims[o] # NoClaim}

\* The watches.
SyncObject ==
    /\ SyncDS
    /\ UNCHANGED ownVars

SyncSts ==
    /\ ~stsFresh
    /\ stsCache' = sts
    /\ stsFresh' = TRUE
    /\ UNCHANGED <<recVars, i, claims, claimCache, sts, latest, latestCache,
                   edits, claimDeletes, faults>>

SyncClaims ==
    /\ claimCache # StoredOrdinals
    /\ claimCache' = StoredOrdinals
    /\ UNCHANGED <<recVars, i, claims, sts, stsCache, stsFresh, latest,
                   latestCache, edits, claimDeletes, faults>>

SyncLatest ==
    /\ latestCache # latest
    /\ latestCache' = latest
    /\ UNCHANGED <<recVars, i, claims, claimCache, sts, stsCache, stsFresh,
                   latest, edits, claimDeletes, faults>>

\* The operator's process ends and is started again.
RestartOperator ==
    /\ Restart
    /\ i' = 0
    /\ claimCache' = StoredOrdinals
    /\ stsCache' = sts /\ stsFresh' = TRUE
    /\ latestCache' = latest
    /\ Fault
    /\ UNCHANGED <<claims, sts, latest, edits, claimDeletes>>

-----------------------------------------------------------------------------
Pass ==
    \/ StartPass \/ SkipPass
    \/ ClaimExists \/ CreateClaim \/ ClaimsDone
    \/ CreateSts \/ UpdateSts
    \/ SnapshotStep \/ PasswordStep \/ UpdateObject \/ FinalStatus
    \/ Refused

Cluster ==
    \/ UserChange \/ UserDeletesClaim
    \/ StsMakesClaim \/ StsScalesPods \/ CollectSts \/ NewSnapshot
    \/ SyncObject \/ SyncSts \/ SyncClaims \/ SyncLatest
    \/ PassFails \/ RestartOperator

RepNext == Pass \/ Cluster
RepSpec == RepInit /\ [][RepNext]_repVars

\* The watches deliver, the cluster's controllers run, and a pass goes on to
\* its end and is followed by the next one.
RepFairness ==
    /\ WF_repVars(SyncObject) /\ WF_repVars(SyncSts) /\ WF_repVars(SyncClaims)
    /\ WF_repVars(StsMakesClaim) /\ WF_repVars(StsScalesPods)
    /\ WF_repVars(CollectSts)
    /\ WF_repVars(Pass)

RepFairSpec == RepSpec /\ RepFairness

-----------------------------------------------------------------------------
(***************************************************************************)
(* Properties.                                                             *)
(***************************************************************************)

RepSteps == {"idle", "pvc", "sts", "snap", "ldap", "update", "status"}

\* Types; outside a pass the loop index is 0 and the handler holds nothing.
RepTypeOK ==
    /\ pc \in RepSteps
    /\ RecTypeOK(RepObjects)
    /\ i \in 0 .. SchemaLimit
    /\ claims \in [Ordinals -> ClaimValues \cup {NoClaim}]
    /\ claimCache \subseteq Ordinals
    /\ sts \in StatefulSets \cup {NoSts}
    /\ stsCache \in StatefulSets \cup {NoSts}
    /\ stsFresh \in BOOLEAN
    /\ latest \in 0 .. MaxSnaps /\ latestCache \in 0 .. latest
    /\ edits \in 0 .. MaxEdits /\ claimDeletes \in 0 .. MaxClaimDeletes
    /\ faults \in 0 .. MaxFaults

\* pvc.go:16-20, sts.go:349: "the PVC is pre-created before the template takes
\* effect".  No claim is ever made from the StatefulSet's template.
ClaimsBeforePods ==
    \A o \in Ordinals : claims[o] # NoClaim => claims[o].by = "operator"

\* directoryservice_controller.go:164: the r.Update of a whole object that was
\* read earlier never takes back what a user changed in the meantime.
NoSpecReverted ==
    [][ ds # NoDS /\ ds' # NoDS /\ pc' # pc => ds'.spec = ds.spec ]_repVars

\* A StatefulSet follows its DirectoryService.
Converged ==
    ds # NoDS =>
        /\ sts # NoSts
        /\ sts.owner = ds.born
        /\ sts.replicas = ds.spec.replicas
        /\ sts.images[Len(sts.images)] = ds.spec.image

\* sts.go:57-77, DEVELOPMENT.md:78: once users are done the StatefulSet is the
\* one the resource asks for, through deletions, collections, conflicts and
\* counts that no StatefulSet can have, unless they leave such a count.
EventuallyConverged ==
    <>[](ds # NoDS => ds.spec.replicas >= 0) => <>[]Converged

=============================================================================

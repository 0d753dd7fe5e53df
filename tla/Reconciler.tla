----------------------------- MODULE Reconciler -----------------------------
(***************************************************************************)
(* What every step of DirectoryServiceReconciler.Reconcile works on: the   *)
(* stored DirectoryService, the informer's cached copy that r.Get reads,   *)
(* and the in-memory object "ds" the handler carries from step to step.    *)
(*                                                                         *)
(* Resource versions are abstracted to the only question the API server    *)
(* asks of them: is this copy the stored version?  cacheFresh says so of   *)
(* the cached copy and myFresh of the handler's copy.  A write that        *)
(* changes the object makes every other copy stale; a write that changes   *)
(* nothing keeps the version; a write by a stale copy is refused.          *)
(*                                                                         *)
(* One worker runs per controller (the controller-runtime default), so     *)
(* there is one handler and pc is its program counter.                     *)
(***************************************************************************)

CONSTANT NoDS                \* the value of a copy when there is no object

VARIABLES
    pc,                      \* the step of Reconcile about to run
    ds,                      \* the stored DirectoryService, or NoDS
    dsCache, cacheFresh,     \* the informer's copy of it
    my, myFresh              \* the handler's variable ds

recVars == <<pc, ds, dsCache, cacheFresh, my, myFresh>>

(***************************************************************************)
(* The objects a DirectoryService can be, given the sets of its parts.     *)
(* "born" is its metadata.creationTimestamp.                               *)
(***************************************************************************)
Objects(Specs, Statuses, Times) ==
    [spec : Specs, status : Statuses, born : Times]

At(step) == pc = step

-----------------------------------------------------------------------------
(***************************************************************************)
(* Steps of the handler.                                                   *)
(***************************************************************************)

\* A step that touches no copy of the DirectoryService.
Goto(step) ==
    /\ pc' = step
    /\ UNCHANGED <<ds, dsCache, cacheFresh, my, myFresh>>

\* A step that only assigns to the status of the handler's copy.
Observe(status, step) ==
    /\ pc' = step
    /\ my' = [my EXCEPT !.status = status]
    /\ UNCHANGED <<ds, dsCache, cacheFresh, myFresh>>

\* r.Get: the handler starts from whatever the cache holds.
Load(step) ==
    /\ At("idle")
    /\ dsCache # NoDS
    /\ my' = dsCache
    /\ myFresh' = cacheFresh
    /\ pc' = step
    /\ UNCHANGED <<ds, dsCache, cacheFresh>>

\* r.Get finds nothing: Reconcile returns at once.
LoadNothing ==
    /\ At("idle")
    /\ dsCache = NoDS
    /\ UNCHANGED recVars

\* Reconcile returns, with or without an error: the object is dropped and the
\* request is queued again (rate limited, or after 60 or 90 seconds).
Return ==
    /\ pc' = "idle"
    /\ my' = NoDS
    /\ myFresh' = FALSE
    /\ UNCHANGED <<ds, dsCache, cacheFresh>>

\* r.Status().Update: the API server takes the status of the handler's copy
\* and ignores the rest.  "other" says that a field the model leaves out
\* changed too, which is enough for a new version.
WriteStatus(status, step) ==
    /\ myFresh
    /\ ds' = [ds EXCEPT !.status = status]
    /\ my' = [my EXCEPT !.status = status]
    /\ \E other \in BOOLEAN :
          cacheFresh' = (cacheFresh /\ ds' = ds /\ ~other)
    /\ pc' = step
    /\ UNCHANGED <<dsCache, myFresh>>

\* Mutant of WriteObject: no resourceVersion is sent.
WriteObjectUnversioned(decoded, step) ==
    /\ ds # NoDS
    /\ ds' = [ds EXCEPT !.spec = my.spec]
    /\ my' = [my EXCEPT !.status = decoded]
    /\ cacheFresh' = (cacheFresh /\ ds' = ds)
    /\ pc' = step
    /\ UNCHANGED <<dsCache, myFresh>>

\* r.Update: the API server takes spec and metadata and ignores the status;
\* its answer, the stored object, is decoded over the handler's copy, whose
\* status becomes "decoded".
WriteObject(decoded, step) ==
    /\ myFresh
    /\ ds' = [ds EXCEPT !.spec = my.spec]
    /\ my' = [my EXCEPT !.status = decoded]
    /\ \E other \in BOOLEAN :
          cacheFresh' = (cacheFresh /\ ds' = ds /\ ~other)
    /\ pc' = step
    /\ UNCHANGED <<dsCache, myFresh>>

\* A write that ends the pass, whatever the answer.  It was refused (a
\* conflict, a missing object, an unreachable server), or it was applied and
\* answered, or it was applied and the answer was lost.
WriteStatusAndReturn(status) ==
    /\ \/ UNCHANGED <<ds, cacheFresh>>
       \/ /\ myFresh
          /\ ds' = [ds EXCEPT !.status = status]
          /\ \E other \in BOOLEAN :
                cacheFresh' = (cacheFresh /\ ds' = ds /\ ~other)
    /\ pc' = "idle"
    /\ my' = NoDS
    /\ myFresh' = FALSE
    /\ UNCHANGED dsCache

WriteObjectAndReturn ==
    /\ \/ UNCHANGED <<ds, cacheFresh>>
       \/ /\ myFresh
          /\ ds' = [ds EXCEPT !.spec = my.spec]
          /\ \E other \in BOOLEAN :
                cacheFresh' = (cacheFresh /\ ds' = ds /\ ~other)
    /\ pc' = "idle"
    /\ my' = NoDS
    /\ myFresh' = FALSE
    /\ UNCHANGED dsCache

-----------------------------------------------------------------------------
(***************************************************************************)
(* Steps of the environment.                                               *)
(***************************************************************************)

\* kubectl create / apply of a new object: its status is dropped.
UserCreates(spec, status, time) ==
    /\ ds = NoDS
    /\ ds' = [spec |-> spec, status |-> status, born |-> time]
    /\ cacheFresh' = FALSE
    /\ UNCHANGED <<pc, dsCache, my, myFresh>>

\* kubectl edit / apply of the spec.  Fields outside the model may
\* be all that changes.
UserEdits(spec) ==
    /\ ds # NoDS
    /\ ds' = [ds EXCEPT !.spec = spec]
    /\ cacheFresh' = FALSE
    /\ myFresh' = FALSE
    /\ UNCHANGED <<pc, dsCache, my>>

\* kubectl delete: no finalizer, so the object goes at once.
UserDeletes ==
    /\ ds # NoDS
    /\ ds' = NoDS
    /\ cacheFresh' = FALSE
    /\ myFresh' = FALSE
    /\ UNCHANGED <<pc, dsCache, my>>

\* The watch brings the cached copy up to date.
SyncDS ==
    /\ ~cacheFresh
    /\ dsCache' = ds
    /\ cacheFresh' = TRUE
    /\ UNCHANGED <<pc, ds, my, myFresh>>

\* The operator process dies between two steps (or panics) and a new one
\* starts, whose caches are filled before its controllers run.
Restart ==
    /\ pc' = "idle"
    /\ my' = NoDS
    /\ myFresh' = FALSE
    /\ dsCache' = ds
    /\ cacheFresh' = TRUE
    /\ UNCHANGED ds

-----------------------------------------------------------------------------
(***************************************************************************)
(* What the copies have in common at every moment.                         *)
(***************************************************************************)

\* Types; the handler holds an object while a pass runs.
RecTypeOK(Obj) ==
    /\ ds \in Obj \cup {NoDS}
    /\ dsCache \in Obj \cup {NoDS}
    /\ my \in Obj \cup {NoDS}
    /\ cacheFresh \in BOOLEAN
    /\ myFresh \in BOOLEAN
    /\ pc # "idle" => my \in Obj

\* A copy whose version is the stored one equals the stored object: this is
\* what the two Booleans abstract from the resource versions.
CopiesAgree ==
    /\ cacheFresh => dsCache = ds
    /\ myFresh => my = ds /\ ds # NoDS

=============================================================================

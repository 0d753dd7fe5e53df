----------------------------- MODULE Snapshots -----------------------------
(***************************************************************************)
(* The scheduled volume snapshots of a DirectoryService:                   *)
(* controllers/snapshots.go, run as one step of every Reconcile, with the  *)
(* writes of the CR and of its status that end the pass.                   *)
(*                                                                         *)
(* A pass works on two copies that may lag behind the API server: the      *)
(* DirectoryService it loaded (Reconciler) and the informer's list of      *)
(* snapshots.  Users edit, delete and recreate the resource, the process   *)
(* restarts, and any API call may fail, between any two steps.             *)
(***************************************************************************)
EXTENDS Reconciler, Integers, FiniteSets

CONSTANTS
    Minute,           \* clock units in a minute: 60 in the code
    HalfRange,        \* int32 ranges over -HalfRange..HalfRange-1
    Periods,          \* the values of spec.snapshots.periodMinutes
    RetainedCounts,   \* the values of spec.snapshots.snapshotsRetained
    Floor,            \* a lower bound of RetainedCounts
    OnePerSecond,     \* TRUE: no two snapshots are stamped with one time
    MaxClock,         \* bound: the last time of a behaviour
    MaxEdits          \* bound: how often users change the resource

ASSUME SnapConstants ==
    /\ Minute \in Nat \ {0}
    /\ HalfRange \in Nat \ {0}
    /\ Periods \subseteq Int
    /\ RetainedCounts \subseteq Int
    /\ Floor \in Int
    /\ \A r \in RetainedCounts : r >= Floor
    /\ OnePerSecond \in BOOLEAN
    /\ MaxClock \in Nat \ {0}
    /\ MaxEdits \in Nat

VARIABLES
    clock,            \* time.Now().Unix(), one clock for the whole cluster
    snaps,            \* the VolumeSnapshots that carry the labels and have
                      \*   not been deleted
    snapCache,        \* the informer's copy of them; also one that is being
                      \*   deleted, for as long as a finalizer holds it
    now,              \* the handler's variable now (0: not read)
    victims,          \* the snapshots the prune loop has yet to delete
    edits             \* how many times users changed the resource

snapVars == <<clock, snaps, snapCache, now, victims, edits>>
allVars == <<recVars, snapVars>>

Times == 1 .. MaxClock
SnapSpecs == [enabled : BOOLEAN, period : Periods, retained : RetainedCounts]
SnapStatuses == [last : {0} \cup Times]
DSObjects == Objects(SnapSpecs, SnapStatuses, Times)

ASSUME NoDSIsNoObject == NoDS \notin DSObjects

\* A snapshot is named after the time the handler read and carries the
\* creationTimestamp the API server gave it.
VolumeSnapshots == [name : Times, created : Times]

Names(S) == {s.name : s \in S}
Newer(x, S) == {y \in S : y.created > x.created}

\* Go's int32 arithmetic wraps around.
Int32(x) == ((x + HalfRange) % (2 * HalfRange)) - HalfRange

\* The 32-bit product is widened only after it has been computed.
Deadline(o) == o.status.last + Int32(o.spec.period * Minute)

-----------------------------------------------------------------------------
SnapInit ==
    /\ pc = "idle"
    /\ ds = NoDS /\ dsCache = NoDS /\ cacheFresh = TRUE
    /\ my = NoDS /\ myFresh = FALSE
    /\ clock = 1
    /\ snaps = {} /\ snapCache = {}
    /\ now = 0
    /\ victims = {}
    /\ edits = 0

-----------------------------------------------------------------------------
(***************************************************************************)
(* The handler.                                                            *)
(***************************************************************************)

\* Reconcile up to the snapshot step: the steps before it touch neither the
\* CR nor a snapshot (an error of theirs ends the pass without effect).
StartReconcile ==
    /\ Load("check")
    /\ UNCHANGED snapVars

\* Snapshots are not enabled.
SkipDisabled ==
    /\ At("check")
    /\ ~my.spec.enabled
    /\ Goto("ldap")
    /\ UNCHANGED snapVars

\* Mutant of SkipFirst: the first snapshot is taken at once.
TakeFirst ==
    /\ At("check")
    /\ my.spec.enabled
    /\ my.status.last = 0
    /\ now' = clock
    /\ Goto("create")
    /\ UNCHANGED <<clock, snaps, snapCache, victims, edits>>

\* The time stamp is 0: no snapshot yet, only the time is to be recorded.
SkipFirst ==
    /\ At("check")
    /\ my.spec.enabled
    /\ my.status.last = 0
    /\ now' = clock
    /\ Goto("first")
    /\ UNCHANGED <<clock, snaps, snapCache, victims, edits>>

\* The deadline has not passed.
SkipEarly ==
    /\ At("check")
    /\ my.spec.enabled
    /\ my.status.last # 0
    /\ clock < Deadline(my)
    /\ Goto("ldap")
    /\ UNCHANGED snapVars

\* Mutants of SnapshotDue: the deadline is one unit too early; the time is not
\* taken.
SnapshotDueEarly ==
    /\ At("check")
    /\ my.spec.enabled
    /\ my.status.last # 0
    /\ clock >= Deadline(my) - 1
    /\ now' = clock
    /\ Goto("create")
    /\ UNCHANGED <<clock, snaps, snapCache, victims, edits>>

SnapshotDueUntimed ==
    /\ At("check")
    /\ my.spec.enabled
    /\ my.status.last # 0
    /\ clock >= Deadline(my)
    /\ Goto("create")
    /\ UNCHANGED snapVars

\* The deadline has passed.
SnapshotDue ==
    /\ At("check")
    /\ my.spec.enabled
    /\ my.status.last # 0
    /\ clock >= Deadline(my)
    /\ now' = clock
    /\ Goto("create")
    /\ UNCHANGED <<clock, snaps, snapCache, victims, edits>>

\* r.Status().Update after a skipped first snapshot.
RecordFirst ==
    /\ At("first")
    /\ WriteStatus([last |-> now], "ldap")
    /\ now' = 0
    /\ UNCHANGED <<clock, snaps, snapCache, victims, edits>>

\* ctrl.CreateOrUpdate of the snapshot named after now.  A snapshot of that
\* name that the cache shows is left alone, one it does not show yet makes
\* the create fail; this and every other error is logged and forgotten.
CreateSnapshot ==
    /\ At("create")
    /\ \/ /\ now \notin Names(snaps \cup snapCache)
          /\ OnePerSecond => \A s \in snaps \cup snapCache : s.created < clock
          /\ snaps' = snaps \cup {[name |-> now, created |-> clock]}
       \/ snaps' = snaps
    /\ Goto("record")
    /\ UNCHANGED <<clock, snapCache, now, victims, edits>>

\* Mutant of RecordSnapshot: the time stamp is not assigned before the update.
RecordNothing ==
    /\ At("record")
    /\ WriteStatus(my.status, "list")
    /\ now' = 0
    /\ UNCHANGED <<clock, snaps, snapCache, victims, edits>>

\* r.Status().Update with the new time stamp.
RecordSnapshot ==
    /\ At("record")
    /\ WriteStatus([last |-> now], "list")
    /\ now' = 0
    /\ UNCHANGED <<clock, snaps, snapCache, victims, edits>>

\* Either status write answers with an error, which ends the pass.
RecordFails ==
    /\ pc \in {"first", "record"}
    /\ WriteStatusAndReturn([last |-> now])
    /\ now' = 0
    /\ UNCHANGED <<clock, snaps, snapCache, victims, edits>>

\* Mutants of Oldest: the loop runs one turn too far; the list is sorted the
\* other way.
OldestAndOneMore(L, retained) ==
    {V \in SUBSET L :
        /\ Cardinality(V) = IF Cardinality(L) >= retained
                            THEN Cardinality(L) - retained + 1 ELSE 0
        /\ \A v \in V : \A y \in L \ V : v.created <= y.created}

Newest(L, retained) ==
    {V \in SUBSET L :
        /\ Cardinality(V) = IF Cardinality(L) > retained
                            THEN Cardinality(L) - retained ELSE 0
        /\ \A v \in V : \A y \in L \ V : v.created >= y.created}

\* The snapshots to delete from a list L sorted by creation time when the last
\* "retained" are kept: the first ones, where the order of snapshots of one
\* time is arbitrary.  A negative count asks for more than there are.
Oldest(L, retained) ==
    {V \in SUBSET L :
        /\ Cardinality(V) = IF retained < 0 THEN Cardinality(L)
                            ELSE IF Cardinality(L) > retained
                                 THEN Cardinality(L) - retained ELSE 0
        /\ \A v \in V : \A y \in L \ V : v.created <= y.created}

\* getSnapshotList: the sorted list, from the cache.
ListSnapshots ==
    /\ At("list")
    /\ victims' \in Oldest(snapCache, my.spec.retained)
    /\ Goto("prune")
    /\ UNCHANGED <<clock, snaps, snapCache, now, edits>>

\* The list fails, or the LDAP server cannot be reached or refuses a password:
\* the pass ends here.
EndPass ==
    /\ pc \in {"list", "ldap"}
    /\ Return
    /\ UNCHANGED snapVars

\* One turn of the prune loop: r.Client.Delete by name, oldest first, errors
\* (also: it is gone already) ignored.
PruneOne ==
    /\ At("prune")
    /\ \E v \in victims :
        /\ \A w \in victims : v.created <= w.created
        /\ snaps' \in {snaps, {s \in snaps : s.name # v.name}}
        /\ victims' = victims \ {v}
    /\ Goto("prune")
    /\ UNCHANGED <<clock, snapCache, now, edits>>

\* The loop ends; with a negative count it runs past the end of the list, and
\* the panic ends the process.
PruneDone ==
    /\ At("prune")
    /\ victims = {}
    /\ \/ /\ my.spec.retained >= 0
          /\ Goto("ldap")
          /\ UNCHANGED snapVars
       \/ /\ my.spec.retained < 0
          /\ Restart
          /\ snapCache' = snaps
          /\ UNCHANGED <<clock, snaps, now, victims, edits>>

\* The LDAP steps succeed; they may stamp an annotation on the object.
LdapDone ==
    /\ At("ldap")
    /\ Goto("update")
    /\ UNCHANGED snapVars

\* r.Update of the CR.
UpdateCR ==
    /\ At("update")
    /\ WriteObject(ds.status, "status")
    /\ UNCHANGED snapVars

\* r.Update answers with an error.
UpdateCRFails ==
    /\ At("update")
    /\ WriteObjectAndReturn
    /\ UNCHANGED snapVars

\* The last r.Status().Update of a pass, and the return.
UpdateStatus ==
    /\ At("status")
    /\ WriteStatusAndReturn(my.status)
    /\ UNCHANGED snapVars

-----------------------------------------------------------------------------
(***************************************************************************)
(* The environment.                                                        *)
(***************************************************************************)

Tick ==
    /\ clock < MaxClock
    /\ clock' = clock + 1
    /\ UNCHANGED <<recVars, snaps, snapCache, now, victims, edits>>

UserStep ==
    /\ edits < MaxEdits
    /\ edits' = edits + 1
    /\ \/ \E s \in SnapSpecs :
            UserCreates(s, [last |-> 0], clock) \/ UserEdits(s)
       \/ UserDeletes
    /\ UNCHANGED <<clock, snaps, snapCache, now, victims>>

SyncCR ==
    /\ SyncDS
    /\ UNCHANGED snapVars

\* The watch delivers one event: a new snapshot, in the order of creation, or
\* the deletion of one.
SyncSnapshot ==
    /\ \/ \E s \in snaps \ snapCache :
            /\ \A u \in snaps \ snapCache : s.created <= u.created
            /\ snapCache' = snapCache \cup {s}
       \/ \E s \in snapCache \ snaps : snapCache' = snapCache \ {s}
    /\ UNCHANGED <<recVars, clock, snaps, now, victims, edits>>

\* The operator's process ends at any point and is started again.
Crash ==
    /\ Restart
    /\ snapCache' = snaps
    /\ now' = 0
    /\ victims' = {}
    /\ UNCHANGED <<clock, snaps, edits>>

-----------------------------------------------------------------------------
Handler ==
    \/ StartReconcile
    \/ SkipDisabled \/ SkipFirst \/ SkipEarly \/ SnapshotDue
    \/ RecordFirst \/ CreateSnapshot \/ RecordSnapshot \/ RecordFails
    \/ ListSnapshots \/ PruneOne \/ PruneDone
    \/ EndPass \/ LdapDone \/ UpdateCR \/ UpdateCRFails \/ UpdateStatus

Environment ==
    \/ Tick \/ UserStep \/ SyncCR \/ SyncSnapshot \/ Crash

SnapNext == Handler \/ Environment
SnapSpec == SnapInit /\ [][SnapNext]_allVars

\* The watch delivers in the end and a pass goes on to its end (every way out
\* of a pass queues the next one, and API calls have time limits).  A call
\* that is tried again and again succeeds some time, and a process that
\* keeps being restarted gets through each of these steps some time.
SnapFairness ==
    /\ WF_allVars(SyncCR)
    /\ WF_allVars(Handler)
    /\ SF_allVars(SkipDisabled \/ SkipFirst \/ SkipEarly \/ SnapshotDue)
    /\ SF_allVars(CreateSnapshot)
    /\ SF_allVars(RecordFirst \/ RecordSnapshot)

SnapFairSpec == SnapSpec /\ SnapFairness

-----------------------------------------------------------------------------
(***************************************************************************)
(* Properties.                                                             *)
(***************************************************************************)

Steps == {"idle", "check", "first", "create", "record", "list", "prune",
          "ldap", "update", "status"}

\* Types of the variables; the handler holds an object exactly while a pass
\* runs, and a pass has read the clock when its next step is to create a
\* snapshot or record the time (snapshots.go:36).
SnapTypeOK ==
    /\ RecTypeOK(DSObjects)
    /\ pc \in Steps
    /\ clock \in Times
    /\ snaps \subseteq VolumeSnapshots
    /\ snapCache \subseteq VolumeSnapshots
    /\ victims \subseteq VolumeSnapshots
    /\ now \in {0} \cup Times
    /\ edits \in 0 .. MaxEdits
    /\ pc \in {"first", "create", "record"} => now \in Times

\* snapshots.go:57-110, with the conflict check of the API server: the stored
\* time stamp only ever moves by a full period, although the pass that moves
\* it decided on a cached copy and users, restarts and lost answers come in
\* between.  (Periods that do not fit an int32 in seconds break it.)
RecordedSpacing ==
    [][ /\ ds # NoDS /\ ds' # NoDS
        /\ ds.status.last # 0
        /\ ds'.status.last # ds.status.last
        => ds'.status.last >= ds.status.last + my.spec.period * Minute ]_allVars

\* README.md:229 and snapshots.go:38-49: no snapshot is taken of a directory
\* that was created less than one period ago.
FirstSnapshotDelayed ==
    [][ snaps' \subseteq snaps \/ now >= my.born + my.spec.period * Minute
      ]_allVars

\* README.md:214 and snapshots.go:117-130: whatever the age of the list it
\* decides on, the prune loop deletes a snapshot only while as many newer ones
\* exist as the smallest retention count ever configured.
PruneKeepsNewest ==
    [][ \A x \in snaps \ snaps' : Cardinality(Newer(x, snaps')) >= Floor
      ]_allVars

\* snapshots.go:117 and pvc.go:79-81: what "$(latest)" resolves to, the newest
\* snapshot the cache shows, has not been pruned and is not about to be.
LatestIsLive ==
    \A x \in snapCache :
        Newer(x, snapCache) = {} => x \in snaps /\ x \notin victims

\* A snapshot is due for the time stamp t.
Due(t) ==
    /\ ds # NoDS
    /\ ds.spec.enabled
    /\ ds.status.last = t
    /\ clock >= Deadline(ds)

\* snapshots.go:57-110: a time stamp whose period has passed does not stay:
\* the snapshot is attempted and its time recorded, or the user withdraws it.
DueIsServed == \A t \in Times : Due(t) ~> ~Due(t)

=============================================================================

# A TLA+ development of the ForgeRock ds-operator

The ds-operator is a Kubernetes operator, written in Go on controller-runtime,
that runs directory servers (ForgeRock DS). It has three custom resources:
`DirectoryService` (a replicated server with scheduled volume snapshots),
`DirectoryBackup` and `DirectoryRestore`. This directory holds models of its
controllers for TLC, and proofs for TLAPS. Paths below are relative to the
repository, line numbers are those of the commit the models were written from.

## 1. Inventory

| component | state it keeps | operations | interacts through |
|---|---|---|---|
| Reconcile loop of DirectoryService (`controllers/directoryservice_controller.go`) | nothing between passes; the object `ds` during a pass | `Reconcile`: load, claims, secrets, StatefulSet, proxy, service, snapshots, LDAP, `r.Update`, `r.Status().Update` | the API server (writes, with version check), the informers' caches (reads) |
| Scheduled snapshots (`controllers/snapshots.go`) | `status.snapshotStatus.lastSnapshotTimeStamp`, the VolumeSnapshots | take, record, list, prune | the same status; the snapshots that `$(latest)` resolves to |
| Claims (`controllers/pvc.go`) | the claims `data-<name>-<i>` (never owned, never updated) | create the missing ones, resolve `$(latest)` | the StatefulSet controller, which makes claims itself from an immutable template |
| StatefulSet (`controllers/sts.go`) | the StatefulSet; `status.currentReplicas` | create, update replicas and image, read back the pod count | StatefulSet controller, garbage collector |
| Admission (`api/v1alpha1/directoryservice_webhook.go`, schema) | none | default, validate create and update | users |
| DirectoryBackup (`controllers/directorybackup_controller.go`, `job.go`) | status; job, snapshot, clone, backup volume, all under fixed names | one pass that ensures each of them | storage, job controller, garbage collector |
| DirectoryRestore (`controllers/directoryrestore_controller.go`, `job.go`) | status; job, volume, snapshot, under fixed names | the same, and the snapshot when the job is complete | the same |
| Secrets, passwords, LDAP (`secrets.go`, `passwords.go`, `pkg/ldap`) | secrets, the annotation `last-password-check`, the passwords in the directory | add random passwords to secrets; once per window bind as every account and change the passwords that are refused | the directory server, the caches of secrets, `r.Update` at the end of the pass |
| Proxy, service (`proxy.go`, `service.go`) | a deployment and a headless service, under fixed names, not watched | create, update, delete | others who use these names, garbage collector |

What is hard here. Every read is from a cache that lags behind the API server,
and each kind of object has a cache of its own. Every write may be refused
(conflict, exists already), fail, or be applied with its answer lost, and a
handler in the middle of a pass may simply die. Users edit, delete and recreate
resources meanwhile, and objects with fixed names outlive the resource they
were made for until the garbage collector gets to them. What makes the
components correct: snapshots are spaced and pruning keeps the newest; no claim
is made from the template; the write-back of a whole object takes nothing back;
the StatefulSet converges; a backup that says it is complete is one; a snapshot
of a restore holds restored data, no older than the backup it was asked for;
passwords are checked a window apart and every account gets its own; proxy and
service follow the resource; what was deleted is cleaned up.
`PROJECT.json` lists the single hazards with the line where each bites.

## 2. Modules

| module | models |
|---|---|
| `Reconciler` | a handler with its in-memory copy of the resource, the stored resource, the cached one, and the writes between them; the steps of users, watches and restarts on these copies |
| `Snapshots` | `snapshots.go` as a part of `Reconcile`, with the final writes of the pass |
| `Replicas` | `pvc.go` and `sts.go` as parts of `Reconcile`, the webhook's limits, the StatefulSet controller, the garbage collector |
| `Backup` | the DirectoryBackup controller and its job, storage, garbage collector |
| `Restore` | the DirectoryRestore controller and its job, storage, garbage collector |
| `BackupLife` | abstract: what a DirectoryBackup promises, without controller, caches and jobs |
| `BackupRestore` | `Restore` composed with `BackupLife` over the volume they share |
| `Passwords` | `secrets.go`, `passwords.go` and `pkg/ldap/client.go` as parts of `Reconcile`, with the annotation and the final `r.Update` |
| `Proxy` | `proxy.go` and `service.go` as parts of `Reconcile`, other users of the two names, the garbage collector |
| `ReconcilerProofs`, `SnapshotsProofs`, `ReplicasProofs`, `PasswordsProofs`, `ProxyProofs`, `BackupProofs`, `RestoreProofs`, `BackupRestoreProofs` | proofs about the module of that name |
| `MCSnapshots`, `MCReplicas`, `MCBackup`, `MCRestore`, `MCBackupRestore`, `MCPasswords`, `MCProxy` | the modules TLC is run on; constants are in the `.cfg` files |

`Snapshots`, `Replicas`, `Passwords` and `Proxy` extend `Reconciler`; `Backup`
and `Restore` instantiate it with their own resource as `CR`. The first four
are four views of one `Reconcile`: each models its own steps, and what the
others may do to it (write the status, end the pass) is one action.

**Refinement and composition.** `Backup!Life` maps `Backup` to `BackupLife`: the
version of the data when the resource was created, whether it exists, the
contents of the backup volume, whether the status has a completion time. The
snapshot, the clone, the job, the caches and the handler disappear. Property
`BackupLives` says that every step of `Backup` is a step of this abstract life
or no step, for a name used once. `BackupRestore` then uses the abstract life in
the place of the whole controller: the restore's source volume is the backup's
volume, and both go on independently. So `RestoredIsFresh` speaks of the data
from the request of a backup to the snapshot of a restore. An import reads the
volume in one step; an export that writes it meanwhile comes before or after.

**Versions.** Resource versions are abstracted to what the API server asks of
them: is this copy the stored version? `cacheFresh` and `myFresh` answer for
the cached and for the handler's copy. `Load` copies the cache and its
freshness; a write that changes the object (or a field the model leaves out)
makes the other copies stale; a write by a stale copy is refused. That a copy
marked fresh equals the stored object is not assumed but proved
(`CopiesAgree`). `r.Update` sends the whole object, the server ignores its
status, and the answer is decoded over the handler's copy.

**Handlers.** `pc` is the step about to run; an action is the code from one
call of the API server to the next, so that everything else can come in
between. There is one worker per controller, controller-runtime's default. A
pass that ends with an error is queued again. In the parts of
`DirectoryService` every way out of a pass queues the next one (`requeue`, 60 or
90 seconds, or the rate limiter), so a new pass may always start. In `Backup` and `Restore`
this is not so, and the work queue is a variable: the watch of the resource,
errors, restarts, the informer's resync and (restore only) `RequeueAfter` fill
it. Watches of jobs and claims do not: the controllers set plain owner
references, and `Owns` reacts to controller references.

**Data.** Times are small integers; `Int32` wraps with a width of its own
(`HalfRange`), so that the product at `snapshots.go:52` can overflow. A snapshot
is its name (the time the handler read) and its creation time. The contents of
a volume are a version number. The completion time of a job is the resource it
belongs to. A password is a number, made once; a secret is absent, without
data, without the key, or has a password. The annotation that spaces password
checks is modelled by its age, which stops counting at `MaxAge`: time has no
other bound in `Passwords`, and its behaviours do not end. Users may write the
annotation too, also a time that is yet to come (a negative age): the check is
then put off until a window after it. Replica counts are integers, as the schema
sets no minimum; the API server refuses a StatefulSet with a negative one
(`ValidCount`). The replicas and images of the proxy, which updates write
(`proxy.go:78-92`), are one value. Pod templates, labels, mounts and messages are left out.

**Panics.** This version of controller-runtime does not recover them: a panic in
a pass ends the process. The models have those that states of the cluster can
cause: a nil map of a secret (`secrets.go:37`) or of annotations
(`passwords.go:79`), a nil connection (`client.go:73`), a nil controller
reference (`proxy.go:41`), a missing init container (`proxy.go:89`): others may make
such a deployment, or take these parts from one that the operator made. After a
restart the caches are up to date and all resources are queued.

**External parts**, marked so in the map, are modelled from how the code uses
them: API server and informers, StatefulSet and job controllers, storage, the
garbage collector (an object whose owner's uid is gone is removed some time;
`SetOwnerReference` replaces a reference of the same name), users.

**Mutants.** Definitions introduced as "Mutant of X" are X with a plausible bug.
No action uses them; put in place of X they break the property that
`PROJECT.json` names, which shows that the property sees such a bug.

## 3. What the runs check

Passing runs:

| run | instance | shows |
|---|---|---|
| `snapshots` | periods 1 and 2, retention 1 and 2, 5 time units, 3 user changes | `RecordedSpacing`, `FirstSnapshotDelayed`, `PruneKeepsNewest`, `LatestIsLive` with any mix of stale caches, conflicts, lost answers, crashes, edits and recreation |
| `snapshots_live` | retention -1 and 1, 3 time units | `DueIsServed` |
| `replicas` | 1 or 2 replicas, 3 user changes, 1 fault | `ClaimsBeforePods`, `NoSpecReverted` |
| `replicas_live` | -1, 0 or 1 replicas, 2 images, 3 user changes, 1 deleted claim | `EventuallyConverged` |
| `backup` | the name used once, 2 versions of the data, 1 fault | `CompletedIsFresh`, `BackupLives` (the refinement), `CleanedUp` |
| `backup_live` | the name used twice, 1 version of the data | `EventuallyReported`, `VaultNeverRegresses`: what the second resource takes over from the first never empties the backup volume (that no older version gets into it is theorem `VaultSafe`) |
| `restore` | the name used once, 2 versions of the backup, 1 fault | `SnapshotIsRestored`, `RestoreFinishes` |
| `backup_restore` | one backup, one restore, 2 versions of the data, 1 fault | `RestoredIsFresh` |
| `passwords` | 2 accounts, window 2, ages -1 to 4, 1 user change, 1 changed secret or password | `CheckSpacing`, `KeyedAreUpdated` with a server that comes and goes, crashes and panics |
| `passwords_live` | 2 accounts, one of them with `create` | `EachAccountServed` |
| `proxy` | 2 settings, 3 user changes, 2 changes by others, 1 fault | `ProxySettles`, `ProxyCollected` |

One run shows where the code departs from what a document says; it is described
under "findings" in `PROJECT.json`: in `passwords_create` the secret of an account
with `create: true` is missing, and no pass ever makes it, as the assignment to
its nil map panics first (`SecretsGenerated` is violated).

The instances of the passing runs stop short of some things on purpose; TLC
refutes the property when the instance is widened:

* `RecordedSpacing` with a period that does not fit 32 bits in seconds
  (`Periods = {5}`, `HalfRange = 4`): the product at `snapshots.go:52` becomes
  negative and every pass takes a snapshot.
* `PruneKeepsNewest` and `LatestIsLive` with several snapshots in one second
  (`OnePerSecond = FALSE`): `snapshots.go:151` sorts by whole seconds, and with
  a lagging list two passes may delete different ones.
* `ClaimsBeforePods` with `MaxClaimDeletes = 1`: the cache still shows a deleted
  claim, and the StatefulSet makes the new one from its template.
* `EventuallyConverged` with `DebugContainer = TRUE`: `sts.go:73` writes the
  image of the first container, which is then the debug container.
* `CompletedIsFresh` with `MaxCreates = 2`: a recreated backup finds the finished
  job of its predecessor by name and reports its completion. (`BackupLife` is
  the life of a name used once and has no second request.)
* `SnapshotIsRestored` with `MaxCreates = 2`: a recreated restore takes its
  predecessor's finished job for its own and snapshots an empty volume.

`KeyedAreUpdated` has a condition in place of a bound: it speaks of the accounts
whose secret never lacked the key while the loop ran. TLC refutes it without the
condition. `lookupSecret` returns the empty password without an error when the
key is missing (`passwords.go:93`): no bind succeeds with it, and the change to it
asks the server to generate one that nobody reads, once per window. The account
is locked out by the operator itself, and the check is recorded all the same,
where the comment says "if we get to here we have updated all passwords OK"
(`passwords.go:78`). What the property does excuse is a password that the server
lost since the loop began (`PasswordReset`), never one that the operator replaced.

A few more can be read off the code and have no run. The record of a snapshot
is written after the snapshot is made (`snapshots.go:104-107`); when it is refused
or lost, the retry takes another one at once. `currentReplicas` is set in memory,
and the answer of `r.Update` puts the stored status back, unless none was ever
stored, before the status is written (`directoryservice_controller.go:164-169`). `$(latest)` is resolved once
per claim (`pvc.go:74`), so two claims of one deployment may come from different
snapshots. The proxy's owner is checked on a cached copy and the deletion goes by
name (`proxy.go:42`), so a deployment that somebody else made since is deleted;
`ProxySettles` holds in spite of it. A job that fails has no
completion time, so neither controller records one for it
(`directorybackup_controller.go:80`), and a restore job that succeeds at the
second attempt is an error in every later pass
(`directoryrestore_controller.go:93`); `EventuallyReported` and
`RestoreFinishes` leave these jobs out. A restore that cannot create its snapshot
records completion all the same (`directoryrestore_controller.go:104`); the event
of that write queues the pass that tries again. An update passes the replica limit that
the webhook checks on creation (`directoryservice_webhook.go:84`).

**Bounds.** `MaxClock`, `MaxEdits`, `MaxFaults`, `MaxClaimDeletes`, `MaxSnaps`,
`MaxData`, `MaxSource`, `MaxCreates`, `MaxChanges`, `MaxAhead`, `MaxMeddling`
bound what the environment may do; the handlers are not bounded. Five time units hold two periods of 2, so two
snapshots, a prune and a third one happen; three user changes are enough to
create, delete and create again, with what the first resource left behind, and
one to edit or delete in the middle of a pass where the resource may be there
from the start; two replicas make a loop with a first and a last turn;
a name used twice has one predecessor. A window of 2, ages to 4 and one unit
into the future tell "yet to come", "too soon", "due" and "due and late by a full
loop" apart; two accounts make a loop in
which one fails before and after the other; two changes by others delete a
deployment and put another in its place. In `Snapshots` and `Passwords`
failures and crashes are not counted; elsewhere one fault, at any place, is
enough for every error path, and stale caches and refused writes come on top of
it without limit. The proofs below do not depend on these numbers. Symmetry is
not used: the values are ordered or few. Deadlock is checked for `Snapshots`,
`Replicas` and `Passwords`; in the others the last deletion really leaves
nothing to do.

**Fairness.** Weak fairness of the handler (the work queue is served and API
calls have time limits), of the watches, of the informers' resync, and of the
cluster's controllers. In `Snapshots` and `Passwords` faults are not counted, so strong
fairness says that a step tried again and again succeeds some time; elsewhere
`MaxFaults` bounds the faults and weak fairness is enough. In `Passwords` it is
strong fairness for each account: the loop at `passwords.go:53` goes over a Go
map, whose order is random, so an account is not always behind one that ends
the loop. Without it TLC refutes `EachAccountServed`. Time
passes there (weak fairness of `Tick`); elsewhere nothing is assumed of the
clock. Nothing is assumed of users or of faults.

## 4. What is proved

`SnapshotsProofs` proves, for every set of periods and retention counts, every
length of a behaviour and every number of edits:

* `SnapTypes`: types, and that a pass knows the time where it uses it.
* `TimeInvariant`: the inductive invariant `TimeInv`, in three parts.
  `SnapTypeOK`; `CopiesAgree` (a copy marked fresh is the stored object);
  `TimesAgree` (every copy is from the past, its time stamp is unset or not
  before its birth, and a pass between "the deadline has passed" and "the time
  is recorded" still holds a copy for which this is so). The properties below
  are not inductive without it: that a stale pass cannot move the time stamp
  early needs `CopiesAgree` at the moment of the write.
* `Spacing`: `RecordedSpacing`, if every period in seconds fits an int32
  (`PeriodsFit`); section 3 shows that this is needed.
* `FirstDelayed`: `FirstSnapshotDelayed`, under the same assumption.
* `NewestKept`: `PruneKeepsNewest`, if no two snapshots have one creation
  second. The invariant `PruneInv` says that for every snapshot that may still
  be deleted, listed or shown by a lagging cache, at least `Floor` newer ones
  exist or are shown, and that victims are always older than what stays.
* `LatestLive`: `LatestIsLive`, if also every retention count is at least 1.

`ReplicasProofs` proves, for every replica limit and any number of user changes,
faults and deleted claims:

* `RepInvariant`, `RepTypes`: types, with `CopiesAgree` and the bounds of the loop
  over the claims: what it asks for is within the limit that admission sets, and
  no StatefulSet has a negative count although a resource may.
* `SpecNeverReverted`: `NoSpecReverted`. The handler never edits the spec, and
  `CopiesAgree` holds up to the status it has assigned in memory
  (`ReconcilerProofs!SpecsAgree`), so the write-back of the whole object stores the
  spec that is there or is refused.
* `OperatorMakesClaims`: `ClaimsBeforePods`, as long as no claim was deleted;
  section 3 shows that this is needed. The invariant `ClaimsMade` says that what
  the cache shows exists, that the claims below the loop's index exist, and that
  the StatefulSet asks for no more pods than there are claims.

`PasswordsProofs` proves, for every window, every set of accounts and any number
of changes:

* `PwTypes`: types. That there is a password left for every secret without one
  needs a count: passwords made plus secrets that wait for one are at most the
  changes plus one.
* `ChecksAreSpaced` and `RecordIsTrue`: `CheckSpacing` and `KeyedAreUpdated`, from
  one invariant `ChecksOK`. While the loop runs every account it has visited has a
  password that its secret held since the loop began (the history variable `seen`),
  was lost by the server, or has a secret that lacked the key, and a check recorded now would be a window after the stored one; before
  `r.Update` a fresh handler holds the stored resource, or one that differs in the
  time alone and keeps both promises. The time in memory, the time of the loop and
  the stored one grow older together (`OlderKeepsSpacing`), up to the greatest age.

`ProxyProofs` proves `ProxyTypes`, from `CopiesAgree` and the same statement for the
cached deployment: as long as nobody else changes the objects, every deployment
that is stored or cached has a controller reference and its init container, so
the panics at `proxy.go:41` and `proxy.go:89` are caused by changes of others only.

`BackupProofs` proves, for any number of versions, recreations and faults:

* `BackupTypes`: types of the backup model.
* `VaultSafe`: `VaultNeverRegresses`, from the invariant `Chain`: the contents
  of the backup volume are not newer than those of the clone, these not newer
  than those of the snapshot, and nothing is newer than the data, for those of
  them that are there, whichever resource made each of them.
* `BackupInvariant`: types, `Chain` and `Once`. `Once` speaks of a name that was
  used at most once: before its creation nothing of that name exists; after it,
  snapshot, clone and job hold data no older than the request, and a copy of the
  resource that reports completion (stored, cached or in the handler) does so only
  when the volume has them.
* `CompletedSafe`: `CompletedIsFresh` while the name was used at most once.
* `BackupImplementsLife`: the refinement `BackupLives` under the same condition:
  every step is a step of `BackupLife` or leaves its state as it is.

`RestoreProofs` proves, for any number of versions, recreations and faults:

* `RestoreTypes`: types.
* `RestoreInvariant`: types and `Once`: nothing of an unused name exists; for the
  first resource of a name, as long as it is there, job, volume and snapshot are
  its own, a job that the cache shows complete is complete, the snapshot is made
  after that, and a complete job has filled the volume (`InPlace`).
* `SnapshotSafe`: `SnapshotIsRestored` while the name was used at most once.

`BackupRestoreProofs` proves of the composition:

* `BothRun`: it is a behaviour of `Restore` and of `BackupLife`, so that what is
  proved of either holds in it. This rests on `LifeInv`: the backup's volume never
  holds anything older than what was asked for, and never gets older.
* `RestoredSafe`: `RestoredIsFresh` while the restore's name was used at most once,
  from `RestoreInvariant` and `Kept`: what was promised when the restore was created
  is not lost in the source, in the restored volume, or in its snapshot.

The condition `creates <= 1` in these theorems is the one that the runs have in
`MaxCreates = 1`; section 3 shows what happens without it.

`ReconcilerProofs` has the lemmas these rest on: every building block of
`Reconciler` keeps types, `CopiesAgree` and `SpecsAgree`, whatever the resource
consists of.

**Assumptions.** The theorems rest on the assumptions that the modules name:
bounds are natural numbers, and the values for "no object" (`NoDS`, `None`,
`NoClaim`) are not objects (`NoDSIsNoPwObject`, `NoneIsNoProxyObject`,
`NothingIsNoObject`, `NoneIsNoObject`). TLC evaluates them in every run.

Every invariant and every action property of the passing runs is now stated by a
theorem. **Only model-checked** is liveness (`DueIsServed`, `EventuallyConverged`,
`EventuallyReported`, `CleanedUp`, `RestoreFinishes`, `EachAccountServed`,
`ProxySettles`, `ProxyCollected`): fairness and `ENABLED` are out of the prover's
reach. So is the violated `SecretsGenerated`.

## 5. What is not modelled, and the plan

Not modelled: several namespaces or names at once, and a backup and a restore of
the same name, which use the same names for job, claim and snapshot
(`BackupRestore` has them under different names; one store for both controllers
is beyond a run). Labels, generated code, start-up flags and events decide
nothing. `proxy_service.go` is not called, and neither are the searches, tasks and
monitoring of `client.go`. The proxy's part of the status is written and never
read. The accounts `uid=admin` and `uid=monitor` are left out by the loop in
`passwords.go`; that the administrator can bind is the variable `up`. Both secrets
are generated as those of the other accounts are.
A snapshot or claim that is deleted disappears in one step in `Backup` and
`Restore`; in `Snapshots`, one that a finalizer holds is a snapshot the cache
still shows. Leader election is optional in `main.go` and one replica of the
operator is assumed.

Of the admission webhook the limits are modelled in `Replicas`; its defaults fill
in data the models do not have. `Snapshots` and `Replicas` are not composed:
in `Replicas` the snapshots that `$(latest)` resolves to are a number that grows;
`LatestIsLive` in `Snapshots` is about pruning the one it resolves to.

Order of further work, all of it proofs:

1. What remains true of `CompletedIsFresh` and `SnapshotIsRestored` for a name used
   again: a recreated resource that finds no job of its predecessor.
2. The safety half of the liveness properties: what a pass that is not disturbed
   leaves behind (a StatefulSet as the spec says, a service, no deployment of ours
   with the proxy switched off).
3. `ClaimsBeforePods` with deleted claims, for ordinals whose claim nobody deleted.

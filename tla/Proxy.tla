------------------------------- MODULE Proxy -------------------------------
(***************************************************************************)
(* The proxy deployment and the headless service of a DirectoryService:    *)
(* controllers/proxy.go and controllers/service.go as steps of Reconcile.  *)
(*                                                                         *)
(* Both objects have fixed names, so they may be somebody else's.  The     *)
(* settings that the operator copies to a deployment (replicas, images)    *)
(* are one value.  Neither kind is watched: the operator meets a change in *)
(* its next pass, and reads both from caches that lag behind.  The proxy's *)
(* part of the status is read from the deployment and not decided on       *)
(* anywhere; it is left out.                                               *)
(***************************************************************************)
EXTENDS Reconciler, Integers

CONSTANTS
    None,             \* no such object
    Settings,         \* what updates copy from spec.proxy: replicas and images
    MaxEdits,         \* bound: how often users change the resource
    MaxMeddling,      \* bound: how often they change deployment or service
    MaxFaults         \* bound: failed calls, lost answers and restarts

ASSUME ProxyConstants ==
    MaxEdits \in Nat /\ MaxMeddling \in Nat /\ MaxFaults \in Nat

VARIABLES
    dep, depCache,    \* the deployment <name>-proxy and the informer's copy
    svc, svcCache,    \* the service <name>
    edits, meddling, faults

objVars == <<dep, depCache, svc, svcCache>>
proxyVars == <<recVars, objVars, edits, meddling, faults>>

Uids == 1 .. MaxEdits
Nobody == 0           \* the object names no controller
Other == -1           \* another controller's object
ProxySpecs == [enabled : BOOLEAN, settings : Settings]
ProxyObjects == Objects(ProxySpecs, {"status"}, Uids)

\* A deployment of the operator's making has an init container; those of
\* others may have none.
Deployments == [owner : Uids \cup {Nobody, Other}, settings : Settings,
                inits : BOOLEAN]
Services == [owner : Uids \cup {Nobody}]

ASSUME NoneIsNoProxyObject ==
    NoDS \notin ProxyObjects /\ None \notin Deployments \cup Services

ProxyInit ==
    /\ pc = "idle"
    /\ ds = NoDS /\ dsCache = NoDS /\ cacheFresh = TRUE
    /\ my = NoDS /\ myFresh = FALSE
    /\ dep = None /\ depCache = None
    /\ svc = None /\ svcCache = None
    /\ edits = 0 /\ meddling = 0 /\ faults = 0

Fault ==
    /\ faults < MaxFaults
    /\ faults' = faults + 1

\* A write is answered and the pass goes on, or the answer is lost.
AnsweredOrLost(step) ==
    \/ Goto(step) /\ UNCHANGED faults
    \/ Return /\ Fault

-----------------------------------------------------------------------------
(***************************************************************************)
(* The handler.                                                            *)
(***************************************************************************)

\* Reconcile up to the proxy: the steps before it touch nothing modelled here.
StartReconcile ==
    /\ Load("proxy")
    /\ UNCHANGED <<objVars, edits, meddling, faults>>

\* The proxy is not enabled, and there is no deployment or one that another
\* resource controls.
LeaveProxy ==
    /\ At("proxy") /\ ~my.spec.enabled
    /\ depCache # None => depCache.owner \notin {Nobody, my.born}
    /\ Goto("service")
    /\ UNCHANGED <<objVars, edits, meddling, faults>>

\* Mutant of DeleteProxy: the uid is compared with that of nobody.
DeleteNoProxy ==
    /\ At("proxy") /\ ~my.spec.enabled
    /\ depCache # None /\ depCache.owner = my.born
    /\ Goto("service")
    /\ UNCHANGED <<objVars, edits, meddling, faults>>

\* We control the deployment that the cache shows: the one that has its name
\* now is deleted.
DeleteProxy ==
    /\ At("proxy") /\ ~my.spec.enabled
    /\ depCache # None /\ depCache.owner = my.born
    /\ dep # None /\ dep' = None
    /\ AnsweredOrLost("service")
    /\ UNCHANGED <<depCache, svc, svcCache, edits, meddling>>

\* Nobody controls it: GetControllerOf returns nil, and that is dereferenced.
OwnerPanics ==
    /\ At("proxy") /\ ~my.spec.enabled
    /\ depCache # None /\ depCache.owner = Nobody
    /\ Restart
    /\ depCache' = dep /\ svcCache' = svc
    /\ UNCHANGED <<dep, svc, edits, meddling, faults>>

\* Mutant of NewProxy: the template has no init container.
NewBareProxy ==
    [owner |-> my.born, settings |-> my.spec.settings, inits |-> FALSE]

\* createDSProxyDeployment and SetControllerReference.
NewProxy ==
    [owner |-> my.born, settings |-> my.spec.settings, inits |-> TRUE]

\* The proxy is enabled.  CreateOrUpdate: the cache shows no deployment.
CreateProxy ==
    /\ At("proxy") /\ my.spec.enabled
    /\ depCache = None
    /\ dep = None /\ dep' = NewProxy
    /\ AnsweredOrLost("service")
    /\ UNCHANGED <<depCache, svc, svcCache, edits, meddling>>

\* The cache shows one, whoever controls it: replicas and images are copied.
\* An update that changes nothing is not sent, and one from a copy that is out
\* of date is refused.
UpdateProxy ==
    /\ At("proxy") /\ my.spec.enabled
    /\ depCache # None /\ depCache.inits
    /\ \/ depCache.settings = my.spec.settings /\ dep' = dep
       \/ /\ depCache.settings # my.spec.settings
          /\ dep = depCache
          /\ dep' = [dep EXCEPT !.settings = my.spec.settings]
    /\ AnsweredOrLost("service")
    /\ UNCHANGED <<depCache, svc, svcCache, edits, meddling>>

\* Its pods have no init container: the index is out of range.
InitContainerPanics ==
    /\ At("proxy") /\ my.spec.enabled
    /\ depCache # None /\ ~depCache.inits
    /\ Restart
    /\ depCache' = dep /\ svcCache' = svc
    /\ UNCHANGED <<dep, svc, edits, meddling, faults>>

\* Mutant of EnsureService: the service is made for nobody.
EnsureUnownedService ==
    /\ At("service")
    /\ \/ svcCache # None /\ svc' = svc
       \/ svcCache = None /\ svc = None /\ svc' = [owner |-> Nobody]
    /\ AnsweredOrLost("rest")
    /\ UNCHANGED <<dep, depCache, svcCache, edits, meddling>>

\* reconcileService: created with a controller reference, or left as it is.
EnsureService ==
    /\ At("service")
    /\ \/ svcCache # None /\ svc' = svc
       \/ svcCache = None /\ svc = None /\ svc' = [owner |-> my.born]
    /\ AnsweredOrLost("rest")
    /\ UNCHANGED <<dep, depCache, svcCache, edits, meddling>>

\* The API server refuses to delete what is gone, to create what exists and to
\* update from a copy that is out of date; the pass ends.
Refused ==
    /\ \/ /\ At("proxy") /\ ~my.spec.enabled
          /\ depCache # None /\ depCache.owner = my.born
          /\ dep = None
       \/ /\ At("proxy") /\ my.spec.enabled
          /\ IF depCache = None THEN dep # None
             ELSE /\ depCache.inits
                  /\ depCache.settings # my.spec.settings
                  /\ dep # depCache
       \/ At("service") /\ svcCache = None /\ svc # None
    /\ Return
    /\ UNCHANGED <<objVars, edits, meddling, faults>>

\* A call fails.
CallFails ==
    /\ pc \in {"proxy", "service"}
    /\ Return /\ Fault
    /\ UNCHANGED <<objVars, edits, meddling>>

\* The rest of the pass may store the object, which it has not changed.
RestOfPass ==
    /\ At("rest")
    /\ WriteObjectAndReturn
    /\ UNCHANGED <<objVars, edits, meddling, faults>>

-----------------------------------------------------------------------------
(***************************************************************************)
(* The environment.                                                        *)
(***************************************************************************)

UserStep ==
    /\ edits < MaxEdits
    /\ edits' = edits + 1
    /\ \/ \E s \in ProxySpecs : UserCreates(s, "status", edits + 1) \/ UserEdits(s)
       \/ UserDeletes
    /\ UNCHANGED <<objVars, meddling, faults>>

\* What an edit makes of a deployment: other settings, no controller reference,
\* no init container.
Tampered(d) ==
    {[d EXCEPT !.settings = s] : s \in Settings}
        \cup {[d EXCEPT !.owner = Nobody], [d EXCEPT !.inits = FALSE]}

\* Somebody else makes, changes or deletes a deployment or a service of these
\* names.
Meddle ==
    /\ meddling < MaxMeddling
    /\ meddling' = meddling + 1
    /\ \/ /\ \/ dep = None /\ dep' \in {d \in Deployments : d.owner \notin Uids}
             \/ dep # None /\ dep' \in Tampered(dep) \cup {None}
          /\ svc' = svc
       \/ /\ svc' \in {None, [owner |-> Nobody]} \ {svc}
          /\ dep' = dep
    /\ UNCHANGED <<recVars, depCache, svcCache, edits, faults>>

SyncCR ==
    /\ SyncDS
    /\ UNCHANGED <<objVars, edits, meddling, faults>>

SyncObjects ==
    /\ \/ depCache # dep /\ depCache' = dep /\ UNCHANGED svcCache
       \/ svcCache # svc /\ svcCache' = svc /\ UNCHANGED depCache
    /\ UNCHANGED <<recVars, dep, svc, edits, meddling, faults>>

\* The garbage collector.
Orphan(obj) ==
    /\ obj # None
    /\ obj.owner \in Uids
    /\ ds # NoDS => ds.born # obj.owner

Collect ==
    /\ \/ Orphan(dep) /\ dep' = None /\ svc' = svc
       \/ Orphan(svc) /\ svc' = None /\ dep' = dep
    /\ UNCHANGED <<recVars, depCache, svcCache, edits, meddling, faults>>

Crash ==
    /\ Restart /\ Fault
    /\ depCache' = dep /\ svcCache' = svc
    /\ UNCHANGED <<dep, svc, edits, meddling>>

-----------------------------------------------------------------------------
Handler ==
    \/ StartReconcile
    \/ LeaveProxy \/ DeleteProxy \/ OwnerPanics
    \/ CreateProxy \/ UpdateProxy \/ InitContainerPanics
    \/ EnsureService \/ Refused \/ RestOfPass

ProxyNext ==
    \/ Handler
    \/ UserStep \/ Meddle \/ SyncCR \/ SyncObjects \/ Collect
    \/ CallFails \/ Crash

ProxySpec == ProxyInit /\ [][ProxyNext]_proxyVars

\* Every pass is followed by another, the watches deliver, and orphans are
\* collected.
ProxyFairness ==
    /\ WF_proxyVars(Handler)
    /\ WF_proxyVars(SyncCR)
    /\ WF_proxyVars(SyncObjects)
    /\ WF_proxyVars(Collect)

ProxyFairSpec == ProxySpec /\ ProxyFairness

-----------------------------------------------------------------------------
(***************************************************************************)
(* Properties.                                                             *)
(***************************************************************************)

ProxySteps == {"idle", "proxy", "service", "rest"}

\* A deployment that is as the operator makes them, with the controller and the
\* init container that its passes take for granted (proxy.go:41, 89).
AsMade(d) == d # None => d.owner \in Uids /\ d.inits

\* Types; as long as nobody meddles, no pass meets a deployment that makes it
\* panic, whatever its cache shows and whatever a predecessor left.
ProxyTypeOK ==
    /\ pc \in ProxySteps
    /\ RecTypeOK(ProxyObjects)
    /\ dep \in Deployments \cup {None} /\ depCache \in Deployments \cup {None}
    /\ meddling = 0 => AsMade(dep) /\ AsMade(depCache)
    /\ svc \in Services \cup {None} /\ svcCache \in Services \cup {None}
    /\ edits \in 0 .. MaxEdits /\ meddling \in 0 .. MaxMeddling
    /\ faults \in 0 .. MaxFaults

\* A deployment that makes every pass panic, as it names no controller
\* (proxy.go:41) or its pods have no init container (proxy.go:89).
Panicking ==
    /\ dep # None
    /\ IF ds.spec.enabled THEN ~dep.inits ELSE dep.owner = Nobody

Settled ==
    /\ svc # None
    /\ IF ds.spec.enabled
       THEN dep # None /\ dep.settings = ds.spec.settings
       ELSE dep # None => dep.owner # ds.born

\* proxy.go:27-92, service.go:18-46: for a resource that stays, the service
\* comes to exist, and the deployment to have the settings of the spec or,
\* with the proxy switched off, to be gone if it is ours; nothing but the next
\* pass tells the operator what the garbage collector, a predecessor or
\* somebody else did to them.
ProxySettles ==
    <>[](ds # NoDS /\ ~Panicking) => <>[](ds # NoDS /\ Settled)

\* proxy.go:59, service.go:33: the objects of a resource that is deleted go
\* with it, also those that a pass under way makes after the deletion.
ProxyCollected ==
    <>[](ds = NoDS /\ meddling = 0) => <>[](dep = None /\ svc = None)

=============================================================================

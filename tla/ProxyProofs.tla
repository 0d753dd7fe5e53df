---------------------------- MODULE ProxyProofs -----------------------------
(***************************************************************************)
(* Proofs about Proxy for any number of settings, edits, faults and        *)
(* changes by others.                                                      *)
(***************************************************************************)
EXTENDS Proxy, ReconcilerProofs

\* What the name of the deployment, after n changes by others, and that of the
\* service may stand for.
DepOK(d, n) ==
    /\ d \in Deployments \cup {None}
    /\ n = 0 => AsMade(d)

SvcOK(s) == s \in Services \cup {None}

\* The inductive invariant: the caches show nothing but what was stored, and
\* the handler's copy of the resource is the stored one if it is fresh, so that
\* the r.Update at the end of the pass stores what is there.
TypeInv ==
    /\ pc \in ProxySteps
    /\ RecTypeOK(ProxyObjects) /\ CopiesAgree
    /\ DepOK(dep, meddling) /\ DepOK(depCache, meddling)
    /\ SvcOK(svc) /\ SvcOK(svcCache)
    /\ edits \in 0 .. MaxEdits /\ meddling \in 0 .. MaxMeddling
    /\ faults \in 0 .. MaxFaults

-----------------------------------------------------------------------------
\* The handler's resource gives the parts of what the operator makes.
LEMMA ProxyParts ==
    ASSUME NEW o \in ProxyObjects
    PROVE  o.born \in Uids /\ o.spec.settings \in Settings
  <1>1. o.born \in Uids /\ o.spec \in ProxySpecs
    BY DEF ProxyObjects, Objects
  <1> QED
    BY <1>1, Zenon DEF ProxySpecs

\* A deployment of the operator's making has a controller and its init container
\* (proxy.go:59, 175).
LEMMA NewProxyOK ==
    ASSUME my \in ProxyObjects
    PROVE  DepOK(NewProxy, meddling)
  <1>1. my.born \in Uids /\ my.spec.settings \in Settings
    BY ProxyParts
  <1>2. NewProxy \in Deployments
    BY <1>1 DEF NewProxy, Deployments
  <1>3. NewProxy.inits /\ NewProxy.owner = my.born
    BY Zenon DEF NewProxy
  <1> QED
    BY <1>1, <1>2, <1>3, Zenon DEF DepOK, AsMade

\* New settings change nothing else of a deployment (proxy.go:85-89).
LEMMA NewSettingsOK ==
    ASSUME NEW d \in Deployments, NEW n, DepOK(d, n), NEW s \in Settings
    PROVE  DepOK([d EXCEPT !.settings = s], n)
  <1>1. [d EXCEPT !.settings = s] \in Deployments
    BY DEF Deployments
  <1>2. /\ [d EXCEPT !.settings = s].owner = d.owner
        /\ [d EXCEPT !.settings = s].inits = d.inits
    BY DEF Deployments
  <1>3. d # None
    BY NoneIsNoProxyObject
  <1> QED
    BY <1>1, <1>2, <1>3, Zenon DEF DepOK, AsMade

\* A fault stays within the bound.
LEMMA FaultCounts ==
    ASSUME TypeInv, Fault \/ UNCHANGED faults
    PROVE  faults' \in 0 .. MaxFaults
  BY ProxyConstants DEF TypeInv, Fault

\* A step of the pass goes on or ends it, and keeps the copies.
LEMMA StepKeepsCopies ==
    ASSUME TypeInv, pc # "idle", NEW step \in ProxySteps,
           Goto(step) \/ Return \/ Restart
    PROVE  RecTypeOK(ProxyObjects)' /\ CopiesAgree' /\ pc' \in ProxySteps
  <1>1. pc' \in ProxySteps
    BY DEF Goto, Return, Restart, ProxySteps
  <1> QED
    BY <1>1, GotoKeeps, ReturnKeeps, RestartKeeps, Zenon DEF TypeInv

\* The objects that the pass met stay as they were.
LEMMA ObjectsStay ==
    ASSUME TypeInv,
           dep' \in {dep, None}, svc' \in {svc, None},
           depCache' \in {depCache, dep}, svcCache' \in {svcCache, svc}
    PROVE  /\ DepOK(dep', meddling) /\ DepOK(depCache', meddling)
           /\ SvcOK(svc') /\ SvcOK(svcCache')
  BY Zenon DEF TypeInv, DepOK, AsMade, SvcOK

\* The steps that leave deployment and service, or delete the deployment, keep
\* the types; so do the panics and the end of the pass.
LEMMA LeavingKeepsTypes ==
    ASSUME TypeInv,
           \/ StartReconcile \/ LeaveProxy \/ DeleteProxy \/ OwnerPanics
           \/ InitContainerPanics \/ Refused \/ CallFails \/ RestOfPass \/ Crash
    PROVE  TypeInv'
  <1>1. /\ dep' \in {dep, None} /\ svc' \in {svc, None}
        /\ depCache' \in {depCache, dep} /\ svcCache' \in {svcCache, svc}
    BY DEF StartReconcile, LeaveProxy, DeleteProxy, OwnerPanics, InitContainerPanics,
           Refused, CallFails, RestOfPass, Crash, objVars
  <1>2. UNCHANGED <<edits, meddling>> /\ (Fault \/ UNCHANGED faults)
    BY DEF StartReconcile, LeaveProxy, DeleteProxy, OwnerPanics, InitContainerPanics,
           Refused, CallFails, RestOfPass, Crash, AnsweredOrLost
  <1>3. RecTypeOK(ProxyObjects)' /\ CopiesAgree' /\ pc' \in ProxySteps
    <2>1. CASE StartReconcile
      <3>1. Load("proxy")
        BY <2>1 DEF StartReconcile
      <3>2. pc' \in ProxySteps
        BY <3>1 DEF Load, ProxySteps
      <3> QED
        BY <3>1, <3>2, LoadKeeps, Zenon DEF TypeInv
    <2>2. CASE RestOfPass
      <3>1. WriteObjectAndReturn
        BY <2>2 DEF RestOfPass
      <3>2. pc' \in ProxySteps
        BY <3>1, Zenon DEF WriteObjectAndReturn, ProxySteps
      <3> QED
        BY <3>1, <3>2, WriteObjectAndReturnKeeps, Zenon DEF TypeInv, ProxyObjects
    <2>3. CASE Crash
      <3>1. Restart
        BY <2>3 DEF Crash
      <3>2. pc' \in ProxySteps
        BY <3>1 DEF Restart, ProxySteps
      <3> QED
        BY <3>1, <3>2, RestartKeeps, Zenon DEF TypeInv
    <2>4. CASE \/ LeaveProxy \/ DeleteProxy \/ OwnerPanics
               \/ InitContainerPanics \/ Refused \/ CallFails
      <3>1. pc # "idle" /\ (Goto("service") \/ Return \/ Restart)
        BY <2>4 DEF LeaveProxy, DeleteProxy, OwnerPanics, InitContainerPanics,
                    Refused, CallFails, AnsweredOrLost, At
      <3> QED
        BY <3>1, StepKeepsCopies DEF ProxySteps
    <2> QED
      BY <2>1, <2>2, <2>3, <2>4
  <1>4. faults' \in 0 .. MaxFaults
    BY <1>2, FaultCounts
  <1>5. /\ DepOK(dep', meddling) /\ DepOK(depCache', meddling)
        /\ SvcOK(svc') /\ SvcOK(svcCache')
    BY <1>1, ObjectsStay
  <1> QED
    BY <1>2, <1>3, <1>4, <1>5, Zenon DEF TypeInv

\* The steps that make or update an object keep the types (proxy.go:56-92,
\* service.go:18-46).
LEMMA MakingKeepsTypes ==
    ASSUME TypeInv, CreateProxy \/ UpdateProxy \/ EnsureService
    PROVE  TypeInv'
  <1>1. /\ pc # "idle" /\ UNCHANGED <<depCache, svcCache, edits, meddling>>
        /\ \E step \in {"service", "rest"} : AnsweredOrLost(step)
    BY DEF CreateProxy, UpdateProxy, EnsureService, At
  <1>2. RecTypeOK(ProxyObjects)' /\ CopiesAgree' /\ pc' \in ProxySteps
    BY <1>1, StepKeepsCopies DEF AnsweredOrLost, ProxySteps
  <1>3. faults' \in 0 .. MaxFaults
    BY <1>1, FaultCounts DEF AnsweredOrLost
  <1>4. my \in ProxyObjects
    BY <1>1, Zenon DEF TypeInv, RecTypeOK
  <1>5. DepOK(dep', meddling) /\ SvcOK(svc')
    <2>1. CASE CreateProxy
      <3>1. dep' = NewProxy /\ svc' = svc
        BY <2>1 DEF CreateProxy
      <3> QED
        BY <1>4, <3>1, NewProxyOK, Zenon DEF TypeInv
    <2>2. CASE UpdateProxy
      <3>1. /\ svc' = svc
            /\ \/ dep' = dep
               \/ depCache # None /\ dep = depCache
                  /\ dep' = [dep EXCEPT !.settings = my.spec.settings]
        BY <2>2 DEF UpdateProxy
      <3>2. dep # None => dep \in Deployments
        BY Zenon DEF TypeInv, DepOK
      <3>3. my.spec.settings \in Settings
        BY <1>4, ProxyParts
      <3> QED
        BY <3>1, <3>2, <3>3, NewSettingsOK, Zenon DEF TypeInv
    <2>3. CASE EnsureService
      <3>1. dep' = dep /\ (svc' = svc \/ svc' = [owner |-> my.born])
        BY <2>3 DEF EnsureService
      <3>2. [owner |-> my.born] \in Services
        BY <1>4, ProxyParts DEF Services
      <3> QED
        BY <3>1, <3>2, Zenon DEF TypeInv, SvcOK
    <2> QED
      BY <2>1, <2>2, <2>3
  <1> QED
    BY <1>1, <1>2, <1>3, <1>5, Zenon DEF TypeInv

\* Users, whoever else changes the objects, the watches and the garbage
\* collector keep the types.
LEMMA OthersKeepTypes ==
    ASSUME TypeInv,
           \/ UserStep \/ Meddle \/ SyncCR \/ SyncObjects \/ Collect
           \/ UNCHANGED proxyVars
    PROVE  TypeInv'
  <1>1. CASE UserStep
    <2>1. /\ edits < MaxEdits /\ edits' = edits + 1
          /\ UNCHANGED <<objVars, meddling, faults>>
      BY <1>1 DEF UserStep
    <2>2. edits' \in 0 .. MaxEdits /\ edits + 1 \in Uids
      BY <2>1, ProxyConstants DEF TypeInv, Uids
    <2>3. RecTypeOK(ProxyObjects)' /\ CopiesAgree'
      <3>1. ASSUME NEW s \in ProxySpecs,
                   UserCreates(s, "status", edits + 1) \/ UserEdits(s)
            PROVE  RecTypeOK(ProxyObjects)' /\ CopiesAgree'
        BY <2>2, <3>1, UserKeeps DEF TypeInv, ProxyObjects
      <3>2. CASE UserDeletes
        BY <3>2, UserDeletesKeeps, Zenon DEF TypeInv
      <3> QED
        BY <1>1, <3>1, <3>2 DEF UserStep
    <2>4. pc' = pc
      BY <1>1 DEF UserStep, UserCreates, UserEdits, UserDeletes
    <2> QED
      BY <2>1, <2>2, <2>3, <2>4, Zenon DEF TypeInv, objVars
  <1>2. CASE Meddle
    <2>1. /\ UNCHANGED <<recVars, depCache, svcCache, edits, faults>>
          /\ meddling < MaxMeddling /\ meddling' = meddling + 1
      BY <1>2 DEF Meddle
    <2>2. meddling' \in 0 .. MaxMeddling /\ meddling' # 0
      BY <2>1, ProxyConstants DEF TypeInv
    <2>3. RecTypeOK(ProxyObjects)' /\ CopiesAgree' /\ pc' = pc
      BY <2>1, UnchangedKeeps DEF TypeInv, recVars
    <2>4. SvcOK(svc')
      <3>1. svc' \in {svc, None, [owner |-> Nobody]}
        BY <1>2 DEF Meddle
      <3>2. [owner |-> Nobody] \in Services
        BY DEF Services
      <3> QED
        BY <3>1, <3>2, Zenon DEF TypeInv, SvcOK
    <2>5. dep' \in Deployments \cup {None}
      <3>1. \/ dep' \in Deployments \cup {None} \/ dep' = dep
            \/ dep # None /\ dep' \in Tampered(dep)
        BY <1>2, Zenon DEF Meddle
      <3>2. dep \in Deployments \cup {None}
        BY Zenon DEF TypeInv, DepOK
      <3>3. ASSUME dep \in Deployments
            PROVE  Tampered(dep) \subseteq Deployments
        <4>1. [dep EXCEPT !.owner = Nobody] \in Deployments
          BY <3>3 DEF Deployments
        <4>2. [dep EXCEPT !.inits = FALSE] \in Deployments
          BY <3>3, Zenon DEF Deployments
        <4>3. \A s \in Settings : [dep EXCEPT !.settings = s] \in Deployments
          BY <3>3 DEF Deployments
        <4> QED
          BY <4>1, <4>2, <4>3, Zenon DEF Tampered
      <3> QED
        BY <3>1, <3>2, <3>3, Zenon
    <2>6. depCache' \in Deployments \cup {None}
      BY <2>1, Zenon DEF TypeInv, DepOK
    <2>7. DepOK(dep', meddling') /\ DepOK(depCache', meddling')
      BY <2>2, <2>5, <2>6, Zenon DEF DepOK
    <2> QED
      BY <2>1, <2>2, <2>3, <2>4, <2>7, Zenon DEF TypeInv
  <1>3. CASE SyncCR
    <2>1. SyncDS /\ UNCHANGED <<objVars, edits, meddling, faults>>
      BY <1>3 DEF SyncCR
    <2>2. RecTypeOK(ProxyObjects)' /\ CopiesAgree' /\ pc' = pc
      BY <2>1, SyncDSKeeps, Zenon DEF TypeInv, SyncDS
    <2> QED
      BY <2>1, <2>2, Zenon DEF TypeInv, objVars
  <1>4. CASE SyncObjects \/ Collect \/ UNCHANGED proxyVars
    <2>1. UNCHANGED <<recVars, edits, meddling, faults>>
      BY <1>4 DEF SyncObjects, Collect, proxyVars
    <2>2. /\ dep' \in {dep, None} /\ svc' \in {svc, None}
          /\ depCache' \in {depCache, dep} /\ svcCache' \in {svcCache, svc}
      BY <1>4 DEF SyncObjects, Collect, proxyVars, objVars
    <2>3. RecTypeOK(ProxyObjects)' /\ CopiesAgree' /\ pc' = pc
      BY <2>1, UnchangedKeeps DEF TypeInv, recVars
    <2>4. /\ DepOK(dep', meddling) /\ DepOK(depCache', meddling)
          /\ SvcOK(svc') /\ SvcOK(svcCache')
      BY <2>2, ObjectsStay
    <2> QED
      BY <2>1, <2>3, <2>4, Zenon DEF TypeInv
  <1> QED
    BY <1>1, <1>2, <1>3, <1>4

\* The types hold for every number of edits, faults and changes by others.  As
\* long as others change nothing, every deployment that is stored or cached has
\* a controller and the init container that updates address by position, so that
\* no pass panics (proxy.go:41, 89); and the r.Update at the end of a pass
\* changes nothing.
THEOREM ProxyTypes ==
    ProxySpec => []ProxyTypeOK
  <1>1. ProxyInit => TypeInv
    <2> SUFFICES ASSUME ProxyInit PROVE TypeInv
      OBVIOUS
    <2>1. RecTypeOK(ProxyObjects) /\ CopiesAgree /\ DepOK(None, 0) /\ SvcOK(None)
      BY Zenon DEF ProxyInit, RecTypeOK, CopiesAgree, DepOK, AsMade, SvcOK
    <2>2. /\ edits \in 0 .. MaxEdits /\ meddling \in 0 .. MaxMeddling
          /\ faults \in 0 .. MaxFaults /\ pc \in ProxySteps
      BY ProxyConstants DEF ProxyInit, ProxySteps
    <2> QED
      BY <2>1, <2>2, Zenon DEF ProxyInit, TypeInv
  <1>2. TypeInv /\ [ProxyNext]_proxyVars => TypeInv'
    BY LeavingKeepsTypes, MakingKeepsTypes, OthersKeepTypes DEF ProxyNext, Handler
  <1>3. TypeInv => ProxyTypeOK
    BY Zenon DEF TypeInv, ProxyTypeOK, DepOK, SvcOK
  <1> QED
    BY <1>1, <1>2, <1>3, PTL DEF ProxySpec

=============================================================================

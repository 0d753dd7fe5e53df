--------------------------- MODULE PasswordsProofs --------------------------
(***************************************************************************)
(* Proofs about Passwords for all accounts, windows and ages, and any      *)
(* number of user changes.                                                 *)
(***************************************************************************)
EXTENDS Passwords, ReconcilerProofs, FiniteSetTheorems

\* The secrets that wait for a random password.
Waiting == {a \in Accounts : secrets[a] = NoKey}

\* The copies of the resource: what a fresh one has in common with the stored
\* resource.  The handler edits its own copy before r.Update.
CopiesOK ==
    /\ RecTypeOK(PwObjects)
    /\ cacheFresh => dsCache = ds
    /\ myFresh => ds # NoDS /\ my # NoDS
    /\ myFresh /\ pc # "update" => my.spec = ds.spec

\* Every password was made by a change, or for a secret that a change left
\* without one.
SecretsOK ==
    /\ secrets \in [Accounts -> Secrets] /\ secretCache \in [Accounts -> Secrets]
    /\ made \in Nat \ {0} /\ changes \in 0 .. MaxChanges
    /\ IsFiniteSet(Waiting)
    /\ made + Cardinality(Waiting) <= changes + 1

DirectoryOK ==
    /\ up \in BOOLEAN
    /\ pwd \in [Accounts -> {Unknown} \cup Passwords]
    /\ lost \subseteq Accounts /\ seen \in [Accounts -> SUBSET Secrets]

LoopOK ==
    /\ todo \subseteq Accounts
    /\ todo # {} => pc \in {"secrets", "loop"} /\ todo \subseteq my.spec.accounts
    /\ began \in 0 .. MaxAge

TypeInv ==
    /\ pc \in PwSteps /\ edits \in 0 .. MaxEdits
    /\ CopiesOK /\ SecretsOK /\ DirectoryOK /\ LoopOK

-----------------------------------------------------------------------------
\* The parts of a resource, and what an edit of its annotations leaves.
LEMMA PwObjectParts ==
    /\ \A o \in PwObjects :
        /\ o.spec \in PwSpecs /\ o.status = "status" /\ o.born = 0
        /\ o.spec.accounts \subseteq Accounts
        /\ o.spec.notes \in {NoMap, Unset} \cup Ages
    /\ \A o \in PwObjects, n \in {NoMap, Unset} \cup Ages :
        /\ [o EXCEPT !.spec.notes = n] \in PwObjects
        /\ [o EXCEPT !.spec.notes = n].spec.accounts = o.spec.accounts
        /\ [o EXCEPT !.spec.notes = n].spec.notes = n
  <1>1. \A o \in PwObjects : o.spec \in PwSpecs /\ o.status = "status" /\ o.born = 0
    BY DEF PwObjects, Objects
  <1>2. \A s \in PwSpecs : s.accounts \subseteq Accounts
                           /\ s.notes \in {NoMap, Unset} \cup Ages
    BY PwConstants DEF PwSpecs
  <1>3. ASSUME NEW o \in PwObjects, NEW n \in {NoMap, Unset} \cup Ages
        PROVE  /\ [o EXCEPT !.spec.notes = n] \in PwObjects
               /\ [o EXCEPT !.spec.notes = n].spec.accounts = o.spec.accounts
               /\ [o EXCEPT !.spec.notes = n].spec.notes = n
    <2> DEFINE s == [o.spec EXCEPT !.notes = n]
    <2>1. s \in PwSpecs /\ s.accounts = o.spec.accounts /\ s.notes = n
      BY <1>1 DEF PwSpecs
    <2>2. [o EXCEPT !.spec.notes = n] = [o EXCEPT !.spec = s]
      BY Zenon
    <2> HIDE DEF s
    <2>3. [o EXCEPT !.spec = s] \in PwObjects /\ [o EXCEPT !.spec = s].spec = s
      BY <2>1 DEF PwObjects, Objects
    <2> QED
      BY <2>1, <2>2, <2>3
  <1> QED
    BY <1>1, <1>2, <1>3

\* Two resources that differ in nothing that is stored are the same.
LEMMA SameSpecSameObject ==
    ASSUME NEW o \in PwObjects, NEW p \in PwObjects, o.spec = p.spec
    PROVE  o = p
  BY DEF PwObjects, Objects

\* The handler holds a resource during a pass.
LEMMA HandlerHolds ==
    ASSUME CopiesOK, pc # "idle"
    PROVE  /\ my \in PwObjects
           /\ my.spec.accounts \subseteq Accounts
           /\ my.spec.notes \in {NoMap, Unset} \cup Ages
  <1>1. my \in PwObjects
    BY Zenon DEF CopiesOK, RecTypeOK
  <1> QED
    BY <1>1, PwObjectParts

\* The steps that write no resource keep the copies.
LEMMA QuietKeepsCopies ==
    ASSUME CopiesOK, NEW step,
           \/ Load(step)
           \/ pc \notin {"idle", "update"} /\ Goto(step)
           \/ Return \/ Restart
           \/ SyncDS \/ UserDeletes
           \/ UNCHANGED recVars
    PROVE  CopiesOK'
  <1> USE DEF CopiesOK, RecTypeOK
  <1>1. CASE Load(step)
    BY <1>1, Zenon DEF Load
  <1>2. CASE pc \notin {"idle", "update"} /\ Goto(step)
    BY <1>2, Zenon DEF Goto
  <1>3. CASE Return
    BY <1>3, Zenon DEF Return
  <1>4. CASE Restart
    BY <1>4, Zenon DEF Restart
  <1>5. CASE SyncDS
    BY <1>5, Zenon DEF SyncDS
  <1>6. CASE UserDeletes
    BY <1>6, Zenon DEF UserDeletes
  <1>7. CASE UNCHANGED recVars
    BY <1>7 DEF recVars
  <1> QED
    BY <1>1, <1>2, <1>3, <1>4, <1>5, <1>6, <1>7

\* A status write in the middle of the pass keeps them, and no spec changes.
LEMMA StatusKeepsCopies ==
    ASSUME CopiesOK, pc = "connect", WriteStatus(my.status, "connect")
    PROVE  CopiesOK' /\ my'.spec = my.spec
  <1>1. /\ my \in PwObjects /\ ds \in PwObjects /\ ds # NoDS /\ myFresh
        /\ my.spec = ds.spec
    BY Zenon DEF CopiesOK, RecTypeOK, WriteStatus
  <1>2. /\ ds' \in PwObjects /\ ds' # NoDS /\ my' \in PwObjects /\ my' # NoDS
        /\ ds'.spec = ds.spec /\ my'.spec = my.spec
    <2>1. ds' = [ds EXCEPT !.status = my.status] /\ my' = [my EXCEPT !.status = my.status]
      BY Zenon DEF WriteStatus
    <2>2. my.status \in {"status"}
      BY <1>1, PwObjectParts
    <2> QED
      BY <1>1, <2>1, <2>2, WithStatus, NoDSIsNoPwObject DEF PwObjects
  <1>3. cacheFresh' \in BOOLEAN /\ (cacheFresh' => cacheFresh /\ ds' = ds)
    BY Zenon DEF WriteStatus
  <1>4. cacheFresh' => dsCache' = ds'
    BY <1>3, Zenon DEF WriteStatus, CopiesOK
  <1> QED
    BY <1>1, <1>2, <1>3, <1>4, Zenon DEF WriteStatus, CopiesOK, RecTypeOK

\* So do users.
LEMMA UserKeepsCopies ==
    ASSUME CopiesOK, NEW s \in PwSpecs, UserCreates(s, "status", 0) \/ UserEdits(s)
    PROVE  CopiesOK'
  <1>1. CASE UserCreates(s, "status", 0)
    <2>1. ds' \in PwObjects
      BY <1>1 DEF UserCreates, PwObjects, Objects
    <2>2. ~myFresh
      BY <1>1, Zenon DEF UserCreates, CopiesOK
    <2> QED
      BY <1>1, <2>1, <2>2, Zenon DEF UserCreates, CopiesOK, RecTypeOK
  <1>2. CASE UserEdits(s)
    <2>1. ds' \in PwObjects
      BY <1>2 DEF UserEdits, CopiesOK, RecTypeOK, PwObjects, Objects
    <2> QED
      BY <1>2, <2>1, Zenon DEF UserEdits, CopiesOK, RecTypeOK
  <1> QED
    BY <1>1, <1>2

\* r.Update keeps them: it ends the pass, and the cache is stale if it changed
\* anything.
LEMMA UpdateKeepsCopies ==
    ASSUME CopiesOK, pc = "update", WriteObjectAndReturn
    PROVE  /\ CopiesOK'
           /\ ds' = ds \/ (myFresh /\ ds \in PwObjects /\ my \in PwObjects
                           /\ ds' = [ds EXCEPT !.spec = my.spec])
  <1>1. CASE UNCHANGED <<ds, cacheFresh>>
    BY <1>1, Zenon DEF WriteObjectAndReturn, CopiesOK, RecTypeOK
  <1>2. CASE /\ myFresh
             /\ ds' = [ds EXCEPT !.spec = my.spec]
             /\ \E other \in BOOLEAN :
                  cacheFresh' = (cacheFresh /\ ds' = ds /\ ~other)
    <2>1. ds \in PwObjects /\ my \in PwObjects
      BY <1>2, Zenon DEF CopiesOK, RecTypeOK
    <2>2. ds' \in PwObjects
      BY <1>2, <2>1 DEF PwObjects, Objects
    <2>3. cacheFresh' \in BOOLEAN /\ (cacheFresh' => cacheFresh /\ ds' = ds)
      BY <1>2, Zenon
    <2>4. cacheFresh' => dsCache' = ds'
      BY <2>3, Zenon DEF WriteObjectAndReturn, CopiesOK
    <2> QED
      BY <1>2, <2>1, <2>2, <2>3, <2>4, Zenon DEF WriteObjectAndReturn, CopiesOK, RecTypeOK
  <1> QED
    BY <1>1, <1>2, Zenon DEF WriteObjectAndReturn

\* A resource that gets older changes in nothing else.
LEMMA AgedParts ==
    ASSUME NEW o \in PwObjects
    PROVE  /\ Aged(o) \in PwObjects /\ Aged(o) # NoDS
           /\ Aged(o).spec.accounts = o.spec.accounts
           /\ Aged(o).spec.notes = Older(o.spec.notes)
  <1>1. Older(o.spec.notes) \in {NoMap, Unset} \cup Ages
    BY PwObjectParts, PwConstants DEF Older, Ages
  <1>2. o # NoDS
    BY NoDSIsNoPwObject
  <1>3. Aged(o) = [o EXCEPT !.spec.notes = Older(o.spec.notes)]
    BY <1>2, Zenon DEF Aged
  <1> QED
    BY <1>1, <1>3, PwObjectParts, NoDSIsNoPwObject

\* Time keeps the copies.
LEMMA TickKeepsCopies ==
    ASSUME CopiesOK, Tick
    PROVE  CopiesOK'
  <1>1. Aged(NoDS) = NoDS
    BY Zenon DEF Aged
  <1>2. /\ ds' \in PwObjects \cup {NoDS} /\ (ds # NoDS => ds' # NoDS)
        /\ dsCache' \in PwObjects \cup {NoDS}
        /\ my' \in PwObjects \cup {NoDS}
        /\ my \in PwObjects => my' \in PwObjects /\ my' # NoDS
    BY <1>1, AgedParts, Zenon DEF CopiesOK, RecTypeOK, Tick
  <1>3. cacheFresh => dsCache' = ds'
    BY Zenon DEF CopiesOK, Tick
  <1>4. ASSUME myFresh, pc # "update"
        PROVE  my'.spec = ds'.spec
    <2>1. my = ds
      BY <1>4, SameSpecSameObject, Zenon DEF CopiesOK, RecTypeOK
    <2> QED
      BY <2>1, Zenon DEF Tick
  <1> QED
    BY <1>2, <1>3, <1>4, Zenon DEF Tick, CopiesOK, RecTypeOK

-----------------------------------------------------------------------------
\* What storing or spoiling a secret does to the secrets without a password.
LEMMA WaitingStep ==
    ASSUME SecretsOK, NEW a \in Accounts, NEW v \in Secrets,
           secrets' = [secrets EXCEPT ![a] = v]
    PROVE  /\ secrets' \in [Accounts -> Secrets]
           /\ IsFiniteSet(Waiting') /\ Cardinality(Waiting) \in Nat
           /\ Cardinality(Waiting') \in Nat
           /\ v = NoKey => Cardinality(Waiting') <= Cardinality(Waiting) + 1
           /\ v # NoKey => Cardinality(Waiting') <= Cardinality(Waiting)
           /\ v # NoKey /\ secrets[a] = NoKey =>
                Cardinality(Waiting') + 1 = Cardinality(Waiting)
  <1>0. IsFiniteSet(Waiting) /\ secrets \in [Accounts -> Secrets]
    BY DEF SecretsOK
  <1>1. secrets' \in [Accounts -> Secrets]
    BY <1>0
  <1>2. Waiting' = IF v = NoKey THEN Waiting \cup {a} ELSE Waiting \ {a}
    BY <1>0 DEF Waiting
  <1>3. Cardinality(Waiting) \in Nat
    BY <1>0, FS_CardinalityType
  <1>4. CASE v = NoKey
    <2>1. /\ IsFiniteSet(Waiting \cup {a})
          /\ \/ Cardinality(Waiting \cup {a}) = Cardinality(Waiting)
             \/ Cardinality(Waiting \cup {a}) = Cardinality(Waiting) + 1
      BY <1>0, FS_AddElement
    <2> QED
      BY <1>1, <1>2, <1>3, <1>4, <2>1
  <1>5. CASE v # NoKey
    <2>1. /\ IsFiniteSet(Waiting \ {a})
          /\ a \in Waiting => Cardinality(Waiting \ {a}) = Cardinality(Waiting) - 1
          /\ a \notin Waiting => Cardinality(Waiting \ {a}) = Cardinality(Waiting)
      BY <1>0, FS_RemoveElement
    <2>2. secrets[a] = NoKey => a \in Waiting
      BY DEF Waiting
    <2>3. Cardinality(Waiting \ {a}) \in Nat
      BY <2>1, FS_CardinalityType
    <2> QED
      BY <1>1, <1>2, <1>3, <1>5, <2>1, <2>2, <2>3
  <1> QED
    BY <1>4, <1>5

\* A password that is new in the directory, or in the cache, was made before.
LEMMA KeysArePasswords ==
    ASSUME NEW x \in Secrets
    PROVE  HasKey(x) => x \in Passwords /\ x # Unknown
  BY PwConstants DEF Secrets, HasKey, Passwords, Absent, NoData, NoKey, Unknown

\* Steps that leave the secrets alone keep what is known of them.
LEMMA SecretsStay ==
    ASSUME SecretsOK, UNCHANGED <<secrets, made, changes>>,
           secretCache' \in [Accounts -> Secrets]
    PROVE  SecretsOK'
  <1>1. Waiting' = Waiting
    BY DEF Waiting
  <1> QED
    BY <1>1 DEF SecretsOK

\* A pass that ends, with or without the process, leaves nothing to do.
LEMMA EndKeepsTypes ==
    ASSUME TypeInv, CopiesOK', EndLoop, pc' = "idle",
           UNCHANGED <<secrets, made, changes, edits, up>>,
           pwd' \in [Accounts -> {Unknown} \cup Passwords],
           secretCache' = secretCache \/ secretCache' = secrets
    PROVE  TypeInv'
  <1>1. SecretsOK'
    BY SecretsStay DEF TypeInv, SecretsOK
  <1>2. LoopOK'
    BY PwConstants DEF EndLoop, LoopOK, Ages
  <1>3. DirectoryOK'
    BY DEF TypeInv, DirectoryOK, EndLoop
  <1> QED
    BY <1>1, <1>2, <1>3 DEF TypeInv, PwSteps

\* The system starts with a password in every secret.
LEMMA PwTypesInit ==
    PwInit => TypeInv
  <1> SUFFICES ASSUME PwInit PROVE TypeInv
    OBVIOUS
  <1>1. CopiesOK
    <2>1. ds \in PwObjects \cup {NoDS}
      BY DEF PwInit
    <2> QED
      BY <2>1, Zenon DEF PwInit, CopiesOK, RecTypeOK
  <1>2. SecretsOK
    <2>1. 1 \in Secrets /\ 1 # NoKey
      BY PwConstants DEF Secrets, Passwords, NoKey
    <2>2. secrets \in [Accounts -> Secrets] /\ Waiting = {}
      BY <2>1 DEF PwInit, Waiting
    <2>3. IsFiniteSet({}) /\ Cardinality({}) = 0
      BY FS_EmptySet
    <2> QED
      BY <2>2, <2>3, PwConstants DEF PwInit, SecretsOK
  <1>3. DirectoryOK
    BY DEF PwInit, DirectoryOK
  <1>4. LoopOK
    BY PwConstants DEF PwInit, LoopOK, Ages
  <1> QED
    BY <1>1, <1>2, <1>3, <1>4, PwConstants DEF PwInit, TypeInv, PwSteps

\* What ends a pass: a return, a panic, a restart.
LEMMA EndsKeepCopies ==
    ASSUME CopiesOK, GiveUp \/ Panic
    PROVE  CopiesOK' /\ EndLoop /\ pc' = "idle" /\ ds' = ds
  <1>1. CASE GiveUp
    BY <1>1, QuietKeepsCopies DEF GiveUp, Return
  <1>2. CASE Panic
    BY <1>2, QuietKeepsCopies DEF Panic, Restart
  <1> QED
    BY <1>1, <1>2

\* Every way to end a pass keeps the types.
LEMMA EndingsKeepTypes ==
    ASSUME TypeInv,
           \/ \E a \in Accounts :
                \/ AddPasswordFails(a) \/ SecretPanics(a)
                \/ AccountFails(a) \/ BindPanics(a)
           \/ NoConnection \/ AnnotationPanics \/ UpdateCR \/ Crash
    PROVE  TypeInv'
  <1> USE DEF TypeInv
  <1>0. pwd \in [Accounts -> {Unknown} \cup Passwords]
    BY DEF DirectoryOK
  <1>1. ASSUME NEW a \in Accounts, AddPasswordFails(a) \/ SecretPanics(a) \/ BindPanics(a)
        PROVE  TypeInv'
    <2>1. GiveUp \/ Panic
      BY <1>1 DEF AddPasswordFails, SecretPanics, BindPanics
    <2>2. /\ UNCHANGED <<secrets, made, changes, edits, up, pwd>>
          /\ secretCache' = secretCache \/ secretCache' = secrets
      BY <1>1 DEF AddPasswordFails, SecretPanics, BindPanics, Panic
    <2> QED
      BY <1>0, <2>1, <2>2, EndsKeepCopies, EndKeepsTypes
  <1>2. ASSUME NEW a \in Accounts, AccountFails(a)
        PROVE  TypeInv'
    <2>1. GiveUp /\ UNCHANGED <<secrets, secretCache, made, changes, edits, up>>
      BY <1>2 DEF AccountFails
    <2>2. pwd' \in [Accounts -> {Unknown} \cup Passwords]
      <3>1. \/ pwd' = pwd
            \/ pwd' = [pwd EXCEPT ![a] = Given(secretCache[a])]
        BY <1>2 DEF AccountFails
      <3>2. Given(secretCache[a]) \in {Unknown} \cup Passwords
        BY KeysArePasswords DEF SecretsOK, Given
      <3> QED
        BY <1>0, <3>1, <3>2
    <2> QED
      BY <2>1, <2>2, EndsKeepCopies, EndKeepsTypes
  <1>3. CASE NoConnection \/ AnnotationPanics \/ Crash
    <2>1. GiveUp \/ Panic
      BY <1>3 DEF NoConnection, AnnotationPanics, Crash
    <2>2. /\ UNCHANGED <<secrets, made, changes, edits, up, pwd>>
          /\ secretCache' = secretCache \/ secretCache' = secrets
      BY <1>3 DEF NoConnection, AnnotationPanics, Crash, Panic
    <2> QED
      BY <1>0, <2>1, <2>2, EndsKeepCopies, EndKeepsTypes
  <1>4. CASE UpdateCR
    <2>1. CopiesOK'
      BY <1>4, UpdateKeepsCopies DEF UpdateCR, At
    <2>2. pc' = "idle"
      BY <1>4, Zenon DEF UpdateCR, WriteObjectAndReturn
    <2>3. EndLoop /\ UNCHANGED <<secrets, secretCache, made, changes, edits, up, pwd>>
      BY <1>4 DEF UpdateCR
    <2> QED
      BY <1>0, <2>1, <2>2, <2>3, EndKeepsTypes
  <1> QED
    BY <1>1, <1>2, <1>3, <1>4

\* The steps of reconcileSecrets keep the types: there is a password left to
\* make for every secret that lacks one (secrets.go:17-61).
LEMMA SecretStepsKeepTypes ==
    ASSUME TypeInv,
           \/ StartReconcile \/ SecretsDone
           \/ \E a \in Accounts : AddRandomPassword(a)
    PROVE  TypeInv'
  <1> USE DEF TypeInv
  <1>1. CASE StartReconcile
    <2>1. CopiesOK' /\ pc' = "secrets" /\ my' = dsCache /\ dsCache \in PwObjects
      BY <1>1, QuietKeepsCopies DEF StartReconcile, Load, CopiesOK, RecTypeOK
    <2>2. LoopOK'
      BY <1>1, <2>1, PwObjectParts DEF StartReconcile, LoopOK
    <2>3. SecretsOK'
      BY <1>1, SecretsStay DEF StartReconcile, SecretsOK
    <2> QED
      BY <1>1, <2>1, <2>2, <2>3 DEF StartReconcile, DirectoryOK, PwSteps
  <1>2. CASE SecretsDone
    <2>1. CopiesOK' /\ pc' = "connect"
      BY <1>2, QuietKeepsCopies DEF SecretsDone, At, Goto
    <2>2. LoopOK'
      BY <1>2 DEF SecretsDone, LoopOK
    <2>3. SecretsOK'
      BY <1>2, SecretsStay DEF SecretsDone, SecretsOK
    <2> QED
      BY <1>2, <2>1, <2>2, <2>3 DEF SecretsDone, DirectoryOK, PwSteps
  <1>3. ASSUME NEW a \in Accounts, AddRandomPassword(a)
        PROVE  TypeInv'
    <2>1. /\ pc = "secrets" /\ secrets[a] = NoKey
          /\ secrets' = [secrets EXCEPT ![a] = made + 1] /\ made' = made + 1
          /\ UNCHANGED <<secretCache, up, pwd, edits, changes>>
      BY <1>3 DEF AddRandomPassword, At
    <2>2. Cardinality(Waiting) \in Nat /\ Cardinality(Waiting) >= 1
      <3>1. a \in Waiting /\ IsFiniteSet(Waiting)
        BY <2>1 DEF Waiting, SecretsOK
      <3>2. Cardinality(Waiting) \in Nat /\ Cardinality(Waiting) # 0
        BY <3>1, FS_CardinalityType, FS_EmptySet
      <3> QED
        BY <3>2
    <2>3. made + 1 \in Secrets /\ made + 1 # NoKey
      BY <2>2, PwConstants DEF SecretsOK, Secrets, Passwords, NoKey
    <2>4. /\ secrets' \in [Accounts -> Secrets] /\ IsFiniteSet(Waiting')
          /\ Cardinality(Waiting') \in Nat
          /\ Cardinality(Waiting') + 1 = Cardinality(Waiting)
      BY <2>1, <2>3, WaitingStep
    <2>5. SecretsOK'
      BY <2>1, <2>2, <2>4, PwConstants DEF SecretsOK
    <2>6. CASE Goto("secrets") /\ todo' = todo \ {a}
               /\ UNCHANGED <<began, seen, lost>>
      <3>1. CopiesOK' /\ pc' = "secrets" /\ my' = my
        BY <2>1, <2>6, QuietKeepsCopies DEF Goto
      <3>2. LoopOK'
        BY <2>1, <2>6, <3>1 DEF LoopOK
      <3> QED
        BY <2>1, <2>5, <2>6, <3>1, <3>2 DEF DirectoryOK, PwSteps
    <2>7. CASE GiveUp
      <3>1. CopiesOK' /\ EndLoop /\ pc' = "idle"
        BY <2>7, EndsKeepCopies
      <3>2. LoopOK'
        BY <3>1, PwConstants DEF EndLoop, LoopOK, Ages
      <3> QED
        BY <2>1, <2>5, <3>1, <3>2 DEF EndLoop, DirectoryOK, PwSteps
    <2> QED
      BY <1>3, <2>6, <2>7 DEF AddRandomPassword
  <1> QED
    BY <1>1, <1>2, <1>3

\* The steps up to updatePasswords, its decision and its loop keep the types
\* (passwords.go:31-95).
LEMMA CheckStepsKeepTypes ==
    ASSUME TypeInv,
           \/ StepsBetween \/ SkipCheck \/ BeginCheck \/ RecordCheck
           \/ \E a \in Accounts :
                PasswordIsRight(a) \/ SetPassword(a) \/ SetEmptyPassword(a)
    PROVE  TypeInv'
  <1> USE DEF TypeInv
  <1>1. CASE StepsBetween
    <2>1. CASE WriteStatus(my.status, "connect") /\ UNCHANGED pwVars
      <3>1. CopiesOK' /\ my'.spec = my.spec
        BY <1>1, <2>1, StatusKeepsCopies DEF StepsBetween, At
      <3>2. pc' = "connect" /\ pc = "connect"
        BY <1>1, <2>1, Zenon DEF StepsBetween, At, WriteStatus
      <3>3. SecretsOK'
        BY <2>1, SecretsStay DEF pwVars, SecretsOK
      <3>4. DirectoryOK' /\ LoopOK'
        BY <2>1, <3>1, <3>2 DEF pwVars, DirectoryOK, LoopOK
      <3> QED
        BY <2>1, <3>1, <3>2, <3>3, <3>4 DEF pwVars, PwSteps
    <2>2. CASE GiveUp /\ UNCHANGED <<secrets, secretCache, up, pwd, made, edits, changes>>
      BY <2>2, EndsKeepCopies, EndKeepsTypes DEF DirectoryOK
    <2> QED
      BY <1>1, <2>1, <2>2 DEF StepsBetween
  <1>2. CASE SkipCheck
    <2>1. CopiesOK' /\ pc' = "update" /\ my' = my /\ pc = "connect"
      BY <1>2, QuietKeepsCopies DEF SkipCheck, At, Goto
    <2>2. SecretsOK'
      BY <1>2, SecretsStay DEF SkipCheck, pwVars, SecretsOK
    <2> QED
      BY <1>2, <2>1, <2>2 DEF SkipCheck, pwVars, DirectoryOK, LoopOK, PwSteps
  <1>3. CASE BeginCheck
    <2>1. CopiesOK' /\ pc' = "loop" /\ my' = my /\ pc = "connect"
      BY <1>3, QuietKeepsCopies DEF BeginCheck, At, Goto
    <2>2. SecretsOK'
      BY <1>3, SecretsStay DEF BeginCheck, SecretsOK
    <2>3. LoopOK'
      BY <1>3, <2>1, HandlerHolds, PwConstants DEF BeginCheck, LoopOK, Ages
    <2>4. DirectoryOK'
      <3>1. seen' \in [Accounts -> SUBSET Secrets] /\ lost' \subseteq Accounts
        BY <1>3 DEF BeginCheck, SecretsOK
      <3> QED
        BY <1>3, <3>1 DEF BeginCheck, DirectoryOK
    <2> QED
      BY <1>3, <2>1, <2>2, <2>3, <2>4 DEF BeginCheck, PwSteps
  <1>4. CASE RecordCheck
    <2>1. pc = "loop" /\ pc' = "update" /\ todo = {} /\ UNCHANGED pwVars
      BY <1>4 DEF RecordCheck, At
    <2>2. my' \in PwObjects
      <3>1. began \in {NoMap, Unset} \cup Ages /\ my \in PwObjects
        BY <2>1, HandlerHolds, PwConstants DEF LoopOK, Ages
      <3> QED
        BY <1>4, <3>1, PwObjectParts DEF RecordCheck
    <2>3. my' # NoDS
      BY <2>2, NoDSIsNoPwObject
    <2>4. CopiesOK'
      BY <1>4, <2>1, <2>2, <2>3, Zenon DEF RecordCheck, CopiesOK, RecTypeOK
    <2>5. SecretsOK'
      BY <2>1, SecretsStay DEF pwVars, SecretsOK
    <2> QED
      BY <2>1, <2>4, <2>5 DEF pwVars, DirectoryOK, LoopOK, PwSteps
  <1>5. ASSUME NEW a \in Accounts,
               PasswordIsRight(a) \/ SetPassword(a) \/ SetEmptyPassword(a)
        PROVE  TypeInv'
    <2>1. /\ pc = "loop" /\ todo' = todo \ {a} /\ Goto("loop")
          /\ UNCHANGED <<secrets, secretCache, up, began, seen, lost, made, edits,
                         changes>>
      BY <1>5 DEF PasswordIsRight, SetPassword, SetEmptyPassword, At
    <2>2. CopiesOK' /\ pc' = "loop" /\ my' = my
      BY <2>1, QuietKeepsCopies DEF Goto
    <2>3. pwd' \in [Accounts -> {Unknown} \cup Passwords]
      <3>1. /\ HasKey(secretCache[a]) => secretCache[a] \in Passwords
            /\ Given(secretCache[a]) \in {Unknown} \cup Passwords
        BY KeysArePasswords DEF SecretsOK, Given
      <3> QED
        BY <1>5, <3>1 DEF PasswordIsRight, SetPassword, SetEmptyPassword, DirectoryOK
    <2>4. SecretsOK'
      BY <2>1, SecretsStay DEF SecretsOK
    <2>5. LoopOK' /\ DirectoryOK'
      BY <2>1, <2>2, <2>3 DEF LoopOK, DirectoryOK
    <2> QED
      BY <2>1, <2>2, <2>4, <2>5 DEF PwSteps
  <1> QED
    BY <1>1, <1>2, <1>3, <1>4, <1>5

\* Users, the server, the clock and the watches keep the types.
LEMMA EnvironmentKeepsTypes ==
    ASSUME TypeInv,
           \/ Tick \/ UserStep \/ ServerFlips \/ SyncCR
           \/ \E a \in Accounts :
                SecretChanges(a) \/ PasswordReset(a) \/ SyncSecret(a)
           \/ UNCHANGED allVars
    PROVE  TypeInv'
  <1> USE DEF TypeInv
  <1>1. CASE Tick
    <2>1. CopiesOK' /\ pc' = pc
      BY <1>1, TickKeepsCopies DEF Tick
    <2>2. SecretsOK'
      BY <1>1, SecretsStay DEF Tick, SecretsOK
    <2>3. LoopOK'
      <3>1. began' \in 0 .. MaxAge
        BY <1>1, PwConstants DEF Tick, Older, LoopOK, Ages
      <3>2. pc # "idle" => my'.spec.accounts = my.spec.accounts
        BY <1>1, HandlerHolds, AgedParts DEF Tick
      <3>3. UNCHANGED <<pc, todo>>
        BY <1>1 DEF Tick
      <3>4. todo # {} => pc # "idle"
        BY DEF LoopOK
      <3> QED
        BY <3>1, <3>2, <3>3, <3>4 DEF LoopOK
    <2> QED
      BY <1>1, <2>1, <2>2, <2>3 DEF Tick, DirectoryOK
  <1>2. CASE UserStep
    <2>1. CopiesOK' /\ UNCHANGED <<pc, my>>
      <3>1. ASSUME NEW s \in PwSpecs, UserCreates(s, "status", 0) \/ UserEdits(s)
            PROVE  CopiesOK' /\ UNCHANGED <<pc, my>>
        BY <3>1, UserKeepsCopies DEF UserCreates, UserEdits
      <3>2. CASE UserDeletes
        BY <3>2, QuietKeepsCopies DEF UserDeletes
      <3> QED
        BY <1>2, <3>1, <3>2 DEF UserStep
    <2>2. SecretsOK'
      BY <1>2, SecretsStay DEF UserStep, SecretsOK
    <2>3. edits' \in 0 .. MaxEdits
      BY <1>2, PwConstants DEF UserStep
    <2> QED
      BY <1>2, <2>1, <2>2, <2>3 DEF UserStep, DirectoryOK, LoopOK
  <1>3. CASE ServerFlips
    <2>1. CopiesOK' /\ UNCHANGED <<pc, my>>
      BY <1>3, QuietKeepsCopies DEF ServerFlips, recVars
    <2>2. SecretsOK'
      BY <1>3, SecretsStay DEF ServerFlips, SecretsOK
    <2>3. DirectoryOK'
      BY <1>3, Zenon DEF ServerFlips, DirectoryOK
    <2> QED
      BY <1>3, <2>1, <2>2, <2>3 DEF ServerFlips, LoopOK
  <1>4. CASE SyncCR
    <2>1. CopiesOK' /\ UNCHANGED <<pc, my>>
      BY <1>4, QuietKeepsCopies DEF SyncCR, SyncDS
    <2>2. SecretsOK'
      BY <1>4, SecretsStay DEF SyncCR, pwVars, SecretsOK
    <2> QED
      BY <1>4, <2>1, <2>2 DEF SyncCR, pwVars, DirectoryOK, LoopOK
  <1>5. ASSUME NEW a \in Accounts, SecretChanges(a)
        PROVE  TypeInv'
    <2>1. CopiesOK' /\ UNCHANGED <<pc, my>>
      BY <1>5, QuietKeepsCopies DEF SecretChanges, recVars
    <2>2. changes < MaxChanges /\ changes' = changes + 1
      BY <1>5 DEF SecretChanges
    <2>3. SecretsOK'
      <3>1. Cardinality(Waiting) \in Nat
        BY FS_CardinalityType DEF SecretsOK
      <3>2. CASE made' = made + 1 /\ secrets' = [secrets EXCEPT ![a] = made + 1]
        <4>1. made + 1 \in Secrets /\ made + 1 # NoKey
          BY <2>2, <3>1, PwConstants DEF SecretsOK, Secrets, Passwords, NoKey
        <4>2. /\ secrets' \in [Accounts -> Secrets] /\ IsFiniteSet(Waiting')
              /\ Cardinality(Waiting') \in Nat
              /\ Cardinality(Waiting') <= Cardinality(Waiting)
          BY <3>2, <4>1, WaitingStep
        <4> QED
          BY <1>5, <2>2, <3>1, <3>2, <4>2, PwConstants DEF SecretChanges, SecretsOK
      <3>3. ASSUME NEW s \in {Absent, NoData, NoKey},
                   secrets' = [secrets EXCEPT ![a] = s], made' = made
            PROVE  SecretsOK'
        <4>1. s \in Secrets
          BY DEF Secrets
        <4>2. /\ secrets' \in [Accounts -> Secrets] /\ IsFiniteSet(Waiting')
              /\ Cardinality(Waiting') \in Nat
              /\ Cardinality(Waiting') <= Cardinality(Waiting) + 1
          <5>1. /\ secrets' \in [Accounts -> Secrets] /\ IsFiniteSet(Waiting')
                /\ Cardinality(Waiting') \in Nat
                /\ \/ Cardinality(Waiting') <= Cardinality(Waiting) + 1
                   \/ Cardinality(Waiting') <= Cardinality(Waiting)
            BY <3>3, <4>1, WaitingStep, Zenon
          <5> QED
            BY <3>1, <5>1
        <4> QED
          BY <1>5, <2>2, <3>1, <3>3, <4>2, PwConstants DEF SecretChanges, SecretsOK
      <3> QED
        BY <1>5, <3>2, <3>3 DEF SecretChanges
    <2> QED
      BY <1>5, <2>1, <2>3 DEF SecretChanges, DirectoryOK, LoopOK
  <1>6. ASSUME NEW a \in Accounts, PasswordReset(a)
        PROVE  TypeInv'
    <2>1. CopiesOK' /\ UNCHANGED <<pc, my>>
      BY <1>6, QuietKeepsCopies DEF PasswordReset, recVars
    <2>2. SecretsOK'
      <3>1. Waiting' = Waiting /\ Cardinality(Waiting) \in Nat
        BY <1>6, FS_CardinalityType DEF PasswordReset, Waiting, SecretsOK
      <3> QED
        BY <1>6, <3>1, PwConstants DEF PasswordReset, SecretsOK
    <2>3. DirectoryOK'
      BY <1>6 DEF PasswordReset, DirectoryOK
    <2> QED
      BY <1>6, <2>1, <2>2, <2>3 DEF PasswordReset, LoopOK
  <1>7. ASSUME NEW a \in Accounts, SyncSecret(a)
        PROVE  TypeInv'
    <2>1. CopiesOK' /\ UNCHANGED <<pc, my>>
      BY <1>7, QuietKeepsCopies DEF SyncSecret, recVars
    <2>2. SecretsOK'
      BY <1>7, SecretsStay DEF SyncSecret, SecretsOK
    <2>3. DirectoryOK'
      <3>1. seen' = seen \/ seen' = [seen EXCEPT ![a] = seen[a] \cup {secrets[a]}]
        BY <1>7 DEF SyncSecret
      <3>2. seen' \in [Accounts -> SUBSET Secrets]
        BY <3>1 DEF DirectoryOK, SecretsOK
      <3> QED
        BY <1>7, <3>2 DEF SyncSecret, DirectoryOK
    <2> QED
      BY <1>7, <2>1, <2>2, <2>3 DEF SyncSecret, LoopOK
  <1>8. CASE UNCHANGED allVars
    <2>1. CopiesOK' /\ UNCHANGED <<pc, my>>
      BY <1>8, QuietKeepsCopies DEF allVars, recVars
    <2>2. SecretsOK'
      BY <1>8, SecretsStay DEF allVars, pwVars, SecretsOK
    <2> QED
      BY <1>8, <2>1, <2>2 DEF allVars, pwVars, DirectoryOK, LoopOK
  <1> QED
    BY <1>1, <1>2, <1>3, <1>4, <1>5, <1>6, <1>7, <1>8

\* Every step keeps the types.
LEMMA PwTypesStep ==
    ASSUME TypeInv, [PwNext]_allVars
    PROVE  TypeInv'
  BY SecretStepsKeepTypes, CheckStepsKeepTypes, EndingsKeepTypes, EnvironmentKeepsTypes
     DEF PwNext, Handler, Environment, Visit

\* The handler's loops, secrets and the directory keep their types: the accounts
\* a loop has left are always those of the resource it holds, and random
\* passwords are made only where somebody took one away.
THEOREM PwTypes ==
    PwSpec => []PwTypeOK
  <1>1. TypeInv => PwTypeOK
    <2> SUFFICES ASSUME TypeInv PROVE PwTypeOK
      OBVIOUS
    <2>1. made \in Passwords
      <3>1. Cardinality(Waiting) \in Nat
        BY FS_CardinalityType DEF TypeInv, SecretsOK
      <3> QED
        BY <3>1, PwConstants DEF TypeInv, SecretsOK, Passwords
    <2> QED
      BY <2>1 DEF TypeInv, CopiesOK, SecretsOK, DirectoryOK, LoopOK, PwTypeOK
  <1> QED
    BY <1>1, PwTypesInit, PwTypesStep, PTL DEF PwSpec

-----------------------------------------------------------------------------
\* What a record of a check promises: the time moved by a window, and every
\* account whose secret had the key was visited.
Spaced(old, new) == old \notin Ages \/ old = MaxAge \/ old - new >= Window
Checked(S) == \A a \in S : (\A x \in seen[a] : ~Keyless(x)) => Updated(a)

\* The inductive invariant of CheckSpacing and KeyedAreUpdated.  While the loop
\* runs, the secrets it may read are among those it saw, the accounts it has
\* visited are done, and a check recorded now would be in time; before r.Update
\* the handler holds the stored resource, or one that differs in the time alone
\* and keeps the promise.
ChecksOK ==
    /\ pc = "loop" => \A a \in Accounts : secretCache[a] \in seen[a]
    /\ pc = "loop" => Checked(my.spec.accounts \ todo)
    /\ pc = "loop" /\ myFresh => Spaced(ds.spec.notes, began)
    /\ pc = "update" /\ myFresh =>
        \/ my.spec = ds.spec
        \/ /\ my.spec.accounts = ds.spec.accounts
           /\ Spaced(ds.spec.notes, my.spec.notes)
           /\ Checked(my.spec.accounts)

\* Two times that are a window apart stay so while both grow older, also at the
\* greatest age.
LEMMA OlderKeepsSpacing ==
    ASSUME NEW old \in {NoMap, Unset} \cup Ages, NEW new \in {NoMap, Unset} \cup Ages,
           Spaced(old, new)
    PROVE  Spaced(Older(old), Older(new))
  BY PwConstants DEF Spaced, Older, Ages, NoMap, Unset

\* A pass outside updatePasswords promises nothing yet.
LEMMA ElsewhereKeepsChecks ==
    ASSUME pc' \in {"idle", "secrets", "connect"}
    PROVE  ChecksOK'
  BY DEF ChecksOK

\* The decision to check and the turns of the loop keep the promise.
LEMMA LoopKeepsChecks ==
    ASSUME TypeInv, ChecksOK,
           \/ BeginCheck
           \/ \E a \in Accounts :
                PasswordIsRight(a) \/ SetPassword(a) \/ SetEmptyPassword(a)
    PROVE  ChecksOK'
  <1> USE DEF TypeInv
  <1>1. CASE BeginCheck
    <2>1. /\ pc = "connect" /\ pc' = "loop" /\ ~TooSoon(my.spec.notes)
          /\ todo' = my.spec.accounts /\ began' = 0
          /\ seen' = [b \in Accounts |-> {secretCache[b]}]
          /\ UNCHANGED <<ds, my, myFresh, secretCache>>
      BY <1>1 DEF BeginCheck, At, Goto
    <2>2. my.spec.notes \in {NoMap, Unset} \cup Ages
      BY <2>1, HandlerHolds
    <2>3. Spaced(my.spec.notes, 0)
      BY <2>1, <2>2, PwConstants DEF TooSoon, Spaced, Ages, NoMap, Unset
    <2>4. myFresh => ds.spec = my.spec
      BY <2>1, Zenon DEF CopiesOK
    <2>5. Checked(my.spec.accounts \ todo)'
      BY <2>1 DEF Checked
    <2>6. myFresh' => Spaced(ds'.spec.notes, began')
      BY <2>1, <2>3, <2>4, Zenon
    <2>7. \A b \in Accounts : secretCache'[b] \in seen'[b]
      BY <2>1
    <2> QED
      BY <2>1, <2>5, <2>6, <2>7, Zenon DEF ChecksOK
  <1>2. ASSUME NEW a \in Accounts,
               PasswordIsRight(a) \/ SetPassword(a) \/ SetEmptyPassword(a)
        PROVE  ChecksOK'
    <2>1. /\ pc = "loop" /\ pc' = "loop" /\ todo' = todo \ {a}
          /\ UNCHANGED <<ds, my, myFresh, began, seen, lost, secretCache>>
      BY <1>2 DEF PasswordIsRight, SetPassword, SetEmptyPassword, At, Goto
    <2>2. /\ pwd \in [Accounts -> {Unknown} \cup Passwords]
          /\ my.spec.accounts \subseteq Accounts
          /\ secretCache[a] \in seen[a]
      BY <2>1, HandlerHolds DEF DirectoryOK, ChecksOK
    <2>3. Keyless(secretCache[a]) \/ pwd'[a] = secretCache[a]
      BY <1>2, <2>2 DEF PasswordIsRight, SetPassword, SetEmptyPassword
    <2>4. \A b \in Accounts : b # a => pwd'[b] = pwd[b]
      BY <1>2, <2>2 DEF PasswordIsRight, SetPassword, SetEmptyPassword
    <2>5. ASSUME NEW b \in my.spec.accounts \ todo', \A x \in seen[b] : ~Keyless(x)
          PROVE  pwd'[b] \in seen[b] \/ b \in lost
      <3>1. CASE b = a
        BY <2>2, <2>3, <2>5, <3>1, Zenon
      <3>2. CASE b # a
        <4>1. b \in my.spec.accounts \ todo /\ b \in Accounts
          BY <2>1, <2>2, <2>5, <3>2
        <4>2. pwd[b] \in seen[b] \/ b \in lost
          BY <2>1, <2>5, <4>1, Zenon DEF ChecksOK, Checked, Updated
        <4> QED
          BY <2>4, <3>2, <4>1, <4>2
      <3> QED
        BY <3>1, <3>2
    <2>6. Checked(my.spec.accounts \ todo)'
      BY <2>1, <2>5, Zenon DEF Checked, Updated
    <2> QED
      BY <2>1, <2>6, Zenon DEF ChecksOK
  <1> QED
    BY <1>1, <1>2

\* So do the two ways to r.Update: nothing was checked, or all accounts were.
LEMMA DecisionKeepsChecks ==
    ASSUME TypeInv, ChecksOK, SkipCheck \/ RecordCheck
    PROVE  ChecksOK'
  <1> USE DEF TypeInv
  <1>1. CASE SkipCheck
    <2>1. pc = "connect" /\ pc' = "update" /\ UNCHANGED <<ds, my, myFresh>>
      BY <1>1 DEF SkipCheck, At, Goto
    <2>2. myFresh => my.spec = ds.spec
      BY <2>1, Zenon DEF CopiesOK
    <2> QED
      BY <2>1, <2>2, Zenon DEF ChecksOK
  <1>2. CASE RecordCheck
    <2>1. /\ pc = "loop" /\ pc' = "update" /\ todo = {}
          /\ my' = [my EXCEPT !.spec.notes = began]
          /\ UNCHANGED <<ds, myFresh, pwd, seen, lost>>
      BY <1>2 DEF RecordCheck, At, pwVars
    <2>2. my'.spec.accounts = my.spec.accounts /\ my'.spec.notes = began
      BY <2>1, HandlerHolds, PwObjectParts, PwConstants DEF LoopOK, Ages
    <2>3. myFresh => my.spec = ds.spec
      BY <2>1, Zenon DEF CopiesOK
    <2>4. Checked(my.spec.accounts)'
      <3>1. my.spec.accounts \ todo = my.spec.accounts
        BY <2>1
      <3>2. Checked(my.spec.accounts)
        BY <2>1, <3>1, Zenon DEF ChecksOK
      <3> QED
        BY <2>1, <2>2, <3>2, Zenon DEF Checked, Updated
    <2>5. myFresh => Spaced(ds.spec.notes, began)
      BY <2>1, Zenon DEF ChecksOK
    <2>6. myFresh' => /\ my'.spec.accounts = ds'.spec.accounts
                      /\ Spaced(ds'.spec.notes, my'.spec.notes)
      BY <2>1, <2>2, <2>3, <2>5, Zenon
    <2>7. pc' # "loop"
      BY <2>1
    <2> QED
      BY <2>4, <2>6, <2>7, Zenon DEF ChecksOK
  <1> QED
    BY <1>1, <1>2

\* So does time: the recorded time, that of the running loop and the stored one
\* grow older together.
LEMMA TickKeepsChecks ==
    ASSUME TypeInv, ChecksOK, Tick
    PROVE  ChecksOK'
  <1> USE DEF TypeInv
  <1>1. UNCHANGED <<pc, myFresh, todo, pwd, seen, lost, secretCache>>
    BY DEF Tick
  <1>2. ASSUME pc # "idle"
        PROVE  /\ my \in PwObjects /\ my'.spec.accounts = my.spec.accounts
               /\ my'.spec.notes = Older(my.spec.notes)
               /\ my.spec.notes \in {NoMap, Unset} \cup Ages
    BY <1>2, HandlerHolds, AgedParts DEF Tick
  <1>3. ASSUME myFresh
        PROVE  /\ ds \in PwObjects /\ ds'.spec.accounts = ds.spec.accounts
               /\ ds'.spec.notes = Older(ds.spec.notes)
               /\ ds.spec.notes \in {NoMap, Unset} \cup Ages
    <2>1. ds \in PwObjects
      BY <1>3, Zenon DEF CopiesOK, RecTypeOK
    <2> QED
      BY <2>1, AgedParts, PwObjectParts DEF Tick
  <1>4. ASSUME pc = "loop"
        PROVE  /\ Checked(my.spec.accounts \ todo)'
               /\ \A a \in Accounts : secretCache'[a] \in seen'[a]
    <2>1. my'.spec.accounts = my.spec.accounts
      BY <1>2, <1>4
    <2> QED
      BY <1>1, <1>4, <2>1, Zenon DEF ChecksOK, Checked, Updated
  <1>5. ASSUME pc = "loop", myFresh
        PROVE  Spaced(ds'.spec.notes, began')
    <2>1. began' = Older(began) /\ began \in {NoMap, Unset} \cup Ages
      BY <1>5, PwConstants DEF Tick, At, LoopOK, Ages
    <2>2. Spaced(ds.spec.notes, began)
      BY <1>5, Zenon DEF ChecksOK
    <2>3. Spaced(Older(ds.spec.notes), Older(began))
      BY <1>3, <1>5, <2>1, <2>2, OlderKeepsSpacing
    <2> QED
      BY <1>3, <1>5, <2>1, <2>3, Zenon
  <1>6. ASSUME pc = "update", myFresh
        PROVE  \/ my'.spec = ds'.spec
               \/ /\ my'.spec.accounts = ds'.spec.accounts
                  /\ Spaced(ds'.spec.notes, my'.spec.notes)
                  /\ Checked(my.spec.accounts)'
    <2>0. my \in PwObjects /\ ds \in PwObjects
      BY <1>2, <1>3, <1>6
    <2>1. CASE my.spec = ds.spec
      <3>1. my = ds
        BY <2>0, <2>1, SameSpecSameObject
      <3> QED
        BY <3>1, Zenon DEF Tick
    <2>2. CASE /\ my.spec.accounts = ds.spec.accounts
               /\ Spaced(ds.spec.notes, my.spec.notes)
               /\ Checked(my.spec.accounts)
      <3>1. Spaced(Older(ds.spec.notes), Older(my.spec.notes))
        BY <1>2, <1>3, <1>6, <2>2, OlderKeepsSpacing
      <3>2. Checked(my.spec.accounts)'
        <4>1. my'.spec.accounts = my.spec.accounts
          BY <1>2, <1>6
        <4> QED
          BY <1>1, <2>2, <4>1, Zenon DEF Checked, Updated
      <3> QED
        BY <1>2, <1>3, <1>6, <2>2, <3>1, <3>2
    <2> QED
      BY <1>6, <2>1, <2>2, Zenon DEF ChecksOK
  <1> QED
    BY <1>1, <1>4, <1>5, <1>6, Zenon DEF ChecksOK

\* So do users, the server, whoever changes a password, and the watches: an edit
\* of the resource makes the handler's copy stale, and a password that is lost
\* meanwhile is remembered.
LEMMA EnvironmentKeepsChecks ==
    ASSUME TypeInv, ChecksOK,
           \/ UserStep \/ ServerFlips \/ SyncCR
           \/ \E a \in Accounts :
                SecretChanges(a) \/ PasswordReset(a) \/ SyncSecret(a)
           \/ UNCHANGED allVars
    PROVE  ChecksOK'
  <1> USE DEF TypeInv
  <1>1. CASE UserStep
    <2>1. UNCHANGED <<pc, my, todo, began, pwd, seen, lost, secretCache>>
      BY <1>1 DEF UserStep, UserCreates, UserEdits, UserDeletes
    <2>2. ~myFresh'
      BY <1>1, Zenon DEF UserStep, UserCreates, UserEdits, UserDeletes, CopiesOK
    <2>3. pc = "loop" => Checked(my.spec.accounts \ todo)'
      BY <2>1, Zenon DEF ChecksOK, Checked, Updated
    <2> QED
      BY <2>1, <2>2, <2>3, Zenon DEF ChecksOK
  <1>2. ASSUME \/ ServerFlips \/ SyncCR \/ UNCHANGED allVars
               \/ \E a \in Accounts : SecretChanges(a)
        PROVE  ChecksOK'
    <2>1. UNCHANGED <<pc, ds, my, myFresh, todo, began, pwd, seen, lost, secretCache>>
      BY <1>2 DEF ServerFlips, SyncCR, SyncDS, allVars, recVars, pwVars,
                  SecretChanges
    <2> QED
      BY <2>1 DEF ChecksOK, Checked, Updated
  <1>3. ASSUME NEW a \in Accounts, PasswordReset(a)
        PROVE  ChecksOK'
    <2>1. UNCHANGED <<pc, ds, my, myFresh, todo, began, seen, secretCache>>
      BY <1>3 DEF PasswordReset, recVars
    <2>2. ASSUME pc = "loop" \/ pc = "update", NEW S \in SUBSET Accounts, Checked(S)
          PROVE  Checked(S)'
      <3>1. \A b \in S : Updated(b) => Updated(b)'
        BY <1>3, <2>1, <2>2 DEF PasswordReset, At, Updated, DirectoryOK
      <3> QED
        BY <2>1, <2>2, <3>1 DEF Checked
    <2>3. pc # "idle" => my.spec.accounts \in SUBSET Accounts
      BY HandlerHolds
    <2>4. pc = "loop" => Checked(my.spec.accounts \ todo)'
      <3> SUFFICES ASSUME pc = "loop" PROVE Checked(my.spec.accounts \ todo)'
        OBVIOUS
      <3> DEFINE S == my.spec.accounts \ todo
      <3>1. S \in SUBSET Accounts /\ Checked(S) /\ S' = S
        BY <2>1, <2>3 DEF ChecksOK
      <3> HIDE DEF S
      <3>2. Checked(S)'
        BY <2>2, <3>1, Zenon DEF Checked
      <3> QED
        BY <3>2 DEF S
    <2>5. pc = "update" /\ Checked(my.spec.accounts) => Checked(my.spec.accounts)'
      <3> SUFFICES ASSUME pc = "update", Checked(my.spec.accounts)
                   PROVE  Checked(my.spec.accounts)'
        OBVIOUS
      <3> DEFINE S == my.spec.accounts
      <3>1. S \in SUBSET Accounts /\ Checked(S) /\ S' = S
        BY <2>1, <2>3
      <3> HIDE DEF S
      <3>2. Checked(S)'
        BY <2>2, <3>1, Zenon DEF Checked
      <3> QED
        BY <3>2 DEF S
    <2> QED
      BY <2>1, <2>4, <2>5, Zenon DEF ChecksOK
  <1>4. ASSUME NEW a \in Accounts, SyncSecret(a)
        PROVE  ChecksOK'
    <2>1. /\ UNCHANGED <<pc, ds, my, myFresh, todo, began, pwd, lost>>
          /\ secretCache' = [secretCache EXCEPT ![a] = secrets[a]]
          /\ pc = "loop" => seen' = [seen EXCEPT ![a] = seen[a] \cup {secrets[a]}]
          /\ pc # "loop" => seen' = seen
      BY <1>4 DEF SyncSecret, recVars, At
    <2>2. CASE pc = "loop"
      <3>1. /\ \A b \in Accounts : secretCache'[b] \in seen'[b]
            /\ \A b \in Accounts : seen[b] \subseteq seen'[b]
        BY <2>1, <2>2 DEF ChecksOK, DirectoryOK, SecretsOK
      <3>2. my.spec.accounts \subseteq Accounts
        BY <2>2, HandlerHolds
      <3>3. Checked(my.spec.accounts \ todo)'
        BY <2>1, <2>2, <3>1, <3>2 DEF ChecksOK, Checked, Updated
      <3> QED
        BY <2>1, <2>2, <3>1, <3>3, Zenon DEF ChecksOK
    <2>3. CASE pc # "loop"
      BY <2>1, <2>3 DEF ChecksOK, Checked, Updated
    <2> QED
      BY <2>2, <2>3
  <1> QED
    BY <1>1, <1>2, <1>3, <1>4

\* Every step keeps the promise.
LEMMA ChecksStep ==
    ASSUME TypeInv, ChecksOK, [PwNext]_allVars
    PROVE  ChecksOK'
  <1>1. ASSUME NEW a \in Accounts,
               \/ AddRandomPassword(a) \/ AddPasswordFails(a) \/ SecretPanics(a)
               \/ AccountFails(a) \/ BindPanics(a)
        PROVE  pc' \in {"idle", "secrets"}
    BY <1>1 DEF AddRandomPassword, AddPasswordFails, SecretPanics, AccountFails,
                BindPanics, GiveUp, Panic, Return, Restart, Goto
  <1>2. ASSUME \/ StartReconcile \/ SecretsDone \/ NoConnection \/ AnnotationPanics
               \/ Crash
        PROVE  pc' \in {"idle", "secrets", "connect"}
    BY <1>2 DEF StartReconcile, SecretsDone, NoConnection, AnnotationPanics, Crash,
                GiveUp, Panic, Return, Restart, Goto, Load
  <1>3. ASSUME StepsBetween \/ UpdateCR
        PROVE  pc' \in {"idle", "connect"}
    BY <1>3, Zenon DEF StepsBetween, UpdateCR, GiveUp, Return, WriteStatus,
                       WriteObjectAndReturn
  <1> QED
    BY <1>1, <1>2, <1>3, ElsewhereKeepsChecks, LoopKeepsChecks, DecisionKeepsChecks,
       TickKeepsChecks, EnvironmentKeepsChecks
       DEF PwNext, Handler, Environment, Visit

\* Only r.Update records a check, and what it stores keeps the promise.
LEMMA RecordedChecks ==
    ASSUME TypeInv, ChecksOK, [PwNext]_allVars, CheckRecorded
    PROVE  Spaced(ds.spec.notes, ds'.spec.notes) /\ Checked(ds'.spec.accounts)
  <1> USE DEF TypeInv
  <1>1. pc = "update" /\ pc' # "update" /\ ds' # ds
    BY DEF CheckRecorded, At
  <1>2. UpdateCR
    <2>1. ~StartReconcile
      BY <1>1 DEF StartReconcile, Load
    <2>2. ~(\/ SecretsDone \/ StepsBetween \/ NoConnection \/ SkipCheck \/ BeginCheck
            \/ RecordCheck \/ AnnotationPanics)
      BY <1>1 DEF SecretsDone, StepsBetween, NoConnection, SkipCheck, BeginCheck,
                  RecordCheck, AnnotationPanics, At
    <2>3. ASSUME NEW a \in Accounts
          PROVE  ~(\/ AddRandomPassword(a) \/ AddPasswordFails(a) \/ SecretPanics(a)
                   \/ Visit(a) \/ SetEmptyPassword(a) \/ AccountFails(a)
                   \/ BindPanics(a))
      BY <1>1 DEF AddRandomPassword, AddPasswordFails, SecretPanics, Visit,
                  PasswordIsRight, SetPassword, SetEmptyPassword, AccountFails,
                  BindPanics, At
    <2>4. ~(Tick \/ UserStep \/ ServerFlips \/ SyncCR \/ Crash \/ UNCHANGED allVars)
      BY <1>1 DEF Tick, UserStep, UserCreates, UserEdits, UserDeletes, ServerFlips,
                  SyncCR, SyncDS, Crash, Panic, Restart, allVars, recVars
    <2>5. ASSUME NEW a \in Accounts
          PROVE  ~(SecretChanges(a) \/ PasswordReset(a) \/ SyncSecret(a))
      BY <1>1 DEF SecretChanges, PasswordReset, SyncSecret, recVars
    <2> QED
      BY <2>1, <2>2, <2>3, <2>4, <2>5 DEF PwNext, Handler, Environment
  <1>3. /\ myFresh /\ ds \in PwObjects /\ my \in PwObjects
        /\ ds' = [ds EXCEPT !.spec = my.spec]
    BY <1>1, <1>2, UpdateKeepsCopies DEF UpdateCR
  <1>4. ds'.spec = my.spec /\ my.spec # ds.spec
    BY <1>1, <1>3 DEF PwObjects, Objects
  <1>5. /\ Spaced(ds.spec.notes, my.spec.notes)
        /\ Checked(my.spec.accounts)
    BY <1>1, <1>3, <1>4, Zenon DEF ChecksOK
  <1> QED
    BY <1>4, <1>5, Zenon

\* No pass has promised anything when the operator starts, and none breaks its
\* promise.
LEMMA ChecksInvariant ==
    PwSpec => [](TypeInv /\ ChecksOK)
  <1>1. PwInit => ChecksOK
    BY DEF PwInit, ChecksOK
  <1> QED
    BY <1>1, PwTypesInit, PwTypesStep, ChecksStep, PTL DEF PwSpec

\* The stored time of the last check moves by a full window or not at all, for
\* every window, although the pass decided on a cached copy and may have waited
\* in its loop (passwords.go:19-21, 36-47).
THEOREM ChecksAreSpaced ==
    PwSpec => CheckSpacing
  <1>1. ASSUME TypeInv, ChecksOK, [PwNext]_allVars
        PROVE  [ CheckRecorded
                 => \/ ds.spec.notes \notin Ages \/ ds.spec.notes = MaxAge
                    \/ ds.spec.notes - ds'.spec.notes >= Window ]_allVars
    BY <1>1, RecordedChecks DEF Spaced
  <1> QED
    BY <1>1, ChecksInvariant, PTL DEF PwSpec, CheckSpacing

\* When a check is recorded every account of the stored resource whose secret
\* never lacked the key while the loop ran has a password that its secret held
\* meanwhile, except one that the server lost, for any set of accounts and
\* whatever secrets, resource and directory did (passwords.go:53-80).
THEOREM RecordIsTrue ==
    PwSpec => KeyedAreUpdated
  <1>1. ASSUME TypeInv, ChecksOK, [PwNext]_allVars
        PROVE  [ CheckRecorded
                 => \A a \in ds'.spec.accounts :
                      (\A s \in seen[a] : ~Keyless(s)) => Updated(a) ]_allVars
    <2>1. CheckRecorded => Checked(ds'.spec.accounts)
      BY <1>1, RecordedChecks
    <2> QED
      BY <2>1, Zenon DEF Checked
  <1> QED
    BY <1>1, ChecksInvariant, PTL DEF PwSpec, KeyedAreUpdated

=============================================================================

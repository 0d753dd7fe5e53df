----------------------------- MODULE Passwords -----------------------------
(***************************************************************************)
(* The service account passwords of a DirectoryService:                    *)
(* controllers/secrets.go, controllers/passwords.go and pkg/ldap/client.go *)
(* as steps of Reconcile, with the annotation that spaces the checks.      *)
(*                                                                         *)
(* A password is a number, made once: by a user or by randPassword.  The   *)
(* annotation last-password-check is modelled by its age, so that time     *)
(* needs no bound: Tick lets every copy of it grow older, up to MaxAge.    *)
(* Users may write any time to it, also one that is yet to come, whose age *)
(* is negative.                                                            *)
(* uid=admin and uid=monitor, which the loop leaves out, are not in        *)
(* Accounts; that the secret of uid=admin is there and works is part of    *)
(* "up".                                                                   *)
(***************************************************************************)
EXTENDS Reconciler, Integers

CONSTANTS
    Accounts,         \* DNs
    AccountSets,      \* the DNs that spec.passwords may name together
    Creating,         \* those whose entry says create
    Window,           \* PasswordCheckTimeSeconds
    MaxAge,           \* bound: ages are told apart up to this one
    MaxAhead,         \* bound: how far in the future an annotation may be
    MaxEdits,         \* bound: how often users change the resource
    MaxChanges        \* bound: how often users change secrets or passwords

ASSUME PwConstants ==
    /\ AccountSets \subseteq SUBSET Accounts /\ Creating \subseteq Accounts
    /\ Window \in Nat \ {0} /\ MaxAge \in Nat /\ MaxAge > Window
    /\ MaxAhead \in Nat
    /\ MaxEdits \in Nat /\ MaxChanges \in Nat

VARIABLES
    secrets, secretCache,  \* the stored secrets and the informer's copies
    up,                    \* the server accepts the administrator's bind
    pwd,                   \* the passwords in the directory
    todo,                  \* the accounts the running loop has yet to visit
    began,                 \* age of the variable now of updatePasswords
    seen,                  \* history: what the cached secrets were while the
                           \*   loop ran
    lost,                  \* history: accounts whose password the server lost
                           \*   since the loop began
    made,                  \* how many passwords were ever made
    edits, changes

pwVars == <<secrets, secretCache, up, pwd, todo, began, seen, lost, made,
            edits, changes>>
allVars == <<recVars, pwVars>>

Passwords == 1 .. MaxChanges + 1
Unknown == 0               \* a password in the directory that nobody has
\* What r.Get finds: no secret, one without data, data without the key, or a
\* password.
Absent == -3
NoData == -2
NoKey == -1
Secrets == {Absent, NoData, NoKey} \cup Passwords

Ages == -MaxAhead .. MaxAge
Unset == -MaxAhead - 1     \* annotations without the time, or with garbage
NoMap == -MaxAhead - 2     \* the resource has no annotations: a nil map
PwSpecs == [accounts : AccountSets, notes : {NoMap, Unset} \cup Ages]
PwObjects == Objects(PwSpecs, {"status"}, {0})

ASSUME NoDSIsNoPwObject == NoDS \notin PwObjects

HasKey(s) == s > 0
Keyless(s) == s \in {NoData, NoKey}

\* What lookupSecret returns, as a password in the directory: that of the
\* secret, or the empty string, which no bind succeeds with; a change to it asks
\* the server to generate one, which nobody reads.
Given(s) == IF HasKey(s) THEN s ELSE Unknown

\* The operator starts, with or without a resource.
PwInit ==
    /\ pc = "idle"
    /\ ds \in {NoDS} \cup PwObjects
    /\ dsCache = ds /\ cacheFresh = TRUE
    /\ my = NoDS /\ myFresh = FALSE
    /\ secrets = [a \in Accounts |-> 1] /\ secretCache = secrets
    /\ up = FALSE
    /\ pwd = [a \in Accounts |-> Unknown]
    /\ todo = {} /\ began = 0 /\ lost = {}
    /\ seen = [a \in Accounts |-> {}]
    /\ made = 1 /\ edits = 0 /\ changes = 0

-----------------------------------------------------------------------------
(***************************************************************************)
(* The handler.                                                            *)
(***************************************************************************)

\* The pass ends; so do its loops.
EndLoop ==
    /\ todo' = {} /\ began' = 0 /\ lost' = {}
    /\ seen' = [a \in Accounts |-> {}]

GiveUp == Return /\ EndLoop

\* A panic ends the process: this version of controller-runtime does not
\* recover it.  The next one starts with caches that are up to date.
Panic == Restart /\ EndLoop /\ secretCache' = secrets

StartReconcile ==
    /\ Load("secrets")
    /\ todo' = dsCache.spec.accounts \cap Creating
    /\ UNCHANGED <<secrets, secretCache, up, pwd, began, seen, lost, made,
                   edits, changes>>

\* Mutant of AddRandomPassword: a secret that has the key gets another one.
ReplacePassword(a) ==
    /\ At("secrets") /\ a \in todo
    /\ secretCache[a] \notin {Absent, NoData} /\ secrets[a] = secretCache[a]
    /\ secrets' = [secrets EXCEPT ![a] = made + 1]
    /\ made' = made + 1
    /\ Goto("secrets") /\ todo' = todo \ {a}
    /\ UNCHANGED <<secretCache, up, pwd, began, seen, lost, edits, changes>>

\* reconcileSecrets, one turn.  The key is missing: a random password is
\* stored.
AddRandomPassword(a) ==
    /\ At("secrets") /\ a \in todo
    /\ secretCache[a] = NoKey /\ secrets[a] = NoKey
    /\ secrets' = [secrets EXCEPT ![a] = made + 1]
    /\ made' = made + 1
    /\ \/ Goto("secrets") /\ todo' = todo \ {a}
          /\ UNCHANGED <<began, seen, lost>>
       \/ GiveUp                                \* the answer was lost
    /\ UNCHANGED <<secretCache, up, pwd, edits, changes>>

\* The cached copy is out of date, or the call fails.
AddPasswordFails(a) ==
    /\ At("secrets") /\ a \in todo
    /\ secretCache[a] = NoKey
    /\ GiveUp
    /\ UNCHANGED <<secrets, secretCache, up, pwd, made, edits, changes>>

\* The secret does not exist or has no data: its map is nil, and the
\* assignment of the new password to it panics.
SecretPanics(a) ==
    /\ At("secrets") /\ a \in todo
    /\ secretCache[a] \in {Absent, NoData}
    /\ Panic
    /\ UNCHANGED <<secrets, up, pwd, made, edits, changes>>

\* The other secrets have the key, and nothing is sent.
SecretsDone ==
    /\ At("secrets")
    /\ \A a \in todo : HasKey(secretCache[a])
    /\ todo' = {}
    /\ Goto("connect")
    /\ UNCHANGED <<secrets, secretCache, up, pwd, began, seen, lost, made,
                   edits, changes>>

\* StatefulSet, proxy, service and snapshots come in between: they may write
\* the status, and an error of theirs ends the pass.
StepsBetween ==
    /\ At("connect")
    /\ \/ WriteStatus(my.status, "connect") /\ UNCHANGED pwVars
       \/ /\ GiveUp
          /\ UNCHANGED <<secrets, secretCache, up, pwd, made, edits, changes>>

\* getAdminLDAPConnection fails: the pass ends, to be repeated in 90 seconds.
NoConnection ==
    /\ At("connect") /\ ~up
    /\ GiveUp
    /\ UNCHANGED <<secrets, secretCache, up, pwd, made, edits, changes>>

\* Mutants of TooSoon: the comparison is turned around; the window is read in
\* another unit and never ends.
TooSoonSwapped(notes) == notes >= Window

TooSoonForever(notes) == notes \in Ages

\* updatePasswords: the last check is recent, or has yet to come.
TooSoon(notes) == notes \in Ages /\ notes < Window

SkipCheck ==
    /\ At("connect") /\ up
    /\ TooSoon(my.spec.notes)
    /\ Goto("update")
    /\ UNCHANGED pwVars

\* It is not: the loop begins, and now is the time it began.
BeginCheck ==
    /\ At("connect") /\ up
    /\ ~TooSoon(my.spec.notes)
    /\ todo' = my.spec.accounts
    /\ began' = 0 /\ lost' = {}
    /\ seen' = [a \in Accounts |-> {secretCache[a]}]
    /\ Goto("loop")
    /\ UNCHANGED <<secrets, secretCache, up, pwd, made, edits, changes>>

\* One turn: lookupSecret finds the password and BindPassword accepts it.
PasswordIsRight(a) ==
    /\ At("loop") /\ a \in todo /\ up
    /\ HasKey(secretCache[a]) /\ pwd[a] = secretCache[a]
    /\ todo' = todo \ {a}
    /\ Goto("loop")
    /\ UNCHANGED <<secrets, secretCache, up, pwd, began, seen, lost, made,
                   edits, changes>>

\* Mutant of SetPassword: the password is compared but not changed.
SetNoPassword(a) ==
    /\ At("loop") /\ a \in todo /\ up
    /\ HasKey(secretCache[a]) /\ pwd[a] # secretCache[a]
    /\ todo' = todo \ {a}
    /\ Goto("loop")
    /\ UNCHANGED <<secrets, secretCache, up, pwd, began, seen, lost, made,
                   edits, changes>>

\* The bind is refused, and UpdatePassword changes the password.
SetPassword(a) ==
    /\ At("loop") /\ a \in todo /\ up
    /\ HasKey(secretCache[a]) /\ pwd[a] # secretCache[a]
    /\ pwd' = [pwd EXCEPT ![a] = secretCache[a]]
    /\ todo' = todo \ {a}
    /\ Goto("loop")
    /\ UNCHANGED <<secrets, secretCache, up, began, seen, lost, made, edits,
                   changes>>

\* The secret has no such key: the password in the directory is replaced by
\* one that nobody has, and the loop goes on as after any other change.
SetEmptyPassword(a) ==
    /\ At("loop") /\ a \in todo /\ up
    /\ Keyless(secretCache[a])
    /\ pwd' = [pwd EXCEPT ![a] = Given(secretCache[a])]
    /\ todo' = todo \ {a}
    /\ Goto("loop")
    /\ UNCHANGED <<secrets, secretCache, up, began, seen, lost, made, edits,
                   changes>>

\* There is no secret, or the server refuses the change or is gone; the change
\* may have been made although the answer was lost.
AccountFails(a) ==
    /\ At("loop") /\ a \in todo
    /\ \/ pwd' = pwd
       \/ /\ up /\ secretCache[a] # Absent
          /\ pwd' = [pwd EXCEPT ![a] = Given(secretCache[a])]
    /\ GiveUp
    /\ UNCHANGED <<secrets, secretCache, up, made, edits, changes>>

\* The second connection cannot be opened, and BindPassword closes what
\* DialURL did not return.
BindPanics(a) ==
    /\ At("loop") /\ a \in todo /\ ~up
    /\ secretCache[a] # Absent
    /\ Panic
    /\ UNCHANGED <<secrets, up, pwd, made, edits, changes>>

\* All accounts were visited: the time is written to the annotations in memory.
RecordCheck ==
    /\ At("loop") /\ todo = {}
    /\ my.spec.notes # NoMap
    /\ my' = [my EXCEPT !.spec.notes = began]
    /\ pc' = "update"
    /\ UNCHANGED <<ds, dsCache, cacheFresh, myFresh, pwVars>>

\* ... unless there is no map to write them to.
AnnotationPanics ==
    /\ At("loop") /\ todo = {}
    /\ my.spec.notes = NoMap
    /\ Panic
    /\ UNCHANGED <<secrets, up, pwd, made, edits, changes>>

\* r.Update, which also stores the annotations.  The status update that follows
\* stores nothing that is modelled here.
UpdateCR ==
    /\ At("update")
    /\ WriteObjectAndReturn /\ EndLoop
    /\ UNCHANGED <<secrets, secretCache, up, pwd, made, edits, changes>>

-----------------------------------------------------------------------------
(***************************************************************************)
(* The environment.                                                        *)
(***************************************************************************)

Older(age) == IF age \in Ages \ {MaxAge} THEN age + 1 ELSE age
Aged(o) == IF o = NoDS THEN o ELSE [o EXCEPT !.spec.notes = Older(@)]

\* Time passes.
Tick ==
    /\ ds' = Aged(ds) /\ dsCache' = Aged(dsCache) /\ my' = Aged(my)
    /\ began' = IF At("loop") THEN Older(began) ELSE began
    /\ UNCHANGED <<pc, cacheFresh, myFresh, secrets, secretCache, up, pwd,
                   todo, seen, lost, made, edits, changes>>

\* Users create, edit and delete the resource, annotations included.
UserStep ==
    /\ edits < MaxEdits
    /\ edits' = edits + 1
    /\ \/ \E s \in PwSpecs : UserCreates(s, "status", 0) \/ UserEdits(s)
       \/ UserDeletes
    /\ UNCHANGED <<secrets, secretCache, up, pwd, todo, began, seen, lost, made,
                   changes>>

\* Somebody stores a new password in a secret, or spoils or deletes it.
SecretChanges(a) ==
    /\ changes < MaxChanges
    /\ changes' = changes + 1
    /\ \/ /\ made' = made + 1
          /\ secrets' = [secrets EXCEPT ![a] = made + 1]
       \/ \E s \in {Absent, NoData, NoKey} :
            /\ secrets[a] # s
            /\ secrets' = [secrets EXCEPT ![a] = s]
            /\ made' = made
    /\ UNCHANGED <<recVars, secretCache, up, pwd, todo, began, seen, lost, edits>>

\* The password is changed behind the operator's back, or a server comes up
\* from an older volume.
PasswordReset(a) ==
    /\ changes < MaxChanges
    /\ changes' = changes + 1
    /\ pwd[a] # Unknown
    /\ pwd' = [pwd EXCEPT ![a] = Unknown]
    /\ lost' = IF At("loop") \/ At("update") THEN lost \cup {a} ELSE lost
    /\ UNCHANGED <<recVars, secrets, secretCache, up, todo, began, seen, made,
                   edits>>

ServerFlips ==
    /\ up' = ~up
    /\ UNCHANGED <<recVars, secrets, secretCache, pwd, todo, began, seen, lost,
                   made, edits, changes>>

SyncCR == SyncDS /\ UNCHANGED pwVars

SyncSecret(a) ==
    /\ secretCache[a] # secrets[a]
    /\ secretCache' = [secretCache EXCEPT ![a] = secrets[a]]
    /\ seen' = IF At("loop") THEN [seen EXCEPT ![a] = @ \cup {secrets[a]}] ELSE seen
    /\ UNCHANGED <<recVars, secrets, up, pwd, todo, began, lost, made, edits,
                   changes>>

Crash ==
    /\ Panic
    /\ UNCHANGED <<secrets, up, pwd, made, edits, changes>>

-----------------------------------------------------------------------------
Visit(a) == PasswordIsRight(a) \/ SetPassword(a)

Handler ==
    \/ StartReconcile
    \/ \E a \in Accounts :
        \/ AddRandomPassword(a) \/ AddPasswordFails(a) \/ SecretPanics(a)
        \/ Visit(a) \/ SetEmptyPassword(a) \/ AccountFails(a) \/ BindPanics(a)
    \/ SecretsDone \/ StepsBetween
    \/ NoConnection \/ SkipCheck \/ BeginCheck
    \/ RecordCheck \/ AnnotationPanics
    \/ UpdateCR

Environment ==
    \/ Tick \/ UserStep \/ ServerFlips \/ SyncCR \/ Crash
    \/ \E a \in Accounts :
        SecretChanges(a) \/ PasswordReset(a) \/ SyncSecret(a)

PwNext == Handler \/ Environment
PwSpec == PwInit /\ [][PwNext]_allVars

\* Time passes, passes follow each other, the watches deliver.  What is tried
\* again and again succeeds some time: the steps of a pass that an error or a
\* restart may cut short, and, as Go visits a map in random order, the visit of
\* each account before that of one that ends the loop.
PwFairness ==
    /\ WF_allVars(Tick) /\ WF_allVars(Handler)
    /\ WF_allVars(SyncCR)
    /\ WF_allVars(\E a \in Accounts : SyncSecret(a))
    /\ SF_allVars(\E a \in Accounts : AddRandomPassword(a))
    /\ SF_allVars(SecretsDone)
    /\ SF_allVars(BeginCheck)
    /\ \A a \in Accounts : SF_allVars(Visit(a))

PwFairSpec == PwSpec /\ PwFairness

-----------------------------------------------------------------------------
(***************************************************************************)
(* Properties.                                                             *)
(***************************************************************************)

PwSteps == {"idle", "secrets", "connect", "loop", "update"}

\* Types; only a loop has accounts left, and they are accounts of the resource
\* the handler holds (secrets.go:26, passwords.go:53).
PwTypeOK ==
    /\ pc \in PwSteps
    /\ RecTypeOK(PwObjects)
    /\ secrets \in [Accounts -> Secrets] /\ secretCache \in [Accounts -> Secrets]
    /\ up \in BOOLEAN
    /\ pwd \in [Accounts -> {Unknown} \cup Passwords]
    /\ todo \subseteq Accounts /\ lost \subseteq Accounts
    /\ seen \in [Accounts -> SUBSET Secrets]
    /\ todo # {} => pc \in {"secrets", "loop"} /\ todo \subseteq my.spec.accounts
    /\ began \in 0 .. MaxAge /\ made \in Passwords
    /\ edits \in 0 .. MaxEdits /\ changes \in 0 .. MaxChanges

\* r.Update stores a new time of the last check.
CheckRecorded == At("update") /\ pc' # "update" /\ ds' # ds

\* passwords.go:19-21, "the number of seconds between password checks": the
\* stored time of the last check moves by a full window or not at all, although
\* the pass decided on a cached copy and may have waited in its loop.
CheckSpacing ==
    [][ CheckRecorded
        => \/ ds.spec.notes \notin Ages \/ ds.spec.notes = MaxAge
           \/ ds.spec.notes - ds'.spec.notes >= Window ]_allVars

\* The password of account a is one that its secret held while the loop ran, or
\* the server lost it since the loop began.
Updated(a) == pwd[a] \in seen[a] \/ a \in lost

\* passwords.go:78, "if we get to here we have updated all passwords OK": when a
\* check is recorded, this is so for every account that the stored resource
\* names at that moment and whose secret never lacked the key while the loop
\* ran, also when the resource, the secrets or the directory changed meanwhile.
\* It is not so for an account whose secret lacks the key (passwords.go:93): the
\* operator itself replaces its password by one that nobody has, and records the
\* check all the same.
KeyedAreUpdated ==
    [][ CheckRecorded
        => \A a \in ds'.spec.accounts :
            (\A s \in seen[a] : ~Keyless(s)) => Updated(a) ]_allVars

\* Nothing that stays as it is keeps the operator from serving account a: the
\* server runs, the account has a password in its secret, and no secret that
\* the operator is to fill makes it panic.
Serviceable(a) ==
    /\ ds # NoDS
    /\ a \in ds.spec.accounts
    /\ up
    /\ HasKey(secrets[a])
    /\ \A c \in ds.spec.accounts \cap Creating : secrets[c] \notin {Absent, NoData}

\* passwords.go:53-76: an account gets its password and keeps it, whatever
\* happened to secret, resource and directory before, also when the secret of
\* another account is missing for ever or the annotations cannot be written.
EachAccountServed ==
    \A a \in Accounts :
        <>[]Serviceable(a) => <>[](pwd[a] = secrets[a])

\* README.md:86, "The operator can generate random secrets": a secret that is
\* missing or has no password is generated if its account says create.
SecretsGenerated ==
    \A a \in Creating :
        <>[](ds # NoDS /\ a \in ds.spec.accounts) => []<>HasKey(secrets[a])

=============================================================================

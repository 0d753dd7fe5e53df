-------------------------- MODULE ReconcilerProofs --------------------------
(***************************************************************************)
(* Every building block of Reconciler keeps the types of the copies and    *)
(* their agreement, whatever the sets of specs, statuses and times are.    *)
(***************************************************************************)
EXTENDS Reconciler, TLAPS

\* Replacing a part of an object, or building one, gives an object.
LEMMA ObjectParts ==
    ASSUME NEW Sp, NEW St, NEW Ti
    PROVE  /\ \A o \in Objects(Sp, St, Ti) :
                /\ o.spec \in Sp /\ o.status \in St /\ o.born \in Ti
                /\ [o EXCEPT !.spec = o.spec] = o
                /\ [o EXCEPT !.status = o.status] = o
           /\ \A sp \in Sp, st \in St, ti \in Ti :
                [spec |-> sp, status |-> st, born |-> ti] \in Objects(Sp, St, Ti)
  BY DEF Objects

\* Replacing the status of an object gives an object.
LEMMA WithStatus ==
    ASSUME NEW Sp, NEW St, NEW Ti, NEW o \in Objects(Sp, St, Ti),
           NEW st \in St, NEW p, p = [o EXCEPT !.status = st]
    PROVE  /\ p \in Objects(Sp, St, Ti)
           /\ p.status = st /\ p.spec = o.spec /\ p.born = o.born
  BY DEF Objects

\* Replacing the spec of an object gives an object.
LEMMA WithSpec ==
    ASSUME NEW Sp, NEW St, NEW Ti, NEW o \in Objects(Sp, St, Ti),
           NEW sp \in Sp, NEW p, p = [o EXCEPT !.spec = sp]
    PROVE  /\ p \in Objects(Sp, St, Ti)
           /\ p.spec = sp /\ p.status = o.status /\ p.born = o.born
  BY DEF Objects

\* The end of a pass keeps types and agreement.
LEMMA ReturnKeeps ==
    ASSUME NEW Obj, RecTypeOK(Obj), CopiesAgree, Return
    PROVE  RecTypeOK(Obj)' /\ CopiesAgree'
  BY Zenon DEF RecTypeOK, CopiesAgree, Return

\* A step that touches no copy keeps them.
LEMMA GotoKeeps ==
    ASSUME NEW Obj, RecTypeOK(Obj), CopiesAgree, NEW step, Goto(step),
           pc # "idle"
    PROVE  RecTypeOK(Obj)' /\ CopiesAgree'
  BY Zenon DEF RecTypeOK, CopiesAgree, Goto

\* r.Get keeps them: the handler gets the cached copy and its freshness.
LEMMA LoadKeeps ==
    ASSUME NEW Obj, RecTypeOK(Obj), CopiesAgree, NEW step, Load(step)
    PROVE  RecTypeOK(Obj)' /\ CopiesAgree'
  BY Zenon DEF RecTypeOK, CopiesAgree, Load

\* A restart keeps them: the new cache is the stored object.
LEMMA RestartKeeps ==
    ASSUME NEW Obj, RecTypeOK(Obj), CopiesAgree, Restart
    PROVE  RecTypeOK(Obj)' /\ CopiesAgree'
  BY Zenon DEF RecTypeOK, CopiesAgree, Restart

\* The watch keeps them.
LEMMA SyncDSKeeps ==
    ASSUME NEW Obj, RecTypeOK(Obj), CopiesAgree, SyncDS
    PROVE  RecTypeOK(Obj)' /\ CopiesAgree'
  BY Zenon DEF RecTypeOK, CopiesAgree, SyncDS

\* A step of somebody else keeps them.
LEMMA UnchangedKeeps ==
    ASSUME NEW Obj, RecTypeOK(Obj), CopiesAgree, UNCHANGED recVars
    PROVE  RecTypeOK(Obj)' /\ CopiesAgree'
  BY DEF RecTypeOK, CopiesAgree, recVars

\* A deletion keeps them: no copy is the stored version any more.
LEMMA UserDeletesKeeps ==
    ASSUME NEW Obj, RecTypeOK(Obj), CopiesAgree, UserDeletes
    PROVE  RecTypeOK(Obj)' /\ CopiesAgree'
  BY Zenon DEF UserDeletes, RecTypeOK, CopiesAgree

\* A creation or an edit keeps them, and an edit keeps status and birth.
LEMMA UserKeeps ==
    ASSUME NEW Sp, NEW St, NEW Ti,
           RecTypeOK(Objects(Sp, St, Ti)), CopiesAgree,
           NEW sp \in Sp, NEW st \in St, NEW ti \in Ti,
           UserCreates(sp, st, ti) \/ UserEdits(sp)
    PROVE  /\ RecTypeOK(Objects(Sp, St, Ti))' /\ CopiesAgree'
           /\ \/ ds'.status = st /\ ds'.born = ti
              \/ ds # NoDS /\ ds'.status = ds.status /\ ds'.born = ds.born
  <1> DEFINE Obj == Objects(Sp, St, Ti)
  <1>1. CASE UserCreates(sp, st, ti)
    <2>1. ds' \in Obj /\ ds'.status = st /\ ds'.born = ti
      BY <1>1, ObjectParts DEF UserCreates
    <2>2. ~myFresh /\ ~myFresh'
      BY <1>1, Zenon DEF UserCreates, CopiesAgree
    <2> QED
      BY <1>1, <2>1, <2>2, Zenon DEF UserCreates, RecTypeOK, CopiesAgree
  <1>2. CASE UserEdits(sp)
    <2>1. /\ ds' \in Obj
          /\ ds # NoDS /\ ds'.status = ds.status /\ ds'.born = ds.born
      BY <1>2, WithSpec DEF UserEdits, RecTypeOK
    <2> QED
      BY <1>2, <2>1, Zenon DEF UserEdits, RecTypeOK, CopiesAgree
  <1> QED
    BY <1>1, <1>2

\* r.Status().Update keeps them: it changes the stored status, and only when
\* the handler holds the stored version.
LEMMA WriteStatusKeeps ==
    ASSUME NEW Sp, NEW St, NEW Ti,
           RecTypeOK(Objects(Sp, St, Ti)), CopiesAgree,
           NoDS \notin Objects(Sp, St, Ti),
           NEW st \in St, NEW step, WriteStatus(st, step)
    PROVE  /\ RecTypeOK(Objects(Sp, St, Ti))' /\ CopiesAgree'
           /\ my = ds /\ ds \in Objects(Sp, St, Ti)
           /\ my' = ds' /\ ds' \in Objects(Sp, St, Ti)
           /\ ds'.status = st /\ ds'.spec = ds.spec /\ ds'.born = ds.born
  <1> DEFINE Obj == Objects(Sp, St, Ti)
  <1>1. myFresh /\ my = ds /\ ds # NoDS /\ ds \in Obj
    BY Zenon DEF WriteStatus, RecTypeOK, CopiesAgree
  <1>2. /\ ds' \in Obj /\ my' = ds'
        /\ ds'.status = st /\ ds'.spec = ds.spec /\ ds'.born = ds.born
    BY <1>1, WithStatus DEF WriteStatus
  <1>3. ds' # NoDS
    BY <1>2
  <1>4. cacheFresh' \in BOOLEAN /\ (cacheFresh' => cacheFresh /\ ds' = ds)
    BY Zenon DEF WriteStatus
  <1>5. cacheFresh' => dsCache' = ds'
    BY <1>4, Zenon DEF WriteStatus, CopiesAgree
  <1> QED
    BY <1>1, <1>2, <1>3, <1>4, <1>5, Zenon DEF WriteStatus, RecTypeOK, CopiesAgree

\* The same for a status write that ends the pass, applied or not.
LEMMA WriteStatusAndReturnKeeps ==
    ASSUME NEW Sp, NEW St, NEW Ti,
           RecTypeOK(Objects(Sp, St, Ti)), CopiesAgree,
           NEW st \in St, WriteStatusAndReturn(st)
    PROVE  /\ RecTypeOK(Objects(Sp, St, Ti))' /\ CopiesAgree'
           /\ \/ ds' = ds
              \/ /\ my = ds /\ ds \in Objects(Sp, St, Ti)
                 /\ ds' \in Objects(Sp, St, Ti)
                 /\ ds'.status = st /\ ds'.spec = ds.spec /\ ds'.born = ds.born
  <1> DEFINE Obj == Objects(Sp, St, Ti)
  <1>1. CASE UNCHANGED <<ds, cacheFresh>>
    BY <1>1, Zenon DEF WriteStatusAndReturn, RecTypeOK, CopiesAgree
  <1>2. CASE /\ myFresh
             /\ ds' = [ds EXCEPT !.status = st]
             /\ \E other \in BOOLEAN :
                  cacheFresh' = (cacheFresh /\ ds' = ds /\ ~other)
    <2>1. ds \in Obj /\ my = ds
      BY <1>2, Zenon DEF RecTypeOK, CopiesAgree
    <2>2. /\ ds' \in Obj
          /\ ds'.status = st /\ ds'.spec = ds.spec /\ ds'.born = ds.born
      BY <1>2, <2>1, WithStatus
    <2>3. cacheFresh' \in BOOLEAN /\ (cacheFresh' => cacheFresh /\ ds' = ds)
      BY <1>2, Zenon
    <2>4. cacheFresh' => dsCache' = ds'
      BY <2>3, Zenon DEF WriteStatusAndReturn, CopiesAgree
    <2> QED
      BY <2>1, <2>2, <2>3, <2>4, Zenon DEF WriteStatusAndReturn, RecTypeOK, CopiesAgree
  <1> QED
    BY <1>1, <1>2, Zenon DEF WriteStatusAndReturn

\* r.Update never changes the stored object: the API server takes only specs
\* of copies that are the stored version, and the handler edits no spec.
LEMMA WriteObjectKeeps ==
    ASSUME NEW Sp, NEW St, NEW Ti,
           RecTypeOK(Objects(Sp, St, Ti)), CopiesAgree,
           NEW step, WriteObject(ds.status, step)
    PROVE  /\ RecTypeOK(Objects(Sp, St, Ti))' /\ CopiesAgree'
           /\ ds' = ds /\ my' = my
  <1> DEFINE Obj == Objects(Sp, St, Ti)
  <1>1. myFresh /\ my = ds /\ ds # NoDS /\ ds \in Obj
    BY Zenon DEF WriteObject, RecTypeOK, CopiesAgree
  <1>2. ds' = [ds EXCEPT !.spec = ds.spec] /\ my' = [my EXCEPT !.status = my.status]
    BY <1>1, Zenon DEF WriteObject
  <1>3. ds' = ds /\ my' = my
    BY <1>1, <1>2, ObjectParts, Zenon
  <1>4. cacheFresh' \in BOOLEAN /\ (cacheFresh' => cacheFresh)
    BY Zenon DEF WriteObject
  <1> QED
    BY <1>1, <1>3, <1>4, Zenon DEF WriteObject, RecTypeOK, CopiesAgree

\* The same for an r.Update that ends the pass, applied or not.
LEMMA WriteObjectAndReturnKeeps ==
    ASSUME NEW Sp, NEW St, NEW Ti,
           RecTypeOK(Objects(Sp, St, Ti)), CopiesAgree,
           WriteObjectAndReturn
    PROVE  /\ RecTypeOK(Objects(Sp, St, Ti))' /\ CopiesAgree'
           /\ ds' = ds
  <1> DEFINE Obj == Objects(Sp, St, Ti)
  <1>1. CASE UNCHANGED <<ds, cacheFresh>>
    BY <1>1, Zenon DEF WriteObjectAndReturn, RecTypeOK, CopiesAgree
  <1>2. CASE /\ myFresh
             /\ ds' = [ds EXCEPT !.spec = my.spec]
             /\ \E other \in BOOLEAN :
                  cacheFresh' = (cacheFresh /\ ds' = ds /\ ~other)
    <2>1. ds \in Obj /\ my = ds
      BY <1>2, Zenon DEF RecTypeOK, CopiesAgree
    <2>2. ds' = ds
      BY <1>2, <2>1, ObjectParts, Zenon
    <2>3. cacheFresh' \in BOOLEAN /\ (cacheFresh' => cacheFresh)
      BY <1>2, Zenon
    <2> QED
      BY <2>2, <2>3, Zenon DEF WriteObjectAndReturn, RecTypeOK, CopiesAgree
  <1> QED
    BY <1>1, <1>2, Zenon DEF WriteObjectAndReturn

-----------------------------------------------------------------------------
(***************************************************************************)
(* Between reading a status and writing it the handler's copy differs from *)
(* the stored object in its status, although it is the stored version.     *)
(* What is left of CopiesAgree then is the rest of the object.             *)
(***************************************************************************)

SpecsAgree ==
    /\ cacheFresh => dsCache = ds
    /\ myFresh => ds # NoDS /\ my.spec = ds.spec /\ my.born = ds.born

\* The steps that write no resource keep this.
LEMMA QuietKeepsSpecs ==
    ASSUME NEW Obj, RecTypeOK(Obj), SpecsAgree, NEW step,
           \/ Load(step) \/ LoadNothing
           \/ pc # "idle" /\ Goto(step)
           \/ Return \/ Restart
           \/ SyncDS \/ UserDeletes
           \/ UNCHANGED recVars
    PROVE  RecTypeOK(Obj)' /\ SpecsAgree'
  <1> USE DEF RecTypeOK, SpecsAgree
  <1>1. CASE Load(step)
    BY <1>1, Zenon DEF Load
  <1>2. CASE LoadNothing
    BY <1>2 DEF LoadNothing, recVars
  <1>3. CASE pc # "idle" /\ Goto(step)
    BY <1>3, Zenon DEF Goto
  <1>4. CASE Return
    BY <1>4, Zenon DEF Return
  <1>5. CASE Restart
    BY <1>5, Zenon DEF Restart
  <1>6. CASE SyncDS
    BY <1>6, Zenon DEF SyncDS
  <1>7. CASE UserDeletes
    BY <1>7, Zenon DEF UserDeletes
  <1>8. CASE UNCHANGED recVars
    BY <1>8 DEF recVars
  <1> QED
    BY <1>1, <1>2, <1>3, <1>4, <1>5, <1>6, <1>7, <1>8

\* So does a step that assigns to the status in memory.
LEMMA ObserveKeepsSpecs ==
    ASSUME NEW Sp, NEW St, NEW Ti, RecTypeOK(Objects(Sp, St, Ti)), SpecsAgree,
           pc # "idle", NEW st \in St, NEW step, Observe(st, step)
    PROVE  /\ RecTypeOK(Objects(Sp, St, Ti))' /\ SpecsAgree'
           /\ my'.spec = my.spec /\ my'.born = my.born /\ my'.status = st
  <1>1. my \in Objects(Sp, St, Ti)
    BY Zenon DEF RecTypeOK
  <1>2. /\ my' \in Objects(Sp, St, Ti)
        /\ my'.spec = my.spec /\ my'.born = my.born /\ my'.status = st
    BY <1>1, WithStatus DEF Observe
  <1> QED
    BY <1>2, Zenon DEF Observe, RecTypeOK, SpecsAgree

\* A status write, applied or not, keeps spec and birth of the stored object.
LEMMA StatusKeepsSpecs ==
    ASSUME NEW Sp, NEW St, NEW Ti, RecTypeOK(Objects(Sp, St, Ti)), SpecsAgree,
           NoDS \notin Objects(Sp, St, Ti),
           pc # "idle", NEW st \in St, NEW step,
           WriteStatus(st, step) \/ WriteStatusAndReturn(st)
    PROVE  /\ RecTypeOK(Objects(Sp, St, Ti))' /\ SpecsAgree'
           /\ \/ ds' = ds
              \/ /\ myFresh /\ ds \in Objects(Sp, St, Ti)
                 /\ ds' \in Objects(Sp, St, Ti)
                 /\ ds'.spec = ds.spec /\ ds'.born = ds.born /\ ds'.status = st
           /\ \/ pc' = "idle"
              \/ my'.spec = my.spec /\ my'.born = my.born /\ my'.status = st
  <1> DEFINE Obj == Objects(Sp, St, Ti)
             Written == /\ myFresh
                        /\ ds' = [ds EXCEPT !.status = st]
                        /\ \E other \in BOOLEAN :
                             cacheFresh' = (cacheFresh /\ ds' = ds /\ ~other)
  <1>1. ASSUME Written
        PROVE  /\ ds \in Obj /\ ds' \in Obj /\ ds' # NoDS
               /\ ds'.spec = ds.spec /\ ds'.born = ds.born /\ ds'.status = st
               /\ cacheFresh' \in BOOLEAN
               /\ cacheFresh' => dsCache = ds'
    <2>1. ds \in Obj
      BY <1>1, Zenon DEF RecTypeOK, SpecsAgree
    <2>2. /\ ds' \in Obj
          /\ ds'.spec = ds.spec /\ ds'.born = ds.born /\ ds'.status = st
      BY <1>1, <2>1, WithStatus
    <2>3. cacheFresh' \in BOOLEAN /\ (cacheFresh' => cacheFresh /\ ds' = ds)
      BY <1>1, Zenon
    <2> QED
      BY <2>1, <2>2, <2>3, Zenon DEF SpecsAgree
  <1>2. CASE WriteStatus(st, step)
    <2>1. Written /\ my' = [my EXCEPT !.status = st] /\ my \in Obj
      BY <1>2, Zenon DEF WriteStatus, RecTypeOK
    <2>2. /\ my' \in Obj
          /\ my'.spec = my.spec /\ my'.born = my.born /\ my'.status = st
      BY <2>1, WithStatus
    <2> QED
      BY <1>1, <1>2, <2>1, <2>2, Zenon DEF WriteStatus, SpecsAgree, RecTypeOK
  <1>3. CASE WriteStatusAndReturn(st)
    <2>1. CASE UNCHANGED <<ds, cacheFresh>>
      BY <1>3, <2>1, Zenon DEF WriteStatusAndReturn, SpecsAgree, RecTypeOK
    <2>2. CASE Written
      BY <1>1, <1>3, <2>2, Zenon DEF WriteStatusAndReturn, SpecsAgree, RecTypeOK
    <2> QED
      BY <1>3, <2>1, <2>2, Zenon DEF WriteStatusAndReturn
  <1> QED
    BY <1>2, <1>3

\* A creation or an edit keeps this: no handler holds the new version.
LEMMA UserKeepsSpecs ==
    ASSUME NEW Sp, NEW St, NEW Ti, RecTypeOK(Objects(Sp, St, Ti)), SpecsAgree,
           NEW sp \in Sp, NEW st \in St, NEW ti \in Ti,
           UserCreates(sp, st, ti) \/ UserEdits(sp)
    PROVE  /\ RecTypeOK(Objects(Sp, St, Ti))' /\ SpecsAgree'
           /\ ds' \in Objects(Sp, St, Ti) /\ ds'.spec = sp
           /\ \/ ds'.status = st /\ ds'.born = ti
              \/ ds # NoDS /\ ds'.status = ds.status /\ ds'.born = ds.born
  <1> DEFINE Obj == Objects(Sp, St, Ti)
  <1>1. CASE UserCreates(sp, st, ti)
    <2>1. ds' \in Obj /\ ds'.spec = sp /\ ds'.status = st /\ ds'.born = ti
      BY <1>1, ObjectParts DEF UserCreates
    <2>2. ~myFresh /\ ~myFresh'
      BY <1>1, Zenon DEF UserCreates, SpecsAgree
    <2> QED
      BY <1>1, <2>1, <2>2, Zenon DEF UserCreates, RecTypeOK, SpecsAgree
  <1>2. CASE UserEdits(sp)
    <2>1. /\ ds' \in Obj /\ ds'.spec = sp
          /\ ds # NoDS /\ ds'.status = ds.status /\ ds'.born = ds.born
      BY <1>2, WithSpec DEF UserEdits, RecTypeOK
    <2> QED
      BY <1>2, <2>1, Zenon DEF UserEdits, RecTypeOK, SpecsAgree
  <1> QED
    BY <1>1, <1>2

\* r.Update stores nothing new, whatever status its answer brings back.
LEMMA UpdateKeepsSpecs ==
    ASSUME NEW Sp, NEW St, NEW Ti, RecTypeOK(Objects(Sp, St, Ti)), SpecsAgree,
           pc # "idle", NEW st \in St, NEW step,
           WriteObject(st, step) \/ WriteObjectAndReturn
    PROVE  /\ RecTypeOK(Objects(Sp, St, Ti))' /\ SpecsAgree'
           /\ ds' = ds
           /\ \/ pc' = "idle"
              \/ my'.spec = my.spec /\ my'.born = my.born /\ my'.status = st
  <1> DEFINE Obj == Objects(Sp, St, Ti)
             Written == /\ myFresh
                        /\ ds' = [ds EXCEPT !.spec = my.spec]
                        /\ \E other \in BOOLEAN :
                             cacheFresh' = (cacheFresh /\ ds' = ds /\ ~other)
  <1>1. ASSUME Written
        PROVE  /\ ds' = ds
               /\ cacheFresh' \in BOOLEAN /\ (cacheFresh' => cacheFresh)
    <2>1. ds \in Obj /\ my.spec = ds.spec
      BY <1>1, Zenon DEF RecTypeOK, SpecsAgree
    <2>2. ds' = ds
      BY <1>1, <2>1, ObjectParts, Zenon
    <2>3. cacheFresh' \in BOOLEAN /\ (cacheFresh' => cacheFresh)
      BY <1>1, Zenon
    <2> QED
      BY <2>2, <2>3
  <1>2. CASE WriteObject(st, step)
    <2>1. Written /\ my' = [my EXCEPT !.status = st] /\ my \in Obj
      BY <1>2, Zenon DEF WriteObject, RecTypeOK
    <2>2. /\ my' \in Obj
          /\ my'.spec = my.spec /\ my'.born = my.born /\ my'.status = st
      BY <2>1, WithStatus
    <2> QED
      BY <1>1, <1>2, <2>1, <2>2, Zenon DEF WriteObject, SpecsAgree, RecTypeOK
  <1>3. CASE WriteObjectAndReturn
    <2>1. CASE UNCHANGED <<ds, cacheFresh>>
      BY <1>3, <2>1, Zenon DEF WriteObjectAndReturn, SpecsAgree, RecTypeOK
    <2>2. CASE Written
      BY <1>1, <1>3, <2>2, Zenon DEF WriteObjectAndReturn, SpecsAgree, RecTypeOK
    <2> QED
      BY <1>3, <2>1, <2>2, Zenon DEF WriteObjectAndReturn
  <1> QED
    BY <1>2, <1>3

=============================================================================

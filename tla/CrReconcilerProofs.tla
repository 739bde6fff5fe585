------------------------- MODULE CrReconcilerProofs -------------------------
(***************************************************************************)
(* For any outputs, any number of controllers that replace each other, any *)
(* edits of users and any failures: nothing is applied to a resource that  *)
(* nobody will clean up, and a controller that rests has nothing to do.    *)
(***************************************************************************)
EXTENDS CrReconciler, TLAPS

\* What the API server has, what a Reconcile has of it, what it marshalled.
Resource ==
  [exists : BOOLEAN, spec : CrSpec \cup {None}, deleting : BOOLEAN,
   fin : BOOLEAN, status : BOOLEAN]
Copy == [deleting : BOOLEAN, fin : BOOLEAN, status : BOOLEAN, current : BOOLEAN]
Data == [spec : CrSpec \cup {None}, current : BOOLEAN]

\* The part of the type invariant that a write to the API server is about.
ServerType ==
  /\ cr \in Resource /\ (cr.exists \/ cr = Absent)
  /\ queued \in [Gen -> BOOLEAN]
  /\ copy \in [Gen -> Copy] /\ data \in [Gen -> Data]
  /\ \A g \in Gen : copy[g].current =>
       /\ cr.exists /\ copy[g].deleting = cr.deleting /\ copy[g].fin = cr.fin

\* The other part.
OthersType ==
  /\ applied \in [Output -> CrSpec \cup {None}] /\ cleaned \in BOOLEAN
  /\ userOps \in 0..MaxUserOps /\ failures \in 0..MaxFailures
  /\ cur \in Gen
  /\ pc \in [Gen -> PC]
  /\ todo \in [Gen -> SUBSET (Output \cup {Self})]
  /\ retry \in [Gen -> BOOLEAN] /\ failed \in [Gen -> BOOLEAN]
  /\ inflight \in [Gen -> BOOLEAN] /\ late \in BOOLEAN

LEMMA TypeParts ==
  /\ TypeOK <=> ServerType /\ OthersType
  /\ TypeOK' <=> ServerType' /\ OthersType'
BY DEF TypeOK, ServerType, OthersType, Resource, Copy, Data

LEMMA AbsentType == Absent \in Resource /\ ~Absent.exists /\ ~Absent.deleting
BY DEF Absent, Resource, None

\* Copies that got out of date are the same, but not current.
LEMMA OldVersions ==
  ASSUME TypeOK
  PROVE  /\ OutOfDate \in [Gen -> Copy] /\ OldData \in [Gen -> Data]
         /\ \A g \in Gen : /\ ~OutOfDate[g].current
                           /\ OutOfDate[g].deleting = copy[g].deleting
                           /\ OutOfDate[g].fin = copy[g].fin
                           /\ OutOfDate[g].status = copy[g].status
                           /\ OldData[g].spec = data[g].spec
<1>1. copy \in [Gen -> Copy] /\ data \in [Gen -> Data]
      BY TypeParts DEF ServerType
<1>2. \A g \in Gen : /\ [copy[g] EXCEPT !.current = FALSE] \in Copy
                     /\ [data[g] EXCEPT !.current = FALSE] \in Data
      BY <1>1 DEF Copy, Data
<1> QED BY <1>1, <1>2 DEF OutOfDate, OldData, Copy, Data

\* A write by a user: the copies keep what they have, none of them is current.
LEMMA PutByUser ==
  ASSUME TypeOK, NEW new \in Resource, new.exists \/ new = Absent,
         Put(new, OutOfDate, OldData)
  PROVE  /\ ServerType' /\ cr' = new /\ queued'[cur]
         /\ \A g \in Gen : /\ ~copy'[g].current
                           /\ copy'[g].deleting = copy[g].deleting
                           /\ copy'[g].fin = copy[g].fin
                           /\ copy'[g].status = copy[g].status
                           /\ data'[g].spec = data[g].spec
<1>1. /\ OutOfDate \in [Gen -> Copy] /\ OldData \in [Gen -> Data]
      /\ \A g \in Gen : ~OutOfDate[g].current
      BY OldVersions
<1>2. queued' \in [Gen -> BOOLEAN] /\ queued'[cur]
      BY TypeParts DEF Put, ServerType, OthersType
<1>3. ServerType'
      BY <1>1, <1>2 DEF Put, ServerType
<1>4. \A g \in Gen : /\ OutOfDate[g].deleting = copy[g].deleting
                     /\ OutOfDate[g].fin = copy[g].fin
                     /\ OutOfDate[g].status = copy[g].status
                     /\ OldData[g].spec = data[g].spec
      BY OldVersions
<1> QED BY <1>1, <1>2, <1>3, <1>4 DEF Put

\* A write by a Reconcile, whose copy is the new state.
LEMMA PutByReconcile ==
  ASSUME TypeOK, NEW g \in Gen, NEW new \in Resource, new.exists,
         PutBy(g, new)
  PROVE  /\ ServerType' /\ queued'[cur]
         /\ cr' = (IF new.deleting /\ ~new.fin THEN Absent ELSE new)
         /\ copy'[g].deleting = new.deleting /\ copy'[g].fin = new.fin
         /\ \A h \in Gen : data'[h].spec = data[h].spec
         /\ \A h \in Gen \ {g} : /\ ~copy'[h].current
                                 /\ copy'[h].deleting = copy[h].deleting
                                 /\ copy'[h].fin = copy[h].fin
<1> DEFINE gone == new.deleting /\ ~new.fin
           mine == [deleting |-> new.deleting, fin |-> new.fin,
                    status |-> new.status, current |-> ~gone]
           copies == [OutOfDate EXCEPT ![g] = mine]
<1>1. /\ OutOfDate \in [Gen -> Copy] /\ OldData \in [Gen -> Data]
      /\ \A h \in Gen : /\ ~OutOfDate[h].current
                        /\ OutOfDate[h].deleting = copy[h].deleting
                        /\ OutOfDate[h].fin = copy[h].fin
                        /\ OldData[h].spec = data[h].spec
      BY OldVersions
<1>2. /\ cr' = (IF gone THEN Absent ELSE new)
      /\ copy' = copies /\ data' = OldData
      /\ queued' = [queued EXCEPT ![cur] = TRUE]
      BY DEF PutBy, Put
<1>3. mine \in Copy
      BY DEF Copy, Resource
<1>4. copies \in [Gen -> Copy] /\ copies[g] = mine
      /\ \A h \in Gen \ {g} : copies[h] = OutOfDate[h]
      BY <1>1, <1>3
<1>5. queued' \in [Gen -> BOOLEAN] /\ queued'[cur]
      BY <1>2, TypeParts DEF ServerType, OthersType
<1>6. cr' \in Resource /\ (cr'.exists \/ cr' = Absent)
      BY <1>2, AbsentType
<1>7. ASSUME NEW h \in Gen, copies[h].current
      PROVE  cr'.exists /\ copies[h].deleting = cr'.deleting /\ copies[h].fin = cr'.fin
  <2>1. h = g
        BY <1>1, <1>4, <1>7
  <2>2. ~gone /\ cr' = new
        BY <1>2, <1>4, <1>7, <2>1
  <2> QED BY <1>4, <2>1, <2>2
<1> HIDE DEF copies
<1>8. ServerType'
      BY <1>1, <1>2, <1>4, <1>5, <1>6, <1>7 DEF ServerType
<1> QED BY <1>1, <1>2, <1>4, <1>5, <1>8

\* What a user writes is a resource.
LEMMA UserType ==
  ASSUME TypeOK, UserCreates \/ UserEdits \/ UserDeletes
  PROVE  TypeOK' /\ queued'[cur] /\ UNCHANGED <<cur, pc, late>>
         /\ \E new \in Resource : /\ new.exists \/ new = Absent
                                 /\ Put(new, OutOfDate, OldData)
<1>1. User /\ userOps + 1 \in CrSpec /\ userOps' \in 0..MaxUserOps
  <2>1. User
        BY DEF UserCreates, UserEdits, UserDeletes
  <2> QED BY <2>1, MaxUserOpsAssumption, TypeParts DEF User, CrSpec, OthersType
<1>2. \E new \in Resource : /\ new.exists \/ new = Absent
                           /\ Put(new, OutOfDate, OldData)
  <2>1. CASE UserCreates
    <3>1. /\ [Absent EXCEPT !.exists = TRUE, !.spec = userOps + 1] \in Resource
          /\ [Absent EXCEPT !.exists = TRUE, !.spec = userOps + 1].exists
          BY <1>1, AbsentType DEF Resource
    <3> QED BY <2>1, <3>1 DEF UserCreates
  <2>2. CASE UserEdits
    <3>1. /\ [cr EXCEPT !.spec = userOps + 1, !.status = FALSE] \in Resource
          /\ [cr EXCEPT !.spec = userOps + 1, !.status = FALSE].exists
          BY <1>1, <2>2, TypeParts DEF Resource, ServerType, UserEdits
    <3> QED BY <2>2, <3>1 DEF UserEdits
  <2>3. CASE UserDeletes
    <3>1. CASE cr.fin
      <4>1. [cr EXCEPT !.deleting = TRUE] \in Resource /\ [cr EXCEPT !.deleting = TRUE].exists
            BY <2>3, TypeParts DEF Resource, ServerType, UserDeletes
      <4> QED BY <2>3, <3>1, <4>1 DEF UserDeletes
    <3>2. CASE ~cr.fin
          BY <2>3, <3>2, AbsentType DEF UserDeletes
    <3> QED BY <3>1, <3>2
  <2> QED BY <2>1, <2>2, <2>3
<1>3. ServerType' /\ queued'[cur]
      BY <1>2, PutByUser
<1>4. cleaned' \in BOOLEAN
      BY TypeParts DEF UserCreates, UserEdits, UserDeletes, OthersType
<1>5. OthersType'
      BY <1>1, <1>4, TypeParts DEF User, OthersType
<1> QED BY <1>1, <1>2, <1>3, <1>5, TypeParts DEF User

\* The steps of a Reconcile that write to the API server, as a write.
Writes(g, new) == new \in Resource /\ new.exists /\ PutBy(g, new)

LEMMA UpdatesWrite ==
  ASSUME TypeOK, NEW g \in Gen
  PROVE  /\ AddFinalizer(g) /\ NeedsFinalizer(g) =>
              copy[g].current /\ Writes(g, [cr EXCEPT !.fin = TRUE])
         /\ RemoveFinalizer(g) => copy[g].current /\ Writes(g, [cr EXCEPT !.fin = FALSE])
         /\ UpdateStatus(g) /\ copy[g].status # cr.status =>
              copy[g].current /\ Writes(g, [cr EXCEPT !.status = copy[g].status])
<1>1. cr \in Resource /\ copy \in [Gen -> Copy] /\ (copy[g].current => cr.exists)
      BY TypeParts DEF ServerType
<1>2. /\ [cr EXCEPT !.fin = TRUE] \in Resource
      /\ [cr EXCEPT !.fin = FALSE] \in Resource
      /\ [cr EXCEPT !.status = copy[g].status] \in Resource
      /\ [cr EXCEPT !.fin = TRUE].exists = cr.exists
      /\ [cr EXCEPT !.fin = FALSE].exists = cr.exists
      /\ [cr EXCEPT !.status = copy[g].status].exists = cr.exists
      BY <1>1 DEF Resource, Copy
<1>3. AddFinalizer(g) /\ NeedsFinalizer(g) =>
        copy[g].current /\ PutBy(g, [cr EXCEPT !.fin = TRUE])
      BY DEF AddFinalizer
<1>4. RemoveFinalizer(g) => copy[g].current /\ PutBy(g, [cr EXCEPT !.fin = FALSE])
      BY DEF RemoveFinalizer
<1>5. UpdateStatus(g) /\ copy[g].status # cr.status =>
        copy[g].current /\ PutBy(g, [cr EXCEPT !.status = copy[g].status])
      BY DEF UpdateStatus
<1> QED BY <1>1, <1>2, <1>3, <1>4, <1>5 DEF Writes

LEMMA UpdatesType ==
  ASSUME TypeOK, NEW g \in Gen, AddFinalizer(g) \/ RemoveFinalizer(g) \/ UpdateStatus(g)
  PROVE  TypeOK'
<1> USE TypeParts
<1>1. OthersType'
      BY DEF AddFinalizer, RemoveFinalizer, UpdateStatus, Landed, Goto, OthersType, PC, bound
<1>2. CASE AddFinalizer(g)
  <2>1. CASE NeedsFinalizer(g)
        BY <1>1, <1>2, <2>1, UpdatesWrite, PutByReconcile DEF Writes
  <2>2. CASE ~NeedsFinalizer(g)
        BY <1>1, <1>2, <2>2 DEF AddFinalizer, ServerType
  <2> QED BY <2>1, <2>2
<1>3. CASE RemoveFinalizer(g)
      BY <1>1, <1>3, UpdatesWrite, PutByReconcile DEF Writes
<1>4. CASE UpdateStatus(g)
  <2>1. CASE copy[g].status # cr.status
        BY <1>1, <1>4, <2>1, UpdatesWrite, PutByReconcile DEF Writes
  <2>2. CASE copy[g].status = cr.status
    <3>1. UNCHANGED <<cr, copy, data>> /\ queued' = [queued EXCEPT ![g] = @ \/ retry[g]]
          BY <1>4, <2>2 DEF UpdateStatus
    <3>2. queued' \in [Gen -> BOOLEAN]
          BY <3>1 DEF ServerType
    <3>3. ServerType'
          BY <3>1, <3>2 DEF ServerType
    <3> QED BY <1>1, <3>3
  <2> QED BY <2>1, <2>2
<1> QED BY <1>2, <1>3, <1>4

\* The steps that look at the resource and do not write it.
LEMMA ReadsType ==
  ASSUME TypeOK, NEW g \in Gen,
         Begin(g) \/ TakeSelf(g) \/ StatusConflict(g) \/ StatusFails(g) \/ NextController
  PROVE  TypeOK'
<1> USE TypeParts
<1>1. CASE Begin(g)
  <2>1. OthersType'
        BY <1>1 DEF Begin, Goto, OthersType, PC, bound, world
  <2>2. ServerType'
    <3>1. [deleting |-> cr.deleting, fin |-> cr.fin, status |-> cr.status,
           current |-> cr.exists] \in Copy
          BY DEF ServerType, Resource, Copy
    <3>2. [spec |-> cr.spec, current |-> cr.exists] \in Data
          BY DEF ServerType, Resource, Data
    <3> QED BY <1>1, <3>1, <3>2 DEF Begin, ServerType, world
  <2> QED BY <2>1, <2>2
<1>2. CASE TakeSelf(g)
  <2>1. OthersType'
        BY <1>2 DEF TakeSelf, OthersType, bound, world
  <2>2. ServerType'
    <3>1. /\ copy' = [copy EXCEPT ![g] = [copy[g] EXCEPT !.status = TRUE, !.current = @ /\ data[g].current]]
          /\ UNCHANGED <<cr, queued, data>>
          BY <1>2 DEF TakeSelf, world
    <3> DEFINE mine == [copy[g] EXCEPT !.status = TRUE, !.current = @ /\ data[g].current]
    <3>3. copy[g] \in Copy /\ data[g].current \in BOOLEAN
          BY DEF ServerType, Data
    <3>4. /\ mine \in Copy /\ (mine.current => copy[g].current)
          /\ mine.deleting = copy[g].deleting /\ mine.fin = copy[g].fin
          BY <3>3 DEF Copy
    <3>5. copy' = [copy EXCEPT ![g] = mine]
          BY <3>1
    <3> HIDE DEF mine
    <3>2. /\ copy' \in [Gen -> Copy]
          /\ \A h \in Gen : /\ copy'[h].current => copy[h].current
                            /\ copy'[h].deleting = copy[h].deleting
                            /\ copy'[h].fin = copy[h].fin
          BY <3>4, <3>5 DEF ServerType
    <3> QED BY <3>1, <3>2 DEF ServerType
  <2> QED BY <2>1, <2>2
<1>3. CASE StatusConflict(g)
  <2>1. OthersType'
        BY <1>3 DEF StatusConflict, Goto, OthersType, PC, bound, world
  <2>2. ServerType'
        BY <1>3 DEF StatusConflict, ServerType, world
  <2> QED BY <2>1, <2>2
<1>4. CASE StatusFails(g)
  <2>1. OthersType'
        BY <1>4, MaxFailuresAssumption DEF StatusFails, Goto, OthersType, PC, world
  <2>2. ServerType'
        BY <1>4 DEF StatusFails, ServerType, world
  <2> QED BY <2>1, <2>2
<1>5. CASE NextController
  <2>1. cur + 1 \in Gen
        BY <1>5, MaxGenAssumption DEF NextController, OthersType, Gen
  <2>2. OthersType'
        BY <1>5, <2>1 DEF NextController, OthersType, bound, world
  <2>3. ServerType'
    <3>1. queued' \in [Gen -> BOOLEAN]
          BY <1>5, <2>1 DEF NextController, ServerType, Resource
    <3> QED BY <1>5, <3>1 DEF NextController, ServerType, world
  <2> QED BY <2>2, <2>3
<1> QED BY <1>1, <1>2, <1>3, <1>4, <1>5

\* The steps that concern the Reconcile and what it outputs only.
LEMMA RunsType ==
  ASSUME TypeOK, NEW g \in Gen,
         \/ GetFnClients(g) \/ RunDelete(g) \/ RunApply(g) \/ Apply(g) \/ OutputsDone(g)
         \/ Conflict(g) \/ CallFails(g) \/ ClientsFail(g) \/ UNCHANGED vars
  PROVE  TypeOK'
<1> USE TypeParts
<1>1. UNCHANGED <<cr, queued, copy, data>>
      BY DEF GetFnClients, RunDelete, RunApply, Apply, OutputsDone, Conflict, CallFails,
             ClientsFail, Retry, world, vars
<1>2. ServerType'
      BY <1>1 DEF ServerType
<1>3. OthersType'
  <2>1. CASE RunDelete(g)
        BY <2>1 DEF RunDelete, Goto, OthersType, PC, bound
  <2>2. CASE RunApply(g)
    <3>1. pc' \in [Gen -> PC]
          BY <2>2 DEF RunApply, Goto, OthersType, PC
    <3>2. PICK part \in SUBSET (Output \cup {Self}) : todo' = [todo EXCEPT ![g] = part]
          BY <2>2 DEF RunApply
    <3>3. todo' \in [Gen -> SUBSET (Output \cup {Self})]
          BY <3>2 DEF OthersType
    <3>4. failures' = failures \/ (failures < MaxFailures /\ failures' = failures + 1)
          BY <2>2 DEF RunApply
    <3>5. failures' \in 0..MaxFailures
          BY <3>4, MaxFailuresAssumption DEF OthersType
    <3>6. failed' = failed \/ failed' = [failed EXCEPT ![g] = TRUE]
          BY <2>2 DEF RunApply
    <3>7. failed' \in [Gen -> BOOLEAN]
          BY <3>6 DEF OthersType
    <3> QED BY <2>2, <3>1, <3>3, <3>5, <3>7 DEF RunApply, OthersType, world
  <2>3. CASE Apply(g)
    <3>1. data[g].spec \in CrSpec \cup {None}
          BY DEF ServerType, Data
    <3>2. PICK o \in todo[g] \ {Self} :
            /\ applied' = [applied EXCEPT ![o] = data[g].spec]
            /\ todo' = [todo EXCEPT ![g] = @ \ {o}]
          BY <2>3 DEF Apply
    <3>3. applied' \in [Output -> CrSpec \cup {None}] /\ todo' \in [Gen -> SUBSET (Output \cup {Self})]
          BY <3>1, <3>2 DEF OthersType
    <3> QED BY <2>3, <3>3 DEF Apply, Landed, OthersType, bound
  <2>4. CASE Conflict(g) \/ CallFails(g) \/ ClientsFail(g)
    <3>1. Retry(g)
          BY <2>4 DEF Conflict, CallFails, ClientsFail
    <3>2. failures' = failures \/ (failures < MaxFailures /\ failures' = failures + 1)
          BY <2>4 DEF Conflict, CallFails, ClientsFail
    <3>3. failures' \in 0..MaxFailures
          BY <3>2, MaxFailuresAssumption DEF OthersType
    <3>4. pc' \in [Gen -> PC] /\ retry' \in [Gen -> BOOLEAN]
          BY <3>1 DEF Retry, OthersType, PC
    <3> QED BY <3>1, <3>3, <3>4 DEF Retry, OthersType, world
  <2>5. CASE GetFnClients(g) \/ OutputsDone(g) \/ UNCHANGED vars
        BY <2>5 DEF GetFnClients, OutputsDone, Goto, OthersType, PC, bound, world, vars
  <2> QED BY <2>1, <2>2, <2>3, <2>4, <2>5
<1> QED BY <1>2, <1>3

\* Every step keeps the types.
LEMMA TypeStep == TypeOK /\ [Next]_vars => TypeOK'
<1> SUFFICES ASSUME TypeOK, [Next]_vars PROVE TypeOK'
    OBVIOUS
<1>1. ASSUME NEW g \in Gen, Reconcile(g) PROVE TypeOK'
      BY <1>1, UpdatesType, ReadsType, RunsType DEF Reconcile
<1>2. ASSUME NEW g \in Gen, Fail(g) PROVE TypeOK'
      BY <1>2, ReadsType, RunsType DEF Fail
<1>3. CASE UserCreates \/ UserEdits \/ UserDeletes
      BY <1>3, UserType
<1>4. CASE NextController \/ UNCHANGED vars
  <2>1. 1 \in Gen
        BY MaxGenAssumption DEF Gen
  <2> QED BY <1>4, <2>1, ReadsType, RunsType
<1> QED BY <1>1, <1>2, <1>3, <1>4 DEF Next

(***************************************************************************)
(* What the steps do to the copies and to those who work on them           *)
(***************************************************************************)
\* A Reconcile writes what is being deleted or not as it found it.
LEMMA UpdatesKeep ==
  ASSUME TypeOK, NEW g \in Gen,
         \/ AddFinalizer(g) /\ NeedsFinalizer(g)
         \/ RemoveFinalizer(g)
         \/ UpdateStatus(g) /\ copy[g].status # cr.status
  PROVE  /\ copy[g].current /\ cr.exists /\ copy[g].deleting = cr.deleting
         /\ \E new \in Resource :
              /\ new.exists /\ PutBy(g, new) /\ new.deleting = cr.deleting
              /\ AddFinalizer(g) => new.fin
              /\ UpdateStatus(g) => new.fin = cr.fin
<1>1. cr \in Resource /\ (copy[g].current => cr.exists /\ copy[g].deleting = cr.deleting)
      BY TypeParts DEF ServerType
<1>2. /\ [cr EXCEPT !.fin = TRUE].deleting = cr.deleting
      /\ [cr EXCEPT !.fin = TRUE].fin
      /\ [cr EXCEPT !.fin = FALSE].deleting = cr.deleting
      /\ [cr EXCEPT !.status = copy[g].status].deleting = cr.deleting
      /\ [cr EXCEPT !.status = copy[g].status].fin = cr.fin
      BY <1>1 DEF Resource
<1>3. CASE AddFinalizer(g) /\ NeedsFinalizer(g)
  <2>1. pc[g] = "finalizer"
        BY <1>3 DEF AddFinalizer, Goto
  <2>2. ~UpdateStatus(g)
        BY <2>1 DEF UpdateStatus, Goto
  <2> QED BY <1>1, <1>2, <1>3, <2>2, UpdatesWrite DEF Writes
<1>4. CASE RemoveFinalizer(g)
  <2>1. pc[g] = "remove"
        BY <1>4 DEF RemoveFinalizer, Goto
  <2>2. ~UpdateStatus(g) /\ ~AddFinalizer(g)
        BY <2>1 DEF UpdateStatus, AddFinalizer, Goto
  <2> QED BY <1>1, <1>2, <1>4, <2>2, UpdatesWrite DEF Writes
<1>5. CASE UpdateStatus(g) /\ copy[g].status # cr.status
  <2>1. pc[g] = "status"
        BY <1>5 DEF UpdateStatus, Goto
  <2>2. ~AddFinalizer(g)
        BY <2>1 DEF AddFinalizer, Goto
  <2> QED BY <1>1, <1>2, <1>5, <2>2, UpdatesWrite DEF Writes
<1> QED BY <1>3, <1>4, <1>5

\* Only Begin brings a controller another copy, and only it a current one.
LEMMA CopiesKeep ==
  ASSUME TypeOK, [Next]_vars, NEW h \in Gen, ~Begin(h)
  PROVE  /\ copy'[h].deleting = copy[h].deleting
         /\ copy'[h].current => copy[h].current
<1>1. ServerType /\ OthersType
      BY TypeParts
<1>2. CASE UserCreates \/ UserEdits \/ UserDeletes
      BY <1>2, UserType, PutByUser
<1>3. CASE NextController \/ UNCHANGED vars
      BY <1>3 DEF NextController, vars
<1>4. ASSUME NEW g \in Gen, Reconcile(g) \/ Fail(g)
      PROVE  /\ copy'[h].deleting = copy[h].deleting
             /\ copy'[h].current => copy[h].current
  <2>1. CASE \/ AddFinalizer(g) /\ NeedsFinalizer(g)
             \/ RemoveFinalizer(g)
             \/ UpdateStatus(g) /\ copy[g].status # cr.status
    <3>1. copy[g].current /\ copy[g].deleting = cr.deleting
          BY <2>1, UpdatesKeep
    <3>2. PICK new \in Resource : new.exists /\ PutBy(g, new) /\ new.deleting = cr.deleting
          BY <2>1, UpdatesKeep
    <3>3. /\ copy'[g].deleting = new.deleting
          /\ h # g => ~copy'[h].current /\ copy'[h].deleting = copy[h].deleting
          BY <3>2, PutByReconcile
    <3> QED BY <3>1, <3>2, <3>3
  <2>2. CASE Begin(g)
        BY <1>1, <2>2 DEF Begin, ServerType
  <2>3. CASE TakeSelf(g)
        BY <1>1, <2>3 DEF TakeSelf, ServerType, Copy
  <2>4. CASE \/ AddFinalizer(g) /\ ~NeedsFinalizer(g)
             \/ UpdateStatus(g) /\ ~(copy[g].status # cr.status)
        BY <2>4 DEF AddFinalizer, UpdateStatus
  <2>5. CASE \/ GetFnClients(g) \/ RunDelete(g) \/ RunApply(g) \/ Apply(g)
             \/ OutputsDone(g) \/ StatusConflict(g) \/ Conflict(g) \/ CallFails(g)
             \/ ClientsFail(g) \/ StatusFails(g)
        BY <2>5 DEF GetFnClients, RunDelete, RunApply, Apply, OutputsDone, StatusConflict,
                    Conflict, CallFails, ClientsFail, StatusFails, Retry
  <2> QED BY <1>4, <2>1, <2>2, <2>3, <2>4, <2>5 DEF Reconcile, Fail
<1> QED BY <1>2, <1>3, <1>4 DEF Next

\* Where the step of a controller takes it.
LEMMA GoesOn ==
  ASSUME TypeOK, NEW g \in Gen, Reconcile(g) \/ Fail(g)
  PROVE  /\ cur' = cur
         /\ \A h \in Gen \ {g} : pc'[h] = pc[h]
         /\ pc[g] = "idle" => Begin(g) /\ g = cur
         /\ pc'[g] \in {"run", "apply"} =>
              pc[g] \in {"run", "apply"} \/ (pc[g] = "clients" /\ ~copy[g].deleting)
         /\ pc'[g] \in {"delete", "remove"} =>
              pc[g] = "delete" \/ (pc[g] = "clients" /\ copy[g].deleting)
<1> USE DEF Goto
<1>1. pc \in [Gen -> PC]
      BY TypeParts DEF OthersType
<1>2. CASE Begin(g) \/ AddFinalizer(g) \/ GetFnClients(g) \/ RunDelete(g)
      BY <1>1, <1>2 DEF Begin, AddFinalizer, GetFnClients, RunDelete
<1>3. CASE RemoveFinalizer(g) \/ RunApply(g) \/ OutputsDone(g) \/ UpdateStatus(g)
      BY <1>1, <1>3 DEF RemoveFinalizer, RunApply, OutputsDone, UpdateStatus
<1>4. CASE Apply(g) \/ TakeSelf(g)
      BY <1>1, <1>4 DEF Apply, TakeSelf
<1>5. CASE StatusConflict(g) \/ StatusFails(g)
      BY <1>1, <1>5 DEF StatusConflict, StatusFails
<1>6. CASE Conflict(g) \/ CallFails(g) \/ ClientsFail(g)
      BY <1>1, <1>6 DEF Conflict, CallFails, ClientsFail, Updating, Calling, Retry
<1> QED BY <1>2, <1>3, <1>4, <1>5, <1>6 DEF Reconcile, Fail

\* Where a controller is tells what its copy says.
LEMMA WorkStep == TypeOK /\ WorkFacts /\ [Next]_vars => WorkFacts'
<1> SUFFICES ASSUME TypeOK, WorkFacts, [Next]_vars PROVE WorkFacts'
    OBVIOUS
<1>1. OthersType
      BY TypeParts
<1>2. ASSUME NEW g \in Gen, Reconcile(g) \/ Fail(g) PROVE WorkFacts'
  <2>1. /\ cur' = cur
        /\ \A h \in Gen \ {g} : pc'[h] = pc[h]
        /\ pc[g] = "idle" => Begin(g) /\ g = cur
        /\ pc'[g] \in {"run", "apply"} =>
             pc[g] \in {"run", "apply"} \/ (pc[g] = "clients" /\ ~copy[g].deleting)
        /\ pc'[g] \in {"delete", "remove"} =>
             pc[g] = "delete" \/ (pc[g] = "clients" /\ copy[g].deleting)
        BY <1>2, GoesOn
  <2>2. ASSUME NEW h \in Gen
        PROVE  /\ h > cur' => pc'[h] = "idle"
               /\ pc'[h] \in {"run", "apply"} => ~copy'[h].deleting
               /\ pc'[h] \in {"delete", "remove"} => copy'[h].deleting
    <3>1. CASE Begin(h)
      <4>1. h = cur /\ pc'[h] \in {"finalizer", "idle"} /\ pc[h] = "idle"
            BY <1>1, <3>1 DEF Begin, Goto, OthersType
      <4> QED BY <1>1, <2>1, <4>1 DEF OthersType, Gen
    <3>2. CASE ~Begin(h)
      <4>1. copy'[h].deleting = copy[h].deleting
            BY <3>2, CopiesKeep
      <4> QED BY <1>1, <2>1, <3>2, <4>1 DEF WorkFacts, OthersType, Gen
    <3> QED BY <3>1, <3>2
  <2> QED BY <2>2 DEF WorkFacts
<1>3. ASSUME \/ UserCreates \/ UserEdits \/ UserDeletes \/ NextController
             \/ UNCHANGED vars
      PROVE  WorkFacts'
  <2>1. cur' \in {cur, cur + 1} /\ pc' = pc
        BY <1>3 DEF UserCreates, UserEdits, UserDeletes, User, NextController, vars
  <2>2. ASSUME NEW h \in Gen
        PROVE  copy'[h].deleting = copy[h].deleting
    <3>1. CASE UserCreates \/ UserEdits \/ UserDeletes
          BY <3>1, UserType, PutByUser
    <3>2. CASE NextController \/ UNCHANGED vars
          BY <3>2 DEF NextController, vars
    <3> QED BY <1>3, <3>1, <3>2
  <2>3. \A h \in Gen : h > cur' => h > cur
        BY <1>1, <2>1 DEF OthersType, Gen
  <2> QED BY <2>1, <2>2, <2>3 DEF WorkFacts
<1> QED BY <1>2, <1>3 DEF Next

(***************************************************************************)
(* What the steps do to the facts of the current controller                *)
(***************************************************************************)
Facts == FinalizerFacts /\ PendingFacts /\ Settled

\* All that the facts say of the current controller, but the world.
SameController ==
  /\ cur' = cur /\ pc'[cur] = pc[cur] /\ queued'[cur] = queued[cur]
  /\ copy'[cur].deleting = copy[cur].deleting /\ copy'[cur].fin = copy[cur].fin
  /\ copy'[cur].status = copy[cur].status /\ data'[cur].spec = data[cur].spec
  /\ todo'[cur] = todo[cur] /\ retry'[cur] = retry[cur] /\ failed'[cur] = failed[cur]
  /\ late => late'
  /\ \A h \in Gen : /\ copy'[h].deleting = copy[h].deleting
                    /\ copy'[h].current => copy[h].current

LEMMA SameFacts ==
  ASSUME Facts, SameController, UNCHANGED <<cr, cleaned>>, late' \/ UNCHANGED applied
  PROVE  Facts'
<1>1. FinalizerFacts'
      BY DEF Facts, FinalizerFacts, UnderWay, SameController
<1>2. PendingFacts' /\ Settled'
      BY DEF Facts, PendingFacts, Settled, SameController
<1> QED BY <1>1, <1>2 DEF Facts

\* An update of a cancelled controller leaves the finalizer for a Reconcile under
\* way that is not there to clean up, and queues a request.
LEMMA OldWriteFacts ==
  ASSUME IInv, NEW g \in Gen, g # cur,
         \/ AddFinalizer(g) /\ NeedsFinalizer(g)
         \/ RemoveFinalizer(g)
         \/ UpdateStatus(g) /\ copy[g].status # cr.status
  PROVE  Facts'
<1>1. TypeOK /\ ServerType /\ OthersType /\ WorkFacts /\ FinalizerFacts
      BY TypeParts DEF IInv
<1>2. UNCHANGED <<cur, cleaned, late>> /\ pc'[cur] = pc[cur]
      BY <1>1 DEF AddFinalizer, RemoveFinalizer, UpdateStatus, Goto, OthersType
<1>3. copy[g].current /\ cr.exists /\ copy[g].deleting = cr.deleting
      BY <1>1, UpdatesKeep
<1>4. PICK new \in Resource :
        /\ new.exists /\ PutBy(g, new) /\ new.deleting = cr.deleting
        /\ AddFinalizer(g) => new.fin
        /\ UpdateStatus(g) => new.fin = cr.fin
      BY <1>1, UpdatesKeep
<1>5. /\ queued'[cur] /\ cr' = (IF new.deleting /\ ~new.fin THEN Absent ELSE new)
      /\ copy'[cur].deleting = copy[cur].deleting /\ copy'[cur].fin = copy[cur].fin
      /\ copy'[g].deleting = new.deleting
      /\ \A h \in Gen \ {g} : ~copy'[h].current
      BY <1>1, <1>4, PutByReconcile DEF OthersType
<1>6. PendingFacts' /\ Settled'
      BY <1>2, <1>5 DEF PendingFacts, Settled
<1>7. /\ cr'.deleting => cr'.fin
      /\ cr'.exists /\ cleaned => cr'.deleting
      BY <1>1, <1>3, <1>4, <1>5, AbsentType DEF FinalizerFacts
<1>8. UnderWay' <=> UnderWay
      BY <1>2, <1>5 DEF UnderWay
<1>9. ASSUME UnderWay, ~copy[cur].deleting
      PROVE  /\ cr'.exists /\ cr'.fin /\ ~cleaned'
             /\ \A h \in Gen : ~(copy'[h].current /\ copy'[h].deleting)
  <2>1. cr.exists /\ cr.fin /\ ~cleaned /\ ~cr.deleting
        BY <1>1, <1>3, <1>9 DEF FinalizerFacts
  <2>2. ~RemoveFinalizer(g)
        BY <1>1, <1>3, <2>1 DEF RemoveFinalizer, Goto, WorkFacts
  <2>3. new.fin /\ ~new.deleting
        BY <1>4, <2>1, <2>2
  <2> QED BY <1>2, <1>4, <1>5, <2>1, <2>3
<1>10. FinalizerFacts'
      BY <1>2, <1>5, <1>7, <1>8, <1>9 DEF FinalizerFacts
<1> QED BY <1>6, <1>10 DEF Facts

\* The other steps of a cancelled controller are none of the current one's
\* business, but for an output applied late.
LEMMA OldFacts ==
  ASSUME IInv, [Next]_vars, NEW g \in Gen, g # cur, Reconcile(g) \/ Fail(g)
  PROVE  Facts'
<1> DEFINE Writing == \/ AddFinalizer(g) /\ NeedsFinalizer(g)
                      \/ RemoveFinalizer(g)
                      \/ UpdateStatus(g) /\ copy[g].status # cr.status
<1> USE DEF Goto
<1>1. TypeOK /\ ServerType /\ OthersType /\ Facts
      BY TypeParts DEF IInv, Facts
<1>2. CASE Writing
      BY <1>2, OldWriteFacts
<1>3. CASE ~Writing
  <2>0. \/ (AddFinalizer(g) /\ ~NeedsFinalizer(g)) \/ GetFnClients(g)
        \/ RunDelete(g) \/ RunApply(g) \/ Apply(g) \/ TakeSelf(g) \/ OutputsDone(g)
        \/ StatusConflict(g) \/ (UpdateStatus(g) /\ ~(copy[g].status # cr.status))
        \/ Conflict(g) \/ CallFails(g) \/ ClientsFail(g) \/ StatusFails(g)
        BY <1>3 DEF Reconcile, Fail, Begin
  <2>1. UNCHANGED <<cr, cur>> /\ (late => late')
    <3>1. CASE GetFnClients(g) \/ RunDelete(g) \/ RunApply(g) \/ TakeSelf(g)
               \/ OutputsDone(g) \/ StatusConflict(g) \/ Conflict(g) \/ CallFails(g)
               \/ ClientsFail(g) \/ StatusFails(g)
          BY <3>1 DEF GetFnClients, RunDelete, RunApply, TakeSelf, OutputsDone,
                StatusConflict, Conflict, CallFails, ClientsFail, StatusFails, Retry, world
    <3>2. CASE Apply(g)
          BY <3>2 DEF Apply
    <3>3. CASE AddFinalizer(g) /\ ~NeedsFinalizer(g)
          BY <3>3 DEF AddFinalizer
    <3>4. CASE UpdateStatus(g) /\ ~(copy[g].status # cr.status)
          BY <3>4 DEF UpdateStatus
    <3> QED BY <2>0, <3>1, <3>2, <3>3, <3>4
  <2>2. \A h \in Gen \ {g} : pc'[h] = pc[h] /\ retry'[h] = retry[h] /\ failed'[h] = failed[h]
        BY <1>1, <2>0 DEF AddFinalizer, GetFnClients, RunDelete,
               RunApply, Apply, TakeSelf, OutputsDone, StatusConflict, UpdateStatus, Conflict,
               CallFails, ClientsFail, StatusFails, Retry, OthersType
  <2>3. \A h \in Gen \ {g} : todo'[h] = todo[h]
        BY <1>1, <2>0 DEF AddFinalizer, GetFnClients, RunDelete,
               RunApply, Apply, TakeSelf, OutputsDone, StatusConflict, UpdateStatus, Conflict,
               CallFails, ClientsFail, StatusFails, Retry, OthersType
  <2>4. \A h \in Gen \ {g} : copy'[h] = copy[h] /\ data'[h] = data[h] /\ queued'[h] = queued[h]
        BY <1>1, <2>0 DEF AddFinalizer, GetFnClients, RunDelete,
               RunApply, Apply, TakeSelf, OutputsDone, StatusConflict, UpdateStatus, Conflict,
               CallFails, ClientsFail, StatusFails, Retry, ServerType
  <2>5. cleaned' = cleaned /\ (late' \/ UNCHANGED applied)
        BY <1>1, <2>0 DEF AddFinalizer, GetFnClients, RunDelete,
               RunApply, Apply, TakeSelf, OutputsDone, StatusConflict, UpdateStatus, Conflict,
               CallFails, ClientsFail, StatusFails, Retry, world, OthersType
  <2>6. \A h \in Gen : /\ copy'[h].deleting = copy[h].deleting
                       /\ copy'[h].current => copy[h].current
    <3>1. ~Begin(g)
          BY DEF Begin
    <3>2. copy'[g].deleting = copy[g].deleting /\ (copy'[g].current => copy[g].current)
          BY <1>1, <3>1, CopiesKeep
    <3> QED BY <2>4, <3>2
  <2>7. SameController
        BY <1>1, <2>1, <2>2, <2>3, <2>4, <2>6 DEF SameController, OthersType
  <2> QED BY <1>1, <2>1, <2>5, <2>7, SameFacts
<1> QED BY <1>2, <1>3

\* Users change the resource, and a request is queued.
LEMMA UserFacts ==
  ASSUME IInv, UserCreates \/ UserEdits \/ UserDeletes
  PROVE  Facts'
<1>1. TypeOK /\ ServerType /\ OthersType /\ FinalizerFacts
      BY TypeParts DEF IInv
<1>2. queued'[cur] /\ UNCHANGED <<cur, pc, late>>
      BY <1>1, UserType
<1>3. PICK new \in Resource : (new.exists \/ new = Absent) /\ Put(new, OutOfDate, OldData)
      BY <1>1, UserType
<1>4. /\ copy'[cur].deleting = copy[cur].deleting /\ copy'[cur].fin = copy[cur].fin
      /\ \A g \in Gen : ~copy'[g].current
      BY <1>1, <1>3, PutByUser DEF OthersType
<1>5. PendingFacts' /\ Settled'
      BY <1>2 DEF PendingFacts, Settled
<1>6. UnderWay' <=> UnderWay
      BY <1>2, <1>4 DEF UnderWay
<1>7. /\ cr'.deleting => cr'.fin
      /\ cr'.exists /\ cleaned' => cr'.deleting
      /\ cr.exists /\ cr.fin /\ ~cleaned => cr'.exists /\ cr'.fin /\ ~cleaned'
  <2>1. CASE UserCreates
    <3>1. ~cr.exists /\ ~cleaned' /\ cr' = [Absent EXCEPT !.exists = TRUE, !.spec = userOps + 1]
          BY <2>1 DEF UserCreates, Put
    <3>2. ~cr'.deleting
          BY <3>1, AbsentType DEF Absent
    <3> QED BY <1>1, <3>1, <3>2 DEF FinalizerFacts
  <2>2. CASE UserEdits
    <3>1. cr.exists /\ cleaned' = cleaned /\ cr' = [cr EXCEPT !.spec = userOps + 1, !.status = FALSE]
          BY <2>2 DEF UserEdits, Put
    <3>2. cr'.exists /\ cr'.deleting = cr.deleting /\ cr'.fin = cr.fin
          BY <1>1, <3>1 DEF ServerType, Resource
    <3> QED BY <1>1, <3>1, <3>2 DEF FinalizerFacts
  <2>3. CASE UserDeletes /\ cr.fin
    <3>1. cr.exists /\ cleaned' = cleaned /\ cr' = [cr EXCEPT !.deleting = TRUE]
          BY <2>3 DEF UserDeletes, Put
    <3>2. cr'.exists /\ cr'.deleting /\ cr'.fin = cr.fin
          BY <1>1, <3>1 DEF ServerType, Resource
    <3> QED BY <1>1, <2>3, <3>1, <3>2 DEF FinalizerFacts
  <2>4. CASE UserDeletes /\ ~cr.fin
    <3>1. cleaned' = cleaned /\ cr' = Absent
          BY <2>4 DEF UserDeletes, Put
    <3> QED BY <1>1, <2>4, <3>1, AbsentType DEF FinalizerFacts
  <2> QED BY <2>1, <2>2, <2>3, <2>4
<1>8. FinalizerFacts'
      BY <1>1, <1>2, <1>4, <1>6, <1>7 DEF FinalizerFacts
<1> QED BY <1>5, <1>8 DEF Facts

\* The next controller has done nothing, and has a request for what exists.
LEMMA NextFacts ==
  ASSUME IInv, NextController
  PROVE  Facts'
<1>1. OthersType /\ ServerType /\ WorkFacts /\ FinalizerFacts
      BY TypeParts DEF IInv
<1>2. cur + 1 \in Gen /\ cur' = cur + 1 /\ cur + 1 > cur /\ UNCHANGED <<world, pc, copy, late>>
      BY <1>1, MaxGenAssumption DEF NextController, OthersType, Gen
<1>3. queued'[cur'] = cr.exists
      BY <1>1, <1>2 DEF NextController, ServerType
<1>4. pc'[cur'] = "idle"
      BY <1>1, <1>2 DEF WorkFacts
<1>5. FinalizerFacts'
      BY <1>1, <1>2, <1>4 DEF FinalizerFacts, UnderWay, world
<1>6. PendingFacts' /\ Settled'
      BY <1>2, <1>3 DEF PendingFacts, Settled, world
<1> QED BY <1>5, <1>6 DEF Facts

\* The current controller: its writes.
LEMMA CurWriteFacts ==
  ASSUME IInv, \/ AddFinalizer(cur) /\ NeedsFinalizer(cur)
               \/ RemoveFinalizer(cur)
               \/ UpdateStatus(cur) /\ copy[cur].status # cr.status
  PROVE  Facts'
<1> USE DEF Goto
<1>1. TypeOK /\ ServerType /\ OthersType /\ FinalizerFacts /\ cur \in Gen
      BY TypeParts DEF IInv, OthersType
<1>2. UNCHANGED <<cur, cleaned>> /\ pc'[cur] \in {"clients", "idle"}
      /\ (pc'[cur] = "clients" => AddFinalizer(cur))
      BY <1>1 DEF AddFinalizer, RemoveFinalizer, UpdateStatus, OthersType
<1>3. copy[cur].current /\ cr.exists /\ copy[cur].deleting = cr.deleting
      BY <1>1, UpdatesKeep
<1>4. PICK new \in Resource :
        /\ new.exists /\ PutBy(cur, new) /\ new.deleting = cr.deleting
        /\ AddFinalizer(cur) => new.fin
        /\ UpdateStatus(cur) => new.fin = cr.fin
      BY <1>1, UpdatesKeep
<1>5. /\ queued'[cur] /\ cr' = (IF new.deleting /\ ~new.fin THEN Absent ELSE new)
      /\ copy'[cur].deleting = new.deleting /\ copy'[cur].fin = new.fin
      /\ \A h \in Gen \ {cur} : ~copy'[h].current
      BY <1>1, <1>4, PutByReconcile
<1>6. PendingFacts' /\ Settled'
      BY <1>2, <1>5 DEF PendingFacts, Settled
<1>7. /\ cr'.deleting => cr'.fin
      /\ cr'.exists /\ cleaned => cr'.deleting
      BY <1>1, <1>3, <1>4, <1>5, AbsentType DEF FinalizerFacts
<1>8. ASSUME AddFinalizer(cur), ~copy'[cur].deleting
      PROVE  cr'.exists /\ cr'.fin /\ ~cleaned
      BY <1>1, <1>3, <1>4, <1>5, <1>8 DEF FinalizerFacts
<1>9. FinalizerFacts'
      BY <1>2, <1>5, <1>7, <1>8 DEF FinalizerFacts, UnderWay
<1> QED BY <1>6, <1>9 DEF Facts

\* The current controller: where its Reconcile begins, and how it goes on to the
\* pipeline that the resource needs.
LEMMA CurBeginFacts ==
  ASSUME IInv, \/ Begin(cur) \/ (AddFinalizer(cur) /\ ~NeedsFinalizer(cur))
               \/ GetFnClients(cur) \/ RunDelete(cur) \/ RunApply(cur)
  PROVE  Facts'
<1> USE DEF Goto
<1>1. /\ TypeOK /\ ServerType /\ OthersType /\ cur \in Gen
      /\ WorkFacts /\ FinalizerFacts /\ PendingFacts /\ Settled
      BY TypeParts DEF IInv, OthersType
<1>2. UNCHANGED <<cr, cur>> /\ (~Begin(cur) => late' = late)
      BY <1>1 DEF Begin, AddFinalizer, GetFnClients, RunDelete, RunApply, world
<1>5. CASE Begin(cur)
  <2>1. /\ pc'[cur] = (IF cr.exists THEN "finalizer" ELSE "idle")
        /\ copy'[cur].deleting = cr.deleting /\ copy'[cur].fin = cr.fin
        /\ data'[cur].spec = cr.spec /\ cleaned' = cleaned
        /\ \A g \in Gen \ {cur} : copy'[g] = copy[g]
        BY <1>1, <1>5 DEF Begin, OthersType, ServerType, world
  <2>2. FinalizerFacts'
    <3>1. ASSUME UnderWay', ~copy'[cur].deleting
          PROVE  cr.exists /\ cr.fin /\ ~cr.deleting
          BY <1>2, <2>1, <3>1 DEF UnderWay
    <3>2. ASSUME ~cr.deleting, NEW g \in Gen
          PROVE  ~(copy'[g].current /\ copy'[g].deleting)
          BY <1>1, <2>1, <3>2 DEF ServerType
    <3> QED BY <1>1, <1>2, <2>1, <3>1, <3>2 DEF FinalizerFacts
  <2>3. PendingFacts' /\ Settled'
        BY <1>2, <2>1 DEF PendingFacts, Settled
  <2> QED BY <2>2, <2>3 DEF Facts
<1>6. CASE AddFinalizer(cur) /\ ~NeedsFinalizer(cur)
  <2>1. /\ pc[cur] = "finalizer" /\ pc'[cur] = "clients" /\ copy[cur].fin
        /\ UNCHANGED <<copy, data, queued, cleaned, late>>
        BY <1>1, <1>6 DEF AddFinalizer, NeedsFinalizer, OthersType
  <2>2. FinalizerFacts'
        BY <1>1, <1>2, <2>1 DEF FinalizerFacts, UnderWay
  <2>3. PendingFacts' /\ Settled'
        BY <1>1, <1>2, <2>1 DEF PendingFacts, Settled
  <2> QED BY <2>2, <2>3 DEF Facts
<1>7. CASE GetFnClients(cur)
  <2>1. /\ pc[cur] = "clients" /\ pc'[cur] = (IF copy[cur].deleting THEN "delete" ELSE "run")
        /\ UNCHANGED <<copy, data, queued, cleaned, late>>
        BY <1>1, <1>7 DEF GetFnClients, OthersType, world
  <2>2. FinalizerFacts'
        BY <1>1, <1>2, <2>1 DEF FinalizerFacts, UnderWay
  <2>3. PendingFacts' /\ Settled'
        BY <1>1, <1>2, <2>1 DEF PendingFacts, Settled
  <2> QED BY <2>2, <2>3 DEF Facts
<1>8. CASE RunDelete(cur)
  <2>1. /\ pc[cur] = "delete" /\ pc'[cur] = "remove"
        /\ UNCHANGED <<copy, data, queued, late>> /\ cleaned' = (cleaned \/ cr.deleting)
        BY <1>1, <1>8 DEF RunDelete, OthersType
  <2>2. copy[cur].deleting
        BY <1>1, <2>1 DEF WorkFacts
  <2>3. FinalizerFacts'
        BY <1>1, <1>2, <2>1, <2>2 DEF FinalizerFacts, UnderWay
  <2>4. PendingFacts' /\ Settled'
        BY <1>1, <1>2, <2>1 DEF PendingFacts, Settled
  <2> QED BY <2>3, <2>4 DEF Facts
<1>9. CASE RunApply(cur)
  <2>1. /\ pc[cur] = "run" /\ pc'[cur] = "apply"
        /\ failed'[cur] \/ todo'[cur] = Output \cup {Self}
        /\ UNCHANGED <<copy, data, queued, cleaned, applied, late>>
        BY <1>1, <1>9 DEF RunApply, OthersType, world
  <2>2. FinalizerFacts'
        BY <1>1, <1>2, <2>1 DEF FinalizerFacts, UnderWay
  <2>3. PendingFacts' /\ Settled'
        BY <1>1, <1>2, <2>1 DEF PendingFacts, Settled
  <2> QED BY <2>2, <2>3 DEF Facts
<1> QED BY <1>5, <1>6, <1>7, <1>8, <1>9

\* The current controller: what it does with the outputs, and how it ends.
LEMMA CurEndFacts ==
  ASSUME IInv, \/ Apply(cur) \/ TakeSelf(cur) \/ OutputsDone(cur)
               \/ StatusConflict(cur) \/ StatusFails(cur)
               \/ (UpdateStatus(cur) /\ copy[cur].status = cr.status)
               \/ Conflict(cur) \/ CallFails(cur) \/ ClientsFail(cur)
  PROVE  Facts'
<1> USE DEF Goto
<1>1. /\ TypeOK /\ ServerType /\ OthersType /\ cur \in Gen
      /\ WorkFacts /\ FinalizerFacts /\ PendingFacts /\ Settled
      BY TypeParts DEF IInv, OthersType
<1>2. UNCHANGED <<cr, cur, cleaned>> /\ late' = late
      BY <1>1 DEF Apply, TakeSelf, OutputsDone, StatusConflict, StatusFails, UpdateStatus,
             Conflict, CallFails, ClientsFail, Retry, Landed, world, OthersType
<1>5. CASE Apply(cur)
  <2>1. pc[cur] = "apply" /\ UNCHANGED <<pc, copy, data, queued, failed>>
        BY <1>5 DEF Apply
  <2>2. PICK o \in todo[cur] \ {Self} :
          /\ applied' = [applied EXCEPT ![o] = data[cur].spec]
          /\ todo' = [todo EXCEPT ![cur] = @ \ {o}]
        BY <1>5 DEF Apply
  <2>3. /\ o \in Output /\ applied'[o] = data[cur].spec
        /\ \A p \in Output \ {o} : applied'[p] = applied[p]
        /\ todo'[cur] = todo[cur] \ {o}
        BY <1>1, <2>2 DEF OthersType
  <2>4. FinalizerFacts'
        BY <1>1, <1>2, <2>1 DEF FinalizerFacts, UnderWay
  <2>5. PendingFacts' /\ Settled'
        BY <1>1, <1>2, <2>1, <2>2, <2>3 DEF PendingFacts, Settled
  <2> QED BY <2>4, <2>5 DEF Facts
<1>6. CASE TakeSelf(cur)
  <2>1. /\ pc[cur] = "apply" /\ UNCHANGED <<pc, data, queued, failed, applied>>
        /\ todo'[cur] = todo[cur] \ {Self}
        BY <1>1, <1>6 DEF TakeSelf, OthersType, world
  <2>2. /\ copy'[cur].deleting = copy[cur].deleting /\ copy'[cur].fin = copy[cur].fin
        /\ copy'[cur].status
        /\ \A g \in Gen \ {cur} : copy'[g] = copy[g]
        BY <1>1, <1>6 DEF TakeSelf, ServerType, Copy
  <2>3. FinalizerFacts'
        BY <1>1, <1>2, <2>1, <2>2 DEF FinalizerFacts, UnderWay
  <2>4. PendingFacts' /\ Settled'
        BY <1>1, <1>2, <2>1, <2>2, SelfAssumption DEF PendingFacts, Settled
  <2> QED BY <2>3, <2>4 DEF Facts
<1>7. CASE OutputsDone(cur)
  <2>1. /\ pc[cur] = "apply" /\ pc'[cur] = "status" /\ todo[cur] = {}
        /\ UNCHANGED <<copy, data, queued, failed, retry, applied>>
        BY <1>1, <1>7 DEF OutputsDone, OthersType, world
  <2>2. FinalizerFacts'
        BY <1>1, <1>2, <2>1 DEF FinalizerFacts, UnderWay
  <2>3. PendingFacts' /\ Settled'
        BY <1>1, <1>2, <2>1 DEF PendingFacts, WorkFacts, Settled
  <2> QED BY <2>2, <2>3 DEF Facts
<1>8. CASE StatusConflict(cur) \/ StatusFails(cur)
  <2>1. pc'[cur] = "idle" /\ queued'[cur]
        BY <1>1, <1>8 DEF StatusConflict, StatusFails, OthersType, ServerType
  <2>2. FinalizerFacts'
        BY <1>1, <1>2, <2>1 DEF FinalizerFacts, UnderWay
  <2>3. PendingFacts' /\ Settled'
        BY <1>2, <2>1 DEF PendingFacts, Settled
  <2> QED BY <2>2, <2>3 DEF Facts
<1>9. CASE UpdateStatus(cur) /\ copy[cur].status = cr.status
  <2>1. /\ pc[cur] = "status" /\ pc'[cur] = "idle"
        /\ queued'[cur] = (queued[cur] \/ retry[cur])
        /\ UNCHANGED <<copy, failed, applied>>
        BY <1>1, <1>9 DEF UpdateStatus, OthersType, ServerType
  <2>2. FinalizerFacts'
        BY <1>1, <1>2, <2>1 DEF FinalizerFacts, UnderWay
  <2>3. PendingFacts' /\ Settled'
        BY <1>1, <1>2, <1>9, <2>1 DEF PendingFacts, Settled
  <2> QED BY <2>2, <2>3 DEF Facts
<1>10. CASE Conflict(cur) \/ CallFails(cur) \/ ClientsFail(cur)
  <2>1. pc'[cur] = "status" /\ retry'[cur]
        BY <1>1, <1>10 DEF Conflict, CallFails, ClientsFail, Retry, OthersType
  <2>2. FinalizerFacts'
        BY <1>1, <1>2, <2>1 DEF FinalizerFacts, UnderWay
  <2>3. PendingFacts' /\ Settled'
        BY <1>2, <2>1 DEF PendingFacts, Settled
  <2> QED BY <2>2, <2>3 DEF Facts
<1> QED BY <1>5, <1>6, <1>7, <1>8, <1>9, <1>10

(***************************************************************************)
(* The theorems                                                            *)
(***************************************************************************)
LEMMA InitFacts == Init => IInv
<1> SUFFICES ASSUME Init PROVE IInv
    OBVIOUS
<1>1. ServerType
  <2>1. NoCopy \in Copy /\ ~NoCopy.current /\ NoData \in Data
        BY DEF NoCopy, NoData, Copy, Data, None
  <2> QED BY <2>1, AbsentType DEF Init, ServerType
<1>2. OthersType
  <2>1. userOps \in 0..MaxUserOps /\ failures \in 0..MaxFailures /\ cur \in Gen
        BY MaxGenAssumption, MaxUserOpsAssumption, MaxFailuresAssumption DEF Init, Gen
  <2>2. /\ applied \in [Output -> CrSpec \cup {None}] /\ cleaned \in BOOLEAN
        /\ pc \in [Gen -> PC] /\ todo \in [Gen -> SUBSET (Output \cup {Self})]
        BY DEF Init, PC
  <2>3. /\ retry \in [Gen -> BOOLEAN] /\ failed \in [Gen -> BOOLEAN]
        /\ inflight \in [Gen -> BOOLEAN] /\ late \in BOOLEAN
        BY DEF Init
  <2> QED BY <2>1, <2>2, <2>3 DEF OthersType
<1>3. ~cr.exists /\ ~cr.deleting /\ cur \in Gen /\ \A g \in Gen : pc[g] = "idle"
      BY <1>2, AbsentType DEF Init, OthersType
<1>4. WorkFacts /\ FinalizerFacts /\ PendingFacts /\ Settled
      BY <1>3 DEF WorkFacts, FinalizerFacts, UnderWay, PendingFacts, Settled
<1> QED BY <1>1, <1>2, <1>4, TypeParts DEF IInv

LEMMA StepFacts == IInv /\ [Next]_vars => IInv'
<1> SUFFICES ASSUME IInv, [Next]_vars PROVE IInv'
    OBVIOUS
<1>1. TypeOK' /\ WorkFacts'
      BY TypeStep, WorkStep DEF IInv
<1>2. ASSUME NEW g \in Gen, Reconcile(g) \/ Fail(g) PROVE Facts'
  <2>1. CASE g # cur
        BY <1>1, <1>2, <2>1, OldFacts
  <2>2. CASE g = cur
        BY <1>2, <2>2, CurWriteFacts, CurBeginFacts, CurEndFacts DEF Reconcile, Fail
  <2> QED BY <2>1, <2>2
<1>3. ASSUME UserCreates \/ UserEdits \/ UserDeletes PROVE Facts'
      BY <1>3, UserFacts
<1>4. ASSUME NextController PROVE Facts'
      BY <1>4, NextFacts
<1>5. ASSUME UNCHANGED vars PROVE Facts'
      BY <1>5, SameFacts DEF SameController, vars, world, IInv, Facts
<1>6. Facts'
      BY <1>2, <1>3, <1>4, <1>5 DEF Next
<1> QED BY <1>1, <1>6 DEF IInv, Facts

\* The inductive invariant of a resource under controllers that replace each
\* other: a Reconcile past the question of the finalizer has a resource with the
\* finalizer before it, and what nothing is queued for is in its hands.
THEOREM Inductive == Spec => []IInv
BY InitFacts, StepFacts, PTL DEF Spec

\* When the current controller rests, the resource is as it should be, whatever
\* failed and whoever was replaced; but for failed pipelines, and for an output
\* that a cancelled controller has applied since the last Reconcile began.
THEOREM Rests == Spec => []Settled
<1>1. IInv => Settled
      BY DEF IInv
<1> QED BY <1>1, Inductive, PTL

\* An output is applied only while the resource has the finalizer and its delete
\* pipeline is still to run, so that it is cleaned up, unless a cancelled
\* controller applies it with the one call that it may have had on its way: no
\* call of the current controller ever does, whatever has landed late before.
THEOREM CleanedUp == Spec => AppliedUnderFinalizer
<1> DEFINE Covered ==
      applied' # applied /\ ~(cr.exists /\ cr.fin /\ ~cleaned)
        => \E g \in Gen \ {cur} : inflight[g] /\ ~inflight'[g]
<1>1. IInv /\ [Next]_vars => [Covered]_vars
  <2> SUFFICES ASSUME IInv, Next, applied' # applied, ~(cr.exists /\ cr.fin /\ ~cleaned)
               PROVE  \E g \in Gen \ {cur} : inflight[g] /\ ~inflight'[g]
      OBVIOUS
  <2>1. OthersType /\ WorkFacts /\ FinalizerFacts
        BY TypeParts DEF IInv
  <2>2. PICK g \in Gen : Apply(g)
        BY DEF Next, UserCreates, UserEdits, UserDeletes, User, NextController, Reconcile, Fail,
               Begin, AddFinalizer, GetFnClients, RunDelete, RemoveFinalizer, RunApply, TakeSelf,
               OutputsDone, StatusConflict, UpdateStatus, Conflict, CallFails, ClientsFail,
               StatusFails, Retry, world
  <2>3. g # cur
        BY <2>1, <2>2 DEF Apply, WorkFacts, FinalizerFacts, UnderWay
  <2>4. inflight[g] /\ ~inflight'[g]
        BY <2>1, <2>2, <2>3 DEF Apply, MayCall, Landed, OthersType
  <2> QED BY <2>3, <2>4
<1> QED BY <1>1, Inductive, PTL DEF Spec, AppliedUnderFinalizer
=============================================================================

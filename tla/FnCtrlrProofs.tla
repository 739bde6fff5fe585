---------------------------- MODULE FnCtrlrProofs ----------------------------
(***************************************************************************)
(* Proofs about FnCtrlr, for every value of its constants.                 *)
(***************************************************************************)
EXTENDS FnCtrlr, TLAPS

ServerTypeOK ==
  /\ obj \in ConfigMap
  /\ written \in Config \cup {None}
  /\ watch \in {"none", "open", "closed"}
  /\ events \in Nat

\* An Update with a well-typed object leaves the API server well typed.
LEMMA ApiUpdateType ==
  ASSUME ServerTypeOK, NEW new \in ConfigMap, NEW ok \in BOOLEAN,
         ApiUpdate(new, ok)
  PROVE  ServerTypeOK'
BY DEF ServerTypeOK, ApiUpdate, Write, Notify, server

\* So does a write of a user.
LEMMA UserWritesType ==
  ASSUME ServerTypeOK, NEW new \in ConfigMap, UserWrites(new)
  PROVE  ServerTypeOK'
BY DEF ServerTypeOK, UserWrites, Notify, ConfigMap

\* The objects the steps write are well typed, and so is the local copy.
LEMMA ObjectTypes ==
  ASSUME ServerTypeOK
  PROVE  /\ Absent \in ConfigMap
         /\ [obj EXCEPT !.adopted = TRUE] \in ConfigMap
         /\ [obj EXCEPT !.deleting = TRUE] \in ConfigMap
         /\ \A d \in Config : /\ [obj EXCEPT !.data = d] \in ConfigMap
                              /\ [Absent EXCEPT !.data = d] \in ConfigMap
         /\ Read \in Copy /\ NoCopy \in Copy
BY DEF ServerTypeOK, Absent, ConfigMap, Config, None, Read, NoCopy, Copy

\* Type correctness of the initial states.
LEMMA InitType == Init => TypeOK
<1> SUFFICES ASSUME Init PROVE TypeOK
  OBVIOUS
<1>1. NoCopy \in Copy /\ Nil \in Controller
  BY DEF NoCopy, Copy, Nil, Controller
<1>2. Absent \in ConfigMap
  BY DEF Absent, ConfigMap
<1>3. obj \in ConfigMap /\ written \in Config \cup {None}
  BY <1>2 DEF Init, Absent, ConfigMap
<1>4. QED
  BY <1>1, <1>3 DEF Init, TypeOK, PC

\* Type correctness of the steps of users.
LEMMA UserType == TypeOK /\ User => TypeOK'
<1> SUFFICES ASSUME TypeOK, User PROVE TypeOK'
  OBVIOUS
<1>1. ServerTypeOK
  BY DEF TypeOK, ServerTypeOK
<1>2. PICK new \in ConfigMap : UserWrites(new)
  BY <1>1, ObjectTypes DEF User, UserEdits, UserDeletes, UserRecreates
<1>3. ServerTypeOK'
  BY <1>1, <1>2, UserWritesType
<1>4. cm' \in Copy
  BY <1>2 DEF TypeOK, UserWrites, Copy
<1>5. QED
  BY <1>2, <1>3, <1>4 DEF TypeOK, ServerTypeOK, UserWrites, rec

\* Type correctness of the steps of Start and start.
LEMMA StartType ==
  TypeOK /\ (Enter \/ Get \/ Adopt \/ OpenWatch \/ LeaveLoop) => TypeOK'
<1> SUFFICES ASSUME TypeOK, Enter \/ Get \/ Adopt \/ OpenWatch \/ LeaveLoop
             PROVE  TypeOK'
  OBVIOUS
<1>1. ServerTypeOK
  BY DEF TypeOK, ServerTypeOK
<1>2. CASE Enter
  BY <1>2 DEF Enter, TypeOK, PC, server, rec
<1>3. CASE Get
  BY <1>1, <1>3, ObjectTypes DEF Get, TypeOK, PC, server, rec
<1>4. CASE Adopt
  <2>1. PICK ok \in BOOLEAN : /\ ApiUpdate([obj EXCEPT !.adopted = TRUE], ok)
                              /\ pc' = IF ok THEN "watch" ELSE "get"
    BY <1>4 DEF Adopt
  <2>2. ServerTypeOK'
    BY <1>1, <2>1, ObjectTypes, ApiUpdateType
  <2>3. QED
    BY <1>1, <1>4, <2>1, <2>2, ObjectTypes
       DEF Adopt, TypeOK, ServerTypeOK, PC, rec
<1>5. CASE OpenWatch
  BY <1>5 DEF OpenWatch, InitialEvents, TypeOK, PC, rec
<1>6. CASE LeaveLoop
  BY <1>6 DEF LeaveLoop, TypeOK, PC, rec
<1>7. QED
  BY <1>2, <1>3, <1>4, <1>5, <1>6

\* Type correctness of the steps of Reconcile.
LEMMA ReconcileType == TypeOK /\ Reconcile => TypeOK'
<1> SUFFICES ASSUME TypeOK, Reconcile PROVE TypeOK'
  OBVIOUS
<1>1. ServerTypeOK
  BY DEF TypeOK, ServerTypeOK
<1>2. NoCopy \in Copy /\ Read \in Copy
  BY <1>1, ObjectTypes
<1>3. \A c \in Controller : Stop(c) \in Controller
  BY DEF Stop, Controller
<1>4. CASE ReconcileGet
  <2>1. events - 1 \in Nat
    BY <1>4 DEF ReconcileGet, EventReady, TypeOK
  <2>2. pc' \in PC /\ cm' \in Copy /\ lastOk' \in BOOLEAN
    BY <1>2, <1>4 DEF ReconcileGet, Return, TypeOK, PC
  <2>3. watch' \in {"none", "open", "closed"} /\ events' \in Nat
    BY <1>4, <2>1 DEF ReconcileGet, Return, TypeOK
  <2>4. QED
    BY <1>4, <2>2, <2>3 DEF ReconcileGet, TypeOK, rec
<1>5. CASE StopDeleted
  BY <1>3, <1>5 DEF StopDeleted, TypeOK, PC, server
<1>6. CASE Release
  <2>1. PICK ok \in BOOLEAN : ApiUpdate(Absent, ok) /\ Return(ok)
    BY <1>6 DEF Release
  <2>2. ServerTypeOK'
    BY <1>1, <2>1, ObjectTypes, ApiUpdateType
  <2>3. QED
    BY <1>2, <1>6, <2>1, <2>2
       DEF Release, Return, TypeOK, ServerTypeOK, PC, rec
<1>7. CASE KeepRunning
  BY <1>7 DEF KeepRunning, TypeOK, PC, server, rec
<1>8. CASE SaveKept
  <2>1. PICK ok \in BOOLEAN :
          ApiUpdate([obj EXCEPT !.adopted = TRUE], ok) /\ Return(ok)
    BY <1>8 DEF SaveKept
  <2>2. ServerTypeOK'
    BY <1>1, <2>1, ObjectTypes, ApiUpdateType
  <2>3. QED
    BY <1>2, <1>8, <2>1, <2>2
       DEF SaveKept, Return, TypeOK, ServerTypeOK, PC, rec
<1>9. CASE RejectConfig
  BY <1>2, <1>9 DEF RejectConfig, Return, TypeOK, PC, server, rec
<1>10. CASE Replace
  <2>1. cm.data \in Config
    BY <1>10, ValidAssumption DEF Replace, Config
  <2>2. fni' \in Controller /\ fne' \in Controller
    BY <1>3, <1>10, <2>1 DEF Replace, TypeOK, Nil, Controller
  <2>3. \A c \in Controller : c.data \in Config \cup {None}
    BY DEF Controller
  <2>4. orphanI' \in SUBSET (Config \cup {None})
    BY <1>3, <1>10, <2>3 DEF Replace, TypeOK
  <2>5. QED
    BY <1>10, <2>2, <2>4 DEF Replace, TypeOK, PC, server
<1>11. CASE StartImages
  BY <1>2, <1>11 DEF StartImages, Return, TypeOK, PC, Controller, server
<1>12. CASE StartExec
  <2>1. cm.data \in Config \cup {None} /\ fne.data \in Config \cup {None}
    BY DEF TypeOK, Copy, Controller
  <2>2. \A b \in BOOLEAN :
          [data |-> cm.data, cancel |-> TRUE, live |-> b] \in Controller
    BY <2>1 DEF Controller
  <2>3. (~ctxDone) \in {TRUE, FALSE}
    <3>1. CASE ctxDone
      BY <3>1
    <3>2. CASE ~ctxDone
      BY <3>2
    <3>3. QED
      BY <3>1, <3>2
  <2>4. fne' \in Controller
    BY <1>12, <2>2, <2>3, Zenon DEF StartExec
  <2>5. orphanE' \in SUBSET (Config \cup {None})
    BY <1>12, <2>1 DEF StartExec, TypeOK
  <2>6. QED
    BY <1>2, <1>12, <2>4, <2>5 DEF StartExec, Return, TypeOK, PC, server
<1>13. CASE Commit
  <2>1. PICK ok \in BOOLEAN :
          /\ ApiUpdate([obj EXCEPT !.adopted = TRUE], ok)
          /\ rcm' = IF ok THEN cm.data ELSE rcm
          /\ Return(ok)
    BY <1>13 DEF Commit
  <2>2. ServerTypeOK'
    BY <1>1, <2>1, ObjectTypes, ApiUpdateType
  <2>3. QED
    BY <1>2, <1>13, <2>1, <2>2
       DEF Commit, Return, TypeOK, ServerTypeOK, PC, Copy
<1>14. QED
  BY <1>4, <1>5, <1>6, <1>7, <1>8, <1>9, <1>10, <1>11, <1>12, <1>13
     DEF Reconcile

\* Type correctness of the steps of the world around the goroutine.
LEMMA WorldType ==
  TypeOK /\ (ServerClosesWatch \/ ExecCrashes \/ ProcessRestarts \/ Shutdown)
  => TypeOK'
<1> SUFFICES ASSUME TypeOK, ServerClosesWatch \/ ExecCrashes
                            \/ ProcessRestarts \/ Shutdown
             PROVE  TypeOK'
  OBVIOUS
<1>1. Nil \in Controller /\ NoCopy \in Copy
  BY DEF Nil, Controller, NoCopy, Copy
<1>2. \A c \in Controller : [c EXCEPT !.live = FALSE] \in Controller
  BY DEF Controller
<1>3. CASE ServerClosesWatch
  BY <1>3 DEF ServerClosesWatch, TypeOK, rec
<1>4. CASE ExecCrashes
  BY <1>2, <1>4 DEF ExecCrashes, TypeOK, server
<1>5. CASE ProcessRestarts
  BY <1>1, <1>5 DEF ProcessRestarts, TypeOK, PC
<1>6. CASE Shutdown
  BY <1>2, <1>6 DEF Shutdown, TypeOK, server
<1>7. QED
  BY <1>3, <1>4, <1>5, <1>6

\* The state of the API server, of the goroutine and of its reconciler keeps
\* its type, whatever users do and whatever fails.
THEOREM TypeCorrect == Spec => []TypeOK
<1>1. TypeOK /\ [Next]_vars => TypeOK'
  <2>1. TypeOK /\ UNCHANGED vars => TypeOK'
    BY DEF TypeOK, vars, server, rec
  <2>2. QED
    BY <2>1, UserType, StartType, ReconcileType, WorldType DEF Next, Goroutine
<1>2. QED
  BY <1>1, InitType, PTL DEF Spec

\* The part of the inductive invariant about the controllers, at the start.
LEMMA InitControl == Init => ControlInv
BY DEF Init, ControlInv, LiveHasCancel, CopyHeld, StepFacts, NothingToLose, Working,
       Nil, NoCopy, None

\* The records a Reconcile writes, seen field by field.
LEMMA Fields ==
  ASSUME NEW c \in Controller
  PROVE  /\ Stop(c).cancel = FALSE
         /\ Stop(c).live => c.live /\ ~c.cancel
         /\ Stop(c).data = c.data
BY DEF Stop, Controller

\* The steps of users only make the local copy stale.
LEMMA UserControl == TypeOK /\ ControlInv /\ User => ControlInv'
<1> SUFFICES ASSUME TypeOK, ControlInv, User PROVE ControlInv'
  OBVIOUS
<1>1. PICK new : UserWrites(new)
  BY DEF User, UserEdits, UserDeletes, UserRecreates
<1>2. cm'.data = cm.data
  BY <1>1 DEF UserWrites, TypeOK, Copy
<1>3. UNCHANGED <<pc, lastOk, rec>>
  BY <1>1 DEF UserWrites
<1>4. QED
  BY <1>2, <1>3 DEF ControlInv, LiveHasCancel, CopyHeld, StepFacts, NothingToLose, rec

\* The steps of Start and start leave the controllers alone.
LEMMA StartControl ==
  TypeOK /\ ControlInv /\ (Enter \/ Get \/ Adopt \/ OpenWatch \/ LeaveLoop) => ControlInv'
<1> SUFFICES ASSUME TypeOK, ControlInv,
                    Enter \/ Get \/ Adopt \/ OpenWatch \/ LeaveLoop
             PROVE  ControlInv'
  OBVIOUS
<1>1. UNCHANGED <<lastOk, rec>>
  BY DEF Enter, Get, Adopt, OpenWatch, LeaveLoop
<1>2. /\ pc' \notin Working \ {"update"}
      /\ pc \notin Working \ {"update"}
      /\ pc' = "update" => cm'.data # None
  BY DEF Enter, Get, Adopt, OpenWatch, LeaveLoop, Working, CopyHeld, ControlInv,
         Read, Exists
<1>3. QED
  BY <1>1, <1>2
     DEF ControlInv, LiveHasCancel, CopyHeld, StepFacts, NothingToLose, Working, rec

\* The steps of Reconcile: what it starts it can stop, and only an error
\* makes it forget.
LEMMA ReconcileControl == TypeOK /\ ControlInv /\ Reconcile => ControlInv'
<1> USE DEF ControlInv, LiveHasCancel, CopyHeld, StepFacts, NothingToLose, Working
<1> SUFFICES ASSUME TypeOK, ControlInv, Reconcile PROVE ControlInv'
  OBVIOUS
<1>1. fni \in Controller /\ fne \in Controller
  BY DEF TypeOK
<1>2. CASE ReconcileGet
  BY <1>2 DEF ReconcileGet, Return, Read, Exists, rec
<1>3. CASE StopDeleted
  <2>1. ~fni'.live /\ ~fne'.live
    BY <1>1, <1>3, Fields DEF StopDeleted
  <2>2. pc' = "release" /\ cm' = cm
    BY <1>3 DEF StopDeleted
  <2>3. cm.data # None
    BY <1>3 DEF StopDeleted
  <2>4. QED
    BY <2>1, <2>2, <2>3
<1>4. CASE Release
  BY <1>4 DEF Release, Return, rec
<1>5. CASE KeepRunning
  BY <1>5 DEF KeepRunning, Deciding, Shortcut, Action, IsRunning, rec
<1>6. CASE SaveKept
  BY <1>6 DEF SaveKept, Return, rec
<1>7. CASE RejectConfig
  BY <1>7 DEF RejectConfig, Deciding, Return, rec
<1>8. CASE Replace
  <2>1. pc = "decide" /\ pc' = "startImages" /\ UNCHANGED <<cm, lastOk, rcm>>
    BY <1>8 DEF Replace, Deciding
  <2>2. ~fni'.live
    BY <1>8 DEF Replace, Nil
  <2>3. fne'.live => fne'.cancel
    BY <1>1, <1>8, Fields DEF Replace
  <2>4. rcm # None => ~fne'.live
    BY <1>1, <1>8, Fields DEF Replace, Deciding, Shortcut, Action, IsRunning
  <2>5. rcm = None => fne' = fne
    BY <1>8 DEF Replace, Action
  <2>6. QED
    BY <2>1, <2>2, <2>3, <2>4, <2>5
<1>9. CASE StartImages
  <2>1. fni'.cancel = TRUE /\ UNCHANGED <<fne, rcm>>
    BY <1>1, <1>9 DEF StartImages, Controller
  <2>2. CASE pc' = "startExec" /\ UNCHANGED <<cm, lastOk>>
    BY <1>9, <2>1, <2>2 DEF StartImages
  <2>3. CASE Return(FALSE)
    BY <2>1, <2>3 DEF Return
  <2>4. QED
    BY <1>9, <2>2, <2>3 DEF StartImages
<1>10. CASE StartExec
  BY <1>1, <1>10 DEF StartExec, Return
<1>11. CASE Commit
  BY <1>11 DEF Commit, Return
<1>12. QED
  BY <1>2, <1>3, <1>4, <1>5, <1>6, <1>7, <1>8, <1>9, <1>10, <1>11
     DEF Reconcile

\* What happens around the goroutine only makes live controllers end.
LEMMA WorldControl ==
  TypeOK /\ ControlInv
  /\ (ServerClosesWatch \/ ExecCrashes \/ ProcessRestarts \/ Shutdown)
  => ControlInv'
<1> USE DEF ControlInv, LiveHasCancel, CopyHeld, StepFacts, NothingToLose, Working
<1> SUFFICES ASSUME TypeOK, ControlInv, ServerClosesWatch \/ ExecCrashes
                                  \/ ProcessRestarts \/ Shutdown
             PROVE  ControlInv'
  OBVIOUS
<1>1. fni \in Controller /\ fne \in Controller
  BY DEF TypeOK
<1>2. CASE ServerClosesWatch
  BY <1>2 DEF ServerClosesWatch, rec
<1>3. CASE ExecCrashes
  BY <1>1, <1>3 DEF ExecCrashes, Controller
<1>4. CASE ProcessRestarts
  BY <1>4 DEF ProcessRestarts, Nil
<1>5. CASE Shutdown
  BY <1>1, <1>5 DEF Shutdown, Controller
<1>6. QED
  BY <1>2, <1>3, <1>4, <1>5

\* The part of the inductive invariant about the ConfigMap and its copy: an
\* Update keeps it, if its object is there and carries the data read.
LEMMA ApiUpdateObject ==
  ASSUME TypeOK, ObjectInv, cm.data # None, NEW ok \in BOOLEAN,
         ApiUpdate([obj EXCEPT !.adopted = TRUE], ok)
  PROVE  /\ obj'.data = obj.data
         /\ obj'.adopted => obj'.data # None
<1>1. [obj EXCEPT !.adopted = TRUE].data = obj.data
  BY DEF TypeOK, ConfigMap
<1>2. CASE obj' = [obj EXCEPT !.adopted = TRUE] /\ ~cm.stale
  BY <1>1, <1>2 DEF ObjectInv, CopyFresh
<1>3. CASE obj' = obj
  BY <1>3 DEF ObjectInv, AdoptedExists, Exists
<1>4. QED
  BY <1>2, <1>3 DEF ApiUpdate, Write, server

\* A write of a user spoils the local copy and leaves no label without an object.
LEMMA UserObject == TypeOK /\ ObjectInv /\ User => ObjectInv'
<1> SUFFICES ASSUME TypeOK, ObjectInv, User PROVE ObjectInv'
  OBVIOUS
<1>1. PICK new \in ConfigMap :
        UserWrites(new) /\ (new.adopted => new.data # None)
  <2>1. CASE UserEdits
    <3>1. PICK d \in Config : UserWrites([obj EXCEPT !.data = d])
      BY <2>1 DEF UserEdits
    <3>2. d # None
      BY DEF Config, None
    <3>3. QED
      BY <3>1, <3>2 DEF TypeOK, ConfigMap
  <2>2. CASE UserDeletes
    <3>1. CASE obj.adopted
      <4>1. UserWrites([obj EXCEPT !.deleting = TRUE])
        BY <2>2, <3>1 DEF UserDeletes
      <4>2. /\ [obj EXCEPT !.deleting = TRUE] \in ConfigMap
            /\ [obj EXCEPT !.deleting = TRUE].data # None
        BY <2>2 DEF UserDeletes, Exists, TypeOK, ConfigMap
      <4>3. QED
        BY <4>1, <4>2
    <3>2. CASE ~obj.adopted
      <4>1. UserWrites(Absent)
        BY <2>2, <3>2 DEF UserDeletes
      <4>2. Absent \in ConfigMap /\ ~Absent.adopted
        BY DEF Absent, ConfigMap
      <4>3. QED
        BY <4>1, <4>2
    <3>3. QED
      BY <3>1, <3>2
  <2>3. CASE UserRecreates
    <3>1. PICK d \in Config : UserWrites([Absent EXCEPT !.data = d])
      BY <2>3 DEF UserRecreates
    <3>2. /\ [Absent EXCEPT !.data = d] \in ConfigMap
          /\ ~[Absent EXCEPT !.data = d].adopted
      BY DEF Absent, ConfigMap
    <3>3. QED
      BY <3>1, <3>2
  <2>4. QED
    BY <2>1, <2>2, <2>3 DEF User
<1>2. AdoptedExists'
  BY <1>1 DEF UserWrites, AdoptedExists, Exists
<1>3. cm'.data = cm.data /\ (cm.data # None => cm'.stale)
  BY <1>1 DEF UserWrites, TypeOK, Copy
<1>4. QED
  BY <1>2, <1>3 DEF ObjectInv, CopyFresh

\* The goroutine writes the object it has read, with label and finalizer.
LEMMA GoroutineObject ==
  TypeOK /\ ControlInv /\ ObjectInv /\ Goroutine => ObjectInv'
<1> USE DEF ObjectInv, CopyFresh, AdoptedExists, Exists
<1> SUFFICES ASSUME TypeOK, ControlInv, ObjectInv, Goroutine PROVE ObjectInv'
  OBVIOUS
<1>1. NoCopy.data = None /\ ~Absent.adopted
  BY DEF NoCopy, Absent
<1>2. CASE Adopt \/ SaveKept \/ Commit
  <2>1. PICK ok \in BOOLEAN : ApiUpdate([obj EXCEPT !.adopted = TRUE], ok)
    BY <1>2 DEF Adopt, SaveKept, Commit
  <2>2. cm.data # None /\ cm' = NoCopy
    BY <1>2 DEF Adopt, SaveKept, Commit, Return, ControlInv, CopyHeld, Working
  <2>3. QED
    BY <1>1, <2>1, <2>2, ApiUpdateObject
<1>3. CASE Release
  <2>1. obj' \in {obj, Absent} /\ cm' = NoCopy
    BY <1>3 DEF Release, Return, ApiUpdate, Write, server
  <2>2. QED
    BY <1>1, <2>1
<1>4. CASE Get \/ ReconcileGet
  BY <1>1, <1>4 DEF Get, ReconcileGet, Return, Read, server
<1>5. CASE Enter \/ OpenWatch \/ LeaveLoop
  BY <1>5 DEF Enter, OpenWatch, LeaveLoop, server
<1>6. CASE StopDeleted \/ KeepRunning \/ RejectConfig \/ Replace
           \/ StartImages \/ StartExec
  BY <1>1, <1>6 DEF StopDeleted, KeepRunning, RejectConfig, Replace,
                    StartImages, StartExec, Return, server
<1>7. QED
  BY <1>2, <1>3, <1>4, <1>5, <1>6 DEF Goroutine, Reconcile

\* The inductive invariant: live controllers can be stopped, each step knows
\* what has been stopped, after a Reconcile without error nothing runs that
\* the next one would not stop first, and an unspoilt copy is the object.
THEOREM Inductive == Spec => []IInv
<1>1. Init => IInv
  <2> SUFFICES ASSUME Init PROVE IInv
    OBVIOUS
  <2>1. ~obj.adopted
    BY DEF Init, Absent
  <2>2. cm.data = None
    BY DEF Init, NoCopy
  <2>3. QED
    BY <2>1, <2>2, InitType, InitControl DEF IInv, ObjectInv, CopyFresh, AdoptedExists
<1>2. TypeOK' /\ IInv /\ [Next]_vars => IInv'
  <2> SUFFICES ASSUME TypeOK', IInv, [Next]_vars PROVE IInv'
    OBVIOUS
  <2>1. CASE Goroutine
    BY <2>1, StartControl, ReconcileControl, GoroutineObject DEF IInv, Goroutine
  <2>2. CASE User
    BY <2>2, UserControl, UserObject DEF IInv
  <2>3. CASE ServerClosesWatch \/ ExecCrashes \/ ProcessRestarts \/ Shutdown
    <3>1. obj' = obj /\ cm' \in {cm, NoCopy}
      BY <2>3 DEF ServerClosesWatch, ExecCrashes, ProcessRestarts, Shutdown,
                  server
    <3>2. ObjectInv'
      BY <3>1 DEF IInv, ObjectInv, CopyFresh, AdoptedExists, Exists, NoCopy
    <3>3. QED
      BY <2>3, <3>2, WorldControl DEF IInv
  <2>4. CASE UNCHANGED vars
    BY <2>4 DEF IInv, ControlInv, ObjectInv, LiveHasCancel, CopyHeld, StepFacts,
                NothingToLose, CopyFresh, AdoptedExists, Exists, vars, rec, server
  <2>5. QED
    BY <2>1, <2>2, <2>3, <2>4 DEF Next
<1>3. QED
  BY <1>1, <1>2, TypeCorrect, PTL DEF Spec

\* Once a Reconcile got through, no live executor controller is lost.
THEOREM NoOrphan == Spec => NoOrphanOnceGood
<1>1. TypeOK /\ IInv /\ [Next]_vars
      => [rcm # None => orphanE' \subseteq orphanE]_vars
  <2> SUFFICES ASSUME TypeOK, IInv, Next, rcm # None
               PROVE  orphanE' \subseteq orphanE
    BY DEF vars
  <2>1. CASE StartExec
    BY <2>1 DEF StartExec, IInv, ControlInv, StepFacts
  <2>2. CASE Reconcile /\ ~StartExec
    BY <2>2 DEF Reconcile, ReconcileGet, StopDeleted, Release, KeepRunning,
                SaveKept, RejectConfig, Replace, StartImages, Commit, rec
  <2>3. CASE ~Reconcile
    BY <2>3 DEF Next, Goroutine, User, Enter, Get, Adopt, OpenWatch, LeaveLoop,
                UserEdits, UserDeletes, UserRecreates, UserWrites,
                ServerClosesWatch, ExecCrashes, ProcessRestarts, Shutdown, rec
  <2>4. QED
    BY <2>1, <2>2, <2>3
<1>2. QED
  BY <1>1, TypeCorrect, Inductive, PTL DEF Spec, NoOrphanOnceGood

\* A live controller of either kind is lost only after an error.
THEOREM OrphanOnlyAfterFailure == Spec => OrphanNeedsFailure
<1>1. TypeOK /\ IInv /\ [Next]_vars
      => [lastOk => orphanI' \subseteq orphanI /\ orphanE' \subseteq orphanE]_vars
  <2> SUFFICES ASSUME TypeOK, IInv, Next, lastOk
               PROVE  orphanI' \subseteq orphanI /\ orphanE' \subseteq orphanE
    BY DEF vars
  <2>1. CASE StartExec
    BY <2>1 DEF StartExec, IInv, ControlInv, StepFacts, NothingToLose
  <2>2. CASE Replace
    <3>1. Stop(fni).live => fni.live /\ ~fni.cancel
      BY Fields DEF TypeOK
    <3>2. QED
      BY <2>2, <3>1 DEF Replace, Deciding, Shortcut, Action, IsRunning, IInv, ControlInv,
                        LiveHasCancel, NothingToLose
  <2>3. CASE Reconcile /\ ~StartExec /\ ~Replace
    BY <2>3 DEF Reconcile, ReconcileGet, StopDeleted, Release, KeepRunning,
                SaveKept, RejectConfig, StartImages, Commit, rec
  <2>4. CASE ~Reconcile
    BY <2>4 DEF Next, Goroutine, User, Enter, Get, Adopt, OpenWatch, LeaveLoop,
                UserEdits, UserDeletes, UserRecreates, UserWrites,
                ServerClosesWatch, ExecCrashes, ProcessRestarts, Shutdown, rec
  <2>5. QED
    BY <2>1, <2>2, <2>3, <2>4
<1>2. QED
  BY <1>1, TypeCorrect, Inductive, PTL DEF Spec, OrphanNeedsFailure

\* An adopted ConfigMap goes away in Release only, after both were stopped.
THEOREM FinalizerLast == Spec => FinalizerRemovedLast
<1>1. TypeOK /\ IInv /\ [Next]_vars
      => [obj.adopted /\ ~Exists' => ~(fni.live \/ fne.live)]_vars
  <2> SUFFICES ASSUME TypeOK, IInv, Next, obj.adopted, ~Exists'
               PROVE  ~(fni.live \/ fne.live)
    BY DEF vars
  <2>1. obj.data # None /\ obj'.data = None
    BY DEF IInv, ObjectInv, AdoptedExists, Exists
  <2>2. CASE Release
    BY <2>2 DEF Release, IInv, ControlInv, StepFacts
  <2>3. CASE Adopt \/ SaveKept \/ Commit
    <3>1. PICK ok \in BOOLEAN : ApiUpdate([obj EXCEPT !.adopted = TRUE], ok)
      BY <2>3 DEF Adopt, SaveKept, Commit
    <3>2. cm.data # None
      BY <2>3 DEF Adopt, SaveKept, Commit, IInv, ControlInv, CopyHeld, Working
    <3>3. QED
      BY <2>1, <3>1, <3>2, ApiUpdateObject DEF IInv
  <2>4. CASE User
    <3>1. PICK new \in ConfigMap : obj' = new /\ new.data # None
      <4>1. CASE UserEdits
        BY <2>1, <4>1 DEF UserEdits, UserWrites, TypeOK, ConfigMap, Config, None
      <4>2. CASE UserDeletes
        BY <2>1, <4>2 DEF UserDeletes, UserWrites, TypeOK, ConfigMap
      <4>3. CASE UserRecreates
        BY <2>1, <4>3 DEF UserRecreates, Exists
      <4>4. QED
        BY <2>4, <4>1, <4>2, <4>3 DEF User
    <3>2. QED
      BY <2>1, <3>1
  <2>5. CASE Reconcile /\ ~Release /\ ~SaveKept /\ ~Commit
    BY <2>1, <2>5 DEF Reconcile, ReconcileGet, StopDeleted, KeepRunning,
                      RejectConfig, Replace, StartImages, StartExec, server
  <2>6. CASE \/ Enter \/ Get \/ OpenWatch \/ LeaveLoop
             \/ ServerClosesWatch \/ ExecCrashes \/ ProcessRestarts \/ Shutdown
    BY <2>1, <2>6 DEF Enter, Get, OpenWatch, LeaveLoop, ServerClosesWatch,
                      ExecCrashes, ProcessRestarts, Shutdown, server
  <2>7. QED
    BY <2>2, <2>3, <2>4, <2>5, <2>6 DEF Next, Goroutine
<1>2. QED
  BY <1>1, TypeCorrect, Inductive, PTL DEF Spec, FinalizerRemovedLast

\* Without recreation, the steps of Reconcile keep Followed and Protected.
LEMMA ReconcileFollowed ==
  ASSUME TypeOK, IInv, Followed, ProtectedWhileRunning, Reconcile
  PROVE  Followed' /\ ProtectedWhileRunning'
<1> USE DEF Followed, ProtectedWhileRunning, Working, Exists
<1>1. fni \in Controller /\ fne \in Controller
  BY DEF TypeOK
<1>2. CASE ReconcileGet
  BY <1>2 DEF ReconcileGet, Return, rec
<1>3. CASE Release
  <2>1. obj' \in {obj, Absent}
    BY <1>3 DEF Release, ApiUpdate, Write, server
  <2>2. ~fni.live /\ ~fne.live /\ UNCHANGED <<fni, fne>>
    BY <1>3 DEF Release, IInv, ControlInv, StepFacts, rec
  <2>3. obj.adopted /\ pc' = "loop"
    BY <1>3 DEF Release, Return
  <2>4. QED
    BY <2>1, <2>2, <2>3 DEF Absent
<1>4. CASE SaveKept \/ Commit
  <2>1. PICK ok \in BOOLEAN : ApiUpdate([obj EXCEPT !.adopted = TRUE], ok)
    BY <1>4 DEF SaveKept, Commit
  <2>2. obj.adopted
    BY <1>4 DEF SaveKept, Commit
  <2>3. obj'.adopted
    BY <2>1, <2>2 DEF ApiUpdate, Write, server, TypeOK, ConfigMap
  <2>4. QED
    BY <1>4, <2>3 DEF SaveKept, Commit, Return, rec
<1>5. CASE StopDeleted \/ KeepRunning \/ RejectConfig \/ Replace
           \/ StartImages \/ StartExec
  <2>1. obj.adopted /\ obj' = obj
    BY <1>5 DEF StopDeleted, KeepRunning, RejectConfig, Replace, Deciding,
                StartImages, StartExec, server
  <2>2. QED
    BY <2>1
<1>6. QED
  BY <1>2, <1>3, <1>4, <1>5 DEF Reconcile

\* If users do not recreate a deleted ConfigMap, the controllers in r.fni and
\* r.fne run only while the ConfigMap exists and carries our finalizer.
THEOREM Protected ==
  ASSUME "recreate" \notin UserOps
  PROVE  Spec => []ProtectedWhileRunning
<1>1. Init => Followed /\ ProtectedWhileRunning
  BY DEF Init, Followed, ProtectedWhileRunning, Working, Nil
<1>2. TypeOK /\ IInv /\ Followed /\ ProtectedWhileRunning /\ [Next]_vars
      => Followed' /\ ProtectedWhileRunning'
  <2> SUFFICES ASSUME TypeOK, IInv, Followed, ProtectedWhileRunning, [Next]_vars
               PROVE  Followed' /\ ProtectedWhileRunning'
    OBVIOUS
  <2> USE DEF Followed, ProtectedWhileRunning, Working, Exists
  <2>1. CASE Reconcile
    BY <2>1, ReconcileFollowed
  <2>2. CASE Adopt
    <3>1. PICK ok \in BOOLEAN : /\ ApiUpdate([obj EXCEPT !.adopted = TRUE], ok)
                                /\ pc' = IF ok THEN "watch" ELSE "get"
      BY <2>2 DEF Adopt
    <3>2. [obj EXCEPT !.adopted = TRUE].adopted
      BY DEF TypeOK, ConfigMap
    <3>3. /\ ok => obj'.adopted
          /\ obj.adopted => obj'.adopted
      BY <3>1, <3>2 DEF ApiUpdate, Write, server
    <3>4. QED
      BY <2>2, <3>1, <3>3 DEF Adopt, rec
  <2>3. CASE Enter \/ Get \/ OpenWatch \/ LeaveLoop
    BY <2>3 DEF Enter, Get, OpenWatch, LeaveLoop, server, rec
  <2>4. CASE UserEdits \/ (UserDeletes /\ obj.adopted)
    <3>1. obj'.adopted = obj.adopted
      BY <2>4 DEF UserEdits, UserDeletes, UserWrites, TypeOK, ConfigMap
    <3>2. UNCHANGED <<pc, fni, fne>> /\ Exists
      BY <2>4 DEF UserEdits, UserDeletes, UserWrites, rec
    <3>3. QED
      BY <3>1, <3>2
  <2>5. CASE UserDeletes /\ ~obj.adopted
    <3>1. obj' = Absent /\ UNCHANGED <<pc, fni, fne>>
      BY <2>5 DEF UserDeletes, UserWrites, rec
    <3>2. QED
      BY <2>5, <3>1 DEF Absent
  <2>6. CASE ServerClosesWatch \/ Shutdown
    BY <2>6 DEF ServerClosesWatch, Shutdown, TypeOK, Controller, server, rec
  <2>7. CASE ExecCrashes
    BY <2>7 DEF ExecCrashes, TypeOK, Controller, server
  <2>8. CASE ProcessRestarts
    BY <2>8 DEF ProcessRestarts, Nil
  <2>9. CASE UNCHANGED vars
    BY <2>9 DEF vars, server, rec
  <2>10. QED
    BY <2>1, <2>2, <2>3, <2>4, <2>5, <2>6, <2>7, <2>8, <2>9
       DEF Next, Goroutine, User, UserRecreates
<1>3. QED
  BY <1>1, <1>2, TypeCorrect, Inductive, PTL DEF Spec

\* What QuiescentCorrect is stated for.
Tame == "revert" \notin UserOps /\ "crash" \notin Faults /\ "shutdown" \notin Faults

LEMMA Numbers ==
  ASSUME TypeOK
  PROVE  /\ {rcm, cm.data, obj.data, fne.data, written} \subseteq Nat
         /\ {cm.deleting, obj.deleting, obj.adopted, fne.live, fne.cancel, lastOk} \subseteq BOOLEAN
         /\ None = 0
BY MaxConfigAssumption DEF TypeOK, ConfigMap, Copy, Controller, Config, None

\* The writes of users are of new configurations, and show in the watch.
LEMMA UserQuiet ==
  ASSUME Tame, TypeOK, IInv, QuietInv, User
  PROVE  QuietInv'
<1> USE DEF Exists
<1>0. /\ {rcm, cm.data, obj.data, fne.data, written} \subseteq Nat /\ None = 0
      /\ obj \in ConfigMap /\ cm \in Copy /\ events \in Nat
  BY Numbers DEF TypeOK
<1>1. PICK new \in ConfigMap :
        /\ UserWrites(new)
        /\ \/ new.data > written /\ new.data # None
           \/ new.data = obj.data /\ new.deleting
           \/ new.data = None
        /\ ~obj.adopted => ~new.adopted
  <2>1. CASE UserEdits
    <3>1. PICK d \in Config : Choice(d) /\ UserWrites([obj EXCEPT !.data = d])
      BY <2>1 DEF UserEdits
    <3>2. d > written /\ d # None
      BY <3>1 DEF Choice, Tame, Config, None
    <3> QED
      BY <1>0, <3>1, <3>2 DEF ConfigMap
  <2>2. CASE UserDeletes
    <3>1. CASE obj.adopted
      <4> DEFINE new == [obj EXCEPT !.deleting = TRUE]
      <4>1. UserWrites(new) /\ new \in ConfigMap /\ new.data = obj.data /\ new.deleting
        BY <1>0, <2>2, <3>1 DEF UserDeletes, ConfigMap
      <4> QED
        BY <3>1, <4>1
    <3>2. CASE ~obj.adopted
      <4>1. UserWrites(Absent) /\ Absent \in ConfigMap /\ Absent.data = None /\ ~Absent.adopted
        BY <2>2, <3>2 DEF UserDeletes, Absent, ConfigMap
      <4> QED
        BY <3>2, <4>1
    <3> QED
      BY <3>1, <3>2
  <2>3. CASE UserRecreates
    <3>1. PICK d \in Config : Choice(d) /\ UserWrites([Absent EXCEPT !.data = d])
      BY <2>3 DEF UserRecreates
    <3>2. d > written /\ d # None /\ ~obj.adopted
      BY <2>3, <3>1 DEF Choice, Tame, Config, None, UserRecreates, IInv, ObjectInv, AdoptedExists
    <3> DEFINE new == [Absent EXCEPT !.data = d]
    <3>3. new \in ConfigMap /\ new.data = d /\ ~new.adopted
      BY DEF Absent, ConfigMap
    <3> QED
      BY <3>1, <3>2, <3>3
  <2> QED
    BY <2>1, <2>2, <2>3 DEF User
<1>2. /\ obj' = new /\ written' = (IF new.data > written THEN new.data ELSE written)
      /\ cm'.data = cm.data /\ cm'.deleting = cm.deleting
      /\ watch = "open" /\ obj.adopted => events' = events + 1
      /\ UNCHANGED <<watch, pc, lastOk, rcm, fne, ctxDone>>
  BY <1>0, <1>1 DEF UserWrites, Notify, Copy, rec
<1>3. new.data \in Nat
  BY <1>0, <1>1 DEF ConfigMap, Config, None
<1>4. Order'
  BY <1>0, <1>1, <1>2, <1>3 DEF QuietInv, Order
<1>5. Wanted(rcm)' /\ rcm # None => Wanted(rcm)
  BY <1>0, <1>1, <1>2, <1>3 DEF Wanted, QuietInv, Order
<1>6. Remembered'
  BY <1>0, <1>1, <1>2, <1>5 DEF Remembered, QuietInv
<1> QED
  BY <1>2, <1>4, <1>6 DEF QuietInv

\* An Update of the goroutine changes no configuration and is refused to a
\* copy that is not up to date.
LEMMA UpdateQuiet ==
  ASSUME TypeOK, ObjectInv, cm.data # None, NEW ok \in BOOLEAN,
         ApiUpdate([obj EXCEPT !.adopted = TRUE], ok)
  PROVE  /\ obj'.data = obj.data /\ obj'.deleting = obj.deleting
         /\ UNCHANGED <<written, watch>>
         /\ ok => obj.data = cm.data
BY DEF TypeOK, ConfigMap, ApiUpdate, Write, server, ObjectInv, CopyFresh

\* What Start, start and Reconcile do without an Update.
LEMMA GoroutineQuiet ==
  ASSUME Tame, TypeOK, IInv, QuietInv,
         Goroutine, ~Adopt, ~SaveKept, ~Commit, ~Release
  PROVE  QuietInv'
<1> USE DEF Exists, IInv, ControlInv, CopyHeld, Working
<1>0. /\ {rcm, cm.data, obj.data, fne.data, written} \subseteq Nat /\ None = 0
      /\ fne \in Controller /\ events \in Nat /\ ~ctxDone
  BY Numbers DEF TypeOK, QuietInv
<1>1. NoCopy.data = 0 /\ NoCopy.deleting = FALSE
  BY DEF NoCopy, None
<1>2. Read.data = obj.data /\ Read.deleting = obj.deleting
  BY DEF Read
<1>3. CASE Enter \/ LeaveLoop
  BY <1>0, <1>3 DEF Enter, LeaveLoop, QuietInv, Order, Remembered, Wanted, server, rec
<1>4. CASE Get
  BY <1>0, <1>2, <1>4 DEF Get, QuietInv, Order, Remembered, Wanted, server, rec
<1>5. CASE OpenWatch
  BY <1>0, <1>5 DEF OpenWatch, InitialEvents, QuietInv, Order, Remembered, Wanted, rec
<1>6. CASE ReconcileGet
  BY <1>0, <1>1, <1>2, <1>6
     DEF ReconcileGet, Return, QuietInv, Order, Remembered, Wanted, rec
<1>7. CASE StopDeleted
  <2>1. ~Wanted(rcm)' \/ rcm = None
    BY <1>0, <1>7 DEF StopDeleted, QuietInv, Order, Wanted, server
  <2>2. pc' = "release" /\ UNCHANGED <<obj, written, watch, events, cm, lastOk, rcm, ctxDone>>
    BY <1>7 DEF StopDeleted, server
  <2>3. ~fne'.live
    BY <1>0, <1>7, Fields DEF StopDeleted, LiveHasCancel
  <2> QED
    BY <2>1, <2>2, <2>3 DEF QuietInv, Order, Remembered
<1>8. CASE KeepRunning
  BY <1>0, <1>8 DEF KeepRunning, Deciding, Shortcut, Action, QuietInv, Order, Remembered, Wanted, server, rec
<1>9. CASE RejectConfig
  BY <1>0, <1>1, <1>9 DEF RejectConfig, Deciding, Return, QuietInv, Order, Remembered, Wanted, server, rec
<1>10. CASE Replace
  <2>1. /\ pc' = "startImages" /\ ~cm.deleting /\ pc = "decide" /\ cm.data # None
        /\ UNCHANGED <<obj, written, watch, events, cm, lastOk, rcm, ctxDone>>
    BY <1>10 DEF Replace, Deciding, server
  <2>2. cm.data # rcm
    BY <1>0, <1>10, <2>1
       DEF Replace, Shortcut, Action, IsRunning, QuietInv, Remembered, Wanted
  <2>3. ~Wanted(rcm)' \/ rcm = None
    BY <1>0, <2>1, <2>2 DEF QuietInv, Order, Wanted
  <2>4. fne'.live => fne' = fne
    BY <1>0, <1>10, Fields DEF Replace, LiveHasCancel
  <2> QED
    BY <2>1, <2>2, <2>3, <2>4 DEF QuietInv, Order, Remembered
<1>11. CASE StartImages
  <2>1. UNCHANGED <<obj, written, watch, events, fne, rcm, ctxDone>> /\ pc = "startImages"
    BY <1>11 DEF StartImages, server
  <2>2. \/ pc' = "startExec" /\ UNCHANGED <<cm, lastOk>>
        \/ Return(FALSE)
    BY <1>11 DEF StartImages
  <2> QED
    BY <1>0, <1>1, <2>1, <2>2 DEF Return, QuietInv, Order, Remembered, Wanted
<1>12. CASE StartExec
  <2>1. /\ UNCHANGED <<obj, written, watch, events, rcm, ctxDone>> /\ pc = "startExec"
        /\ cm.data # None /\ cm.data # rcm
    BY <1>12 DEF StartExec, server, QuietInv, Remembered
  <2>2. ~Wanted(rcm)' \/ rcm = None
    <3>1. ~Wanted(rcm) \/ rcm = None
      BY <1>0, <2>1 DEF QuietInv, Order, Wanted
    <3>2. pc' \notin {"decide", "keep"}
      BY <1>12 DEF StartExec, Return
    <3> QED
      BY <2>1, <3>1, <3>2 DEF Wanted
  <2>3. CASE pc' = "commit" /\ UNCHANGED <<cm, lastOk>>
    <3>1. fne' = [data |-> cm.data, cancel |-> TRUE, live |-> TRUE]
      <4>1. \/ fne' = [data |-> cm.data, cancel |-> TRUE, live |-> ~ctxDone]
            \/ pc' = "loop"
        BY <1>12, Zenon DEF StartExec, Return
      <4>2. (~ctxDone) = TRUE /\ pc' # "loop"
        BY <1>0, <2>3
      <4> QED
        BY <4>1, <4>2
    <3>2. fne'.live /\ fne'.data = cm.data
      BY <1>0, <3>1
    <3> QED
      BY <1>0, <2>1, <2>2, <2>3, <3>2 DEF QuietInv, Order, Remembered
  <2>4. CASE Return(FALSE)
    BY <1>0, <1>1, <2>1, <2>2, <2>4 DEF Return, QuietInv, Order, Remembered
  <2> QED
    BY <1>12, <2>3, <2>4 DEF StartExec
<1> QED
  BY <1>3, <1>4, <1>5, <1>6, <1>7, <1>8, <1>9, <1>10, <1>11, <1>12 DEF Goroutine, Reconcile

\* What they do with one: what got through is remembered and served.
LEMMA UpdatesQuiet ==
  ASSUME Tame, TypeOK, IInv, QuietInv, Adopt \/ SaveKept \/ Commit \/ Release
  PROVE  QuietInv'
<1> USE DEF IInv, ControlInv, CopyHeld, Working
<1>0. /\ {rcm, cm.data, obj.data, fne.data, written} \subseteq Nat /\ None = 0
      /\ fne \in Controller /\ events \in Nat /\ ~ctxDone
  BY Numbers DEF TypeOK, QuietInv
<1>1. NoCopy.data = 0 /\ NoCopy.deleting = FALSE /\ Absent.data = 0 /\ ~Absent.adopted
  BY DEF NoCopy, Absent, None
<1> USE DEF Exists
<1>2. CASE Adopt
  <2>1. PICK ok \in BOOLEAN : /\ ApiUpdate([obj EXCEPT !.adopted = TRUE], ok)
                              /\ pc' = IF ok THEN "watch" ELSE "get"
    BY <1>2 DEF Adopt
  <2>2. /\ obj'.data = obj.data /\ obj'.deleting = obj.deleting /\ written' = written
        /\ UNCHANGED <<lastOk, rcm, fne, ctxDone>> /\ cm' = NoCopy /\ pc = "update"
        /\ pc' \in {"watch", "get"}
    BY <1>2, <2>1, UpdateQuiet DEF Adopt, rec
  <2> QED
    BY <1>0, <1>1, <2>2 DEF QuietInv, Order, Remembered, Wanted
<1>3. CASE SaveKept
  <2>1. PICK ok \in BOOLEAN : ApiUpdate([obj EXCEPT !.adopted = TRUE], ok) /\ Return(ok)
    BY <1>3 DEF SaveKept
  <2>2. /\ obj'.data = obj.data /\ obj'.deleting = obj.deleting /\ written' = written
        /\ UNCHANGED <<rcm, fne, ctxDone>> /\ cm' = NoCopy /\ pc = "keep"
        /\ pc' = "loop" /\ lastOk' = ok /\ (ok => obj.data = cm.data)
    BY <1>3, <2>1, UpdateQuiet DEF SaveKept, Return, rec
  <2>3. cm.data = rcm /\ (ok /\ fne.live => fne.data = rcm)
    BY <1>0, <2>2 DEF QuietInv, Remembered, Wanted, StepFacts
  <2> QED
    BY <1>0, <1>1, <2>2, <2>3 DEF QuietInv, Order, Remembered, Wanted
<1>4. CASE Commit
  <2>1. PICK ok \in BOOLEAN : /\ ApiUpdate([obj EXCEPT !.adopted = TRUE], ok)
                              /\ rcm' = IF ok THEN cm.data ELSE rcm
                              /\ Return(ok)
    BY <1>4 DEF Commit
  <2>2. /\ obj'.data = obj.data /\ obj'.deleting = obj.deleting /\ written' = written
        /\ UNCHANGED <<fne, ctxDone>> /\ cm' = NoCopy /\ pc = "commit"
        /\ pc' = "loop" /\ lastOk' = ok /\ (ok => obj.data = cm.data)
    BY <1>4, <2>1, UpdateQuiet DEF Commit, Return
  <2>3. fne.live /\ fne.data = cm.data /\ fne.cancel
    BY <2>2 DEF QuietInv, Remembered, StepFacts
  <2> QED
    BY <1>0, <1>1, <2>1, <2>2, <2>3 DEF QuietInv, Order, Remembered, Wanted
<1>5. CASE Release
  <2>1. PICK ok \in BOOLEAN : ApiUpdate(Absent, ok) /\ Return(ok)
    BY <1>5 DEF Release
  <2>2. /\ obj' \in {obj, Absent} /\ written' = written /\ (ok => obj' = Absent)
        /\ UNCHANGED <<rcm, fne, ctxDone>> /\ cm' = NoCopy /\ pc = "release"
        /\ pc' = "loop" /\ lastOk' = ok /\ ~fne.live
    BY <1>5, <2>1 DEF Release, Return, ApiUpdate, Write, rec, server, StepFacts
  <2> QED
    BY <1>0, <1>1, <2>2 DEF QuietInv, Order, Remembered, Wanted
<1> QED
  BY <1>2, <1>3, <1>4, <1>5

\* From what the reconciler remembers over what it has read to what is in the
\* ConfigMap the configurations grow, and the one that got through is served as
\* long as it is wanted.
THEOREM Remembers ==
  ASSUME Tame
  PROVE  Spec => []QuietInv
<1>1. Init => QuietInv
  <2> SUFFICES ASSUME Init PROVE QuietInv
    OBVIOUS
  <2>1. /\ ~ctxDone /\ rcm = 0 /\ cm.data = 0 /\ ~cm.deleting /\ pc = "start" /\ None = 0
        /\ obj.data = written /\ written \in Nat /\ ~fne.live
    BY DEF Init, Nil, NoCopy, None, Absent, Config
  <2> QED
    BY <2>1 DEF QuietInv, Order, Remembered
<1>2. TypeOK /\ IInv /\ QuietInv /\ [Next]_vars => QuietInv'
  <2> SUFFICES ASSUME TypeOK, IInv, QuietInv, [Next]_vars PROVE QuietInv'
    OBVIOUS
  <2>0. /\ {rcm, cm.data, obj.data, written} \subseteq Nat /\ None = 0
        /\ NoCopy.data = 0 /\ NoCopy.deleting = FALSE
    BY Numbers DEF NoCopy, None
  <2>1. CASE User
    BY <2>1, UserQuiet
  <2>2. CASE Goroutine /\ ~(Adopt \/ SaveKept \/ Commit \/ Release)
    BY <2>2, GoroutineQuiet
  <2>3. CASE Adopt \/ SaveKept \/ Commit \/ Release
    BY <2>3, UpdatesQuiet
  <2>4. CASE ServerClosesWatch
    BY <2>4 DEF ServerClosesWatch, QuietInv, Order, Remembered, Wanted, Exists, rec
  <2>5. CASE ProcessRestarts
    BY <2>0, <2>5 DEF ProcessRestarts, Nil, QuietInv, Order, Remembered, Exists
  <2>6. CASE UNCHANGED vars
    BY <2>6 DEF vars, server, rec, QuietInv, Order, Remembered, Wanted, Exists
  <2> QED
    BY <2>1, <2>2, <2>3, <2>4, <2>5, <2>6 DEF Next, ExecCrashes, Shutdown, Tame
<1>3. QED
  BY <1>1, <1>2, TypeCorrect, Inductive, PTL DEF Spec

\* With no event unread after a Reconcile without error, the executor controller
\* runs the configuration of the ConfigMap, whatever calls failed before, however
\* often the process was restarted, and however many edits and recreations there
\* were; unless users revert, controllers end on their own or the process does.
THEOREM QuietIsCorrect ==
  ASSUME Tame
  PROVE  Spec => []QuiescentCorrect
<1>1. TypeOK /\ IInv /\ QuietInv => QuiescentCorrect
  BY DEF QuietInv, Remembered, Wanted, QuiescentCorrect, IInv, ObjectInv, AdoptedExists, Exists
<1>2. QED
  BY <1>1, TypeCorrect, Inductive, Remembers, PTL

\* After a Reconcile without error, none stops or starts again what serves the
\* configuration it finds: what serves is what is remembered.
THEOREM KeepsServing ==
  ASSUME Tame
  PROVE  Spec => ServingIsKept
<1>1. TypeOK /\ IInv /\ QuietInv /\ [Next]_vars
      => [Goroutine /\ Deciding /\ lastOk /\ Serves(cm.data) => pc' = "keep"]_vars
  <2> SUFFICES ASSUME TypeOK, IInv, QuietInv,
                      Goroutine, Deciding, lastOk, Serves(cm.data)
               PROVE  pc' = "keep"
    OBVIOUS
  <2>1. pc = "decide" /\ ~cm.deleting /\ cm.data # None
    BY DEF Deciding, IInv, ControlInv, CopyHeld, Working
  <2>2. rcm # None /\ rcm = cm.data /\ fne.cancel
    BY <2>1 DEF Serves, QuietInv, Remembered, IInv, ControlInv, LiveHasCancel, NothingToLose
  <2>3. Shortcut
    BY <2>2 DEF Shortcut, Action, IsRunning
  <2> QED
    BY <2>1, <2>3 DEF Goroutine, Enter, Get, Adopt, OpenWatch, LeaveLoop, Reconcile,
                      ReconcileGet, StopDeleted, Release, KeepRunning, SaveKept,
                      RejectConfig, Replace, StartImages, StartExec, Commit
<1>2. QED
  BY <1>1, TypeCorrect, Inductive, Remembers, PTL DEF Spec, ServingIsKept

=============================================================================

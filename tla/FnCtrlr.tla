------------------------------- MODULE FnCtrlr -------------------------------
(***************************************************************************)
(* One function controller: the goroutine of fnctrlrcontroller, the        *)
(* reconciler it calls on every watch event, and the image manager and     *)
(* executor controller that reconciler starts and stops.  The goroutine    *)
(* follows one ConfigMap, which users edit and delete through the API      *)
(* server.  The API server and the users are external to the repository.   *)
(*                                                                         *)
(* A configuration (the "controllerConfig" key of the ConfigMap) is a      *)
(* number; None (0) stands for the absence of one, so that the absent      *)
(* ConfigMap and the nil controllers are records with data = None.         *)
(***************************************************************************)
EXTENDS Integers

CONSTANTS
  MaxConfig,  \* bound: configurations are 1..MaxConfig
  MaxEvents,  \* bound: users wait while this many watch events are unread
  Valid,      \* the configurations the syntax parser accepts
  UserOps,    \* what users do: "edit", "delete", "recreate", "revert"
  Faults      \* what goes wrong, see the ASSUME

ASSUME MaxConfigAssumption == MaxConfig \in Nat \ {0}
ASSUME MaxEventsAssumption == MaxEvents \in Nat \ {0}
ASSUME ValidAssumption     == Valid \subseteq 1..MaxConfig
ASSUME UserOpsAssumption   ==
  UserOps \subseteq {"edit", "delete", "recreate", "revert"}
ASSUME FaultsAssumption    ==
  Faults \subseteq {"api",       \* a call to the API server fails
                    "lost",      \* an update is applied, its answer is lost
                    "image",     \* an image manager cannot inspect an image
                    "exec",      \* an executor controller does not start
                    "crash",     \* a started executor controller ends
                    "restart",   \* the process dies and is started again
                    "shutdown"}  \* the context of the process is cancelled

Config == 1..MaxConfig
None   == 0

VARIABLES
  (* the API server *)
  obj,      \* the ConfigMap; adopted: it carries our label and finalizer
  written,  \* the largest configuration a user has written so far
  watch,    \* the watch the goroutine reads: "none", "open" or "closed"
  events,   \* number of unread events in that watch
  (* the goroutine *)
  pc,       \* where fnctrlrcontroller.Start is
  cm,       \* the local copy the current step works on
  lastOk,   \* the last Reconcile that found the ConfigMap returned no error
  (* the reconciler *)
  rcm,      \* r.cm: the configuration of the last Reconcile that got through
  fni,      \* r.fni, the image manager
  fne,      \* r.fne, the executor controller
  orphanI,  \* configurations of live image managers no longer in r.fni
  orphanE,  \* configurations of live executor controllers no longer in r.fne
  ctxDone   \* the context handed to Start is cancelled

server == <<obj, written, watch, events>>
rec    == <<rcm, fni, fne, orphanI, orphanE>>
vars   == <<server, pc, cm, lastOk, rec, ctxDone>>

Absent == [data |-> None, adopted |-> FALSE, deleting |-> FALSE]
NoCopy == [data |-> None, deleting |-> FALSE, stale |-> FALSE]
Nil    == [data |-> None, cancel |-> FALSE, live |-> FALSE]

PC == {"start", "get", "update", "watch", "loop", "decide", "release",
       "keep", "startImages", "startExec", "commit", "done"}

ConfigMap  == [data : Config \cup {None}, adopted : BOOLEAN, deleting : BOOLEAN]
Copy       == [data : Config \cup {None}, deleting : BOOLEAN, stale : BOOLEAN]
Controller == [data : Config \cup {None}, cancel : BOOLEAN, live : BOOLEAN]

TypeOK ==
  /\ obj \in ConfigMap
  /\ written \in Config \cup {None}
  /\ watch \in {"none", "open", "closed"}
  /\ events \in Nat
  /\ pc \in PC
  /\ cm \in Copy
  /\ lastOk \in BOOLEAN
  /\ rcm \in Config \cup {None}
  /\ fni \in Controller
  /\ fne \in Controller
  /\ orphanI \in SUBSET (Config \cup {None})
  /\ orphanE \in SUBSET (Config \cup {None})
  /\ ctxDone \in BOOLEAN

Init ==
  /\ \/ obj = Absent /\ written = None
     \/ \E d \in Config : obj = [Absent EXCEPT !.data = d] /\ written = d
  /\ watch = "none" /\ events = 0
  /\ pc = "start" /\ cm = NoCopy /\ lastOk = TRUE
  /\ rcm = None /\ fni = Nil /\ fne = Nil
  /\ orphanI = {} /\ orphanE = {}
  /\ ctxDone = FALSE

(***************************************************************************)
(* The API server                                                          *)
(***************************************************************************)
Exists == obj.data # None

\* The watch selects on the label: only changes of an adopted object show.
Notify(seen) ==
  events' = IF watch = "open" /\ seen THEN events + 1 ELSE events

\* A Get: the copy has the resource version of the object until a write.
Read == [data |-> obj.data, deleting |-> obj.deleting, stale |-> FALSE]

\* Our own write of new; writing what is there makes no version, no event.
Write(new) ==
  /\ obj' = new
  /\ Notify(new # obj /\ (obj.adopted \/ new.adopted))
  /\ UNCHANGED <<written, watch>>

\* Update with the local copy: refused when the copy is stale.
ApiUpdate(new, ok) ==
  \/ ok /\ ~cm.stale /\ ~ctxDone /\ Write(new)
  \/ ~ok /\ cm.stale /\ UNCHANGED server
  \/ ~ok /\ ("api" \in Faults \/ ctxDone) /\ UNCHANGED server
  \/ ~ok /\ "lost" \in Faults /\ ~cm.stale /\ Write(new)

\* Unless users revert, each of their writes is a configuration never used.
Choice(d) == "revert" \in UserOps \/ d > written

UserWrites(new) ==
  /\ obj.adopted => events < MaxEvents
  /\ obj' = new
  /\ written' = IF new.data > written THEN new.data ELSE written
  /\ cm' = [cm EXCEPT !.stale = (cm.data # None)]
  /\ Notify(obj.adopted)
  /\ UNCHANGED <<watch, pc, lastOk, rec, ctxDone>>

UserEdits ==
  /\ "edit" \in UserOps /\ Exists
  /\ \E d \in Config \ {obj.data} :
       Choice(d) /\ UserWrites([obj EXCEPT !.data = d])

\* With our finalizer on it, the object stays until the finalizer is gone.
UserDeletes ==
  /\ "delete" \in UserOps /\ Exists /\ ~obj.deleting
  /\ UserWrites(IF obj.adopted THEN [obj EXCEPT !.deleting = TRUE] ELSE Absent)

UserRecreates ==
  /\ "recreate" \in UserOps /\ ~Exists
  /\ \E d \in Config :
       Choice(d) /\ UserWrites([Absent EXCEPT !.data = d])

\* The API server ends a watch; events not read yet may be dropped.
ServerClosesWatch ==
  /\ watch = "open"
  /\ watch' = "closed" /\ events' = 0
  /\ UNCHANGED <<obj, written, pc, cm, lastOk, rec, ctxDone>>

(***************************************************************************)
(* fnctrlrcontroller: Start and start                                      *)
(***************************************************************************)
\* The select of Start looks at ctx.Done only here, before the first INIT.
Enter ==
  /\ pc = "start"
  /\ pc' = IF ctxDone THEN "done" ELSE "get"
  /\ UNCHANGED <<server, cm, lastOk, rec, ctxDone>>

\* INIT: get, again after a pause as long as it fails.
Get ==
  /\ pc = "get"
  /\ \/ /\ Exists /\ ~ctxDone
        /\ cm' = Read /\ pc' = "update"
     \/ /\ ~Exists \/ ctxDone \/ "api" \in Faults
        /\ UNCHANGED <<cm, pc>>
  /\ UNCHANGED <<server, lastOk, rec, ctxDone>>

\* update: add the label the watch selects on and the finalizer.
Adopt ==
  /\ pc = "update"
  /\ \E ok \in BOOLEAN :
       /\ ApiUpdate([obj EXCEPT !.adopted = TRUE], ok)
       /\ pc' = IF ok THEN "watch" ELSE "get"
  /\ cm' = NoCopy
  /\ UNCHANGED <<lastOk, rec, ctxDone>>

\* Mutant: the watch only brings changes.
InitialEventsMutant == 0

\* A watch starts with one ADDED event for an object it selects.
InitialEvents == IF obj.adopted THEN 1 ELSE 0

OpenWatch ==
  /\ pc = "watch"
  /\ \/ /\ ~ctxDone
        /\ watch' = "open"
        /\ events' = InitialEvents
        /\ pc' = "loop"
     \/ /\ ctxDone \/ "api" \in Faults
        /\ pc' = "get"
        /\ UNCHANGED <<watch, events>>
  /\ UNCHANGED <<obj, written, cm, lastOk, rec, ctxDone>>

\* start returns, on a closed watch or a cancelled context: Start goes to INIT.
LeaveLoop ==
  /\ pc = "loop"
  /\ watch = "closed" \/ ctxDone
  /\ pc' = "get" /\ watch' = "none" /\ events' = 0
  /\ UNCHANGED <<obj, written, cm, lastOk, rec, ctxDone>>

(***************************************************************************)
(* rec.Reconcile                                                           *)
(***************************************************************************)
\* Reconcile returns false: start waits for the next event, error or not.
Return(ok) == pc' = "loop" /\ lastOk' = ok /\ cm' = NoCopy

EventReady == watch = "open" /\ events > 0

\* An event calls Reconcile, which gets the ConfigMap.
ReconcileGet ==
  /\ pc = "loop" /\ EventReady
  /\ \/ /\ Exists /\ ~ctxDone
        /\ cm' = Read /\ pc' = "decide" /\ events' = events - 1
        /\ UNCHANGED <<watch, lastOk>>
     \/ /\ ~Exists /\ ~ctxDone   \* not found: done, start returns
        /\ pc' = "get"
        /\ watch' = "none" /\ events' = 0
        /\ UNCHANGED <<cm, lastOk>>
     \/ /\ ctxDone \/ "api" \in Faults
        /\ Return(FALSE) /\ events' = events - 1
        /\ UNCHANGED watch
  /\ UNCHANGED <<obj, written, rec, ctxDone>>

IsRunning(c) == c.cancel

Stop(c) == IF c.cancel THEN [c EXCEPT !.cancel = FALSE, !.live = FALSE] ELSE c

\* Mutant: a changed configuration is taken for a first one.
ActionMutant == IF rcm = cm.data THEN "Ignore" ELSE "Create"
Action == IF rcm = None THEN "Create"
          ELSE IF rcm # cm.data THEN "Update" ELSE "Ignore"

Deciding == pc = "decide" /\ ~cm.deleting
\* Mutant: the configuration is not compared.
ShortcutMutant == rcm # None /\ IsRunning(fne)
Shortcut == Action = "Ignore" /\ IsRunning(fne)

\* Mutant: the image manager is forgotten.
StopDeletedMutant ==
  /\ pc = "decide" /\ cm.deleting
  /\ fni' = fni /\ fne' = Stop(fne)
  /\ pc' = "release"
  /\ UNCHANGED <<server, cm, lastOk, rcm, orphanI, orphanE, ctxDone>>

\* The ConfigMap is being deleted: stop both; r.cm keeps its value.
StopDeleted ==
  /\ pc = "decide" /\ cm.deleting
  /\ fni' = Stop(fni) /\ fne' = Stop(fne)
  /\ pc' = "release"
  /\ UNCHANGED <<server, cm, lastOk, rcm, orphanI, orphanE, ctxDone>>

\* Mutant: the update leaves the finalizer where it is.
ReleaseMutant ==
  /\ pc = "release"
  /\ \E ok \in BOOLEAN : ApiUpdate(obj, ok) /\ Return(ok)
  /\ UNCHANGED <<rec, ctxDone>>

\* ... and remove the finalizer, with which the object goes.
Release ==
  /\ pc = "release"
  /\ \E ok \in BOOLEAN : ApiUpdate(Absent, ok) /\ Return(ok)
  /\ UNCHANGED <<rec, ctxDone>>

\* Nothing new and, as far as IsRunning tells, running.
KeepRunning ==
  /\ Deciding /\ Shortcut
  /\ pc' = "keep"
  /\ UNCHANGED <<server, cm, lastOk, rec, ctxDone>>

SaveKept ==
  /\ pc = "keep"
  /\ \E ok \in BOOLEAN :
       ApiUpdate([obj EXCEPT !.adopted = TRUE], ok) /\ Return(ok)
  /\ UNCHANGED <<rec, ctxDone>>

\* getExecCtxAndImages fails: what runs is left running.
RejectConfig ==
  /\ Deciding /\ ~Shortcut /\ cm.data \notin Valid
  /\ Return(FALSE)
  /\ UNCHANGED <<server, rec, ctxDone>>

\* Stop what runs, if the action is Update, and make a new image manager.
\* The controller is in the store from process start: New does not fail.
Replace ==
  /\ Deciding /\ ~Shortcut /\ cm.data \in Valid
  /\ LET old == IF Action = "Update" THEN Stop(fni) ELSE fni
     IN  orphanI' = IF old.live THEN orphanI \cup {old.data} ELSE orphanI
  /\ fni' = [Nil EXCEPT !.data = cm.data]
  /\ fne' = IF Action = "Update" THEN Stop(fne) ELSE fne
  /\ pc' = "startImages"
  /\ UNCHANGED <<server, cm, lastOk, rcm, orphanE, ctxDone>>

\* fni.Start: on an error, the images before it have their controllers.
StartImages ==
  /\ pc = "startImages"
  /\ \/ /\ fni' = [fni EXCEPT !.cancel = TRUE, !.live = ~ctxDone]
        /\ pc' = "startExec" /\ UNCHANGED <<cm, lastOk>>
     \/ /\ "image" \in Faults \/ ctxDone
        /\ \E some \in BOOLEAN :
             fni' = [fni EXCEPT !.cancel = TRUE, !.live = some /\ ~ctxDone]
        /\ Return(FALSE)
  /\ UNCHANGED <<server, rcm, fne, orphanI, orphanE, ctxDone>>

\* fnexeccontroller New and Start: cancel is set before what can fail.
StartExec ==
  /\ pc = "startExec"
  /\ orphanE' = IF fne.live THEN orphanE \cup {fne.data} ELSE orphanE
  /\ \/ /\ fne' = [data |-> cm.data, cancel |-> TRUE, live |-> ~ctxDone]
        /\ pc' = "commit" /\ UNCHANGED <<cm, lastOk>>
     \/ /\ "exec" \in Faults
        /\ fne' = [data |-> cm.data, cancel |-> TRUE, live |-> FALSE]
        /\ Return(FALSE)
  /\ UNCHANGED <<server, rcm, fni, orphanI, ctxDone>>

\* Mutant: r.cm is not set.
CommitMutant ==
  /\ pc = "commit"
  /\ \E ok \in BOOLEAN :
       ApiUpdate([obj EXCEPT !.adopted = TRUE], ok) /\ Return(ok)
  /\ UNCHANGED <<rec, ctxDone>>

\* Save label and finalizer; only then is the configuration remembered.
Commit ==
  /\ pc = "commit"
  /\ \E ok \in BOOLEAN :
       /\ ApiUpdate([obj EXCEPT !.adopted = TRUE], ok)
       /\ rcm' = IF ok THEN cm.data ELSE rcm
       /\ Return(ok)
  /\ UNCHANGED <<fni, fne, orphanI, orphanE, ctxDone>>

Reconcile ==
  \/ ReconcileGet \/ StopDeleted \/ Release \/ KeepRunning \/ SaveKept
  \/ RejectConfig \/ Replace \/ StartImages \/ StartExec \/ Commit

(***************************************************************************)
(* What goes wrong                                                         *)
(***************************************************************************)
\* A goroutine of the executor controller ends and cancels the other one;
\* the field cancel stays set.
ExecCrashes ==
  /\ "crash" \in Faults
  /\ \/ fne.live /\ fne' = [fne EXCEPT !.live = FALSE] /\ UNCHANGED orphanE
     \/ \E d \in orphanE : orphanE' = orphanE \ {d} /\ UNCHANGED fne
  /\ UNCHANGED <<server, pc, cm, lastOk, rcm, fni, orphanI, ctxDone>>

ProcessRestarts ==
  /\ "restart" \in Faults /\ pc # "start"
  /\ pc' = "start" /\ cm' = NoCopy /\ lastOk' = TRUE
  /\ rcm' = None /\ fni' = Nil /\ fne' = Nil
  /\ orphanI' = {} /\ orphanE' = {}
  /\ ctxDone' = FALSE
  /\ watch' = "none" /\ events' = 0
  /\ UNCHANGED <<obj, written>>

\* The contexts of all the controllers derive from the cancelled one.
Shutdown ==
  /\ "shutdown" \in Faults /\ ~ctxDone
  /\ ctxDone' = TRUE
  /\ fni' = [fni EXCEPT !.live = FALSE] /\ fne' = [fne EXCEPT !.live = FALSE]
  /\ orphanI' = {} /\ orphanE' = {}
  /\ UNCHANGED <<server, pc, cm, lastOk, rcm>>

Goroutine ==
  Enter \/ Get \/ Adopt \/ OpenWatch \/ LeaveLoop \/ Reconcile

User == UserEdits \/ UserDeletes \/ UserRecreates

Next ==
  \/ Goroutine
  \/ User
  \/ ServerClosesWatch
  \/ ExecCrashes \/ ProcessRestarts \/ Shutdown

Spec == Init /\ [][Next]_vars

(***************************************************************************)
(* Fairness: the goroutine is scheduled; the API server ends every watch   *)
(* sooner or later, as it does after its request timeout; and a call that  *)
(* is tried over and over succeeds over and over.                          *)
(***************************************************************************)
Fairness ==
  /\ WF_vars(Goroutine)
  /\ WF_vars(ServerClosesWatch)
  /\ SF_vars(Adopt /\ pc' = "watch")
  /\ SF_vars(OpenWatch /\ pc' = "loop")
  /\ SF_vars(ReconcileGet /\ pc' # "loop")
  /\ SF_vars(StartImages /\ pc' = "startExec")
  /\ SF_vars(StartExec /\ pc' = "commit")
  /\ SF_vars(Commit /\ lastOk')
  /\ SF_vars(Release /\ lastOk')

FairSpec == Spec /\ Fairness

(***************************************************************************)
(* Safety                                                                  *)
(***************************************************************************)
\* Once one Reconcile got through (r.cm is set), no live executor controller
\* is ever lost from r.fne: the next one is started after a Stop only.
NoOrphanOnceGood ==
  [][rcm # None => orphanE' \subseteq orphanE]_vars

\* A controller of either kind is lost only in the Reconcile that follows one
\* that returned an error, which start() logs and does not act upon.
OrphanNeedsFailure ==
  [][lastOk => orphanI' \subseteq orphanI /\ orphanE' \subseteq orphanE]_vars

\* An adopted ConfigMap goes away only when what r.fni and r.fne refer to has
\* been stopped.
FinalizerRemovedLast ==
  [][obj.adopted /\ ~Exists' => ~(fni.live \/ fne.live)]_vars

\* If users do not recreate a deleted ConfigMap, the controllers in r.fni and
\* r.fne run only while the ConfigMap exists and carries our finalizer.
ProtectedWhileRunning == fni.live \/ fne.live => obj.adopted

Serves(d) == fne.live /\ fne.data = d

\* Our own Updates, those of others to the ConfigMap and every new watch are
\* events, and each calls Reconcile.  After one without error, none stops or
\* starts again what serves the configuration it finds.
ServingIsKept ==
  [][Goroutine /\ Deciding /\ lastOk /\ Serves(cm.data) => pc' = "keep"]_vars

\* With no event unread after a Reconcile without error, the executor
\* controller runs the configuration of the ConfigMap.
QuiescentCorrect ==
  /\ pc = "loop" /\ watch = "open" /\ events = 0 /\ lastOk
  /\ obj.adopted /\ ~obj.deleting
  => fne.live /\ fne.data = obj.data

(***************************************************************************)
(* The inductive invariant behind the safety properties                    *)
(***************************************************************************)
Working == {"update", "decide", "release", "keep", "startImages",
            "startExec", "commit"}

\* Whatever is live can be stopped, and a step that works on a copy has one.
LiveHasCancel == \A c \in {fni, fne} : c.live => c.cancel
CopyHeld      == pc \in Working => cm.data # None

\* The copy is that of the object until someone writes; an absent object does
\* not carry our label.
CopyFresh     == cm.data # None /\ ~cm.stale => obj.data = cm.data
AdoptedExists == obj.adopted => Exists

\* What each step of Reconcile knows about the two controllers.
StepFacts ==
  /\ pc = "release" => ~fni.live /\ ~fne.live
  /\ pc = "keep"    => rcm # None /\ fne.cancel
  /\ pc = "commit"  => fne.cancel
  /\ pc \in {"startImages", "startExec"} /\ rcm # None => ~fne.live

\* After a Reconcile without error, what runs is what the next one stops.
NothingToLose ==
  lastOk =>
    /\ pc # "commit" /\ rcm = None => ~fne.live
    /\ pc \notin {"startExec", "commit"} /\ (rcm = None \/ ~fne.cancel)
       => ~fni.live

\* The inductive invariant: the facts above hold together.
ControlInv == LiveHasCancel /\ CopyHeld /\ StepFacts /\ NothingToLose
ObjectInv  == CopyFresh /\ AdoptedExists
IInv       == TypeOK /\ ControlInv /\ ObjectInv

\* Without recreation, what the goroutine follows it has adopted.
Followed ==
  /\ pc \in Working \ {"update"} => obj.adopted
  /\ pc \in {"watch", "loop"} => obj.adopted \/ ~Exists

\* Users never write a configuration twice, so they grow: from what the
\* reconciler remembers over what it has read to what is in the ConfigMap.
Order ==
  /\ {rcm, cm.data, obj.data} \subseteq 0..written
  /\ \A d \in {cm.data, obj.data} : d # None => rcm <= d
  /\ cm.data # None /\ Exists =>
       cm.data <= obj.data /\ (cm.deleting /\ obj.data = cm.data => obj.deleting)

\* A configuration that is in the ConfigMap or that Reconcile is to act upon.
Wanted(d) ==
  \/ obj.data = d /\ ~obj.deleting
  \/ pc \in {"decide", "keep"} /\ cm.data = d /\ ~cm.deleting

\* If the configuration that got through is wanted, it is served; after a
\* Reconcile without error no other is, until the next has been started; one that
\* is being started is a new one; and when nothing is to be read it is the
\* remembered one that is wanted.
Remembered ==
  /\ rcm # None /\ Wanted(rcm) => fne.cancel /\ fne.live /\ fne.data = rcm
  /\ lastOk /\ pc # "commit" /\ fne.live => fne.data = rcm
  /\ pc \in {"startImages", "startExec", "commit"} => cm.data # rcm /\ ~cm.deleting
  /\ pc = "commit" => fne.live /\ fne.data = cm.data
  /\ pc = "keep" => cm.data = rcm /\ ~cm.deleting
  /\ pc = "loop" /\ watch = "open" /\ events = 0 /\ lastOk /\ obj.adopted /\ ~obj.deleting
     => obj.data = rcm

\* Without reverts, crashes and a shutdown.
QuietInv == ~ctxDone /\ Order /\ Remembered

(***************************************************************************)
(* Liveness                                                                *)
(***************************************************************************)
\* A valid configuration that stays in the ConfigMap is served in the end, and
\* from then on, whatever calls failed on the way.
Converges ==
  \A d \in Valid :
    <>[](obj.data = d /\ ~obj.deleting) => <>[]Serves(d)

\* A deleted ConfigMap is released: the finalizer does not block it for ever.
Released == obj.deleting ~> ~obj.deleting

(***************************************************************************)
(* What a comment says and the code does not do                            *)
(***************************************************************************)
\* "if the fnexeccontroller is running all ok, if not we need to run it"
IgnoredOnlyWhenRunning == [][KeepRunning => fne.live]_vars

=============================================================================

----------------------------- MODULE CrReconciler -----------------------------
(***************************************************************************)
(* The reconciler of an executor controller (pkg/ctrlr/controllers) for    *)
(* one custom resource, the one a ControllerConfig is "for".  Controllers  *)
(* follow each other: when the function controller replaces one, its       *)
(* context is cancelled but the reconcile under way is not waited for.     *)
(* The API server, the users, the work queue of controller-runtime and the *)
(* pipelines (FnExec) are external.                                        *)
(***************************************************************************)
EXTENDS Integers

CONSTANTS
  Output,      \* what the apply pipeline outputs, the resource aside
  Self,        \* the resource, which that pipeline outputs too, with its status
  MaxGen,      \* bound: controllers, one after the other
  MaxUserOps,  \* bound: users' creations, edits and deletions
  MaxFailures  \* bound: calls and pipelines that fail

ASSUME MaxGenAssumption      == MaxGen \in Nat \ {0}
ASSUME MaxUserOpsAssumption  == MaxUserOps \in Nat
ASSUME MaxFailuresAssumption == MaxFailures \in Nat
ASSUME SelfAssumption        == Self \notin Output

Gen    == 1..MaxGen
CrSpec == 1..MaxUserOps  \* every creation and every edit makes a new spec
None   == 0

VARIABLES
  cr,       \* the resource in the API server
  applied,  \* applied[o]: the spec that output o was last computed from, or None
  cleaned,  \* the delete pipeline has run on this incarnation of cr
  userOps, failures,
  cur,      \* the controller that is not cancelled
  queued,   \* queued[g]: the queue of g holds a request
  pc,       \* pc[g]: where the Reconcile of g is
  copy,     \* copy[g]: cr as that Reconcile has it, and whether it is current
  data,     \* data[g]: what it marshalled for the pipeline, and whether it is current
  todo,     \* todo[g]: outputs still to be applied
  retry,    \* retry[g]: it returns RequeueAfter or Requeue
  failed,   \* failed[g]: its pipeline failed
  inflight, \* inflight[g]: g was cancelled with a call on its way
  late      \* history: since the last Begin, such a call has applied an output

world == <<cr, applied, cleaned>>
bound == <<userOps, failures>>
vars  == <<world, bound, cur, queued, pc, copy, data, todo, retry, failed, inflight, late>>

Absent == [exists |-> FALSE, spec |-> None, deleting |-> FALSE, fin |-> FALSE, status |-> FALSE]
NoCopy == [deleting |-> FALSE, fin |-> FALSE, status |-> FALSE, current |-> FALSE]
NoData == [spec |-> None, current |-> FALSE]

PC == {"idle", "finalizer", "clients", "delete", "remove", "run", "apply", "status"}

TypeOK ==
  /\ cr \in [exists : BOOLEAN, spec : CrSpec \cup {None}, deleting : BOOLEAN,
            fin : BOOLEAN, status : BOOLEAN]
  /\ cr.exists \/ cr = Absent
  /\ applied \in [Output -> CrSpec \cup {None}] /\ cleaned \in BOOLEAN
  /\ userOps \in 0..MaxUserOps /\ failures \in 0..MaxFailures
  /\ cur \in Gen
  /\ queued \in [Gen -> BOOLEAN]
  /\ pc \in [Gen -> PC]
  /\ copy \in [Gen -> [deleting : BOOLEAN, fin : BOOLEAN, status : BOOLEAN, current : BOOLEAN]]
  /\ data \in [Gen -> [spec : CrSpec \cup {None}, current : BOOLEAN]]
  /\ todo \in [Gen -> SUBSET (Output \cup {Self})]
  /\ retry \in [Gen -> BOOLEAN]
  /\ failed \in [Gen -> BOOLEAN]
  /\ inflight \in [Gen -> BOOLEAN] /\ late \in BOOLEAN
  /\ \A g \in Gen : copy[g].current =>
       /\ cr.exists /\ copy[g].deleting = cr.deleting /\ copy[g].fin = cr.fin

Init ==
  /\ cr = Absent
  /\ applied = [o \in Output |-> None] /\ cleaned = FALSE
  /\ userOps = 0 /\ failures = 0
  /\ cur = 1
  /\ queued = [g \in Gen |-> FALSE]
  /\ pc = [g \in Gen |-> "idle"]
  /\ copy = [g \in Gen |-> NoCopy]
  /\ data = [g \in Gen |-> NoData]
  /\ todo = [g \in Gen |-> {}]
  /\ retry = [g \in Gen |-> FALSE]
  /\ failed = [g \in Gen |-> FALSE]
  /\ inflight = [g \in Gen |-> FALSE] /\ late = FALSE

(***************************************************************************)
(* The API server: a write makes every copy out of date but the writer's,  *)
(* and queues a request; the last finalizer removed from a resource that   *)
(* is being deleted ends it.                                               *)
(***************************************************************************)
Put(new, copies, versions) ==
  /\ cr' = new
  /\ copy' = copies
  /\ data' = versions
  /\ queued' = [queued EXCEPT ![cur] = TRUE]

OutOfDate == [g \in Gen |-> [copy[g] EXCEPT !.current = FALSE]]
OldData   == [g \in Gen |-> [data[g] EXCEPT !.current = FALSE]]

\* The update of g: its copy is current afterwards, what it marshalled is not.
PutBy(g, new) ==
  Put(IF new.deleting /\ ~new.fin THEN Absent ELSE new,
      [OutOfDate EXCEPT ![g] = [deleting |-> new.deleting, fin |-> new.fin,
                                status |-> new.status,
                                current |-> ~(new.deleting /\ ~new.fin)]],
      OldData)

\* A cancelled controller makes no call but the one on its way.
MayCall(g) == g = cur \/ inflight[g]
Landed(g)  == inflight' = [inflight EXCEPT ![g] = FALSE]

Goto(g, from, to) == pc[g] = from /\ pc' = [pc EXCEPT ![g] = to]

(***************************************************************************)
(* The users                                                               *)
(***************************************************************************)
User ==
  /\ userOps < MaxUserOps
  /\ userOps' = userOps + 1
  /\ UNCHANGED <<applied, failures, cur, pc, todo, retry, failed, inflight, late>>

UserCreates ==
  /\ ~cr.exists
  /\ Put([Absent EXCEPT !.exists = TRUE, !.spec = userOps + 1], OutOfDate, OldData)
  /\ cleaned' = FALSE
  /\ User

UserEdits ==
  /\ cr.exists
  /\ Put([cr EXCEPT !.spec = userOps + 1, !.status = FALSE], OutOfDate, OldData)
  /\ UNCHANGED cleaned
  /\ User

UserDeletes ==
  /\ cr.exists /\ ~cr.deleting
  /\ Put(IF cr.fin THEN [cr EXCEPT !.deleting = TRUE] ELSE Absent, OutOfDate, OldData)
  /\ UNCHANGED cleaned
  /\ User

(***************************************************************************)
(* Reconcile                                                               *)
(***************************************************************************)
\* Get and marshal; a resource that is gone needs nothing.
Begin(g) ==
  /\ g = cur /\ queued[g]
  /\ Goto(g, "idle", IF cr.exists THEN "finalizer" ELSE "idle")
  /\ queued' = [queued EXCEPT ![g] = FALSE]
  /\ copy' = [copy EXCEPT ![g] = [deleting |-> cr.deleting, fin |-> cr.fin,
                                  status |-> cr.status, current |-> cr.exists]]
  /\ data' = [data EXCEPT ![g] = [spec |-> cr.spec, current |-> cr.exists]]
  /\ failed' = [failed EXCEPT ![g] = FALSE]
  /\ retry' = [retry EXCEPT ![g] = FALSE]
  /\ late' = FALSE
  /\ UNCHANGED <<world, bound, cur, todo, inflight>>

\* Mutant: the finalizer is left to a later Reconcile.
NeedsFinalizerMutant(g) == FALSE
NeedsFinalizer(g) == ~copy[g].fin

AddFinalizer(g) ==
  /\ Goto(g, "finalizer", "clients")
  /\ IF NeedsFinalizer(g)
     THEN /\ MayCall(g) /\ copy[g].current
          /\ PutBy(g, [cr EXCEPT !.fin = TRUE])
          /\ Landed(g)
     ELSE UNCHANGED <<cr, queued, copy, data, inflight>>
  /\ UNCHANGED <<applied, cleaned, bound, cur, todo, retry, failed, late>>

GetFnClients(g) ==
  /\ Goto(g, "clients", IF copy[g].deleting THEN "delete" ELSE "run")
  /\ UNCHANGED <<world, bound, cur, queued, copy, data, todo, retry, failed, inflight, late>>

\* The delete pipeline, whose outputs and result nobody looks at; that of a
\* cancelled controller makes no calls.
RunDelete(g) ==
  /\ Goto(g, "delete", "remove")
  /\ cleaned' = (cleaned \/ (g = cur /\ cr.deleting))
  /\ UNCHANGED <<cr, applied, bound, cur, queued, copy, data, todo, retry, failed, inflight, late>>

\* Mutant: the finalizer stays.
RemoveFinalizerMutant(g) ==
  /\ Goto(g, "remove", "idle")
  /\ UNCHANGED <<world, bound, cur, queued, copy, data, todo, retry, failed, inflight, late>>

RemoveFinalizer(g) ==
  /\ Goto(g, "remove", "idle")
  /\ MayCall(g) /\ copy[g].current
  /\ PutBy(g, [cr EXCEPT !.fin = FALSE])
  /\ Landed(g)
  /\ UNCHANGED <<applied, cleaned, bound, cur, todo, retry, failed, late>>

\* The apply pipeline; one that fails leaves any part of the outputs.
RunApply(g) ==
  /\ Goto(g, "run", "apply")
  /\ \/ /\ todo' = [todo EXCEPT ![g] = Output \cup {Self}]
        /\ UNCHANGED <<failures, failed>>
     \/ /\ failures < MaxFailures /\ failures' = failures + 1
        /\ \E part \in SUBSET (Output \cup {Self}) : todo' = [todo EXCEPT ![g] = part]
        /\ failed' = [failed EXCEPT ![g] = TRUE]
  /\ UNCHANGED <<world, userOps, cur, queued, copy, data, retry, inflight, late>>

Apply(g) ==
  /\ pc[g] = "apply" /\ MayCall(g)
  /\ \E o \in todo[g] \ {Self} :
       /\ applied' = [applied EXCEPT ![o] = data[g].spec]
       /\ todo' = [todo EXCEPT ![g] = @ \ {o}]
  /\ Landed(g) /\ late' = (late \/ g # cur)
  /\ UNCHANGED <<cr, cleaned, bound, cur, queued, pc, copy, data, retry, failed>>

\* Mutant: the resource is written without its version, so without conflicts.
TakeSelfMutant(g) ==
  /\ pc[g] = "apply" /\ Self \in todo[g]
  /\ todo' = [todo EXCEPT ![g] = @ \ {Self}]
  /\ copy' = [copy EXCEPT ![g].status = TRUE, ![g].current = TRUE]
  /\ UNCHANGED <<world, bound, cur, queued, pc, data, retry, failed, inflight, late>>
\* The output of the same kind replaces cr, in the version that was marshalled.
TakeSelf(g) ==
  /\ pc[g] = "apply" /\ Self \in todo[g]
  /\ todo' = [todo EXCEPT ![g] = @ \ {Self}]
  /\ copy' = [copy EXCEPT ![g] = [copy[g] EXCEPT !.status = TRUE, !.current = @ /\ data[g].current]]
  /\ UNCHANGED <<world, bound, cur, queued, pc, data, retry, failed, inflight, late>>

OutputsDone(g) ==
  /\ todo[g] = {}
  /\ Goto(g, "apply", "status")
  /\ UNCHANGED <<world, bound, cur, queued, copy, data, todo, retry, failed, inflight, late>>

(***************************************************************************)
(* The status update, with which every Reconcile ends that did not delete  *)
(***************************************************************************)
\* The version of the copy is not that of the API server: an error.
StatusConflict(g) ==
  /\ Goto(g, "status", "idle")
  /\ ~copy[g].current
  /\ queued' = [queued EXCEPT ![g] = TRUE]
  /\ UNCHANGED <<world, bound, cur, copy, data, todo, retry, failed, inflight, late>>

\* Mutant: RequeueAfter gets lost.
UpdateStatusMutant(g) ==
  /\ Goto(g, "status", "idle")
  /\ MayCall(g) /\ copy[g].current
  /\ IF copy[g].status # cr.status
     THEN PutBy(g, [cr EXCEPT !.status = copy[g].status])
     ELSE UNCHANGED <<cr, queued, copy, data>>
  /\ Landed(g)
  /\ UNCHANGED <<applied, cleaned, bound, cur, todo, retry, failed, late>>
\* An update that changes nothing is no event.  Done, even if the pipeline failed.
UpdateStatus(g) ==
  /\ Goto(g, "status", "idle")
  /\ MayCall(g) /\ copy[g].current
  /\ IF copy[g].status # cr.status
     THEN PutBy(g, [cr EXCEPT !.status = copy[g].status])
     ELSE queued' = [queued EXCEPT ![g] = @ \/ retry[g]] /\ UNCHANGED <<cr, copy, data>>
  /\ Landed(g)
  /\ UNCHANGED <<applied, cleaned, bound, cur, todo, retry, failed, late>>

(***************************************************************************)
(* What goes wrong: the status is updated, and the queue calls again       *)
(***************************************************************************)
Retry(g) ==
  /\ pc' = [pc EXCEPT ![g] = "status"]
  /\ retry' = [retry EXCEPT ![g] = TRUE]
  /\ UNCHANGED <<world, userOps, cur, queued, copy, data, todo, failed, inflight, late>>

Updating(g) == (pc[g] = "finalizer" /\ NeedsFinalizer(g)) \/ pc[g] = "remove"
Calling(g)  == Updating(g) \/ (pc[g] = "apply" /\ todo[g] \ {Self} # {})

\* An update whose version is out of date is refused.
Conflict(g) ==
  /\ Updating(g) /\ ~copy[g].current
  /\ Retry(g)
  /\ UNCHANGED failures

\* The context is done, or the API server does not answer.
CallFails(g) ==
  /\ Calling(g)
  /\ \/ g # cur /\ UNCHANGED failures
     \/ failures < MaxFailures /\ failures' = failures + 1
  /\ Retry(g)

\* The clients of the proxy cannot be made.
ClientsFail(g) ==
  /\ pc[g] = "clients"
  /\ failures < MaxFailures /\ failures' = failures + 1
  /\ Retry(g)

StatusFails(g) ==
  /\ Goto(g, "status", "idle")
  /\ \/ g # cur /\ UNCHANGED failures
     \/ failures < MaxFailures /\ failures' = failures + 1
  /\ queued' = [queued EXCEPT ![g] = TRUE]
  /\ UNCHANGED <<world, userOps, cur, copy, data, todo, retry, failed, inflight, late>>

(***************************************************************************)
(* The function controller: Replace, or a process that starts again        *)
(***************************************************************************)
\* The next controller lists the resource; what the last one sent may land.
NextController ==
  /\ cur < MaxGen
  /\ cur' = cur + 1
  /\ queued' = [queued EXCEPT ![cur] = FALSE, ![cur + 1] = cr.exists]
  /\ inflight' = [inflight EXCEPT ![cur] = pc[cur] # "idle"]
  /\ UNCHANGED <<world, bound, pc, copy, data, todo, retry, failed, late>>

Reconcile(g) ==
  \/ Begin(g) \/ AddFinalizer(g) \/ GetFnClients(g)
  \/ RunDelete(g) \/ RemoveFinalizer(g)
  \/ RunApply(g) \/ Apply(g) \/ TakeSelf(g) \/ OutputsDone(g)
  \/ StatusConflict(g) \/ UpdateStatus(g) \/ Conflict(g)

Fail(g) == CallFails(g) \/ ClientsFail(g) \/ StatusFails(g)

Next ==
  \/ UserCreates \/ UserEdits \/ UserDeletes
  \/ \E g \in Gen : Reconcile(g) \/ Fail(g)
  \/ NextController

Spec == Init /\ [][Next]_vars

\* The workers of the controller run, and calls that do not fail return.
FairSpec == Spec /\ WF_vars(Reconcile(cur))

(***************************************************************************)
(* Properties                                                              *)
(***************************************************************************)
\* An output is applied only while the resource is there with the finalizer and
\* the delete pipeline is still to run, so that what is applied is cleaned up;
\* but for the one call that a cancelled controller may have had on its way.
AppliedUnderFinalizer ==
  [][applied' # applied /\ ~(cr.exists /\ cr.fin /\ ~cleaned)
       => \E g \in Gen \ {cur} : inflight[g] /\ ~inflight'[g]]_vars

\* When the queue is empty and nothing is under way the resource is not one
\* that is being deleted, and it has the outputs and the status of its spec,
\* whatever calls failed and whichever controller was replaced; a pipeline that
\* failed is not tried again, though, and an output that a cancelled controller
\* applied late stays until there is another event.
Settled ==
  pc[cur] = "idle" /\ ~queued[cur] /\ cr.exists /\ ~failed[cur] /\ ~late =>
    /\ ~cr.deleting
    /\ \A o \in Output : applied[o] = cr.spec
    /\ cr.status

\* A Reconcile of the current controller past the question of the finalizer.
UnderWay ==
  \/ pc[cur] = "finalizer" /\ copy[cur].fin
  \/ pc[cur] \in {"clients", "delete", "remove", "run", "apply"}

\* Where a controller is tells what its copy says.
WorkFacts ==
  \A g \in Gen :
    /\ g > cur => pc[g] = "idle"
    /\ pc[g] \in {"run", "apply"} => ~copy[g].deleting
    /\ pc[g] \in {"delete", "remove"} => copy[g].deleting

\* A Reconcile under way has the resource with the finalizer before it unless it
\* is there to clean up, whoever else still removes a finalizer: who has a
\* current copy of a resource that is being deleted got it before this one began.
FinalizerFacts ==
  /\ cr.deleting => cr.fin
  /\ cr.exists /\ cleaned => cr.deleting
  /\ UnderWay /\ ~copy[cur].deleting =>
       /\ cr.exists /\ cr.fin /\ ~cleaned
       /\ \A g \in Gen : ~(copy[g].current /\ copy[g].deleting)

\* A Reconcile that nothing was queued behind works on the resource as it is,
\* and what it has to do and has not done is still in its hands.
PendingFacts ==
  ~queued[cur] /\ cr.exists /\ ~late =>
    /\ pc[cur] \notin {"idle", "status"} =>
         data[cur].spec = cr.spec /\ copy[cur].deleting = cr.deleting
    /\ pc[cur] = "apply" /\ ~failed[cur] =>
         /\ \A o \in Output \ todo[cur] : applied[o] = cr.spec
         /\ Self \notin todo[cur] => copy[cur].status
    /\ pc[cur] = "status" /\ ~failed[cur] /\ ~retry[cur] =>
         /\ ~cr.deleting
         /\ \A o \in Output : applied[o] = cr.spec
         /\ copy[cur].status

\* The inductive invariant.
IInv == TypeOK /\ WorkFacts /\ FinalizerFacts /\ PendingFacts /\ Settled

\* A resource that is deleted goes, whatever calls failed and whichever
\* controller was replaced meanwhile.
Released == cr.deleting ~> ~cr.exists

\* A resource gets all its outputs, and its status although the first status
\* update carries the version from before the finalizer, unless it is deleted
\* or its pipeline fails; an output applied late may be in the way until there
\* is another event.
Converges ==
  cr.exists ~> \/ cr.deleting \/ ~cr.exists
               \/ failed[cur] \/ late
               \/ (\A o \in Output : applied[o] = cr.spec) /\ cr.status

=============================================================================

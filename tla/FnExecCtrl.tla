----------------------------- MODULE FnExecCtrl -----------------------------
(***************************************************************************)
(* One executor controller (fnexeccontroller): the Start that Reconcile    *)
(* calls, the two goroutines it leaves behind, one for the cache and one   *)
(* for the controller, and the Stop that Reconcile calls later.  The field *)
(* cancel is read and written by all three without a lock.  The manager    *)
(* that is elected and controller-runtime are external.                    *)
(***************************************************************************)
CONSTANTS
  Routine, \* the goroutines Start leaves behind: cache and controller
  Faults   \* "make": Start fails; "run": what a goroutine runs fails

ASSUME RoutineAssumption == Routine # {}
ASSUME FaultsAssumption  == Faults \subseteq {"make", "run"}

VARIABLES
  elected,  \* the channel of r.mgr.Elected() is closed
  starter,  \* Start: "new", "making", "launching", "failed", "started"
  stopper,  \* Stop: "idle", "checked", "called", "done"
  pc,       \* pc[r]: the goroutine r
  field,    \* the field cancel is not nil
  ctxDone,  \* the context Start made is cancelled
  panicked  \* a goroutine called the nil field

vars == <<elected, starter, stopper, pc, field, ctxDone, panicked>>

TypeOK ==
  /\ elected \in BOOLEAN
  /\ starter \in {"new", "making", "launching", "failed", "started"}
  /\ stopper \in {"idle", "checked", "called", "done"}
  /\ pc \in [Routine -> {"off", "elect", "run", "check", "call", "ended"}]
  /\ field \in BOOLEAN /\ ctxDone \in BOOLEAN /\ panicked \in BOOLEAN

Init ==
  /\ elected \in BOOLEAN
  /\ starter = "new" /\ stopper = "idle"
  /\ pc = [r \in Routine |-> "off"]
  /\ field = FALSE /\ ctxDone = FALSE /\ panicked = FALSE

(***************************************************************************)
(* Start                                                                   *)
(***************************************************************************)
\* The context and r.cancel come first.
MakeContext ==
  /\ starter = "new" /\ starter' = "making"
  /\ field' = TRUE
  /\ UNCHANGED <<elected, stopper, pc, ctxDone, panicked>>

\* The cache, the controller and its watches.
MakeWatches ==
  /\ starter = "making"
  /\ \/ starter' = "launching"
     \/ "make" \in Faults /\ starter' = "failed"
  /\ UNCHANGED <<elected, stopper, pc, field, ctxDone, panicked>>

Launch(r) ==
  /\ starter = "launching" /\ pc[r] = "off"
  /\ pc' = [pc EXCEPT ![r] = "elect"]
  /\ UNCHANGED <<elected, starter, stopper, field, ctxDone, panicked>>

Launched ==
  /\ starter = "launching" /\ \A r \in Routine : pc[r] # "off"
  /\ starter' = "started"
  /\ UNCHANGED <<elected, stopper, pc, field, ctxDone, panicked>>

(***************************************************************************)
(* The goroutines                                                          *)
(***************************************************************************)
Goto(r, from, to) == pc[r] = from /\ pc' = [pc EXCEPT ![r] = to]

Elect(r) ==
  /\ elected
  /\ Goto(r, "elect", "run")
  /\ UNCHANGED <<elected, starter, stopper, field, ctxDone, panicked>>

\* cache.Start and ctrl.Start return when the context is done, or fail.
RunReturns(r) ==
  /\ ctxDone \/ "run" \in Faults
  /\ Goto(r, "run", "check")
  /\ UNCHANGED <<elected, starter, stopper, field, ctxDone, panicked>>

\* if r.cancel != nil
Check(r) ==
  /\ Goto(r, "check", IF field THEN "call" ELSE "ended")
  /\ UNCHANGED <<elected, starter, stopper, field, ctxDone, panicked>>

\* Mutant: a goroutine that ends leaves the other one alone.
CallMutant(r) ==
  /\ Goto(r, "call", "ended")
  /\ UNCHANGED <<elected, starter, stopper, field, ctxDone, panicked>>

\* r.cancel(), which reads the field again
Call(r) ==
  /\ Goto(r, "call", "ended")
  /\ IF field THEN ctxDone' = TRUE /\ UNCHANGED panicked
              ELSE panicked' = TRUE /\ UNCHANGED ctxDone
  /\ UNCHANGED <<elected, starter, stopper, field>>

(***************************************************************************)
(* Stop, which Reconcile calls after Start returned; the parent context    *)
(***************************************************************************)
StopChecks ==
  /\ starter \in {"failed", "started"} /\ stopper = "idle"
  /\ stopper' = IF field THEN "checked" ELSE "done"
  /\ UNCHANGED <<elected, starter, pc, field, ctxDone, panicked>>

\* Mutant: the field is cleared and the context left.
StopCancelsMutant ==
  /\ stopper = "checked" /\ stopper' = "called"
  /\ UNCHANGED <<elected, starter, pc, field, ctxDone, panicked>>

StopCancels ==
  /\ stopper = "checked" /\ stopper' = "called"
  /\ ctxDone' = TRUE
  /\ UNCHANGED <<elected, starter, pc, field, panicked>>

StopForgets ==
  /\ stopper = "called" /\ stopper' = "done"
  /\ field' = FALSE
  /\ UNCHANGED <<elected, starter, pc, ctxDone, panicked>>

ParentCancelled ==
  /\ starter # "new" /\ ~ctxDone
  /\ ctxDone' = TRUE
  /\ UNCHANGED <<elected, starter, stopper, pc, field, panicked>>

ManagerElected ==
  /\ ~elected /\ elected' = TRUE
  /\ UNCHANGED <<starter, stopper, pc, field, ctxDone, panicked>>

Goroutine(r) == Elect(r) \/ RunReturns(r) \/ Check(r) \/ Call(r)
Starter      == MakeContext \/ MakeWatches \/ (\E r \in Routine : Launch(r))
                \/ Launched
Stopper      == StopChecks \/ StopCancels \/ StopForgets

Next ==
  /\ ~panicked
  /\ \/ Starter \/ Stopper \/ ParentCancelled \/ ManagerElected
     \/ \E r \in Routine : Goroutine(r)

Spec == Init /\ [][Next]_vars

(***************************************************************************)
(* Properties                                                              *)
(***************************************************************************)
\* The field is cleared on a cancelled context only: what lives can be stopped.
StopIsLast == starter # "new" /\ ~field => ctxDone

\* The inductive invariant: what each step of the three has done before.
IInv ==
  /\ TypeOK
  /\ StopIsLast
  /\ starter = "new" => ~field
  /\ starter \in {"new", "making", "failed"} => \A r \in Routine : pc[r] = "off"
  /\ stopper # "idle" => starter \in {"failed", "started"}
  /\ stopper \in {"checked", "called"} => field
  /\ stopper = "called" => ctxDone
  /\ starter = "started" => \A r \in Routine : pc[r] # "off"
  /\ field <=> starter # "new" /\ stopper # "done"

\* Start, Stop and the goroutines together are what Reconcile relies on: no
\* goroutine leaves the other one alone with a context that is not cancelled,
\* and what a Stop between check and call can do is a panic after that Stop.
Phase == IF starter \notin {"failed", "started"} THEN "new"
         ELSE IF field THEN "started" ELSE "stopped"
Life  == INSTANCE CtrlLife WITH
           Member    <- Routine,
           phase     <- Phase,
           cancelled <- ctxDone,
           ended     <- {r \in Routine : pc[r] = "ended"},
           down      <- panicked
IsCtrlLife == Life!Spec

=============================================================================

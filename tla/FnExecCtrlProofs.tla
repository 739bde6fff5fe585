-------------------------- MODULE FnExecCtrlProofs --------------------------
(***************************************************************************)
(* For any set of goroutines: the invariant of FnExecCtrl is inductive,    *)
(* and an executor controller lives the life CtrlLife specifies.           *)
(***************************************************************************)
EXTENDS FnExecCtrl, TLAPS

\* The invariant holds before Start.
LEMMA InitInv == Init => IInv
BY DEF Init, IInv, TypeOK, StopIsLast

\* No step of Start, of a goroutine, of Stop or of the environment breaks it.
LEMMA StepInv == IInv /\ [Next]_vars => IInv'
<1> SUFFICES ASSUME IInv, [Next]_vars
             PROVE  IInv'
    OBVIOUS
<1> USE DEF IInv, TypeOK, StopIsLast
<1>1. CASE MakeContext
      BY <1>1 DEF MakeContext
<1>2. CASE MakeWatches
      BY <1>2 DEF MakeWatches
<1>3. ASSUME NEW r \in Routine, Launch(r)
      PROVE  IInv'
      BY <1>3 DEF Launch
<1>4. CASE Launched
      BY <1>4 DEF Launched
<1>5. CASE Stopper
      BY <1>5 DEF Stopper, StopChecks, StopCancels, StopForgets
<1>6. CASE ParentCancelled
      BY <1>6 DEF ParentCancelled
<1>7. CASE ManagerElected
      BY <1>7 DEF ManagerElected
<1>8. ASSUME NEW r \in Routine, Goroutine(r)
      PROVE  IInv'
  <2>1. CASE Elect(r)
        BY <1>8, <2>1 DEF Elect, Goto
  <2>2. CASE RunReturns(r)
        BY <1>8, <2>2 DEF RunReturns, Goto
  <2>3. CASE Check(r)
        BY <1>8, <2>3 DEF Check, Goto
  <2>4. CASE Call(r)
        BY <1>8, <2>4 DEF Call, Goto
  <2> QED BY <1>8, <2>1, <2>2, <2>3, <2>4 DEF Goroutine
<1>9. CASE UNCHANGED vars
      BY <1>9 DEF vars
<1> QED BY <1>1, <1>2, <1>3, <1>4, <1>5, <1>6, <1>7, <1>8, <1>9
        DEF Next, Starter

\* In every reachable state the field is cleared on a cancelled context only,
\* and each of Start, Stop and the goroutines finds what it relies on.
THEOREM Inductive == Spec => []IInv
BY InitInv, StepInv, PTL DEF Spec

\* What a Reconcile sees of the controller.
Seen  == {r \in Routine : pc[r] = "ended"}
lvars == <<Phase, ctxDone, Seen, panicked>>

\* A goroutine ends on a cancelled context, and calls the nil field after a
\* Stop only: that is what its steps are to Reconcile.
LEMMA GoroutineLives ==
  ASSUME IInv, NEW r \in Routine, Goroutine(r)
  PROVE  Life!Next \/ UNCHANGED lvars
<1> USE DEF Goto, TypeOK, Phase, Seen, lvars
<1>0. TypeOK /\ (starter # "new" /\ ~field => ctxDone)
      BY DEF IInv, StopIsLast
<1>1. starter \in {"launching", "started"}
      BY DEF Goroutine, Elect, RunReturns, Check, Call, IInv
<1>2. ~field => Phase = "stopped" /\ ctxDone
      BY <1>1 DEF IInv, StopIsLast
<1>3. CASE Elect(r) \/ RunReturns(r) \/ (Check(r) /\ field)
      BY <1>0, <1>3 DEF Elect, RunReturns, Check
<1>4. CASE Call(r) \/ (Check(r) /\ ~field)
  <2>1. r \notin Seen /\ Seen' = Seen \cup {r}
        BY <1>0, <1>4 DEF Check, Call
  <2>2. ctxDone' /\ Phase' = Phase
        BY <1>0, <1>2, <1>4 DEF Check, Call
  <2>3. panicked' # panicked => Phase = "stopped"
        BY <1>0, <1>2, <1>4 DEF Check, Call
  <2> QED BY <2>1, <2>2, <2>3 DEF Life!Next, Life!End
<1> QED BY <1>3, <1>4 DEF Goroutine

\* Start, Stop and the two goroutines, interleaved in any way and ending for
\* any reason, are a controller as Reconcile sees it.
THEOREM Implements == Spec => IsCtrlLife
<1>1. Init => Life!Init
      BY DEF Init, Life!Init, Phase
<1>2. IInv /\ [Next]_vars => Life!Next \/ UNCHANGED lvars
  <2> SUFFICES ASSUME IInv, [Next]_vars
               PROVE  Life!Next \/ UNCHANGED lvars
      OBVIOUS
  <2> USE DEF IInv, TypeOK, StopIsLast, Phase, Seen, lvars
  <2>1. CASE MakeContext \/ ManagerElected
        BY <2>1 DEF MakeContext, ManagerElected
  <2>2. CASE MakeWatches \/ Launched
        BY <2>2 DEF MakeWatches, Launched, Life!Next, Life!Start
  <2>3. ASSUME NEW r \in Routine, Launch(r)
        PROVE  UNCHANGED lvars
        BY <2>3 DEF Launch
  <2>4. CASE StopChecks
        BY <2>4 DEF StopChecks
  <2>5. CASE StopCancels \/ ParentCancelled
        BY <2>5 DEF StopCancels, ParentCancelled, Life!Next, Life!Cancel
  <2>6. CASE StopForgets
        BY <2>6 DEF StopForgets, Life!Next, Life!Stop
  <2>7. ASSUME NEW r \in Routine, Goroutine(r)
        PROVE  Life!Next \/ UNCHANGED lvars
        BY <2>7, GoroutineLives
  <2>8. CASE UNCHANGED vars
        BY <2>8 DEF vars
  <2> QED BY <2>1, <2>2, <2>3, <2>4, <2>5, <2>6, <2>7, <2>8
          DEF Next, Starter, Stopper
<1> QED BY <1>1, <1>2, Inductive, PTL
        DEF Spec, IsCtrlLife, Life!Spec, lvars, Seen

=============================================================================

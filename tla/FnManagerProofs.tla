-------------------------- MODULE FnManagerProofs --------------------------
(***************************************************************************)
(* The executor controller keeps in the process what is proved of it by    *)
(* itself, and executor controllers of two processes meet only when one of *)
(* the processes is about to end.                                          *)
(***************************************************************************)
EXTENDS FnManager, FnExecCtrlProofs

\* Before New nothing runs.
LEMMA ProcessInitInv == MInit => ProcessInv
BY DEF MInit, Init, ProcessInv, MTypeOK, TypeOK, Part

\* The steps of the process that leave the executor controller alone.
LEMMA ProcessStepInv ==
  ASSUME ProcessInv, UNCHANGED vars,
         \/ Alive /\ \/ NewFails \/ New \/ Signal \/ Done \/ LoseLease
                     \/ \E p \in Part : StartPart(p) \/ ReceiveError(p)
                                       \/ PartFails(p) \/ PartReturns(p)
         \/ LeaseExpires \/ OthersAcquire \/ OthersLose
  PROVE  ProcessInv'
<1> USE DEF ProcessInv, MTypeOK, TypeOK, vars, process, Alive, Part
<1>1. CASE NewFails \/ New \/ Signal \/ Done
  <2>1. CASE NewFails
        BY <2>1 DEF NewFails
  <2>2. CASE New
        BY <2>2 DEF New
  <2>3. CASE Signal
        BY <2>3 DEF Signal
  <2>4. CASE Done
        BY <2>4 DEF Done
  <2> QED BY <1>1, <2>1, <2>2, <2>3, <2>4
<1>2. CASE Alive /\ LoseLease
      BY <1>2 DEF LoseLease
<1>3. ASSUME NEW p \in Part, StartPart(p) \/ ReceiveError(p)
      PROVE  ProcessInv'
      BY <1>3 DEF StartPart, ReceiveError
<1>4. ASSUME NEW p \in Part, PartFails(p) \/ PartReturns(p)
      PROVE  ProcessInv'
      BY <1>4 DEF PartFails, PartReturns
<1>5. CASE LeaseExpires \/ OthersAcquire \/ OthersLose
      BY <1>5 DEF LeaseExpires, OthersAcquire, OthersLose
<1> QED BY <1>1, <1>2, <1>3, <1>4, <1>5

\* The steps of the executor controller, which keep its own invariant.
LEMMA ControllerStepInv ==
  ASSUME ProcessInv, TypeOK', UNCHANGED <<process, lease>>,
         \/ CallStart \/ CallStop \/ ContextDone
         \/ \E r \in Routine : Run(r)
  PROVE  ProcessInv'
<1> USE DEF ProcessInv, MTypeOK, process, Alive, Part
<1>1. UNCHANGED elected
  <2>1. CASE CallStart
        BY <2>1 DEF CallStart, Starter, MakeContext, MakeWatches, Launch, Launched
  <2>2. CASE CallStop
        BY <2>2 DEF CallStop, Stopper, StopChecks, StopCancels, StopForgets
  <2>3. CASE ContextDone
        BY <2>3 DEF ContextDone, ParentCancelled
  <2>4. ASSUME NEW r \in Routine, Run(r)
        PROVE  UNCHANGED elected
        BY <2>4 DEF Run, Goroutine, Elect, RunReturns, Check, Call
  <2> QED BY <2>1, <2>2, <2>3, <2>4
<1>2. part["functions"] = "off" => UNCHANGED starter
  <2>1. CASE CallStart \/ CallStop
        BY <2>1 DEF CallStart, CallStop
  <2>2. CASE ContextDone
        BY <2>2 DEF ContextDone, ParentCancelled
  <2>3. ASSUME NEW r \in Routine, Run(r)
        PROVE  UNCHANGED starter
        BY <2>3 DEF Run, Goroutine, Elect, RunReturns, Check, Call
  <2> QED BY <2>1, <2>2, <2>3
<1>3. panicked => panicked'
  <2>1. CASE CallStart
        BY <2>1 DEF CallStart, Starter, MakeContext, MakeWatches, Launch, Launched
  <2>2. CASE CallStop
        BY <2>2 DEF CallStop, Stopper, StopChecks, StopCancels, StopForgets
  <2>3. CASE ContextDone
        BY <2>3 DEF ContextDone, ParentCancelled
  <2>4. ASSUME NEW r \in Routine, Run(r)
        PROVE  panicked => panicked'
        BY <2>4 DEF Run, Goroutine, Elect, RunReturns, Check, Call
  <2> QED BY <2>1, <2>2, <2>3, <2>4
<1>4. ~elected => \A r \in Routine : pc'[r] \in {"off", "elect"}
  <2> SUFFICES ASSUME ~elected
               PROVE  \A r \in Routine : pc'[r] \in {"off", "elect"}
      OBVIOUS
  <2> USE DEF TypeOK
  <2>1. CASE CallStart
        BY <2>1 DEF CallStart, Starter, MakeContext, MakeWatches, Launch, Launched
  <2>2. CASE CallStop
        BY <2>2 DEF CallStop, Stopper, StopChecks, StopCancels, StopForgets
  <2>3. CASE ContextDone
        BY <2>3 DEF ContextDone, ParentCancelled
  <2>4. ASSUME NEW r \in Routine, Run(r)
        PROVE  \A s \in Routine : pc'[s] \in {"off", "elect"}
        BY <2>4 DEF Run, Goroutine, Elect, RunReturns, Check, Call, Goto
  <2> QED BY <2>1, <2>2, <2>3, <2>4
<1> QED BY <1>1, <1>2, <1>3, <1>4

\* A step of the process is a step of the executor controller or none of its.
LEMMA Composition == [MNext]_mvars => [Next]_vars
<1> SUFFICES ASSUME [MNext]_mvars
             PROVE  [Next]_vars
    OBVIOUS
<1>1. CASE UNCHANGED mvars
      BY <1>1 DEF mvars
<1>2. CASE Alive /\ (NewFails \/ New \/ Signal \/ Done \/ LoseLease)
      BY <1>2 DEF NewFails, New, Signal, Done, LoseLease
<1>3. ASSUME NEW p \in Part,
             StartPart(p) \/ ReceiveError(p) \/ PartFails(p) \/ PartReturns(p)
      PROVE  UNCHANGED vars
      BY <1>3 DEF StartPart, ReceiveError, PartFails, PartReturns
<1>4. CASE LeaseExpires \/ OthersAcquire \/ OthersLose
      BY <1>4 DEF LeaseExpires, OthersAcquire, OthersLose
<1>5. CASE Alive /\ (Acquire \/ CallStart \/ CallStop \/ ContextDone
                     \/ \E r \in Routine : Run(r))
      BY <1>5 DEF Alive, Acquire, CallStart, CallStop, ContextDone, Run, Next
<1> QED BY <1>1, <1>2, <1>3, <1>4, <1>5 DEF MNext

\* The executor controller of the process behaves as the one by itself.
THEOREM Composes == MSpec => Spec
<1>1. MInit => Init
      BY DEF MInit
<1> QED BY <1>1, Composition, PTL DEF MSpec, Spec

\* So it is what Reconcile relies on, whatever the process around it does.
THEOREM LivesInProcess == MSpec => IsCtrlLife
BY Composes, Implements, PTL

\* In every reachable state of the process: who waits, holds the lease or has
\* been started is who may.
THEOREM MInductive == MSpec => []MInv
<1>1. ProcessInv /\ IInv /\ IInv' /\ [MNext]_mvars => ProcessInv'
  <2> SUFFICES ASSUME ProcessInv, IInv', [MNext]_mvars
               PROVE  ProcessInv'
      OBVIOUS
  <2>1. CASE UNCHANGED mvars
        BY <2>1 DEF mvars, vars, process, ProcessInv, MTypeOK, TypeOK, Alive
  <2>2. CASE Alive /\ (NewFails \/ New \/ Signal \/ Done \/ LoseLease)
        BY <2>2, ProcessStepInv DEF NewFails, New, Signal, Done, LoseLease
  <2>3. ASSUME NEW p \in Part, Alive,
               StartPart(p) \/ ReceiveError(p) \/ PartFails(p) \/ PartReturns(p)
        PROVE  ProcessInv'
        BY <2>3, ProcessStepInv DEF StartPart, ReceiveError, PartFails, PartReturns
  <2>4. CASE LeaseExpires \/ OthersAcquire \/ OthersLose
        BY <2>4, ProcessStepInv DEF LeaseExpires, OthersAcquire, OthersLose
  <2>5. CASE Acquire
        BY <2>5 DEF Acquire, ManagerElected, ProcessInv, MTypeOK, TypeOK, process, Alive, Part
  <2>6. CASE CallStart \/ CallStop \/ ContextDone \/ \E r \in Routine : Run(r)
        BY <2>6, ControllerStepInv
           DEF CallStart, CallStop, ContextDone, Run, IInv
  <2> QED BY <2>1, <2>2, <2>3, <2>4, <2>5, <2>6 DEF MNext
<1>2. IInv /\ ProcessInv => MInv
      BY DEF MInv
<1> QED BY ProcessInitInv, <1>1, <1>2, Composes, Inductive, PTL DEF MSpec

\* With leader election, an executor controller serves beside that of another
\* process only when its own manager has ended.
THEOREM OneServesAtATime == MSpec => []OneServes
<1>1. MInv => OneServes
  <2> SUFFICES ASSUME ProcessInv, LeaderElection, Serving, lease # "ours"
               PROVE  part["manager"] \in {"sending", "returned"}
      BY DEF OneServes, MInv
  <2>1. elected
        BY DEF ProcessInv, Serving
  <2>2. part["manager"] \in {"off", "running", "sending", "returned"}
        BY DEF ProcessInv, MTypeOK, Part
  <2> QED BY <2>1, <2>2 DEF ProcessInv, Serving
<1> QED BY <1>1, MInductive, PTL

=============================================================================

----------------------------- MODULE FnManager -----------------------------
(***************************************************************************)
(* One process of fnruntime: main and the Start of the fn manager, its     *)
(* three parts (proxy, function controllers, controller manager), and one  *)
(* executor controller, which the function controllers start and stop and  *)
(* which waits for the election of the controller manager.  FnExecCtrl is  *)
(* composed with them; other processes are seen through the lease only.    *)
(***************************************************************************)
EXTENDS FnExecCtrl

CONSTANTS
  LeaderElection, \* the flag leader-elect
  PartFaults      \* the parts that may fail by themselves

Part == {"proxy", "functions", "manager"}

ASSUME LeaderElectionAssumption == LeaderElection \in BOOLEAN
ASSUME PartFaultsAssumption == PartFaults \subseteq {"proxy", "manager"}

VARIABLES
  main,    \* "new", "running", and "exit0", "exit1" when the process is gone
  stopped, \* the context of main is cancelled: a signal came
  part,    \* part[p]: "off", "running", "sending" (an error), "returned"
  lease    \* the lease is "free", "ours" or "theirs"

process == <<main, stopped, part>>
mvars   == <<vars, process, lease>>

MTypeOK ==
  /\ TypeOK
  /\ main \in {"new", "running", "exit0", "exit1"}
  /\ stopped \in BOOLEAN
  /\ part \in [Part -> {"off", "running", "sending", "returned"}]
  /\ lease \in {"free", "ours", "theirs"}

MInit ==
  /\ Init /\ ~elected
  /\ main = "new" /\ stopped = FALSE
  /\ part = [p \in Part |-> "off"]
  /\ lease \in {"free", "theirs"}

Alive == main \in {"new", "running"} /\ ~panicked

(***************************************************************************)
(* main and fnmgr.Start                                                    *)
(***************************************************************************)
\* No configuration map, no id, no manager: New fails and main exits.
NewFails ==
  /\ main = "new" /\ main' = "exit1"
  /\ UNCHANGED <<vars, stopped, part, lease>>

New ==
  /\ main = "new" /\ main' = "running"
  /\ UNCHANGED <<vars, stopped, part, lease>>

StartPart(p) ==
  /\ main = "running" /\ part[p] = "off"
  /\ part' = [part EXCEPT ![p] = "running"]
  /\ UNCHANGED <<vars, main, stopped, lease>>

Signal ==
  /\ ~stopped /\ stopped' = TRUE
  /\ UNCHANGED <<vars, main, part, lease>>

\* The channel has no buffer: the first error is taken and ends the process.
ReceiveError(p) ==
  /\ main = "running" /\ part[p] = "sending"
  /\ part' = [part EXCEPT ![p] = "returned"]
  /\ main' = "exit1"
  /\ UNCHANGED <<vars, stopped, lease>>

\* Mutant: main waits for its parts.
DoneMutant ==
  /\ main = "running" /\ stopped
  /\ \A p \in Part : part[p] = "returned"
  /\ main' = "exit0"
  /\ UNCHANGED <<vars, stopped, part, lease>>

\* Start does not wait for its parts, and what they do ends with the process.
Done ==
  /\ main = "running" /\ stopped
  /\ main' = "exit0"
  /\ UNCHANGED <<vars, stopped, part, lease>>

(***************************************************************************)
(* The parts                                                               *)
(***************************************************************************)
\* Listen or Serve fails; the manager's cache, health server or webhook fails.
PartFails(p) ==
  /\ p \in PartFaults /\ part[p] = "running"
  /\ part' = [part EXCEPT ![p] = "sending"]
  /\ UNCHANGED <<vars, main, stopped, lease>>

\* The context is done: no error.  The proxy goes on serving.
PartReturns(p) ==
  /\ stopped /\ p # "proxy" /\ part[p] = "running"
  /\ part' = [part EXCEPT ![p] = "returned"]
  /\ UNCHANGED <<vars, main, stopped, lease>>

\* Mutant: Elected() is open from the start, whoever has the lease.
AcquireMutant ==
  /\ part["manager"] = "running"
  /\ ManagerElected
  /\ UNCHANGED <<process, lease>>

\* Elected() is closed when the manager has the lease, or needs none.
Acquire ==
  /\ part["manager"] = "running"
  /\ LeaderElection => lease = "free"
  /\ ManagerElected
  /\ lease' = IF LeaderElection THEN "ours" ELSE lease
  /\ UNCHANGED process

\* A lease that cannot be renewed is an error of the manager; others get it
\* after that.  Elected() stays closed, and the executor controller runs on.
LoseLease ==
  /\ lease = "ours" /\ part["manager"] = "running"
  /\ lease' = "free"
  /\ part' = [part EXCEPT !["manager"] = "sending"]
  /\ UNCHANGED <<vars, main, stopped>>

\* The lease of a manager that is not running any more expires.
LeaseExpires ==
  /\ lease = "ours"
  /\ part["manager"] # "running" \/ ~Alive
  /\ lease' = "free"
  /\ UNCHANGED <<vars, process>>

OthersAcquire ==
  /\ LeaderElection /\ lease = "free" /\ lease' = "theirs"
  /\ UNCHANGED <<vars, process>>

OthersLose ==
  /\ lease = "theirs" /\ lease' = "free"
  /\ UNCHANGED <<vars, process>>

(***************************************************************************)
(* The executor controller in the process                                  *)
(***************************************************************************)
\* The goroutine of a function controller does not end when its part returns.
CallStart == part["functions"] # "off" /\ Starter /\ UNCHANGED <<process, lease>>
CallStop  == part["functions"] # "off" /\ Stopper /\ UNCHANGED <<process, lease>>

Run(r) == Goroutine(r) /\ UNCHANGED <<process, lease>>

\* Its context is made from that of main, not from that of the manager.
ContextDone == stopped /\ ParentCancelled /\ UNCHANGED <<process, lease>>

\* What need not happen: that Stop is called, or that the cache or the
\* controller fails.
StopGoesOn == (StopCancels \/ StopForgets) /\ UNCHANGED <<process, lease>>
GoesOn(r)  == /\ Elect(r) \/ (ctxDone /\ RunReturns(r)) \/ Check(r) \/ Call(r)
              /\ UNCHANGED <<process, lease>>

MNext ==
  \/ /\ Alive
     /\ \/ NewFails \/ New \/ Signal \/ Done
        \/ \E p \in Part : StartPart(p) \/ ReceiveError(p) \/ PartFails(p) \/ PartReturns(p)
        \/ Acquire \/ LoseLease
        \/ CallStart \/ CallStop \/ ContextDone
        \/ \E r \in Routine : Run(r)
  \/ LeaseExpires \/ OthersAcquire \/ OthersLose

MSpec == MInit /\ [][MNext]_mvars

(***************************************************************************)
(* Fairness: goroutines are scheduled, contexts reach those made from      *)
(* them, and what runs on a cancelled context returns.  Nobody has to      *)
(* stop the executor controller or the process, nothing has to fail, and   *)
(* the lease may never be ours.                                            *)
(***************************************************************************)
MFairSpec ==
  /\ MSpec
  /\ WF_mvars(Alive /\ (New \/ NewFails))
  /\ WF_mvars(Alive /\ (Done \/ \E p \in Part : ReceiveError(p)))
  /\ WF_mvars(Alive /\ \E p \in Part : StartPart(p))
  /\ WF_mvars(Alive /\ CallStart)
  /\ WF_mvars(Alive /\ StopGoesOn)
  /\ WF_mvars(Alive /\ ContextDone)
  /\ \A r \in Routine : WF_mvars(Alive /\ GoesOn(r))

(***************************************************************************)
(* Properties                                                              *)
(***************************************************************************)
Gone == main \in {"exit0", "exit1"} \/ panicked

Serving == Alive /\ \E r \in Routine : pc[r] = "run"

\* The parts and the executor controller come after New, the lease is ours
\* before Elected() is closed, and gone only when the manager is.
ProcessInv ==
  /\ MTypeOK
  /\ main = "new" => part = [p \in Part |-> "off"]
  /\ part["functions"] = "off" => starter = "new"
  /\ part["manager"] = "off" => ~elected
  /\ ~elected => \A r \in Routine : pc[r] \in {"off", "elect"}
  /\ lease = "ours" => LeaderElection
  /\ LeaderElection /\ elected /\ Alive /\ part["manager"] = "running" => lease = "ours"

\* The inductive invariant of the process with the executor controller in it.
MInv == IInv /\ ProcessInv

\* The executor controllers of two processes run side by side only in the
\* moment between the loss of the lease and the end of the process.
OneServes ==
  LeaderElection /\ Serving /\ lease # "ours"
    => part["manager"] \in {"sending", "returned"}

\* A part that failed, and the loss of the lease, end the process, whatever
\* the other parts do; so does a signal.  No part waits for ever to be heard.
FailureEndsProcess ==
  stopped \/ (\E p \in Part : part[p] = "sending") ~> Gone

\* A goroutine of the executor controller that ended ends the other one, and
\* so does a Stop, unless the process ends before.
EndTogether ==
  elected /\ starter = "started"
  /\ (stopper = "called" \/ \E r \in Routine : pc[r] = "ended")
  ~> Gone \/ \A r \in Routine : pc[r] = "ended"

=============================================================================

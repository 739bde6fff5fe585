------------------------------ MODULE CtrlLife ------------------------------
(***************************************************************************)
(* What rec.Reconcile relies on in a controller it starts and stops, one   *)
(* whose Start leaves goroutines behind: it is started and stopped once,   *)
(* in this order; its goroutines end together, none before the context     *)
(* they share is cancelled, which Stop does before it returns; and the     *)
(* process may go down with one of them after a Stop only.                 *)
(***************************************************************************)
CONSTANT Member \* the goroutines

VARIABLES
  phase,     \* "new", "started" when Start has returned, with or without an
             \* error (IsRunning), "stopped" when Stop has
  cancelled, \* the context of the goroutines is
  ended,     \* the goroutines that have ended
  down       \* a goroutine of the process panicked

Init == phase = "new" /\ ~cancelled /\ ended = {} /\ ~down

Start ==
  /\ phase = "new" /\ phase' = "started"
  /\ UNCHANGED <<cancelled, ended, down>>

\* By Stop, by a goroutine that is about to end, or from above.
Cancel ==
  /\ ~cancelled /\ cancelled'
  /\ UNCHANGED <<phase, ended, down>>

End(m) ==
  /\ m \notin ended /\ ended' = ended \cup {m}
  /\ cancelled'
  /\ down' # down => phase = "stopped"
  /\ UNCHANGED phase

Stop ==
  /\ phase = "started" /\ phase' = "stopped"
  /\ cancelled
  /\ UNCHANGED <<cancelled, ended, down>>

\* The process goes down with a goroutine of another controller.
OthersEnd == down' /\ UNCHANGED <<phase, cancelled, ended>>

Next == Start \/ Cancel \/ (\E m \in Member : End(m)) \/ Stop \/ OthersEnd

Spec == Init /\ [][Next]_<<phase, cancelled, ended, down>>

=============================================================================

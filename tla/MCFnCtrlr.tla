------------------------------ MODULE MCFnCtrlr ------------------------------
(* Instances of FnCtrlr for TLC: who does what, and what goes wrong. *)
EXTENDS FnCtrlr

\* Configuration 2 is one the parser rejects.
ValidConfigs == {1, 3}
AllValid     == Config

NoRevert     == {"edit", "delete", "recreate"}
NoRecreate   == {"edit", "delete", "revert"}
EditOnly     == {"edit", "revert"}

AllFaults    ==
  {"api", "lost", "image", "exec", "crash", "restart", "shutdown"}
FiniteFaults == {"api", "lost", "image", "exec"}
CrashOnly    == {"crash"}

=============================================================================

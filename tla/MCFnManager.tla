----------------------------- MODULE MCFnManager -----------------------------
(* An instance of FnManager for TLC. *)
EXTENDS FnManager

CacheAndController == {"cache", "controller"}
AllFaults          == {"make", "run"}
AllPartFaults      == {"proxy", "manager"}

=============================================================================

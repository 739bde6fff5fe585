------------------------------ MODULE MCFnProxy ------------------------------
(* Instances of FnProxy for TLC. *)
EXTENDS FnProxy

CONSTANTS e1, h1, w1

=============================================================================

----------------------------- MODULE MCCliCall -----------------------------
(* Constants of the checked instances of CliCall. *)
EXTENDS CliCall

CONSTANTS c1, c2, c3
=============================================================================

----------------------------- MODULE MCExecution -----------------------------
(* Two users, one with a unit of value and one with none. *)
EXTENDS Execution

CONSTANTS u1, u2

MCFunds == (u1 :> 1) @@ (u2 :> 0)
=============================================================================

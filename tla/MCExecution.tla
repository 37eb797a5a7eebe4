---------------------------- MODULE MCExecution ----------------------------
(* An instance of Execution for TLC. *)
EXTENDS Execution

CONSTANTS task, s1, s2
=============================================================================

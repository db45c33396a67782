---------------------------- MODULE MCSocketSetup -----------------------------
(***************************************************************************)
(* Every combination of options and every combination of failures: the     *)
(* state space is finite and needs no bound.                               *)
(***************************************************************************)
EXTENDS SocketSetup
===============================================================================

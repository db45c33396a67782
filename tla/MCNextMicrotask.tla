---------------------------- MODULE MCNextMicrotask ----------------------------
(***************************************************************************)
(* One function, next(), and a budget of twelve runs per macrotask: then   *)
(* requests meet every combination of: handle defined or not, next()       *)
(* running or not, budget left or not, duplex destroyed or not.            *)
(***************************************************************************)
EXTENDS NextMicrotask
================================================================================

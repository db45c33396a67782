------------------------- MODULE MCMicrotaskScheduler -------------------------
(***************************************************************************)
(* Two or three functions, a budget of two calls per macrotask and room    *)
(* for four queue entries: enough for the budget to run out with work      *)
(* waiting, for a function to schedule itself or another while it runs,    *)
(* and for an entry in the middle of the queue to be cancelled.            *)
(***************************************************************************)
EXTENDS MicrotaskScheduler
===============================================================================

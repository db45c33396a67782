---------------------------- MODULE MCNativePoller ----------------------------
(***************************************************************************)
(* The whole state space of one poll handle: nothing needs a bound.        *)
(***************************************************************************)
EXTENDS NativePoller
===============================================================================

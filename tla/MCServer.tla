------------------------------- MODULE MCServer -------------------------------
(***************************************************************************)
(* Five descriptors and six connections, three of which may wait: enough   *)
(* for the table to be full when accept() is called, for a closed number   *)
(* to be handed out again, and for close() to fall between an event and    *)
(* its microtask while another event could follow.                         *)
(***************************************************************************)
EXTENDS Server
===============================================================================

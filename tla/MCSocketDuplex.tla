---------------------------- MODULE MCSocketDuplex ----------------------------
(***************************************************************************)
(* Instances of SocketDuplex for TLC; the bounds are in the cfg files.     *)
(***************************************************************************)
EXTENDS SocketDuplex
===============================================================================

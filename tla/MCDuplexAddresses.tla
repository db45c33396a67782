--------------------------- MODULE MCDuplexAddresses --------------------------
(***************************************************************************)
(* Two addresses on either side and two changes of the kernel's lists,     *)
(* at any point of an update: enough for a list to change its members and  *)
(* keep its length, and for a primary to change between two questions.     *)
(***************************************************************************)
EXTENDS DuplexAddresses
===============================================================================

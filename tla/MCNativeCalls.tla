----------------------------- MODULE MCNativeCalls -----------------------------
(***************************************************************************)
(* Bytes of 16 values, so that 16 and 32 bits become 256 and 65536 and     *)
(* TLC's integers have room beyond.  Lists of addresses around the turns   *)
(* at which the array is reallocated (the first and the tenth), ports with *)
(* a zero byte and at the limit, one that does not fit, and an IPv6        *)
(* address.                                                                *)
(***************************************************************************)
EXTENDS NativeCalls

A == <<10, 0, 0, 1>>
B == <<10, 0, 15, 2>>
V6 == Zeros(16)
MCHosts == {A, B, V6}
Alternating(n) == [i \in 1..n |-> IF i % 2 = 1 THEN A ELSE B]
MCHostLists == {Alternating(n) : n \in {1, 3, 10}} \cup {<<B, V6>>}
MCPorts == {16, 255, 256}
MCNumbers == {0, 1, 255, 256, 65535, 65536}
===============================================================================

------------------------------- MODULE NextFlag -------------------------------
(***************************************************************************)
(* What the duplex (src/lib/socket-duplex.js) relies on when it calls      *)
(* maybeScheduleNextMicrotask: a request is one bit.  Any number of        *)
(* requests made before a run of next() has begun are served by that run,  *)
(* a request made while next() runs is served by another run, and runs do  *)
(* not nest.  SocketDuplex.tla uses this bit (its nextPending) in place of *)
(* the scheduler.                                                          *)
(***************************************************************************)
VARIABLES nextPending,  \* a run of next() has been asked for and not begun
          inNext        \* next() is running

vars == <<nextPending, inNext>>

Init == ~nextPending /\ ~inNext

Request == nextPending' = TRUE /\ UNCHANGED inNext

Begin == nextPending /\ ~inNext /\ nextPending' = FALSE /\ inNext' = TRUE

End == inNext /\ inNext' = FALSE /\ UNCHANGED nextPending

\* One run ends and the next one begins in the same turn of the dispatcher.
EndAndBegin == inNext /\ nextPending /\ nextPending' = FALSE /\ UNCHANGED inNext

Run == Begin \/ End \/ EndAndBegin

Next == Request \/ Run

Fairness == WF_vars(Run)

Spec == Init /\ [][Next]_vars /\ Fairness
===============================================================================

----------------------------- MODULE NextMicrotask ----------------------------
(***************************************************************************)
(* maybeScheduleNextMicrotask of src/lib/socket-duplex.js over the real    *)
(* scheduler.  The only function in the duplex's queue is next(); the      *)
(* duplex keeps the handle of the last schedule in scheduledNextMicrotask  *)
(* and schedules again only if that handle is gone or no longer pending(). *)
(***************************************************************************)
EXTENDS MicrotaskScheduler

ASSUME NextAssumption == Fns # {}  \* next() is one of them

VARIABLES
  scheduledNextMicrotask,  \* TRUE when the handle is defined
  destroyed,               \* next() then returns at once
  returnsEarly             \* the run of next() in progress began destroyed

handleVars == <<scheduledNextMicrotask, destroyed, returnsEarly>>
nmVars == <<vars, handleVars>>

next == CHOOSE f \in Fns : TRUE

NMTypeOK == /\ TypeOK
            /\ scheduledNextMicrotask \in BOOLEAN
            /\ destroyed \in BOOLEAN
            /\ returnsEarly \in BOOLEAN

NMInit == /\ Init
          /\ scheduledNextMicrotask = FALSE
          /\ destroyed = FALSE
          /\ returnsEarly = FALSE

\* The handle's pending(): the queue includes the function, which it does also
\* while that function runs.
Pending == Contains(queue, next)

\* Called by read, write, final and the poll callback, in any piece of
\* JavaScript, and from within next() unless it returned early.
MaybeScheduleNextMicrotask ==
  /\ ~returnsEarly
  /\ ~scheduledNextMicrotask \/ ~Pending
  /\ ScheduleMicrotask(next)
  /\ scheduledNextMicrotask' = TRUE
  /\ UNCHANGED <<destroyed, returnsEarly>>

\* Mutant: the handle is kept when next() begins.
NextBodyKeepsHandle == /\ returnsEarly' = (running' # NoFn /\ destroyed)
                       /\ UNCHANGED <<scheduledNextMicrotask, destroyed>>

\* next() begins in this step if running' says so: it forgets the handle first,
\* unless the duplex is destroyed.
NextBody == /\ returnsEarly' = (running' # NoFn /\ destroyed)
            /\ scheduledNextMicrotask' =
                 (scheduledNextMicrotask /\ (running' = NoFn \/ destroyed))
            /\ UNCHANGED destroyed

NMDispatch == Dispatch /\ NextBody

NMFnReturn == FnReturn /\ NextBody

NMClear == ClearMicrotasksCounter /\ UNCHANGED handleVars

\* duplex.destroy(), from any piece of JavaScript.
Destroy == /\ ~destroyed
           /\ destroyed' = TRUE
           /\ UNCHANGED <<vars, scheduledNextMicrotask, returnsEarly>>

NMNext == MaybeScheduleNextMicrotask \/ NMDispatch \/ NMFnReturn \/ NMClear \/ Destroy

NMFairness == WF_nmVars(NMDispatch) /\ WF_nmVars(NMFnReturn) /\ WF_nmVars(NMClear)

NMSpec == NMInit /\ [][NMNext]_nmVars /\ NMFairness

-------------------------------------------------------------------------------
\* The handle idiom neither doubles nor loses a request.  However many callers
\* ask, next() waits at most once, behind at most the run that is going on; and
\* a call that does nothing (handle defined and pending) is made only when a run
\* of next() that has not begun yet is in the queue.  Inside next() the function
\* is always in the queue, so this rests on next() forgetting the handle when it
\* begins.
RequestKeptOnce ==
  LET most == IF running = NoFn THEN 1 ELSE 2 IN
  /\ Len(queue) <= most
  /\ scheduledNextMicrotask /\ Pending /\ ~returnsEarly => Len(queue) = most

\* The one-bit view of the scheduler that SocketDuplex.tla uses.
Flag == INSTANCE NextFlag
          WITH nextPending <- Len(queue) > (IF running = NoFn THEN 0 ELSE 1),
               inNext <- running # NoFn

\* The scheduler and the handle idiom implement that one bit, including that
\* every request is followed by a run of next().
ImplementsNextFlag == Flag!Spec
===============================================================================

-------------------------- MODULE MicrotaskScheduler --------------------------
(***************************************************************************)
(* src/lib/microtask-scheduler.js: a queue of functions that one promise   *)
(* reaction, the dispatcher, calls in order, at most                       *)
(* MaxMicrotasksPerMacrotask of them before a zero timeout (a macrotask)   *)
(* has reset the count.                                                    *)
(*                                                                         *)
(* JavaScript runs one piece of code at a time.  A step of this module is  *)
(* a call of scheduleMicrotask or cancel, or a stretch of the dispatcher   *)
(* between two of its calls of fn().  While fn's body runs (running # NoFn)*)
(* it may call scheduleMicrotask itself.  The promise reaction is waiting  *)
(* when dispatcherRunning holds and no body runs.  A timeout callback is a *)
(* macrotask: it runs only when no promise reaction is waiting.            *)
(***************************************************************************)
EXTENDS Naturals, Sequences, SequencesExt

CONSTANTS Fns,                        \* the functions callers schedule
          Throwing,                   \* those of them that may throw
          NoFn,                       \* "no function is running"
          MaxMicrotasksPerMacrotask,  \* the maxMicrotasksPerMacrotask option
          MaxQueue                    \* bound on the length of the queue

ASSUME SchedulerAssumption ==
  /\ Throwing \subseteq Fns
  /\ NoFn \notin Fns
  /\ MaxMicrotasksPerMacrotask \in Nat \ {0}
  /\ MaxQueue \in Nat \ {0}

VARIABLES
  microtaskFunctionQueue,
  microtasksExecutedInCurrentMacrotask,
  clearMicrotasksCounterSchedule,  \* TRUE when the timeout is set
  dispatcherRunning,
  running,    \* the function whose body the dispatcher is in, or NoFn
  threw       \* history: the dispatcher was last ended by an exception

vars == <<microtaskFunctionQueue, microtasksExecutedInCurrentMacrotask,
          clearMicrotasksCounterSchedule, dispatcherRunning, running, threw>>

queue == microtaskFunctionQueue
executed == microtasksExecutedInCurrentMacrotask

TypeOK ==
  /\ microtaskFunctionQueue \in Seq(Fns)
  /\ microtasksExecutedInCurrentMacrotask \in 0..MaxMicrotasksPerMacrotask
  /\ clearMicrotasksCounterSchedule \in BOOLEAN
  /\ dispatcherRunning \in BOOLEAN
  /\ running \in Fns \cup {NoFn}
  /\ threw \in BOOLEAN

Init ==
  /\ microtaskFunctionQueue = <<>>
  /\ microtasksExecutedInCurrentMacrotask = 0
  /\ clearMicrotasksCounterSchedule = FALSE
  /\ dispatcherRunning = FALSE
  /\ running = NoFn
  /\ threw = FALSE

-------------------------------------------------------------------------------
\* Mutants: the budget forgotten, and off by one.
MayRunUnbounded(q, n) == q # <<>>
MayRunOffByOne(q, n) == q # <<>> /\ n <= MaxMicrotasksPerMacrotask

\* Both the test of maybeStartDispatcher and that of the dispatcher's loop.
MayRun(q, n) == q # <<>> /\ n < MaxMicrotasksPerMacrotask

\* maybeStartDispatcher, on the queue q and the count n its caller leaves.
MaybeStartDispatcher(q, n) ==
  IF ~dispatcherRunning /\ MayRun(q, n)
    THEN dispatcherRunning' = TRUE /\ threw' = FALSE
    ELSE UNCHANGED <<dispatcherRunning, threw>>

\* The head of the while loop: the next function is called or the loop ends.
LoopTest(q, n) ==
  IF MayRun(q, n)
    THEN running' = Head(q) /\ UNCHANGED dispatcherRunning
    ELSE running' = NoFn /\ dispatcherRunning' = FALSE

\* Mutant: unshift instead of push.
ScheduleMicrotaskFirst(f) ==
  /\ Len(queue) < MaxQueue
  /\ microtaskFunctionQueue' = <<f>> \o queue
  /\ MaybeStartDispatcher(microtaskFunctionQueue', executed)
  /\ UNCHANGED <<microtasksExecutedInCurrentMacrotask,
                 clearMicrotasksCounterSchedule, running>>

ScheduleMicrotask(f) ==
  /\ Len(queue) < MaxQueue
  /\ microtaskFunctionQueue' = Append(queue, f)
  /\ MaybeStartDispatcher(microtaskFunctionQueue', executed)
  /\ UNCHANGED <<microtasksExecutedInCurrentMacrotask,
                 clearMicrotasksCounterSchedule, running>>

\* f # running is no test of the code but an assumption about callers, of which the
\* repository has none: the queue still holds the function that is running, and
\* slice(1) after its return would drop its successor.
Cancel(f) ==
  /\ f # running
  /\ \E i \in 1..Len(queue) : /\ queue[i] = f
                              /\ \A j \in 1..(i - 1) : queue[j] # f
                              /\ microtaskFunctionQueue' = RemoveAt(queue, i)
  /\ UNCHANGED <<microtasksExecutedInCurrentMacrotask,
                 clearMicrotasksCounterSchedule, dispatcherRunning, running, threw>>

\* The promise reaction starts.
Dispatch ==
  /\ dispatcherRunning
  /\ running = NoFn
  /\ LoopTest(queue, executed)
  /\ UNCHANGED <<microtaskFunctionQueue, microtasksExecutedInCurrentMacrotask,
                 clearMicrotasksCounterSchedule, threw>>

\* Mutant: no timeout is set when a function has been counted.
FnReturnNoTimeout ==
  /\ running # NoFn
  /\ microtaskFunctionQueue' = Tail(queue)
  /\ microtasksExecutedInCurrentMacrotask' = executed + 1
  /\ LoopTest(microtaskFunctionQueue', microtasksExecutedInCurrentMacrotask')
  /\ UNCHANGED <<clearMicrotasksCounterSchedule, threw>>

\* fn() returns: the rest of the loop's body, then the loop's test.
FnReturn ==
  /\ running # NoFn
  /\ microtaskFunctionQueue' = Tail(queue)
  /\ microtasksExecutedInCurrentMacrotask' = executed + 1
  /\ clearMicrotasksCounterSchedule' = TRUE
  /\ LoopTest(microtaskFunctionQueue', microtasksExecutedInCurrentMacrotask')
  /\ UNCHANGED threw

\* fn() throws: only the finally block runs.  (The exception is uncaught: the
\* program goes on only if it installed a handler for that.)
FnThrow ==
  /\ running \in Throwing
  /\ running' = NoFn
  /\ dispatcherRunning' = FALSE
  /\ threw' = TRUE
  /\ UNCHANGED <<microtaskFunctionQueue, microtasksExecutedInCurrentMacrotask,
                 clearMicrotasksCounterSchedule>>

\* Mutant: the count is reset but the dispatcher is not restarted.
ClearMicrotasksCounterNoRestart ==
  /\ clearMicrotasksCounterSchedule
  /\ ~dispatcherRunning
  /\ clearMicrotasksCounterSchedule' = FALSE
  /\ microtasksExecutedInCurrentMacrotask' = 0
  /\ UNCHANGED <<microtaskFunctionQueue, dispatcherRunning, running, threw>>

\* The timeout's callback.
ClearMicrotasksCounter ==
  /\ clearMicrotasksCounterSchedule
  /\ ~dispatcherRunning
  /\ clearMicrotasksCounterSchedule' = FALSE
  /\ microtasksExecutedInCurrentMacrotask' = 0
  /\ MaybeStartDispatcher(queue, 0)
  /\ UNCHANGED <<microtaskFunctionQueue, running>>

Callers == \E f \in Fns : ScheduleMicrotask(f) \/ Cancel(f)

Engine == Dispatch \/ FnReturn \/ ClearMicrotasksCounter

Next == Callers \/ Engine \/ FnThrow

\* The event loop runs waiting reactions and expired timeouts, and function
\* bodies end.
Fairness == WF_vars(Dispatch) /\ WF_vars(FnReturn) /\ WF_vars(ClearMicrotasksCounter)

Spec == Init /\ [][Next]_vars /\ Fairness

-------------------------------------------------------------------------------
\* The function being run stays at the head of the queue while it runs, which
\* is what makes slice(1) on return remove that function and pending() true
\* during the call, whatever the body schedules or cancels.
RunningIsHead == running # NoFn => /\ dispatcherRunning
                                   /\ queue # <<>>
                                   /\ Head(queue) = running

\* Between two resets of the count at most MaxMicrotasksPerMacrotask functions
\* are called: a call only starts below the budget, and a count above zero has
\* a timeout set that will reset it.
WithinBudget == /\ running # NoFn => executed < MaxMicrotasksPerMacrotask
                /\ executed > 0 => clearMicrotasksCounterSchedule

\* Work never waits without something that will run it: the dispatcher, or
\* the timeout that restarts it.  Only an exception can leave work stranded.
NoStrandedWork ==
  queue # <<>> => dispatcherRunning \/ clearMicrotasksCounterSchedule \/ threw

\* The scheduler is a FIFO of tasks, each called once: the abstract queue is
\* the real one without the function that is running.
Tasks == INSTANCE TaskQueue
           WITH todo <- IF running = NoFn THEN queue ELSE Tail(queue),
                current <- running

\* Safety and liveness of that abstraction, until a function throws: order kept,
\* none lost, none run twice, and every one eventually called.
taskVars == Tasks!vars
ImplementsTaskQueue == /\ Tasks!Init
                       /\ [][threw' \/ Tasks!Next]_taskVars
                       /\ <>threw \/ Tasks!Fairness
===============================================================================

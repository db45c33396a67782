----------------------------- MODULE NativePoller -----------------------------
(***************************************************************************)
(* The life of one poll handle: the struct native_poll_handle of           *)
(* src/src/main.c, the libuv handle inside it, and the poller of           *)
(* src/lib/poller.js that owns it through src/lib/native.js.               *)
(*                                                                         *)
(* Three parties use the struct: JavaScript, through start, stop and close *)
(* while the wrapper object is reachable; libuv, which calls poll_cb while *)
(* the handle is active and uv_close's callback once while it closes; and  *)
(* the garbage collector, which calls the finalizer when the wrapper is    *)
(* unreachable, or when the environment is torn down.  The struct is freed *)
(* by whoever comes last.  Callers may do anything at any time: call       *)
(* update() or close() on a closed poller, or just forget it.              *)
(***************************************************************************)
EXTENDS Naturals

VARIABLES
  \* struct native_poll_handle
  close_pending, closed, finalizer_called,
  callbackRef,   \* the strong reference js_poll_callback_fn_ref exists
  frees,         \* how many times the struct was freed
  \* libuv
  uv,            \* "inactive", "active", "closing" or "closed"
  \* poller.js
  pollerClosed,  \* its variable closed
  lastEvents,    \* what it believes is armed: a set of directions
  queued,        \* callbacks whose microtask has not run
  \* surroundings
  held,          \* the owner (a duplex or a server) still has the poller
  teardown,      \* the environment is going down: no JavaScript runs any more
  aborted        \* abort_with_message() was called

nativeVars == <<close_pending, closed, finalizer_called, callbackRef, frees, uv>>
pollerVars == <<pollerClosed, lastEvents, queued>>
vars == <<nativeVars, pollerVars, held, teardown, aborted>>

Directions == {"readable", "writable"}

NPTypeOK ==
  /\ close_pending \in BOOLEAN /\ closed \in BOOLEAN /\ finalizer_called \in BOOLEAN
  /\ callbackRef \in BOOLEAN
  /\ frees \in 0..1
  /\ uv \in {"inactive", "active", "closing", "closed"}
  /\ pollerClosed \in BOOLEAN
  /\ lastEvents \in SUBSET Directions
  /\ queued \in 0..1
  /\ held \in BOOLEAN /\ teardown \in BOOLEAN
  /\ aborted \in BOOLEAN

\* After create_poller.
NPInit ==
  /\ close_pending = FALSE /\ closed = FALSE /\ finalizer_called = FALSE
  /\ callbackRef = TRUE /\ frees = 0 /\ uv = "inactive"
  /\ pollerClosed = FALSE /\ lastEvents = {} /\ queued = 0
  /\ held = TRUE /\ teardown = FALSE /\ aborted = FALSE

-------------------------------------------------------------------------------
\* The wrapper object: its owner has it, and so does the callback's closure,
\* which native code and a queued microtask keep alive.
Reachable == held \/ callbackRef \/ queued > 0

JsRuns == held /\ ~teardown

Abort(when) == aborted' = (aborted \/ when)

\* Mutant: only a handle that has finished closing counts as closed.
AlreadyClosedWhenClosed == closed

\* The test with which start, stop and close begin.
AlreadyClosed == closed \/ close_pending

\* Mutant: a close that is under way is not waited for.
MaybeFreeEarly(finalized, pending, done) ==
  IF finalized /\ (pending \/ done) THEN frees' = frees + 1 ELSE UNCHANGED frees

\* The two cases of poll_handle_maybe_free that do not start a close, on the
\* values its caller leaves.
MaybeFree(finalized, pending, done) ==
  IF finalized /\ ~pending /\ done THEN frees' = frees + 1 ELSE UNCHANGED frees

\* poller.update(): native start() or stop(), which throw on a closed handle or
\* when libuv refuses; lastEvents is assigned only after they returned.
Update(events) ==
  /\ JsRuns
  /\ events # lastEvents
  /\ ~AlreadyClosed
  /\ lastEvents' = events
  /\ uv' = IF events = {} THEN "inactive" ELSE "active"
  /\ UNCHANGED <<close_pending, closed, finalizer_called, callbackRef, frees,
                 pollerClosed, queued, held, teardown, aborted>>

\* poller.close(): the flag, then native close(), which throws if already closed.
Close ==
  /\ JsRuns
  /\ pollerClosed' = TRUE
  /\ \/ /\ AlreadyClosed
        /\ UNCHANGED <<close_pending, callbackRef, uv>>
     \/ /\ ~AlreadyClosed
        /\ close_pending' = TRUE
        /\ callbackRef' = FALSE
        /\ uv' = "closing"
  /\ UNCHANGED <<closed, finalizer_called, frees, lastEvents, queued, held, teardown,
                 aborted>>

\* libuv reports readiness, or an error after stopping the handle: poll_cb needs
\* the callback's reference, and the poller queues a microtask.  libuv does not
\* poll this handle again before microtasks have run.
PollCb ==
  /\ uv = "active"
  /\ ~teardown
  /\ queued = 0
  /\ \/ UNCHANGED uv
     \/ uv' = "inactive"
  /\ Abort(~callbackRef)
  /\ queued' = queued + 1
  /\ UNCHANGED <<close_pending, closed, finalizer_called, callbackRef, frees,
                 pollerClosed, lastEvents, held, teardown>>

\* The poller's microtask: it calls the owner back unless the poller was closed
\* (what the owner then does is in SocketDuplex.tla and Server.tla).
Microtask ==
  /\ queued > 0
  /\ ~teardown
  /\ queued' = queued - 1
  /\ UNCHANGED <<nativeVars, pollerClosed, lastEvents, held, teardown, aborted>>

\* Mutant: the end of the close does not look whether it may free.
UvCloseCbNoFree ==
  /\ uv = "closing"
  /\ uv' = "closed"
  /\ Abort(~close_pending \/ closed)
  /\ close_pending' = FALSE
  /\ closed' = TRUE
  /\ UNCHANGED <<finalizer_called, callbackRef, frees, pollerVars, held, teardown>>

\* poll_handle_uv_close_cb, with its two assertions.
UvCloseCb ==
  /\ uv = "closing"
  /\ uv' = "closed"
  /\ Abort(~close_pending \/ closed)
  /\ close_pending' = FALSE
  /\ closed' = TRUE
  /\ MaybeFree(finalizer_called, FALSE, TRUE)
  /\ UNCHANGED <<finalizer_called, callbackRef, pollerVars, held, teardown>>

\* poll_handle_finalizer: a handle that was never closed is closed now, and
\* uv_close's callback will free it.
Finalizer ==
  /\ ~Reachable \/ teardown
  /\ ~finalizer_called
  /\ finalizer_called' = TRUE
  /\ \/ /\ ~close_pending /\ ~closed
        /\ close_pending' = TRUE
        /\ uv' = "closing"
        /\ UNCHANGED frees
     \/ /\ close_pending \/ closed
        /\ MaybeFree(TRUE, close_pending, closed)
        /\ UNCHANGED <<close_pending, uv>>
  /\ UNCHANGED <<closed, callbackRef, pollerVars, held, teardown, aborted>>

\* The owner becomes garbage.
Forget == /\ JsRuns
          /\ held' = FALSE
          /\ UNCHANGED <<nativeVars, pollerVars, teardown, aborted>>

\* The environment is torn down: it finalizes every wrapper.
Teardown == /\ ~teardown
            /\ teardown' = TRUE
            /\ UNCHANGED <<nativeVars, pollerVars, held, aborted>>

NPNext == \/ \E events \in SUBSET Directions : Update(events)
          \/ Close \/ PollCb \/ Microtask \/ UvCloseCb \/ Finalizer \/ Forget \/ Teardown

\* The loop and the microtask queue run, and garbage is collected.
NPFairness == WF_vars(Microtask) /\ WF_vars(UvCloseCb) /\ WF_vars(Finalizer)

NPSpec == NPInit /\ [][NPNext]_vars /\ NPFairness

-------------------------------------------------------------------------------
\* The struct outlives everyone who may still use it: JavaScript that can reach
\* the wrapper, libuv until uv_close's callback, and the finalizer.
LiveWhileUsed ==
  frees > 0 => /\ uv = "closed"
               /\ finalizer_called
               /\ ~Reachable \/ teardown

\* The assertions of the native code hold: a close callback comes only for one
\* pending close, and poll_cb always finds its callback's reference.
NoAbort == ~aborted

\* A poller that was closed and forgotten is freed, whichever of uv_close's
\* callback and the finalizer comes last.
ClosedIsFreed == (pollerClosed /\ ~held) ~> (frees = 1)

\* What makes LiveWhileUsed and NoAbort inductive: the struct's flags follow
\* libuv's state, and the reference is given up only by a close.
LifeInv ==
  /\ close_pending <=> uv = "closing"
  /\ closed <=> uv = "closed"
  /\ callbackRef \/ uv \in {"closing", "closed"}
  /\ frees > 0 <=> finalizer_called /\ closed
  /\ finalizer_called => ~Reachable \/ teardown
  /\ finalizer_called => uv \in {"closing", "closed"}
===============================================================================

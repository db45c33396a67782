-------------------------- MODULE NativePollerProofs --------------------------
(***************************************************************************)
(* Proofs about NativePoller.tla: the struct is freed once and only after  *)
(* its last possible use.  LifeInv ties the struct's flags to libuv's      *)
(* state of the handle; it is inductive by itself together with the types. *)
(***************************************************************************)
EXTENDS NativePoller, TLAPS

IInv == NPTypeOK /\ LifeInv

LEMMA InitLife == NPInit => IInv
<1>1. NPInit => NPTypeOK
  <2>1. NPInit => frees \in 0..1 /\ queued \in 0..1
    BY DEF NPInit
  <2>2. NPInit => lastEvents \in SUBSET Directions
    BY DEF NPInit
  <2>. QED BY <2>1, <2>2, Zenon DEF NPInit, NPTypeOK
<1>2. NPInit => LifeInv
  BY DEF NPInit, LifeInv
<1>. QED BY <1>1, <1>2 DEF IInv

\* A step that changes neither the struct's flags nor libuv's state, and does
\* not make a finalized wrapper reachable again, keeps LifeInv.
LEMMA Untouched ==
  ASSUME LifeInv,
         UNCHANGED nativeVars,
         (Reachable' /\ ~teardown') => (Reachable /\ ~teardown)
  PROVE  LifeInv'
BY DEF LifeInv, nativeVars

LEMMA UpdateLife ==
  ASSUME IInv, NEW events \in SUBSET Directions, Update(events)
  PROVE  IInv'
<1>1. NPTypeOK'
  BY DEF IInv, NPTypeOK, Update
<1>2. ~close_pending /\ ~closed /\ uv' \in {"inactive", "active"}
  BY DEF Update, AlreadyClosed
<1>3. callbackRef /\ ~finalizer_called
  BY <1>2 DEF IInv, LifeInv, NPTypeOK
<1>4. LifeInv'
  BY <1>2, <1>3 DEF IInv, LifeInv, Update
<1>. QED BY <1>1, <1>4 DEF IInv

LEMMA CloseLife == ASSUME IInv, Close PROVE IInv'
<1>1. NPTypeOK'
  BY DEF IInv, NPTypeOK, Close
<1>2. CASE AlreadyClosed /\ UNCHANGED <<close_pending, callbackRef, uv>>
  <2>1. UNCHANGED nativeVars /\ (Reachable' <=> Reachable) /\ teardown' = teardown
    BY <1>2 DEF Close, nativeVars, Reachable
  <2>. QED BY <1>1, <2>1, Untouched DEF IInv
<1>3. CASE ~AlreadyClosed /\ close_pending' = TRUE /\ callbackRef' = FALSE /\ uv' = "closing"
  <2>1. ~finalizer_called /\ ~closed /\ frees = 0
    BY <1>3 DEF IInv, LifeInv, NPTypeOK, AlreadyClosed
  <2>2. LifeInv'
    BY <1>3, <2>1 DEF LifeInv, Close
  <2>. QED BY <1>1, <2>2 DEF IInv
<1>. QED BY <1>2, <1>3 DEF Close

LEMMA PollCbLife == ASSUME IInv, PollCb PROVE IInv'
<1>1. NPTypeOK'
  BY DEF IInv, NPTypeOK, PollCb, Abort
<1>2. callbackRef /\ ~finalizer_called /\ ~close_pending /\ ~closed
  BY DEF IInv, LifeInv, PollCb
<1>3. LifeInv'
  BY <1>2 DEF IInv, LifeInv, PollCb
<1>. QED BY <1>1, <1>3 DEF IInv

LEMMA MicrotaskLife == ASSUME IInv, Microtask PROVE IInv'
<1>1. NPTypeOK'
  BY DEF IInv, NPTypeOK, Microtask, nativeVars
<1>2. UNCHANGED nativeVars /\ (Reachable' => Reachable) /\ teardown' = teardown
  BY DEF IInv, NPTypeOK, Microtask, Reachable, nativeVars
<1>. QED BY <1>1, <1>2, Untouched DEF IInv

LEMMA UvCloseCbLife == ASSUME IInv, UvCloseCb PROVE IInv'
<1>1. close_pending /\ ~closed /\ frees = 0
  BY DEF IInv, LifeInv, NPTypeOK, UvCloseCb
<1>2. IF finalizer_called THEN frees' = 1 ELSE frees' = 0
  BY <1>1 DEF UvCloseCb, MaybeFree
<1>3. NPTypeOK'
  <2>1. frees' \in 0..1
    BY <1>2
  <2>. QED BY <2>1 DEF IInv, NPTypeOK, UvCloseCb, Abort, pollerVars
<1>4. LifeInv'
  BY <1>1, <1>2 DEF IInv, LifeInv, UvCloseCb, Reachable, pollerVars
<1>. QED BY <1>3, <1>4 DEF IInv

LEMMA FinalizerLife == ASSUME IInv, Finalizer PROVE IInv'
<1>1. frees = 0 /\ ~finalizer_called
  BY DEF IInv, LifeInv, NPTypeOK, Finalizer
<1>2. CASE /\ ~close_pending /\ ~closed
           /\ close_pending' = TRUE
           /\ uv' = "closing"
           /\ UNCHANGED frees
  <2>1. NPTypeOK'
    BY <1>2 DEF IInv, NPTypeOK, Finalizer, pollerVars
  <2>2. LifeInv'
    BY <1>1, <1>2 DEF IInv, LifeInv, Finalizer, Reachable, pollerVars
  <2>. QED BY <2>1, <2>2 DEF IInv
<1>3. CASE /\ close_pending \/ closed
           /\ MaybeFree(TRUE, close_pending, closed)
           /\ UNCHANGED <<close_pending, uv>>
  <2>1. IF closed THEN frees' = 1 ELSE frees' = 0
    BY <1>1, <1>3 DEF MaybeFree, IInv, LifeInv
  <2>2. NPTypeOK'
    BY <1>3, <2>1 DEF IInv, NPTypeOK, Finalizer, pollerVars
  <2>3. LifeInv'
    BY <1>1, <1>3, <2>1 DEF IInv, LifeInv, Finalizer, Reachable, pollerVars
  <2>. QED BY <2>2, <2>3 DEF IInv
<1>. QED BY <1>2, <1>3 DEF Finalizer

LEMMA NextLife == ASSUME IInv, [NPNext]_vars PROVE IInv'
<1>1. ASSUME NEW events \in SUBSET Directions, Update(events) PROVE IInv'
  BY <1>1, UpdateLife
<1>2. CASE Forget
  <2>1. NPTypeOK'
    BY <1>2 DEF Forget, IInv, NPTypeOK, nativeVars, pollerVars
  <2>2. UNCHANGED nativeVars /\ (Reachable' => Reachable) /\ teardown' = teardown
    BY <1>2 DEF Forget, Reachable, nativeVars, pollerVars
  <2>. QED BY <2>1, <2>2, Untouched DEF IInv
<1>3. CASE Teardown
  <2>1. NPTypeOK'
    BY <1>3 DEF Teardown, IInv, NPTypeOK, nativeVars, pollerVars
  <2>2. UNCHANGED nativeVars /\ teardown'
    BY <1>3 DEF Teardown, nativeVars
  <2>. QED BY <2>1, <2>2, Untouched DEF IInv
<1>4. CASE UNCHANGED vars
  <2>1. NPTypeOK'
    BY <1>4 DEF IInv, NPTypeOK, vars, nativeVars, pollerVars
  <2>2. UNCHANGED nativeVars /\ (Reachable' <=> Reachable) /\ teardown' = teardown
    BY <1>4 DEF vars, nativeVars, pollerVars, Reachable
  <2>. QED BY <2>1, <2>2, Untouched DEF IInv
<1>. QED
  BY <1>1, <1>2, <1>3, <1>4, CloseLife, PollCbLife, MicrotaskLife, UvCloseCbLife, FinalizerLife
  DEF NPNext

\* The invariant that the theorems below read off.
LEMMA Invariant == NPSpec => []IInv
<1>1. NPInit => IInv
  BY InitLife
<1>2. IInv /\ [NPNext]_vars => IInv'
  BY NextLife
<1>. QED BY <1>1, <1>2, PTL DEF NPSpec

\* Type correctness; with it, the struct is freed at most once.
THEOREM PollerTypes == NPSpec => []NPTypeOK
<1>1. IInv => NPTypeOK
  BY DEF IInv
<1>. QED BY <1>1, Invariant, PTL

\* The native struct is freed only when neither JavaScript, libuv nor the
\* garbage collector can come back to it.
THEOREM StructOutlivesUse == NPSpec => []LiveWhileUsed
<1>1. IInv => LiveWhileUsed
  BY DEF IInv, LifeInv, LiveWhileUsed
<1>. QED BY <1>1, Invariant, PTL

\* No abort_with_message() of poll_cb or of uv_close's callback is reached.
THEOREM AssertionsHold == NPSpec => []NoAbort
<1>1. NPInit => NoAbort
  BY DEF NPInit, NoAbort
<1>2. IInv /\ NoAbort /\ [NPNext]_vars => NoAbort'
  <2>1. ASSUME IInv, NoAbort, PollCb PROVE NoAbort'
    BY <2>1 DEF IInv, LifeInv, NoAbort, PollCb, Abort
  <2>2. ASSUME IInv, NoAbort, UvCloseCb PROVE NoAbort'
    BY <2>2 DEF IInv, LifeInv, NoAbort, UvCloseCb, Abort
  <2>3. ASSUME NoAbort, NPNext, ~PollCb, ~UvCloseCb PROVE NoAbort'
    BY <2>3 DEF NoAbort, NPNext, Update, Close, Microtask, Finalizer, Forget, Teardown
  <2>4. ASSUME NoAbort, UNCHANGED vars PROVE NoAbort'
    BY <2>4 DEF NoAbort, vars
  <2>. QED BY <2>1, <2>2, <2>3, <2>4
<1>. QED BY <1>1, <1>2, Invariant, PTL DEF NPSpec
-------------------------------------------------------------------------------
\* A close that the owner asked for, and not the finalizer, has given up the
\* callback's reference.
ReleasedInv ==
  /\ uv \in {"closing", "closed"} /\ ~finalizer_called => ~callbackRef
  /\ pollerClosed => ~callbackRef /\ uv \in {"closing", "closed"}

LEMMA ReleasedStep == ASSUME IInv, ReleasedInv, [NPNext]_vars PROVE ReleasedInv'
<1>1. CASE Close
  <2>1. CASE AlreadyClosed /\ UNCHANGED <<close_pending, callbackRef, uv>>
    <3>1. held /\ ~teardown /\ ~finalizer_called
      BY <1>1 DEF Close, JsRuns, IInv, LifeInv, Reachable
    <3>. QED BY <1>1, <2>1, <3>1 DEF Close, ReleasedInv, IInv, LifeInv, AlreadyClosed
  <2>2. CASE callbackRef' = FALSE /\ uv' = "closing"
    BY <1>1, <2>2 DEF Close, ReleasedInv
  <2>. QED BY <1>1, <2>1, <2>2 DEF Close
<1>2. CASE ~Close /\ NPNext
  <2>1. ASSUME NEW events \in SUBSET Directions, Update(events) PROVE ReleasedInv'
    BY <2>1 DEF Update, AlreadyClosed, IInv, LifeInv, ReleasedInv
  <2>2. CASE PollCb
    BY <2>2 DEF PollCb, ReleasedInv
  <2>3. CASE Microtask \/ Forget \/ Teardown
    BY <2>3 DEF Microtask, Forget, Teardown, nativeVars, pollerVars, ReleasedInv
  <2>4. CASE UvCloseCb
    BY <2>4 DEF UvCloseCb, pollerVars, ReleasedInv
  <2>5. CASE Finalizer
    <3>1. finalizer_called' /\ UNCHANGED <<callbackRef, pollerClosed>> /\ (uv' = "closing" \/ uv' = uv)
      BY <2>5 DEF Finalizer, pollerVars
    <3>. QED BY <3>1 DEF ReleasedInv
  <2>. QED BY <1>2, <2>1, <2>2, <2>3, <2>4, <2>5 DEF NPNext
<1>3. CASE UNCHANGED vars
  BY <1>3 DEF vars, nativeVars, pollerVars, ReleasedInv
<1>. QED BY <1>1, <1>2, <1>3
\* A poller that was closed and forgotten and is not freed has a step before it:
\* its microtask, uv_close's callback or the finalizer, whatever has come before.
\* It is what ClosedIsFreed needs but fairness.
THEOREM ClosedHasAStep ==
  NPSpec => [](pollerClosed /\ ~held /\ frees = 0 =>
                 \/ queued > 0 /\ ~teardown
                 \/ uv = "closing"
                 \/ ~finalizer_called /\ (~Reachable \/ teardown))
<1>1. NPInit => ReleasedInv
  BY DEF NPInit, ReleasedInv
<1>2. ASSUME IInv, ReleasedInv, pollerClosed, ~held, frees = 0
      PROVE  \/ queued > 0 /\ ~teardown
             \/ uv = "closing"
             \/ ~finalizer_called /\ (~Reachable \/ teardown)
  BY <1>2 DEF IInv, NPTypeOK, LifeInv, ReleasedInv, Reachable
<1>3. IInv /\ ReleasedInv =>
        (pollerClosed /\ ~held /\ frees = 0 =>
           \/ queued > 0 /\ ~teardown
           \/ uv = "closing"
           \/ ~finalizer_called /\ (~Reachable \/ teardown))
  BY <1>2
<1>. QED BY <1>1, <1>3, ReleasedStep, Invariant, PTL DEF NPSpec
===============================================================================

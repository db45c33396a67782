----------------------------- MODULE SocketDuplex -----------------------------
(***************************************************************************)
(* src/lib/socket-duplex.js with src/lib/poller.js: the duplex that moves  *)
(* messages between Node's stream machinery and a non-blocking socket.     *)
(*                                                                         *)
(* One run of next() receives at most one message or sends at most one.    *)
(* The kernel is concurrent with JavaScript, so a run in which there was   *)
(* nothing to receive is two steps: up to the answer of recv (it leaves    *)
(* phase = "send"), and from trySendNext on.  No other JavaScript runs in  *)
(* between.  nextPending is the one-bit view of the microtask scheduler    *)
(* (NextFlag.tla): next() may begin at once or, when the budget of the     *)
(* macrotask is used up, after further events.  A poll event is two steps: *)
(* the native callback, and the microtask in which the poller reports it.  *)
(***************************************************************************)
EXTENDS SctpSocket, NodeStream

CONSTANT Roles  \* initial values of "connected": FALSE a client, TRUE accepted

ASSUME RolesAssumption == Roles \subseteq BOOLEAN

VARIABLES
  \* socket-duplex.js
  readRequested, mayPushData, remoteEnded, destroyed,
  pollErrno,                        \* TRUE when it is defined
  socketMaybeHasMore, socketMaybeTakesMore,
  shutdownRequested,
  nextPending,                      \* next() is scheduled and has not begun
  pollCallbacksSinceLastMicrotask,
  connected,
  sendQueue,                        \* numbers of the messages passed to write()
  phase,                            \* "send": in next(), nothing was received
  \* poller.js and the libuv handle
  lastEvents,                       \* what the poller believes is armed
  uvEvents,                         \* what is armed
  pollPending,                      \* the reported event, before its microtask
  \* observations
  fd,         \* the descriptor: open, closed after end(), or aborted (linger 0)
  error,      \* what the duplex was destroyed with
  uncaught,   \* next() threw: the process ends
  pushed,     \* numbers of the messages given to push(), in order
  sent,       \* numbers of the messages given to the kernel, in order
  connects,   \* how many times "connect" was emitted
  misuse      \* a system call or poll call was made on a closed descriptor

recvVars == <<readRequested, mayPushData, remoteEnded, connected, pushed, connects>>
sendVars == <<sendQueue, sent>>
loopVars == <<pollErrno, socketMaybeHasMore, socketMaybeTakesMore, nextPending,
              pollCallbacksSinceLastMicrotask, phase>>
pollVars == <<lastEvents, uvEvents, pollPending>>
endVars == <<destroyed, fd, error>>

vars == <<kernelVars, streamVars, recvVars, sendVars, loopVars, pollVars, endVars,
          shutdownRequested, uncaught, misuse>>

Directions == {"r", "w"}
NoEvent == [events |-> {}, err |-> FALSE, any |-> FALSE]
PollEvents == [events : SUBSET Directions, err : BOOLEAN, any : BOOLEAN]

\* The error messages the code itself can produce, besides the socket's errno.
BugErrors == {"BUG: read() called after ended", "BUG: sendQueue not empty on final"}
Errors == BugErrors \cup SocketErrors
            \cup {"none", "EBADF", "EPIPE", "ENOTCONN", "remote ended", "destroyed by the application"}

LoopFlagsOK ==
  /\ destroyed \in BOOLEAN /\ pollErrno \in BOOLEAN
  /\ socketMaybeHasMore \in BOOLEAN /\ socketMaybeTakesMore \in BOOLEAN
  /\ nextPending \in BOOLEAN /\ uncaught \in BOOLEAN /\ misuse \in BOOLEAN

DataFlagsOK ==
  /\ readRequested \in BOOLEAN /\ mayPushData \in BOOLEAN /\ remoteEnded \in BOOLEAN
  /\ shutdownRequested \in BOOLEAN /\ connected \in BOOLEAN

CountsOK == pollCallbacksSinceLastMicrotask \in 0..2 /\ connects \in Nat

QueuesOK == /\ sendQueue \in Seq(1..MaxOut)
            /\ pushed \in Seq(1..MaxIn)
            /\ sent \in Seq(1..MaxOut)

EventsOK == /\ lastEvents \in SUBSET Directions
            /\ uvEvents \in SUBSET Directions
            /\ pollPending \in PollEvents

OutcomeOK == /\ phase \in {"idle", "send"}
             /\ fd \in {"open", "closed", "aborted"}
             /\ error \in Errors

TypeOK == /\ KernelTypeOK /\ StreamTypeOK
          /\ LoopFlagsOK /\ DataFlagsOK /\ CountsOK /\ QueuesOK /\ EventsOK /\ OutcomeOK

Init ==
  /\ StreamInit
  /\ connected \in Roles
  /\ KernelInit(connected)
  /\ readRequested = FALSE /\ mayPushData = FALSE /\ remoteEnded = FALSE
  /\ destroyed = FALSE /\ pollErrno = FALSE
  /\ socketMaybeHasMore = FALSE /\ socketMaybeTakesMore = FALSE
  /\ shutdownRequested = FALSE
  /\ nextPending = TRUE           \* create() ends with maybeScheduleNextMicrotask()
  /\ pollCallbacksSinceLastMicrotask = 0
  /\ sendQueue = <<>>
  /\ phase = "idle"
  /\ lastEvents = {} /\ uvEvents = {} /\ pollPending = NoEvent
  /\ fd = "open" /\ error = "none" /\ uncaught = FALSE
  /\ pushed = <<>> /\ sent = <<>> /\ connects = 0 /\ misuse = FALSE

-------------------------------------------------------------------------------
\* Helpers.

\* Other JavaScript than the run of next() in progress may run.
JsIdle == phase = "idle" /\ ~uncaught

\* A system call on fd, or a call of the native poll handle.
UsesFd == misuse' = (misuse \/ fd # "open")

\* poller.update()
PollerUpdate(events) ==
  IF events # lastEvents
    THEN lastEvents' = events /\ uvEvents' = events
    ELSE UNCHANGED <<lastEvents, uvEvents>>

\* Mutants: a shutdown waits without a read request; reading is not disarmed
\* at the end of the stream; writing is never armed.
WantedReadOnly ==
  IF ~connected \/ ((readRequested \/ shutdownRequested) /\ ~remoteEnded) THEN {"r"} ELSE {}
WantedOnlyRequested ==
  (IF ~connected \/ (readRequested /\ ~remoteEnded) THEN {"r"} ELSE {})
  \cup (IF connected /\ sendQueue # <<>> THEN {"w"} ELSE {})
WantedAfterEnd ==
  (IF ~connected \/ readRequested \/ shutdownRequested THEN {"r"} ELSE {})
  \cup (IF connected /\ sendQueue # <<>> THEN {"w"} ELSE {})

\* The directions updatePollEvents() asks for.
Wanted == (IF ~connected \/ ((readRequested \/ shutdownRequested) /\ ~remoteEnded)
             THEN {"r"} ELSE {})
          \cup (IF connected /\ sendQueue # <<>> THEN {"w"} ELSE {})

\* Mutant: linger 0 whatever happened before.
DestroyDuplexAborting(err) ==
  /\ destroyed' = TRUE
  /\ error' = err
  /\ fd' = "aborted"
  /\ uvEvents' = {}
  /\ UNCHANGED lastEvents

\* The function given as destroy: an association that was not shut down is
\* aborted (linger 0); the poll handle and the descriptor are closed.
DestroyDuplex(err) ==
  /\ destroyed' = TRUE
  /\ error' = err
  /\ fd' = IF shutdownRequested THEN "closed" ELSE "aborted"
  /\ uvEvents' = {}
  /\ UNCHANGED lastEvents

-------------------------------------------------------------------------------
\* next(), until tryReceiveNext has returned.

\* Mutant: next() does not ask whether the duplex is destroyed.
BeginNextDestroyed ==
  /\ JsIdle
  /\ nextPending
  /\ pollCallbacksSinceLastMicrotask' = 0
  /\ UsesFd
  /\ UNCHANGED <<pollErrno, socketMaybeTakesMore, shutdownRequested, pollPending>>

\* Every run of next() that is not cut short uses the descriptor or its poll handle.
BeginNext == /\ JsIdle
             /\ nextPending
             /\ ~destroyed
             /\ pollCallbacksSinceLastMicrotask' = 0
             /\ UsesFd
             /\ UNCHANGED <<pollErrno, socketMaybeTakesMore, shutdownRequested, pollPending>>

NextDestroyed ==
  /\ JsIdle /\ nextPending /\ destroyed
  /\ nextPending' = FALSE
  /\ UNCHANGED <<kernelVars, streamVars, recvVars, sendVars, pollVars, endVars,
                 pollErrno, socketMaybeHasMore, socketMaybeTakesMore, phase,
                 pollCallbacksSinceLastMicrotask, shutdownRequested, uncaught, misuse>>

\* libuv reported an error: SO_ERROR, which is read and cleared, says which.
NextPollError ==
  /\ BeginNext
  /\ pollErrno
  /\ nextPending' = FALSE
  /\ skErr' = "none"
  /\ DestroyDuplex(IF skErr # "none" THEN skErr ELSE "EBADF")
  /\ UNCHANGED <<assoc, rcvQueue, arrived, notes, sndFull, localShut, everUp,
                 streamVars, recvVars, sendVars, socketMaybeHasMore, phase, uncaught>>

\* The early returns of tryReceiveNext.
MayReceive == /\ ~connected \/ mayPushData \/ shutdownRequested
              /\ ~remoteEnded
              /\ socketMaybeHasMore

\* Nothing is received: next() goes on to trySendNext.
ReceiveNothing ==
  /\ BeginNext
  /\ ~pollErrno
  /\ \/ ~MayReceive /\ UNCHANGED socketMaybeHasMore
     \/ MayReceive /\ RecvAgain /\ socketMaybeHasMore' = FALSE
  /\ nextPending' = FALSE
  /\ phase' = "send"
  /\ UNCHANGED <<kernelVars, streamVars, recvVars, sendVars, endVars,
                 lastEvents, uvEvents, uncaught>>

\* recv is called and its result handled: next() is scheduled again.
ReceiveHandled == /\ BeginNext
                  /\ ~pollErrno
                  /\ MayReceive
                  /\ nextPending' = TRUE
                  /\ UNCHANGED <<socketMaybeHasMore, phase, sendVars, writableVars>>

ReceiveError ==
  /\ ReceiveHandled
  /\ RecvError
  /\ skErr' = "none"
  /\ DestroyDuplex(skErr)
  /\ UNCHANGED <<assoc, rcvQueue, arrived, notes, sndFull, localShut, everUp,
                 readableVars, recvVars, uncaught>>

\* recv returned the head of the queue.
ReceiveEntry == /\ ReceiveHandled
                /\ rcvQueue # <<>>
                /\ rcvQueue' = Tail(rcvQueue)
                /\ UNCHANGED <<assoc, arrived, notes, skErr, sndFull, localShut, everUp>>

\* A notification; the first entry makes the duplex connected.  The code destroys
\* it if that entry is not an SCTP_ASSOC_CHANGE, or if there is none before the
\* end: the kernel reports every association's outcome first (SctpSocket.tla), so
\* these two branches have no step here.
ReceiveNotification ==
  /\ ReceiveEntry
  /\ Head(rcvQueue).kind \in NoteKinds
  /\ connected \/ Head(rcvQueue).kind = "assoc_change"
  /\ connected' = TRUE
  /\ connects' = connects + (IF connected THEN 0 ELSE 1)
  /\ UNCHANGED <<readRequested, mayPushData, remoteEnded, pushed,
                 readableVars, endVars, lastEvents, uvEvents, uncaught>>

ReceiveEof ==
  /\ ReceiveHandled
  /\ connected
  /\ RecvEof
  /\ remoteEnded' = TRUE
  /\ readRequested' = FALSE
  /\ PushNull
  /\ UNCHANGED <<kernelVars, mayPushData, connected, pushed, connects,
                 endVars, lastEvents, uvEvents, uncaught>>

\* Mutants: push()'s answer is ignored; messages are discarded after end().
ReceiveDataIgnoringAnswer ==
  /\ ReceiveEntry
  /\ connected
  /\ Head(rcvQueue).kind = "data"
  /\ pushed' = Append(pushed, Head(rcvQueue).id)
  /\ readRequested' = FALSE
  /\ \E n \in PushLengths : Push(n)
  /\ UNCHANGED <<mayPushData, remoteEnded, connected, connects, endVars,
                 lastEvents, uvEvents, uncaught>>
ReceiveDataUnlessEnding ==
  /\ ReceiveEntry
  /\ connected
  /\ Head(rcvQueue).kind = "data"
  /\ pushed' = IF shutdownRequested THEN pushed ELSE Append(pushed, Head(rcvQueue).id)
  /\ readRequested' = FALSE
  /\ \E n \in PushLengths : Push(n) /\ mayPushData' = TakesMore(n)
  /\ UNCHANGED <<remoteEnded, connected, connects, endVars, lastEvents, uvEvents, uncaught>>

\* A message goes to push(), which answers whether it takes more.  What the
\* application does inside push() (a "data" handler) is left to the steps that
\* follow: end(), write() and destroy() do not touch what this one changes, and
\* a read() made from there finds an empty buffer, so push() answers TRUE.
ReceiveData ==
  /\ ReceiveEntry
  /\ connected
  /\ Head(rcvQueue).kind = "data"
  /\ pushed' = Append(pushed, Head(rcvQueue).id)
  /\ readRequested' = FALSE
  /\ \E n \in PushLengths : Push(n) /\ mayPushData' = TakesMore(n)
  /\ UNCHANGED <<remoteEnded, connected, connects, endVars, lastEvents, uvEvents, uncaught>>

\* No MSG_EOR: next() throws out of the scheduler.
ReceiveOversize ==
  /\ BeginNext
  /\ ~pollErrno
  /\ MayReceive
  /\ connected
  /\ rcvQueue # <<>>
  /\ Head(rcvQueue).kind = "oversize"
  /\ uncaught' = TRUE
  /\ UNCHANGED <<kernelVars, streamVars, recvVars, sendVars, endVars, lastEvents, uvEvents,
                 socketMaybeHasMore, nextPending, phase>>

-------------------------------------------------------------------------------
\* next(), from trySendNext on.

EndNext == /\ phase = "send"
           /\ phase' = "idle"
           /\ UNCHANGED <<recvVars, readableVars, pollErrno, socketMaybeHasMore,
                          pollCallbacksSinceLastMicrotask, pollPending,
                          shutdownRequested, uncaught>>

\* Nothing is sent either: next() ends with updatePollEvents().
SendNothing ==
  /\ EndNext
  /\ \/ /\ sendQueue = <<>> \/ (~remoteEnded /\ ~socketMaybeTakesMore)
        /\ UNCHANGED <<socketMaybeTakesMore, misuse>>
     \/ /\ sendQueue # <<>> /\ ~remoteEnded /\ socketMaybeTakesMore
        /\ SendPossible /\ sndFull                              \* EAGAIN
        /\ socketMaybeTakesMore' = FALSE
        /\ UsesFd
  /\ PollerUpdate(Wanted)
  /\ UNCHANGED <<kernelVars, writableVars, sendVars, endVars, nextPending>>

\* The write fails; its callback with an error makes Node destroy the duplex.
SendAfterRemoteEnded ==
  /\ EndNext
  /\ sendQueue # <<>>
  /\ remoteEnded
  /\ sendQueue' = Tail(sendQueue)
  /\ writing' = FALSE
  /\ DestroyDuplex("remote ended")
  /\ nextPending' = TRUE
  /\ UNCHANGED <<kernelVars, written, taken, ending, finalCalled, finished,
                 sent, socketMaybeTakesMore, misuse>>

SendCalled == /\ EndNext
              /\ sendQueue # <<>> /\ ~remoteEnded /\ socketMaybeTakesMore
              /\ UsesFd
              /\ nextPending' = TRUE
              /\ UNCHANGED <<socketMaybeTakesMore, written, taken, ending, finalCalled, finished,
                             assoc, rcvQueue, arrived, notes, localShut, everUp>>

\* Mutant: the callback is called, the message stays in the queue.
SendSucceedsKeepsQueue ==
  /\ SendCalled
  /\ SendPossible /\ ~sndFull
  /\ sndFull' \in BOOLEAN
  /\ sent' = Append(sent, Head(sendQueue))
  /\ writing' = FALSE
  /\ UNCHANGED <<sendQueue, skErr, endVars, lastEvents, uvEvents>>

SendSucceeds ==
  /\ SendCalled
  /\ SendPossible /\ ~sndFull
  /\ sndFull' \in BOOLEAN
  /\ sent' = Append(sent, Head(sendQueue))
  /\ sendQueue' = Tail(sendQueue)
  /\ writing' = FALSE
  /\ UNCHANGED <<skErr, endVars, lastEvents, uvEvents>>

\* Mutant: EAGAIN is an error like the others.
SendErrorOnEagain ==
  /\ SendCalled
  /\ ~SendPossible \/ sndFull
  /\ \/ skErr # "none" /\ DestroyDuplex(skErr) /\ skErr' = "none"
     \/ \E e \in {"EPIPE", "ENOTCONN"} : DestroyDuplex(e) /\ UNCHANGED skErr
  /\ UNCHANGED <<sndFull, sendVars, writing>>

SendError ==
  /\ SendCalled
  /\ ~SendPossible
  /\ \/ skErr # "none" /\ DestroyDuplex(skErr) /\ skErr' = "none"
     \/ \E e \in {"EPIPE", "ENOTCONN"} : DestroyDuplex(e) /\ UNCHANGED skErr
  /\ UNCHANGED <<sndFull, sendVars, writing>>

RunNext == \/ NextDestroyed \/ NextPollError
           \/ ReceiveNothing \/ ReceiveError \/ ReceiveNotification
           \/ ReceiveEof \/ ReceiveData \/ ReceiveOversize
           \/ SendNothing \/ SendAfterRemoteEnded \/ SendSucceeds \/ SendError

-------------------------------------------------------------------------------
\* Poll events.

\* libuv calls the handle's callback.  With a pending socket error it stops the
\* handle first and reports a bad descriptor.
NativePollEvent ==
  /\ JsIdle
  /\ uvEvents # {}
  /\ ~pollPending.any
  /\ \/ /\ skErr # "none"
        /\ pollPending' = [events |-> {}, err |-> TRUE, any |-> TRUE]
        /\ uvEvents' = {}
     \/ /\ skErr = "none"
        /\ uvEvents \cap Ready # {}
        /\ pollPending' = [events |-> uvEvents \cap Ready, err |-> FALSE, any |-> TRUE]
        /\ UNCHANGED uvEvents
  /\ UNCHANGED <<kernelVars, streamVars, recvVars, sendVars, loopVars, endVars, lastEvents,
                 shutdownRequested, uncaught, misuse>>

\* Mutants: an event with an error counts as readiness; a second event leaves
\* the handle armed.
PollMicrotaskErrorIsReady ==
  /\ JsIdle
  /\ pollPending.any
  /\ ~destroyed
  /\ pollPending' = NoEvent
  /\ pollCallbacksSinceLastMicrotask' = 1
  /\ socketMaybeHasMore' = (socketMaybeHasMore \/ pollPending.err \/ "r" \in pollPending.events)
  /\ socketMaybeTakesMore' = (socketMaybeTakesMore \/ "w" \in pollPending.events)
  /\ nextPending' = TRUE
  /\ UNCHANGED <<pollErrno, phase, lastEvents, uvEvents, misuse,
                 kernelVars, streamVars, recvVars, sendVars, endVars, shutdownRequested, uncaught>>
PollMicrotaskStaysArmed ==
  /\ JsIdle
  /\ pollPending.any
  /\ ~destroyed
  /\ pollPending' = NoEvent
  /\ pollCallbacksSinceLastMicrotask' = pollCallbacksSinceLastMicrotask + 1
  /\ pollErrno' = (pollErrno \/ pollPending.err)
  /\ socketMaybeHasMore' = (socketMaybeHasMore \/ "r" \in pollPending.events)
  /\ socketMaybeTakesMore' = (socketMaybeTakesMore \/ "w" \in pollPending.events)
  /\ nextPending' = TRUE
  /\ UNCHANGED <<phase, lastEvents, uvEvents, misuse,
                 kernelVars, streamVars, recvVars, sendVars, endVars, shutdownRequested, uncaught>>

\* The poller's microtask: dropped after close(), else the duplex's callback.
\* A second event before next() has run disarms the handle.
PollMicrotask ==
  /\ JsIdle
  /\ pollPending.any
  /\ pollPending' = NoEvent
  /\ \/ /\ destroyed
        /\ UNCHANGED <<loopVars, lastEvents, uvEvents, misuse>>
     \/ /\ ~destroyed
        /\ pollCallbacksSinceLastMicrotask >= 1
        /\ pollCallbacksSinceLastMicrotask' = pollCallbacksSinceLastMicrotask + 1
        /\ PollerUpdate({})
        /\ UsesFd
        /\ UNCHANGED <<pollErrno, socketMaybeHasMore, socketMaybeTakesMore, nextPending, phase>>
     \/ /\ ~destroyed
        /\ pollCallbacksSinceLastMicrotask = 0
        /\ pollCallbacksSinceLastMicrotask' = 1
        /\ pollErrno' = (pollErrno \/ pollPending.err)
        /\ socketMaybeHasMore' = (socketMaybeHasMore \/ "r" \in pollPending.events)
        /\ socketMaybeTakesMore' = (socketMaybeTakesMore \/ "w" \in pollPending.events)
        /\ nextPending' = TRUE
        /\ UNCHANGED <<phase, lastEvents, uvEvents, misuse>>
  /\ UNCHANGED <<kernelVars, streamVars, recvVars, sendVars, endVars, shutdownRequested, uncaught>>

-------------------------------------------------------------------------------
\* The functions Node calls, on a duplex that is not destroyed.

NodeCalls == JsIdle /\ ~destroyed /\ UNCHANGED <<pollPending, uncaught>>

\* Mutant: read() does not schedule next().
ReadUnscheduled ==
  /\ NodeCalls
  /\ WantsRead
  /\ reading' = TRUE
  /\ mayPushData' = TRUE
  /\ readRequested' = TRUE
  /\ UNCHANGED <<kernelVars, rLen, rEnded, endEmitted, writableVars, remoteEnded, connected,
                 pushed, connects, sendVars, loopVars, lastEvents, uvEvents, endVars,
                 shutdownRequested, misuse>>

\* read.  An exception thrown by it destroys the duplex.
Read ==
  /\ NodeCalls
  /\ WantsRead
  /\ reading' = TRUE
  /\ \/ /\ remoteEnded
        /\ DestroyDuplex("BUG: read() called after ended")
        /\ UNCHANGED <<mayPushData, readRequested, nextPending>>
     \/ /\ ~remoteEnded
        /\ mayPushData' = TRUE
        /\ readRequested' = TRUE
        /\ nextPending' = TRUE
        /\ UNCHANGED <<endVars, lastEvents, uvEvents>>
  /\ UNCHANGED <<kernelVars, rLen, rEnded, endEmitted, writableVars, remoteEnded, connected,
                 pushed, connects, sendVars, pollErrno, socketMaybeHasMore, socketMaybeTakesMore,
                 pollCallbacksSinceLastMicrotask, phase, shutdownRequested, misuse>>

\* write
Write ==
  /\ NodeCalls
  /\ WantsWrite
  /\ taken' = taken + 1
  /\ writing' = TRUE
  /\ sendQueue' = Append(sendQueue, taken + 1)
  /\ nextPending' = TRUE
  /\ UNCHANGED <<kernelVars, readableVars, written, ending, finalCalled, finished, recvVars, sent,
                 pollErrno, socketMaybeHasMore, socketMaybeTakesMore, lastEvents, uvEvents, endVars,
                 pollCallbacksSinceLastMicrotask, phase, shutdownRequested, misuse>>

\* final: shut the association down, unless the peer did.  Its callback with an
\* error, like an exception, destroys the duplex.
Final ==
  /\ NodeCalls
  /\ WantsFinal
  /\ finalCalled' = TRUE
  /\ \/ /\ sendQueue # <<>>
        /\ DestroyDuplex("BUG: sendQueue not empty on final")
        /\ UNCHANGED <<localShut, shutdownRequested, nextPending, finished, misuse>>
     \/ /\ sendQueue = <<>> /\ ~remoteEnded /\ ~SendPossible
        /\ UsesFd
        /\ DestroyDuplex("ENOTCONN")
        /\ UNCHANGED <<localShut, shutdownRequested, nextPending, finished>>
     \/ /\ sendQueue = <<>>
        /\ \/ remoteEnded /\ UNCHANGED <<localShut, misuse>>
           \/ ~remoteEnded /\ assoc # "connecting" /\ localShut' = TRUE /\ UsesFd
        /\ shutdownRequested' = TRUE
        /\ nextPending' = TRUE
        /\ finished' = TRUE
        /\ UNCHANGED <<endVars, lastEvents, uvEvents>>
  /\ UNCHANGED <<assoc, rcvQueue, arrived, notes, skErr, sndFull, everUp, readableVars,
                 written, taken, writing, ending, recvVars, sendVars, pollErrno, socketMaybeHasMore,
                 socketMaybeTakesMore, pollCallbacksSinceLastMicrotask, phase>>

\* duplex.destroy(): by Node when both sides have ended, or by the application.
Destroyed(err) ==
  /\ NodeCalls
  /\ DestroyDuplex(err)
  /\ UNCHANGED <<kernelVars, streamVars, recvVars, sendVars, loopVars, shutdownRequested, misuse>>

AutoDestroy == WantsAutoDestroy /\ Destroyed("none")

AppDestroys == Destroyed("destroyed by the application")

\* status() and setNoDelay(), refused after destroy(), and the update of the
\* addresses, whose interval destroy() clears: calls on the descriptor that leave
\* the duplex as it is.
AskSocket ==
  /\ NodeCalls
  /\ UsesFd
  /\ UNCHANGED <<kernelVars, streamVars, recvVars, sendVars, loopVars, lastEvents, uvEvents, endVars,
                 shutdownRequested>>

\* Steps of the application and of Node that call none of the functions.
Stream ==
  /\ NodeCalls
  /\ StreamSteps
  /\ UNCHANGED <<kernelVars, recvVars, sendVars, loopVars, lastEvents, uvEvents, endVars,
                 shutdownRequested, misuse>>

Environment ==
  /\ Kernel
  /\ fd = "open"
  /\ UNCHANGED <<streamVars, recvVars, sendVars, loopVars, pollVars, endVars,
                 shutdownRequested, uncaught, misuse>>

Next == \/ RunNext \/ NativePollEvent \/ PollMicrotask
        \/ Read \/ Write \/ Final \/ AutoDestroy \/ AppDestroys \/ AskSocket
        \/ Stream \/ Environment

\* The event loop runs what is scheduled, Node calls the functions when due, an
\* application that reads and has ended is read from and closed, and the
\* network makes progress: handshakes end, a full send buffer drains, and a
\* shutdown begun here completes.  Nobody is forced to send, write or end.
Fairness ==
  /\ WF_vars(RunNext) /\ WF_vars(NativePollEvent) /\ WF_vars(PollMicrotask)
  /\ WF_vars(Read) /\ WF_vars(Write) /\ WF_vars(Final) /\ WF_vars(AutoDestroy)
  /\ WF_vars(Stream /\ AppConsumes) /\ WF_vars(Stream /\ EmitEnd)
  /\ WF_vars(Environment /\ (AssocUp \/ ConnectFails))
  /\ WF_vars(Environment /\ SendBufferDrains)
  /\ WF_vars(Environment /\ localShut /\ ShutdownCompletes)

Spec == Init /\ [][Next]_vars

FairSpec == Spec /\ Fairness

-------------------------------------------------------------------------------
\* Nothing is scheduled and no event is on its way: the duplex sleeps until the
\* next poll event or call.
Asleep == /\ phase = "idle" /\ ~nextPending /\ ~pollPending.any
          /\ ~destroyed /\ ~uncaught

\* The duplex never falls asleep on unfinished business: with the connection
\* not up, a read outstanding or a shutdown under way the handle is armed for
\* reading (and next() would push what arrives), and with a write outstanding
\* on a connected socket it is armed for writing.
NoLostWakeup ==
  Asleep =>
    /\ ~connected => "r" \in uvEvents
    /\ reading /\ ~remoteEnded => "r" \in uvEvents /\ (connected => mayPushData)
    /\ shutdownRequested /\ ~remoteEnded => "r" \in uvEvents
    /\ writing /\ connected => "w" \in uvEvents

\* What makes the properties around it inductive, in five parts.
\* A destroyed duplex is closed and disarmed, and next() is left before sending
\* if it was destroyed or threw.
ClosedInv == /\ destroyed <=> fd # "open"
             /\ destroyed => uvEvents = {}
             /\ phase = "send" => ~destroyed /\ ~uncaught /\ ~pollErrno

\* When next() has ended and nothing scheduled it again, the poller was last
\* told what the duplex wants.
SleepInv == ~destroyed /\ phase = "idle" /\ ~nextPending => lastEvents = Wanted /\ ~pollErrno

\* The poller's belief is wrong only while a poll error is on its way.
ArmedInv == /\ uvEvents \subseteq lastEvents
            /\ pollPending.err => pollPending.any
            /\ ~destroyed /\ ~pollErrno /\ ~pollPending.err => uvEvents = lastEvents

\* Poll events are counted only while a run of next() is due.
CountInv ==
  /\ phase = "send" => pollCallbacksSinceLastMicrotask = 0
  /\ ~destroyed /\ ~nextPending => pollCallbacksSinceLastMicrotask = 0
  /\ pollCallbacksSinceLastMicrotask = 2 => uvEvents = {} /\ ~pollPending.any

\* The code's own flags stand for what Node waits for.
RequestInv == /\ remoteEnded => connected
              /\ readRequested => mayPushData
              /\ ~destroyed /\ reading /\ ~remoteEnded => readRequested
              /\ ~destroyed /\ writing => sendQueue # <<>>

WakeupInv == ClosedInv /\ SleepInv /\ ArmedInv /\ CountInv /\ RequestInv

\* The converse: asleep, the handle is armed only for directions in which
\* next() will make a system call, so a level-triggered event cannot spin.
NoBusyPoll ==
  Asleep =>
    /\ "r" \in uvEvents => ~remoteEnded /\ (~connected \/ mayPushData \/ shutdownRequested)
    /\ "w" \in uvEvents => sendQueue # <<>>

\* When next() is held back by the macrotask budget, a second poll event disarms
\* the handle, so that events cannot go on starving the loop.
PollLoopBroken == pollCallbacksSinceLastMicrotask > 1 => uvEvents = {}

\* No system call on the descriptor and no call of the poll handle after close.
NoUseAfterClose == ~misuse

\* The states the code calls a BUG do not occur.
NoBugError == error \notin BugErrors

\* Only a dead association, or one that is not up yet, is given up for an error
\* of the socket; and the error told is the socket's, never libuv's EBADF.
ErrorHasCause ==
  /\ error # "EBADF"
  /\ error \in SocketErrors \cup {"EPIPE"} => assoc = "closed"
  /\ error = "ENOTCONN" => assoc # "up"

\* "connect" is emitted at most once, and only for an association that came up,
\* although any SCTP_ASSOC_CHANGE makes the duplex connected.
ConnectMeansUp == connects <= 1 /\ (connects = 1 => everUp)

\* The messages in q, among its notifications, are those numbered first to last,
\* in order.
MessagePlaces(q) == {i \in 1..Len(q) : q[i].kind \in {"data", "oversize"}}
HoldsMessages(q, first, last) ==
  /\ {q[i].id : i \in MessagePlaces(q)} = first..last
  /\ \A i, j \in MessagePlaces(q) : i < j => q[i].id < q[j].id

\* Messages reach push() in the order they arrived, none lost or duplicated:
\* those pushed are the first ones, and the queue holds exactly the others.
InboundInOrder ==
  /\ pushed = [i \in 1..Len(pushed) |-> i]
  /\ Len(pushed) <= arrived
  /\ HoldsMessages(rcvQueue, Len(pushed) + 1, arrived)

\* Messages reach the kernel in the order they were written, each once.
OutboundInOrder ==
  error # "remote ended" => sent \o sendQueue = [i \in 1..taken |-> i]

\* Until the application ends, push() is called only when the stream asked.
Backpressure == ~shutdownRequested => rLen <= HighWaterMark

\* The association is aborted only for an error or by the application; a duplex
\* that closed without an error has handed every written message to the kernel.
GracefulClose == destroyed /\ error = "none" => fd = "closed" /\ Len(sent) = written

\* An outstanding write ends: it is sent, or the duplex is destroyed.
WriteCompletes == writing ~> (~writing \/ destroyed)

\* A message that waits while the stream wants one is pushed.
ReadServed == (reading /\ rcvQueue # <<>>) ~> (~reading \/ rcvQueue = <<>> \/ destroyed)

\* After end() the duplex closes; and a duplex that is read notices the end of
\* the association and closes.
EndCloses == ending ~> destroyed
PeerEndCloses == (assoc = "closed") ~> destroyed

\* The duplex seen as a port (DuplexPort.tla): every step of it is one of the
\* port's or changes nothing there, and under the fairness of the event loop the
\* port's fairness holds.
Port == INSTANCE DuplexPort
          WITH Causes <- Errors \ {"none"},
               link <- CASE assoc = "connecting" -> "coming" [] assoc = "up" -> "up"
                         [] assoc = "closed" -> "gone",
               delivered <- pushed,
               accepted <- taken,
               ended <- remoteEnded,
               finished <- shutdownRequested,
               port <- fd

ImplementsPort == Port!Spec
===============================================================================

--------------------------- MODULE DuplexPortProofs ---------------------------
(***************************************************************************)
(* Proofs about the messages that pass through SocketDuplex, for all       *)
(* values of its constants: order in both directions, backpressure, what   *)
(* the duplex is destroyed with and when, and that each of its steps is    *)
(* one of DuplexPort.tla or changes nothing there.                         *)
(* The invariant has five parts, each about one group of variables.  For   *)
(* each group one lemma names the actions that touch it, and one says that *)
(* these keep the part.                                                    *)
(***************************************************************************)
EXTENDS SocketDuplexProofs

\* The writable side: the queue holds the one message whose callback is
\* outstanding; final is called when there is none, and shuts down only then.
WriteInv ==
  /\ sendQueue = IF writing THEN <<taken>> ELSE <<>>
  /\ writing => taken > 0
  /\ taken <= written
  /\ finalCalled => ending /\ ~writing /\ taken = written
  /\ shutdownRequested => finalCalled
  /\ finished <=> shutdownRequested
  /\ localShut => shutdownRequested /\ assoc # "connecting"

\* What was given to the kernel, and what a duplex closed without an error leaves.
SentInv ==
  /\ error # "remote ended" =>
       sent = [i \in 1..(IF writing THEN taken - 1 ELSE taken) |-> i]
  /\ ~destroyed => error = "none"
  /\ GracefulClose

\* The readable side.
ReadInv ==
  /\ rEnded <=> remoteEnded
  /\ endEmitted => rEnded
  /\ mayPushData => rLen < HighWaterMark
  /\ Backpressure

\* Where errors come from: a pending socket error belongs to a dead association
\* and stays until it is reported, and writing is only reported possible for an
\* association that came up or died.
CauseInv ==
  /\ skErr # "none" => assoc = "closed"
  /\ ~destroyed /\ (pollErrno \/ pollPending.err) => skErr # "none"
  /\ socketMaybeTakesMore => assoc # "connecting"
  /\ "w" \in pollPending.events => assoc # "connecting"
  /\ ErrorHasCause
  /\ NoBugError

\* Nothing is received from an association that never came up: until the
\* handshake ends there is nothing to receive, and when it fails the error is
\* reported first.
ConnectInv ==
  /\ everUp \/ destroyed \/ (assoc = "connecting" /\ rcvQueue = <<>>) \/ skErr # "none"
  /\ socketMaybeHasMore \/ "r" \in pollPending.events \/ connected => everUp
  /\ connects = 0 \/ (connects = 1 /\ connected)

DataInv == WriteInv /\ SentInv /\ ReadInv /\ CauseInv /\ ConnectInv /\ InboundInOrder

USE SocketAssumption, StreamAssumption, RolesAssumption

USE DEF vars, kernelVars, streamVars, readableVars, writableVars, recvVars, sendVars,
        loopVars, pollVars, endVars

-------------------------------------------------------------------------------
\* Sequences of one message, and of the first n numbers.

LEMMA Singletons ==
  ASSUME NEW x
  PROVE  <<x>> # <<>> /\ Head(<<x>>) = x /\ Tail(<<x>>) = <<>> /\ Append(<<>>, x) = <<x>>
OBVIOUS

LEMMA AppendNext ==
  ASSUME NEW n \in Nat
  PROVE  /\ Append([i \in 1..n |-> i], n + 1) = [i \in 1..(n + 1) |-> i]
         /\ Len([i \in 1..n |-> i]) = n
OBVIOUS

-------------------------------------------------------------------------------
\* What HoldsMessages says of a queue to which an entry is added, or whose head
\* is taken.

LEMMA AppendPlaces ==
  ASSUME NEW q \in Seq(Entries), NEW e \in Entries, NEW t \in {Append(q, e)}
  PROVE  /\ Len(q) \in Nat /\ t[Len(q) + 1] = e
         /\ \A i \in MessagePlaces(q) : t[i] = q[i] /\ i \in Nat /\ i <= Len(q)
         /\ e.kind \in {"data", "oversize"} => MessagePlaces(t) = MessagePlaces(q) \cup {Len(q) + 1}
         /\ e.kind \in NoteKinds => MessagePlaces(t) = MessagePlaces(q)
<1>1. /\ \A i \in 1..Len(q) : t[i] = q[i]
      /\ Len(t) = Len(q) + 1 /\ t[Len(q) + 1] = e
  OBVIOUS
<1>. QED BY <1>1 DEF MessagePlaces, NoteKinds

LEMMA TailPlaces ==
  ASSUME NEW q \in Seq(Entries), q # <<>>, NEW t \in {Tail(q)}
  PROVE  /\ \A i \in MessagePlaces(t) :
              i \in Nat /\ i >= 1 /\ i + 1 \in MessagePlaces(q) /\ t[i] = q[i + 1]
         /\ \A i \in MessagePlaces(q) :
              /\ i \in Nat /\ i >= 1
              /\ i # 1 => i - 1 \in MessagePlaces(t) /\ t[i - 1] = q[i]
<1>1. /\ \A i \in 1..Len(t) : t[i] = q[i + 1] /\ i + 1 \in 1..Len(q)
      /\ \A i \in 1..Len(q) : i # 1 => i - 1 \in 1..Len(t) /\ t[i - 1] = q[i]
  OBVIOUS
<1>. QED BY <1>1 DEF MessagePlaces

LEMMA NoteArrives ==
  ASSUME NEW q \in Seq(Entries), NEW m \in Nat, NEW n \in Nat, HoldsMessages(q, m, n),
         NEW e \in Entries, e.kind \in NoteKinds
  PROVE  HoldsMessages(Append(q, e), m, n)
<1>0. PICK t : t = Append(q, e)
  OBVIOUS
<1>1. t \in {Append(q, e)}
  BY <1>0
<1>2. MessagePlaces(t) = MessagePlaces(q)
  BY <1>1, AppendPlaces, Zenon
<1>3. \A i \in MessagePlaces(q) : t[i] = q[i] /\ i \in Nat /\ i <= Len(q)
  BY <1>1, AppendPlaces, Zenon
<1>4. HoldsMessages(t, m, n)
  BY <1>2, <1>3 DEF HoldsMessages
<1>. QED BY <1>0, <1>4

LEMMA MessageArrives ==
  ASSUME NEW q \in Seq(Entries), NEW m \in Nat, NEW n \in Nat, HoldsMessages(q, m, n), m <= n + 1,
         NEW e \in Entries, e.kind \in {"data", "oversize"}, e.id = n + 1
  PROVE  HoldsMessages(Append(q, e), m, n + 1)
<1>0. PICK t : t = Append(q, e)
  OBVIOUS
<1>1. t \in {Append(q, e)}
  BY <1>0
<1>2. /\ MessagePlaces(t) = MessagePlaces(q) \cup {Len(q) + 1}
      /\ \A i \in MessagePlaces(q) : t[i] = q[i] /\ i \in Nat /\ i <= Len(q)
      /\ t[Len(q) + 1] = e /\ Len(q) \in Nat
  BY <1>1, AppendPlaces, Zenon
<1>3. \A i \in MessagePlaces(q) : q[i].id \in m..n
  BY DEF HoldsMessages
<1>4. {t[i].id : i \in MessagePlaces(t)} = m..(n + 1)
  <2>1. {t[i].id : i \in MessagePlaces(t)} = (m..n) \cup {n + 1}
    BY <1>2 DEF HoldsMessages
  <2>2. (m..n) \cup {n + 1} = m..(n + 1)
    OBVIOUS
  <2>. QED BY <2>1, <2>2
<1>5. ASSUME NEW i \in MessagePlaces(t), NEW j \in MessagePlaces(t), i < j
      PROVE  t[i].id < t[j].id
  <2>1. i \in MessagePlaces(q)
    BY <1>2, <1>5
  <2>2. CASE j \in MessagePlaces(q)
    BY <1>2, <1>5, <2>1, <2>2 DEF HoldsMessages
  <2>3. CASE j = Len(q) + 1
    <3>1. t[i] = q[i] /\ t[j] = e
      BY <1>2, <2>1, <2>3, Zenon
    <3>2. q[i].id \in m..n
      BY <1>3, <2>1, Zenon
    <3>. QED BY <3>1, <3>2
  <2>. QED BY <1>2, <2>2, <2>3
<1>6. HoldsMessages(t, m, n + 1)
  BY <1>4, <1>5 DEF HoldsMessages
<1>. QED BY <1>0, <1>6

LEMMA NoteTaken ==
  ASSUME NEW q \in Seq(Entries), NEW m \in Nat, NEW n \in Nat, HoldsMessages(q, m, n),
         q # <<>>, Head(q).kind \in NoteKinds
  PROVE  HoldsMessages(Tail(q), m, n)
<1>0. PICK t : t = Tail(q)
  OBVIOUS
<1>1. t \in {Tail(q)}
  BY <1>0
<1>2. /\ \A i \in MessagePlaces(t) :
           i \in Nat /\ i >= 1 /\ i + 1 \in MessagePlaces(q) /\ t[i] = q[i + 1]
      /\ \A i \in MessagePlaces(q) :
           /\ i \in Nat /\ i >= 1
           /\ i # 1 => i - 1 \in MessagePlaces(t) /\ t[i - 1] = q[i]
  BY <1>1, TailPlaces, Zenon
<1>3. 1 \notin MessagePlaces(q)
  BY DEF NoteKinds, MessagePlaces
<1>4. {t[i].id : i \in MessagePlaces(t)} = {q[i].id : i \in MessagePlaces(q)}
  <2>1. ASSUME NEW i \in MessagePlaces(q) PROVE \E j \in MessagePlaces(t) : t[j].id = q[i].id
    BY <1>2, <1>3
  <2>2. ASSUME NEW j \in MessagePlaces(t) PROVE \E i \in MessagePlaces(q) : t[j].id = q[i].id
    BY <1>2
  <2>. QED BY <2>1, <2>2
<1>5. \A i, j \in MessagePlaces(t) : i < j => t[i].id < t[j].id
  BY <1>2 DEF HoldsMessages
<1>6. HoldsMessages(t, m, n)
  BY <1>4, <1>5 DEF HoldsMessages
<1>. QED BY <1>0, <1>6

\* The message at the head is the first of those the queue holds.
LEMMA MessageTaken ==
  ASSUME NEW q \in Seq(Entries), NEW m \in Nat, NEW n \in Nat, HoldsMessages(q, m, n),
         q # <<>>, Head(q).kind = "data"
  PROVE  Head(q).id = m /\ m <= n /\ HoldsMessages(Tail(q), m + 1, n)
<1>0. PICK t : t = Tail(q)
  OBVIOUS
<1>1. t \in {Tail(q)}
  BY <1>0
<1>2. /\ \A i \in MessagePlaces(t) :
           i \in Nat /\ i >= 1 /\ i + 1 \in MessagePlaces(q) /\ t[i] = q[i + 1]
      /\ \A i \in MessagePlaces(q) :
           /\ i \in Nat /\ i >= 1
           /\ i # 1 => i - 1 \in MessagePlaces(t) /\ t[i - 1] = q[i]
  BY <1>1, TailPlaces, Zenon
<1>3. 1 \in MessagePlaces(q) /\ q[1] = Head(q)
  BY DEF MessagePlaces
<1>4. /\ \A i \in MessagePlaces(q) : q[i].id \in m..n
      /\ \A k \in m..n : \E i \in MessagePlaces(q) : q[i].id = k
      /\ \A i, j \in MessagePlaces(q) : i < j => q[i].id < q[j].id
  BY DEF HoldsMessages
<1>5. \A i \in MessagePlaces(q) : i # 1 => q[1].id < q[i].id
  BY <1>2, <1>3, <1>4
<1>6. q[1].id = m /\ m <= n
  <2>1. m \in m..n
    BY <1>3, <1>4
  <2>. QED BY <1>3, <1>4, <1>5, <2>1
<1>7. {t[i].id : i \in MessagePlaces(t)} = (m + 1)..n
  <2>1. ASSUME NEW i \in MessagePlaces(t) PROVE t[i].id \in (m + 1)..n
    <3>1. i + 1 \in MessagePlaces(q) /\ i + 1 # 1 /\ t[i] = q[i + 1]
      BY <1>2
    <3>. QED BY <1>4, <1>5, <1>6, <3>1
  <2>2. ASSUME NEW k \in (m + 1)..n PROVE \E i \in MessagePlaces(t) : t[i].id = k
    <3>1. PICK i \in MessagePlaces(q) : q[i].id = k
      BY <1>4
    <3>. QED BY <1>2, <1>6, <3>1
  <2>. QED BY <2>1, <2>2
<1>8. ASSUME NEW i \in MessagePlaces(t), NEW j \in MessagePlaces(t), i < j
      PROVE  t[i].id < t[j].id
  <2>1. i + 1 \in MessagePlaces(q) /\ j + 1 \in MessagePlaces(q) /\ i + 1 < j + 1
    BY <1>2, <1>8
  <2>2. t[i] = q[i + 1] /\ t[j] = q[j + 1]
    BY <1>2, Zenon
  <2>. QED BY <1>4, <2>1, <2>2
<1>9. HoldsMessages(t, m + 1, n)
  BY <1>7, <1>8 DEF HoldsMessages
<1>. QED BY <1>0, <1>3, <1>6, <1>9
-------------------------------------------------------------------------------
\* Which actions touch which variables.

\* The actions that touch the writable side.
LEMMA SendFrame ==
  Next => \/ UNCHANGED <<sendQueue, written, taken, writing, ending, finalCalled, finished,
                          shutdownRequested, localShut, sent>>
          \/ SendAfterRemoteEnded \/ SendSucceeds \/ Write \/ Final \/ Stream
<1>1. CASE NextDestroyed
  BY <1>1 DEF NextDestroyed
<1>2. CASE NextPollError \/ ReceiveNothing
  BY <1>2 DEF NextPollError, ReceiveNothing, BeginNext
<1>3. CASE ReceiveError
  BY <1>3 DEF ReceiveError, ReceiveHandled, BeginNext
<1>4. CASE ReceiveNotification \/ ReceiveEof \/ ReceiveData \/ ReceiveOversize
  BY <1>4 DEF ReceiveNotification, ReceiveEof, ReceiveData, ReceiveOversize, ReceiveEntry,
     ReceiveHandled, BeginNext
<1>5. CASE SendNothing \/ SendError
  BY <1>5 DEF SendNothing, SendError, SendCalled, EndNext
<1>6. CASE NativePollEvent \/ PollMicrotask \/ AskSocket
  BY <1>6 DEF NativePollEvent, PollMicrotask, AskSocket
<1>7. CASE Read \/ AutoDestroy \/ AppDestroys
  BY <1>7 DEF Read, AutoDestroy, AppDestroys, Destroyed
<1>8. CASE Environment
  BY <1>8 DEF Environment, Kernel, AssocUp, ConnectFails, PeerSends, KernelNotifies,
     ShutdownCompletes, AssocLost, SendBufferDrains
<1>. QED BY <1>1, <1>2, <1>3, <1>4, <1>5, <1>6, <1>7, <1>8 DEF Next, RunNext

\* Those that touch the readable side.
LEMMA ReadFrame ==
  Next => \/ UNCHANGED <<rLen, rEnded, endEmitted, mayPushData, remoteEnded, shutdownRequested>>
          \/ ReceiveEof \/ ReceiveData \/ Read \/ Final \/ Stream
<1>1. CASE NextDestroyed
  BY <1>1 DEF NextDestroyed
<1>2. CASE NextPollError \/ ReceiveNothing
  BY <1>2 DEF NextPollError, ReceiveNothing, BeginNext
<1>3. CASE ReceiveError
  BY <1>3 DEF ReceiveError, ReceiveHandled, BeginNext
<1>4. CASE ReceiveNotification \/ ReceiveOversize
  BY <1>4 DEF ReceiveNotification, ReceiveOversize, ReceiveEntry, ReceiveHandled, BeginNext,
     Push
<1>5. CASE SendNothing \/ SendAfterRemoteEnded \/ SendSucceeds \/ SendError
  BY <1>5 DEF SendNothing, SendAfterRemoteEnded, SendSucceeds, SendError, SendCalled, EndNext
<1>6. CASE NativePollEvent \/ PollMicrotask \/ AskSocket
  BY <1>6 DEF NativePollEvent, PollMicrotask, AskSocket
<1>7. CASE Write \/ AutoDestroy \/ AppDestroys
  BY <1>7 DEF Write, AutoDestroy, AppDestroys, Destroyed
<1>8. CASE Environment
  BY <1>8 DEF Environment, Kernel, AssocUp, ConnectFails, PeerSends, KernelNotifies,
     ShutdownCompletes, AssocLost, SendBufferDrains
<1>. QED BY <1>1, <1>2, <1>3, <1>4, <1>5, <1>6, <1>7, <1>8 DEF Next, RunNext

\* Those that touch what arrived and what was pushed.
LEMMA QueueFrame ==
  Next => \/ UNCHANGED <<rcvQueue, arrived, pushed>>
          \/ ReceiveNotification \/ ReceiveData \/ Environment
<1>1. CASE NextDestroyed
  BY <1>1 DEF NextDestroyed
<1>2. CASE NextPollError \/ ReceiveNothing
  BY <1>2 DEF NextPollError, ReceiveNothing, BeginNext
<1>3. CASE ReceiveError
  BY <1>3 DEF ReceiveError, ReceiveHandled, BeginNext
<1>4. CASE ReceiveEof \/ ReceiveOversize
  BY <1>4 DEF ReceiveEof, ReceiveOversize, ReceiveHandled, BeginNext
<1>5. CASE SendNothing \/ SendAfterRemoteEnded \/ SendSucceeds \/ SendError
  BY <1>5 DEF SendNothing, SendAfterRemoteEnded, SendSucceeds, SendError, SendCalled, EndNext
<1>6. CASE NativePollEvent \/ PollMicrotask \/ AskSocket
  BY <1>6 DEF NativePollEvent, PollMicrotask, AskSocket
<1>7. CASE Read \/ Write \/ Final \/ AutoDestroy \/ AppDestroys
  BY <1>7 DEF Read, Write, Final, AutoDestroy, AppDestroys, Destroyed
<1>8. CASE Stream
  BY <1>8 DEF Stream, StreamSteps, AppWrites, AppEnds, AppConsumes, EmitEnd
<1>. QED BY <1>1, <1>2, <1>3, <1>4, <1>5, <1>6, <1>7, <1>8 DEF Next, RunNext

\* Those that touch the socket's error and what makes one be looked for.
LEMMA CauseFrame ==
  Next => \/ UNCHANGED <<skErr, pollErrno, pollPending, socketMaybeTakesMore>>
          \/ NextPollError \/ ReceiveError \/ SendNothing \/ SendError \/ NativePollEvent
             \/ PollMicrotask \/ Environment
<1>1. CASE NextDestroyed
  BY <1>1 DEF NextDestroyed
<1>2. CASE ReceiveNothing
  BY <1>2 DEF ReceiveNothing, BeginNext
<1>3. CASE ReceiveNotification \/ ReceiveEof \/ ReceiveData \/ ReceiveOversize
  BY <1>3 DEF ReceiveNotification, ReceiveEof, ReceiveData, ReceiveOversize, ReceiveEntry,
     ReceiveHandled, BeginNext
<1>4. CASE SendAfterRemoteEnded \/ SendSucceeds
  BY <1>4 DEF SendAfterRemoteEnded, SendSucceeds, SendCalled, EndNext
<1>5. CASE AskSocket
  BY <1>5 DEF AskSocket, NodeCalls
<1>6. CASE Read \/ Write \/ Final \/ AutoDestroy \/ AppDestroys
  BY <1>6 DEF Read, Write, Final, AutoDestroy, AppDestroys, Destroyed, NodeCalls
<1>7. CASE Stream
  BY <1>7 DEF Stream, NodeCalls, StreamSteps, AppWrites, AppEnds, AppConsumes, EmitEnd
<1>. QED BY <1>1, <1>2, <1>3, <1>4, <1>5, <1>6, <1>7 DEF Next, RunNext

\* Those that touch the connection's state and the readiness to read.
LEMMA ConnectFrame ==
  Next => \/ UNCHANGED <<everUp, assoc, socketMaybeHasMore, connected, connects>>
          \/ ReceiveNothing \/ ReceiveNotification \/ PollMicrotask \/ Environment
<1>1. CASE NextDestroyed
  BY <1>1 DEF NextDestroyed
<1>2. CASE NextPollError
  BY <1>2 DEF NextPollError, BeginNext
<1>3. CASE ReceiveError
  BY <1>3 DEF ReceiveError, ReceiveHandled, BeginNext
<1>4. CASE ReceiveEof \/ ReceiveData \/ ReceiveOversize
  BY <1>4 DEF ReceiveEof, ReceiveData, ReceiveOversize, ReceiveEntry, ReceiveHandled,
     BeginNext
<1>5. CASE SendNothing \/ SendAfterRemoteEnded \/ SendSucceeds \/ SendError
  BY <1>5 DEF SendNothing, SendAfterRemoteEnded, SendSucceeds, SendError, SendCalled, EndNext
<1>6. CASE NativePollEvent \/ AskSocket
  BY <1>6 DEF NativePollEvent, AskSocket
<1>7. CASE Read \/ Write \/ Final \/ AutoDestroy \/ AppDestroys
  BY <1>7 DEF Read, Write, Final, AutoDestroy, AppDestroys, Destroyed
<1>8. CASE Stream
  BY <1>8 DEF Stream, StreamSteps, AppWrites, AppEnds, AppConsumes, EmitEnd
<1>. QED BY <1>1, <1>2, <1>3, <1>4, <1>5, <1>6, <1>7, <1>8 DEF Next, RunNext

-------------------------------------------------------------------------------
\* How a duplex ends.

\* It was open, what was exchanged stays as it is, and the cause is true.
Destroys ==
  /\ ~destroyed /\ destroyed' = TRUE
  /\ fd = "open" /\ fd' = IF shutdownRequested THEN "closed" ELSE "aborted"
  /\ UNCHANGED <<assoc, everUp, arrived, pushed, taken, written, sent, remoteEnded, shutdownRequested>>
  /\ \/ error' \in SocketErrors \cup {"EPIPE"} /\ assoc = "closed"
     \/ error' = "ENOTCONN" /\ assoc # "up"
     \/ error' = "remote ended"
     \/ error' = "destroyed by the application"
     \/ error' = "none" /\ finished /\ endEmitted
  /\ writing' = writing \/ error' = "remote ended"

LEMMA Sending ==
  ASSUME IInv, DataInv, sendQueue # <<>>
  PROVE  writing /\ taken > 0 /\ ~finalCalled /\ ~shutdownRequested /\ ~localShut
         /\ Head(sendQueue) = taken /\ Tail(sendQueue) = <<>>
BY Singletons DEF DataInv, WriteInv

LEMMA EndStep ==
  ASSUME IInv, DataInv, Next
  PROVE  UNCHANGED endVars \/ Destroys
<1> USE DEF JsIdle
<1>0. destroyed <=> fd # "open"
  BY DEF IInv, WakeupInv, ClosedInv
<1>1. CASE NextDestroyed
  BY <1>1 DEF NextDestroyed
<1>2. CASE NextPollError
  <2>1. skErr # "none" /\ assoc = "closed" /\ skErr \in SocketErrors
    BY <1>2 DEF NextPollError, BeginNext, DataInv, CauseInv, IInv, TypeOK, KernelTypeOK
  <2>. QED
    BY <1>0, <1>2, <2>1 DEF NextPollError, BeginNext, DestroyDuplex, Destroys
<1>3. CASE ReceiveNothing
  BY <1>3 DEF ReceiveNothing
<1>4. CASE ReceiveError
  <2>1. skErr # "none" /\ assoc = "closed" /\ skErr \in SocketErrors
    BY <1>4 DEF ReceiveError, RecvError, DataInv, CauseInv, IInv, TypeOK, KernelTypeOK
  <2>. QED
    BY <1>0, <1>4, <2>1 DEF ReceiveError, ReceiveHandled, BeginNext, DestroyDuplex, Destroys
<1>5. CASE ReceiveNotification \/ ReceiveEof \/ ReceiveData \/ ReceiveOversize
  BY <1>5 DEF ReceiveNotification, ReceiveEof, ReceiveData, ReceiveOversize
<1>6. CASE SendNothing \/ SendSucceeds
  BY <1>6 DEF SendNothing, SendSucceeds
<1>7. CASE SendAfterRemoteEnded
  <2>1. ~destroyed
    BY <1>7 DEF SendAfterRemoteEnded, EndNext, IInv, WakeupInv, ClosedInv
  <2>. QED
    BY <1>0, <1>7, <2>1 DEF SendAfterRemoteEnded, EndNext, DestroyDuplex, Destroys
<1>8. CASE SendError
  <2>1. ~destroyed /\ ~localShut /\ assoc = "closed"
    BY <1>8, Sending DEF SendError, SendCalled, EndNext, SendPossible, IInv, WakeupInv, ClosedInv,
       DataInv, CauseInv, TypeOK, KernelTypeOK
  <2>2. skErr # "none" => skErr \in SocketErrors
    BY DEF IInv, TypeOK, KernelTypeOK
  <2>. QED
    BY <1>0, <1>8, <2>1, <2>2 DEF SendError, SendCalled, EndNext, DestroyDuplex, Destroys
<1>9. CASE NativePollEvent \/ PollMicrotask \/ AskSocket
  BY <1>9 DEF NativePollEvent, PollMicrotask, AskSocket
<1>10. CASE Read
  <2>1. ~remoteEnded
    BY <1>10 DEF Read, WantsRead, DataInv, ReadInv
  <2>. QED BY <1>10, <2>1 DEF Read
<1>11. CASE Write
  BY <1>11 DEF Write
<1>12. CASE Final
  <2>1. sendQueue = <<>> /\ ~localShut /\ ~destroyed
    BY <1>12 DEF Final, NodeCalls, WantsFinal, DataInv, WriteInv
  <2>2. UNCHANGED endVars
        \/ (~SendPossible /\ DestroyDuplex("ENOTCONN") /\ UNCHANGED shutdownRequested)
    BY <1>12, <2>1 DEF Final
  <2>. QED
    BY <1>0, <1>12, <2>1, <2>2 DEF Final, SendPossible, DestroyDuplex, Destroys
<1>13. CASE AutoDestroy
  BY <1>0, <1>13 DEF AutoDestroy, WantsAutoDestroy, Destroyed, NodeCalls, DestroyDuplex, Destroys
<1>14. CASE AppDestroys
  BY <1>0, <1>14 DEF AppDestroys, Destroyed, NodeCalls, DestroyDuplex, Destroys
<1>15. CASE Stream
  BY <1>15 DEF Stream
<1>16. CASE Environment
  BY <1>16 DEF Environment
<1>. QED
  BY <1>1, <1>2, <1>3, <1>4, <1>5, <1>6, <1>7, <1>8, <1>9, <1>10, <1>11, <1>12, <1>13, <1>14,
     <1>15, <1>16 DEF Next, RunNext

\* The association only goes forward, and stands still once the duplex is destroyed.
LEMMA AssocStep ==
  ASSUME IInv, Next
  PROVE  \/ UNCHANGED assoc
         \/ assoc # "closed" /\ assoc' \in {"up", "closed"} /\ ~destroyed /\ ~destroyed'
<1>1. CASE Environment
  <2>1. ~destroyed /\ ~destroyed'
    BY <1>1 DEF Environment, IInv, WakeupInv, ClosedInv
  <2>. QED
    BY <1>1, <2>1 DEF Environment, Kernel, AssocUp, ConnectFails, PeerSends, KernelNotifies,
       ShutdownCompletes, AssocLost, SendBufferDrains
<1>2. CASE ReceiveNothing \/ ReceiveNotification \/ PollMicrotask
  BY <1>2 DEF ReceiveNothing, ReceiveNotification, ReceiveEntry, PollMicrotask
<1>. QED BY <1>1, <1>2, ConnectFrame

-------------------------------------------------------------------------------
\* One lemma per part of the invariant.

LEMMA WriteStep == ASSUME IInv, DataInv, Next PROVE WriteInv'
<1> USE DEF DataInv, WriteInv
<1>1. localShut' => localShut \/ (Final /\ assoc # "connecting")
  <2>1. CASE Stream \/ Write
    BY <2>1 DEF Stream, Write
  <2>2. CASE SendAfterRemoteEnded \/ SendSucceeds
    BY <2>2 DEF SendAfterRemoteEnded, SendSucceeds, SendCalled
  <2>3. CASE Final
    BY <2>3 DEF Final
  <2>. QED BY <2>1, <2>2, <2>3, SendFrame
<1>2. localShut' => assoc' # "connecting"
  BY <1>1, AssocStep
<1>3. taken \in Nat /\ written \in Nat
  BY DEF IInv, TypeOK, StreamTypeOK
<1>4. CASE UNCHANGED <<sendQueue, written, taken, writing, ending, finalCalled, finished,
                       shutdownRequested, localShut>>
  BY <1>2, <1>4
<1>5. CASE SendAfterRemoteEnded
  BY <1>2, <1>5, Sending DEF SendAfterRemoteEnded, EndNext
<1>6. CASE SendSucceeds
  BY <1>2, <1>6, Sending DEF SendSucceeds, SendCalled, EndNext
<1>7. CASE Write
  <2>1. sendQueue' = <<taken + 1>>
    BY <1>7, Singletons DEF Write, WantsWrite
  <2>. QED BY <1>2, <1>3, <1>7, <2>1 DEF Write, WantsWrite
<1>8. CASE Final
  <2>1. /\ ending /\ ~writing /\ taken = written /\ sendQueue = <<>>
        /\ UNCHANGED <<written, taken, writing, ending, sendQueue>> /\ finalCalled' = TRUE
    BY <1>8 DEF Final, WantsFinal
  <2>2. \/ UNCHANGED <<shutdownRequested, finished, localShut>>
        \/ shutdownRequested' = TRUE /\ finished' = TRUE
    BY <1>8, <2>1 DEF Final
  <2>3. sendQueue' = IF writing' THEN <<taken'>> ELSE <<>>
    BY <2>1
  <2>4. (finished <=> shutdownRequested)' /\ (localShut => shutdownRequested)'
    BY <2>2
  <2>. QED BY <1>2, <2>1, <2>3, <2>4
<1>9. CASE Stream
  BY <1>2, <1>3, <1>9 DEF Stream, StreamSteps, AppWrites, AppEnds, AppConsumes, EmitEnd
<1>. QED BY <1>4, <1>5, <1>6, <1>7, <1>8, <1>9, SendFrame

LEMMA SentStep == ASSUME IInv, DataInv, Next PROVE SentInv'
<1>0. taken \in Nat /\ (writing => taken > 0) /\ (destroyed \in BOOLEAN) /\ writing \in BOOLEAN
  BY DEF IInv, TypeOK, LoopFlagsOK, StreamTypeOK, StreamFlagsOK, DataInv, WriteInv
<1>1. CASE Destroys
  <2>1. error = "none" /\ sent = [i \in 1..(IF writing THEN taken - 1 ELSE taken) |-> i]
    BY <1>1 DEF Destroys, DataInv, SentInv
  <2>2. error' # "remote ended" => sent' = [i \in 1..(IF writing' THEN taken' - 1 ELSE taken') |-> i]
    <3> SUFFICES ASSUME error' # "remote ended"
                 PROVE  sent' = [i \in 1..(IF writing' THEN taken' - 1 ELSE taken') |-> i]
      OBVIOUS
    <3>1. sent' = sent /\ taken' = taken /\ writing' = writing
      BY <1>1 DEF Destroys
    <3>. QED BY <2>1, <3>1
  <2>3. GracefulClose'
    <3> SUFFICES ASSUME error' = "none" PROVE fd' = "closed" /\ Len(sent') = written'
      BY DEF GracefulClose
    <3>1. finished /\ shutdownRequested /\ ~writing /\ taken = written
      BY <1>1 DEF Destroys, SocketErrors, DataInv, WriteInv
    <3>2. Len(sent) = taken
      BY <1>0, <2>1, <3>1, AppendNext
    <3>. QED BY <1>1, <3>1, <3>2 DEF Destroys
  <2>. QED BY <1>1, <2>2, <2>3 DEF Destroys, SentInv
<1>2. CASE UNCHANGED endVars /\ UNCHANGED <<sent, taken, writing, written>>
  BY <1>2 DEF DataInv, SentInv, GracefulClose
<1>3. CASE UNCHANGED endVars /\ SendSucceeds
  <2>1. ~destroyed /\ error = "none" /\ writing
    BY <1>3, Sending DEF SendSucceeds, SendCalled, EndNext, IInv, WakeupInv, ClosedInv, DataInv, SentInv
  <2>2. sent = [i \in 1..(taken - 1) |-> i] /\ sent' = Append(sent, taken)
    BY <1>3, <2>1, Sending DEF SendSucceeds, SendCalled, DataInv, SentInv
  <2>3. sent' = [i \in 1..taken |-> i]
    BY <1>0, <2>1, <2>2, AppendNext
  <2>4. ~writing' /\ taken' = taken
    BY <1>3 DEF SendSucceeds, SendCalled
  <2>. QED BY <1>3, <2>1, <2>3, <2>4 DEF SentInv, GracefulClose
<1>4. CASE UNCHANGED endVars /\ Write
  <2>1. ~destroyed /\ error = "none" /\ ~writing
    BY <1>4 DEF Write, WantsWrite, NodeCalls, DataInv, SentInv
  <2>2. sent' = [i \in 1..taken |-> i]
    BY <1>4, <2>1 DEF Write, DataInv, SentInv
  <2>3. writing' /\ taken' - 1 = taken
    BY <1>0, <1>4 DEF Write
  <2>. QED BY <1>4, <2>1, <2>2, <2>3 DEF SentInv, GracefulClose
<1>5. CASE UNCHANGED endVars /\ Stream
  <2>1. ~destroyed /\ UNCHANGED <<sent, taken, writing>>
    BY <1>5 DEF Stream, NodeCalls, StreamSteps, AppWrites, AppEnds, AppConsumes, EmitEnd
  <2>. QED BY <1>5, <2>1 DEF DataInv, SentInv, GracefulClose
<1>6. SendAfterRemoteEnded => Destroys
  BY EndStep DEF SendAfterRemoteEnded, EndNext, DestroyDuplex, IInv, WakeupInv, ClosedInv
<1>7. Final => UNCHANGED <<sent, taken, writing, written>>
  BY DEF Final
<1>. QED BY <1>1, <1>2, <1>3, <1>4, <1>5, <1>6, <1>7, EndStep, SendFrame

LEMMA ReadStep == ASSUME IInv, DataInv, Next PROVE ReadInv'
<1> USE DEF DataInv, ReadInv, Backpressure
<1>0. rLen \in Nat /\ HighWaterMark \in Nat /\ HighWaterMark > 0
  BY DEF IInv, TypeOK, StreamTypeOK
<1>1. CASE UNCHANGED <<rLen, rEnded, endEmitted, mayPushData, remoteEnded, shutdownRequested>>
  BY <1>1
<1>2. CASE ReceiveEof
  BY <1>2 DEF ReceiveEof, ReceiveHandled, BeginNext, PushNull
<1>3. CASE ReceiveData
  <2>1. PICK n \in PushLengths : Push(n) /\ mayPushData' = TakesMore(n)
    BY <1>3 DEF ReceiveData
  <2>2. mayPushData \/ shutdownRequested
    BY <1>3 DEF ReceiveData, ReceiveEntry, ReceiveHandled, MayReceive
  <2>3. UNCHANGED <<rEnded, endEmitted, remoteEnded, shutdownRequested>>
    BY <1>3, <2>1 DEF ReceiveData, ReceiveEntry, ReceiveHandled, BeginNext, Push
  <2>4. rLen' = n /\ (n = rLen + 1 \/ n = 0) /\ (mayPushData' <=> n < HighWaterMark)
    BY <2>1 DEF Push, PushLengths, TakesMore
  <2>. QED BY <1>0, <2>2, <2>3, <2>4
<1>4. CASE Read
  <2>1. rLen < HighWaterMark
    BY <1>4 DEF Read, WantsRead
  <2>. QED BY <1>4, <2>1 DEF Read
<1>5. CASE Final
  <2>1. UNCHANGED <<rLen, rEnded, endEmitted, mayPushData, remoteEnded>>
    BY <1>5 DEF Final
  <2>2. shutdownRequested' = shutdownRequested \/ shutdownRequested' = TRUE
    BY <1>5 DEF Final
  <2>. QED BY <2>1, <2>2
<1>6. CASE Stream
  BY <1>0, <1>6 DEF Stream, StreamSteps, AppWrites, AppEnds, AppConsumes, EmitEnd
<1>. QED BY <1>1, <1>2, <1>3, <1>4, <1>5, <1>6, ReadFrame

LEMMA CauseStep == ASSUME IInv, DataInv, Next PROVE CauseInv'
<1>0. error' # "none" => error' \notin BugErrors /\ error' # "EBADF"
  <2>1. CASE UNCHANGED endVars
    BY <2>1 DEF DataInv, CauseInv, ErrorHasCause, NoBugError
  <2>2. CASE Destroys
    BY <2>2 DEF Destroys, SocketErrors, BugErrors
  <2>. QED BY <2>1, <2>2, EndStep
<1>1. NoBugError'
  BY <1>0 DEF NoBugError, BugErrors
<1>2. ErrorHasCause'
  <2>1. CASE UNCHANGED endVars
    <3>1. destroyed \/ error = "none"
      BY DEF DataInv, SentInv
    <3>2. CASE UNCHANGED assoc
      BY <2>1, <3>2 DEF DataInv, CauseInv, ErrorHasCause
    <3>3. CASE error = "none"
      BY <2>1, <3>3 DEF ErrorHasCause, SocketErrors
    <3>. QED BY <3>1, <3>2, <3>3, AssocStep
  <2>2. CASE Destroys
    BY <1>0, <2>2 DEF Destroys, ErrorHasCause, SocketErrors
  <2>. QED BY <2>1, <2>2, EndStep
<1>3. (skErr # "none" => assoc = "closed")' /\ (~destroyed /\ (pollErrno \/ pollPending.err) => skErr # "none")'
      /\ (socketMaybeTakesMore => assoc # "connecting")'
      /\ ("w" \in pollPending.events => assoc # "connecting")'
  <2> USE DEF DataInv, CauseInv
  <2>1. CASE UNCHANGED <<skErr, pollErrno, pollPending, socketMaybeTakesMore>>
    <3>1. destroyed => destroyed'
      BY EndStep DEF Destroys
    <3>. QED BY <2>1, <3>1, AssocStep DEF IInv, TypeOK, KernelTypeOK
  <2>2. CASE NextPollError
    BY <2>2 DEF NextPollError, BeginNext, DestroyDuplex
  <2>3. CASE ReceiveError
    BY <2>3 DEF ReceiveError, ReceiveHandled, BeginNext, DestroyDuplex
  <2>4. CASE SendNothing
    BY <2>4 DEF SendNothing, EndNext
  <2>5. CASE SendError
    <3>1. UNCHANGED <<assoc, pollErrno, pollPending, socketMaybeTakesMore>> /\ destroyed' = TRUE
          /\ (skErr' = skErr \/ skErr' = "none")
      BY <2>5 DEF SendError, SendCalled, EndNext, DestroyDuplex
    <3>. QED BY <3>1
  <2>6. CASE NativePollEvent
    <3>1. UNCHANGED <<skErr, assoc, pollErrno, socketMaybeTakesMore, destroyed>>
      BY <2>6 DEF NativePollEvent
    <3>2. \/ pollPending' = [events |-> {}, err |-> TRUE, any |-> TRUE] /\ skErr # "none"
          \/ pollPending' = [events |-> uvEvents \cap Ready, err |-> FALSE, any |-> TRUE]
      BY <2>6 DEF NativePollEvent
    <3>3. "w" \in Ready => assoc # "connecting"
      BY DEF Ready
    <3>. QED BY <3>1, <3>2, <3>3
  <2>7. CASE PollMicrotask
    <3>1. UNCHANGED <<skErr, assoc, destroyed>> /\ pollPending' = [events |-> {}, err |-> FALSE, any |-> FALSE]
      BY <2>7 DEF PollMicrotask, NoEvent
    <3>2. \/ UNCHANGED <<pollErrno, socketMaybeTakesMore>>
          \/ /\ pollErrno' => pollErrno \/ pollPending.err
             /\ socketMaybeTakesMore' => socketMaybeTakesMore \/ "w" \in pollPending.events
      BY <2>7 DEF PollMicrotask
    <3>. QED BY <3>1, <3>2
  <2>8. CASE Environment
    <3>1. UNCHANGED <<pollErrno, pollPending, socketMaybeTakesMore, destroyed>>
      BY <2>8 DEF Environment
    <3>2. \/ UNCHANGED <<skErr, assoc>>
          \/ skErr = "none" /\ assoc' = "up" /\ UNCHANGED skErr
          \/ assoc' = "closed" /\ (UNCHANGED skErr \/ skErr' # "none")
      BY <2>8 DEF Environment, Kernel, AssocUp, ConnectFails, PeerSends, KernelNotifies,
         ShutdownCompletes, AssocLost, SendBufferDrains
    <3>. QED BY <3>1, <3>2
  <2>. QED BY <2>1, <2>2, <2>3, <2>4, <2>5, <2>6, <2>7, <2>8, CauseFrame
<1>. QED BY <1>1, <1>2, <1>3 DEF CauseInv

LEMMA ConnectStep == ASSUME IInv, DataInv, Next PROVE ConnectInv'
<1> USE DEF DataInv, ConnectInv
<1>0. destroyed => destroyed'
  BY EndStep DEF Destroys
<1>1. everUp => everUp'
  <2>1. CASE Environment
    BY <2>1 DEF Environment, Kernel, AssocUp, ConnectFails, PeerSends, KernelNotifies,
       ShutdownCompletes, AssocLost, SendBufferDrains
  <2>2. CASE ReceiveNothing \/ ReceiveNotification \/ PollMicrotask
    BY <2>2 DEF ReceiveNothing, ReceiveNotification, ReceiveEntry, PollMicrotask
  <2>. QED BY <2>1, <2>2, ConnectFrame
<1>2. (everUp \/ destroyed \/ (assoc = "connecting" /\ rcvQueue = <<>>) \/ skErr # "none")'
  <2>1. CASE Environment
    BY <1>0, <1>1, <2>1 DEF Environment, Kernel, AssocUp, ConnectFails, PeerSends, KernelNotifies,
       ShutdownCompletes, AssocLost, SendBufferDrains, CauseInv
  <2>2. CASE NextPollError \/ ReceiveError \/ SendError
    BY <2>2 DEF NextPollError, ReceiveError, SendError, DestroyDuplex
  <2>3. CASE ReceiveNotification \/ ReceiveData
    <3>1. everUp
      BY <2>3 DEF ReceiveNotification, ReceiveData, ReceiveEntry, ReceiveHandled, MayReceive
    <3>. QED BY <1>1, <3>1
  <2>4. UNCHANGED skErr \/ NextPollError \/ ReceiveError \/ SendError \/ Environment
    BY CauseFrame DEF SendNothing, NativePollEvent, PollMicrotask
  <2>5. UNCHANGED rcvQueue \/ ReceiveNotification \/ ReceiveData \/ Environment
    BY QueueFrame
  <2>6. UNCHANGED assoc \/ Environment
    BY ConnectFrame DEF ReceiveNothing, ReceiveNotification, ReceiveEntry, PollMicrotask
  <2>. QED BY <1>0, <1>1, <2>1, <2>2, <2>3, <2>4, <2>5, <2>6
<1>3. (socketMaybeHasMore => everUp)'
  <2>1. CASE PollMicrotask
    BY <1>1, <2>1 DEF PollMicrotask
  <2>2. CASE ReceiveNothing
    BY <1>1, <2>2 DEF ReceiveNothing
  <2>3. CASE ReceiveNotification \/ Environment
    BY <1>1, <2>3 DEF ReceiveNotification, ReceiveEntry, ReceiveHandled, Environment
  <2>. QED BY <1>1, <2>1, <2>2, <2>3, ConnectFrame
<1>4. ("r" \in pollPending.events => everUp)'
  <2>1. CASE NativePollEvent
    <3>1. ~everUp /\ skErr = "none" => "r" \notin uvEvents \cap Ready
      BY <2>1 DEF NativePollEvent, Ready, WriteInv, IInv, WakeupInv, ClosedInv
    <3>2. \/ pollPending' = [events |-> {}, err |-> TRUE, any |-> TRUE]
          \/ skErr = "none" /\ pollPending' = [events |-> uvEvents \cap Ready, err |-> FALSE, any |-> TRUE]
      BY <2>1 DEF NativePollEvent
    <3>. QED BY <1>1, <3>1, <3>2
  <2>2. CASE PollMicrotask
    BY <2>2 DEF PollMicrotask, NoEvent
  <2>3. UNCHANGED pollPending \/ NativePollEvent \/ PollMicrotask
    BY CauseFrame DEF NextPollError, ReceiveError, ReceiveHandled, BeginNext, SendNothing, SendError,
       SendCalled, EndNext, Environment
  <2>. QED BY <1>1, <2>1, <2>2, <2>3
<1>5. (connected => everUp)' /\ (connects = 0 \/ (connects = 1 /\ connected))'
  <2>1. CASE ReceiveNotification
    <3>1. everUp
      BY <2>1 DEF ReceiveNotification, ReceiveEntry, ReceiveHandled, MayReceive
    <3>. QED BY <1>1, <2>1, <3>1 DEF ReceiveNotification
  <2>2. CASE ReceiveNothing \/ PollMicrotask \/ Environment
    BY <1>1, <2>2 DEF ReceiveNothing, PollMicrotask, Environment
  <2>. QED BY <1>1, <2>1, <2>2, ConnectFrame
<1>. QED BY <1>2, <1>3, <1>4, <1>5

LEMMA OrderStep == ASSUME IInv, DataInv, Next PROVE InboundInOrder'
<1> USE DEF DataInv, InboundInOrder
<1>0. /\ rcvQueue \in Seq(Entries) /\ arrived \in Nat
      /\ Len(pushed) \in Nat /\ Len(pushed) + 1 \in Nat /\ Len(pushed) + 1 <= arrived + 1
  BY DEF IInv, TypeOK, KernelTypeOK, QueuesOK
<1>1. CASE UNCHANGED <<rcvQueue, arrived, pushed>>
  BY <1>1
<1>2. CASE ReceiveNotification
  <2>1. UNCHANGED <<arrived, pushed>> /\ rcvQueue # <<>> /\ rcvQueue' = Tail(rcvQueue)
        /\ Head(rcvQueue).kind \in NoteKinds
    BY <1>2 DEF ReceiveNotification, ReceiveEntry
  <2>2. HoldsMessages(Tail(rcvQueue), Len(pushed) + 1, arrived)
    BY <1>0, <2>1, NoteTaken, Zenon
  <2>. QED BY <2>1, <2>2
<1>3. CASE ReceiveData
  <2>1. /\ UNCHANGED arrived /\ rcvQueue # <<>> /\ rcvQueue' = Tail(rcvQueue)
        /\ Head(rcvQueue).kind = "data" /\ pushed' = Append(pushed, Head(rcvQueue).id)
    BY <1>3 DEF ReceiveData, ReceiveEntry
  <2>2. /\ Head(rcvQueue).id = Len(pushed) + 1 /\ Len(pushed) + 1 <= arrived
        /\ HoldsMessages(Tail(rcvQueue), (Len(pushed) + 1) + 1, arrived)
    BY <1>0, <2>1, MessageTaken, Zenon
  <2>3. pushed' = [i \in 1..(Len(pushed) + 1) |-> i] /\ Len(pushed') = Len(pushed) + 1
    BY <1>0, <2>1, <2>2, AppendNext
  <2>. QED BY <2>1, <2>2, <2>3
<1>4. CASE Environment
  <2>1. UNCHANGED pushed
    BY <1>4 DEF Environment
  <2>2. CASE PeerSends
    <3>1. PICK k \in {"data", "oversize"} : rcvQueue' = Append(rcvQueue, Entry(k, arrived + 1))
      BY <2>2 DEF PeerSends
    <3>2. Entry(k, arrived + 1) \in Entries /\ Entry(k, arrived + 1).kind \in {"data", "oversize"}
          /\ Entry(k, arrived + 1).id = arrived + 1
      BY <1>0, <2>2 DEF PeerSends, Entry, Entries
    <3>3. HoldsMessages(rcvQueue', Len(pushed) + 1, arrived + 1)
      BY <1>0, <3>1, <3>2, MessageArrives, Zenon
    <3>. QED BY <1>0, <2>1, <2>2, <3>3 DEF PeerSends
  <2>3. ASSUME UNCHANGED arrived, NEW e \in Entries, e.kind \in NoteKinds,
               rcvQueue' = Append(rcvQueue, e)
        PROVE  InboundInOrder'
    <3>1. HoldsMessages(Append(rcvQueue, e), Len(pushed) + 1, arrived)
      BY <1>0, <2>3, NoteArrives, Zenon
    <3>. QED BY <2>1, <2>3, <3>1
  <2>4. AssocChange \in Entries /\ AssocChange.kind \in NoteKinds
    BY DEF AssocChange, Entry, Entries, NoteKinds
  <2>5. \A k \in NoteKinds : Entry(k, 0) \in Entries /\ Entry(k, 0).kind \in NoteKinds
    BY DEF Entry, Entries
  <2>6. CASE AssocUp \/ ConnectFails \/ ShutdownCompletes \/ AssocLost
    <3>1. UNCHANGED arrived /\ rcvQueue' = Append(rcvQueue, AssocChange)
      BY <2>6 DEF AssocUp, ConnectFails, ShutdownCompletes, AssocLost
    <3>. QED BY <2>3, <2>4, <3>1
  <2>7. CASE KernelNotifies
    <3>1. UNCHANGED arrived /\ \E k \in NoteKinds : rcvQueue' = Append(rcvQueue, Entry(k, 0))
      BY <2>7 DEF KernelNotifies
    <3>. QED BY <2>3, <2>5, <3>1
  <2>8. CASE SendBufferDrains
    BY <2>1, <2>8 DEF SendBufferDrains
  <2>. QED BY <1>4, <2>2, <2>6, <2>7, <2>8 DEF Environment, Kernel
<1>. QED BY <1>1, <1>2, <1>3, <1>4, QueueFrame

-------------------------------------------------------------------------------
LEMMA InitDataInv == Init => DataInv
<1> SUFFICES ASSUME Init PROVE DataInv
  OBVIOUS
<1>1. WriteInv /\ ReadInv
  <2>1. writing = FALSE /\ sendQueue = <<>> /\ finalCalled = FALSE /\ finished = FALSE
        /\ shutdownRequested = FALSE /\ localShut = FALSE /\ taken = 0 /\ written = 0
    BY DEF Init, StreamInit, KernelInit
  <2>2. rEnded = FALSE /\ endEmitted = FALSE /\ mayPushData = FALSE /\ remoteEnded = FALSE /\ rLen = 0
    BY DEF Init, StreamInit
  <2>3. WriteInv
    BY <2>1 DEF WriteInv
  <2>4. ReadInv
    BY <2>2 DEF ReadInv, Backpressure
  <2>. QED BY <2>3, <2>4
<1>5. SentInv
  <2>1. writing = FALSE /\ taken = 0 /\ sent = <<>> /\ destroyed = FALSE /\ error = "none"
    BY DEF Init, StreamInit
  <2>. QED BY <2>1 DEF SentInv, GracefulClose
<1>2. CauseInv
  BY DEF Init, StreamInit, KernelInit, CauseInv, ErrorHasCause, NoBugError, BugErrors, SocketErrors, NoEvent
<1>3. ConnectInv
  BY DEF Init, StreamInit, KernelInit, ConnectInv, NoEvent
<1>4. InboundInOrder
  <2>1. rcvQueue = <<>> \/ rcvQueue = <<AssocChange>>
    BY Zenon DEF Init, KernelInit
  <2>2. MessagePlaces(rcvQueue) = {}
    BY <2>1 DEF MessagePlaces, AssocChange, Entry
  <2>3. pushed = <<>> /\ arrived = 0
    BY DEF Init, KernelInit
  <2>. QED BY <2>2, <2>3 DEF InboundInOrder, HoldsMessages
<1>. QED BY <1>1, <1>2, <1>3, <1>4, <1>5 DEF DataInv

LEMMA DataInductive == IInv /\ DataInv /\ [Next]_vars => DataInv'
<1> SUFFICES ASSUME IInv, DataInv, [Next]_vars PROVE DataInv'
  OBVIOUS
<1>1. CASE Next
  BY <1>1, WriteStep, SentStep, ReadStep, CauseStep, ConnectStep, OrderStep DEF DataInv
<1>2. CASE UNCHANGED vars
  <2>1. WriteInv' /\ ReadInv'
    BY <1>2 DEF DataInv, WriteInv, ReadInv, Backpressure
  <2>2. SentInv'
    BY <1>2 DEF DataInv, SentInv, GracefulClose
  <2>3. CauseInv' /\ ConnectInv'
    BY <1>2 DEF DataInv, CauseInv, ErrorHasCause, NoBugError, ConnectInv
  <2>4. InboundInOrder'
    BY <1>2 DEF DataInv, InboundInOrder
  <2>. QED BY <2>1, <2>2, <2>3, <2>4 DEF DataInv
<1>. QED BY <1>1, <1>2

LEMMA DataInvariance == Spec => []DataInv
<1>. QED BY InitDataInv, DataInductive, Invariance, PTL DEF Spec

-------------------------------------------------------------------------------
\* Every message that arrived is pushed or still in the queue, in order, none
\* lost and none twice.
THEOREM MessagesPushedInOrder == Spec => []InboundInOrder
<1>1. DataInv => InboundInOrder
  BY DEF DataInv
<1>. QED BY <1>1, DataInvariance, PTL

LEMMA Outbound ==
  ASSUME IInv, DataInv, sent = [i \in 1..(IF writing THEN taken - 1 ELSE taken) |-> i]
  PROVE  sent \o sendQueue = [i \in 1..taken |-> i]
<1>1. taken \in Nat
  BY DEF IInv, TypeOK, StreamTypeOK
<1>2. CASE writing
  <2>1. sendQueue = <<taken>> /\ taken > 0
    BY <1>2 DEF DataInv, WriteInv
  <2>2. sent \o sendQueue = Append([i \in 1..(taken - 1) |-> i], taken)
    BY <1>1, <1>2, <2>1
  <2>. QED BY <1>1, <2>1, <2>2, AppendNext
<1>3. CASE ~writing
  <2>1. sendQueue = <<>>
    BY <1>3 DEF DataInv, WriteInv
  <2>. QED BY <1>1, <1>3, <2>1
<1>. QED BY <1>2, <1>3

\* Every message taken from the stream was sent or waits, in order, unless the
\* peer ended and the write was refused.
THEOREM MessagesSentInOrder == Spec => []OutboundInOrder
<1>1. IInv /\ DataInv => OutboundInOrder
  BY Outbound DEF OutboundInOrder, DataInv, SentInv
<1>. QED BY <1>1, Invariance, DataInvariance, PTL

\* Until end() was called, no more is pushed than the stream asked for.
THEOREM BackpressureRespected == Spec => []Backpressure
<1>1. DataInv => Backpressure
  BY DEF DataInv, ReadInv
<1>. QED BY <1>1, DataInvariance, PTL

\* Neither of the two states the code reports as a BUG is reached.
THEOREM NoBugIsReached == Spec => []NoBugError
<1>1. DataInv => NoBugError
  BY DEF DataInv, CauseInv
<1>. QED BY <1>1, DataInvariance, PTL

\* The duplex is given up for a socket error only when the association is dead,
\* and is never told libuv's bad descriptor instead of the cause.
THEOREM ErrorsHaveCauses == Spec => []ErrorHasCause
<1>1. DataInv => ErrorHasCause
  BY DEF DataInv, CauseInv
<1>. QED BY <1>1, DataInvariance, PTL

\* "connect" is emitted at most once and for an association that came up.
THEOREM ConnectIsTrue == Spec => []ConnectMeansUp
<1>1. DataInv => ConnectMeansUp
  BY DEF DataInv, ConnectInv, ConnectMeansUp
<1>. QED BY <1>1, DataInvariance, PTL

\* A duplex that closes without an error shut the association down and gave the
\* kernel everything that was written.
THEOREM ClosesGracefully == Spec => []GracefulClose
<1>1. DataInv => GracefulClose
  BY DEF DataInv, SentInv
<1>. QED BY <1>1, DataInvariance, PTL

-------------------------------------------------------------------------------
\* The duplex implements the port.

\* The variables of the port, as the duplex has them.
portState == <<assoc, arrived, pushed, taken, sent, remoteEnded, shutdownRequested, fd, error>>

LEMMA PortUnchanged == UNCHANGED portState => UNCHANGED Port!portVars
BY DEF portState, Port!portVars

\* The actions that are steps of the port.
LEMMA PortFrame ==
  Next => \/ UNCHANGED <<assoc, arrived, pushed, taken, sent, remoteEnded, shutdownRequested>>
          \/ ReceiveEof \/ ReceiveData \/ Write \/ SendSucceeds \/ Final \/ Environment
<1>1. CASE SendAfterRemoteEnded \/ Stream
  BY <1>1 DEF SendAfterRemoteEnded, EndNext, Stream, StreamSteps, AppWrites, AppEnds, AppConsumes, EmitEnd
<1>2. CASE ReceiveNotification \/ ReceiveNothing \/ PollMicrotask \/ Read
  BY <1>2 DEF ReceiveNotification, ReceiveEntry, ReceiveHandled, BeginNext, ReceiveNothing,
     PollMicrotask, Read
<1>. QED BY <1>1, <1>2, SendFrame, ReadFrame, QueueFrame, ConnectFrame

LEMMA PortInit == Init => Port!Init
BY DEF Init, KernelInit, StreamInit, Port!Init

LEMMA PortStep ==
  ASSUME IInv, DataInv, Next
  PROVE  Port!Next \/ UNCHANGED portState
<1> USE DEF portState
<1>0. destroyed <=> fd # "open"
  BY DEF IInv, WakeupInv, ClosedInv
<1>1. CASE Destroys
  <2>1. error' \in (Errors \ {"none"}) \cup (IF remoteEnded /\ shutdownRequested THEN {"none"} ELSE {})
    BY <1>1 DEF Destroys, Errors, SocketErrors, DataInv, WriteInv, ReadInv
  <2>2. Port!Close
    BY <1>1, <2>1 DEF Destroys, Port!Close
  <2>. QED BY <2>2 DEF Port!Next
<1>2. CASE UNCHANGED endVars /\ ReceiveData
  <2>1. /\ ~remoteEnded /\ fd = "open"
        /\ UNCHANGED <<assoc, arrived, taken, sent, remoteEnded, shutdownRequested>>
        /\ rcvQueue # <<>> /\ Head(rcvQueue).kind = "data"
        /\ pushed' = Append(pushed, Head(rcvQueue).id)
    BY <1>0, <1>2 DEF ReceiveData, ReceiveEntry, ReceiveHandled, MayReceive, BeginNext
  <2>2. /\ rcvQueue \in Seq(Entries) /\ arrived \in Nat
        /\ Len(pushed) \in Nat /\ Len(pushed) + 1 \in Nat
    BY DEF IInv, TypeOK, KernelTypeOK, QueuesOK
  <2>3. HoldsMessages(rcvQueue, Len(pushed) + 1, arrived) /\ pushed = [i \in 1..Len(pushed) |-> i]
    BY DEF DataInv, InboundInOrder
  <2>4. Head(rcvQueue).id = Len(pushed) + 1 /\ Len(pushed) + 1 <= arrived
    BY <2>1, <2>2, <2>3, MessageTaken
  <2>5. pushed' = [i \in 1..(Len(pushed) + 1) |-> i]
    BY <2>1, <2>2, <2>3, <2>4, AppendNext
  <2>6. Port!Deliver
    BY <1>2, <2>1, <2>2, <2>4, <2>5 DEF Port!Deliver, Port!Upto
  <2>. QED BY <2>6 DEF Port!Next
<1>3. CASE UNCHANGED endVars /\ ReceiveEof
  <2>1. /\ ~remoteEnded /\ fd = "open" /\ remoteEnded' = TRUE /\ rcvQueue = <<>>
        /\ UNCHANGED <<assoc, arrived, pushed, taken, sent, shutdownRequested>>
        /\ assoc = "closed" \/ shutdownRequested
    BY <1>0, <1>3 DEF ReceiveEof, ReceiveHandled, MayReceive, BeginNext, RecvEof, DataInv, WriteInv
  <2>2. Len(pushed) = arrived
    <3>1. MessagePlaces(rcvQueue) = {}
      BY <2>1 DEF MessagePlaces
    <3>2. (Len(pushed) + 1)..arrived = {} /\ Len(pushed) <= arrived
      BY <3>1 DEF DataInv, InboundInOrder, HoldsMessages
    <3>3. arrived \in Nat /\ Len(pushed) \in Nat
      BY DEF IInv, TypeOK, KernelTypeOK, QueuesOK
    <3>4. arrived \notin (Len(pushed) + 1)..arrived
      BY <3>2
    <3>. QED BY <3>2, <3>3, <3>4
  <2>3. Port!End
    BY <1>3, <2>1, <2>2 DEF Port!End
  <2>. QED BY <2>3 DEF Port!Next
<1>4. CASE UNCHANGED endVars /\ Write
  <2>1. fd = "open" /\ ~shutdownRequested
    BY <1>0, <1>4 DEF Write, NodeCalls, WantsWrite, IInv, TypeOK, StreamTypeOK, DataInv, WriteInv
  <2>2. taken' = taken + 1 /\ UNCHANGED <<assoc, arrived, pushed, sent, remoteEnded, shutdownRequested>>
    BY <1>4 DEF Write
  <2>3. Port!Accept
    BY <1>4, <2>1, <2>2 DEF Port!Accept
  <2>. QED BY <2>3 DEF Port!Next
<1>5. CASE UNCHANGED endVars /\ SendSucceeds
  <2>1. /\ fd = "open" /\ assoc = "up" /\ ~shutdownRequested /\ writing /\ taken > 0
        /\ sent' = Append(sent, taken)
    BY <1>0, <1>5, Sending DEF SendSucceeds, SendCalled, EndNext, SendPossible, IInv, WakeupInv, ClosedInv
  <2>2. taken \in Nat
    BY DEF IInv, TypeOK, StreamTypeOK
  <2>3. error = "none"
    BY <1>0, <2>1 DEF DataInv, SentInv
  <2>4. sent = [i \in 1..(taken - 1) |-> i]
    BY <2>1, <2>3 DEF DataInv, SentInv
  <2>5. Len(sent) = taken - 1 /\ sent' = [i \in 1..(Len(sent) + 1) |-> i]
    BY <2>1, <2>2, <2>4, AppendNext
  <2>6. UNCHANGED <<assoc, arrived, pushed, taken, remoteEnded, shutdownRequested>>
    BY <1>5 DEF SendSucceeds, SendCalled, EndNext
  <2>7. Port!Send
    BY <1>5, <2>1, <2>2, <2>5, <2>6 DEF Port!Send, Port!Upto
  <2>. QED BY <2>7 DEF Port!Next
<1>6. CASE UNCHANGED endVars /\ Final
  <2>1. /\ sendQueue = <<>> /\ ~destroyed /\ ~writing /\ fd = "open" /\ ~shutdownRequested
        /\ UNCHANGED <<assoc, arrived, pushed, taken, sent, remoteEnded>>
    BY <1>0, <1>6 DEF Final, NodeCalls, WantsFinal, DataInv, WriteInv
  <2>2. \/ shutdownRequested' = TRUE /\ (assoc = "connecting" => remoteEnded)
        \/ UNCHANGED shutdownRequested
    BY <1>6, <2>1 DEF Final
  <2>3. Len(sent) = taken
    <3>1. taken \in Nat /\ error = "none"
      BY <2>1 DEF IInv, TypeOK, StreamTypeOK, DataInv, SentInv
    <3>2. sent = [i \in 1..taken |-> i]
      BY <2>1, <3>1 DEF DataInv, SentInv
    <3>. QED BY <3>1, <3>2, AppendNext
  <2>4. CASE UNCHANGED shutdownRequested
    BY <1>6, <2>1, <2>4
  <2>5. CASE shutdownRequested' = TRUE /\ (assoc = "connecting" => remoteEnded)
    <3>1. assoc \in {"connecting", "up", "closed"}
      BY DEF IInv, TypeOK, KernelTypeOK
    <3>2. Port!Finish
      BY <1>6, <2>1, <2>3, <2>5, <3>1 DEF Port!Finish
    <3>. QED BY <3>2 DEF Port!Next
  <2>. QED BY <2>2, <2>4, <2>5
<1>7. CASE UNCHANGED endVars /\ Environment
  <2>1. UNCHANGED <<pushed, taken, sent, remoteEnded, shutdownRequested>>
    BY <1>7 DEF Environment
  <2>2. CASE PeerSends
    <3>1. Port!Arrive
      BY <1>7, <2>1, <2>2 DEF PeerSends, Port!Arrive
    <3>. QED BY <3>1 DEF Port!Next
  <2>3. CASE AssocUp \/ ConnectFails \/ ShutdownCompletes \/ AssocLost
    <3>1. UNCHANGED arrived /\ \/ assoc = "connecting" /\ assoc' \in {"up", "closed"}
                               \/ assoc = "up" /\ assoc' = "closed"
      BY <2>3 DEF AssocUp, ConnectFails, ShutdownCompletes, AssocLost
    <3>2. Port!Link
      BY <1>7, <2>1, <3>1 DEF Port!Link
    <3>. QED BY <3>2 DEF Port!Next
  <2>4. CASE KernelNotifies \/ SendBufferDrains
    BY <1>7, <2>1, <2>4 DEF KernelNotifies, SendBufferDrains
  <2>. QED BY <1>7, <2>2, <2>3, <2>4 DEF Environment, Kernel
<1>. QED BY <1>1, <1>2, <1>3, <1>4, <1>5, <1>6, <1>7, EndStep, PortFrame

\* Every behaviour of the duplex is one of the port: messages delivered in order
\* and all before the end, sent in order and only while there is an association,
\* a port closed without an error has ended on both sides, and nothing moves
\* through a closed one.  (What the port promises under fairness is left to TLC.)
THEOREM DuplexImplementsPort == Spec => Port!Init /\ [][Port!Next]_(Port!portVars)
<1>1. IInv /\ DataInv /\ [Next]_vars => [Port!Next]_(Port!portVars)
  <2>1. UNCHANGED vars => UNCHANGED portState
    BY DEF portState
  <2>. QED BY <2>1, PortStep, PortUnchanged
<1>. QED BY <1>1, PortInit, Invariance, DataInvariance, PTL DEF Spec
===============================================================================

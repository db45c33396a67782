-------------------------- MODULE SocketDuplexProofs --------------------------
(***************************************************************************)
(* Proofs about SocketDuplex for all values of its constants: number of    *)
(* messages, notifications and writes, high water mark, both roles.        *)
(* The invariant is the conjunction of the type invariant's parts and of   *)
(* WakeupInv's; one lemma per part, one step per action.                   *)
(***************************************************************************)
EXTENDS SocketDuplex, TLAPS

\* The inductive invariant: types, the wakeup invariant, and no use after close.
IInv == TypeOK /\ WakeupInv /\ NoUseAfterClose

USE SocketAssumption, StreamAssumption, RolesAssumption

\* Groups of variables that actions leave alone.
USE DEF vars, kernelVars, streamVars, readableVars, writableVars, recvVars, sendVars,
        loopVars, pollVars, endVars

-------------------------------------------------------------------------------
\* Facts about the entries of the receive queue.

LEMMA NewEntries ==
  ASSUME KernelTypeOK
  PROVE  /\ Append(rcvQueue, AssocChange) \in Seq(Entries)
         /\ \A k \in NoteKinds : Append(rcvQueue, Entry(k, 0)) \in Seq(Entries)
         /\ arrived < MaxIn => \A k \in {"data", "oversize"} :
              Append(rcvQueue, Entry(k, arrived + 1)) \in Seq(Entries)
<1>1. AssocChange \in Entries /\ \A k \in NoteKinds : Entry(k, 0) \in Entries
  BY DEF AssocChange, Entry, Entries, NoteKinds
<1>2. arrived < MaxIn => \A k \in {"data", "oversize"} : Entry(k, arrived + 1) \in Entries
  BY DEF KernelTypeOK, Entry, Entries
<1>. QED BY <1>1, <1>2 DEF KernelTypeOK

LEMMA HeadEntry ==
  ASSUME KernelTypeOK, rcvQueue # <<>>
  PROVE  /\ Tail(rcvQueue) \in Seq(Entries)
         /\ Head(rcvQueue).kind = "data" => Head(rcvQueue).id \in 1..MaxIn
<1>1. Head(rcvQueue) \in Entries /\ Tail(rcvQueue) \in Seq(Entries)
  BY DEF KernelTypeOK
<1>2. Head(rcvQueue).kind = "data" => Head(rcvQueue).id \in 1..MaxIn
  BY <1>1 DEF Entries, NoteKinds
<1>. QED BY <1>1, <1>2

\* Whatever a duplex is destroyed with is one of the errors listed.
LEMMA AllErrors == /\ BugErrors \subseteq Errors
                   /\ SocketErrors \subseteq Errors
                   /\ {"none", "EBADF", "EPIPE", "ENOTCONN", "remote ended",
                       "destroyed by the application"} \subseteq Errors
  BY DEF Errors

-------------------------------------------------------------------------------
LEMMA InitIInv == Init => IInv
<1> SUFFICES ASSUME Init PROVE IInv
  OBVIOUS
<1>1. AssocChange \in Entries
  BY DEF Entries, AssocChange, Entry, NoteKinds
<1>2. KernelFlagsOK
  BY DEF Init, KernelInit, KernelFlagsOK
<1>3. rcvQueue \in Seq(Entries)
  <2>1. <<>> \in Seq(Entries) /\ <<AssocChange>> \in Seq(Entries)
    BY <1>1
  <2>2. rcvQueue = <<>> \/ rcvQueue = <<AssocChange>>
    BY Zenon DEF Init, KernelInit
  <2>. QED BY <2>1, <2>2
<1>4. KernelTypeOK
  BY <1>2, <1>3 DEF Init, KernelInit, KernelTypeOK
<1>5. StreamFlagsOK
  BY DEF Init, StreamInit, StreamFlagsOK
<1>6. StreamTypeOK
  BY <1>5 DEF Init, StreamInit, StreamTypeOK
<1>7. LoopFlagsOK /\ DataFlagsOK
  BY DEF Init, LoopFlagsOK, DataFlagsOK
<1>8. CountsOK /\ QueuesOK
  BY DEF Init, CountsOK, QueuesOK
<1>9. EventsOK /\ OutcomeOK
  BY DEF Init, EventsOK, OutcomeOK, NoEvent, PollEvents, Directions, Errors
<1>10. ClosedInv /\ SleepInv /\ ArmedInv /\ CountInv
  BY DEF Init, ClosedInv, SleepInv, ArmedInv, CountInv, NoEvent
<1>11. RequestInv /\ NoUseAfterClose
  BY DEF Init, StreamInit, RequestInv, NoUseAfterClose
<1>. QED
  BY <1>4, <1>6, <1>7, <1>8, <1>9, <1>10, <1>11 DEF IInv, TypeOK, WakeupInv

-------------------------------------------------------------------------------
\* The socket's Boolean variables.
LEMMA KernelFlagsStep == IInv /\ Next => KernelFlagsOK'
<1> SUFFICES ASSUME IInv, Next PROVE KernelFlagsOK'
  OBVIOUS
<1> USE DEF IInv, TypeOK, KernelTypeOK, KernelFlagsOK
<1>1. CASE NextDestroyed
  BY <1>1 DEF NextDestroyed
<1>2. CASE NextPollError
  BY <1>2 DEF NextPollError, BeginNext
<1>3. CASE ReceiveNothing
  BY <1>3 DEF ReceiveNothing, BeginNext
<1>4. CASE ReceiveError
  BY <1>4 DEF ReceiveError, ReceiveHandled, BeginNext
<1>5. CASE ReceiveNotification
  BY <1>5 DEF ReceiveNotification, ReceiveEntry, ReceiveHandled, BeginNext
<1>6. CASE ReceiveEof
  BY <1>6 DEF ReceiveEof, ReceiveHandled, BeginNext
<1>7. CASE ReceiveData
  BY <1>7 DEF ReceiveData, ReceiveEntry, ReceiveHandled, BeginNext
<1>8. CASE ReceiveOversize
  BY <1>8 DEF ReceiveOversize, BeginNext
<1>9. CASE SendNothing
  BY <1>9 DEF SendNothing, EndNext
<1>10. CASE SendAfterRemoteEnded
  BY <1>10 DEF SendAfterRemoteEnded, EndNext
<1>11. CASE SendSucceeds
  BY <1>11 DEF SendSucceeds, SendCalled, EndNext
<1>12. CASE SendError
  BY <1>12 DEF SendError, SendCalled, EndNext
<1>13. CASE NativePollEvent
  BY <1>13 DEF NativePollEvent
<1>14. CASE PollMicrotask
  BY <1>14 DEF PollMicrotask
<1>15. CASE Read
  BY <1>15 DEF Read, NodeCalls
<1>16. CASE Write
  BY <1>16 DEF Write, NodeCalls
<1>17. CASE Final
  BY <1>17 DEF Final, NodeCalls
<1>18. CASE AutoDestroy
  BY <1>18 DEF AutoDestroy, Destroyed, NodeCalls
<1>19. CASE AppDestroys
  BY <1>19 DEF AppDestroys, Destroyed, NodeCalls
<1>20. CASE Stream
  BY <1>20 DEF Stream, NodeCalls
<1>21. CASE Environment
  BY <1>21 DEF Environment, Kernel, AssocUp, ConnectFails, PeerSends, KernelNotifies,
     ShutdownCompletes, AssocLost, SendBufferDrains
<1>22. CASE AskSocket
  BY <1>22 DEF AskSocket, UsesFd, NodeCalls
<1>. QED
  BY <1>1, <1>2, <1>3, <1>4, <1>5, <1>6, <1>7, <1>8, <1>9, <1>10,
     <1>11, <1>12, <1>13, <1>14, <1>15, <1>16, <1>17, <1>18, <1>19, <1>20, <1>21, <1>22 DEF Next, RunNext

\* The socket's other variables.
LEMMA KernelTypeStep == IInv /\ Next => KernelTypeOK'
<1> SUFFICES ASSUME IInv, Next PROVE KernelTypeOK'
  OBVIOUS
<1> USE DEF IInv, TypeOK, KernelTypeOK
<1>0. KernelFlagsOK'
  BY KernelFlagsStep
<1>1. CASE NextDestroyed
  BY <1>0, <1>1 DEF NextDestroyed
<1>2. CASE NextPollError
  BY <1>0, <1>2 DEF NextPollError, BeginNext
<1>3. CASE ReceiveNothing
  BY <1>0, <1>3 DEF ReceiveNothing, BeginNext
<1>4. CASE ReceiveError
  BY <1>0, <1>4 DEF ReceiveError, ReceiveHandled, BeginNext
<1>5. CASE ReceiveNotification
  BY <1>0, <1>5, HeadEntry DEF ReceiveNotification, ReceiveEntry, ReceiveHandled, BeginNext
<1>6. CASE ReceiveEof
  BY <1>0, <1>6 DEF ReceiveEof, ReceiveHandled, BeginNext
<1>7. CASE ReceiveData
  BY <1>0, <1>7, HeadEntry DEF ReceiveData, ReceiveEntry, ReceiveHandled, BeginNext
<1>8. CASE ReceiveOversize
  BY <1>0, <1>8 DEF ReceiveOversize, BeginNext
<1>9. CASE SendNothing
  BY <1>0, <1>9 DEF SendNothing, EndNext
<1>10. CASE SendAfterRemoteEnded
  BY <1>0, <1>10 DEF SendAfterRemoteEnded, EndNext
<1>11. CASE SendSucceeds
  BY <1>0, <1>11 DEF SendSucceeds, SendCalled, EndNext
<1>12. CASE SendError
  BY <1>0, <1>12 DEF SendError, SendCalled, EndNext
<1>13. CASE NativePollEvent
  BY <1>0, <1>13 DEF NativePollEvent
<1>14. CASE PollMicrotask
  BY <1>0, <1>14 DEF PollMicrotask
<1>15. CASE Read
  BY <1>0, <1>15 DEF Read, NodeCalls
<1>16. CASE Write
  BY <1>0, <1>16 DEF Write, NodeCalls
<1>17. CASE Final
  BY <1>0, <1>17 DEF Final, NodeCalls
<1>18. CASE AutoDestroy
  BY <1>0, <1>18 DEF AutoDestroy, Destroyed, NodeCalls
<1>19. CASE AppDestroys
  BY <1>0, <1>19 DEF AppDestroys, Destroyed, NodeCalls
<1>20. CASE Stream
  BY <1>0, <1>20 DEF Stream, NodeCalls
<1>21. CASE Environment
  <2>1. CASE AssocUp
    BY <1>0, <1>21, <2>1, NewEntries DEF Environment, AssocUp
  <2>2. CASE ConnectFails
    BY <1>0, <1>21, <2>2, NewEntries DEF Environment, ConnectFails, SocketErrors
  <2>3. CASE PeerSends
    BY <1>0, <1>21, <2>3, NewEntries DEF Environment, PeerSends
  <2>4. CASE KernelNotifies
    BY <1>0, <1>21, <2>4, NewEntries DEF Environment, KernelNotifies
  <2>5. CASE ShutdownCompletes
    BY <1>0, <1>21, <2>5, NewEntries DEF Environment, ShutdownCompletes
  <2>6. CASE AssocLost
    BY <1>0, <1>21, <2>6, NewEntries DEF Environment, AssocLost, SocketErrors
  <2>7. CASE SendBufferDrains
    BY <1>0, <1>21, <2>7 DEF Environment, SendBufferDrains
  <2>. QED BY <1>21, <2>1, <2>2, <2>3, <2>4, <2>5, <2>6, <2>7 DEF Environment, Kernel
<1>22. CASE AskSocket
  BY <1>0, <1>22 DEF AskSocket, UsesFd, NodeCalls
<1>. QED
  BY <1>1, <1>2, <1>3, <1>4, <1>5, <1>6, <1>7, <1>8, <1>9, <1>10,
     <1>11, <1>12, <1>13, <1>14, <1>15, <1>16, <1>17, <1>18, <1>19, <1>20, <1>21, <1>22 DEF Next, RunNext

\* The stream's Boolean variables.
LEMMA StreamFlagsStep == IInv /\ Next => StreamFlagsOK'
<1> SUFFICES ASSUME IInv, Next PROVE StreamFlagsOK'
  OBVIOUS
<1> USE DEF IInv, TypeOK, StreamTypeOK, StreamFlagsOK
<1>1. CASE NextDestroyed
  BY <1>1 DEF NextDestroyed
<1>2. CASE NextPollError
  BY <1>2 DEF NextPollError, BeginNext
<1>3. CASE ReceiveNothing
  BY <1>3 DEF ReceiveNothing, BeginNext
<1>4. CASE ReceiveError
  BY <1>4 DEF ReceiveError, ReceiveHandled, BeginNext
<1>5. CASE ReceiveNotification
  BY <1>5 DEF ReceiveNotification, ReceiveEntry, ReceiveHandled, BeginNext
<1>6. CASE ReceiveEof
  BY <1>6 DEF ReceiveEof, ReceiveHandled, BeginNext, PushNull
<1>7. CASE ReceiveData
  BY <1>7 DEF ReceiveData, ReceiveEntry, ReceiveHandled, BeginNext, Push
<1>8. CASE ReceiveOversize
  BY <1>8 DEF ReceiveOversize, BeginNext
<1>9. CASE SendNothing
  BY <1>9 DEF SendNothing, EndNext
<1>10. CASE SendAfterRemoteEnded
  BY <1>10 DEF SendAfterRemoteEnded, EndNext
<1>11. CASE SendSucceeds
  BY <1>11 DEF SendSucceeds, SendCalled, EndNext
<1>12. CASE SendError
  BY <1>12 DEF SendError, SendCalled, EndNext
<1>13. CASE NativePollEvent
  BY <1>13 DEF NativePollEvent
<1>14. CASE PollMicrotask
  BY <1>14 DEF PollMicrotask
<1>15. CASE Read
  BY <1>15 DEF Read, NodeCalls
<1>16. CASE Write
  BY <1>16 DEF Write, NodeCalls
<1>17. CASE Final
  BY <1>17 DEF Final, NodeCalls
<1>18. CASE AutoDestroy
  BY <1>18 DEF AutoDestroy, Destroyed, NodeCalls
<1>19. CASE AppDestroys
  BY <1>19 DEF AppDestroys, Destroyed, NodeCalls
<1>20. CASE Stream
  BY <1>20 DEF Stream, NodeCalls, StreamSteps, AppWrites, AppEnds, AppConsumes, EmitEnd
<1>21. CASE Environment
  BY <1>21 DEF Environment
<1>22. CASE AskSocket
  BY <1>22 DEF AskSocket, UsesFd, NodeCalls
<1>. QED
  BY <1>1, <1>2, <1>3, <1>4, <1>5, <1>6, <1>7, <1>8, <1>9, <1>10,
     <1>11, <1>12, <1>13, <1>14, <1>15, <1>16, <1>17, <1>18, <1>19, <1>20, <1>21, <1>22 DEF Next, RunNext

\* The stream's counters.
LEMMA StreamTypeStep == IInv /\ Next => StreamTypeOK'
<1> SUFFICES ASSUME IInv, Next PROVE StreamTypeOK'
  OBVIOUS
<1> USE DEF IInv, TypeOK, StreamTypeOK
<1>0. StreamFlagsOK'
  BY StreamFlagsStep
<1>1. CASE NextDestroyed
  BY <1>0, <1>1 DEF NextDestroyed
<1>2. CASE NextPollError
  BY <1>0, <1>2 DEF NextPollError, BeginNext
<1>3. CASE ReceiveNothing
  BY <1>0, <1>3 DEF ReceiveNothing, BeginNext
<1>4. CASE ReceiveError
  BY <1>0, <1>4 DEF ReceiveError, ReceiveHandled, BeginNext
<1>5. CASE ReceiveNotification
  BY <1>0, <1>5 DEF ReceiveNotification, ReceiveEntry, ReceiveHandled, BeginNext
<1>6. CASE ReceiveEof
  BY <1>0, <1>6 DEF ReceiveEof, ReceiveHandled, BeginNext, PushNull
<1>7. CASE ReceiveData
  BY <1>0, <1>7 DEF ReceiveData, ReceiveEntry, ReceiveHandled, BeginNext, Push, PushLengths
<1>8. CASE ReceiveOversize
  BY <1>0, <1>8 DEF ReceiveOversize, BeginNext
<1>9. CASE SendNothing
  BY <1>0, <1>9 DEF SendNothing, EndNext
<1>10. CASE SendAfterRemoteEnded
  BY <1>0, <1>10 DEF SendAfterRemoteEnded, EndNext
<1>11. CASE SendSucceeds
  BY <1>0, <1>11 DEF SendSucceeds, SendCalled, EndNext
<1>12. CASE SendError
  BY <1>0, <1>12 DEF SendError, SendCalled, EndNext
<1>13. CASE NativePollEvent
  BY <1>0, <1>13 DEF NativePollEvent
<1>14. CASE PollMicrotask
  BY <1>0, <1>14 DEF PollMicrotask
<1>15. CASE Read
  BY <1>0, <1>15 DEF Read, NodeCalls
<1>16. CASE Write
  BY <1>0, <1>16 DEF Write, NodeCalls, WantsWrite
<1>17. CASE Final
  BY <1>0, <1>17 DEF Final, NodeCalls
<1>18. CASE AutoDestroy
  BY <1>0, <1>18 DEF AutoDestroy, Destroyed, NodeCalls
<1>19. CASE AppDestroys
  BY <1>0, <1>19 DEF AppDestroys, Destroyed, NodeCalls
<1>20. CASE Stream
  <2>1. CASE AppWrites
    BY <1>0, <1>20, <2>1 DEF Stream, AppWrites
  <2>2. CASE AppEnds \/ EmitEnd
    BY <1>0, <1>20, <2>2 DEF Stream, AppEnds, EmitEnd
  <2>3. CASE AppConsumes
    BY <1>0, <1>20, <2>3 DEF Stream, AppConsumes
  <2>. QED BY <1>20, <2>1, <2>2, <2>3 DEF Stream, StreamSteps
<1>21. CASE Environment
  BY <1>0, <1>21 DEF Environment
<1>22. CASE AskSocket
  BY <1>0, <1>22 DEF AskSocket, UsesFd, NodeCalls
<1>. QED
  BY <1>1, <1>2, <1>3, <1>4, <1>5, <1>6, <1>7, <1>8, <1>9, <1>10,
     <1>11, <1>12, <1>13, <1>14, <1>15, <1>16, <1>17, <1>18, <1>19, <1>20, <1>21, <1>22 DEF Next, RunNext

\* The Boolean variables of the loop.
LEMMA LoopFlagsStep == IInv /\ Next => LoopFlagsOK'
<1> SUFFICES ASSUME IInv, Next PROVE LoopFlagsOK'
  OBVIOUS
<1> USE DEF IInv, TypeOK, LoopFlagsOK
<1>1. CASE NextDestroyed
  BY <1>1 DEF NextDestroyed
<1>2. CASE NextPollError
  BY <1>2 DEF NextPollError, BeginNext, DestroyDuplex, UsesFd
<1>3. CASE ReceiveNothing
  BY <1>3 DEF ReceiveNothing, BeginNext, UsesFd
<1>4. CASE ReceiveError
  BY <1>4 DEF ReceiveError, ReceiveHandled, BeginNext, DestroyDuplex, UsesFd
<1>5. CASE ReceiveNotification
  BY <1>5 DEF ReceiveNotification, ReceiveEntry, ReceiveHandled, BeginNext, UsesFd
<1>6. CASE ReceiveEof
  BY <1>6 DEF ReceiveEof, ReceiveHandled, BeginNext, UsesFd
<1>7. CASE ReceiveData
  BY <1>7 DEF ReceiveData, ReceiveEntry, ReceiveHandled, BeginNext, UsesFd
<1>8. CASE ReceiveOversize
  BY <1>8 DEF ReceiveOversize, BeginNext, UsesFd
<1>9. CASE SendNothing
  BY <1>9 DEF SendNothing, EndNext, UsesFd
<1>10. CASE SendAfterRemoteEnded
  BY <1>10 DEF SendAfterRemoteEnded, EndNext, DestroyDuplex
<1>11. CASE SendSucceeds
  BY <1>11 DEF SendSucceeds, SendCalled, EndNext, UsesFd
<1>12. CASE SendError
  BY <1>12 DEF SendError, SendCalled, EndNext, DestroyDuplex, UsesFd
<1>13. CASE NativePollEvent
  BY <1>13 DEF NativePollEvent
<1>14. CASE PollMicrotask
  BY <1>14 DEF PollMicrotask, UsesFd
<1>15. CASE Read
  BY <1>15 DEF Read, NodeCalls, DestroyDuplex
<1>16. CASE Write
  BY <1>16 DEF Write, NodeCalls
<1>17. CASE Final
  BY <1>17 DEF Final, NodeCalls, DestroyDuplex, UsesFd
<1>18. CASE AutoDestroy
  BY <1>18 DEF AutoDestroy, Destroyed, NodeCalls, DestroyDuplex
<1>19. CASE AppDestroys
  BY <1>19 DEF AppDestroys, Destroyed, NodeCalls, DestroyDuplex
<1>20. CASE Stream
  BY <1>20 DEF Stream, NodeCalls
<1>21. CASE Environment
  BY <1>21 DEF Environment
<1>22. CASE AskSocket
  BY <1>22 DEF AskSocket, UsesFd, NodeCalls
<1>. QED
  BY <1>1, <1>2, <1>3, <1>4, <1>5, <1>6, <1>7, <1>8, <1>9, <1>10,
     <1>11, <1>12, <1>13, <1>14, <1>15, <1>16, <1>17, <1>18, <1>19, <1>20, <1>21, <1>22 DEF Next, RunNext

\* The Boolean variables of the data path.
LEMMA DataFlagsStep == IInv /\ Next => DataFlagsOK'
<1> SUFFICES ASSUME IInv, Next PROVE DataFlagsOK'
  OBVIOUS
<1> USE DEF IInv, TypeOK, DataFlagsOK
<1>1. CASE NextDestroyed
  BY <1>1 DEF NextDestroyed
<1>2. CASE NextPollError
  BY <1>2 DEF NextPollError, BeginNext
<1>3. CASE ReceiveNothing
  BY <1>3 DEF ReceiveNothing, BeginNext
<1>4. CASE ReceiveError
  BY <1>4 DEF ReceiveError, ReceiveHandled, BeginNext
<1>5. CASE ReceiveNotification
  BY <1>5 DEF ReceiveNotification, ReceiveEntry, ReceiveHandled, BeginNext
<1>6. CASE ReceiveEof
  BY <1>6 DEF ReceiveEof, ReceiveHandled, BeginNext
<1>7. CASE ReceiveData
  <2>1. PICK n \in PushLengths : mayPushData' = TakesMore(n)
    BY <1>7, Zenon DEF ReceiveData
  <2>2. TakesMore(n) \in BOOLEAN
    BY SMT DEF TakesMore, PushLengths, StreamTypeOK
  <2>3. readRequested' = FALSE /\ UNCHANGED <<remoteEnded, shutdownRequested, connected>>
    BY <1>7 DEF ReceiveData, ReceiveEntry, ReceiveHandled, BeginNext
  <2>. QED BY <2>1, <2>2, <2>3
<1>8. CASE ReceiveOversize
  BY <1>8 DEF ReceiveOversize, BeginNext
<1>9. CASE SendNothing
  BY <1>9 DEF SendNothing, EndNext
<1>10. CASE SendAfterRemoteEnded
  BY <1>10 DEF SendAfterRemoteEnded, EndNext
<1>11. CASE SendSucceeds
  BY <1>11 DEF SendSucceeds, SendCalled, EndNext
<1>12. CASE SendError
  BY <1>12 DEF SendError, SendCalled, EndNext
<1>13. CASE NativePollEvent
  BY <1>13 DEF NativePollEvent
<1>14. CASE PollMicrotask
  BY <1>14 DEF PollMicrotask
<1>15. CASE Read
  BY <1>15 DEF Read, NodeCalls
<1>16. CASE Write
  BY <1>16 DEF Write, NodeCalls
<1>17. CASE Final
  BY <1>17 DEF Final, NodeCalls
<1>18. CASE AutoDestroy
  BY <1>18 DEF AutoDestroy, Destroyed, NodeCalls
<1>19. CASE AppDestroys
  BY <1>19 DEF AppDestroys, Destroyed, NodeCalls
<1>20. CASE Stream
  BY <1>20 DEF Stream, NodeCalls
<1>21. CASE Environment
  BY <1>21 DEF Environment
<1>22. CASE AskSocket
  BY <1>22 DEF AskSocket, UsesFd, NodeCalls
<1>. QED
  BY <1>1, <1>2, <1>3, <1>4, <1>5, <1>6, <1>7, <1>8, <1>9, <1>10,
     <1>11, <1>12, <1>13, <1>14, <1>15, <1>16, <1>17, <1>18, <1>19, <1>20, <1>21, <1>22 DEF Next, RunNext

\* Counters; that of poll events stops at two because the second disarms.
LEMMA CountsStep == IInv /\ Next => CountsOK'
<1> SUFFICES ASSUME IInv, Next PROVE CountsOK'
  OBVIOUS
<1> USE DEF IInv, TypeOK, CountsOK
<1>1. CASE NextDestroyed
  BY <1>1 DEF NextDestroyed
<1>2. CASE NextPollError
  BY <1>2 DEF NextPollError, BeginNext
<1>3. CASE ReceiveNothing
  BY <1>3 DEF ReceiveNothing, BeginNext
<1>4. CASE ReceiveError
  BY <1>4 DEF ReceiveError, ReceiveHandled, BeginNext
<1>5. CASE ReceiveNotification
  BY <1>5 DEF ReceiveNotification, ReceiveEntry, ReceiveHandled, BeginNext
<1>6. CASE ReceiveEof
  BY <1>6 DEF ReceiveEof, ReceiveHandled, BeginNext
<1>7. CASE ReceiveData
  BY <1>7 DEF ReceiveData, ReceiveEntry, ReceiveHandled, BeginNext
<1>8. CASE ReceiveOversize
  BY <1>8 DEF ReceiveOversize, BeginNext
<1>9. CASE SendNothing
  BY <1>9 DEF SendNothing, EndNext
<1>10. CASE SendAfterRemoteEnded
  BY <1>10 DEF SendAfterRemoteEnded, EndNext
<1>11. CASE SendSucceeds
  BY <1>11 DEF SendSucceeds, SendCalled, EndNext
<1>12. CASE SendError
  BY <1>12 DEF SendError, SendCalled, EndNext
<1>13. CASE NativePollEvent
  BY <1>13 DEF NativePollEvent
<1>14. CASE PollMicrotask
  BY <1>14 DEF PollMicrotask, WakeupInv, CountInv
<1>15. CASE Read
  BY <1>15 DEF Read, NodeCalls
<1>16. CASE Write
  BY <1>16 DEF Write, NodeCalls
<1>17. CASE Final
  BY <1>17 DEF Final, NodeCalls
<1>18. CASE AutoDestroy
  BY <1>18 DEF AutoDestroy, Destroyed, NodeCalls
<1>19. CASE AppDestroys
  BY <1>19 DEF AppDestroys, Destroyed, NodeCalls
<1>20. CASE Stream
  BY <1>20 DEF Stream, NodeCalls
<1>21. CASE Environment
  BY <1>21 DEF Environment
<1>22. CASE AskSocket
  BY <1>22 DEF AskSocket, UsesFd, NodeCalls
<1>. QED
  BY <1>1, <1>2, <1>3, <1>4, <1>5, <1>6, <1>7, <1>8, <1>9, <1>10,
     <1>11, <1>12, <1>13, <1>14, <1>15, <1>16, <1>17, <1>18, <1>19, <1>20, <1>21, <1>22 DEF Next, RunNext

\* Queues of message numbers.
LEMMA QueuesStep == IInv /\ Next => QueuesOK'
<1> SUFFICES ASSUME IInv, Next PROVE QueuesOK'
  OBVIOUS
<1> USE DEF IInv, TypeOK, QueuesOK
<1>1. CASE NextDestroyed
  BY <1>1 DEF NextDestroyed
<1>2. CASE NextPollError
  BY <1>2 DEF NextPollError, BeginNext
<1>3. CASE ReceiveNothing
  BY <1>3 DEF ReceiveNothing, BeginNext
<1>4. CASE ReceiveError
  BY <1>4 DEF ReceiveError, ReceiveHandled, BeginNext
<1>5. CASE ReceiveNotification
  BY <1>5 DEF ReceiveNotification, ReceiveEntry, ReceiveHandled, BeginNext
<1>6. CASE ReceiveEof
  BY <1>6 DEF ReceiveEof, ReceiveHandled, BeginNext
<1>7. CASE ReceiveData
  BY <1>7, HeadEntry DEF ReceiveData, ReceiveEntry, ReceiveHandled, BeginNext
<1>8. CASE ReceiveOversize
  BY <1>8 DEF ReceiveOversize, BeginNext
<1>9. CASE SendNothing
  BY <1>9 DEF SendNothing, EndNext
<1>10. CASE SendAfterRemoteEnded
  <2>1. sendQueue # <<>> /\ sendQueue' = Tail(sendQueue) /\ UNCHANGED <<pushed, sent>>
    BY <1>10, Zenon DEF SendAfterRemoteEnded, EndNext
  <2>. QED BY <2>1
<1>11. CASE SendSucceeds
  BY <1>11 DEF SendSucceeds, SendCalled, EndNext
<1>12. CASE SendError
  BY <1>12 DEF SendError, SendCalled, EndNext
<1>13. CASE NativePollEvent
  BY <1>13 DEF NativePollEvent
<1>14. CASE PollMicrotask
  BY <1>14 DEF PollMicrotask
<1>15. CASE Read
  BY <1>15 DEF Read, NodeCalls
<1>16. CASE Write
  BY <1>16 DEF Write, NodeCalls, WantsWrite, StreamTypeOK
<1>17. CASE Final
  BY <1>17 DEF Final, NodeCalls
<1>18. CASE AutoDestroy
  BY <1>18 DEF AutoDestroy, Destroyed, NodeCalls
<1>19. CASE AppDestroys
  BY <1>19 DEF AppDestroys, Destroyed, NodeCalls
<1>20. CASE Stream
  BY <1>20 DEF Stream, NodeCalls
<1>21. CASE Environment
  BY <1>21 DEF Environment
<1>22. CASE AskSocket
  BY <1>22 DEF AskSocket, UsesFd, NodeCalls
<1>. QED
  BY <1>1, <1>2, <1>3, <1>4, <1>5, <1>6, <1>7, <1>8, <1>9, <1>10,
     <1>11, <1>12, <1>13, <1>14, <1>15, <1>16, <1>17, <1>18, <1>19, <1>20, <1>21, <1>22 DEF Next, RunNext

\* Sets of events.
LEMMA EventsStep == IInv /\ Next => EventsOK'
<1> SUFFICES ASSUME IInv, Next PROVE EventsOK'
  OBVIOUS
<1> USE DEF IInv, TypeOK, EventsOK
<1>1. CASE NextDestroyed
  BY <1>1 DEF NextDestroyed
<1>2. CASE NextPollError
  BY <1>2 DEF NextPollError, BeginNext, DestroyDuplex
<1>3. CASE ReceiveNothing
  BY <1>3 DEF ReceiveNothing, BeginNext
<1>4. CASE ReceiveError
  BY <1>4 DEF ReceiveError, ReceiveHandled, BeginNext, DestroyDuplex
<1>5. CASE ReceiveNotification
  BY <1>5 DEF ReceiveNotification, ReceiveEntry, ReceiveHandled, BeginNext
<1>6. CASE ReceiveEof
  BY <1>6 DEF ReceiveEof, ReceiveHandled, BeginNext
<1>7. CASE ReceiveData
  BY <1>7 DEF ReceiveData, ReceiveEntry, ReceiveHandled, BeginNext
<1>8. CASE ReceiveOversize
  BY <1>8 DEF ReceiveOversize, BeginNext
<1>9. CASE SendNothing
  BY <1>9 DEF SendNothing, EndNext, PollerUpdate, Wanted, Directions
<1>10. CASE SendAfterRemoteEnded
  BY <1>10 DEF SendAfterRemoteEnded, EndNext, DestroyDuplex
<1>11. CASE SendSucceeds
  BY <1>11 DEF SendSucceeds, SendCalled, EndNext
<1>12. CASE SendError
  BY <1>12 DEF SendError, SendCalled, EndNext, DestroyDuplex
<1>13. CASE NativePollEvent
  <2>1. lastEvents' = lastEvents /\ (uvEvents' = {} \/ uvEvents' = uvEvents)
    BY <1>13 DEF NativePollEvent
  <2>2. \/ pollPending' = [events |-> {}, err |-> TRUE, any |-> TRUE]
        \/ pollPending' = [events |-> uvEvents \cap Ready, err |-> FALSE, any |-> TRUE]
    BY <1>13 DEF NativePollEvent
  <2>3. {} \in SUBSET Directions /\ uvEvents \cap Ready \in SUBSET Directions
    BY Zenon
  <2>4. ASSUME NEW e \in SUBSET Directions, NEW b \in BOOLEAN
        PROVE  [events |-> e, err |-> b, any |-> TRUE] \in PollEvents
    BY DEF PollEvents
  <2>5. pollPending' \in PollEvents
    <3>1. TRUE \in BOOLEAN /\ FALSE \in BOOLEAN
      OBVIOUS
    <3>2. /\ [events |-> {}, err |-> TRUE, any |-> TRUE] \in PollEvents
          /\ [events |-> uvEvents \cap Ready, err |-> FALSE, any |-> TRUE] \in PollEvents
      BY <2>3, <2>4, <3>1, Zenon
    <3>. QED BY <2>2, <3>2, Zenon
  <2>. QED BY <2>1, <2>5
<1>14. CASE PollMicrotask
  BY <1>14 DEF PollMicrotask, PollerUpdate, NoEvent, PollEvents
<1>15. CASE Read
  BY <1>15 DEF Read, NodeCalls, DestroyDuplex
<1>16. CASE Write
  BY <1>16 DEF Write, NodeCalls
<1>17. CASE Final
  BY <1>17 DEF Final, NodeCalls, DestroyDuplex
<1>18. CASE AutoDestroy
  BY <1>18 DEF AutoDestroy, Destroyed, NodeCalls, DestroyDuplex
<1>19. CASE AppDestroys
  BY <1>19 DEF AppDestroys, Destroyed, NodeCalls, DestroyDuplex
<1>20. CASE Stream
  BY <1>20 DEF Stream, NodeCalls
<1>21. CASE Environment
  BY <1>21 DEF Environment
<1>22. CASE AskSocket
  BY <1>22 DEF AskSocket, UsesFd, NodeCalls
<1>. QED
  BY <1>1, <1>2, <1>3, <1>4, <1>5, <1>6, <1>7, <1>8, <1>9, <1>10,
     <1>11, <1>12, <1>13, <1>14, <1>15, <1>16, <1>17, <1>18, <1>19, <1>20, <1>21, <1>22 DEF Next, RunNext

\* Phase, descriptor and error.
LEMMA OutcomeStep == IInv /\ Next => OutcomeOK'
<1> SUFFICES ASSUME IInv, Next PROVE OutcomeOK'
  OBVIOUS
<1> USE DEF IInv, TypeOK, OutcomeOK
<1>1. CASE NextDestroyed
  BY <1>1 DEF NextDestroyed
<1>2. CASE NextPollError
  BY <1>2, AllErrors DEF NextPollError, BeginNext, DestroyDuplex, KernelTypeOK
<1>3. CASE ReceiveNothing
  BY <1>3 DEF ReceiveNothing, BeginNext
<1>4. CASE ReceiveError
  BY <1>4, AllErrors DEF ReceiveError, ReceiveHandled, BeginNext, DestroyDuplex, KernelTypeOK,
     RecvError
<1>5. CASE ReceiveNotification
  BY <1>5 DEF ReceiveNotification, ReceiveEntry, ReceiveHandled, BeginNext
<1>6. CASE ReceiveEof
  BY <1>6 DEF ReceiveEof, ReceiveHandled, BeginNext
<1>7. CASE ReceiveData
  BY <1>7 DEF ReceiveData, ReceiveEntry, ReceiveHandled, BeginNext
<1>8. CASE ReceiveOversize
  BY <1>8 DEF ReceiveOversize, BeginNext
<1>9. CASE SendNothing
  BY <1>9 DEF SendNothing, EndNext
<1>10. CASE SendAfterRemoteEnded
  BY <1>10, AllErrors DEF SendAfterRemoteEnded, EndNext, DestroyDuplex
<1>11. CASE SendSucceeds
  BY <1>11 DEF SendSucceeds, SendCalled, EndNext
<1>12. CASE SendError
  BY <1>12, AllErrors DEF SendError, SendCalled, EndNext, DestroyDuplex, KernelTypeOK
<1>13. CASE NativePollEvent
  BY <1>13 DEF NativePollEvent
<1>14. CASE PollMicrotask
  BY <1>14 DEF PollMicrotask
<1>15. CASE Read
  BY <1>15, AllErrors DEF Read, NodeCalls, DestroyDuplex, BugErrors
<1>16. CASE Write
  BY <1>16 DEF Write, NodeCalls
<1>17. CASE Final
  BY <1>17, AllErrors DEF Final, NodeCalls, DestroyDuplex, BugErrors
<1>18. CASE AutoDestroy
  BY <1>18, AllErrors DEF AutoDestroy, Destroyed, NodeCalls, DestroyDuplex
<1>19. CASE AppDestroys
  BY <1>19, AllErrors DEF AppDestroys, Destroyed, NodeCalls, DestroyDuplex
<1>20. CASE Stream
  BY <1>20 DEF Stream, NodeCalls
<1>21. CASE Environment
  BY <1>21 DEF Environment
<1>22. CASE AskSocket
  BY <1>22 DEF AskSocket, UsesFd, NodeCalls
<1>. QED
  BY <1>1, <1>2, <1>3, <1>4, <1>5, <1>6, <1>7, <1>8, <1>9, <1>10,
     <1>11, <1>12, <1>13, <1>14, <1>15, <1>16, <1>17, <1>18, <1>19, <1>20, <1>21, <1>22 DEF Next, RunNext

\* Closed means disarmed.
LEMMA ClosedStep == IInv /\ Next => ClosedInv'
<1> SUFFICES ASSUME IInv, Next PROVE ClosedInv'
  OBVIOUS
<1> USE DEF IInv, WakeupInv, ClosedInv, JsIdle
<1>1. CASE NextDestroyed
  BY <1>1 DEF NextDestroyed
<1>2. CASE NextPollError
  BY <1>2 DEF NextPollError, BeginNext, DestroyDuplex
<1>3. CASE ReceiveNothing
  BY <1>3 DEF ReceiveNothing, BeginNext
<1>4. CASE ReceiveError
  BY <1>4 DEF ReceiveError, ReceiveHandled, BeginNext, DestroyDuplex
<1>5. CASE ReceiveNotification
  BY <1>5 DEF ReceiveNotification, ReceiveEntry, ReceiveHandled, BeginNext
<1>6. CASE ReceiveEof
  BY <1>6 DEF ReceiveEof, ReceiveHandled, BeginNext
<1>7. CASE ReceiveData
  BY <1>7 DEF ReceiveData, ReceiveEntry, ReceiveHandled, BeginNext
<1>8. CASE ReceiveOversize
  BY <1>8 DEF ReceiveOversize, BeginNext
<1>9. CASE SendNothing
  BY <1>9 DEF SendNothing, EndNext, PollerUpdate
<1>10. CASE SendAfterRemoteEnded
  BY <1>10 DEF SendAfterRemoteEnded, EndNext, DestroyDuplex
<1>11. CASE SendSucceeds
  BY <1>11 DEF SendSucceeds, SendCalled, EndNext
<1>12. CASE SendError
  BY <1>12 DEF SendError, SendCalled, EndNext, DestroyDuplex
<1>13. CASE NativePollEvent
  BY <1>13 DEF NativePollEvent
<1>14. CASE PollMicrotask
  BY <1>14 DEF PollMicrotask, PollerUpdate, ArmedInv
<1>15. CASE Read
  <2>1. CASE remoteEnded
    BY <1>15, <2>1 DEF Read, NodeCalls, DestroyDuplex
  <2>2. CASE ~remoteEnded
    <3>1. UNCHANGED <<destroyed, fd, uvEvents, phase, pollErrno, uncaught>>
      BY <1>15, <2>2, Zenon DEF Read, NodeCalls
    <3>. QED BY <3>1
  <2>. QED BY <2>1, <2>2
<1>16. CASE Write
  BY <1>16 DEF Write, NodeCalls
<1>17. CASE Final
  <2>1. /\ ~destroyed /\ phase = "idle" /\ phase' = "idle"
        /\ \/ UNCHANGED <<destroyed, fd, uvEvents>>
           \/ \E e : DestroyDuplex(e)
    BY <1>17 DEF Final, NodeCalls
  <2>2. CASE UNCHANGED <<destroyed, fd, uvEvents>>
    BY <2>1, <2>2
  <2>3. CASE \E e : DestroyDuplex(e)
    BY <2>1, <2>3 DEF DestroyDuplex
  <2>. QED BY <2>1, <2>2, <2>3
<1>18. CASE AutoDestroy
  BY <1>18 DEF AutoDestroy, Destroyed, NodeCalls, DestroyDuplex
<1>19. CASE AppDestroys
  BY <1>19 DEF AppDestroys, Destroyed, NodeCalls, DestroyDuplex
<1>20. CASE Stream
  BY <1>20 DEF Stream, NodeCalls
<1>21. CASE Environment
  BY <1>21 DEF Environment
<1>22. CASE AskSocket
  BY <1>22 DEF AskSocket, UsesFd, NodeCalls
<1>. QED
  BY <1>1, <1>2, <1>3, <1>4, <1>5, <1>6, <1>7, <1>8, <1>9, <1>10,
     <1>11, <1>12, <1>13, <1>14, <1>15, <1>16, <1>17, <1>18, <1>19, <1>20, <1>21, <1>22 DEF Next, RunNext

\* Nothing but the end of next() leaves it unscheduled.
LEMMA SleepStep == IInv /\ Next => SleepInv'
<1> SUFFICES ASSUME IInv, Next PROVE SleepInv'
  OBVIOUS
<1> USE DEF IInv, WakeupInv, SleepInv, ClosedInv, JsIdle, Wanted
<1>1. CASE NextDestroyed
  BY <1>1 DEF NextDestroyed
<1>2. CASE NextPollError
  BY <1>2 DEF NextPollError, BeginNext, DestroyDuplex
<1>3. CASE ReceiveNothing
  BY <1>3 DEF ReceiveNothing, BeginNext
<1>4. CASE ReceiveError
  BY <1>4 DEF ReceiveError, ReceiveHandled, BeginNext, DestroyDuplex
<1>5. CASE ReceiveNotification
  BY <1>5 DEF ReceiveNotification, ReceiveEntry, ReceiveHandled, BeginNext
<1>6. CASE ReceiveEof
  BY <1>6 DEF ReceiveEof, ReceiveHandled, BeginNext
<1>7. CASE ReceiveData
  BY <1>7 DEF ReceiveData, ReceiveEntry, ReceiveHandled, BeginNext
<1>8. CASE ReceiveOversize
  BY <1>8 DEF ReceiveOversize, BeginNext
<1>9. CASE SendNothing
  BY <1>9 DEF SendNothing, EndNext, PollerUpdate
<1>10. CASE SendAfterRemoteEnded
  BY <1>10 DEF SendAfterRemoteEnded, EndNext, DestroyDuplex
<1>11. CASE SendSucceeds
  BY <1>11 DEF SendSucceeds, SendCalled, EndNext
<1>12. CASE SendError
  BY <1>12 DEF SendError, SendCalled, EndNext, DestroyDuplex
<1>13. CASE NativePollEvent
  BY <1>13 DEF NativePollEvent
<1>14. CASE PollMicrotask
  <2>1. UNCHANGED <<destroyed, phase, connected, readRequested, shutdownRequested,
                    remoteEnded, sendQueue>>
    BY <1>14 DEF PollMicrotask
  <2>2. CASE destroyed
    BY <2>1, <2>2
  <2>3. CASE ~destroyed /\ pollCallbacksSinceLastMicrotask = 0
    BY <1>14, <2>3 DEF PollMicrotask
  <2>4. CASE ~destroyed /\ pollCallbacksSinceLastMicrotask # 0
    <3>1. nextPending /\ nextPending' = nextPending
      BY <1>14, <2>4 DEF PollMicrotask, CountInv
    <3>. QED BY <3>1
  <2>. QED BY <2>2, <2>3, <2>4
<1>15. CASE Read
  BY <1>15 DEF Read, NodeCalls, DestroyDuplex
<1>16. CASE Write
  BY <1>16 DEF Write, NodeCalls
<1>17. CASE Final
  BY <1>17 DEF Final, NodeCalls, DestroyDuplex
<1>18. CASE AutoDestroy
  BY <1>18 DEF AutoDestroy, Destroyed, NodeCalls, DestroyDuplex
<1>19. CASE AppDestroys
  BY <1>19 DEF AppDestroys, Destroyed, NodeCalls, DestroyDuplex
<1>20. CASE Stream
  BY <1>20 DEF Stream, NodeCalls
<1>21. CASE Environment
  BY <1>21 DEF Environment
<1>22. CASE AskSocket
  BY <1>22 DEF AskSocket, UsesFd, NodeCalls
<1>. QED
  BY <1>1, <1>2, <1>3, <1>4, <1>5, <1>6, <1>7, <1>8, <1>9, <1>10,
     <1>11, <1>12, <1>13, <1>14, <1>15, <1>16, <1>17, <1>18, <1>19, <1>20, <1>21, <1>22 DEF Next, RunNext

\* The poller's belief.
LEMMA ArmedStep == IInv /\ Next => ArmedInv'
<1> SUFFICES ASSUME IInv, Next PROVE ArmedInv'
  OBVIOUS
<1> USE DEF IInv, WakeupInv, ArmedInv, ClosedInv, JsIdle
<1>1. CASE NextDestroyed
  BY <1>1 DEF NextDestroyed
<1>2. CASE NextPollError
  BY <1>2 DEF NextPollError, BeginNext, DestroyDuplex
<1>3. CASE ReceiveNothing
  BY <1>3 DEF ReceiveNothing, BeginNext
<1>4. CASE ReceiveError
  BY <1>4 DEF ReceiveError, ReceiveHandled, BeginNext, DestroyDuplex
<1>5. CASE ReceiveNotification
  BY <1>5 DEF ReceiveNotification, ReceiveEntry, ReceiveHandled, BeginNext
<1>6. CASE ReceiveEof
  BY <1>6 DEF ReceiveEof, ReceiveHandled, BeginNext
<1>7. CASE ReceiveData
  BY <1>7 DEF ReceiveData, ReceiveEntry, ReceiveHandled, BeginNext
<1>8. CASE ReceiveOversize
  BY <1>8 DEF ReceiveOversize, BeginNext
<1>9. CASE SendNothing
  BY <1>9 DEF SendNothing, EndNext, PollerUpdate
<1>10. CASE SendAfterRemoteEnded
  BY <1>10 DEF SendAfterRemoteEnded, EndNext, DestroyDuplex
<1>11. CASE SendSucceeds
  BY <1>11 DEF SendSucceeds, SendCalled, EndNext
<1>12. CASE SendError
  BY <1>12 DEF SendError, SendCalled, EndNext, DestroyDuplex
<1>13. CASE NativePollEvent
  BY <1>13 DEF NativePollEvent
<1>14. CASE PollMicrotask
  BY <1>14 DEF PollMicrotask, PollerUpdate, NoEvent
<1>15. CASE Read
  BY <1>15 DEF Read, NodeCalls, DestroyDuplex
<1>16. CASE Write
  BY <1>16 DEF Write, NodeCalls
<1>17. CASE Final
  BY <1>17 DEF Final, NodeCalls, DestroyDuplex
<1>18. CASE AutoDestroy
  BY <1>18 DEF AutoDestroy, Destroyed, NodeCalls, DestroyDuplex
<1>19. CASE AppDestroys
  BY <1>19 DEF AppDestroys, Destroyed, NodeCalls, DestroyDuplex
<1>20. CASE Stream
  BY <1>20 DEF Stream, NodeCalls
<1>21. CASE Environment
  BY <1>21 DEF Environment
<1>22. CASE AskSocket
  BY <1>22 DEF AskSocket, UsesFd, NodeCalls
<1>. QED
  BY <1>1, <1>2, <1>3, <1>4, <1>5, <1>6, <1>7, <1>8, <1>9, <1>10,
     <1>11, <1>12, <1>13, <1>14, <1>15, <1>16, <1>17, <1>18, <1>19, <1>20, <1>21, <1>22 DEF Next, RunNext

\* Poll events are counted only while next() is due.
LEMMA CountStep == IInv /\ Next => CountInv'
<1> SUFFICES ASSUME IInv, Next PROVE CountInv'
  OBVIOUS
<1> USE DEF IInv, TypeOK, CountsOK, WakeupInv, CountInv, ClosedInv, ArmedInv, JsIdle
<1>1. CASE NextDestroyed
  BY <1>1 DEF NextDestroyed
<1>2. CASE NextPollError
  BY <1>2 DEF NextPollError, BeginNext, DestroyDuplex
<1>3. CASE ReceiveNothing
  BY <1>3 DEF ReceiveNothing, BeginNext
<1>4. CASE ReceiveError
  BY <1>4 DEF ReceiveError, ReceiveHandled, BeginNext, DestroyDuplex
<1>5. CASE ReceiveNotification
  BY <1>5 DEF ReceiveNotification, ReceiveEntry, ReceiveHandled, BeginNext
<1>6. CASE ReceiveEof
  BY <1>6 DEF ReceiveEof, ReceiveHandled, BeginNext
<1>7. CASE ReceiveData
  BY <1>7 DEF ReceiveData, ReceiveEntry, ReceiveHandled, BeginNext
<1>8. CASE ReceiveOversize
  BY <1>8 DEF ReceiveOversize, BeginNext
<1>9. CASE SendNothing
  BY <1>9 DEF SendNothing, EndNext, PollerUpdate
<1>10. CASE SendAfterRemoteEnded
  BY <1>10 DEF SendAfterRemoteEnded, EndNext, DestroyDuplex
<1>11. CASE SendSucceeds
  BY <1>11 DEF SendSucceeds, SendCalled, EndNext
<1>12. CASE SendError
  BY <1>12 DEF SendError, SendCalled, EndNext, DestroyDuplex
<1>13. CASE NativePollEvent
  BY <1>13 DEF NativePollEvent
<1>14. CASE PollMicrotask
  BY <1>14 DEF PollMicrotask, PollerUpdate, NoEvent
<1>15. CASE Read
  BY <1>15 DEF Read, NodeCalls, DestroyDuplex
<1>16. CASE Write
  BY <1>16 DEF Write, NodeCalls
<1>17. CASE Final
  BY <1>17 DEF Final, NodeCalls, DestroyDuplex
<1>18. CASE AutoDestroy
  BY <1>18 DEF AutoDestroy, Destroyed, NodeCalls, DestroyDuplex
<1>19. CASE AppDestroys
  BY <1>19 DEF AppDestroys, Destroyed, NodeCalls, DestroyDuplex
<1>20. CASE Stream
  BY <1>20 DEF Stream, NodeCalls
<1>21. CASE Environment
  BY <1>21 DEF Environment
<1>22. CASE AskSocket
  BY <1>22 DEF AskSocket, UsesFd, NodeCalls
<1>. QED
  BY <1>1, <1>2, <1>3, <1>4, <1>5, <1>6, <1>7, <1>8, <1>9, <1>10,
     <1>11, <1>12, <1>13, <1>14, <1>15, <1>16, <1>17, <1>18, <1>19, <1>20, <1>21, <1>22 DEF Next, RunNext

\* The code's flags and Node's.
LEMMA RequestStep == IInv /\ Next => RequestInv'
<1> SUFFICES ASSUME IInv, Next PROVE RequestInv'
  OBVIOUS
<1> USE DEF IInv, TypeOK, QueuesOK, WakeupInv, RequestInv, ClosedInv, JsIdle
<1>1. CASE NextDestroyed
  BY <1>1 DEF NextDestroyed
<1>2. CASE NextPollError
  BY <1>2 DEF NextPollError, BeginNext, DestroyDuplex
<1>3. CASE ReceiveNothing
  BY <1>3 DEF ReceiveNothing, BeginNext
<1>4. CASE ReceiveError
  BY <1>4 DEF ReceiveError, ReceiveHandled, BeginNext, DestroyDuplex
<1>5. CASE ReceiveNotification
  BY <1>5 DEF ReceiveNotification, ReceiveEntry, ReceiveHandled, BeginNext
<1>6. CASE ReceiveEof
  BY <1>6 DEF ReceiveEof, ReceiveHandled, BeginNext, PushNull
<1>7. CASE ReceiveData
  BY <1>7 DEF ReceiveData, ReceiveEntry, ReceiveHandled, BeginNext, Push
<1>8. CASE ReceiveOversize
  BY <1>8 DEF ReceiveOversize, BeginNext
<1>9. CASE SendNothing
  BY <1>9 DEF SendNothing, EndNext
<1>10. CASE SendAfterRemoteEnded
  BY <1>10 DEF SendAfterRemoteEnded, EndNext, DestroyDuplex
<1>11. CASE SendSucceeds
  BY <1>11 DEF SendSucceeds, SendCalled, EndNext
<1>12. CASE SendError
  BY <1>12 DEF SendError, SendCalled, EndNext, DestroyDuplex
<1>13. CASE NativePollEvent
  BY <1>13 DEF NativePollEvent
<1>14. CASE PollMicrotask
  BY <1>14 DEF PollMicrotask
<1>15. CASE Read
  <2>1. UNCHANGED <<remoteEnded, connected, writing, sendQueue>> /\ ~destroyed
    BY <1>15 DEF Read, NodeCalls
  <2>2. CASE remoteEnded
    <3>1. destroyed' = TRUE /\ UNCHANGED <<mayPushData, readRequested>>
      BY <1>15, <2>2, Zenon DEF Read, DestroyDuplex
    <3>. QED BY <2>1, <3>1
  <2>3. CASE ~remoteEnded
    <3>1. mayPushData' = TRUE /\ readRequested' = TRUE /\ UNCHANGED destroyed
      BY <1>15, <2>3, Zenon DEF Read
    <3>. QED BY <2>1, <3>1
  <2>. QED BY <2>2, <2>3
<1>16. CASE Write
  <2>1. UNCHANGED <<readRequested, mayPushData, destroyed, reading, remoteEnded, connected>>
    BY <1>16 DEF Write, NodeCalls
  <2>2. sendQueue' = Append(sendQueue, taken + 1)
    BY <1>16 DEF Write
  <2>3. Len(sendQueue') = Len(sendQueue) + 1 /\ Len(sendQueue) \in Nat
    BY <2>2, <1>16 DEF Write, WantsWrite, StreamTypeOK
  <2>4. sendQueue' # <<>>
    BY <2>3
  <2>. QED BY <2>1, <2>4
<1>17. CASE Final
  BY <1>17 DEF Final, NodeCalls, DestroyDuplex
<1>18. CASE AutoDestroy
  BY <1>18 DEF AutoDestroy, Destroyed, NodeCalls, DestroyDuplex
<1>19. CASE AppDestroys
  BY <1>19 DEF AppDestroys, Destroyed, NodeCalls, DestroyDuplex
<1>20. CASE Stream
  BY <1>20 DEF Stream, NodeCalls, StreamSteps, AppWrites, AppEnds, AppConsumes, EmitEnd
<1>21. CASE Environment
  BY <1>21 DEF Environment
<1>22. CASE AskSocket
  BY <1>22 DEF AskSocket, UsesFd, NodeCalls
<1>. QED
  BY <1>1, <1>2, <1>3, <1>4, <1>5, <1>6, <1>7, <1>8, <1>9, <1>10,
     <1>11, <1>12, <1>13, <1>14, <1>15, <1>16, <1>17, <1>18, <1>19, <1>20, <1>21, <1>22 DEF Next, RunNext

\* No action uses a closed descriptor.
LEMMA CloseStep == IInv /\ Next => NoUseAfterClose'
<1> SUFFICES ASSUME IInv, Next PROVE NoUseAfterClose'
  OBVIOUS
<1> USE DEF IInv, WakeupInv, ClosedInv, NoUseAfterClose, JsIdle, UsesFd
<1>1. CASE NextDestroyed
  BY <1>1 DEF NextDestroyed
<1>2. CASE NextPollError
  BY <1>2 DEF NextPollError, BeginNext
<1>3. CASE ReceiveNothing
  BY <1>3 DEF ReceiveNothing, BeginNext
<1>4. CASE ReceiveError
  BY <1>4 DEF ReceiveError, ReceiveHandled, BeginNext
<1>5. CASE ReceiveNotification
  BY <1>5 DEF ReceiveNotification, ReceiveEntry, ReceiveHandled, BeginNext
<1>6. CASE ReceiveEof
  BY <1>6 DEF ReceiveEof, ReceiveHandled, BeginNext
<1>7. CASE ReceiveData
  BY <1>7 DEF ReceiveData, ReceiveEntry, ReceiveHandled, BeginNext
<1>8. CASE ReceiveOversize
  BY <1>8 DEF ReceiveOversize, BeginNext
<1>9. CASE SendNothing
  BY <1>9 DEF SendNothing, EndNext
<1>10. CASE SendAfterRemoteEnded
  BY <1>10 DEF SendAfterRemoteEnded, EndNext
<1>11. CASE SendSucceeds
  BY <1>11 DEF SendSucceeds, SendCalled, EndNext
<1>12. CASE SendError
  BY <1>12 DEF SendError, SendCalled, EndNext
<1>13. CASE NativePollEvent
  BY <1>13 DEF NativePollEvent
<1>14. CASE PollMicrotask
  BY <1>14 DEF PollMicrotask
<1>15. CASE Read
  BY <1>15 DEF Read, NodeCalls
<1>16. CASE Write
  BY <1>16 DEF Write, NodeCalls
<1>17. CASE Final
  BY <1>17 DEF Final, NodeCalls
<1>18. CASE AutoDestroy
  BY <1>18 DEF AutoDestroy, Destroyed, NodeCalls
<1>19. CASE AppDestroys
  BY <1>19 DEF AppDestroys, Destroyed, NodeCalls
<1>20. CASE Stream
  BY <1>20 DEF Stream, NodeCalls
<1>21. CASE Environment
  BY <1>21 DEF Environment
<1>22. CASE AskSocket
  BY <1>22 DEF AskSocket, UsesFd, NodeCalls
<1>. QED
  BY <1>1, <1>2, <1>3, <1>4, <1>5, <1>6, <1>7, <1>8, <1>9, <1>10,
     <1>11, <1>12, <1>13, <1>14, <1>15, <1>16, <1>17, <1>18, <1>19, <1>20, <1>21, <1>22 DEF Next, RunNext

LEMMA Inductive == IInv /\ [Next]_vars => IInv'
<1> SUFFICES ASSUME IInv, [Next]_vars PROVE IInv'
  OBVIOUS
<1>1. CASE Next
  <2>1. TypeOK'
    BY <1>1, KernelTypeStep, StreamTypeStep, LoopFlagsStep, DataFlagsStep, CountsStep,
       QueuesStep, EventsStep, OutcomeStep DEF TypeOK
  <2>2. WakeupInv' /\ NoUseAfterClose'
    BY <1>1, ClosedStep, SleepStep, ArmedStep, CountStep, RequestStep, CloseStep DEF WakeupInv
  <2>. QED BY <2>1, <2>2 DEF IInv
<1>2. CASE UNCHANGED vars
  <2>1. KernelTypeOK' /\ StreamTypeOK'
    BY <1>2 DEF IInv, TypeOK, KernelTypeOK, KernelFlagsOK, StreamTypeOK, StreamFlagsOK
  <2>2. LoopFlagsOK' /\ DataFlagsOK'
    BY <1>2 DEF IInv, TypeOK, LoopFlagsOK, DataFlagsOK
  <2>3. CountsOK' /\ QueuesOK' /\ EventsOK' /\ OutcomeOK'
    BY <1>2 DEF IInv, TypeOK, CountsOK, QueuesOK, EventsOK, OutcomeOK
  <2>4. ClosedInv' /\ SleepInv' /\ ArmedInv'
    BY <1>2 DEF IInv, WakeupInv, ClosedInv, SleepInv, ArmedInv, Wanted
  <2>5. CountInv' /\ RequestInv' /\ NoUseAfterClose'
    BY <1>2 DEF IInv, WakeupInv, CountInv, RequestInv, NoUseAfterClose
  <2>. QED BY <2>1, <2>2, <2>3, <2>4, <2>5 DEF IInv, TypeOK, WakeupInv
<1>. QED BY <1>1, <1>2

LEMMA Invariance == Spec => []IInv
<1>. QED BY InitIInv, Inductive, PTL DEF Spec

-------------------------------------------------------------------------------
\* Every variable keeps its type; in particular at most two poll events are
\* ever counted between two runs of next().
THEOREM TypeCorrect == Spec => []TypeOK
<1>1. IInv => TypeOK
  BY DEF IInv
<1>. QED BY <1>1, Invariance, PTL

\* The duplex never falls asleep with a handshake, a read, a shutdown or a write
\* unfinished while the poll handle is not armed for it.
THEOREM NoWakeupIsLost == Spec => []NoLostWakeup
<1>1. IInv => NoLostWakeup
  BY DEF IInv, WakeupInv, ClosedInv, SleepInv, ArmedInv, RequestInv, NoLostWakeup, Asleep, Wanted
<1>. QED BY <1>1, Invariance, PTL

\* Asleep, the handle is armed only for what next() will act on.
THEOREM NoBusyPolling == Spec => []NoBusyPoll
<1>1. IInv => NoBusyPoll
  <2> SUFFICES ASSUME IInv, Asleep PROVE NoBusyPoll
    BY DEF NoBusyPoll
  <2>1. uvEvents \subseteq Wanted /\ (readRequested => mayPushData)
        /\ (remoteEnded => connected)
    BY DEF IInv, WakeupInv, SleepInv, ArmedInv, RequestInv, Asleep
  <2>2. "r" \in Wanted => ~connected \/ ((readRequested \/ shutdownRequested) /\ ~remoteEnded)
    BY Zenon DEF Wanted
  <2>3. "w" \in Wanted => sendQueue # <<>>
    BY DEF Wanted
  <2>. QED BY <2>1, <2>2, <2>3 DEF NoBusyPoll
<1>. QED BY <1>1, Invariance, PTL

\* A second poll event before next() ran leaves the handle disarmed.
THEOREM PollLoopIsBroken == Spec => []PollLoopBroken
<1>1. IInv => PollLoopBroken
  BY DEF IInv, TypeOK, CountsOK, WakeupInv, CountInv, PollLoopBroken
<1>. QED BY <1>1, Invariance, PTL

\* Descriptor and poll handle are not used after they were closed.
THEOREM NoUseOfClosedFd == Spec => []NoUseAfterClose
<1>1. IInv => NoUseAfterClose
  BY DEF IInv
<1>. QED BY <1>1, Invariance, PTL
===============================================================================

------------------------------ MODULE SctpSocket ------------------------------
(***************************************************************************)
(* The one-to-one style SCTP socket that node-lksctp drives, as far as     *)
(* src/lib/socket-duplex.js can tell: an association that comes up, fails, *)
(* is shut down or aborted, a receive queue that mixes messages with       *)
(* notifications, a pending socket error, and a send buffer.  The kernel   *)
(* is not part of the repository: these are the outcomes the code in       *)
(* src/lib and src/main.c distinguishes, chosen by the environment.        *)
(***************************************************************************)
EXTENDS Naturals, Sequences, SequencesExt

CONSTANTS MaxIn,      \* bound: messages the peer sends
          MaxNotes,   \* bound: further notifications the kernel reports
          Oversize    \* TRUE: a message may exceed the receive buffer

ASSUME SocketAssumption == /\ MaxIn \in Nat
                           /\ MaxNotes \in Nat
                           /\ Oversize \in BOOLEAN

VARIABLES
  assoc,      \* the association
  rcvQueue,   \* what recvmsg() returns next, oldest first
  arrived,    \* number of messages the peer's side delivered so far
  notes,      \* number of further notifications reported so far
  skErr,      \* the pending error that SO_ERROR, recv or send reports once
  sndFull,    \* the send buffer has no space
  localShut,  \* shutdown() was called on this side
  everUp      \* history: the association has been up

kernelVars == <<assoc, rcvQueue, arrived, notes, skErr, sndFull, localShut, everUp>>

\* Entries of the receive queue: a message with its number, a message that
\* does not fit the buffer (no MSG_EOR), or a notification.  What a change of a
\* peer's address does besides (an update of the addresses) is the subject of
\* DuplexAddresses.tla.
Entry(k, n) == [kind |-> k, id |-> n]
NoteKinds == {"assoc_change", "other"}
Entries == [kind : {"data", "oversize"}, id : 1..MaxIn] \cup [kind : NoteKinds, id : {0}]

AssocChange == Entry("assoc_change", 0)

SocketErrors == {"ECONNREFUSED", "ECONNRESET", "ETIMEDOUT"}

KernelFlagsOK == sndFull \in BOOLEAN /\ localShut \in BOOLEAN /\ everUp \in BOOLEAN

KernelTypeOK ==
  /\ KernelFlagsOK
  /\ assoc \in {"connecting", "up", "closed"}
  /\ rcvQueue \in Seq(Entries)
  /\ arrived \in 0..MaxIn
  /\ notes \in 0..MaxNotes
  /\ skErr \in SocketErrors \cup {"none"}

\* A client's socket, connecting; or one that accept() returned, whose queue
\* may still hold the notification of its own COMM_UP.
KernelInit(connected) ==
  /\ assoc = IF connected THEN "up" ELSE "connecting"
  /\ rcvQueue \in IF connected THEN {<<>>, <<AssocChange>>} ELSE {<<>>}
  /\ arrived = 0
  /\ notes = 0
  /\ skErr = "none"
  /\ sndFull = FALSE
  /\ localShut = FALSE
  /\ everUp = connected

-------------------------------------------------------------------------------
\* Results of the system calls.

RecvAgain == rcvQueue = <<>> /\ skErr = "none" /\ assoc # "closed"
RecvError == rcvQueue = <<>> /\ skErr # "none"
RecvEof == rcvQueue = <<>> /\ skErr = "none" /\ (assoc = "closed" \/ localShut)

SendPossible == assoc = "up" /\ ~localShut

\* poll(): the directions that are ready.  A pending error is reported apart.
Ready == (IF rcvQueue # <<>> \/ assoc = "closed" \/ localShut THEN {"r"} ELSE {})
         \cup (IF assoc # "connecting" /\ (~sndFull \/ assoc = "closed") THEN {"w"} ELSE {})

-------------------------------------------------------------------------------
\* What the peer and the network do.

AssocUp ==
  /\ assoc = "connecting"
  /\ assoc' = "up"
  /\ everUp' = TRUE
  /\ rcvQueue' = Append(rcvQueue, AssocChange)
  /\ UNCHANGED <<arrived, notes, skErr, sndFull, localShut>>

\* The handshake fails: an error and an SCTP_ASSOC_CHANGE (SCTP_CANT_STR_ASSOC).
ConnectFails ==
  /\ assoc = "connecting"
  /\ assoc' = "closed"
  /\ skErr' \in {"ECONNREFUSED", "ETIMEDOUT"}
  /\ rcvQueue' = Append(rcvQueue, AssocChange)
  /\ UNCHANGED <<arrived, notes, sndFull, localShut, everUp>>

PeerSends ==
  /\ assoc = "up"
  /\ arrived < MaxIn
  /\ arrived' = arrived + 1
  /\ \E k \in {"data"} \cup (IF Oversize THEN {"oversize"} ELSE {}) :
       rcvQueue' = Append(rcvQueue, Entry(k, arrived + 1))
  /\ UNCHANGED <<assoc, notes, skErr, sndFull, localShut, everUp>>

KernelNotifies ==
  /\ assoc = "up"
  /\ notes < MaxNotes
  /\ notes' = notes + 1
  /\ \E k \in NoteKinds : rcvQueue' = Append(rcvQueue, Entry(k, 0))
  /\ UNCHANGED <<assoc, arrived, skErr, sndFull, localShut, everUp>>

\* Graceful shutdown by the peer, or the end of the one begun here.
ShutdownCompletes ==
  /\ assoc = "up"
  /\ assoc' = "closed"
  /\ rcvQueue' = Append(rcvQueue, AssocChange)
  /\ UNCHANGED <<arrived, notes, skErr, sndFull, localShut, everUp>>

\* The association is aborted or times out (SCTP_COMM_LOST).
AssocLost ==
  /\ assoc = "up"
  /\ assoc' = "closed"
  /\ skErr' \in {"ECONNRESET", "ETIMEDOUT"}
  /\ rcvQueue' = Append(rcvQueue, AssocChange)
  /\ UNCHANGED <<arrived, notes, sndFull, localShut, everUp>>

SendBufferDrains ==
  /\ assoc = "up" /\ sndFull
  /\ sndFull' = FALSE
  /\ UNCHANGED <<assoc, rcvQueue, arrived, notes, skErr, localShut, everUp>>

Kernel == \/ AssocUp \/ ConnectFails \/ PeerSends \/ KernelNotifies
          \/ ShutdownCompletes \/ AssocLost \/ SendBufferDrains
===============================================================================

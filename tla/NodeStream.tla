------------------------------ MODULE NodeStream ------------------------------
(***************************************************************************)
(* The stream.Duplex that src/lib/socket-duplex.js creates, seen from the  *)
(* four functions it is given (read, write, final, destroy): when Node     *)
(* calls them, and what push() and the callbacks tell Node.  Node is not   *)
(* part of the repository.  The duplex is created with allowHalfOpen       *)
(* FALSE, and autoDestroy is the default.                                  *)
(***************************************************************************)
EXTENDS Naturals, Sequences, SequencesExt

CONSTANTS HighWaterMark,  \* of the readable side, in messages
          MaxOut          \* bound: messages the application writes

ASSUME StreamAssumption == HighWaterMark \in Nat \ {0} /\ MaxOut \in Nat

VARIABLES
  rLen,         \* messages buffered on the readable side
  reading,      \* _read was called and nothing has been pushed since
  rEnded,       \* push(null) was called
  endEmitted,   \* "end" was emitted
  written,      \* number of messages the application wrote
  taken,        \* number of them passed to _write
  writing,      \* the callback of the last _write is outstanding
  ending,       \* end() was called
  finalCalled,
  finished      \* _final's callback was called without an error

streamVars == <<rLen, reading, rEnded, endEmitted,
                written, taken, writing, ending, finalCalled, finished>>
readableVars == <<rLen, reading, rEnded, endEmitted>>
writableVars == <<written, taken, writing, ending, finalCalled, finished>>

StreamFlagsOK ==
  /\ reading \in BOOLEAN /\ rEnded \in BOOLEAN /\ endEmitted \in BOOLEAN
  /\ writing \in BOOLEAN /\ ending \in BOOLEAN
  /\ finalCalled \in BOOLEAN /\ finished \in BOOLEAN

StreamTypeOK ==
  /\ StreamFlagsOK
  /\ rLen \in Nat
  /\ written \in 0..MaxOut
  /\ taken \in 0..MaxOut

StreamInit ==
  /\ rLen = 0 /\ written = 0 /\ taken = 0
  /\ reading = FALSE /\ rEnded = FALSE /\ endEmitted = FALSE
  /\ writing = FALSE /\ ending = FALSE /\ finalCalled = FALSE /\ finished = FALSE

-------------------------------------------------------------------------------
\* When Node calls the functions, on a stream that is not destroyed.
WantsRead == ~reading /\ ~rEnded /\ rLen < HighWaterMark
WantsWrite == ~writing /\ taken < written
WantsFinal == ending /\ ~finalCalled /\ ~writing /\ taken = written
WantsAutoDestroy == finished /\ endEmitted

\* push(message): it is buffered (n = rLen + 1) or, on a flowing stream whose
\* buffer is empty, handed to the application at once (n = 0).
PushLengths == {rLen + 1} \cup (IF rLen = 0 THEN {0} ELSE {})
Push(n) == rLen' = n /\ reading' = FALSE /\ UNCHANGED <<rEnded, endEmitted>>

\* What push() returned.
TakesMore(n) == n < HighWaterMark

PushNull == rEnded' = TRUE /\ reading' = FALSE /\ UNCHANGED <<rLen, endEmitted>>

-------------------------------------------------------------------------------
\* What the application does.
AppWrites == /\ ~ending
             /\ written < MaxOut
             /\ written' = written + 1
             /\ UNCHANGED <<readableVars, taken, writing, ending, finalCalled, finished>>

AppEnds == /\ ~ending
           /\ ending' = TRUE
           /\ UNCHANGED <<readableVars, written, taken, writing, finalCalled, finished>>

AppConsumes == /\ rLen > 0
               /\ rLen' = rLen - 1
               /\ UNCHANGED <<reading, rEnded, endEmitted, writableVars>>

\* "end" is emitted when the buffer is empty; Node then ends the writable side.
EmitEnd == /\ rEnded /\ rLen = 0 /\ ~endEmitted
           /\ endEmitted' = TRUE
           /\ ending' = TRUE
           /\ UNCHANGED <<rLen, reading, rEnded, written, taken, writing, finalCalled, finished>>

StreamSteps == AppWrites \/ AppEnds \/ AppConsumes \/ EmitEnd
===============================================================================

--------------------------- MODULE SocketSetupProofs ---------------------------
(***************************************************************************)
(* Proofs about SocketSetup.tla.  Its three invariants speak of the end of *)
(* the sequence of calls; what makes them inductive is what has been done  *)
(* and not been refused when each call is reached.                         *)
(***************************************************************************)
EXTENDS SocketSetup, TLAPS

\* Until the end nothing has failed, and the socket is open from its creation on.
UnderWay ==
  /\ pc # "end" <=> outcome = "none"
  /\ pc # "end" => fd = (IF pc = "socket" THEN "none" ELSE "open")

\* What the calls before pc have left.
DoneSoFar ==
  /\ pc \in {"sack", "rcvinfo", "nodelay", "initmsg", "bind", "connect", "listen"} =>
       "subscribe" \in done
  /\ pc \in {"rcvinfo", "nodelay", "initmsg", "bind", "connect", "listen"} =>
       /\ options.sack = "valid" => "sack" \in done
       /\ options.sack # "invalid"
  /\ pc \in {"nodelay", "initmsg", "bind", "connect", "listen"} => "rcvinfo" \in done
  /\ pc \in {"initmsg", "bind", "connect", "listen"} =>
       /\ options.noDelay = "valid" => "nodelay" \in done
       /\ options.noDelay # "invalid"
  /\ pc \in {"bind", "connect", "listen"} => options.streams # "invalid"
  /\ pc \in {"connect", "listen"} => "bind" \in done

IInv == /\ TypeOK /\ UnderWay /\ DoneSoFar
        /\ ReportsBeforeTraffic /\ ReadyIsConfigured /\ ErrorsOfSetupClose

-------------------------------------------------------------------------------
LEMMA InitIInv == Init => IInv
<1> SUFFICES ASSUME Init PROVE IInv
  OBVIOUS
<1>1. TypeOK
  BY DEF Init, TypeOK, Calls
<1>2. UnderWay /\ DoneSoFar
  BY DEF Init, UnderWay, DoneSoFar
<1>3. ReportsBeforeTraffic /\ ReadyIsConfigured /\ ErrorsOfSetupClose
  BY DEF Init, ReportsBeforeTraffic, ReadyIsConfigured, ErrorsOfSetupClose
<1>. QED BY <1>1, <1>2, <1>3 DEF IInv

\* Types, and what the end of the sequence adds to them.
LEMMA TypeStep == IInv /\ Next => TypeOK' /\ UnderWay'
<1> SUFFICES ASSUME IInv, Next PROVE TypeOK' /\ UnderWay'
  OBVIOUS
<1> USE DEF IInv, TypeOK, UnderWay, Calls
<1>1. CASE CreateSocket
  BY <1>1 DEF CreateSocket, Fails
<1>2. CASE Subscribe
  BY <1>2 DEF Subscribe, Succeeds, Fails
<1>3. CASE Sack
  BY <1>3 DEF Sack, Succeeds, Skipped, Fails, Throws
<1>4. CASE RequestRcvinfo
  BY <1>4 DEF RequestRcvinfo, Succeeds, Throws
<1>5. CASE NoDelay
  BY <1>5 DEF NoDelay, Succeeds, Skipped, Fails, Throws
<1>6. CASE Streams
  BY <1>6 DEF Streams, Succeeds, Skipped, Throws
<1>7. CASE ClientBind
  BY <1>7 DEF ClientBind, Succeeds, Fails, Throws
<1>8. CASE ClientConnect
  BY <1>8 DEF ClientConnect, Fails, Throws
<1>9. CASE ServerBind
  BY <1>9 DEF ServerBind, Succeeds, Fails, Throws
<1>10. CASE ServerListen
  BY <1>10 DEF ServerListen, Fails, Throws
<1>. QED BY <1>1, <1>2, <1>3, <1>4, <1>5, <1>6, <1>7, <1>8, <1>9, <1>10
  DEF Next

\* Each call leaves what the later ones rely on.
LEMMA DoneStep == IInv /\ Next => DoneSoFar'
<1> SUFFICES ASSUME IInv, Next PROVE DoneSoFar'
  OBVIOUS
<1> USE DEF IInv, DoneSoFar
<1>1. CASE CreateSocket
  BY <1>1 DEF CreateSocket, Fails
<1>2. CASE Subscribe
  BY <1>2 DEF Subscribe, Succeeds, Fails
<1>3. CASE Sack
  BY <1>3 DEF Sack, Succeeds, Skipped, Fails, Throws
<1>4. CASE RequestRcvinfo
  BY <1>4 DEF RequestRcvinfo, Succeeds, Throws
<1>5. CASE NoDelay
  BY <1>5 DEF NoDelay, Succeeds, Skipped, Fails, Throws
<1>6. CASE Streams
  BY <1>6 DEF Streams, Succeeds, Skipped, Throws
<1>7. CASE ClientBind
  BY <1>7 DEF ClientBind, Succeeds, Fails, Throws
<1>8. CASE ClientConnect
  BY <1>8 DEF ClientConnect, Fails, Throws
<1>9. CASE ServerBind
  BY <1>9 DEF ServerBind, Succeeds, Fails, Throws
<1>10. CASE ServerListen
  BY <1>10 DEF ServerListen, Fails, Throws
<1>. QED BY <1>1, <1>2, <1>3, <1>4, <1>5, <1>6, <1>7, <1>8, <1>9, <1>10
  DEF Next

\* connect and listen are reached only with everything in place.
LEMMA EndStep == IInv /\ Next => (ReportsBeforeTraffic /\ ReadyIsConfigured /\ ErrorsOfSetupClose)'
<1> SUFFICES ASSUME IInv, Next
             PROVE  (ReportsBeforeTraffic /\ ReadyIsConfigured /\ ErrorsOfSetupClose)'
  OBVIOUS
<1> USE DEF IInv, TypeOK, Options, Given, UnderWay, DoneSoFar, ReportsBeforeTraffic, ReadyIsConfigured, ErrorsOfSetupClose
<1>1. CASE CreateSocket
  BY <1>1 DEF CreateSocket, Fails
<1>2. CASE Subscribe
  BY <1>2 DEF Subscribe, Succeeds, Fails
<1>3. CASE Sack
  BY <1>3 DEF Sack, Succeeds, Skipped, Fails, Throws
<1>4. CASE RequestRcvinfo
  BY <1>4 DEF RequestRcvinfo, Succeeds, Throws
<1>5. CASE NoDelay
  BY <1>5 DEF NoDelay, Succeeds, Skipped, Fails, Throws
<1>6. CASE Streams
  BY <1>6 DEF Streams, Succeeds, Skipped, Throws
<1>7. CASE ClientBind
  BY <1>7 DEF ClientBind, Succeeds, Fails, Throws
<1>8. CASE ClientConnect
  BY <1>8 DEF ClientConnect, Fails, Throws
<1>9. CASE ServerBind
  BY <1>9 DEF ServerBind, Succeeds, Fails, Throws
<1>10. CASE ServerListen
  BY <1>10 DEF ServerListen, Fails, Throws
<1>. QED BY <1>1, <1>2, <1>3, <1>4, <1>5, <1>6, <1>7, <1>8, <1>9, <1>10
  DEF Next

LEMMA Invariance == Spec => []IInv
<1>1. IInv /\ UNCHANGED vars => IInv'
  BY DEF vars, IInv, TypeOK, UnderWay, DoneSoFar, ReportsBeforeTraffic, ReadyIsConfigured, ErrorsOfSetupClose
<1>2. IInv /\ [Next]_vars => IInv'
  BY <1>1, TypeStep, DoneStep, EndStep DEF IInv
<1>. QED BY <1>2, InitIInv, PTL DEF Spec

-------------------------------------------------------------------------------
\* No packet can be exchanged before the socket reports association changes and
\* ancillary data and is bound, whichever calls fail.
THEOREM ReportsComeFirst == Spec => []ReportsBeforeTraffic
<1>1. IInv => ReportsBeforeTraffic
  BY DEF IInv
<1>. QED BY <1>1, Invariance, PTL

\* A socket that is handed on has the options that were asked for.
THEOREM ReadyMeansConfigured == Spec => []ReadyIsConfigured
<1>1. IInv => ReadyIsConfigured
  BY DEF IInv
<1>. QED BY <1>1, Invariance, PTL

\* Errors of the setup, and all errors of a server, leave no descriptor open.
THEOREM SetupErrorsClose == Spec => []ErrorsOfSetupClose
<1>1. IInv => ErrorsOfSetupClose
  BY DEF IInv
<1>. QED BY <1>1, Invariance, PTL
================================================================================

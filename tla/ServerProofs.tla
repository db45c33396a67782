----------------------------- MODULE ServerProofs -----------------------------
(***************************************************************************)
(* Proofs about Server.tla, for any number of descriptors, connections and *)
(* any backlog.  The argument: ServerInv says which descriptor is what.    *)
(* The listening descriptor is the server's and the one that libuv         *)
(* watches, connected ones are the duplexes', and a socket that neither    *)
(* listens nor is connected is there for each listen() that threw, at most.*)
(***************************************************************************)
EXTENDS Server, WellFoundedInduction, FiniteSetTheorems, TLAPS

\* Descriptors of sockets that a listen() left behind.
Sockets(table) == {d \in Fds : table[d] = "socket"}

ServerInv ==
  /\ listenPollHandle = "open" => watched = sockfd /\ sockfd # NoFd
  /\ listenPollHandle # "open" => watched = NoFd
  /\ listenPollHandle = "closed" => sockfd = NoFd
  /\ \A d \in Fds : fdTable[d] = "listen" <=> d = sockfd /\ listenPollHandle = "open"
  /\ sockfd # NoFd /\ listenPollHandle # "open" => fdTable[sockfd] = "socket"
  /\ \A d \in duplexes : fdTable[d] = "conn"
  /\ ~uncaught => \A d \in Fds : fdTable[d] = "conn" => d \in duplexes
  /\ pollPending => listenPollHandle # "undefined"
  /\ errored => listenPollHandle = "undefined" /\ sockfd = NoFd
  /\ errorsEmitted = IF errored THEN 1 ELSE 0
  /\ ~misuse

IInv == TypeOK /\ ServerInv

\* Only a listen() that throws leaves a socket behind.
LeftInv == Cardinality(Sockets(fdTable)) =< throws

\* The lowest free number exists and is a free descriptor.
LEMMA NewFdIsFree ==
  ASSUME FreeFds # {}
  PROVE  NewFd \in Fds /\ NewFd # NoFd /\ fdTable[NewFd] = "free"
<1>1. FreeFds \subseteq Nat
  BY ServerAssumption DEF FreeFds, Fds
<1>2. PICK x \in FreeFds : \A y \in FreeFds : ~ (<<y, x>> \in OpToRel(<, Nat))
  BY <1>1, NatLessThanWellFounded, WFMin, Zenon
<1>3. \A y \in FreeFds : x =< y
  <2>1. SUFFICES ASSUME NEW y \in FreeFds PROVE x =< y
    OBVIOUS
  <2>2. x \in Nat /\ y \in Nat
    BY <1>1
  <2>3. ~ (y < x)
    BY <1>2, <2>2 DEF OpToRel
  <2>. QED BY <2>2, <2>3
<1>4. NewFd \in FreeFds
  BY <1>3, Zenon DEF NewFd, Min
<1>. QED BY <1>4, ServerAssumption DEF FreeFds, Fds, NoFd

LEMMA InitServer == Init => IInv
<1>1. Init => TypeOK
  <2>1. Init => fdTable \in [Fds -> {"free", "socket", "listen", "conn"}]
    BY DEF Init
  <2>2. Init => backlog \in 0..Backlog /\ arrivals \in 0..MaxArrivals
    BY ServerAssumption DEF Init
  <2>3. Init => /\ sockfd \in Fds \cup {NoFd} /\ watched \in Fds \cup {NoFd}
                /\ duplexes \subseteq Fds /\ errorsEmitted \in 0..1 /\ throws \in 0..MaxThrows
    BY ServerAssumption DEF Init
  <2>4. Init => /\ errored \in BOOLEAN /\ closed \in BOOLEAN /\ pollPending \in BOOLEAN
                /\ uncaught \in BOOLEAN /\ acceptFailed \in BOOLEAN /\ misuse \in BOOLEAN
                /\ listenPollHandle \in {"undefined", "open", "closed"}
    BY DEF Init
  <2>. QED BY <2>1, <2>2, <2>3, <2>4, Zenon DEF TypeOK
<1>2. Init => ServerInv
  BY DEF Init, ServerInv, Fds, NoFd
<1>. QED BY <1>1, <1>2 DEF IInv

\* Closing what sockfd names, if anything.
LEMMA FreedTable ==
  ASSUME NEW table \in [Fds -> {"free", "socket", "listen", "conn"}], NEW fd \in Fds \cup {NoFd},
         listenPollHandle = "undefined", RaiseErrorAndClose(table, fd)
  PROVE  /\ fdTable' \in [Fds -> {"free", "socket", "listen", "conn"}]
         /\ \A d \in Fds : fdTable'[d] = IF d = fd THEN "free" ELSE table[d]
         /\ errored' = TRUE /\ errorsEmitted' = errorsEmitted + 1 /\ sockfd' = NoFd
         /\ UNCHANGED uncaught
BY DEF RaiseErrorAndClose

LEMMA ListenFailsServer == ASSUME IInv, ListenFails PROVE IInv'
<1>0. /\ fdTable \in [Fds -> {"free", "socket", "listen", "conn"}]
      /\ sockfd \in Fds \cup {NoFd} /\ listenPollHandle = "undefined" /\ ~errored
  BY DEF ListenFails, MayListen, IInv, TypeOK
<1>1. /\ fdTable' \in [Fds -> {"free", "socket", "listen", "conn"}]
      /\ \A d \in Fds : fdTable'[d] = fdTable[d] \/ (fdTable[d] = "socket" /\ fdTable'[d] = "free")
      /\ errored' = TRUE /\ errorsEmitted' = errorsEmitted + 1 /\ sockfd' = NoFd
      /\ UNCHANGED uncaught
  <2>1. CASE RaiseErrorAndClose(fdTable, sockfd)
    <3>1. sockfd # NoFd => fdTable[sockfd] = "socket"
      BY <1>0 DEF IInv, ServerInv
    <3>2. /\ fdTable' \in [Fds -> {"free", "socket", "listen", "conn"}]
          /\ \A d \in Fds : fdTable'[d] = IF d = sockfd THEN "free" ELSE fdTable[d]
          /\ errored' = TRUE /\ errorsEmitted' = errorsEmitted + 1 /\ sockfd' = NoFd
          /\ UNCHANGED uncaught
      BY <1>0, <2>1, FreedTable
    <3>. QED BY <1>0, <3>1, <3>2 DEF NoFd, Fds
  <2>2. CASE FreeFds # {} /\ RaiseErrorAndClose([fdTable EXCEPT ![NewFd] = "socket"], NewFd)
    <3>1. NewFd \in Fds /\ fdTable[NewFd] = "free"
      BY <2>2, NewFdIsFree
    <3>2. [fdTable EXCEPT ![NewFd] = "socket"] \in [Fds -> {"free", "socket", "listen", "conn"}]
      BY <1>0
    <3>3. /\ fdTable' \in [Fds -> {"free", "socket", "listen", "conn"}]
          /\ \A d \in Fds : fdTable'[d] = IF d = NewFd THEN "free"
                                          ELSE [fdTable EXCEPT ![NewFd] = "socket"][d]
          /\ errored' = TRUE /\ errorsEmitted' = errorsEmitted + 1 /\ sockfd' = NoFd
          /\ UNCHANGED uncaught
      BY <1>0, <2>2, <3>1, <3>2, FreedTable
    <3>4. \A d \in Fds : fdTable'[d] = fdTable[d]
      BY <1>0, <3>1, <3>3
    <3>. QED BY <3>3, <3>4
  <2>. QED BY <2>1, <2>2 DEF ListenFails
<1>2. TypeOK'
  BY <1>0, <1>1 DEF ListenFails, IInv, TypeOK, ServerInv, NoFd
<1>3. ServerInv'
  BY <1>0, <1>1 DEF ListenFails, IInv, TypeOK, ServerInv, NoFd, Fds
<1>. QED BY <1>2, <1>3 DEF IInv

LEMMA ListenThrowsServer == ASSUME IInv, ListenThrows PROVE IInv'
<1>1. NewFd \in Fds /\ NewFd # NoFd /\ fdTable[NewFd] = "free"
  BY NewFdIsFree DEF ListenThrows
<1>2. TypeOK'
  BY <1>1, ServerAssumption DEF ListenThrows, IInv, TypeOK
<1>3. /\ listenPollHandle = "undefined" /\ ~errored
      /\ \A d \in Fds : fdTable'[d] = IF d = NewFd THEN "socket" ELSE fdTable[d]
  BY <1>1 DEF ListenThrows, MayListen, IInv, TypeOK
<1>4. ServerInv'
  BY <1>1, <1>3 DEF ListenThrows, IInv, TypeOK, ServerInv
<1>. QED BY <1>2, <1>4 DEF IInv

LEMMA ListenServer == ASSUME IInv, Listen PROVE IInv'
<1>1. NewFd \in Fds /\ NewFd # NoFd /\ fdTable[NewFd] = "free"
  BY NewFdIsFree DEF Listen
<1>2. TypeOK'
  BY <1>1 DEF Listen, IInv, TypeOK, observed
<1>3. ServerInv'
  <2>1. ~errored /\ listenPollHandle = "undefined"
    BY DEF Listen, MayListen, IInv, ServerInv
  <2>2. /\ sockfd' = NewFd /\ watched' = NewFd /\ listenPollHandle' = "open"
        /\ fdTable' = [fdTable EXCEPT ![NewFd] = "listen"]
        /\ UNCHANGED <<errored, pollPending, duplexes, uncaught, errorsEmitted, misuse>>
    BY DEF Listen, observed
  <2>3. \A d \in Fds : fdTable'[d] = "listen" <=> d = sockfd'
    BY <1>1, <2>1, <2>2 DEF IInv, TypeOK, ServerInv, NoFd, Fds
  <2>4. \A d \in duplexes : fdTable'[d] = "conn"
    BY <1>1, <2>2 DEF IInv, TypeOK, ServerInv
  <2>5. ~uncaught => \A d \in Fds : fdTable'[d] = "conn" => d \in duplexes
    BY <1>1, <2>2 DEF IInv, TypeOK, ServerInv
  <2>. QED BY <1>1, <2>1, <2>2, <2>3, <2>4, <2>5 DEF IInv, ServerInv
<1>. QED BY <1>2, <1>3 DEF IInv

LEMMA CloseServer == ASSUME IInv, Close PROVE IInv'
<1>1. TypeOK'
  BY ServerAssumption DEF Close, IInv, TypeOK, observed, NoFd
<1>2. ServerInv'
  <2>1. /\ sockfd' = NoFd /\ watched' = NoFd /\ listenPollHandle' # "open"
        /\ listenPollHandle' = "undefined" <=> listenPollHandle = "undefined"
        /\ UNCHANGED <<errored, pollPending, duplexes, uncaught, errorsEmitted, misuse>>
    BY DEF Close, observed
  <2>2. \A d \in Fds : fdTable'[d] = IF d = sockfd THEN "free" ELSE fdTable[d]
    <3>1. CASE sockfd = NoFd
      BY <3>1 DEF Close, NoFd, Fds
    <3>2. CASE sockfd # NoFd
      <4>1. fdTable' = [fdTable EXCEPT ![sockfd] = "free"] /\ sockfd \in Fds
        BY <3>2 DEF Close, IInv, TypeOK
      <4>. QED BY <4>1 DEF IInv, TypeOK
    <3>. QED BY <3>1, <3>2
  <2>3. \A d \in Fds : fdTable'[d] = "listen" <=> d = sockfd'
    BY <2>1, <2>2 DEF IInv, ServerInv, NoFd, Fds
  <2>4. \A d \in duplexes : d # sockfd /\ d \in Fds
    BY DEF IInv, TypeOK, ServerInv, Fds, NoFd
  <2>. QED BY <2>1, <2>2, <2>3, <2>4 DEF IInv, ServerInv
<1>. QED BY <1>1, <1>2 DEF IInv

\* The microtask finds a handle that is open, and a descriptor.
LEMMA BeginsServer ==
  ASSUME IInv, AcceptBegins
  PROVE  sockfd # NoFd /\ listenPollHandle = "open" /\ misuse' = misuse
BY DEF AcceptBegins, IInv, TypeOK, ServerInv

LEMMA AcceptServer == ASSUME IInv, Accept PROVE IInv'
<1>1. NewFd \in Fds /\ NewFd # NoFd /\ fdTable[NewFd] = "free"
  BY NewFdIsFree DEF Accept
<1>2. AcceptBegins /\ misuse' = misuse /\ listenPollHandle = "open"
  BY BeginsServer DEF Accept
<1>3. TypeOK'
  <2>1. fdTable' \in [Fds -> {"free", "socket", "listen", "conn"}] /\ duplexes' \subseteq Fds
    BY <1>1 DEF Accept, AcceptBegins, IInv, TypeOK
  <2>2. backlog' \in 0..Backlog
    BY ServerAssumption DEF Accept, IInv, TypeOK
  <2>. QED BY <1>2, <2>1, <2>2 DEF Accept, AcceptBegins, IInv, TypeOK
<1>4. ServerInv'
  BY <1>1, <1>2 DEF Accept, AcceptBegins, IInv, TypeOK, ServerInv
<1>. QED BY <1>3, <1>4 DEF IInv

LEMMA AcceptDeadServer == ASSUME IInv, AcceptDead PROVE IInv'
<1>1. NewFd \in Fds /\ NewFd # NoFd /\ fdTable[NewFd] = "free"
  BY NewFdIsFree DEF AcceptDead
<1>2. AcceptBegins /\ misuse' = misuse /\ listenPollHandle = "open"
  BY BeginsServer DEF AcceptDead
<1>3. TypeOK'
  <2>1. fdTable' \in [Fds -> {"free", "socket", "listen", "conn"}] /\ duplexes' \subseteq Fds
    BY <1>1 DEF AcceptDead, AcceptBegins, IInv, TypeOK
  <2>2. backlog' \in 0..Backlog
    BY ServerAssumption DEF AcceptDead, IInv, TypeOK
  <2>. QED BY <1>2, <2>1, <2>2 DEF AcceptDead, AcceptBegins, IInv, TypeOK
<1>4. ServerInv'
  BY <1>1, <1>2 DEF AcceptDead, AcceptBegins, IInv, TypeOK, ServerInv
<1>. QED BY <1>3, <1>4 DEF IInv

LEMMA AcceptFailsServer == ASSUME IInv, AcceptFails PROVE IInv'
<1>1. AcceptBegins /\ misuse' = misuse /\ listenPollHandle = "open"
  BY BeginsServer DEF AcceptFails
<1>2. /\ uncaught' = TRUE
      /\ UNCHANGED <<fdTable, errored, errorsEmitted, sockfd>>
  BY <1>1 DEF AcceptFails, RaiseErrorAndClose
<1>. QED BY <1>1, <1>2 DEF AcceptFails, AcceptBegins, IInv, TypeOK, ServerInv

LEMMA DuplexDestroyedServer == ASSUME IInv, DuplexDestroyed PROVE IInv'
<1>1. PICK d \in duplexes : /\ duplexes' = duplexes \ {d}
                            /\ fdTable' = [fdTable EXCEPT ![d] = "free"]
  BY DEF DuplexDestroyed
<1>2. TypeOK'
  BY <1>1 DEF DuplexDestroyed, IInv, TypeOK, serverVars, observed
<1>3. ServerInv'
  BY <1>1 DEF DuplexDestroyed, IInv, TypeOK, ServerInv, serverVars, observed
<1>. QED BY <1>2, <1>3 DEF IInv

LEMMA NextServer == ASSUME IInv, [Next]_vars PROVE IInv'
<1>1. CASE PollEvent
  BY <1>1 DEF PollEvent, IInv, TypeOK, ServerInv, serverVars, kernelVars, observed
<1>2. CASE EventDropped
  BY <1>2 DEF EventDropped, IInv, TypeOK, ServerInv, serverVars, kernelVars, observed
<1>3. CASE Connects
  BY <1>3, ServerAssumption DEF Connects, IInv, TypeOK, ServerInv, serverVars, observed
<1>4. CASE ConnectionAborted
  BY <1>4, ServerAssumption DEF ConnectionAborted, IInv, TypeOK, ServerInv, serverVars, observed
<1>5. CASE UNCHANGED vars
  BY <1>5 DEF vars, IInv, TypeOK, ServerInv, serverVars, kernelVars, observed
<1>. QED
  BY <1>1, <1>2, <1>3, <1>4, <1>5, ListenFailsServer, ListenThrowsServer, ListenServer, CloseServer,
     AcceptServer, AcceptDeadServer, AcceptFailsServer, DuplexDestroyedServer DEF Next

-------------------------------------------------------------------------------
\* Fds is finite, and so are its subsets.
LEMMA FewFds == IsFiniteSet(Fds)
BY FS_Interval, ServerAssumption DEF Fds

\* A table with no socket that another has not, has no more of them.
LEMMA FewerSockets ==
  ASSUME NEW old, NEW new,
         \A d \in Fds : new[d] = "socket" => old[d] = "socket"
  PROVE  Cardinality(Sockets(new)) =< Cardinality(Sockets(old))
<1>1. Sockets(new) \subseteq Sockets(old) /\ Sockets(old) \subseteq Fds
  BY DEF Sockets
<1>2. IsFiniteSet(Sockets(old))
  BY <1>1, FewFds, FS_Subset
<1>. QED BY <1>1, <1>2, FS_Subset

\* One more socket counts for one.
LEMMA OneMoreSocket ==
  ASSUME NEW old, NEW new, NEW one,
         \A d \in Fds : new[d] = "socket" => old[d] = "socket" \/ d = one
  PROVE  Cardinality(Sockets(new)) =< Cardinality(Sockets(old)) + 1
<1>1. Sockets(new) \subseteq Sockets(old) \cup {one} /\ Sockets(old) \subseteq Fds
  BY DEF Sockets
<1>2. IsFiniteSet(Sockets(old))
  BY <1>1, FewFds, FS_Subset
<1>3. /\ IsFiniteSet(Sockets(old) \cup {one})
      /\ Cardinality(Sockets(old) \cup {one}) \in {Cardinality(Sockets(old)), Cardinality(Sockets(old)) + 1}
  BY <1>2, FS_AddElement
<1>4. Cardinality(Sockets(new)) =< Cardinality(Sockets(old) \cup {one})
  BY <1>1, <1>3, FS_Subset
<1>5. IsFiniteSet(Sockets(new))
  BY <1>1, <1>3, FS_Subset
<1>6. Cardinality(Sockets(old)) \in Nat /\ Cardinality(Sockets(new)) \in Nat
  BY <1>2, <1>5, FS_CardinalityType
<1>. QED BY <1>3, <1>4, <1>6

LEMMA NextLeft == ASSUME IInv, LeftInv, [Next]_vars PROVE LeftInv'
<1>0. /\ fdTable \in [Fds -> {"free", "socket", "listen", "conn"}] /\ throws \in Nat
      /\ sockfd \in Fds \cup {NoFd}
  BY DEF IInv, TypeOK
<1>. DEFINE Fewer == \A d \in Fds : fdTable'[d] = "socket" => fdTable[d] = "socket"
<1>1. CASE throws' = throws /\ Fewer
  <2>1. Cardinality(Sockets(fdTable')) =< Cardinality(Sockets(fdTable))
    BY <1>1, FewerSockets
  <2>2. IsFiniteSet(Sockets(fdTable)) /\ IsFiniteSet(Sockets(fdTable'))
    BY FewFds, FS_Subset DEF Sockets
  <2>3. Cardinality(Sockets(fdTable)) \in Nat /\ Cardinality(Sockets(fdTable')) \in Nat
    BY <2>2, FS_CardinalityType
  <2>4. Cardinality(Sockets(fdTable')) =< throws'
    BY <1>0, <1>1, <2>1, <2>3 DEF LeftInv
  <2>. QED BY <2>4 DEF LeftInv, Sockets
<1>2. CASE ListenThrows
  <2>1. \A d \in Fds : fdTable'[d] = "socket" => fdTable[d] = "socket" \/ d = NewFd
    BY <1>0, <1>2 DEF ListenThrows
  <2>2. Cardinality(Sockets(fdTable')) =< Cardinality(Sockets(fdTable)) + 1
    BY <2>1, OneMoreSocket
  <2>3. IsFiniteSet(Sockets(fdTable)) /\ IsFiniteSet(Sockets(fdTable'))
    BY FewFds, FS_Subset DEF Sockets
  <2>4. Cardinality(Sockets(fdTable)) \in Nat /\ Cardinality(Sockets(fdTable')) \in Nat
    BY <2>3, FS_CardinalityType
  <2>5. Cardinality(Sockets(fdTable')) =< throws'
    BY <1>0, <1>2, <2>2, <2>4 DEF LeftInv, ListenThrows
  <2>. QED BY <2>5 DEF LeftInv, Sockets
<1>3. CASE ListenFails
  <2>1. listenPollHandle = "undefined"
    BY <1>3 DEF ListenFails, MayListen
  <2>2. CASE RaiseErrorAndClose(fdTable, sockfd)
    BY <1>0, <1>1, <1>3, <2>1, <2>2, FreedTable DEF ListenFails
  <2>3. CASE FreeFds # {} /\ RaiseErrorAndClose([fdTable EXCEPT ![NewFd] = "socket"], NewFd)
    <3>1. NewFd \in Fds /\ [fdTable EXCEPT ![NewFd] = "socket"] \in [Fds -> {"free", "socket", "listen", "conn"}]
      BY <1>0, <2>3, NewFdIsFree
    <3>2. \A d \in Fds : fdTable'[d] = IF d = NewFd THEN "free" ELSE fdTable[d]
      BY <1>0, <2>1, <2>3, <3>1, FreedTable
    <3>. QED BY <1>1, <1>3, <3>2 DEF ListenFails
  <2>. QED BY <1>3, <2>2, <2>3 DEF ListenFails
<1>4. CASE Listen
  BY <1>0, <1>1, <1>4 DEF Listen, observed
<1>5. CASE Close
  BY <1>0, <1>1, <1>5 DEF Close, observed
<1>6. CASE Accept
  BY <1>0, <1>1, <1>6 DEF Accept
<1>7. CASE AcceptDead
  BY <1>0, <1>1, <1>7 DEF AcceptDead
<1>8. CASE AcceptFails
  BY <1>0, <1>1, <1>8, BeginsServer DEF AcceptFails, RaiseErrorAndClose
<1>9. CASE DuplexDestroyed
  BY <1>0, <1>1, <1>9 DEF DuplexDestroyed, observed
<1>10. CASE PollEvent \/ EventDropped \/ Connects \/ ConnectionAborted \/ UNCHANGED vars
  BY <1>1, <1>10 DEF PollEvent, EventDropped, Connects, ConnectionAborted, vars, kernelVars, observed
<1>. QED
  BY <1>2, <1>3, <1>4, <1>5, <1>6, <1>7, <1>8, <1>9, <1>10 DEF Next

LEMMA InitLeft == Init => LeftInv
<1>1. Init => Sockets(fdTable) = {} /\ throws = 0
  BY DEF Init, Sockets
<1>. QED BY <1>1, FS_EmptySet DEF LeftInv

LEMMA Invariant == Spec => [](IInv /\ LeftInv)
<1>1. Init => IInv /\ LeftInv
  BY InitServer, InitLeft
<1>2. IInv /\ LeftInv /\ [Next]_vars => IInv' /\ LeftInv'
  BY NextServer, NextLeft
<1>. QED BY <1>1, <1>2, PTL DEF Spec

-------------------------------------------------------------------------------
\* Types of the server's state and the kernel's table; at most one "error"
\* event is emitted.
THEOREM ServerTypes == Spec => []TypeOK
<1>1. IInv => TypeOK BY DEF IInv
<1>. QED BY <1>1, Invariant, PTL

\* listen(), accept(), close() and their failures lose no descriptor, and each
\* listen() that throws at most one, unless an uncaught exception ends the process.
THEOREM DescriptorsAreOwned == Spec => []NoDescriptorLeak
<1>1. ASSUME IInv, LeftInv, ~uncaught
      PROVE  /\ Cardinality(Lost) =< throws
             /\ duplexes \cup ({sockfd} \ {NoFd}) \subseteq OpenFds
  <2>1. Lost \subseteq Sockets(fdTable) /\ Sockets(fdTable) \subseteq Fds
    BY <1>1 DEF Lost, OpenFds, FreeFds, Sockets, IInv, TypeOK, ServerInv
  <2>2. IsFiniteSet(Sockets(fdTable)) /\ IsFiniteSet(Lost)
    BY <2>1, FewFds, FS_Subset
  <2>3. Cardinality(Lost) =< Cardinality(Sockets(fdTable))
    BY <2>1, <2>2, FS_Subset
  <2>4. Cardinality(Lost) =< throws
    BY <1>1, <2>2, <2>3, FS_CardinalityType DEF LeftInv, IInv, TypeOK
  <2>5. \A d \in duplexes \cup ({sockfd} \ {NoFd}) : d \in Fds /\ fdTable[d] # "free"
    BY <1>1 DEF IInv, TypeOK, ServerInv
  <2>. QED BY <2>4, <2>5 DEF OpenFds, FreeFds
<1>2. IInv /\ LeftInv => NoDescriptorLeak
  BY <1>1 DEF NoDescriptorLeak
<1>. QED BY <1>2, Invariant, PTL

\* The poller never watches a descriptor that is not the server's own.
THEOREM OwnFdIsWatched == Spec => []WatchesOwnFd
<1>1. IInv => WatchesOwnFd
  BY DEF IInv, TypeOK, ServerInv, WatchesOwnFd, Fds, NoFd
<1>. QED BY <1>1, Invariant, PTL

\* An event that was reported before close() does not lead to accept().
THEOREM AcceptNeedsDescriptor == Spec => []NoAcceptAfterClose
<1>1. IInv => NoAcceptAfterClose
  BY DEF IInv, ServerInv, NoAcceptAfterClose
<1>. QED BY <1>1, Invariant, PTL

\* After a failed listen() nothing listens and nothing is watched.
THEOREM FailedServerIsDown == Spec => []ErroredIsDown
<1>1. IInv => ErroredIsDown
  BY DEF IInv, TypeOK, ServerInv, ErroredIsDown, Fds, NoFd
<1>. QED BY <1>1, Invariant, PTL
-------------------------------------------------------------------------------
\* Connections wait only while the poll handle is open: it stays open until
\* close(), which resets them.
WaitingInv == backlog > 0 => listenPollHandle = "open"

LEMMA WaitingStep == ASSUME IInv, WaitingInv, [Next]_vars PROVE WaitingInv'
<1>1. CASE Listen \/ PollEvent \/ DuplexDestroyed \/ UNCHANGED vars
  BY <1>1 DEF Listen, PollEvent, DuplexDestroyed, vars, serverVars, kernelVars, WaitingInv
<1>2. CASE ListenFails \/ ListenThrows \/ EventDropped
  BY <1>2 DEF ListenFails, ListenThrows, EventDropped, serverVars, kernelVars, WaitingInv
<1>3. CASE Accept \/ AcceptDead
  <2>1. backlog > 0 /\ UNCHANGED listenPollHandle
    BY <1>3 DEF Accept, AcceptDead, AcceptBegins
  <2>. QED BY <2>1 DEF WaitingInv
<1>4. CASE AcceptFails
  BY <1>4 DEF AcceptFails, AcceptBegins, WaitingInv
<1>5. CASE Close
  <2>1. backlog' = 0 \/ (sockfd = NoFd /\ backlog' = backlog)
    BY <1>5 DEF Close
  <2>2. listenPollHandle = "open" => sockfd # NoFd
    BY DEF IInv, ServerInv
  <2>3. backlog' = 0 \/ ~(backlog' > 0)
    BY <2>1, <2>2 DEF WaitingInv
  <2>. QED BY <2>3 DEF WaitingInv
<1>6. CASE Connects
  BY <1>6 DEF Connects, serverVars, IInv, ServerInv, WaitingInv
<1>7. CASE ConnectionAborted
  BY <1>7 DEF ConnectionAborted, serverVars, WaitingInv
<1>. QED BY <1>1, <1>2, <1>3, <1>4, <1>5, <1>6, <1>7 DEF Next

\* A connection waits on a descriptor that libuv watches for the server, so that
\* an event is due or reported already: what ConnectionServed needs but fairness.
THEOREM WaitingIsWatched ==
  Spec => [](backlog > 0 => watched # NoFd /\ watched = sockfd /\ fdTable[watched] = "listen")
<1>1. Init => WaitingInv
  BY DEF Init, WaitingInv
<1>2. IInv /\ WaitingInv => (backlog > 0 => watched # NoFd /\ watched = sockfd /\ fdTable[watched] = "listen")
  BY DEF IInv, TypeOK, ServerInv, WaitingInv, NoFd, Fds
<1>. QED BY <1>1, <1>2, WaitingStep, Invariant, PTL DEF Spec
===============================================================================

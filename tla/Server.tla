-------------------------------- MODULE Server --------------------------------
(***************************************************************************)
(* src/lib/server.js: the listening socket, its poller, and the            *)
(* descriptors it opens.  The kernel's table of descriptors is modelled,   *)
(* with reuse of closed numbers, and so is the queue of connections that   *)
(* wait for accept().  The duplexes it hands out appear only as the        *)
(* descriptors they own (SocketDuplex.tla is one of them).                 *)
(*                                                                         *)
(* JavaScript is atomic between two events.  A poll event is two steps:    *)
(* libuv's callback, and the microtask that accepts; close() and whatever  *)
(* else the application does may come between the two.                     *)
(***************************************************************************)
EXTENDS Naturals, FiniteSets, FiniteSetsExt

CONSTANTS MaxFd,        \* bound: size of the descriptor table
          MaxArrivals,  \* bound: connections that peers open
          Backlog,      \* the backlog option
          MaxThrows     \* bound: calls of listen() that throw

ASSUME ServerAssumption == /\ MaxFd \in Nat \ {0} /\ MaxArrivals \in Nat
                           /\ Backlog \in Nat \ {0} /\ MaxThrows \in Nat

NoFd == 0
Fds == 1..MaxFd

VARIABLES
  \* server.js
  errored, closed,
  sockfd,             \* NoFd when undefined
  listenPollHandle,   \* "undefined", "open" or "closed"
  \* the poll handle
  watched,            \* the descriptor libuv watches, or NoFd
  pollPending,        \* an event was reported, its microtask has not run
  \* the kernel
  fdTable,            \* what each descriptor is: "free", "socket", "listen" or "conn"
  backlog,            \* connections waiting for accept()
  arrivals,           \* connections opened so far
  \* observations
  duplexes,           \* descriptors of the live duplexes handed out
  uncaught,           \* an exception reached the top: the process ends
  acceptFailed,       \* accept() returned an error
  errorsEmitted,      \* "error" events
  throws,             \* calls of listen() that threw with a socket open
  misuse              \* accept() was called without a listening descriptor

serverVars == <<errored, closed, sockfd, listenPollHandle>>
kernelVars == <<fdTable, backlog, arrivals>>
observed == <<uncaught, acceptFailed, errorsEmitted, throws, misuse>>
vars == <<serverVars, watched, pollPending, kernelVars, duplexes, observed>>

TypeOK ==
  /\ errored \in BOOLEAN /\ closed \in BOOLEAN
  /\ sockfd \in Fds \cup {NoFd}
  /\ listenPollHandle \in {"undefined", "open", "closed"}
  /\ watched \in Fds \cup {NoFd}
  /\ pollPending \in BOOLEAN
  /\ fdTable \in [Fds -> {"free", "socket", "listen", "conn"}]
  /\ backlog \in 0..Backlog
  /\ arrivals \in 0..MaxArrivals
  /\ duplexes \subseteq Fds
  /\ uncaught \in BOOLEAN /\ acceptFailed \in BOOLEAN /\ misuse \in BOOLEAN
  /\ errorsEmitted \in 0..1 /\ throws \in 0..MaxThrows

Init ==
  /\ errored = FALSE /\ closed = FALSE
  /\ sockfd = NoFd /\ listenPollHandle = "undefined"
  /\ watched = NoFd /\ pollPending = FALSE
  /\ fdTable = [d \in Fds |-> "free"]
  /\ backlog = 0 /\ arrivals = 0
  /\ duplexes = {}
  /\ uncaught = FALSE /\ acceptFailed = FALSE /\ misuse = FALSE
  /\ errorsEmitted = 0 /\ throws = 0

-------------------------------------------------------------------------------
FreeFds == {d \in Fds : fdTable[d] = "free"}
OpenFds == Fds \ FreeFds

\* The kernel hands out the lowest number that is free.
NewFd == Min(FreeFds)

JsRuns == ~uncaught

\* Mutant: a server that failed may be told to listen again.
MayListenAgain == listenPollHandle = "undefined" /\ ~closed

\* listen() gets past its first three tests.
MayListen == ~errored /\ listenPollHandle = "undefined" /\ ~closed

\* Mutant: the descriptor is forgotten but not closed.
RaiseErrorAndCloseLeaking(table, d) ==
  /\ errored' = TRUE
  /\ errorsEmitted' = errorsEmitted + 1
  /\ sockfd' = NoFd
  /\ fdTable' = table
  /\ UNCHANGED uncaught

\* raiseErrorAndClose, when the descriptors are as in table and sockfd is d.
\* With a poll handle it calls listenPollHandle.maybeStop(), which a poller does
\* not have: a TypeError, before anything is closed or emitted.
RaiseErrorAndClose(table, d) ==
  \/ /\ listenPollHandle # "undefined"
     /\ uncaught' = TRUE
     /\ fdTable' = table
     /\ UNCHANGED <<errored, errorsEmitted, sockfd>>
  \/ /\ listenPollHandle = "undefined"
     /\ errored' = TRUE
     /\ errorsEmitted' = errorsEmitted + 1
     /\ sockfd' = NoFd
     /\ fdTable' = [x \in Fds |-> IF x = d THEN "free" ELSE table[x]]
     /\ UNCHANGED uncaught

\* listen(): createSocketWithOptions returns an error; or bind() or listen()
\* fails on the new descriptor, which sockfd is by then.
ListenFails ==
  /\ JsRuns
  /\ MayListen
  /\ \/ RaiseErrorAndClose(fdTable, sockfd)
     \/ /\ FreeFds # {}
        /\ RaiseErrorAndClose([fdTable EXCEPT ![NewFd] = "socket"], NewFd)
  /\ UNCHANGED <<closed, listenPollHandle, watched, pollPending, backlog, arrivals, duplexes,
                 acceptFailed, throws, misuse>>

\* listen() throws with a socket open: an option or an address is refused by an
\* exception, before or after sockfd has the new descriptor.  Nothing is closed,
\* no error is recorded, and listen() may be called again.
ListenThrows ==
  /\ JsRuns
  /\ MayListen
  /\ throws < MaxThrows
  /\ FreeFds # {}
  /\ fdTable' = [fdTable EXCEPT ![NewFd] = "socket"]
  /\ sockfd' \in {sockfd, NewFd}
  /\ throws' = throws + 1
  /\ UNCHANGED <<errored, closed, listenPollHandle, watched, pollPending, backlog, arrivals,
                 duplexes, uncaught, acceptFailed, errorsEmitted, misuse>>

\* listen() succeeds.
Listen ==
  /\ JsRuns
  /\ MayListen
  /\ FreeFds # {}
  /\ sockfd' = NewFd
  /\ fdTable' = [fdTable EXCEPT ![NewFd] = "listen"]
  /\ listenPollHandle' = "open"
  /\ watched' = NewFd
  /\ UNCHANGED <<errored, closed, pollPending, backlog, arrivals, duplexes, observed>>

\* libuv reports that the watched descriptor is readable.
PollEvent ==
  /\ JsRuns
  /\ watched # NoFd
  /\ ~pollPending
  /\ fdTable[watched] = "listen" /\ backlog > 0
  /\ pollPending' = TRUE
  /\ UNCHANGED <<serverVars, watched, kernelVars, duplexes, observed>>

\* Mutant: the microtask may drop an event although nothing was closed.
EventLost ==
  /\ JsRuns
  /\ pollPending
  /\ pollPending' = FALSE
  /\ UNCHANGED <<serverVars, watched, kernelVars, duplexes, observed>>

\* The poller's microtask finds that close() was called meanwhile.
EventDropped ==
  /\ JsRuns
  /\ pollPending
  /\ listenPollHandle = "closed"
  /\ pollPending' = FALSE
  /\ UNCHANGED <<serverVars, watched, kernelVars, duplexes, observed>>

\* Mutant: the poller's test of closed forgotten.
AcceptBeginsAlways == /\ JsRuns
                      /\ pollPending
                      /\ pollPending' = FALSE
                      /\ misuse' = (misuse \/ sockfd = NoFd)
                      /\ UNCHANGED <<closed, listenPollHandle, watched, arrivals>>

\* The microtask calls the server's callback, and that calls accept().
AcceptBegins == /\ JsRuns
                /\ pollPending
                /\ listenPollHandle # "closed"
                /\ pollPending' = FALSE
                /\ misuse' = (misuse \/ sockfd = NoFd)
                /\ UNCHANGED <<closed, listenPollHandle, watched, arrivals>>

\* accept() returns a descriptor, and a duplex is made of it.
Accept ==
  /\ AcceptBegins
  /\ backlog > 0
  /\ FreeFds # {}
  /\ backlog' = backlog - 1
  /\ fdTable' = [fdTable EXCEPT ![NewFd] = "conn"]
  /\ duplexes' = duplexes \cup {NewFd}
  /\ UNCHANGED <<errored, sockfd, uncaught, acceptFailed, errorsEmitted, throws>>

\* The peer aborted meanwhile: the duplex' constructor finds no remote address
\* to keep and throws (DuplexAddresses.tla); nobody closes the descriptor.
AcceptDead ==
  /\ AcceptBegins
  /\ backlog > 0
  /\ FreeFds # {}
  /\ backlog' = backlog - 1
  /\ fdTable' = [fdTable EXCEPT ![NewFd] = "conn"]
  /\ uncaught' = TRUE
  /\ UNCHANGED <<errored, sockfd, duplexes, acceptFailed, errorsEmitted, throws>>

\* accept() fails: the connection is gone (EAGAIN), or no descriptor is free.
AcceptFails ==
  /\ AcceptBegins
  /\ backlog = 0 \/ FreeFds = {}
  /\ acceptFailed' = TRUE
  /\ RaiseErrorAndClose(fdTable, sockfd)
  /\ UNCHANGED <<backlog, duplexes, throws>>

\* Mutant: the poller is not closed with the descriptor.
CloseStillWatched ==
  /\ JsRuns
  /\ ~closed
  /\ closed' = TRUE
  /\ IF sockfd = NoFd THEN UNCHANGED <<fdTable, backlog>>
                      ELSE fdTable' = [fdTable EXCEPT ![sockfd] = "free"] /\ backlog' = 0
  /\ sockfd' = NoFd
  /\ UNCHANGED <<errored, listenPollHandle, watched, pollPending, arrivals, duplexes, observed>>

\* close(), at any time, also before listen() and after an error.
Close ==
  /\ JsRuns
  /\ ~closed
  /\ closed' = TRUE
  /\ listenPollHandle' = IF listenPollHandle = "open" THEN "closed" ELSE listenPollHandle
  /\ watched' = NoFd
  /\ IF sockfd = NoFd THEN UNCHANGED <<fdTable, backlog>>
                      ELSE fdTable' = [fdTable EXCEPT ![sockfd] = "free"] /\ backlog' = 0
  /\ sockfd' = NoFd
  /\ UNCHANGED <<errored, pollPending, arrivals, duplexes, observed>>

\* A duplex that was handed out is destroyed and closes its descriptor.
DuplexDestroyed ==
  /\ JsRuns
  /\ \E d \in duplexes : /\ duplexes' = duplexes \ {d}
                         /\ fdTable' = [fdTable EXCEPT ![d] = "free"]
  /\ UNCHANGED <<serverVars, watched, pollPending, backlog, arrivals, observed>>

\* A peer connects, or aborts a connection that nobody has accepted.
Connects ==
  /\ "listen" \in {fdTable[d] : d \in Fds}
  /\ backlog < Backlog /\ arrivals < MaxArrivals
  /\ backlog' = backlog + 1
  /\ arrivals' = arrivals + 1
  /\ UNCHANGED <<serverVars, watched, pollPending, fdTable, duplexes, observed>>

ConnectionAborted ==
  /\ backlog > 0
  /\ backlog' = backlog - 1
  /\ UNCHANGED <<serverVars, watched, pollPending, fdTable, arrivals, duplexes, observed>>

Next == \/ ListenFails \/ ListenThrows \/ Listen \/ Close
        \/ PollEvent \/ EventDropped \/ Accept \/ AcceptDead \/ AcceptFails
        \/ DuplexDestroyed \/ Connects \/ ConnectionAborted

\* The event loop reports readiness and runs microtasks.
Fairness == WF_vars(PollEvent) /\ WF_vars(EventDropped \/ Accept \/ AcceptDead \/ AcceptFails)

Spec == Init /\ [][Next]_vars

FairSpec == Spec /\ Fairness

-------------------------------------------------------------------------------
\* Open descriptors that nobody will close.
Lost == OpenFds \ (duplexes \cup {sockfd})

\* Every open descriptor belongs to someone who will close it, the server or one
\* live duplex, and nobody holds one that is closed, until an exception ends the
\* process.  Only a listen() that throws loses a descriptor, and at most one.
NoDescriptorLeak ==
  ~uncaught => /\ Cardinality(Lost) =< throws
               /\ duplexes \cup ({sockfd} \ {NoFd}) \subseteq OpenFds

\* What libuv watches for the server is the server's own listening descriptor,
\* never a number that was closed and may by now be somebody else's.
WatchesOwnFd ==
  /\ watched # NoFd => watched = sockfd /\ fdTable[watched] = "listen"
  /\ sockfd \notin duplexes

\* accept() is never called after close(), although an event may be on its way.
NoAcceptAfterClose == ~misuse

\* A server that failed to listen stays down: nothing listens, nothing is
\* watched, and no further error follows.
ErroredIsDown ==
  errored => /\ sockfd = NoFd /\ watched = NoFd
             /\ \A d \in Fds : fdTable[d] # "listen"

\* Connections that have left the kernel's queue: accepted, aborted by their peer,
\* or dropped with the listening descriptor.
Departed == arrivals - backlog

\* Each connection's turn comes, however many follow it: when the k-th has
\* arrived, in the end k have left the queue, unless close() was called or an
\* exception ended the process.  That its event was reported is not enough: the
\* microtask has to come and accept (the poller's callback, server.js:241).
ConnectionServed ==
  \A k \in 1..MaxArrivals : (arrivals >= k) ~> (Departed >= k \/ closed \/ uncaught)

\* A failure of accept() is told to the application as an "error" event.
AcceptErrorReported == acceptFailed => errorsEmitted > 0
===============================================================================

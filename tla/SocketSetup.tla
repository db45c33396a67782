------------------------------ MODULE SocketSetup -----------------------------
(***************************************************************************)
(* How a socket comes to be: createSocketWithOptions of                    *)
(* src/lib/socket-common.js, and the two functions that use it, connect of *)
(* src/lib/client.js and listen of src/lib/server.js.  Each is one         *)
(* synchronous stretch of system calls, any of which may fail; a step of   *)
(* this module is one of them, with its result.  Failures are reported in  *)
(* three ways: an error object (which connect turns into a duplex that     *)
(* fails, and listen into an "error" event), an exception to the caller,   *)
(* or not at all.                                                          *)
(***************************************************************************)
EXTENDS Naturals

VARIABLES
  pc,        \* the call that comes next
  options,   \* what the application passed
  fd,        \* "none", "open" or "closed"
  done,      \* the calls that succeeded on fd
  failed,    \* the call that failed, or "none"
  outcome    \* "none", "ready", "error" or "thrown"

vars == <<pc, options, fd, done, failed, outcome>>

\* What the application may give for an option of the socket: nothing, something
\* the native call takes, or something of a wrong kind.
Given == {"undefined", "valid", "invalid"}

\* The options, as far as the calls' fate depends on them.  localFormats and
\* remoteFormats say that sockaddr.js can format the addresses with their port: an
\* IPv6 address, or a port out of range, passes the checks made before a socket is
\* opened.  A client gives no backlog and a server no remote address.
Options == {o \in [role : {"client", "server"},
                   sack : Given, noDelay : Given, streams : Given,
                   localFormats  : BOOLEAN,
                   remoteFormats : BOOLEAN,
                   backlog       : {"valid", "invalid"}] :
              /\ o.role = "server" => o.remoteFormats
              /\ o.role = "client" => o.backlog = "valid"}

Calls == {"socket", "subscribe", "sack", "rcvinfo", "nodelay", "initmsg",
          "bind", "connect", "listen"}

TypeOK ==
  /\ pc \in Calls \cup {"end"}
  /\ options \in Options
  /\ fd \in {"none", "open", "closed"}
  /\ done \subseteq Calls
  /\ failed \in Calls \cup {"none"}
  /\ outcome \in {"none", "ready", "error", "thrown"}
  /\ fd = "none" => done = {} /\ pc \in {"socket", "end"}

Init ==
  /\ pc = "socket"
  /\ options \in Options
  /\ fd = "none"
  /\ done = {}
  /\ failed = "none"
  /\ outcome = "none"

-------------------------------------------------------------------------------
\* Ways a call ends.

Succeeds(call, next) ==
  /\ pc = call
  /\ done' = done \cup {call}
  /\ pc' = next
  /\ UNCHANGED <<options, fd, failed, outcome>>

\* The option the call would set was not given.
Skipped(call, next) == pc = call /\ pc' = next /\ UNCHANGED <<options, fd, done, failed, outcome>>

\* An error object is returned; the descriptor is then as fdAfter says.
Fails(call, fdAfter) ==
  /\ pc = call
  /\ failed' = call
  /\ fd' = fdAfter
  /\ outcome' = "error"
  /\ pc' = "end"
  /\ UNCHANGED <<options, done>>

\* An exception leaves the function, and the descriptor behind.
Throws(call) ==
  /\ pc = call
  /\ failed' = call
  /\ outcome' = "thrown"
  /\ pc' = "end"
  /\ UNCHANGED <<options, fd, done>>

-------------------------------------------------------------------------------
\* createSocketWithOptions.

CreateSocket ==
  \/ /\ pc = "socket"
     /\ fd' = "open"
     /\ done' = {"socket"}
     /\ pc' = "subscribe"
     /\ UNCHANGED <<options, failed, outcome>>
  \/ Fails("socket", "none")

\* Mutant: the events are left out.
SubscribeSkipped == Skipped("subscribe", "sack")

\* All the events, one setsockopt each; the first failure ends it.
Subscribe == Succeeds("subscribe", "sack") \/ Fails("subscribe", "closed")

\* Mutant: the descriptor is not closed when an option is refused.
SackLeaking ==
  \/ options.sack = "undefined" /\ Skipped("sack", "rcvinfo")
  \/ options.sack = "valid" /\ (Succeeds("sack", "rcvinfo") \/ Fails("sack", "open"))
  \/ options.sack = "invalid" /\ Throws("sack")

\* Mutant: a refused option is not noticed.
SackUnnoticed ==
  \/ options.sack = "undefined" /\ Skipped("sack", "rcvinfo")
  \/ options.sack = "valid" /\ (Succeeds("sack", "rcvinfo") \/ Skipped("sack", "rcvinfo"))
  \/ options.sack = "invalid" /\ Throws("sack")

\* A delay or frequency that is no number is refused by native.js' assertion.
Sack ==
  \/ options.sack = "undefined" /\ Skipped("sack", "rcvinfo")
  \/ options.sack = "valid" /\ (Succeeds("sack", "rcvinfo") \/ Fails("sack", "closed"))
  \/ options.sack = "invalid" /\ Throws("sack")

RequestRcvinfo == Succeeds("rcvinfo", "nodelay") \/ Throws("rcvinfo")

NoDelay ==
  \/ options.noDelay = "undefined" /\ Skipped("nodelay", "initmsg")
  \/ options.noDelay = "valid" /\ (Succeeds("nodelay", "initmsg") \/ Fails("nodelay", "closed"))
  \/ options.noDelay = "invalid" /\ Throws("nodelay")

\* maybeApplySctpStreamsOptions returns { errno } where its caller looks for
\* { error }: a failure is not noticed.
Streams ==
  \/ options.streams = "undefined" /\ Skipped("initmsg", "bind")
  \/ options.streams = "valid" /\ (Succeeds("initmsg", "bind") \/ Skipped("initmsg", "bind"))
  \/ options.streams = "invalid" /\ Throws("initmsg")

-------------------------------------------------------------------------------
\* What the callers do with the socket.

\* connect(): bind, then connect.  Neither error path closes the descriptor.
ClientBind ==
  /\ options.role = "client"
  /\ \/ options.localFormats /\ (Succeeds("bind", "connect") \/ Fails("bind", "open"))
     \/ ~options.localFormats /\ Throws("bind")

\* EINPROGRESS and EAGAIN count as success.  The duplex is then created.
ClientConnect ==
  /\ options.role = "client"
  /\ \/ /\ options.remoteFormats
        /\ pc = "connect"
        /\ done' = done \cup {"connect"}
        /\ outcome' = "ready"
        /\ pc' = "end"
        /\ UNCHANGED <<options, fd, failed>>
     \/ options.remoteFormats /\ Fails("connect", "open")
     \/ ~options.remoteFormats /\ Throws("connect")

\* bindAndListen(); its caller closes with raiseErrorAndClose, but catches nothing.
ServerBind ==
  /\ options.role = "server"
  /\ \/ options.localFormats /\ (Succeeds("bind", "listen") \/ Fails("bind", "closed"))
     \/ ~options.localFormats /\ Throws("bind")

\* listenOptions takes a backlog that is not NaN, native.js only a number.
ServerListen ==
  /\ options.role = "server"
  /\ \/ /\ options.backlog = "valid"
        /\ pc = "listen"
        /\ done' = done \cup {"listen"}
        /\ outcome' = "ready"
        /\ pc' = "end"
        /\ UNCHANGED <<options, fd, failed>>
     \/ options.backlog = "valid" /\ Fails("listen", "closed")
     \/ options.backlog = "invalid" /\ Throws("listen")

Next == \/ CreateSocket \/ Subscribe \/ Sack \/ RequestRcvinfo \/ NoDelay \/ Streams
        \/ ClientBind \/ ClientConnect \/ ServerBind \/ ServerListen

Spec == Init /\ [][Next]_vars

-------------------------------------------------------------------------------
\* Before the first packet can be exchanged (connect or listen), the socket
\* reports association changes and ancillary data: the duplex takes the first
\* thing it receives for an SCTP_ASSOC_CHANGE, and reads rcvinfo of each message.
ReportsBeforeTraffic ==
  {"connect", "listen"} \cap done # {} => {"subscribe", "rcvinfo", "bind"} \subseteq done

\* A socket that is handed on has every option that was asked for where the code
\* looks for it, except the stream numbers, whose failure is ignored.
ReadyIsConfigured ==
  outcome = "ready" => /\ fd = "open"
                       /\ options.sack = "valid" => "sack" \in done
                       /\ options.noDelay = "valid" => "nodelay" \in done
                       /\ "invalid" \notin {options.sack, options.noDelay, options.streams}

\* Whatever is reported as an error by createSocketWithOptions, and every error
\* of a server, leaves no descriptor open.
ErrorsOfSetupClose ==
  outcome = "error" /\ (failed \notin {"bind", "connect"} \/ options.role = "server") => fd # "open"

\* An error duplex holds no descriptor: nobody else could close it.
ErrorDuplexHoldsNothing == outcome = "error" => fd # "open"
===============================================================================

----------------------------- MODULE NativeCalls -----------------------------
(***************************************************************************)
(* The way of a call from the library through native.js, which asserts the *)
(* kinds of the arguments, and main.c, which aborts on a wrong kind and    *)
(* casts numbers to the width of a C field, to the kernel and back; the    *)
(* loops that pack addresses for the kernel and split its answers; and the *)
(* encoding of addresses (sockaddr.js).                                    *)
(*                                                                         *)
(* Calls are synchronous, so there is one at a time.  A value of           *)
(* JavaScript is a record of its kind and, for numbers, buffers and lists, *)
(* its value.  A byte has Byte values: the code's is 256.                  *)
(***************************************************************************)
EXTENDS Naturals, Sequences

CONSTANTS Byte,      \* number of values of a byte
          Numbers,   \* numbers the application gives for an option or attribute
          Hosts,     \* addresses the application gives, as sequences of bytes
          Ports,     \* ports it gives
          HostLists  \* lists of addresses it gives

AF_INET == 2
Slack == 128

\* 0.0.0.0.
Wildcard == <<0, 0, 0, 0>>

\* Port 0 and the wildcard are left out: they ask the kernel to choose (port 0 is
\* the client's default, client.js:54), and what it chooses is its own.
ASSUME NativeAssumption ==
  /\ Byte \in Nat /\ Byte > AF_INET
  /\ Numbers \subseteq Nat /\ Ports \subseteq Nat
  /\ Hosts \subseteq Seq(Nat) /\ HostLists \subseteq Seq(Hosts)
  /\ 0 \notin Ports /\ Wildcard \notin Hosts

VARIABLES
  phase,     \* "idle", "wrapper", "fill", "kernel", "split" or "aborted"
  fn, args,  \* the function called and its arguments, by name
  given,     \* the numbers as C has them, by name
  packed,    \* the C array of addresses, as far as it is filled
  capacity,  \* bytes allocated for it
  left,      \* addresses still to be packed, or bytes still to be split
  answer,    \* addresses, attributes or an interpretation read from the kernel's answer
  outcome,   \* of the last call: "none", "errno", "value" or "threw"
  \* the kernel: addresses of the socket and its peer, a message on its way
  local, remote, wire,
  \* observations
  asked,     \* addresses given with the last bindx and connectx
  written    \* attributes given with the last message

callVars == <<fn, args, given>>
listVars == <<packed, capacity, left>>
kernelVars == <<local, remote, wire>>
observed == <<asked, written>>
vars == <<phase, callVars, listVars, answer, outcome, kernelVars, observed>>

Bytes == 0..(Byte - 1)
U16 == Byte * Byte
U32 == U16 * U16

Num(n) == [kind |-> "number", value |-> n]
Buf(b) == [kind |-> "buffer", value |-> b]
List(s) == [kind |-> "list", value |-> s]
Wrong == [kind |-> "other", value |-> 0]  \* a string, a boolean, an object

Init ==
  /\ phase = "idle" /\ outcome = "none"
  /\ fn = "none" /\ args = <<>> /\ given = <<>>
  /\ packed = <<>> /\ capacity = 0 /\ left = <<>>
  /\ answer = <<>>
  /\ local = <<>> /\ remote = <<>> /\ wire = <<>>
  /\ asked = [local |-> <<>>, remote |-> <<>>] /\ written = <<>>

-------------------------------------------------------------------------------
(* sockaddr.js: struct sockaddr_in, 16 bytes.                              *)

Zeros(n) == [i \in 1..n |-> 0]
LE16(n) == <<n % Byte, n \div Byte>>
BE16(n) == <<n \div Byte, n % Byte>>

\* Mutant: the port in the machine's order.
FormatLittleEndian(host, port) == LE16(AF_INET) \o LE16(port) \o host \o Zeros(8)

Format(host, port) == LE16(AF_INET) \o BE16(port) \o host \o Zeros(8)

SockaddrLength == 16

\* format throws for IPv6, writeUInt16BE for a port that does not fit.
Formats(host, port) == Len(host) = 4 /\ port < U16

Parse(sockaddr) == [host |-> SubSeq(sockaddr, 5, 8), port |-> sockaddr[3] * Byte + sockaddr[4]]

\* parse throws, and the native split aborts, on any other family.
Parses(sockaddr) == sockaddr[1] + sockaddr[2] * Byte = AF_INET

Address(host, port) == [host |-> host, port |-> port]

\* struct sockaddr_in as the kernel writes and reads it.
KernelSockaddr(a) == <<AF_INET, 0, a.port \div Byte, a.port % Byte>> \o a.host \o Zeros(8)
KernelAddress(sockaddr) == Address(SubSeq(sockaddr, 5, 8), sockaddr[3] * Byte + sockaddr[4])

-------------------------------------------------------------------------------
(* native.js: the kind asserted of each argument, by function.             *)

\* Of connectx's sockaddrs only the elements are looked at, in a forEach; that it
\* is an array, as is asserted for bindx, is left to the library.
WrapperOfSockets == [
  create_socket |-> <<>>,
  sctp_bindx    |-> [fd |-> "number", sockaddrs |-> "list", flags |-> "number"],
  sctp_connectx |-> [fd |-> "number"],
  listen        |-> [fd |-> "number", backlog |-> "number"],
  accept        |-> [fd |-> "number", sockaddr |-> "buffer"]]

\* Mutant: the assertion of ppid forgotten.
WrapperOfTransferNoPpid == [
  sctp_recvv |-> [fd |-> "number", messageBuffer |-> "buffer", sockaddr |-> "buffer"],
  sctp_sendv |-> [fd |-> "number", message |-> "buffer", sid |-> "number", context |-> "number",
                  sndflags |-> "number", flags |-> "number"]]

\* sndinfo's fields stand beside the other arguments.
WrapperOfTransfer == [
  sctp_recvv |-> [fd |-> "number", messageBuffer |-> "buffer", sockaddr |-> "buffer"],
  sctp_sendv |-> [fd |-> "number", message |-> "buffer", sid |-> "number", ppid |-> "number",
                  context |-> "number", sndflags |-> "number", flags |-> "number"]]

WrapperOfOptions == [
  setsockopt_sack_info |->
    [fd |-> "number", sack_assoc_id |-> "number", sack_delay |-> "number", sack_freq |-> "number"],
  getsockopt_sctp_status |-> [fd |-> "number"],
  getsockopt_peer_addr_info |-> [fd |-> "number", sockaddr |-> "buffer"],
  setsockopt_sctp_initmsg |->
    [fd |-> "number", sinit_num_ostreams |-> "number", sinit_max_instreams |-> "number",
     sinit_max_attempts |-> "number", sinit_max_init_timeo |-> "number"]]

WrapperOfSwitches == [
  setsockopt_sctp_recvrcvinfo |-> [fd |-> "number", value |-> "number"],
  setsockopt_linger  |-> [fd |-> "number", onoff |-> "number", linger |-> "number"],
  setsockopt_nodelay |-> [fd |-> "number", value |-> "number"],
  setsockopt_sctp_event |-> [fd |-> "number", se_type |-> "number", se_on |-> "number"]]

\* Nothing is asserted of getsockname's and getpeername's buffer.
WrapperOfNames == [
  get_socket_error |-> [fd |-> "number"],
  getsockname    |-> [fd |-> "number"],
  sctp_getladdrs |-> [fd |-> "number"],
  getpeername    |-> [fd |-> "number"],
  sctp_getpaddrs |-> [fd |-> "number"],
  shutdown       |-> [fd |-> "number", how |-> "number"],
  close_fd       |-> [fd |-> "number"],
  parse_sctp_notification |-> [notification |-> "buffer"]]

\* Two tables as one.
Joined(f, g) == [x \in DOMAIN f \cup DOMAIN g |-> IF x \in DOMAIN f THEN f[x] ELSE g[x]]

Wrapper == Joined(WrapperOfSockets,
             Joined(WrapperOfTransfer,
               Joined(WrapperOfOptions, Joined(WrapperOfSwitches, WrapperOfNames))))

-------------------------------------------------------------------------------
(* main.c: the C type of each argument, by function.  "net32" is a         *)
(* 32-bit number that htonl turns to network order.                        *)

NativeOfOptions == [
  create_socket |-> <<>>,
  setsockopt_sack_info |->
    [fd |-> "int32", sack_assoc_id |-> "uint32", sack_delay |-> "uint32", sack_freq |-> "uint32"],
  getsockopt_sctp_status |-> [fd |-> "int32"]]

NativeOfStreams == [
  getsockopt_peer_addr_info |-> [fd |-> "int32", sockaddr |-> "buffer"],
  setsockopt_sctp_initmsg |->
    [fd |-> "int32", sinit_num_ostreams |-> "uint16", sinit_max_instreams |-> "uint16",
     sinit_max_attempts |-> "uint16", sinit_max_init_timeo |-> "uint16"],
  setsockopt_sctp_recvrcvinfo |-> [fd |-> "int32", value |-> "int32"]]

NativeOfSwitches == [
  setsockopt_linger  |-> [fd |-> "int32", onoff |-> "int32", linger |-> "int32"],
  setsockopt_nodelay |-> [fd |-> "int32", value |-> "int32"],
  setsockopt_sctp_event |-> [fd |-> "int32", se_type |-> "uint16", se_on |-> "uint8"]]

NativeOfLists == [
  sctp_bindx    |-> [sockaddrs |-> "list", fd |-> "int32", flags |-> "int32"],
  sctp_connectx |-> [sockaddrs |-> "list", fd |-> "int32"]]

NativeOfTransfer == [
  sctp_recvv |-> [fd |-> "int32", messageBuffer |-> "buffer", sockaddr |-> "buffer"],
  sctp_sendv |-> [fd |-> "int32", message |-> "buffer", sid |-> "uint16", ppid |-> "net32",
                  sndflags |-> "uint16", context |-> "uint32", flags |-> "uint32"],
  accept |-> [fd |-> "int32", sockaddr |-> "buffer"],
  listen |-> [fd |-> "int32", backlog |-> "int32"]]

NativeOfNames == [
  get_socket_error |-> [fd |-> "int32"],
  getsockname    |-> [fd |-> "int32", sockaddr |-> "buffer"],
  sctp_getladdrs |-> [fd |-> "int32"],
  getpeername    |-> [fd |-> "int32", sockaddr |-> "buffer"],
  sctp_getpaddrs |-> [fd |-> "int32"]]

NativeOfEnds == [
  shutdown |-> [fd |-> "int32", how |-> "int32"],
  close_fd |-> [fd |-> "int32"],
  parse_sctp_notification |-> [notification |-> "buffer"]]

Native == Joined(NativeOfOptions,
            Joined(NativeOfStreams,
              Joined(NativeOfSwitches,
                Joined(NativeOfLists,
                  Joined(NativeOfTransfer, Joined(NativeOfNames, NativeOfEnds))))))

Width(type) == CASE type = "uint8" -> Byte
                 [] type = "uint16" -> U16
                 [] OTHER -> U32

\* The two, and the four, bytes of a number in reverse.
Swap16(n) == (n % Byte) * Byte + (n \div Byte)
Swap32(n) == Swap16(n % U16) * U16 + Swap16(n \div U16)

Cast(type, n) == IF type = "net32" THEN Swap32(n % U32) ELSE n % Width(type)

KindOf(type) == IF type \in {"buffer", "list"} THEN type ELSE "number"

-------------------------------------------------------------------------------
(* The library's calls.                                                    *)

Fd == Num(3)

\* Calls do not depend on each other but for what the kernel keeps; a message on
\* its way is received before anything else is asked.
Ask(f, a) == /\ phase = "idle"
             /\ wire # <<>> => f = "sctp_recvv"
             /\ phase' = "wrapper"
             /\ fn' = f /\ args' = a /\ given' = <<>>
             /\ outcome' = "none" /\ answer' = <<>>
             /\ packed' = <<>> /\ capacity' = 0 /\ left' = <<>>
             /\ written' = CASE f = "sctp_sendv" -> [sid |-> a.sid.value, ppid |-> a.ppid.value]
                             [] f = "sctp_recvv" -> written
                             [] OTHER -> <<>>
             /\ UNCHANGED kernelVars

\* What an option or attribute is when the application gives x: x || 0.
AppNumbers == {Num(n) : n \in Numbers} \cup {Wrong}

\* The sockets' options, before bind.
SetOptions ==
  /\ local = <<>>
  /\ \E m, n \in AppNumbers :
       \/ Ask("setsockopt_sack_info",
              [fd |-> Fd, sack_assoc_id |-> Num(2), sack_delay |-> m, sack_freq |-> n])
       \/ Ask("setsockopt_sctp_initmsg",
              [fd |-> Fd, sinit_num_ostreams |-> m, sinit_max_instreams |-> n,
               sinit_max_attempts |-> Num(0), sinit_max_init_timeo |-> Num(0)])
  /\ UNCHANGED asked

\* bindx: the port goes with the first address.
Bind ==
  /\ local = <<>>
  /\ \E hosts \in HostLists, port \in Ports :
       LET PortOf(i) == IF i = 1 THEN port ELSE 0 IN
       /\ \A i \in DOMAIN hosts : Formats(hosts[i], PortOf(i))
       /\ Ask("sctp_bindx",
              [fd |-> Fd, flags |-> Num(1),
               sockaddrs |-> List([i \in DOMAIN hosts |-> Format(hosts[i], PortOf(i))])])
       /\ asked' = [asked EXCEPT !.local = [i \in DOMAIN hosts |-> Address(hosts[i], port)]]

\* initiateConnect: the port goes with every address.
Connect ==
  /\ local # <<>> /\ remote = <<>>
  /\ \E hosts \in HostLists, port \in Ports :
       /\ \A i \in DOMAIN hosts : Formats(hosts[i], port)
       /\ Ask("sctp_connectx",
              [fd |-> Fd, sockaddrs |-> List([i \in DOMAIN hosts |-> Format(hosts[i], port)])])
       /\ asked' = [asked EXCEPT !.remote = [i \in DOMAIN hosts |-> Address(hosts[i], port)]]

\* format refuses an address or a port before anything is called.
FormatThrows ==
  /\ phase = "idle" /\ wire = <<>>
  /\ \E hosts \in HostLists, port \in Ports : \E i \in DOMAIN hosts : ~Formats(hosts[i], port)
  /\ outcome' = "threw" /\ fn' = "none" /\ answer' = <<>>
  /\ UNCHANGED <<phase, args, given, listVars, kernelVars, observed>>

Listen ==
  /\ local # <<>>
  /\ \E n \in AppNumbers : Ask("listen", [fd |-> Fd, backlog |-> n])
  /\ UNCHANGED asked

\* next() sends a message with the attributes its chunk has.
Send ==
  /\ remote # <<>> /\ wire = <<>>
  /\ \E m, n \in AppNumbers :
       Ask("sctp_sendv",
           [fd |-> Fd, message |-> Buf(<<>>), sid |-> m, ppid |-> n,
            sndflags |-> Num(0), context |-> Num(0), flags |-> Num(0)])
  /\ UNCHANGED asked

\* Calls whose arguments are the library's own.
OwnCalls == [
  create_socket |-> <<>>,
  getsockopt_sctp_status |-> [fd |-> Fd],
  setsockopt_sctp_recvrcvinfo |-> [fd |-> Fd, value |-> Num(1)],
  setsockopt_sctp_event |-> [fd |-> Fd, se_type |-> Num(Byte * 2 + 1), se_on |-> Num(1)],
  setsockopt_nodelay |-> [fd |-> Fd, value |-> Num(1)],
  setsockopt_linger |-> [fd |-> Fd, onoff |-> Num(1), linger |-> Num(0)],
  accept |-> [fd |-> Fd, sockaddr |-> Buf(Zeros(64))],
  sctp_recvv |-> [fd |-> Fd, messageBuffer |-> Buf(<<>>), sockaddr |-> Buf(Zeros(64))],
  get_socket_error |-> [fd |-> Fd],
  getsockname |-> [fd |-> Fd, sockaddr |-> Buf(Zeros(64))],
  getpeername |-> [fd |-> Fd, sockaddr |-> Buf(Zeros(64))],
  sctp_getladdrs |-> [fd |-> Fd],
  sctp_getpaddrs |-> [fd |-> Fd],
  shutdown |-> [fd |-> Fd, how |-> Num(2)],
  close_fd |-> [fd |-> Fd]]

CallOwn ==
  /\ \E f \in DOMAIN OwnCalls : Ask(f, OwnCalls[f])
  /\ UNCHANGED asked

\* retrievePeerAddressInfo formats an address of the peer again.
AskPeerInfo ==
  /\ \E i \in DOMAIN remote :
       Ask("getsockopt_peer_addr_info",
           [fd |-> Fd, sockaddr |-> Buf(Format(remote[i].host, remote[i].port))])
  /\ UNCHANGED asked

\* The states RFC 6458 defines for the notifications that are parsed further.
States == [SCTP_ASSOC_CHANGE |-> 0..4, SCTP_AUTHENTICATION_EVENT |-> 0..2, SCTP_PEER_ADDR_CHANGE |-> 0..5]

CannotStart == 4

\* next() has received a notification: of one of these types, with an address of
\* the peer in a change of addresses, or of another type.
ParseNotification ==
  /\ \E type \in DOMAIN States \cup {"other"}, host \in Hosts :
       \E state \in (IF type = "other" THEN {0} ELSE States[type]) :
         /\ Len(host) = 4
         /\ Ask("parse_sctp_notification",
                [notification |-> Buf([type |-> type, state |-> state,
                                       spc_aaddr |-> KernelSockaddr(Address(host, 0)) \o Zeros(112)])])
  /\ UNCHANGED asked

\* The states notifications.js has a name for.
Named == [SCTP_ASSOC_CHANGE |-> {0, 1, 2, 3}, SCTP_AUTHENTICATION_EVENT |-> {0, 1, 2},
          SCTP_PEER_ADDR_CHANGE |-> {0, 1, 2, 3, 4, 5}]

\* interpret: a name or "???", and the address; nothing for other types.
Interpret(parsed) ==
  IF parsed.type \notin DOMAIN Named THEN <<>>
  ELSE [name |-> IF parsed.state \in Named[parsed.type] THEN parsed.state ELSE "???",
        address |-> IF parsed.type = "SCTP_PEER_ADDR_CHANGE" THEN Parse(parsed.spc_aaddr).host ELSE <<>>]

-------------------------------------------------------------------------------
(* The wrapper and the native function.                                    *)

Asserted == \A p \in DOMAIN Wrapper[fn] : args[p].kind = Wrapper[fn][p]

WrapperThrows ==
  /\ phase = "wrapper" /\ ~Asserted
  /\ phase' = "idle" /\ outcome' = "threw"
  /\ UNCHANGED <<callVars, listVars, answer, kernelVars, observed>>

Readable ==
  /\ \A p \in DOMAIN Native[fn] : p \in DOMAIN args /\ args[p].kind = KindOf(Native[fn][p])
  /\ fn = "getsockopt_peer_addr_info" => Len(args.sockaddr.value) =< 128

\* What the native function reads first; it aborts if it cannot.
NativeReads ==
  /\ phase = "wrapper" /\ Asserted
  /\ IF ~Readable
       THEN phase' = "aborted" /\ UNCHANGED <<given, left>>
       ELSE /\ given' = [p \in {q \in DOMAIN args : args[q].kind = "number"} |->
                          Cast(Native[fn][p], args[p].value)]
            /\ IF fn \in DOMAIN NativeOfLists
                 THEN phase' = "fill" /\ left' = args.sockaddrs.value
                 ELSE phase' = "kernel" /\ UNCHANGED left
  /\ UNCHANGED <<fn, args, packed, capacity, answer, outcome, kernelVars, observed>>

\* Mutant: room for this address only.
RequiredAlone(sockaddr) == Len(sockaddr)

Required(sockaddr) == Len(packed) + Len(sockaddr)

\* One turn of alloc_and_fill_sockaddr_list.
FillAddress ==
  /\ phase = "fill" /\ left # <<>>
  /\ LET needed == Required(Head(left)) IN
       capacity' = IF needed > capacity THEN needed + Slack ELSE capacity
  /\ packed' = packed \o Head(left)
  /\ left' = Tail(left)
  /\ UNCHANGED <<phase, callVars, answer, outcome, kernelVars, observed>>

FillDone ==
  /\ phase = "fill" /\ left = <<>>
  /\ phase' = "kernel"
  /\ UNCHANGED <<callVars, listVars, answer, outcome, kernelVars, observed>>

-------------------------------------------------------------------------------
(* The kernel.                                                             *)

Return(result) == phase' = "idle" /\ outcome' = result

\* The i-th of the addresses that stand one after the other in memory.
EntryOf(memory, i) == SubSeq(memory, (i - 1) * SockaddrLength + 1, i * SockaddrLength)

\* The addresses the kernel makes of an array of count: it takes the port of the
\* first, which is not 0, for those that have none.
KernelReads(memory, count) ==
  LET first == KernelAddress(EntryOf(memory, 1)) IN
  [i \in 1..count |->
     LET a == KernelAddress(EntryOf(memory, i))
     IN  IF a.port = 0 THEN Address(a.host, first.port) ELSE a]

KernelFails ==
  /\ phase = "kernel" /\ fn # "parse_sctp_notification"
  /\ Return("errno")
  /\ UNCHANGED <<callVars, listVars, answer, kernelVars, observed>>

KernelTakesAddresses ==
  /\ phase = "kernel" /\ fn \in DOMAIN NativeOfLists
  /\ LET taken == KernelReads(packed, Len(args.sockaddrs.value)) IN
       IF fn = "sctp_bindx" THEN local' = taken /\ UNCHANGED remote
                            ELSE remote' = taken /\ UNCHANGED local
  /\ Return("value")
  /\ UNCHANGED <<callVars, listVars, answer, wire, observed>>

KernelSends ==
  /\ phase = "kernel" /\ fn = "sctp_sendv"
  /\ wire' = [sid |-> given.sid, ppid |-> given.ppid]
  /\ Return("value")
  /\ UNCHANGED <<callVars, listVars, answer, local, remote, observed>>

\* Mutant: the peer's native function forgets ntohl.
ReadAttributesRaw(message) == [sid |-> message.sid, ppid |-> message.ppid]

\* rcvinfo, as the peer's native function makes it.
ReadAttributes(message) == [sid |-> message.sid, ppid |-> Swap32(message.ppid)]

\* The message is received, by the peer.
KernelReceives ==
  /\ phase = "kernel" /\ fn = "sctp_recvv" /\ wire # <<>>
  /\ answer' = ReadAttributes(wire)
  /\ wire' = <<>>
  /\ Return("value")
  /\ UNCHANGED <<callVars, listVars, local, remote, observed>>

\* getsockname and getpeername fill the buffer with the first address.
KernelNames ==
  /\ phase = "kernel"
  /\ \E side \in {local, remote} :
       /\ side # <<>>
       /\ <<fn, side>> \in {<<"getsockname", local>>, <<"getpeername", remote>>}
       /\ answer' = <<Parse(KernelSockaddr(side[1]) \o Zeros(48))>>
  /\ Return("value")
  /\ UNCHANGED <<callVars, listVars, kernelVars, observed>>

Flatten(side) == [k \in 1..(SockaddrLength * Len(side)) |->
                    KernelSockaddr(side[((k - 1) \div SockaddrLength) + 1])
                      [((k - 1) % SockaddrLength) + 1]]

\* sctp_getladdrs and sctp_getpaddrs allocate an array for the answer.
KernelLists ==
  /\ phase = "kernel"
  /\ \E side \in {local, remote} :
       /\ side # <<>>
       /\ <<fn, side>> \in {<<"sctp_getladdrs", local>>, <<"sctp_getpaddrs", remote>>}
       /\ left' = Flatten(side)
  /\ phase' = "split"
  /\ UNCHANGED <<callVars, packed, capacity, answer, outcome, kernelVars, observed>>

\* One turn of create_buffer_array_from_dynamic_sockaddr_array, and the parsing
\* of the buffer it makes.
SplitAddress ==
  /\ phase = "split" /\ left # <<>>
  /\ IF Parses(left)
       THEN /\ answer' = Append(answer, Parse(left))
            /\ left' = SubSeq(left, SockaddrLength + 1, Len(left))
            /\ UNCHANGED phase
       ELSE phase' = "aborted" /\ UNCHANGED <<answer, left>>
  /\ UNCHANGED <<callVars, packed, capacity, outcome, kernelVars, observed>>

SplitDone ==
  /\ phase = "split" /\ left = <<>>
  /\ Return("value")
  /\ UNCHANGED <<callVars, listVars, answer, kernelVars, observed>>

\* parse_sctp_notification asks no kernel; what it returns is interpreted.
NotificationParsed ==
  /\ phase = "kernel" /\ fn = "parse_sctp_notification"
  /\ LET parsed == args.notification.value IN
       IF parsed.type = "SCTP_PEER_ADDR_CHANGE" /\ ~Parses(parsed.spc_aaddr)
         THEN Return("threw") /\ UNCHANGED answer
         ELSE Return("value") /\ answer' = Interpret(parsed)
  /\ UNCHANGED <<callVars, listVars, kernelVars, observed>>

\* A new or a closed socket has no addresses; other calls leave them alone.
KernelDoes ==
  /\ phase = "kernel"
  /\ fn \notin DOMAIN NativeOfLists
       \cup {"sctp_sendv", "sctp_recvv", "getsockname", "getpeername", "sctp_getladdrs", "sctp_getpaddrs",
             "parse_sctp_notification"}
  /\ IF fn \in {"create_socket", "close_fd"}
       THEN local' = <<>> /\ remote' = <<>> /\ wire' = <<>>
       ELSE UNCHANGED kernelVars
  /\ Return("value")
  /\ UNCHANGED <<callVars, listVars, answer, observed>>

Next == \/ SetOptions \/ Bind \/ Connect \/ FormatThrows \/ Listen \/ Send \/ CallOwn \/ AskPeerInfo
        \/ ParseNotification \/ NotificationParsed
        \/ WrapperThrows \/ NativeReads \/ FillAddress \/ FillDone
        \/ KernelFails \/ KernelTakesAddresses \/ KernelSends \/ KernelReceives \/ KernelNames
        \/ KernelLists \/ SplitAddress \/ SplitDone \/ KernelDoes

Spec == Init /\ [][Next]_vars

-------------------------------------------------------------------------------
\* The native code aborts the process on an argument of a wrong kind, and on an
\* address it does not know.  No call of the library gets there, whatever the
\* application gives; what the application gives wrongly ends in an exception.
NeverAborts ==
  /\ phase # "aborted"
  /\ outcome = "threw" /\ fn # "none" => \E p \in DOMAIN args : args[p] = Wrong

\* The copy of an address never runs over the allocated array.
WithinCapacity == Len(packed) =< capacity

\* Addresses given to bind and connect, with a port, read back as they were given,
\* from the lists and from the primary address.
AddressesReadBack ==
  phase = "idle" /\ outcome = "value" =>
    /\ fn = "sctp_getladdrs" => answer = asked.local
    /\ fn = "sctp_getpaddrs" => answer = asked.remote
    /\ fn = "getsockname" => answer = <<asked.local[1]>>
    /\ fn = "getpeername" => answer = <<asked.remote[1]>>

\* What is received says what was sent: a message has the stream and the payload
\* protocol it was written with, as long as they fit into 16 and 32 bits, and a
\* notification is told with its own name, but for an association that cannot be
\* started, and with the address it is about.
ReceivedAsSent ==
  phase = "idle" /\ outcome = "value" =>
    /\ fn = "sctp_recvv" =>
         /\ written.sid < U16 => answer.sid = written.sid
         /\ written.ppid < U32 => answer.ppid = written.ppid
    /\ fn = "parse_sctp_notification" =>
         LET n == args.notification.value IN
         n.type \in DOMAIN States =>
           /\ <<n.type, n.state>> = <<"SCTP_ASSOC_CHANGE", CannotStart>> \/ answer.name = n.state
           /\ n.type = "SCTP_PEER_ADDR_CHANGE" => answer.address = KernelAddress(n.spc_aaddr).host
===============================================================================

--------------------------- MODULE NativeCallsProofs ---------------------------
(***************************************************************************)
(* Proofs about NativeCalls.tla, for any number of values of a byte, any   *)
(* addresses and ports, and lists of any length.                           *)
(*                                                                         *)
(* The bytes of an address and the tables of native.js and main.c come     *)
(* first.  The inductive invariant IInv says of every phase of a call what *)
(* is packed, passed, on its way and split; then there is a lemma for      *)
(* every action, and the theorems follow from IInv.                        *)
(***************************************************************************)
EXTENDS NativeCalls, SequenceTheorems, TLAPS

-------------------------------------------------------------------------------
(* An address reads back as it was formatted.                              *)

LEMMA ByteIsNat == Byte \in Nat /\ Byte > 0 /\ U16 \in Nat /\ Byte > 2
BY NativeAssumption DEF U16, AF_INET

LEMMA SomePort == 0 \in 0..(U16 - 1)
<1>1. \A b \in Nat : b > 0 => b * b > 0 /\ b * b \in Nat
  OBVIOUS
<1>2. U16 > 0 /\ U16 \in Nat
  BY <1>1, ByteIsNat, Zenon DEF U16
<1>. QED BY <1>2

\* A number is its two digits, and they are natural numbers.
LEMMA TwoDigits ==
  ASSUME NEW n \in Nat
  PROVE  /\ n \div Byte \in Nat /\ n % Byte \in Nat
         /\ (n \div Byte) * Byte + (n % Byte) = n
BY ByteIsNat

\* A pair of numbers is a sequence of two.
LEMMA PairIsSeq ==
  ASSUME NEW a \in Nat, NEW b \in Nat
  PROVE  /\ <<a, b>> \in Seq(Nat) /\ Len(<<a, b>>) = 2
         /\ <<a, b>>[1] = a /\ <<a, b>>[2] = b
OBVIOUS

\* The sixteen bytes of an address.
LEMMA FormatBytes ==
  ASSUME NEW host \in Seq(Nat), Len(host) = 4, NEW port \in Nat
  PROVE  /\ Format(host, port) \in Seq(Nat)
         /\ Len(Format(host, port)) = 16
         /\ Format(host, port)[1] = 2 % Byte /\ Format(host, port)[2] = 2 \div Byte
         /\ Format(host, port)[3] = port \div Byte /\ Format(host, port)[4] = port % Byte
         /\ \A i \in 1..4 : Format(host, port)[4 + i] = host[i]
<1>. DEFINE family == LE16(AF_INET)
            digits == BE16(port)
            head == family \o digits
            front == head \o host
            zeros == Zeros(8)
<1>1. Format(host, port) = front \o zeros
  BY DEF Format
<1>2. /\ family \in Seq(Nat) /\ Len(family) = 2
      /\ family[1] = 2 % Byte /\ family[2] = 2 \div Byte
  <2>1. 2 % Byte \in Nat /\ 2 \div Byte \in Nat
    BY TwoDigits
  <2>. QED BY <2>1, PairIsSeq, Zenon DEF LE16, AF_INET
<1>3. /\ digits \in Seq(Nat) /\ Len(digits) = 2
      /\ digits[1] = port \div Byte /\ digits[2] = port % Byte
  <2>1. port % Byte \in Nat /\ port \div Byte \in Nat
    BY TwoDigits
  <2>. QED BY <2>1, PairIsSeq, Zenon DEF BE16
<1>4. zeros \in Seq(Nat) /\ Len(zeros) = 8
  BY DEF Zeros
<1>. HIDE DEF family, digits, zeros
<1>5. /\ head \in Seq(Nat) /\ Len(head) = Len(family) + Len(digits)
      /\ \A i \in 1..(Len(family) + Len(digits)) :
           head[i] = IF i <= Len(family) THEN family[i] ELSE digits[i - Len(family)]
  BY <1>2, <1>3, ConcatProperties, Zenon
<1>. HIDE DEF head
<1>6. /\ Len(head) = 4
      /\ head[1] = family[1] /\ head[2] = family[2]
      /\ head[3] = digits[1] /\ head[4] = digits[2]
  BY <1>2, <1>3, <1>5
<1>7. /\ front \in Seq(Nat) /\ Len(front) = Len(head) + Len(host)
      /\ \A i \in 1..(Len(head) + Len(host)) :
           front[i] = IF i <= Len(head) THEN head[i] ELSE host[i - Len(head)]
  <2>1. head \in Seq(Nat) /\ host \in Seq(Nat)
    BY <1>5
  <2>. QED BY <2>1, ConcatProperties, Zenon
<1>. HIDE DEF front
<1>8. /\ Len(front) = 8
      /\ \A i \in 1..4 : front[i] = head[i]
      /\ \A i \in 1..4 : front[4 + i] = host[i]
  BY <1>6, <1>7
<1>. DEFINE whole == front \o zeros
<1>9. /\ whole \in Seq(Nat) /\ Len(whole) = Len(front) + Len(zeros)
      /\ \A i \in 1..(Len(front) + Len(zeros)) :
           whole[i] = IF i <= Len(front) THEN front[i] ELSE zeros[i - Len(front)]
  <2>1. front \in Seq(Nat) /\ zeros \in Seq(Nat)
    BY <1>4, <1>7
  <2>. QED BY <2>1, ConcatProperties, Zenon
<1>. HIDE DEF whole
<1>10. Len(whole) = 16 /\ \A i \in 1..8 : whole[i] = front[i]
  <2>1. Len(front) = 8 /\ Len(zeros) = 8
    BY <1>4, <1>8
  <2>. QED BY <2>1, <1>9
<1>11. Format(host, port) = whole
  BY <1>1 DEF whole
<1>12. /\ whole[1] = family[1] /\ whole[2] = family[2]
       /\ whole[3] = digits[1] /\ whole[4] = digits[2]
  BY <1>6, <1>8, <1>10
<1>13. \A i \in 1..4 : whole[4 + i] = host[i]
  BY <1>8, <1>10
<1>. QED BY <1>2, <1>3, <1>9, <1>10, <1>11, <1>12, <1>13

\* What reads an address reads the first eight bytes.
IPv4 == {host \in Seq(Nat) : Len(host) = 4}
Addresses == [host : IPv4, port : 0..(U16 - 1)]

LEMMA AddressParts ==
  ASSUME NEW a \in Addresses
  PROVE  /\ a.host \in Seq(Nat) /\ Len(a.host) = 4 /\ a.port \in Nat /\ a.port < U16
         /\ a = Address(a.host, a.port)
BY ByteIsNat DEF Addresses, IPv4, Address

LEMMA FamilyDigits == 2 % Byte = 2 /\ 2 \div Byte = 0
BY ByteIsNat

LEMMA FamilyParses ==
  ASSUME NEW m, m[1] = 2, m[2] = 0
  PROVE  Parses(m)
BY ByteIsNat DEF Parses, AF_INET

\* The four bytes behind the port.
LEMMA HostBytes ==
  ASSUME NEW m \in Seq(Nat), Len(m) >= 16, NEW host \in IPv4,
         \A i \in 1..4 : m[4 + i] = host[i]
  PROVE  SubSeq(m, 5, 8) = host
<1>. DEFINE middle == SubSeq(m, 5, 8)
<1>1. ASSUME NEW i \in 5..8 PROVE m[i] \in Nat
  <2>1. i \in 1..Len(m)
    BY SMTT(30)
  <2>. QED BY <2>1, ElementOfSeq, Zenon
<1>2. /\ middle \in Seq(Nat) /\ Len(middle) = (IF 5 <= 8 THEN 8 - 5 + 1 ELSE 0)
      /\ \A i \in 1..(8 - 5 + 1) : middle[i] = m[5 + i - 1]
  BY <1>1, SubSeqProperties
<1>. HIDE DEF middle
<1>3. Len(middle) = 4 /\ \A i \in 1..4 : middle[i] = m[4 + i]
  BY <1>2
<1>4. \A i \in 1..4 : middle[i] = host[i]
  BY <1>3
<1>5. host \in Seq(Nat) /\ Len(host) = 4
  BY DEF IPv4
<1>6. middle = host
  BY <1>2, <1>3, <1>4, <1>5, SeqEqual, Zenon
<1>. QED BY <1>6 DEF middle

LEMMA ParsePrefix ==
  ASSUME NEW a \in Addresses, NEW m \in Seq(Nat), Len(m) >= 16,
         \A j \in 1..16 : m[j] = Format(a.host, a.port)[j]
  PROVE  Parses(m) /\ Parse(m) = a /\ KernelAddress(m) = a
<1>0. a.host \in IPv4 /\ a.port \in Nat
  BY AddressParts DEF IPv4
<1>. DEFINE f == Format(a.host, a.port)
<1>1. /\ f[1] = 2 % Byte /\ f[2] = 2 \div Byte
      /\ f[3] = a.port \div Byte /\ f[4] = a.port % Byte
      /\ \A i \in 1..4 : f[4 + i] = a.host[i]
  BY FormatBytes, AddressParts, Zenon
<1>2. \A j \in 1..16 : m[j] = f[j]
  OBVIOUS
<1>. HIDE DEF f
<1>3. /\ m[1] = f[1] /\ m[2] = f[2] /\ m[3] = f[3] /\ m[4] = f[4]
      /\ \A i \in 1..4 : m[4 + i] = f[4 + i]
  BY <1>2
<1>4. Parses(m)
  BY <1>1, <1>3, FamilyDigits, FamilyParses, Zenon
<1>5. m[3] * Byte + m[4] = a.port
  BY <1>0, <1>1, <1>3, TwoDigits, Zenon
<1>6. SubSeq(m, 5, 8) = a.host
  BY <1>0, <1>1, <1>3, HostBytes, Zenon
<1>7. a = Address(a.host, a.port)
  BY AddressParts, Zenon
<1>. QED BY <1>4, <1>5, <1>6, <1>7, Zenon DEF Parse, KernelAddress, Address

\* sockaddr.js: parse returns what format was given.
THEOREM SockaddrRoundTrip ==
  ASSUME NEW host \in Seq(Nat), NEW port \in Nat, Formats(host, port)
  PROVE  /\ Parses(Format(host, port))
         /\ Parse(Format(host, port)) = Address(host, port)
<1>1. /\ Address(host, port) \in Addresses
      /\ Address(host, port).host = host /\ Address(host, port).port = port
  BY ByteIsNat DEF Address, Addresses, IPv4, Formats
<1>2. Format(host, port) \in Seq(Nat) /\ Len(Format(host, port)) = 16
  BY FormatBytes DEF Formats
<1>3. /\ Parses(Format(host, port))
      /\ Parse(Format(host, port)) = Address(host, port)
  <2>. DEFINE a == Address(host, port)
  <2>1. a \in Addresses /\ Format(a.host, a.port) = Format(host, port)
    BY <1>1
  <2>2. Len(Format(host, port)) >= 16
    BY <1>2
  <2>. HIDE DEF a
  <2>3. Parses(Format(host, port)) /\ Parse(Format(host, port)) = a
    BY <1>2, <2>1, <2>2, ParsePrefix, Zenon
  <2>. QED BY <2>3, Zenon DEF a
<1>. QED BY <1>3

\* The kernel writes an address as the library does.
LEMMA KernelFormats ==
  ASSUME NEW a \in Addresses
  PROVE  KernelSockaddr(a) = Format(a.host, a.port)
<1>1. 2 % Byte = 2 /\ 2 \div Byte = 0
  BY FamilyDigits
<1>2. ASSUME NEW x \in Nat, NEW y \in Nat PROVE <<2, 0>> \o <<x, y>> = <<2, 0, x, y>>
  <2>. DEFINE l == <<2, 0>>
              r == <<x, y>>
              both == l \o r
              whole == <<2, 0, x, y>>
  <2>1. l \in Seq(Nat) /\ Len(l) = 2 /\ l[1] = 2 /\ l[2] = 0
    BY PairIsSeq
  <2>2. r \in Seq(Nat) /\ Len(r) = 2 /\ r[1] = x /\ r[2] = y
    BY PairIsSeq
  <2>3. whole \in Seq(Nat) /\ Len(whole) = 4
        /\ whole[1] = 2 /\ whole[2] = 0 /\ whole[3] = x /\ whole[4] = y
    OBVIOUS
  <2>. HIDE DEF l, r, whole
  <2>4. /\ both \in Seq(Nat) /\ Len(both) = Len(l) + Len(r)
        /\ \A i \in 1..(Len(l) + Len(r)) :
             both[i] = IF i <= Len(l) THEN l[i] ELSE r[i - Len(l)]
    BY <2>1, <2>2, ConcatProperties, Zenon
  <2>. HIDE DEF both
  <2>5. Len(both) = 4 /\ \A i \in 1..4 : both[i] = whole[i]
    BY <2>1, <2>2, <2>3, <2>4
  <2>6. both = whole
    BY <2>3, <2>4, <2>5, SeqEqual, Zenon
  <2>. QED BY <2>6 DEF both, l, r, whole
<1>3. LE16(AF_INET) \o BE16(a.port) = <<AF_INET, 0, a.port \div Byte, a.port % Byte>>
  <2>1. a.port \div Byte \in Nat /\ a.port % Byte \in Nat
    BY TwoDigits, AddressParts, Zenon
  <2>. QED BY <1>1, <1>2, <2>1, Zenon DEF LE16, BE16, AF_INET
<1>. QED BY <1>3, Zenon DEF KernelSockaddr, Format

-------------------------------------------------------------------------------
(* The tables of native.js and of main.c.                                  *)

\* A function's row is that of its table.
LEMMA WrapperTables ==
  /\ \A f \in DOMAIN WrapperOfSockets : f \in DOMAIN Wrapper /\ Wrapper[f] = WrapperOfSockets[f]
  /\ \A f \in DOMAIN WrapperOfTransfer : f \in DOMAIN Wrapper /\ Wrapper[f] = WrapperOfTransfer[f]
  /\ \A f \in DOMAIN WrapperOfOptions : f \in DOMAIN Wrapper /\ Wrapper[f] = WrapperOfOptions[f]
  /\ \A f \in DOMAIN WrapperOfSwitches : f \in DOMAIN Wrapper /\ Wrapper[f] = WrapperOfSwitches[f]
  /\ \A f \in DOMAIN WrapperOfNames : f \in DOMAIN Wrapper /\ Wrapper[f] = WrapperOfNames[f]
<1>1. /\ DOMAIN WrapperOfSockets \cap DOMAIN WrapperOfTransfer = {}
      /\ DOMAIN WrapperOfSockets \cap DOMAIN WrapperOfOptions = {}
      /\ DOMAIN WrapperOfSockets \cap DOMAIN WrapperOfSwitches = {}
      /\ DOMAIN WrapperOfSockets \cap DOMAIN WrapperOfNames = {}
  BY DEF WrapperOfSockets, WrapperOfTransfer, WrapperOfOptions, WrapperOfSwitches, WrapperOfNames
<1>2. /\ DOMAIN WrapperOfTransfer \cap DOMAIN WrapperOfOptions = {}
      /\ DOMAIN WrapperOfTransfer \cap DOMAIN WrapperOfSwitches = {}
      /\ DOMAIN WrapperOfTransfer \cap DOMAIN WrapperOfNames = {}
      /\ DOMAIN WrapperOfOptions \cap DOMAIN WrapperOfSwitches = {}
      /\ DOMAIN WrapperOfOptions \cap DOMAIN WrapperOfNames = {}
      /\ DOMAIN WrapperOfSwitches \cap DOMAIN WrapperOfNames = {}
  BY DEF WrapperOfTransfer, WrapperOfOptions, WrapperOfSwitches, WrapperOfNames
<1>. QED BY <1>1, <1>2 DEF Wrapper, Joined

LEMMA NativeTables ==
  /\ \A f \in DOMAIN NativeOfOptions : f \in DOMAIN Native /\ Native[f] = NativeOfOptions[f]
  /\ \A f \in DOMAIN NativeOfStreams : f \in DOMAIN Native /\ Native[f] = NativeOfStreams[f]
  /\ \A f \in DOMAIN NativeOfSwitches : f \in DOMAIN Native /\ Native[f] = NativeOfSwitches[f]
  /\ \A f \in DOMAIN NativeOfLists : f \in DOMAIN Native /\ Native[f] = NativeOfLists[f]
  /\ \A f \in DOMAIN NativeOfTransfer : f \in DOMAIN Native /\ Native[f] = NativeOfTransfer[f]
  /\ \A f \in DOMAIN NativeOfNames : f \in DOMAIN Native /\ Native[f] = NativeOfNames[f]
  /\ \A f \in DOMAIN NativeOfEnds : f \in DOMAIN Native /\ Native[f] = NativeOfEnds[f]
  /\ DOMAIN Native = DOMAIN NativeOfOptions \cup DOMAIN NativeOfStreams \cup DOMAIN NativeOfSwitches
       \cup DOMAIN NativeOfLists \cup DOMAIN NativeOfTransfer \cup DOMAIN NativeOfNames \cup DOMAIN NativeOfEnds
<1>1. DOMAIN NativeOfOptions \cap (DOMAIN NativeOfStreams \cup DOMAIN NativeOfSwitches
       \cup DOMAIN NativeOfLists \cup DOMAIN NativeOfTransfer \cup DOMAIN NativeOfNames \cup DOMAIN NativeOfEnds) = {}
  BY DEF NativeOfOptions, NativeOfStreams, NativeOfSwitches, NativeOfLists, NativeOfTransfer, NativeOfNames, NativeOfEnds
<1>2. DOMAIN NativeOfStreams \cap (DOMAIN NativeOfSwitches
       \cup DOMAIN NativeOfLists \cup DOMAIN NativeOfTransfer \cup DOMAIN NativeOfNames \cup DOMAIN NativeOfEnds) = {}
  BY DEF NativeOfStreams, NativeOfSwitches, NativeOfLists, NativeOfTransfer, NativeOfNames, NativeOfEnds
<1>3. DOMAIN NativeOfSwitches \cap
        (DOMAIN NativeOfLists \cup DOMAIN NativeOfTransfer \cup DOMAIN NativeOfNames \cup DOMAIN NativeOfEnds) = {}
  BY DEF NativeOfSwitches, NativeOfLists, NativeOfTransfer, NativeOfNames, NativeOfEnds
<1>4. DOMAIN NativeOfLists \cap (DOMAIN NativeOfTransfer \cup DOMAIN NativeOfNames \cup DOMAIN NativeOfEnds) = {}
  BY DEF NativeOfLists, NativeOfTransfer, NativeOfNames, NativeOfEnds
<1>5. DOMAIN NativeOfTransfer \cap (DOMAIN NativeOfNames \cup DOMAIN NativeOfEnds) = {}
  BY DEF NativeOfTransfer, NativeOfNames, NativeOfEnds
<1>6. DOMAIN NativeOfNames \cap DOMAIN NativeOfEnds = {}
  BY DEF NativeOfNames, NativeOfEnds
<1>. QED BY <1>1, <1>2, <1>3, <1>4, <1>5, <1>6 DEF Native, Joined

NameCalls == {"getsockname", "getpeername"}

\* Arguments whose kind nobody asserts: the buffer of getsockname and getpeername,
\* and the list of sctp_connectx.
Unasserted(f, p, kind) ==
  \/ f \in NameCalls /\ p = "sockaddr" /\ kind = "buffer"
  \/ f = "sctp_connectx" /\ p = "sockaddrs" /\ kind = "list"

\* The wrapper asserts the kind of every other argument that the native function
\* reads.
LEMMA WrapperAsserts ==
  ASSUME NEW f \in DOMAIN Native
  PROVE  /\ f \in DOMAIN Wrapper
         /\ \A p \in DOMAIN Native[f] :
              \/ p \in DOMAIN Wrapper[f] /\ Wrapper[f][p] = KindOf(Native[f][p])
              \/ Unasserted(f, p, KindOf(Native[f][p]))
<1> USE DEF KindOf, Unasserted
<1>1. CASE f \in DOMAIN NativeOfOptions
  <2>1. CASE f = "create_socket"
    BY <1>1, <2>1, WrapperTables, NativeTables DEF NativeOfOptions, WrapperOfSockets
  <2>2. CASE f # "create_socket"
    BY <1>1, <2>2, WrapperTables, NativeTables DEF NativeOfOptions, WrapperOfOptions
  <2>. QED BY <2>1, <2>2
<1>2. CASE f \in DOMAIN NativeOfStreams
  <2>1. CASE f = "setsockopt_sctp_recvrcvinfo"
    BY <1>2, <2>1, WrapperTables, NativeTables DEF NativeOfStreams, WrapperOfSwitches
  <2>2. CASE f # "setsockopt_sctp_recvrcvinfo"
    BY <1>2, <2>2, WrapperTables, NativeTables DEF NativeOfStreams, WrapperOfOptions
  <2>. QED BY <2>1, <2>2
<1>3. CASE f \in DOMAIN NativeOfSwitches
  BY <1>3, WrapperTables, NativeTables DEF NativeOfSwitches, WrapperOfSwitches
<1>4. CASE f \in DOMAIN NativeOfLists
  BY <1>4, WrapperTables, NativeTables DEF NativeOfLists, WrapperOfSockets
<1>5. CASE f \in DOMAIN NativeOfTransfer
  <2>1. CASE f \in {"accept", "listen"}
    BY <1>5, <2>1, WrapperTables, NativeTables DEF NativeOfTransfer, WrapperOfSockets
  <2>2. CASE f \notin {"accept", "listen"}
    BY <1>5, <2>2, WrapperTables, NativeTables DEF NativeOfTransfer, WrapperOfTransfer
  <2>. QED BY <2>1, <2>2
<1>6. CASE f \in DOMAIN NativeOfNames
  BY <1>6, WrapperTables, NativeTables DEF NativeOfNames, WrapperOfNames, NameCalls
<1>7. CASE f \in DOMAIN NativeOfEnds
  BY <1>7, WrapperTables, NativeTables DEF NativeOfEnds, WrapperOfNames
<1>. QED BY <1>1, <1>2, <1>3, <1>4, <1>5, <1>6, <1>7, NativeTables

-------------------------------------------------------------------------------
(* What the library gives, the native code can read.                       *)

ListCalls == {"sctp_bindx", "sctp_connectx"}

\* The arguments of a call fit what is asserted of them, or the application gave
\* one of a wrong kind; what nobody asserts is the library's own.
KindsFit(f, a) ==
  /\ f \in DOMAIN Native
  /\ \A p \in DOMAIN Wrapper[f] : p \in DOMAIN a /\ (a[p].kind = Wrapper[f][p] \/ a[p] = Wrong)
  /\ f \in NameCalls => "sockaddr" \in DOMAIN a /\ a.sockaddr.kind = "buffer"
  /\ f = "sctp_connectx" => "sockaddrs" \in DOMAIN a /\ a.sockaddrs.kind = "list"
  /\ f = "getsockopt_peer_addr_info" => Len(a.sockaddr.value) <= 128

\* The kernel writes its states and an address that can be read.
NotificationFits(n) ==
  /\ n.type \in DOMAIN States => n.state \in States[n.type]
  /\ Parses(n.spc_aaddr)

ArgsInv ==
  /\ phase = "wrapper" => KindsFit(fn, args)
  /\ fn = "parse_sctp_notification" /\ phase \in {"wrapper", "kernel"} =>
       NotificationFits(args.notification.value)
  /\ NeverAborts

LEMMA AppNumberKinds ==
  ASSUME NEW m \in AppNumbers
  PROVE  (m = Wrong \/ m.kind = "number") /\ m.value \in Nat
BY NativeAssumption DEF AppNumbers, Num, Wrong

\* The calls whose arguments are the library's own.
LEMMA OwnCallsFit ==
  ASSUME NEW f \in DOMAIN OwnCalls
  PROVE  KindsFit(f, OwnCalls[f])
<1> USE DEF OwnCalls, KindsFit, NameCalls, Fd, Num, Buf
<1>1. CASE f \in {"create_socket", "accept"}
  <2>1. CASE f = "create_socket"
    BY <2>1, WrapperTables, NativeTables DEF WrapperOfSockets, NativeOfOptions
  <2>2. CASE f = "accept"
    BY <2>2, WrapperTables, NativeTables DEF WrapperOfSockets, NativeOfTransfer
  <2>. QED BY <1>1, <2>1, <2>2
<1>2. CASE f = "getsockopt_sctp_status"
  BY <1>2, WrapperTables, NativeTables DEF WrapperOfOptions, NativeOfOptions
<1>3. CASE f \in {"setsockopt_sctp_recvrcvinfo", "setsockopt_sctp_event", "setsockopt_nodelay", "setsockopt_linger"}
  <2>1. CASE f = "setsockopt_sctp_recvrcvinfo"
    BY <2>1, WrapperTables, NativeTables DEF WrapperOfSwitches, NativeOfStreams
  <2>2. CASE f = "setsockopt_sctp_event"
    BY <2>2, WrapperTables, NativeTables DEF WrapperOfSwitches, NativeOfSwitches
  <2>3. CASE f = "setsockopt_nodelay"
    BY <2>3, WrapperTables, NativeTables DEF WrapperOfSwitches, NativeOfSwitches
  <2>4. CASE f = "setsockopt_linger"
    BY <2>4, WrapperTables, NativeTables DEF WrapperOfSwitches, NativeOfSwitches
  <2>. QED BY <1>3, <2>1, <2>2, <2>3, <2>4
<1>4. CASE f = "sctp_recvv"
  BY <1>4, WrapperTables, NativeTables DEF WrapperOfTransfer, NativeOfTransfer
<1>5. CASE f \in {"get_socket_error", "getsockname", "getpeername", "sctp_getladdrs", "sctp_getpaddrs"}
  BY <1>5, WrapperTables, NativeTables DEF WrapperOfNames, NativeOfNames
<1>6. CASE f \in {"shutdown", "close_fd"}
  BY <1>6, WrapperTables, NativeTables DEF WrapperOfNames, NativeOfEnds
<1>. QED BY <1>1, <1>2, <1>3, <1>4, <1>5, <1>6

\* The other calls without a list of addresses.
Plain == {"parse_sctp_notification", "sctp_sendv"} \cup ListCalls

LEMMA SetOptionsAsks ==
  ASSUME SetOptions
  PROVE  UNCHANGED asked /\ \E f, a : f \notin Plain /\ Ask(f, a) /\ KindsFit(f, a)
<1>1. PICK m \in AppNumbers, n \in AppNumbers :
        \/ Ask("setsockopt_sack_info",
               [fd |-> Fd, sack_assoc_id |-> Num(2), sack_delay |-> m, sack_freq |-> n])
        \/ Ask("setsockopt_sctp_initmsg",
               [fd |-> Fd, sinit_num_ostreams |-> m, sinit_max_instreams |-> n,
                sinit_max_attempts |-> Num(0), sinit_max_init_timeo |-> Num(0)])
  BY DEF SetOptions
<1>2. (m = Wrong \/ m.kind = "number") /\ (n = Wrong \/ n.kind = "number")
  BY AppNumberKinds
<1>3. KindsFit("setsockopt_sack_info",
               [fd |-> Fd, sack_assoc_id |-> Num(2), sack_delay |-> m, sack_freq |-> n])
  BY <1>2, WrapperTables, NativeTables
     DEF KindsFit, NameCalls, Fd, Num, WrapperOfOptions, NativeOfOptions
<1>4. KindsFit("setsockopt_sctp_initmsg",
               [fd |-> Fd, sinit_num_ostreams |-> m, sinit_max_instreams |-> n,
                sinit_max_attempts |-> Num(0), sinit_max_init_timeo |-> Num(0)])
  BY <1>2, WrapperTables, NativeTables
     DEF KindsFit, NameCalls, Fd, Num, WrapperOfOptions, NativeOfStreams
<1>5. "setsockopt_sack_info" \notin Plain /\ "setsockopt_sctp_initmsg" \notin Plain
  BY DEF Plain, ListCalls
<1>6. UNCHANGED asked
  BY DEF SetOptions
<1>. QED BY <1>1, <1>3, <1>4, <1>5, <1>6, Zenon

LEMMA ListenAsks ==
  ASSUME Listen
  PROVE  UNCHANGED asked /\ \E f, a : f \notin Plain /\ Ask(f, a) /\ KindsFit(f, a)
<1>1. PICK n \in AppNumbers : Ask("listen", [fd |-> Fd, backlog |-> n])
  BY DEF Listen
<1>2. n = Wrong \/ n.kind = "number"
  BY AppNumberKinds
<1>3. KindsFit("listen", [fd |-> Fd, backlog |-> n])
  BY <1>2, WrapperTables, NativeTables
     DEF KindsFit, NameCalls, Fd, Num, WrapperOfSockets, NativeOfTransfer
<1>4. "listen" \notin Plain /\ UNCHANGED asked
  BY DEF Plain, ListCalls, Listen
<1>. QED BY <1>1, <1>3, <1>4, Zenon

LEMMA CallOwnAsks ==
  ASSUME CallOwn
  PROVE  UNCHANGED asked /\ \E f, a : f \notin Plain /\ Ask(f, a) /\ KindsFit(f, a)
<1>1. PICK f \in DOMAIN OwnCalls : Ask(f, OwnCalls[f])
  BY DEF CallOwn
<1>2. f \notin Plain
  BY DEF OwnCalls, Plain, ListCalls
<1>3. KindsFit(f, OwnCalls[f]) /\ UNCHANGED asked
  BY OwnCallsFit DEF CallOwn
<1>. QED BY <1>1, <1>2, <1>3, Zenon

LEMMA AskPeerInfoAsks ==
  ASSUME AskPeerInfo, remote \in Seq(Addresses)
  PROVE  UNCHANGED asked /\ \E f, a : f \notin Plain /\ Ask(f, a) /\ KindsFit(f, a)
<1>1. PICK i \in DOMAIN remote :
        Ask("getsockopt_peer_addr_info",
            [fd |-> Fd, sockaddr |-> Buf(Format(remote[i].host, remote[i].port))])
  BY DEF AskPeerInfo
<1>2. remote[i] \in Addresses
  BY ElementOfSeq, LenProperties
<1>3. Len(Format(remote[i].host, remote[i].port)) <= 128
  <2>1. Len(Format(remote[i].host, remote[i].port)) = 16
    BY <1>2, AddressParts, FormatBytes, Zenon
  <2>. QED BY <2>1
<1>4. KindsFit("getsockopt_peer_addr_info",
               [fd |-> Fd, sockaddr |-> Buf(Format(remote[i].host, remote[i].port))])
  BY <1>3, WrapperTables, NativeTables
     DEF KindsFit, NameCalls, Fd, Num, Buf, WrapperOfOptions, NativeOfStreams
<1>5. "getsockopt_peer_addr_info" \notin Plain /\ UNCHANGED asked
  BY DEF Plain, ListCalls, AskPeerInfo
<1>. QED BY <1>1, <1>4, <1>5, Zenon

LEMMA SendFits ==
  ASSUME NEW m \in AppNumbers, NEW n \in AppNumbers
  PROVE  KindsFit("sctp_sendv",
           [fd |-> Fd, message |-> Buf(<<>>), sid |-> m, ppid |-> n,
            sndflags |-> Num(0), context |-> Num(0), flags |-> Num(0)])
<1>1. (m = Wrong \/ m.kind = "number") /\ (n = Wrong \/ n.kind = "number")
  BY AppNumberKinds
<1>. QED BY <1>1, WrapperTables, NativeTables
     DEF KindsFit, NameCalls, Fd, Num, Buf, WrapperOfTransfer, NativeOfTransfer

LEMMA ListsFit ==
  ASSUME NEW s
  PROVE  /\ KindsFit("sctp_bindx", [fd |-> Fd, flags |-> Num(1), sockaddrs |-> List(s)])
         /\ KindsFit("sctp_connectx", [fd |-> Fd, sockaddrs |-> List(s)])
BY WrapperTables, NativeTables
   DEF KindsFit, NameCalls, Fd, Num, List, WrapperOfSockets, NativeOfLists

LEMMA NotificationKindsFit ==
  ASSUME NEW n
  PROVE  KindsFit("parse_sctp_notification", [notification |-> Buf(n)])
BY WrapperTables, NativeTables DEF KindsFit, NameCalls, Buf, WrapperOfNames, NativeOfEnds

\* What the wrapper lets pass, the native function can read.
LEMMA PassedIsReadable ==
  ASSUME KindsFit(fn, args), Asserted
  PROVE  Readable
<1>1. fn = "getsockopt_peer_addr_info" => Len(args.sockaddr.value) <= 128
  BY DEF KindsFit
<1>2. ASSUME NEW p \in DOMAIN Native[fn]
      PROVE  p \in DOMAIN args /\ args[p].kind = KindOf(Native[fn][p])
  <2>1. CASE p \in DOMAIN Wrapper[fn] /\ Wrapper[fn][p] = KindOf(Native[fn][p])
    BY <2>1 DEF KindsFit, Asserted
  <2>2. CASE Unasserted(fn, p, KindOf(Native[fn][p]))
    BY <2>2 DEF KindsFit, Unasserted
  <2>. QED BY <1>2, <2>1, <2>2, WrapperAsserts DEF KindsFit
<1>. QED BY <1>1, <1>2 DEF Readable

-------------------------------------------------------------------------------
(* The inductive invariant.                                                *)

\* The array is always as large as what has been copied into it.
FillInv ==
  /\ packed \in Seq(Nat) /\ capacity \in Nat
  /\ Len(packed) =< capacity
  /\ phase = "wrapper" /\ fn \in ListCalls => args.sockaddrs.value \in Seq(Seq(Nat))
  /\ phase = "fill" => left \in Seq(Seq(Nat))

\* The list s is what the library makes of side: the addresses in order, each
\* with its port, or, behind the first, without one.
Packs(s, side) ==
  /\ s \in Seq(Seq(Nat)) /\ side \in Seq(Addresses) /\ Len(s) = Len(side)
  /\ \A i \in 1..Len(side) :
       /\ side[i].port = side[1].port
       /\ \/ s[i] = Format(side[i].host, side[i].port)
          \/ i > 1 /\ s[i] = Format(side[i].host, 0)

\* The array holds the first n addresses of the list, 16 bytes each.
Filled(n) ==
  /\ Len(packed) = 16 * n
  /\ \A i \in 1..n, j \in 1..16 : packed[16 * (i - 1) + j] = args.sockaddrs.value[i][j]

\* The addresses that a call is about.
Asked == IF fn = "sctp_bindx" THEN asked.local ELSE asked.remote
Side == IF fn = "sctp_getladdrs" THEN local ELSE remote

PackInv ==
  /\ phase \in {"wrapper", "fill", "kernel"} /\ fn \in ListCalls => Packs(args.sockaddrs.value, Asked)
  /\ phase = "wrapper" => packed = <<>>
  /\ phase = "fill" =>
       LET s == args.sockaddrs.value IN
       /\ fn \in ListCalls
       /\ Len(left) <= Len(s)
       /\ Filled(Len(s) - Len(left))
       /\ \A i \in 1..Len(left) : left[i] = s[Len(s) - Len(left) + i]
  /\ phase = "kernel" /\ fn \in ListCalls => Filled(Len(args.sockaddrs.value))

\* The answer holds the first addresses of the side, and the bytes of the others
\* are still to be split.
SplitInv ==
  phase = "split" =>
    /\ fn \in {"sctp_getladdrs", "sctp_getpaddrs"}
    /\ Side # <<>>
    /\ answer \in Seq(Addresses) /\ left \in Seq(Nat)
    /\ Len(answer) <= Len(Side)
    /\ \A i \in 1..Len(answer) : answer[i] = Side[i]
    /\ Len(left) = 16 * (Len(Side) - Len(answer))
    /\ \A i \in 1..(Len(Side) - Len(answer)), j \in 1..16 :
         LET a == Side[Len(answer) + i] IN left[16 * (i - 1) + j] = Format(a.host, a.port)[j]

\* The kernel has the addresses it was asked for.
AddressInv ==
  /\ asked \in [local : Seq(Addresses), remote : Seq(Addresses)]
  /\ local \in {<<>>, asked.local} /\ remote \in {<<>>, asked.remote}
  /\ phase \in {"wrapper", "fill", "kernel"} => answer = <<>>
  /\ PackInv
  /\ SplitInv
  /\ AddressesReadBack

\* A message on its way has what was written with it, in the width and the order
\* of the fields it travels in.
WireInv ==
  /\ wire # <<>> =>
       /\ written.sid \in Nat /\ written.ppid \in Nat
       /\ wire = [sid |-> written.sid % U16, ppid |-> Swap32(written.ppid % U32)]
  /\ fn = "sctp_sendv" /\ phase \in {"wrapper", "kernel"} =>
       /\ args.sid.value \in Nat /\ args.ppid.value \in Nat
       /\ written = [sid |-> args.sid.value, ppid |-> args.ppid.value]
  /\ fn = "sctp_sendv" /\ phase = "kernel" =>
       given.sid = args.sid.value % U16 /\ given.ppid = Swap32(args.ppid.value % U32)
  /\ ReceivedAsSent

IInv == FillInv /\ ArgsInv /\ AddressInv /\ WireInv

-------------------------------------------------------------------------------
(* A call is made.                                                         *)

LEMMA AskArgs ==
  ASSUME NEW f, NEW a, Ask(f, a), KindsFit(f, a),
         f = "parse_sctp_notification" => NotificationFits(a.notification.value)
  PROVE  ArgsInv'
<1>1. phase' = "wrapper" /\ outcome' = "none" /\ fn' = f /\ args' = a
  BY DEF Ask
<1>2. KindsFit(fn, args)'
  BY <1>1 DEF KindsFit
<1>3. fn' = "parse_sctp_notification" => NotificationFits(args.notification.value)'
  BY <1>1 DEF NotificationFits
<1>. QED BY <1>1, <1>2, <1>3 DEF ArgsInv, NeverAborts

LEMMA AskAddress ==
  ASSUME NEW f, NEW a, Ask(f, a),
         asked' \in [local : Seq(Addresses), remote : Seq(Addresses)],
         local \in {<<>>, asked'.local}, remote \in {<<>>, asked'.remote},
         f = "sctp_bindx" => Packs(a.sockaddrs.value, asked'.local),
         f = "sctp_connectx" => Packs(a.sockaddrs.value, asked'.remote)
  PROVE  AddressInv'
<1>1. /\ phase' = "wrapper" /\ outcome' = "none" /\ fn' = f /\ args' = a
      /\ answer' = <<>> /\ packed' = <<>> /\ UNCHANGED <<local, remote>>
  BY DEF Ask, kernelVars
<1>2. f \in ListCalls => Packs(args.sockaddrs.value, Asked)'
  <2>1. CASE f = "sctp_bindx"
    BY <1>1, <2>1 DEF Asked, Packs
  <2>2. CASE f = "sctp_connectx"
    BY <1>1, <2>2 DEF Asked, Packs
  <2>. QED BY <2>1, <2>2 DEF ListCalls
<1>. QED BY <1>1, <1>2 DEF AddressInv, PackInv, SplitInv, AddressesReadBack

LEMMA AskWire ==
  ASSUME WireInv, NEW f, NEW a, Ask(f, a),
         f = "sctp_sendv" => a.sid.value \in Nat /\ a.ppid.value \in Nat
  PROVE  WireInv'
<1>1. /\ phase' = "wrapper" /\ outcome' = "none" /\ fn' = f /\ args' = a /\ UNCHANGED wire
      /\ wire # <<>> => f = "sctp_recvv"
      /\ f = "sctp_recvv" => written' = written
      /\ f = "sctp_sendv" => written' = [sid |-> a.sid.value, ppid |-> a.ppid.value]
  BY DEF Ask, kernelVars
<1>. QED BY <1>1 DEF WireInv, ReceivedAsSent

LEMMA PlainAsk ==
  ASSUME IInv, UNCHANGED asked,
         NEW f, NEW a, f \notin Plain, Ask(f, a), KindsFit(f, a)
  PROVE  ArgsInv' /\ AddressInv' /\ WireInv'
<1>1. f \notin ListCalls /\ f \notin {"parse_sctp_notification", "sctp_sendv"}
  BY DEF Plain
<1>2. ArgsInv'
  BY <1>1, AskArgs
<1>3. AddressInv'
  <2>1. f # "sctp_bindx" /\ f # "sctp_connectx"
    BY <1>1 DEF ListCalls
  <2>2. /\ asked' \in [local : Seq(Addresses), remote : Seq(Addresses)]
        /\ local \in {<<>>, asked'.local} /\ remote \in {<<>>, asked'.remote}
    BY DEF IInv, AddressInv
  <2>. QED BY <2>1, <2>2, AskAddress
<1>4. WireInv'
  BY <1>1, AskWire DEF IInv
<1>. QED BY <1>2, <1>3, <1>4

LEMMA SidesAreSeqs ==
  ASSUME AddressInv
  PROVE  local \in Seq(Addresses) /\ remote \in Seq(Addresses)
<1>1. asked.local \in Seq(Addresses) /\ asked.remote \in Seq(Addresses)
  BY DEF AddressInv
<1>2. <<>> \in Seq(Addresses)
  OBVIOUS
<1>. QED BY <1>1, <1>2, Zenon DEF AddressInv

LEMMA PlainStep ==
  ASSUME IInv, SetOptions \/ Listen \/ CallOwn \/ AskPeerInfo
  PROVE  ArgsInv' /\ AddressInv' /\ WireInv'
<1>1. UNCHANGED asked /\ \E f, a : f \notin Plain /\ Ask(f, a) /\ KindsFit(f, a)
  BY SetOptionsAsks, ListenAsks, CallOwnAsks, AskPeerInfoAsks, SidesAreSeqs DEF IInv
<1>. QED BY <1>1, PlainAsk

LEMMA SendStep == ASSUME IInv, Send PROVE ArgsInv' /\ AddressInv' /\ WireInv'
<1>1. PICK m \in AppNumbers, n \in AppNumbers :
        Ask("sctp_sendv",
            [fd |-> Fd, message |-> Buf(<<>>), sid |-> m, ppid |-> n,
             sndflags |-> Num(0), context |-> Num(0), flags |-> Num(0)])
  BY DEF Send
<1>. DEFINE a == [fd |-> Fd, message |-> Buf(<<>>), sid |-> m, ppid |-> n,
                  sndflags |-> Num(0), context |-> Num(0), flags |-> Num(0)]
<1>2. Ask("sctp_sendv", a) /\ KindsFit("sctp_sendv", a)
  BY <1>1, SendFits
<1>3. a.sid.value \in Nat /\ a.ppid.value \in Nat
  BY AppNumberKinds
<1>. HIDE DEF a
<1>4. /\ asked' \in [local : Seq(Addresses), remote : Seq(Addresses)]
      /\ local \in {<<>>, asked'.local} /\ remote \in {<<>>, asked'.remote}
  BY DEF Send, IInv, AddressInv
<1>5. ArgsInv'
  BY <1>2, AskArgs
<1>6. AddressInv'
  BY <1>2, <1>4, AskAddress
<1>7. WireInv'
  BY <1>2, <1>3, AskWire DEF IInv
<1>. QED BY <1>5, <1>6, <1>7

LEMMA FormatIsSeq ==
  ASSUME NEW host \in Seq(Nat), NEW port \in Nat, Len(host) = 4
  PROVE  Format(host, port) \in Seq(Nat)
BY FormatBytes

\* A function on the places of a sequence is a sequence.
LEMMA MapIsSeq ==
  ASSUME NEW S, NEW T, NEW hosts \in Seq(S), NEW s \in [DOMAIN hosts -> T]
  PROVE  s \in Seq(T)
<1>1. Len(hosts) \in Nat /\ DOMAIN hosts = 1..Len(hosts)
  BY LenProperties
<1>2. s \in [1..Len(hosts) -> T]
  BY <1>1
<1>. QED BY <1>1, <1>2, SeqDef

\* Addresses formatted one by one are what Packs says.
LEMMA FormattedPacks ==
  ASSUME NEW hosts \in HostLists, NEW port \in Nat, NEW own \in [DOMAIN hosts -> {0, port}],
         \A i \in DOMAIN hosts : Formats(hosts[i], own[i]),
         hosts # <<>> => own[1] = port
  PROVE  Packs([i \in DOMAIN hosts |-> Format(hosts[i], own[i])],
               [i \in DOMAIN hosts |-> Address(hosts[i], port)])
<1>. DEFINE s == [i \in DOMAIN hosts |-> Format(hosts[i], own[i])]
            side == [i \in DOMAIN hosts |-> Address(hosts[i], port)]
<1>1. hosts \in Seq(Seq(Nat)) /\ DOMAIN hosts = 1..Len(hosts) /\ Len(hosts) \in Nat
  BY NativeAssumption, LenProperties
<1>2. ASSUME NEW i \in DOMAIN hosts
      PROVE  hosts[i] \in Seq(Nat) /\ Len(hosts[i]) = 4 /\ own[i] \in Nat /\ port < U16
  <2>1. hosts[i] \in Seq(Nat)
    BY <1>1, ElementOfSeq, Zenon
  <2>2. Len(hosts[i]) = 4 /\ own[i] \in Nat
    BY DEF Formats
  <2>3. 1 \in DOMAIN hosts /\ hosts # <<>>
    BY <1>1
  <2>4. port < U16
    BY <2>3 DEF Formats
  <2>. QED BY <2>1, <2>2, <2>4
<1>3. \A i \in DOMAIN hosts : Format(hosts[i], own[i]) \in Seq(Nat)
  BY <1>2, FormatIsSeq, Zenon
<1>4. \A i \in DOMAIN hosts : Address(hosts[i], port) \in Addresses
  BY <1>2, ByteIsNat DEF Address, Addresses, IPv4
<1>5. s \in Seq(Seq(Nat)) /\ side \in Seq(Addresses)
  <2>1. s \in [DOMAIN hosts -> Seq(Nat)] /\ side \in [DOMAIN hosts -> Addresses]
    BY <1>3, <1>4
  <2>. HIDE DEF s, side
  <2>. QED BY <1>1, <2>1, MapIsSeq, Zenon
<1>6. /\ \A i \in DOMAIN hosts : s[i] = Format(hosts[i], own[i])
      /\ \A i \in DOMAIN hosts : side[i].host = hosts[i] /\ side[i].port = port
      /\ DOMAIN s = DOMAIN hosts /\ DOMAIN side = DOMAIN hosts
  BY DEF Address
<1>. HIDE DEF s, side
<1>7. Len(s) = Len(hosts) /\ Len(side) = Len(hosts)
  BY <1>1, <1>5, <1>6, LenProperties
<1>8. ASSUME NEW i \in 1..Len(side)
      PROVE  /\ side[i].port = side[1].port
             /\ \/ s[i] = Format(side[i].host, side[i].port)
                \/ i > 1 /\ s[i] = Format(side[i].host, 0)
  <2>1. i \in DOMAIN hosts /\ 1 \in DOMAIN hosts /\ hosts # <<>>
    BY <1>1, <1>7
  <2>2. side[i].port = port /\ side[1].port = port /\ side[i].host = hosts[i] /\ s[i] = Format(hosts[i], own[i])
    BY <1>6, <2>1
  <2>3. own[i] = port \/ (own[i] = 0 /\ i # 1)
    BY <2>1
  <2>4. i # 1 => i > 1
    BY <2>1, <1>1
  <2>. QED BY <2>2, <2>3, <2>4, Zenon
<1>9. Packs(s, side)
  BY <1>5, <1>7, <1>8, Zenon DEF Packs
<1>. QED BY <1>9 DEF s, side

LEMMA BindAsks ==
  ASSUME Bind
  PROVE  \E s, side : /\ Packs(s, side)
                      /\ Ask("sctp_bindx", [fd |-> Fd, flags |-> Num(1), sockaddrs |-> List(s)])
                      /\ asked' = [asked EXCEPT !.local = side]
<1>1. PICK hosts \in HostLists, port \in Ports :
        LET PortOf(i) == IF i = 1 THEN port ELSE 0 IN
        /\ \A i \in DOMAIN hosts : Formats(hosts[i], PortOf(i))
        /\ Ask("sctp_bindx",
               [fd |-> Fd, flags |-> Num(1),
                sockaddrs |-> List([i \in DOMAIN hosts |-> Format(hosts[i], PortOf(i))])])
        /\ asked' = [asked EXCEPT !.local = [i \in DOMAIN hosts |-> Address(hosts[i], port)]]
  BY DEF Bind
<1>. DEFINE own == [i \in DOMAIN hosts |-> IF i = 1 THEN port ELSE 0]
            side == [i \in DOMAIN hosts |-> Address(hosts[i], port)]
            s == [i \in DOMAIN hosts |-> Format(hosts[i], own[i])]
<1>2. /\ port \in Nat /\ own \in [DOMAIN hosts -> {0, port}]
      /\ \A i \in DOMAIN hosts : Formats(hosts[i], own[i])
  BY <1>1, NativeAssumption
<1>3. hosts # <<>> => own[1] = port
  <2>1. hosts # <<>> => 1 \in DOMAIN hosts
    BY NativeAssumption
  <2>. QED BY <2>1
<1>4. s = [i \in DOMAIN hosts |-> Format(hosts[i], IF i = 1 THEN port ELSE 0)]
  OBVIOUS
<1>. HIDE DEF own
<1>5. Packs(s, side)
  BY <1>2, <1>3, FormattedPacks
<1>6. Ask("sctp_bindx", [fd |-> Fd, flags |-> Num(1), sockaddrs |-> List(s)])
  BY <1>1, <1>4
<1>7. asked' = [asked EXCEPT !.local = side]
  BY <1>1
<1>. HIDE DEF s, side
<1>. QED BY <1>5, <1>6, <1>7, Zenon

LEMMA ConnectAsks ==
  ASSUME Connect
  PROVE  \E s, side : /\ Packs(s, side)
                      /\ Ask("sctp_connectx", [fd |-> Fd, sockaddrs |-> List(s)])
                      /\ asked' = [asked EXCEPT !.remote = side]
<1>1. PICK hosts \in HostLists, port \in Ports :
        /\ \A i \in DOMAIN hosts : Formats(hosts[i], port)
        /\ Ask("sctp_connectx",
               [fd |-> Fd, sockaddrs |-> List([i \in DOMAIN hosts |-> Format(hosts[i], port)])])
        /\ asked' = [asked EXCEPT !.remote = [i \in DOMAIN hosts |-> Address(hosts[i], port)]]
  BY DEF Connect
<1>. DEFINE own == [i \in DOMAIN hosts |-> port]
            side == [i \in DOMAIN hosts |-> Address(hosts[i], port)]
            s == [i \in DOMAIN hosts |-> Format(hosts[i], own[i])]
<1>2. /\ port \in Nat /\ own \in [DOMAIN hosts -> {0, port}]
      /\ \A i \in DOMAIN hosts : Formats(hosts[i], own[i])
  BY <1>1, NativeAssumption
<1>3. hosts # <<>> => own[1] = port
  <2>1. hosts # <<>> => 1 \in DOMAIN hosts
    BY NativeAssumption
  <2>. QED BY <2>1
<1>4. s = [i \in DOMAIN hosts |-> Format(hosts[i], port)]
  OBVIOUS
<1>. HIDE DEF own
<1>5. Packs(s, side)
  BY <1>2, <1>3, FormattedPacks
<1>6. Ask("sctp_connectx", [fd |-> Fd, sockaddrs |-> List(s)])
  BY <1>1, <1>4
<1>7. asked' = [asked EXCEPT !.remote = side]
  BY <1>1
<1>. HIDE DEF s, side
<1>. QED BY <1>5, <1>6, <1>7, Zenon

LEMMA AskFill ==
  ASSUME NEW f, NEW a, Ask(f, a), f \in ListCalls => a.sockaddrs.value \in Seq(Seq(Nat))
  PROVE  FillInv'
BY DEF Ask, FillInv

LEMMA BindStep == ASSUME IInv, Bind PROVE IInv'
<1>1. PICK s, side : /\ Packs(s, side)
                     /\ Ask("sctp_bindx", [fd |-> Fd, flags |-> Num(1), sockaddrs |-> List(s)])
                     /\ asked' = [asked EXCEPT !.local = side]
  BY BindAsks
<1>. DEFINE a == [fd |-> Fd, flags |-> Num(1), sockaddrs |-> List(s)]
<1>2. a.sockaddrs.value = s /\ KindsFit("sctp_bindx", a) /\ Ask("sctp_bindx", a)
  BY <1>1, ListsFit DEF List
<1>. HIDE DEF a
<1>3. /\ asked' \in [local : Seq(Addresses), remote : Seq(Addresses)]
      /\ asked'.local = side /\ local \in {<<>>, asked'.local} /\ remote \in {<<>>, asked'.remote}
  BY <1>1 DEF Bind, IInv, AddressInv, Packs
<1>4. ArgsInv'
  BY <1>2, AskArgs
<1>5. AddressInv'
  BY <1>1, <1>2, <1>3, AskAddress
<1>6. WireInv'
  BY <1>2, AskWire DEF IInv
<1>7. FillInv'
  BY <1>1, <1>2, AskFill DEF Packs
<1>. QED BY <1>4, <1>5, <1>6, <1>7 DEF IInv

LEMMA ConnectStep == ASSUME IInv, Connect PROVE IInv'
<1>1. PICK s, side : /\ Packs(s, side)
                     /\ Ask("sctp_connectx", [fd |-> Fd, sockaddrs |-> List(s)])
                     /\ asked' = [asked EXCEPT !.remote = side]
  BY ConnectAsks
<1>. DEFINE a == [fd |-> Fd, sockaddrs |-> List(s)]
<1>2. a.sockaddrs.value = s /\ KindsFit("sctp_connectx", a) /\ Ask("sctp_connectx", a)
  BY <1>1, ListsFit DEF List
<1>. HIDE DEF a
<1>3. /\ asked' \in [local : Seq(Addresses), remote : Seq(Addresses)]
      /\ asked'.remote = side /\ local \in {<<>>, asked'.local} /\ remote \in {<<>>, asked'.remote}
  BY <1>1 DEF Connect, IInv, AddressInv, Packs
<1>4. ArgsInv'
  BY <1>2, AskArgs
<1>5. AddressInv'
  BY <1>1, <1>2, <1>3, AskAddress
<1>6. WireInv'
  BY <1>2, AskWire DEF IInv
<1>7. FillInv'
  BY <1>1, <1>2, AskFill DEF Packs
<1>. QED BY <1>4, <1>5, <1>6, <1>7 DEF IInv

\* An address with zeros behind it reads as the address.
LEMMA PaddedParses ==
  ASSUME NEW a \in Addresses, NEW n \in Nat
  PROVE  /\ Parses(KernelSockaddr(a) \o Zeros(n))
         /\ Parse(KernelSockaddr(a) \o Zeros(n)) = a
<1>. DEFINE f == Format(a.host, a.port)
            zeros == Zeros(n)
            m == f \o zeros
<1>1. f \in Seq(Nat) /\ Len(f) = 16
  BY FormatBytes, AddressParts
<1>2. zeros \in Seq(Nat) /\ Len(zeros) = n
  BY DEF Zeros
<1>. HIDE DEF f, zeros
<1>3. /\ m \in Seq(Nat) /\ Len(m) = Len(f) + Len(zeros)
      /\ \A i \in 1..(Len(f) + Len(zeros)) : m[i] = IF i <= Len(f) THEN f[i] ELSE zeros[i - Len(f)]
  BY <1>1, <1>2, ConcatProperties, Zenon
<1>. HIDE DEF m
<1>4. Len(m) >= 16 /\ \A j \in 1..16 : m[j] = f[j]
  <2>1. Len(m) = 16 + n
    BY <1>1, <1>2, <1>3
  <2>2. ASSUME NEW j \in 1..16 PROVE m[j] = f[j]
    <3>1. j \in 1..(Len(f) + Len(zeros)) /\ j <= Len(f)
      BY <1>1, <1>2
    <3>. QED BY <1>3, <3>1, Zenon
  <2>. QED BY <2>1, <2>2
<1>5. Parses(m) /\ Parse(m) = a
  BY <1>3, <1>4, ParsePrefix, Zenon DEF f
<1>6. m = KernelSockaddr(a) \o Zeros(n)
  BY KernelFormats, Zenon DEF m, f, zeros
<1>. QED BY <1>5, <1>6, Zenon

LEMMA ParseNotificationStep == ASSUME IInv, ParseNotification PROVE IInv'
<1>1. PICK type \in DOMAIN States \cup {"other"}, host \in Hosts :
        \E state \in (IF type = "other" THEN {0} ELSE States[type]) :
          /\ Len(host) = 4
          /\ Ask("parse_sctp_notification",
                 [notification |-> Buf([type |-> type, state |-> state,
                                        spc_aaddr |-> KernelSockaddr(Address(host, 0)) \o Zeros(112)])])
  BY DEF ParseNotification
<1>2. PICK state \in (IF type = "other" THEN {0} ELSE States[type]) :
          /\ Len(host) = 4
          /\ Ask("parse_sctp_notification",
                 [notification |-> Buf([type |-> type, state |-> state,
                                        spc_aaddr |-> KernelSockaddr(Address(host, 0)) \o Zeros(112)])])
  BY <1>1
<1>3. Parses(KernelSockaddr(Address(host, 0)) \o Zeros(112))
  <2>1. Address(host, 0) \in Addresses
    <3>1. host \in IPv4
      BY <1>2, NativeAssumption DEF IPv4
    <3>2. 0 \in 0..(U16 - 1)
      BY SomePort
    <3>. QED BY <3>1, <3>2 DEF Addresses, Address
  <2>2. 112 \in Nat
    OBVIOUS
  <2>. QED BY <2>1, <2>2, PaddedParses, Zenon
<1>. DEFINE n == [type |-> type, state |-> state,
                  spc_aaddr |-> KernelSockaddr(Address(host, 0)) \o Zeros(112)]
            a == [notification |-> Buf(n)]
<1>4. NotificationFits(n)
  <2>1. "other" \notin DOMAIN States
    BY DEF States
  <2>2. n.type = type /\ n.state = state /\ n.spc_aaddr = KernelSockaddr(Address(host, 0)) \o Zeros(112)
    OBVIOUS
  <2>3. type \in DOMAIN States => state \in States[type]
    BY <2>1
  <2>. HIDE DEF n
  <2>. QED BY <1>3, <2>2, <2>3, Zenon DEF NotificationFits
<1>5. Ask("parse_sctp_notification", a)
  BY <1>2
<1>6. a.notification.value = n
  BY DEF Buf
<1>. HIDE DEF n
<1>7. KindsFit("parse_sctp_notification", a)
  BY NotificationKindsFit
<1>. HIDE DEF a
<1>8. ArgsInv'
  BY <1>4, <1>5, <1>6, <1>7, AskArgs
<1>9. AddressInv'
  <2>1. /\ asked' \in [local : Seq(Addresses), remote : Seq(Addresses)]
        /\ local \in {<<>>, asked'.local} /\ remote \in {<<>>, asked'.remote}
    BY DEF ParseNotification, IInv, AddressInv
  <2>. QED BY <1>5, <2>1, AskAddress
<1>10. WireInv'
  BY <1>5, AskWire DEF IInv
<1>11. FillInv'
  BY <1>5, AskFill DEF ListCalls
<1>. QED BY <1>8, <1>9, <1>10, <1>11 DEF IInv

\* The other calls of the library have no list.
LEMMA OtherCallsFill ==
  ASSUME SetOptions \/ Listen \/ Send \/ CallOwn \/ AskPeerInfo \/ ParseNotification
  PROVE  FillInv'
<1>1. \E f, a : f \notin ListCalls /\ Ask(f, a)
  <2>1. CASE SetOptions
    BY <2>1 DEF SetOptions, ListCalls
  <2>2. CASE Listen
    BY <2>2 DEF Listen, ListCalls
  <2>3. CASE Send
    BY <2>3 DEF Send, ListCalls
  <2>4. CASE CallOwn
    <3>1. DOMAIN OwnCalls \cap ListCalls = {}
      BY DEF OwnCalls, ListCalls
    <3>. QED BY <2>4, <3>1 DEF CallOwn
  <2>5. CASE AskPeerInfo
    BY <2>5 DEF AskPeerInfo, ListCalls
  <2>6. CASE ParseNotification
    BY <2>6 DEF ParseNotification, ListCalls
  <2>. QED BY <2>1, <2>2, <2>3, <2>4, <2>5, <2>6
<1>. QED BY <1>1, AskFill

-------------------------------------------------------------------------------
(* The wrapper and the native function.                                    *)

LEMMA WrapperThrowsStep == ASSUME IInv, WrapperThrows PROVE IInv'
<1>1. /\ phase = "wrapper" /\ phase' = "idle" /\ outcome' = "threw" /\ ~Asserted
      /\ UNCHANGED <<fn, args, packed, capacity, left, answer, local, remote, wire, asked, written>>
  BY DEF WrapperThrows, callVars, listVars, kernelVars, observed
<1>2. \E p \in DOMAIN args : args[p] = Wrong
  BY <1>1 DEF IInv, ArgsInv, KindsFit, Asserted
<1>3. ArgsInv'
  BY <1>1, <1>2 DEF ArgsInv, NeverAborts
<1>4. FillInv'
  BY <1>1 DEF IInv, FillInv
<1>5. AddressInv'
  BY <1>1 DEF IInv, AddressInv, PackInv, SplitInv, AddressesReadBack
<1>6. WireInv'
  BY <1>1 DEF IInv, WireInv, ReceivedAsSent
<1>. QED BY <1>3, <1>4, <1>5, <1>6 DEF IInv

LEMMA ListRows == DOMAIN NativeOfLists = ListCalls
BY DEF NativeOfLists, ListCalls

LEMMA NativeReadsStep == ASSUME IInv, NativeReads PROVE IInv'
<1>1. Readable
  BY PassedIsReadable DEF NativeReads, IInv, ArgsInv
<1>2. /\ phase = "wrapper"
      /\ given' = [p \in {q \in DOMAIN args : args[q].kind = "number"} |->
                    Cast(Native[fn][p], args[p].value)]
      /\ \/ fn \in ListCalls /\ phase' = "fill" /\ left' = args.sockaddrs.value
         \/ fn \notin ListCalls /\ phase' = "kernel" /\ UNCHANGED left
      /\ UNCHANGED <<fn, args, packed, capacity, answer, outcome, local, remote, wire, asked, written>>
  BY <1>1, ListRows DEF NativeReads, kernelVars, observed
<1>3. ArgsInv'
  BY <1>2 DEF IInv, ArgsInv, NeverAborts, NotificationFits
<1>4. FillInv'
  BY <1>2 DEF IInv, FillInv
<1>5. AddressInv'
  <2>1. fn \in ListCalls => Packs(args.sockaddrs.value, Asked)
    BY <1>2 DEF IInv, AddressInv, PackInv
  <2>2. fn \in ListCalls => Packs(args.sockaddrs.value, Asked)'
    BY <1>2, <2>1 DEF Asked, Packs
  <2>3. packed' = <<>> /\ answer' = <<>>
    BY <1>2 DEF IInv, AddressInv, PackInv
  <2>4. fn \in ListCalls => Len(args.sockaddrs.value) \in Nat
    BY <2>1 DEF Packs
  <2>5. PackInv'
    <3>1. CASE fn \in ListCalls
      BY <1>2, <2>2, <2>3, <2>4, <3>1 DEF PackInv, Filled
    <3>2. CASE fn \notin ListCalls
      BY <1>2, <3>2 DEF PackInv
    <3>. QED BY <3>1, <3>2
  <2>. QED BY <1>2, <2>3, <2>5 DEF IInv, AddressInv, SplitInv, AddressesReadBack
<1>6. WireInv'
  <2>1. ASSUME fn = "sctp_sendv"
        PROVE  given'.sid = args.sid.value % U16 /\ given'.ppid = Swap32(args.ppid.value % U32)
    <3>1. Native["sctp_sendv"].sid = "uint16" /\ Native["sctp_sendv"].ppid = "net32"
          /\ {"sid", "ppid"} \subseteq DOMAIN Native["sctp_sendv"]
      BY NativeTables DEF NativeOfTransfer
    <3>2. \A p \in {"sid", "ppid"} : p \in DOMAIN args /\ args[p].kind = "number"
      BY <1>1, <2>1, <3>1 DEF Readable, KindOf
    <3>3. Cast("uint16", args.sid.value) = args.sid.value % U16
      BY DEF Cast, Width
    <3>4. Cast("net32", args.ppid.value) = Swap32(args.ppid.value % U32)
      BY DEF Cast
    <3>5. given'["sid"] = Cast("uint16", args.sid.value) /\ given'["ppid"] = Cast("net32", args.ppid.value)
      BY <1>2, <2>1, <3>1, <3>2
    <3>. QED BY <3>3, <3>4, <3>5
  <2>. QED BY <1>2, <2>1 DEF IInv, WireInv, ReceivedAsSent
<1>. QED BY <1>3, <1>4, <1>5, <1>6 DEF IInv

LEMMA AddressFill == ASSUME FillInv, FillAddress PROVE FillInv'
<1>1. /\ left \in Seq(Seq(Nat)) /\ left # <<>> /\ packed \in Seq(Nat) /\ capacity \in Nat
      /\ Len(packed) =< capacity
  BY DEF FillAddress, FillInv
<1>2. Head(left) \in Seq(Nat) /\ Tail(left) \in Seq(Seq(Nat))
  BY <1>1
<1>3. packed' = packed \o Head(left) /\ left' = Tail(left) /\ phase' = "fill"
  BY DEF FillAddress
<1>4. packed' \in Seq(Nat) /\ Len(packed') = Required(Head(left))
  BY <1>1, <1>2, <1>3 DEF Required
<1>5. Required(Head(left)) \in Nat
  BY <1>1, <1>2 DEF Required
<1>6. capacity' = IF Required(Head(left)) > capacity THEN Required(Head(left)) + Slack ELSE capacity
  BY DEF FillAddress
<1>7. capacity' \in Nat /\ Len(packed') =< capacity'
  BY <1>1, <1>4, <1>5, <1>6 DEF Slack
<1>. QED BY <1>2, <1>3, <1>4, <1>7 DEF FillInv

LEMMA ConcatAt ==
  ASSUME NEW u \in Seq(Nat), NEW v \in Seq(Nat)
  PROVE  /\ u \o v \in Seq(Nat) /\ Len(u \o v) = Len(u) + Len(v)
         /\ \A k \in 1..Len(u) : (u \o v)[k] = u[k]
         /\ \A k \in 1..Len(v) : (u \o v)[Len(u) + k] = v[k]
OBVIOUS

LEMMA PacksBytes ==
  ASSUME NEW s, NEW side, Packs(s, side), NEW i \in 1..Len(s)
  PROVE  s[i] \in Seq(Nat) /\ Len(s[i]) = 16 /\ side[i] \in Addresses
<1>1. /\ side \in Seq(Addresses) /\ i \in 1..Len(side)
      /\ s[i] = Format(side[i].host, side[i].port) \/ s[i] = Format(side[i].host, 0)
  BY DEF Packs
<1>2. side[i] \in Addresses
  BY <1>1, ElementOfSeq, Zenon
<1>3. side[i].host \in Seq(Nat) /\ Len(side[i].host) = 4 /\ side[i].port \in Nat /\ 0 \in Nat
  BY <1>2, AddressParts
<1>4. /\ Format(side[i].host, side[i].port) \in Seq(Nat) /\ Len(Format(side[i].host, side[i].port)) = 16
      /\ Format(side[i].host, 0) \in Seq(Nat) /\ Len(Format(side[i].host, 0)) = 16
  BY <1>3, FormatBytes, Zenon
<1>. QED BY <1>1, <1>2, <1>4, Zenon

\* One more address behind n of them.
LEMMA FillAddressPacks == ASSUME IInv, FillAddress PROVE PackInv'
<1>. DEFINE s == args.sockaddrs.value
            d == Len(s) - Len(left)
            h == Head(left)
<1>1. /\ phase = "fill" /\ fn \in ListCalls /\ Packs(s, Asked) /\ left # <<>>
      /\ left \in Seq(Seq(Nat)) /\ packed \in Seq(Nat)
      /\ Len(left) <= Len(s) /\ Filled(d)
      /\ \A i \in 1..Len(left) : left[i] = s[d + i]
  BY DEF FillAddress, IInv, FillInv, AddressInv, PackInv
<1>2. /\ phase' = "fill" /\ packed' = packed \o h /\ left' = Tail(left)
      /\ UNCHANGED <<fn, args, asked>>
  BY DEF FillAddress, callVars, observed
<1>3. Len(s) \in Nat /\ Len(left) \in Nat /\ Len(left) > 0 /\ d \in Nat /\ d + 1 <= Len(s)
  BY <1>1 DEF Packs
<1>4. h = s[d + 1]
  <2>1. h = left[1] /\ 1 \in 1..Len(left)
    BY <1>1, <1>3
  <2>. QED BY <1>1, <2>1, Zenon
<1>5. h \in Seq(Nat) /\ Len(h) = 16
  <2>1. d + 1 \in 1..Len(s)
    BY <1>3
  <2>2. s[d + 1] \in Seq(Nat) /\ Len(s[d + 1]) = 16
    BY <1>1, <2>1, PacksBytes, Zenon
  <2>. QED BY <1>4, <2>2, Zenon
<1>6. /\ Len(left') = Len(left) - 1
      /\ \A i \in 1..(Len(left) - 1) : left'[i] = left[i + 1]
  BY <1>1, <1>2, <1>3
<1>. HIDE DEF h
<1>7. /\ packed' \in Seq(Nat) /\ Len(packed') = Len(packed) + Len(h)
      /\ \A k \in 1..Len(packed) : packed'[k] = packed[k]
      /\ \A k \in 1..Len(h) : packed'[Len(packed) + k] = h[k]
  <2>1. packed \in Seq(Nat) /\ packed' = packed \o h
    BY <1>1, <1>2
  <2>. QED BY <1>5, <2>1, ConcatAt, Zenon
<1>8. /\ Len(packed) = 16 * d
      /\ \A i \in 1..d, j \in 1..16 : packed[16 * (i - 1) + j] = s[i][j]
  BY <1>1 DEF Filled
<1>9. Asked' = Asked
  BY <1>2 DEF Asked
<1>10. Len(s) - Len(left') = d + 1 /\ Len(left') <= Len(s)
  BY <1>1, <1>3, <1>6
<1>. HIDE DEF s, d
<1>11. Len(packed') = 16 * (d + 1)
  BY <1>3, <1>5, <1>7, <1>8
<1>12. ASSUME NEW i \in 1..(d + 1), NEW j \in 1..16 PROVE packed'[16 * (i - 1) + j] = s[i][j]
  <2>1. CASE i = d + 1
    <3>1. 16 * (i - 1) + j = Len(packed) + j /\ j \in 1..Len(h)
      BY <1>3, <1>5, <1>8, <2>1
    <3>. QED BY <1>4, <1>7, <2>1, <3>1, Zenon
  <2>2. CASE i # d + 1
    <3>1. i \in 1..d /\ 16 * (i - 1) + j \in 1..(16 * d)
      BY <1>3, <2>2
    <3>2. 16 * (i - 1) + j \in 1..Len(packed)
      BY <1>8, <3>1, Zenon
    <3>. QED BY <1>7, <1>8, <3>1, <3>2, Zenon
  <2>. QED BY <2>1, <2>2
<1>13. ASSUME NEW i \in 1..Len(left') PROVE left'[i] = s[d + 1 + i]
  <2>1. i + 1 \in 1..Len(left) /\ i \in 1..(Len(left) - 1) /\ d + (i + 1) = d + 1 + i
    BY <1>3, <1>6
  <2>. QED BY <1>1, <1>6, <2>1, Zenon
<1>14. s = args'.sockaddrs.value
  BY <1>2 DEF s
<1>15. PackInv'
  <2>1. Filled(Len(args.sockaddrs.value) - Len(left))'
    BY <1>10, <1>11, <1>12, <1>14 DEF Filled
  <2>2. \A i \in 1..Len(left') : left'[i] = s[Len(s) - Len(left') + i]
    BY <1>10, <1>13
  <2>3. Len(left') <= Len(s)
    BY <1>10
  <2>4. Packs(s, Asked')
    BY <1>1, <1>9, Zenon
  <2>. QED BY <1>1, <1>2, <1>14, <2>1, <2>2, <2>3, <2>4, Zenon DEF PackInv
<1>. QED BY <1>15

LEMMA FillAddressStep == ASSUME IInv, FillAddress PROVE IInv'
<1>1. /\ phase = "fill" /\ UNCHANGED <<phase, fn, args, given, answer, outcome, local, remote, wire, asked, written>>
  BY DEF FillAddress, callVars, kernelVars, observed
<1>2. FillInv'
  BY AddressFill DEF IInv
<1>3. ArgsInv'
  BY <1>1 DEF IInv, ArgsInv, NeverAborts
<1>4. AddressInv'
  BY <1>1, FillAddressPacks DEF IInv, AddressInv, SplitInv, AddressesReadBack
<1>5. WireInv'
  BY <1>1 DEF IInv, WireInv, ReceivedAsSent
<1>. QED BY <1>2, <1>3, <1>4, <1>5 DEF IInv

LEMMA FillDoneStep == ASSUME IInv, FillDone PROVE IInv'
<1>1. /\ phase = "fill" /\ phase' = "kernel" /\ left = <<>>
      /\ UNCHANGED <<fn, args, given, packed, capacity, left, answer, outcome, local, remote, wire, asked, written>>
  BY DEF FillDone, callVars, listVars, kernelVars, observed
<1>2. fn \in ListCalls
  BY <1>1 DEF IInv, AddressInv, PackInv
<1>3. fn # "parse_sctp_notification" /\ fn # "sctp_sendv"
  BY <1>2 DEF ListCalls
<1>4. FillInv'
  BY <1>1 DEF IInv, FillInv
<1>5. ArgsInv'
  BY <1>1, <1>3 DEF IInv, ArgsInv, NeverAborts
<1>6. PackInv'
  <2>1. Packs(args.sockaddrs.value, Asked) /\ Filled(Len(args.sockaddrs.value) - Len(left))
    BY <1>1, <1>2 DEF IInv, AddressInv, PackInv
  <2>2. Len(args.sockaddrs.value) - Len(left) = Len(args.sockaddrs.value)
    BY <1>1, <2>1 DEF Packs
  <2>3. Filled(Len(args.sockaddrs.value))'
    BY <1>1, <2>1, <2>2 DEF Filled
  <2>4. Packs(args.sockaddrs.value, Asked)'
    BY <1>1, <2>1 DEF Packs, Asked
  <2>. QED BY <1>1, <1>2, <2>3, <2>4 DEF PackInv
<1>7. AddressInv'
  BY <1>1, <1>6 DEF IInv, AddressInv, SplitInv, AddressesReadBack
<1>8. WireInv'
  BY <1>1, <1>3 DEF IInv, WireInv, ReceivedAsSent
<1>. QED BY <1>4, <1>5, <1>7, <1>8 DEF IInv

-------------------------------------------------------------------------------
(* The kernel answers, or the split of its answer ends.                    *)

\* A return leaves what no call is about to read; what remains to be shown is
\* about the kernel's addresses, the message on its way and what is returned.
LEMMA ReturnStep ==
  ASSUME IInv, phase' = "idle", outcome' \in {"errno", "value"},
         UNCHANGED <<callVars, packed, capacity, asked>>,
         local' \in {<<>>, asked'.local}, remote' \in {<<>>, asked'.remote},
         AddressesReadBack',
         wire' # <<>> =>
           /\ written'.sid \in Nat /\ written'.ppid \in Nat
           /\ wire' = [sid |-> written'.sid % U16, ppid |-> Swap32(written'.ppid % U32)],
         ReceivedAsSent'
  PROVE  IInv'
<1>1. UNCHANGED <<fn, args, given>>
  BY DEF callVars
<1>2. FillInv'
  BY DEF IInv, FillInv
<1>3. ArgsInv'
  BY DEF ArgsInv, NeverAborts
<1>4. AddressInv'
  <2>1. asked' \in [local : Seq(Addresses), remote : Seq(Addresses)]
    BY DEF IInv, AddressInv
  <2>. QED BY <2>1 DEF AddressInv, PackInv, SplitInv
<1>5. WireInv'
  BY DEF WireInv
<1>. QED BY <1>2, <1>3, <1>4, <1>5 DEF IInv

\* A failure returns nothing.
LEMMA KernelFailsStep == ASSUME IInv, KernelFails PROVE IInv'
<1>1. /\ phase' = "idle" /\ outcome' = "errno"
      /\ UNCHANGED <<callVars, packed, capacity, asked, local, remote, wire, written>>
  BY DEF KernelFails, Return, listVars, kernelVars, observed
<1>2. AddressesReadBack' /\ ReceivedAsSent'
  BY <1>1 DEF AddressesReadBack, ReceivedAsSent
<1>. QED BY <1>1, <1>2, ReturnStep DEF IInv, AddressInv, WireInv

LEMMA KernelDoesStep == ASSUME IInv, KernelDoes PROVE IInv'
<1>1. /\ phase' = "idle" /\ outcome' = "value"
      /\ UNCHANGED <<callVars, packed, capacity, asked, written>>
      /\ \/ UNCHANGED <<local, remote, wire>>
         \/ local' = <<>> /\ remote' = <<>> /\ wire' = <<>>
      /\ fn \notin {"sctp_recvv", "getsockname", "getpeername", "sctp_getladdrs", "sctp_getpaddrs",
                    "parse_sctp_notification"}
  BY DEF KernelDoes, Return, listVars, kernelVars, observed
<1>2. AddressesReadBack' /\ ReceivedAsSent'
  BY <1>1 DEF AddressesReadBack, ReceivedAsSent, callVars
<1>. QED BY <1>1, <1>2, ReturnStep DEF IInv, AddressInv, WireInv

LEMMA KernelSendsStep == ASSUME IInv, KernelSends PROVE IInv'
<1>1. /\ phase = "kernel" /\ fn = "sctp_sendv" /\ phase' = "idle" /\ outcome' = "value"
      /\ wire' = [sid |-> given.sid, ppid |-> given.ppid]
      /\ UNCHANGED <<callVars, packed, capacity, asked, local, remote, written>>
  BY DEF KernelSends, Return, listVars, observed
<1>2. AddressesReadBack' /\ ReceivedAsSent'
  BY <1>1 DEF AddressesReadBack, ReceivedAsSent, callVars
<1>3. /\ given.sid = args.sid.value % U16 /\ given.ppid = Swap32(args.ppid.value % U32)
      /\ args.sid.value \in Nat /\ args.ppid.value \in Nat
      /\ written = [sid |-> args.sid.value, ppid |-> args.ppid.value]
  BY <1>1 DEF IInv, WireInv
<1>4. /\ written'.sid \in Nat /\ written'.ppid \in Nat
      /\ wire' = [sid |-> written'.sid % U16, ppid |-> Swap32(written'.ppid % U32)]
  BY <1>1, <1>3
<1>. QED BY <1>1, <1>2, <1>4, ReturnStep DEF IInv, AddressInv

\* Two bytes, and four, in reverse and in reverse again.
LEMMA SwapTwice ==
  ASSUME NEW n \in 0..(U16 - 1)
  PROVE  Swap16(n) \in 0..(U16 - 1) /\ Swap16(Swap16(n)) = n
BY NativeAssumption DEF Swap16, U16

LEMMA Halves ==
  ASSUME NEW n \in 0..(U32 - 1)
  PROVE  /\ n % U16 \in 0..(U16 - 1) /\ n \div U16 \in 0..(U16 - 1)
         /\ (n \div U16) * U16 + (n % U16) = n
<1>1. \A b \in Nat : b > 0 => \A m \in 0..(b * b - 1) :
        /\ m % b \in 0..(b - 1) /\ m \div b \in 0..(b - 1)
        /\ (m \div b) * b + (m % b) = m
  OBVIOUS
<1>2. U16 \in Nat /\ U16 > 0 /\ U32 = U16 * U16
  BY SomePort, ByteIsNat DEF U32
<1>. QED BY <1>1, <1>2, Zenon

LEMMA Joins ==
  ASSUME NEW hi \in 0..(U16 - 1), NEW lo \in 0..(U16 - 1)
  PROVE  /\ (hi * U16 + lo) % U16 = lo /\ (hi * U16 + lo) \div U16 = hi
<1>1. \A b \in Nat : b > 0 => \A x \in 0..(b - 1), y \in 0..(b - 1) :
        (x * b + y) % b = y /\ (x * b + y) \div b = x
  OBVIOUS
<1>2. U16 \in Nat /\ U16 > 0
  BY SomePort, ByteIsNat
<1>. QED BY <1>1, <1>2, Zenon

\* htonl and ntohl undo each other.
LEMMA Swap32Twice ==
  ASSUME NEW n \in 0..(U32 - 1)
  PROVE  Swap32(Swap32(n)) = n
<1>. DEFINE lo == n % U16
            hi == n \div U16
            first == Swap16(lo)
            second == Swap16(hi)
            swapped == first * U16 + second
<1>1. lo \in 0..(U16 - 1) /\ hi \in 0..(U16 - 1) /\ hi * U16 + lo = n
  BY Halves
<1>2. Swap32(n) = swapped
  BY DEF Swap32
<1>. HIDE DEF lo, hi
<1>3. /\ first \in 0..(U16 - 1) /\ second \in 0..(U16 - 1)
      /\ Swap16(first) = lo /\ Swap16(second) = hi
  BY <1>1, SwapTwice
<1>. HIDE DEF first, second
<1>4. swapped % U16 = second /\ swapped \div U16 = first
  BY <1>3, Joins
<1>. HIDE DEF swapped
<1>5. Swap32(swapped) = hi * U16 + lo
  BY <1>3, <1>4 DEF Swap32
<1>. QED BY <1>1, <1>2, <1>5

LEMMA KernelReceivesStep == ASSUME IInv, KernelReceives PROVE IInv'
<1>1. /\ fn = "sctp_recvv" /\ phase' = "idle" /\ outcome' = "value" /\ wire # <<>>
      /\ answer' = [sid |-> wire.sid, ppid |-> Swap32(wire.ppid)] /\ wire' = <<>>
      /\ UNCHANGED <<callVars, packed, capacity, asked, local, remote, written>>
  BY DEF KernelReceives, ReadAttributes, Return, listVars, observed
<1>2. AddressesReadBack'
  BY <1>1 DEF AddressesReadBack, callVars
<1>3. /\ written.sid \in Nat /\ written.ppid \in Nat
      /\ wire.sid = written.sid % U16 /\ wire.ppid = Swap32(written.ppid % U32)
  BY <1>1 DEF IInv, WireInv
<1>4. written.sid < U16 => answer'.sid = written.sid
  <2>1. \A m, b \in Nat : m < b => m % b = m
    OBVIOUS
  <2>2. U16 \in Nat
    BY ByteIsNat
  <2>. QED BY <1>1, <1>3, <2>1, <2>2
<1>5. ASSUME written.ppid < U32 PROVE answer'.ppid = written.ppid
  <2>1. written.ppid \in 0..(U32 - 1) /\ U32 \in Nat
    BY <1>3, <1>5, ByteIsNat DEF U32
  <2>2. written.ppid % U32 = written.ppid
    BY <2>1
  <2>3. Swap32(Swap32(written.ppid)) = written.ppid
    BY <2>1, Swap32Twice
  <2>. QED BY <1>1, <1>3, <2>2, <2>3
<1>6. ReceivedAsSent'
  BY <1>1, <1>4, <1>5 DEF ReceivedAsSent, callVars
<1>. QED BY <1>1, <1>2, <1>6, ReturnStep DEF IInv, AddressInv

\* What is read in a notification is what the kernel wrote.
LEMMA NotificationParsedStep == ASSUME IInv, NotificationParsed PROVE IInv'
<1>. DEFINE n == args.notification.value
<1>1. phase = "kernel" /\ fn = "parse_sctp_notification" /\ NotificationFits(n)
  BY DEF NotificationParsed, IInv, ArgsInv
<1>2. /\ phase' = "idle" /\ outcome' = "value" /\ answer' = Interpret(n)
      /\ UNCHANGED <<callVars, packed, capacity, asked, local, remote, wire, written>>
  BY <1>1 DEF NotificationParsed, NotificationFits, Return, listVars, kernelVars, observed
<1>3. AddressesReadBack'
  BY <1>1, <1>2 DEF AddressesReadBack, callVars
<1>. HIDE DEF n
<1>4. ASSUME n.type \in DOMAIN States
      PROVE  /\ <<n.type, n.state>> = <<"SCTP_ASSOC_CHANGE", CannotStart>> \/ Interpret(n).name = n.state
             /\ n.type = "SCTP_PEER_ADDR_CHANGE" => Interpret(n).address = KernelAddress(n.spc_aaddr).host
  <2>1. n.type \in DOMAIN Named
    BY <1>4 DEF States, Named
  <2>2. n.state \in Named[n.type] \/ (n.type = "SCTP_ASSOC_CHANGE" /\ n.state = CannotStart)
    <3>1. n.state \in States[n.type]
      BY <1>1, <1>4 DEF NotificationFits
    <3>. QED BY <1>4, <3>1 DEF States, Named, CannotStart
  <2>3. Parse(n.spc_aaddr).host = KernelAddress(n.spc_aaddr).host
    BY DEF Parse, KernelAddress, Address
  <2>4. Interpret(n).name = IF n.state \in Named[n.type] THEN n.state ELSE "???"
    BY <2>1 DEF Interpret
  <2>5. n.type = "SCTP_PEER_ADDR_CHANGE" => Interpret(n).address = Parse(n.spc_aaddr).host
    BY <2>1 DEF Interpret
  <2>. QED BY <2>2, <2>3, <2>4, <2>5, Zenon
<1>5. ReceivedAsSent'
  BY <1>1, <1>2, <1>4 DEF ReceivedAsSent, callVars, n
<1>. QED BY <1>2, <1>3, <1>5, ReturnStep DEF IInv, AddressInv, WireInv

LEMMA EntryBounds ==
  ASSUME NEW i \in Nat, i > 0, NEW n \in Nat, n >= 16 * i
  PROVE  /\ (i - 1) * 16 + 1 \in Int /\ i * 16 \in Int
         /\ i * 16 - ((i - 1) * 16 + 1) + 1 = 16 /\ (i - 1) * 16 + 1 <= i * 16
         /\ (i - 1) * 16 + 1 > 0 /\ i * 16 <= n
OBVIOUS

\* A part of a sequence.
LEMMA PartOf ==
  ASSUME NEW m \in Seq(Nat), NEW from \in Int, NEW to \in Int,
         from > 0, to <= Len(m), from <= to + 1
  PROVE  /\ SubSeq(m, from, to) \in Seq(Nat) /\ Len(SubSeq(m, from, to)) = to - from + 1
         /\ \A j \in 1..(to - from + 1) : SubSeq(m, from, to)[j] = m[from + j - 1]
<1>1. ASSUME NEW k \in from..to PROVE m[k] \in Nat
  <2>1. k \in 1..Len(m)
    OBVIOUS
  <2>. QED BY <2>1, ElementOfSeq, Zenon
<1>. QED BY <1>1, SubSeqProperties

\* The kernel reads the i-th of the addresses in memory as it was formatted.
LEMMA EntryReads ==
  ASSUME NEW m \in Seq(Nat), NEW i \in Nat, i > 0, Len(m) >= 16 * i, NEW a \in Addresses,
         \A j \in 1..16 : m[16 * (i - 1) + j] = Format(a.host, a.port)[j]
  PROVE  KernelAddress(EntryOf(m, i)) = a
<1>. DEFINE from == (i - 1) * 16 + 1
            to == i * 16
            entry == SubSeq(m, from, to)
            f == Format(a.host, a.port)
<1>0. Len(m) \in Nat
  OBVIOUS
<1>1. /\ from \in Int /\ to \in Int /\ to - from + 1 = 16 /\ from <= to
      /\ from > 0 /\ to <= Len(m)
  BY <1>0, EntryBounds, Zenon
<1>2. \A j \in 1..16 : from + j - 1 = 16 * (i - 1) + j
  OBVIOUS
<1>3. \A j \in 1..16 : m[16 * (i - 1) + j] = f[j]
  OBVIOUS
<1>. HIDE DEF from, to, f
<1>5. /\ entry \in Seq(Nat) /\ Len(entry) = 16
      /\ \A j \in 1..16 : entry[j] = m[from + j - 1]
  <2>1. from <= to + 1
    BY <1>1
  <2>2. /\ entry \in Seq(Nat) /\ Len(entry) = to - from + 1
        /\ \A j \in 1..(to - from + 1) : entry[j] = m[from + j - 1]
    BY <1>1, <2>1, PartOf, Zenon
  <2>. QED BY <1>1, <2>2, Zenon
<1>. HIDE DEF entry
<1>6. Len(entry) >= 16
  BY <1>1, <1>5
<1>7. \A j \in 1..16 : entry[j] = f[j]
  BY <1>1, <1>2, <1>3, <1>5
<1>8. KernelAddress(entry) = a
  BY <1>5, <1>6, <1>7, ParsePrefix, Zenon DEF f
<1>. QED BY <1>8 DEF EntryOf, SockaddrLength, entry, from, to

\* An address without a port, as the others of bindx's list have it.
LEMMA WithoutPort ==
  ASSUME NEW a \in Addresses
  PROVE  Address(a.host, 0) \in Addresses /\ Address(a.host, 0).host = a.host /\ Address(a.host, 0).port = 0
BY SomePort DEF Addresses, Address

\* The kernel makes of the array the addresses that were asked for.
LEMMA KernelReadsAsked ==
  ASSUME FillInv, NEW side, Packs(args.sockaddrs.value, side), Filled(Len(args.sockaddrs.value))
  PROVE  KernelReads(packed, Len(args.sockaddrs.value)) = side
<1>. DEFINE s == args.sockaddrs.value
            Entry(i) == KernelAddress(EntryOf(packed, i))
<1>1. /\ side \in Seq(Addresses) /\ Len(s) = Len(side) /\ Len(side) \in Nat
      /\ \A i \in 1..Len(side) :
           /\ side[i].port = side[1].port
           /\ s[i] = Format(side[i].host, side[i].port) \/ (i > 1 /\ s[i] = Format(side[i].host, 0))
  BY LenProperties DEF Packs
<1>2. /\ packed \in Seq(Nat) /\ Len(packed) = 16 * Len(side)
      /\ \A i \in 1..Len(side), j \in 1..16 : packed[16 * (i - 1) + j] = s[i][j]
  BY <1>1 DEF FillInv, Filled
<1>. HIDE DEF s
<1>3. ASSUME NEW i \in 1..Len(side), NEW a \in Addresses, s[i] = Format(a.host, a.port)
      PROVE  Entry(i) = a
  <2>1. i \in Nat /\ i > 0 /\ Len(packed) >= 16 * i
    BY <1>1, <1>2
  <2>2. \A j \in 1..16 : packed[16 * (i - 1) + j] = Format(a.host, a.port)[j]
    BY <1>2, <1>3, Zenon
  <2>. QED BY <1>2, <2>1, <2>2, EntryReads, Zenon
<1>4. ASSUME NEW i \in 1..Len(side)
      PROVE  /\ side[i] \in Addresses
             /\ Entry(i) = side[i] \/ (i > 1 /\ Entry(i) = Address(side[i].host, 0))
  <2>1. side[i] \in Addresses
    BY <1>1, ElementOfSeq, Zenon
  <2>2. CASE s[i] = Format(side[i].host, side[i].port)
    BY <1>3, <2>1, <2>2, Zenon
  <2>3. CASE i > 1 /\ s[i] = Format(side[i].host, 0)
    <3>. DEFINE bare == Address(side[i].host, 0)
    <3>1. bare \in Addresses /\ s[i] = Format(bare.host, bare.port)
      BY <2>1, <2>3, WithoutPort, Zenon
    <3>2. Entry(i) = bare
      BY <1>3, <3>1, Zenon
    <3>. QED BY <2>1, <2>3, <3>2, Zenon
  <2>. QED BY <1>1, <2>2, <2>3, Zenon
<1>5. ASSUME NEW i \in 1..Len(side)
      PROVE  (IF Entry(i).port = 0 THEN Address(Entry(i).host, Entry(1).port) ELSE Entry(i)) = side[i]
  <2>1. 1 \in 1..Len(side) /\ ~(1 > 1)
    BY <1>1
  <2>2. Entry(1) = side[1]
    BY <1>4, <2>1, Zenon
  <2>3. side[i] = Address(side[i].host, side[i].port) /\ side[i].port = side[1].port
    BY <1>1, <1>4, AddressParts, Zenon
  <2>4. CASE Entry(i) = side[i]
    BY <2>2, <2>3, <2>4, Zenon
  <2>5. CASE Entry(i) = Address(side[i].host, 0)
    <3>1. Entry(i).port = 0 /\ Entry(i).host = side[i].host
      BY <1>4, <2>5, WithoutPort, Zenon
    <3>. QED BY <2>2, <2>3, <3>1, Zenon
  <2>. QED BY <1>4, <2>4, <2>5, Zenon
<1>. DEFINE taken == [i \in 1..Len(side) |->
                        IF Entry(i).port = 0 THEN Address(Entry(i).host, Entry(1).port) ELSE Entry(i)]
<1>6. KernelReads(packed, Len(side)) = taken
  BY Zenon DEF KernelReads
<1>. HIDE DEF Entry
<1>7. taken = side
  <2>1. side = [i \in 1..Len(side) |-> side[i]]
    BY <1>1
  <2>2. taken = [i \in 1..Len(side) |-> side[i]]
    BY <1>5, Zenon
  <2>. QED BY <2>1, <2>2, Zenon
<1>. QED BY <1>1, <1>6, <1>7, Zenon DEF s

LEMMA KernelTakesAddressesStep == ASSUME IInv, KernelTakesAddresses PROVE IInv'
<1>1. /\ phase = "kernel" /\ fn \in ListCalls /\ phase' = "idle" /\ outcome' = "value"
      /\ UNCHANGED <<callVars, packed, capacity, asked, wire, written>>
  BY ListRows DEF KernelTakesAddresses, Return, listVars, observed
<1>2. KernelReads(packed, Len(args.sockaddrs.value)) = Asked
  BY <1>1, KernelReadsAsked DEF IInv, AddressInv, PackInv
<1>3. \/ local' = asked.local /\ UNCHANGED remote
      \/ remote' = asked.remote /\ UNCHANGED local
  BY <1>1, <1>2 DEF KernelTakesAddresses, Asked
<1>4. local' \in {<<>>, asked'.local} /\ remote' \in {<<>>, asked'.remote}
  BY <1>1, <1>3 DEF IInv, AddressInv
<1>5. AddressesReadBack' /\ ReceivedAsSent'
  BY <1>1 DEF AddressesReadBack, ReceivedAsSent, callVars, ListCalls
<1>. QED BY <1>1, <1>4, <1>5, ReturnStep DEF IInv, WireInv

LEMMA KernelNamesStep == ASSUME IInv, KernelNames PROVE IInv'
<1>1. /\ phase' = "idle" /\ outcome' = "value"
      /\ UNCHANGED <<callVars, packed, capacity, asked, local, remote, wire, written>>
  BY DEF KernelNames, Return, listVars, kernelVars, observed
<1>2. PICK side \in {local, remote} :
        /\ side # <<>>
        /\ <<fn, side>> \in {<<"getsockname", local>>, <<"getpeername", remote>>}
        /\ answer' = <<Parse(KernelSockaddr(side[1]) \o Zeros(48))>>
  BY DEF KernelNames
<1>3. side[1] \in Addresses
  <2>1. side \in Seq(Addresses)
    BY SidesAreSeqs DEF IInv
  <2>. QED BY <1>2, <2>1
<1>4. answer' = <<side[1]>>
  <2>1. 48 \in Nat
    OBVIOUS
  <2>2. Parse(KernelSockaddr(side[1]) \o Zeros(48)) = side[1]
    BY <1>3, <2>1, PaddedParses, Zenon
  <2>. QED BY <1>2, <2>2, Zenon
<1>5. \/ fn = "getsockname" /\ side = asked.local
      \/ fn = "getpeername" /\ side = asked.remote
  <2>1. \/ fn = "getsockname" /\ side = local
        \/ fn = "getpeername" /\ side = remote
    BY <1>2
  <2>. QED BY <1>2, <2>1 DEF IInv, AddressInv
<1>6. AddressesReadBack' /\ ReceivedAsSent'
  BY <1>1, <1>4, <1>5 DEF AddressesReadBack, ReceivedAsSent, callVars
<1>. QED BY <1>1, <1>6, ReturnStep DEF IInv, AddressInv, WireInv

LEMMA EntryPlace ==
  ASSUME NEW n \in Nat, NEW i \in 1..n, NEW j \in 1..16
  PROVE  /\ 16 * (i - 1) + j \in 1..(16 * n)
         /\ ((16 * (i - 1) + j - 1) \div 16) + 1 = i
         /\ ((16 * (i - 1) + j - 1) % 16) + 1 = j
OBVIOUS

LEMMA PlaceEntry ==
  ASSUME NEW n \in Nat, NEW k \in 1..(16 * n)
  PROVE  /\ ((k - 1) \div 16) + 1 \in 1..n
         /\ ((k - 1) % 16) + 1 \in 1..16
OBVIOUS

\* The kernel's array has the bytes of the addresses, one after the other.
LEMMA FlattenBytes ==
  ASSUME NEW side \in Seq(Addresses)
  PROVE  /\ Flatten(side) \in Seq(Nat) /\ Len(Flatten(side)) = 16 * Len(side)
         /\ \A i \in 1..Len(side), j \in 1..16 :
              Flatten(side)[16 * (i - 1) + j] = Format(side[i].host, side[i].port)[j]
<1>. DEFINE n == Len(side)
            Byte16(i, j) == KernelSockaddr(side[i])[j]
            bytes == [k \in 1..(16 * n) |-> Byte16(((k - 1) \div 16) + 1, ((k - 1) % 16) + 1)]
<1>1. n \in Nat
  OBVIOUS
<1>2. ASSUME NEW i \in 1..n, NEW j \in 1..16
      PROVE  Byte16(i, j) \in Nat /\ Byte16(i, j) = Format(side[i].host, side[i].port)[j]
  <2>. DEFINE f == Format(side[i].host, side[i].port)
  <2>1. side[i] \in Addresses
    BY ElementOfSeq, Zenon
  <2>2. KernelSockaddr(side[i]) = f
    BY <2>1, KernelFormats, Zenon
  <2>3. f \in Seq(Nat) /\ Len(f) = 16
    BY <2>1, AddressParts, FormatBytes, Zenon
  <2>. HIDE DEF f
  <2>4. f[j] \in Nat
    BY <2>3, ElementOfSeq
  <2>. QED BY <2>2, <2>4 DEF f
<1>3. Flatten(side) = bytes
  BY DEF Flatten, SockaddrLength
<1>. HIDE DEF n, Byte16
<1>4. ASSUME NEW k \in 1..(16 * n) PROVE bytes[k] \in Nat
  <2>1. ((k - 1) \div 16) + 1 \in 1..n /\ ((k - 1) % 16) + 1 \in 1..16
    BY <1>1, PlaceEntry, Zenon
  <2>. QED BY <1>2, <2>1, Zenon
<1>5. 16 * n \in Nat
  BY <1>1
<1>6. bytes \in [1..(16 * n) -> Nat]
  BY <1>4
<1>7. ASSUME NEW i \in 1..n, NEW j \in 1..16
      PROVE  bytes[16 * (i - 1) + j] = Format(side[i].host, side[i].port)[j]
  <2>. DEFINE k == 16 * (i - 1) + j
  <2>1. k \in 1..(16 * n) /\ ((k - 1) \div 16) + 1 = i /\ ((k - 1) % 16) + 1 = j
    BY <1>1, EntryPlace
  <2>. HIDE DEF k
  <2>2. bytes[k] = Byte16(i, j)
    BY <2>1, Zenon
  <2>. QED BY <1>2, <2>2, Zenon DEF k
<1>. HIDE DEF bytes
<1>8. bytes \in Seq(Nat) /\ Len(bytes) = 16 * n
  <2>. DEFINE N == 16 * n
  <2>. HIDE DEF N
  <2>1. N \in Nat /\ bytes \in [1..N -> Nat]
    BY <1>5, <1>6 DEF N
  <2>2. bytes \in Seq(Nat) /\ Len(bytes) = N
    BY <2>1
  <2>. QED BY <2>2 DEF N
<1>. QED BY <1>3, <1>7, <1>8, Zenon DEF n

LEMMA KernelListsStep == ASSUME IInv, KernelLists PROVE IInv'
<1>1. /\ phase = "kernel" /\ phase' = "split" /\ answer = <<>>
      /\ UNCHANGED <<fn, args, given, packed, capacity, answer, outcome, local, remote, wire, asked, written>>
  BY DEF KernelLists, callVars, kernelVars, observed, IInv, AddressInv
<1>2. /\ fn \in {"sctp_getladdrs", "sctp_getpaddrs"} /\ Side # <<>> /\ left' = Flatten(Side)
  BY DEF KernelLists, Side
<1>3. Side \in Seq(Addresses) /\ Side' = Side
  BY <1>1, SidesAreSeqs DEF Side, IInv
<1>4. SplitInv'
  <2>1. /\ left' \in Seq(Nat) /\ Len(left') = 16 * Len(Side)
        /\ \A i \in 1..Len(Side), j \in 1..16 :
             left'[16 * (i - 1) + j] = Format(Side[i].host, Side[i].port)[j]
    BY <1>2, <1>3, FlattenBytes, Zenon
  <2>2. Len(Side) \in Nat /\ Len(Side) - 0 = Len(Side) /\ \A i \in 1..Len(Side) : 0 + i = i
    BY <1>3
  <2>3. answer' = <<>> /\ answer' \in Seq(Addresses) /\ Len(answer') = 0
    BY <1>1
  <2>4. /\ Len(answer') <= Len(Side)
        /\ \A i \in 1..Len(answer') : answer'[i] = Side[i]
        /\ Len(left') = 16 * (Len(Side) - Len(answer'))
    BY <2>1, <2>2, <2>3
  <2>5. ASSUME NEW i \in 1..(Len(Side) - Len(answer')), NEW j \in 1..16
        PROVE  left'[16 * (i - 1) + j] = Format(Side[Len(answer') + i].host, Side[Len(answer') + i].port)[j]
    <3>1. i \in 1..Len(Side) /\ Len(answer') + i = i
      BY <2>2, <2>3
    <3>. QED BY <2>1, <3>1, Zenon
  <2>6. fn' \in {"sctp_getladdrs", "sctp_getpaddrs"} /\ Side' # <<>>
    BY <1>1, <1>2, <1>3
  <2>7. /\ Len(answer') <= Len(Side') /\ \A i \in 1..Len(answer') : answer'[i] = Side'[i]
        /\ Len(left') = 16 * (Len(Side') - Len(answer'))
        /\ \A i \in 1..(Len(Side') - Len(answer')), j \in 1..16 :
             LET a == Side'[Len(answer') + i] IN left'[16 * (i - 1) + j] = Format(a.host, a.port)[j]
    BY <1>3, <2>4, <2>5
  <2>. QED BY <2>1, <2>3, <2>6, <2>7, Zenon DEF SplitInv
<1>5. ArgsInv'
  BY <1>1 DEF IInv, ArgsInv, NeverAborts
<1>6. FillInv'
  BY <1>1 DEF IInv, FillInv
<1>7. AddressInv'
  BY <1>1, <1>4 DEF IInv, AddressInv, PackInv, AddressesReadBack
<1>8. WireInv'
  BY <1>1 DEF IInv, WireInv, ReceivedAsSent
<1>. QED BY <1>5, <1>6, <1>7, <1>8 DEF IInv

LEMMA RestPlace ==
  ASSUME NEW m \in Nat, NEW i \in 1..(m - 1), NEW j \in 1..16
  PROVE  /\ 16 * (i - 1) + j \in 1..(16 * m - (16 + 1) + 1) /\ i + 1 \in 1..m
         /\ (16 + 1) + (16 * (i - 1) + j) - 1 = 16 * ((i + 1) - 1) + j
OBVIOUS

\* One address less to be split.
LEMMA SplitOne ==
  ASSUME NEW side \in Seq(Addresses), NEW bytes \in Seq(Nat), bytes # <<>>, NEW n \in Nat, n <= Len(side),
         Len(bytes) = 16 * (Len(side) - n),
         \A i \in 1..(Len(side) - n), j \in 1..16 :
           bytes[16 * (i - 1) + j] = Format(side[n + i].host, side[n + i].port)[j]
  PROVE  /\ n + 1 <= Len(side) /\ Parses(bytes) /\ Parse(bytes) = side[n + 1]
         /\ SubSeq(bytes, 16 + 1, Len(bytes)) \in Seq(Nat)
         /\ Len(SubSeq(bytes, 16 + 1, Len(bytes))) = 16 * (Len(side) - (n + 1))
         /\ \A i \in 1..(Len(side) - (n + 1)), j \in 1..16 :
              SubSeq(bytes, 16 + 1, Len(bytes))[16 * (i - 1) + j] = Format(side[n + 1 + i].host, side[n + 1 + i].port)[j]
<1>. DEFINE m == Len(side) - n
            At(i) == side[n + i]
            rest == SubSeq(bytes, 16 + 1, Len(bytes))
<1>1. Len(side) \in Nat /\ Len(bytes) \in Nat /\ Len(bytes) # 0
  OBVIOUS
<1>2. m \in Nat /\ m > 0 /\ Len(bytes) = 16 * m /\ n + 1 <= Len(side)
  BY <1>1
<1>3. \A i \in 1..m : At(i) \in Addresses
  <2>1. \A i \in 1..m : n + i \in 1..Len(side)
    BY <1>1
  <2>. QED BY <2>1, ElementOfSeq, Zenon
<1>4. \A i \in 1..m, j \in 1..16 : bytes[16 * (i - 1) + j] = Format(At(i).host, At(i).port)[j]
  OBVIOUS
<1>5. m - 1 = Len(side) - (n + 1)
  BY <1>1
<1>6. \A i \in 1..(m - 1) : At(i + 1) = side[n + 1 + i]
  BY <1>1
<1>. HIDE DEF m, At
<1>7. 1 \in 1..m /\ Len(bytes) >= 16 /\ \A j \in 1..16 : 16 * (1 - 1) + j = j
  BY <1>2
<1>8. ASSUME NEW j \in 1..16 PROVE bytes[j] = Format(At(1).host, At(1).port)[j]
  <2>1. bytes[16 * (1 - 1) + j] = Format(At(1).host, At(1).port)[j]
    BY <1>4, <1>7, Zenon
  <2>2. 16 * (1 - 1) + j = j
    OBVIOUS
  <2>. QED BY <2>1, <2>2
<1>9. Parses(bytes) /\ Parse(bytes) = At(1)
  BY <1>3, <1>7, <1>8, ParsePrefix, Zenon
<1>10. /\ rest \in Seq(Nat) /\ Len(rest) = Len(bytes) - (16 + 1) + 1
       /\ \A k \in 1..(Len(bytes) - (16 + 1) + 1) : rest[k] = bytes[(16 + 1) + k - 1]
  <2>1. 16 + 1 \in Int /\ Len(bytes) \in Int /\ 16 + 1 > 0 /\ Len(bytes) <= Len(bytes) /\ 16 + 1 <= Len(bytes) + 1
    BY <1>1, <1>7
  <2>. QED BY <2>1, PartOf, Zenon
<1>. HIDE DEF rest
<1>11. ASSUME NEW i \in 1..(m - 1), NEW j \in 1..16
       PROVE  rest[16 * (i - 1) + j] = Format(At(i + 1).host, At(i + 1).port)[j]
  <2>1. /\ 16 * (i - 1) + j \in 1..(16 * m - (16 + 1) + 1) /\ i + 1 \in 1..m
        /\ (16 + 1) + (16 * (i - 1) + j) - 1 = 16 * ((i + 1) - 1) + j
    BY <1>2, RestPlace, Zenon
  <2>2. rest[16 * (i - 1) + j] = bytes[16 * ((i + 1) - 1) + j]
    BY <1>2, <1>10, <2>1, Zenon
  <2>. QED BY <1>4, <2>1, <2>2, Zenon
<1>12. Len(rest) = 16 * (m - 1)
  <2>1. Len(rest) = 16 * m - (16 + 1) + 1
    BY <1>2, <1>10, Zenon
  <2>2. \A x \in Nat : 16 * x - (16 + 1) + 1 = 16 * (x - 1)
    OBVIOUS
  <2>. QED BY <1>2, <2>1, <2>2, Zenon
<1>13. ASSUME NEW i \in 1..(m - 1), NEW j \in 1..16
       PROVE  rest[16 * (i - 1) + j] = Format(side[n + 1 + i].host, side[n + 1 + i].port)[j]
  BY <1>6, <1>11, Zenon
<1>. QED BY <1>2, <1>5, <1>9, <1>10, <1>12, <1>13 DEF At, rest

LEMMA SplitAddressStep == ASSUME IInv, SplitAddress PROVE IInv'
<1>. DEFINE n == Len(answer)
<1>1. /\ phase = "split" /\ left # <<>>
      /\ UNCHANGED <<fn, args, given, packed, capacity, outcome, local, remote, wire, asked, written>>
  BY DEF SplitAddress, callVars, kernelVars, observed
<1>2. /\ fn \in {"sctp_getladdrs", "sctp_getpaddrs"} /\ Side # <<>>
      /\ answer \in Seq(Addresses) /\ left \in Seq(Nat) /\ n <= Len(Side)
      /\ \A i \in 1..n : answer[i] = Side[i]
      /\ Len(left) = 16 * (Len(Side) - n)
      /\ \A i \in 1..(Len(Side) - n), j \in 1..16 :
           left[16 * (i - 1) + j] = Format(Side[n + i].host, Side[n + i].port)[j]
  BY <1>1 DEF IInv, AddressInv, SplitInv
<1>3. Side \in Seq(Addresses) /\ Side' = Side
  BY <1>1, SidesAreSeqs DEF Side, IInv
<1>. DEFINE rest == SubSeq(left, 16 + 1, Len(left))
<1>4. n \in Nat
  BY <1>2
<1>5. /\ n + 1 <= Len(Side) /\ Parses(left) /\ Parse(left) = Side[n + 1]
      /\ rest \in Seq(Nat) /\ Len(rest) = 16 * (Len(Side) - (n + 1))
      /\ \A i \in 1..(Len(Side) - (n + 1)), j \in 1..16 :
           rest[16 * (i - 1) + j] = Format(Side[n + 1 + i].host, Side[n + 1 + i].port)[j]
  <2>1. Side \in Seq(Addresses) /\ left \in Seq(Nat) /\ left # <<>> /\ n \in Nat /\ n <= Len(Side)
    BY <1>1, <1>2, <1>3, <1>4
  <2>2. Len(left) = 16 * (Len(Side) - n)
    BY <1>2
  <2>3. \A i \in 1..(Len(Side) - n), j \in 1..16 :
           left[16 * (i - 1) + j] = Format(Side[n + i].host, Side[n + i].port)[j]
    BY <1>2
  <2>. HIDE DEF n
  <2>. QED BY <2>1, <2>2, <2>3, SplitOne, Zenon
<1>6. phase' = "split" /\ answer' = Append(answer, Side[n + 1]) /\ left' = rest
  BY <1>1, <1>5 DEF SplitAddress, SockaddrLength
<1>. HIDE DEF rest
<1>7. Side[n + 1] \in Addresses
  BY <1>3, <1>4, <1>5
<1>8. /\ answer' \in Seq(Addresses) /\ Len(answer') = n + 1
      /\ \A i \in 1..(n + 1) : answer'[i] = Side[i]
  BY <1>2, <1>6, <1>7
<1>9. SplitInv'
  <2>1. /\ Len(answer') <= Len(Side') /\ \A i \in 1..Len(answer') : answer'[i] = Side'[i]
        /\ Len(left') = 16 * (Len(Side') - Len(answer'))
        /\ \A i \in 1..(Len(Side') - Len(answer')), j \in 1..16 :
             LET a == Side'[Len(answer') + i] IN left'[16 * (i - 1) + j] = Format(a.host, a.port)[j]
    <3>. HIDE DEF n
    <3>1. Len(answer') <= Len(Side') /\ \A i \in 1..Len(answer') : answer'[i] = Side'[i]
      BY <1>3, <1>5, <1>8, Zenon
    <3>2. Len(Side') - Len(answer') = Len(Side) - (n + 1)
      BY <1>3, <1>8, Zenon
    <3>3. \A i \in 1..(Len(Side) - (n + 1)), j \in 1..16 :
            LET a == Side'[Len(answer') + i] IN left'[16 * (i - 1) + j] = Format(a.host, a.port)[j]
      BY <1>3, <1>5, <1>6, <1>8, Zenon
    <3>. QED BY <1>5, <1>6, <3>1, <3>2, <3>3, Zenon
  <2>2. fn' \in {"sctp_getladdrs", "sctp_getpaddrs"} /\ Side' # <<>>
    BY <1>1, <1>2, <1>3
  <2>. QED BY <1>5, <1>6, <1>8, <2>1, <2>2, Zenon DEF SplitInv
<1>10. ArgsInv'
  BY <1>1, <1>2, <1>6 DEF IInv, ArgsInv, NeverAborts
<1>11. FillInv'
  BY <1>1, <1>6 DEF IInv, FillInv
<1>12. AddressInv'
  BY <1>1, <1>6, <1>9 DEF IInv, AddressInv, PackInv, AddressesReadBack
<1>13. WireInv'
  BY <1>1, <1>2, <1>6 DEF IInv, WireInv, ReceivedAsSent
<1>. QED BY <1>10, <1>11, <1>12, <1>13 DEF IInv

\* When nothing is left to be split, the answer is all of the side.
LEMMA SplitDoneStep == ASSUME IInv, SplitDone PROVE IInv'
<1>1. /\ phase = "split" /\ left = <<>> /\ phase' = "idle" /\ outcome' = "value"
      /\ UNCHANGED <<callVars, packed, capacity, answer, asked, local, remote, wire, written>>
  BY DEF SplitDone, Return, listVars, kernelVars, observed
<1>2. /\ fn \in {"sctp_getladdrs", "sctp_getpaddrs"} /\ Side # <<>>
      /\ answer \in Seq(Addresses) /\ Len(answer) <= Len(Side)
      /\ \A i \in 1..Len(answer) : answer[i] = Side[i]
      /\ Len(left) = 16 * (Len(Side) - Len(answer))
  BY <1>1 DEF IInv, AddressInv, SplitInv
<1>3. Side \in Seq(Addresses)
  BY SidesAreSeqs DEF Side, IInv
<1>4. Len(answer) = Len(Side)
  BY <1>1, <1>2, <1>3
<1>5. answer = Side
  <2>. HIDE DEF Side
  <2>. QED BY <1>2, <1>3, <1>4, SeqEqual
<1>6. answer = IF fn = "sctp_getladdrs" THEN asked.local ELSE asked.remote
  BY <1>2, <1>5 DEF Side, IInv, AddressInv
<1>7. AddressesReadBack' /\ ReceivedAsSent'
  BY <1>1, <1>2, <1>6 DEF AddressesReadBack, ReceivedAsSent, callVars
<1>. QED BY <1>1, <1>7, ReturnStep DEF IInv, AddressInv, WireInv

-------------------------------------------------------------------------------
(* Nothing but the outcome changes.                                        *)

LEMMA FormatThrowsStep == ASSUME IInv, FormatThrows PROVE IInv'
<1>1. /\ phase = "idle" /\ phase' = "idle" /\ outcome' = "threw" /\ fn' = "none" /\ answer' = <<>>
      /\ UNCHANGED <<args, given, packed, capacity, left, local, remote, wire, asked, written>>
  BY DEF FormatThrows, listVars, kernelVars, observed
<1>2. ArgsInv'
  BY <1>1 DEF ArgsInv, NeverAborts
<1>3. FillInv'
  BY <1>1 DEF IInv, FillInv
<1>4. AddressInv'
  BY <1>1 DEF IInv, AddressInv, PackInv, SplitInv, AddressesReadBack
<1>5. WireInv'
  BY <1>1 DEF IInv, WireInv, ReceivedAsSent
<1>. QED BY <1>2, <1>3, <1>4, <1>5 DEF IInv

LEMMA StutterStep == ASSUME IInv, UNCHANGED vars PROVE IInv'
<1>1. UNCHANGED <<phase, fn, args, given, packed, capacity, left, answer, outcome,
                  local, remote, wire, asked, written>>
  BY DEF vars, callVars, listVars, kernelVars, observed
<1>2. FillInv'
  BY <1>1 DEF IInv, FillInv
<1>3. ArgsInv'
  BY <1>1 DEF IInv, ArgsInv, KindsFit, NotificationFits, NeverAborts
<1>4. AddressInv'
  <2>1. Asked' = Asked /\ Side' = Side
    BY <1>1 DEF Asked, Side
  <2>2. PackInv'
    BY <1>1, <2>1 DEF IInv, AddressInv, PackInv, Packs, Filled
  <2>3. SplitInv'
    BY <1>1, <2>1 DEF IInv, AddressInv, SplitInv
  <2>. QED BY <1>1, <2>2, <2>3 DEF IInv, AddressInv, AddressesReadBack
<1>5. WireInv'
  BY <1>1 DEF IInv, WireInv, ReceivedAsSent
<1>. QED BY <1>2, <1>3, <1>4, <1>5 DEF IInv

-------------------------------------------------------------------------------
LEMMA InitIInv == ASSUME Init PROVE IInv
<1>1. FillInv
  BY DEF Init, FillInv
<1>2. ArgsInv
  BY DEF Init, ArgsInv, NeverAborts
<1>3. AddressInv
  BY DEF Init, AddressInv, PackInv, SplitInv, AddressesReadBack
<1>4. WireInv
  BY DEF Init, WireInv, ReceivedAsSent
<1>. QED BY <1>1, <1>2, <1>3, <1>4 DEF IInv

LEMMA NextIInv == ASSUME IInv, [Next]_vars PROVE IInv'
<1>1. CASE SetOptions \/ Listen \/ CallOwn \/ AskPeerInfo
  BY <1>1, PlainStep, OtherCallsFill DEF IInv
<1>2. CASE Send
  BY <1>2, SendStep, OtherCallsFill DEF IInv
<1>3. CASE Bind \/ Connect \/ ParseNotification
  BY <1>3, BindStep, ConnectStep, ParseNotificationStep
<1>4. CASE FormatThrows \/ WrapperThrows \/ NativeReads \/ FillAddress \/ FillDone
  BY <1>4, FormatThrowsStep, WrapperThrowsStep, NativeReadsStep, FillAddressStep, FillDoneStep
<1>5. CASE KernelFails \/ KernelTakesAddresses \/ KernelSends \/ KernelReceives \/ KernelNames
  BY <1>5, KernelFailsStep, KernelTakesAddressesStep, KernelSendsStep, KernelReceivesStep, KernelNamesStep
<1>6. CASE KernelLists \/ SplitAddress \/ SplitDone \/ KernelDoes \/ NotificationParsed
  BY <1>6, KernelListsStep, SplitAddressStep, SplitDoneStep, KernelDoesStep, NotificationParsedStep
<1>7. CASE UNCHANGED vars
  BY <1>7, StutterStep
<1>. QED BY <1>1, <1>2, <1>3, <1>4, <1>5, <1>6, <1>7 DEF Next

\* Everything the invariant says holds in every state of a call.
THEOREM Invariant == Spec => []IInv
<1>. QED BY InitIInv, NextIInv, PTL DEF Spec

\* Packing a list of addresses never writes behind the allocated array, for
\* lists of any length.
THEOREM PackingStaysWithin == Spec => []WithinCapacity
<1>1. IInv => WithinCapacity
  BY DEF IInv, FillInv, WithinCapacity
<1>. QED BY <1>1, Invariant, PTL

\* No call of the library makes main.c abort the process, whatever the
\* application gives; a call throws only when the application gave a wrong kind.
THEOREM NoCallAborts == Spec => []NeverAborts
<1>1. IInv => NeverAborts
  BY DEF IInv, ArgsInv
<1>. QED BY <1>1, Invariant, PTL

\* Addresses given to bindx and connectx are formatted, packed, read by the
\* kernel, written by it, split and parsed, and come back as they were given.
THEOREM AddressesComeBack == Spec => []AddressesReadBack
<1>1. IInv => AddressesReadBack
  BY DEF IInv, AddressInv
<1>. QED BY <1>1, Invariant, PTL

\* The stream and the payload protocol of a message survive the casts and the
\* byte orders on their way, and a notification is read as it was written.
THEOREM ReceivedIsSent == Spec => []ReceivedAsSent
<1>1. IInv => ReceivedAsSent
  BY DEF IInv, WireInv
<1>. QED BY <1>1, Invariant, PTL

===============================================================================

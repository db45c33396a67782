--------------------------- MODULE DuplexAddresses ----------------------------
(***************************************************************************)
(* The address properties of the duplex (src/lib/socket-duplex.js):        *)
(* updateAddressProperties asks the kernel four questions, one after the   *)
(* other, while the kernel may change its answers, and turns them into     *)
(* localAddress(es), remoteAddress(es) and the "address-change" event, and *)
(* asks about each remote address.  It runs when the duplex is created,    *)
(* when it becomes connected, on an SCTP_PEER_ADDR_CHANGE notification,    *)
(* and on a timer.                                                         *)
(*                                                                         *)
(* A list of addresses is modelled as the set of its members: the kernel's *)
(* lists have no duplicates.  The kernel is external; at any instant its   *)
(* primary address is one of its addresses.                                *)
(***************************************************************************)
EXTENDS Naturals, FiniteSets

CONSTANTS Addresses,   \* addresses, on either side
          Undefined,   \* JavaScript's undefined
          MaxChanges   \* bound: changes of the kernel's addresses

ASSUME AddressAssumption == /\ Addresses # {}
                            /\ IsFiniteSet(Addresses)
                            /\ Undefined \notin Addresses
                            /\ \A list \in SUBSET Addresses : Undefined # list
                            /\ MaxChanges \in Nat

VARIABLES
  \* the kernel
  local, remote,   \* records of a primary address and the set of addresses
  assoc,           \* "none", "up" or "gone"
  changes,
  \* socket-duplex.js
  connected,
  initialRemoteAddress,
  gathered,        \* the answers so far, in the order of the questions
  localAddress, localAddresses, remoteAddress, remoteAddresses,
  peerInfoByAddress,  \* for an address: the kernel knew it when it was asked
  pc,              \* "idle", or the question that comes next, or "apply"
  changed,         \* the update under way changed a property
  created,         \* the first update is over
  threw,           \* updateAddressProperties threw
  \* observation
  announced        \* the properties at creation or the last "address-change"

kernelVars == <<local, remote, assoc, changes>>
properties == <<localAddress, localAddresses, remoteAddress, remoteAddresses>>
infoVars == <<peerInfoByAddress, changed>>
vars == <<kernelVars, connected, initialRemoteAddress, gathered, properties, infoVars, pc, created,
          threw, announced>>

Ends == {e \in [primary : Addresses, list : SUBSET Addresses] : e.primary \in e.list}

MaybeAddress == Addresses \cup {Undefined}
MaybeList == {Undefined} \cup SUBSET Addresses
Properties == MaybeAddress \X MaybeList \X MaybeAddress \X MaybeList
NothingGathered == [localPrimary |-> Undefined, locals |-> Undefined,
                    remotePrimary |-> Undefined, remotes |-> Undefined]

TypeOK ==
  /\ local \in Ends /\ remote \in Ends
  /\ assoc \in {"none", "up", "gone"}
  /\ changes \in 0..MaxChanges
  /\ connected \in BOOLEAN /\ created \in BOOLEAN /\ threw \in BOOLEAN
  /\ initialRemoteAddress \in Addresses
  /\ gathered \in [localPrimary : MaybeAddress, locals : MaybeList,
                   remotePrimary : MaybeAddress, remotes : MaybeList]
  /\ properties \in Properties /\ announced \in Properties
  /\ pc \in {"idle", "getsockname", "getladdrs", "getpeername", "getpaddrs", "apply", "peerinfo"}
  /\ peerInfoByAddress \in UNION {[asked -> BOOLEAN] : asked \in SUBSET Addresses}
  /\ changed \in BOOLEAN
  /\ created => localAddress # Undefined /\ localAddresses # Undefined

\* A client's duplex, whose handshake has begun; or an accepted one, whose
\* initial remote address accept() returned.
Init ==
  /\ local \in Ends /\ remote \in Ends
  /\ connected \in BOOLEAN
  /\ assoc = IF connected THEN "up" ELSE "none"
  /\ changes = 0
  /\ initialRemoteAddress \in IF connected THEN {remote.primary} ELSE Addresses
  /\ gathered = NothingGathered
  /\ localAddress = Undefined /\ localAddresses = Undefined
  /\ remoteAddress = Undefined /\ remoteAddresses = Undefined
  /\ peerInfoByAddress = <<>> /\ changed = FALSE
  /\ pc = "getsockname"
  /\ created = FALSE /\ threw = FALSE
  /\ announced = properties

-------------------------------------------------------------------------------
\* What the kernel answers about the remote side; ENOTCONN (or EINVAL) counts
\* as undefined.
PeerName == IF assoc = "up" THEN remote.primary ELSE Undefined
PeerAddresses == IF assoc = "up" THEN remote.list ELSE Undefined

Ask(question, next, field, answer) ==
  /\ pc = question
  /\ pc' = next
  /\ gathered' = [gathered EXCEPT ![field] = answer]
  /\ UNCHANGED <<kernelVars, connected, initialRemoteAddress, properties, infoVars, created, threw, announced>>

\* gatherLocalAddresses
GatherLocal == \/ Ask("getsockname", "getladdrs", "localPrimary", local.primary)
               \/ Ask("getladdrs", "getpeername", "locals", local.list)

\* gatherRemoteAddresses
GatherRemote == \/ Ask("getpeername", "getpaddrs", "remotePrimary", PeerName)
                \/ Ask("getpaddrs", "apply", "remotes", PeerAddresses)

\* Mutants: the pair is used without asking whether it fits together; the last
\* state is always kept.
DetermineRemoteUnchecked ==
  IF ~connected
    THEN <<initialRemoteAddress, {initialRemoteAddress}>>
  ELSE IF gathered.remotePrimary # Undefined /\ gathered.remotes # Undefined
    THEN <<gathered.remotePrimary, gathered.remotes>>
    ELSE <<remoteAddress, remoteAddresses>>
DetermineRemoteKeeping ==
  IF ~connected
    THEN <<initialRemoteAddress, {initialRemoteAddress}>>
    ELSE <<remoteAddress, remoteAddresses>>

\* determineRemoteAddressesToUse
DetermineRemote ==
  IF ~connected
    THEN <<initialRemoteAddress, {initialRemoteAddress}>>
  ELSE IF /\ gathered.remotePrimary # Undefined
          /\ gathered.remotes # Undefined
          /\ gathered.remotePrimary \in gathered.remotes
    THEN <<gathered.remotePrimary, gathered.remotes>>
    ELSE <<remoteAddress, remoteAddresses>>

\* Mutant: only the lengths are compared.
ArrayChangedLength(a, b) ==
  \/ (a = Undefined) # (b = Undefined)
  \/ a # Undefined /\ b # Undefined /\ Cardinality(a) # Cardinality(b)

\* arrayChanged
ArrayChanged(a, b) ==
  \/ (a = Undefined) # (b = Undefined)
  \/ /\ a # Undefined /\ b # Undefined
     /\ Cardinality(a) # Cardinality(b) \/ \E elem \in a : elem \notin b

\* The assignments of updateAddressProperties.  Then the remote addresses are
\* walked, which throws when there are none.
Apply ==
  LET used == DetermineRemote
  IN /\ pc = "apply"
     /\ localAddress' = gathered.localPrimary
     /\ localAddresses' = gathered.locals
     /\ remoteAddress' = used[1]
     /\ remoteAddresses' = used[2]
     /\ changed' = \/ gathered.localPrimary # localAddress
                   \/ ArrayChanged(gathered.locals, localAddresses)
                   \/ used[1] # remoteAddress
                   \/ ArrayChanged(used[2], remoteAddresses)
     /\ peerInfoByAddress' = <<>>
     /\ created' = TRUE
     /\ threw' = (used[2] = Undefined)
     /\ pc' = IF threw' THEN "idle" ELSE "peerinfo"
     /\ gathered' = NothingGathered
     /\ UNCHANGED <<kernelVars, connected, initialRemoteAddress, announced>>

\* retrievePeerAddressInfo, for one more address: undefined if the kernel has no
\* such address, or no association.
RetrievePeerInfo ==
  /\ pc = "peerinfo"
  /\ \E a \in remoteAddresses \ DOMAIN peerInfoByAddress :
       peerInfoByAddress' = [x \in DOMAIN peerInfoByAddress \cup {a} |->
                               IF x = a THEN assoc = "up" /\ a \in remote.list ELSE peerInfoByAddress[x]]
  /\ UNCHANGED <<kernelVars, connected, initialRemoteAddress, gathered, properties, changed, pc,
                 created, threw, announced>>

\* "address-change", if something did, and "peer-info-update".
Announce ==
  /\ pc = "peerinfo"
  /\ DOMAIN peerInfoByAddress = remoteAddresses
  /\ announced' = IF changed THEN properties ELSE announced
  /\ changed' = FALSE
  /\ pc' = "idle"
  /\ UNCHANGED <<kernelVars, connected, initialRemoteAddress, gathered, properties,
                 peerInfoByAddress, created, threw>>

\* The timer, or an SCTP_PEER_ADDR_CHANGE.
UpdateAgain ==
  /\ pc = "idle" /\ ~threw
  /\ pc' = "getsockname"
  /\ UNCHANGED <<kernelVars, connected, initialRemoteAddress, gathered, properties, infoVars, created,
                 threw, announced>>

\* The first SCTP_ASSOC_CHANGE, whether the association came up or not.
BecomesConnected ==
  /\ pc = "idle" /\ ~threw
  /\ ~connected
  /\ assoc # "none"
  /\ connected' = TRUE
  /\ pc' = "getsockname"
  /\ UNCHANGED <<kernelVars, initialRemoteAddress, gathered, properties, infoVars, created, threw, announced>>

-------------------------------------------------------------------------------
\* The kernel, at any time.
AddressesChange ==
  /\ changes < MaxChanges
  /\ changes' = changes + 1
  /\ \/ local' \in Ends /\ UNCHANGED remote
     \/ remote' \in Ends /\ UNCHANGED local
  /\ UNCHANGED <<assoc, connected, initialRemoteAddress, gathered, properties, infoVars, pc,
                 created, threw, announced>>

AssociationChanges ==
  /\ \/ assoc = "none" /\ assoc' \in {"up", "gone"}
     \/ assoc = "up" /\ assoc' = "gone"
  /\ UNCHANGED <<local, remote, changes, connected, initialRemoteAddress, gathered, properties,
                 infoVars, pc, created, threw, announced>>

Update == GatherLocal \/ GatherRemote \/ Apply \/ RetrievePeerInfo \/ Announce

Next == Update \/ UpdateAgain \/ BecomesConnected \/ AddressesChange \/ AssociationChanges

\* An update that has begun ends, the timer fires, and the notification of a
\* new association is received.
Fairness == WF_vars(Update) /\ WF_vars(UpdateAgain) /\ SF_vars(BecomesConnected)

Spec == Init /\ [][Next]_vars

FairSpec == Spec /\ Fairness

-------------------------------------------------------------------------------
\* The remote address is always one of the remote addresses, although the two
\* are asked for one after the other.
RemotePairFits == remoteAddresses # Undefined => remoteAddress \in remoteAddresses

\* Between updates the application knows what the properties are: they are as
\* they were at creation or at the last "address-change".
ChangesAnnounced == pc = "idle" /\ ~threw => announced = properties

\* When the kernel's addresses have settled and the association lives, the
\* properties end up equal to them, and each remote address has its information.
EventuallyCurrent ==
  <>[](\/ assoc # "up" \/ threw
       \/ /\ properties = <<local.primary, local.list, remote.primary, remote.list>>
          /\ pc = "idle" => peerInfoByAddress = [a \in remote.list |-> TRUE])

\* An update that cannot get the remote addresses keeps the last state.
LastStateKept == ~threw
===============================================================================

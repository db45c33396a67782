------------------------- MODULE DuplexAddressesProofs ------------------------
(***************************************************************************)
(* Proofs about DuplexAddresses.tla, for any finite set of addresses and   *)
(* any number of changes of the kernel's lists.  RemotePairFits is         *)
(* inductive alone; ChangesAnnounced rests on the exactness of             *)
(* arrayChanged, which compares lengths and looks for members in one       *)
(* direction only, and on types for it to apply to.                        *)
(***************************************************************************)
EXTENDS DuplexAddresses, FiniteSetTheorems, TLAPS

\* Lists are undefined or finite sets of addresses, wherever they are kept.
ListsOK ==
  /\ gathered \in [localPrimary : MaybeAddress, locals : MaybeList,
                   remotePrimary : MaybeAddress, remotes : MaybeList]
  /\ localAddresses \in MaybeList /\ remoteAddresses \in MaybeList
  /\ initialRemoteAddress \in Addresses
  /\ local \in Ends /\ remote \in Ends

\* What ChangesAnnounced says holds during an update too, but for one that changed
\* a property and is still busy with the peer's addresses; no update begins after
\* one that threw, and properties are compared before that walk.
Untold == pc = "peerinfo" /\ changed

ToldInv == /\ ~threw /\ ~Untold => announced = properties
           /\ threw => pc = "idle"

IInv == ListsOK /\ ToldInv

-------------------------------------------------------------------------------
\* arrayChanged is exact: two lists of the same length with the members of one in
\* the other are the same.
LEMMA ArrayChangedIsExact ==
  ASSUME NEW a \in MaybeList, NEW b \in MaybeList, ~ArrayChanged(a, b)
  PROVE  a = b
<1>1. CASE a = Undefined
  BY <1>1 DEF ArrayChanged
<1>2. CASE a # Undefined
  <2>1. b # Undefined /\ Cardinality(a) = Cardinality(b) /\ a \subseteq b
    BY <1>2 DEF ArrayChanged
  <2>2. IsFiniteSet(b)
    BY <2>1, AddressAssumption, FS_Subset DEF MaybeList
  <2>. QED BY <2>1, <2>2, FS_Subset
<1>. QED BY <1>1, <1>2

LEMMA InitLists == Init => IInv
<1>1. Init => Undefined \in MaybeList /\ Undefined \in MaybeAddress
  BY DEF MaybeList, MaybeAddress
<1>2. Init => initialRemoteAddress \in Addresses
  BY DEF Init, Ends
<1>3. Init => ListsOK
  BY <1>1, <1>2 DEF Init, ListsOK, NothingGathered
<1>4. Init => ToldInv
  BY DEF Init, ToldInv, Untold
<1>. QED BY <1>3, <1>4 DEF IInv

\* The kernel's answers.
LEMMA Answers ==
  ASSUME ListsOK
  PROVE  /\ local.primary \in MaybeAddress /\ local.list \in MaybeList
         /\ PeerName \in MaybeAddress /\ PeerAddresses \in MaybeList
BY DEF ListsOK, Ends, MaybeAddress, MaybeList, PeerName, PeerAddresses

LEMMA GatherKeeps ==
  ASSUME IInv, GatherLocal \/ GatherRemote
  PROVE  IInv' /\ UNCHANGED <<remoteAddress, remoteAddresses>>
<1>1. PICK question, next, field, answer :
        /\ Ask(question, next, field, answer)
        /\ \/ field \in {"localPrimary", "remotePrimary"} /\ answer \in MaybeAddress
           \/ field \in {"locals", "remotes"} /\ answer \in MaybeList
        /\ question # "idle" /\ question # "peerinfo" /\ next # "peerinfo"
  BY Answers, Zenon DEF IInv, GatherLocal, GatherRemote
<1>2. ListsOK'
  BY <1>1 DEF IInv, ListsOK, Ask, kernelVars, properties
<1>3. ToldInv' /\ UNCHANGED <<remoteAddress, remoteAddresses>>
  BY <1>1 DEF IInv, ToldInv, Untold, Ask, properties
<1>. QED BY <1>2, <1>3 DEF IInv

\* The remote addresses an update ends with fit together.
LEMMA ApplyFits == ASSUME RemotePairFits, Apply PROVE RemotePairFits'
<1>1. remoteAddress' = DetermineRemote[1] /\ remoteAddresses' = DetermineRemote[2]
  BY DEF Apply
<1>2. CASE ~connected
  BY <1>1, <1>2 DEF DetermineRemote, RemotePairFits
<1>3. CASE connected /\ gathered.remotePrimary # Undefined /\ gathered.remotes # Undefined
                     /\ gathered.remotePrimary \in gathered.remotes
  BY <1>1, <1>3 DEF DetermineRemote, RemotePairFits
<1>4. CASE connected /\ ~(gathered.remotePrimary # Undefined /\ gathered.remotes # Undefined
                          /\ gathered.remotePrimary \in gathered.remotes)
  BY <1>1, <1>4 DEF DetermineRemote, RemotePairFits
<1>. QED BY <1>2, <1>3, <1>4

\* An update that announces nothing has changed nothing.
LEMMA ApplyTells == ASSUME IInv, Apply PROVE IInv'
<1>1. DetermineRemote[2] \in MaybeList
  BY AddressAssumption DEF IInv, ListsOK, DetermineRemote, MaybeList
<1>2. Undefined \in MaybeList /\ Undefined \in MaybeAddress
  BY DEF MaybeList, MaybeAddress
<1>3. ListsOK'
  <2>1. gathered' = NothingGathered /\ localAddresses' = gathered.locals
        /\ remoteAddresses' = DetermineRemote[2]
        /\ UNCHANGED <<local, remote, initialRemoteAddress>>
    BY DEF Apply, kernelVars
  <2>. QED BY <1>1, <1>2, <2>1 DEF IInv, ListsOK, NothingGathered
<1>4. ~threw
  BY DEF IInv, ToldInv, Apply
<1>5. ~threw' /\ ~Untold' => announced' = properties'
  <2>1. SUFFICES ASSUME ~threw', ~Untold' PROVE announced' = properties'
    OBVIOUS
  <2>2. pc' = "peerinfo" /\ ~changed' /\ announced' = announced
    BY <2>1 DEF Apply, Untold
  <2>3. /\ gathered.localPrimary = localAddress
        /\ ~ArrayChanged(gathered.locals, localAddresses)
        /\ DetermineRemote[1] = remoteAddress
        /\ ~ArrayChanged(DetermineRemote[2], remoteAddresses)
    BY <2>2, Zenon DEF Apply
  <2>4. gathered.locals = localAddresses
    BY <2>3, ArrayChangedIsExact DEF IInv, ListsOK
  <2>5. DetermineRemote[2] = remoteAddresses
    BY <1>1, <2>3, ArrayChangedIsExact DEF IInv, ListsOK
  <2>6. properties' = properties
    BY <2>3, <2>4, <2>5 DEF Apply, properties
  <2>7. announced = properties
    BY <1>4 DEF IInv, ToldInv, Untold, Apply
  <2>. QED BY <2>2, <2>6, <2>7
<1>6. threw' => pc' = "idle"
  BY DEF Apply
<1>. QED BY <1>3, <1>5, <1>6 DEF IInv, ToldInv

\* The walk over the peer's addresses leaves the properties alone, and its end
\* announces what changed.
LEMMA WalkKeeps ==
  ASSUME IInv, RetrievePeerInfo \/ Announce
  PROVE  IInv' /\ UNCHANGED <<remoteAddress, remoteAddresses>>
<1>1. CASE RetrievePeerInfo
  BY <1>1 DEF RetrievePeerInfo, IInv, ListsOK, ToldInv, Untold, kernelVars, properties
<1>2. CASE Announce
  <2>1. ListsOK' /\ UNCHANGED properties
    BY <1>2 DEF Announce, IInv, ListsOK, kernelVars, properties
  <2>2. ToldInv'
    BY <1>2, <2>1 DEF Announce, IInv, ToldInv, Untold
  <2>. QED BY <2>1, <2>2 DEF IInv, properties
<1>. QED BY <1>1, <1>2

LEMMA NextKeeps ==
  ASSUME IInv, RemotePairFits, [Next]_vars
  PROVE  IInv' /\ RemotePairFits'
<1>1. CASE GatherLocal \/ GatherRemote
  BY <1>1, GatherKeeps DEF RemotePairFits
<1>2. CASE Apply
  BY <1>2, ApplyFits, ApplyTells
<1>3. CASE UpdateAgain
  BY <1>3 DEF UpdateAgain, IInv, ListsOK, ToldInv, Untold, RemotePairFits, kernelVars, properties, infoVars
<1>4. CASE BecomesConnected
  BY <1>4 DEF BecomesConnected, IInv, ListsOK, ToldInv, Untold, RemotePairFits, kernelVars, properties, infoVars
<1>5. CASE AddressesChange
  BY <1>5 DEF AddressesChange, IInv, ListsOK, ToldInv, Untold, RemotePairFits, properties, infoVars
<1>6. CASE AssociationChanges
  BY <1>6 DEF AssociationChanges, IInv, ListsOK, ToldInv, Untold, RemotePairFits, properties, infoVars
<1>7. CASE UNCHANGED vars
  BY <1>7 DEF vars, IInv, ListsOK, ToldInv, Untold, RemotePairFits, kernelVars, properties, infoVars
<1>8. CASE RetrievePeerInfo \/ Announce
  BY <1>8, WalkKeeps DEF RemotePairFits
<1>. QED BY <1>1, <1>2, <1>3, <1>4, <1>5, <1>6, <1>7, <1>8 DEF Next, Update

LEMMA Invariant == Spec => [](IInv /\ RemotePairFits)
<1>1. Init => RemotePairFits
  BY DEF Init, RemotePairFits
<1>. QED BY <1>1, InitLists, NextKeeps, PTL DEF Spec

-------------------------------------------------------------------------------
\* remoteAddress is one of remoteAddresses, whatever the kernel answers to the two
\* questions and however its answers change in between.
THEOREM RemotePairAlwaysFits == Spec => []RemotePairFits
BY Invariant, PTL

\* Between updates the application knows the properties: an update that emits no
\* "address-change" has changed nothing.
THEOREM EveryChangeIsAnnounced == Spec => []ChangesAnnounced
<1>1. IInv => ChangesAnnounced
  BY DEF IInv, ToldInv, Untold, ChangesAnnounced
<1>. QED BY <1>1, Invariant, PTL
-------------------------------------------------------------------------------
(* The information about the peer's addresses.                             *)

\* Between walks each remote address has an answer, and no other has.
InfoComplete ==
  created /\ ~threw /\ pc # "peerinfo" => DOMAIN peerInfoByAddress = remoteAddresses

\* During a walk the addresses that were asked about are remote addresses; there
\* are some, and finitely many, so that the walk ends.
WalkInv ==
  pc = "peerinfo" => /\ remoteAddresses # Undefined
                     /\ DOMAIN peerInfoByAddress \subseteq remoteAddresses

LEMMA InfoStep ==
  ASSUME InfoComplete, WalkInv, [Next]_vars
  PROVE  InfoComplete' /\ WalkInv'
<1>1. CASE GatherLocal \/ GatherRemote
  <2>1. PICK question, next, field, answer :
          /\ Ask(question, next, field, answer)
          /\ question # "peerinfo" /\ next # "peerinfo"
    BY <1>1, Zenon DEF GatherLocal, GatherRemote
  <2>. QED BY <2>1 DEF Ask, InfoComplete, WalkInv, properties, infoVars
<1>2. CASE Apply
  <2>1. CASE threw'
    BY <1>2, <2>1 DEF Apply, InfoComplete, WalkInv
  <2>2. CASE ~threw'
    <3>1. pc' = "peerinfo" /\ peerInfoByAddress' = <<>> /\ remoteAddresses' # Undefined
      BY <1>2, <2>2, Zenon DEF Apply
    <3>2. DOMAIN peerInfoByAddress' = {}
      BY <3>1
    <3>. QED BY <3>1, <3>2 DEF InfoComplete, WalkInv
  <2>. QED BY <2>1, <2>2
<1>3. CASE RetrievePeerInfo
  <2>1. PICK a \in remoteAddresses \ DOMAIN peerInfoByAddress :
          DOMAIN peerInfoByAddress' = DOMAIN peerInfoByAddress \cup {a}
    BY <1>3 DEF RetrievePeerInfo
  <2>2. pc = "peerinfo" /\ UNCHANGED <<pc, remoteAddresses, created, threw>>
    BY <1>3 DEF RetrievePeerInfo, properties
  <2>. QED BY <2>1, <2>2 DEF InfoComplete, WalkInv
<1>4. CASE Announce
  BY <1>4 DEF Announce, InfoComplete, WalkInv, properties
<1>5. CASE UpdateAgain \/ BecomesConnected
  BY <1>5 DEF UpdateAgain, BecomesConnected, InfoComplete, WalkInv, properties, infoVars
<1>6. CASE AddressesChange \/ AssociationChanges \/ UNCHANGED vars
  BY <1>6 DEF AddressesChange, AssociationChanges, vars, InfoComplete, WalkInv, properties, infoVars
<1>. QED BY <1>1, <1>2, <1>3, <1>4, <1>5, <1>6 DEF Next, Update

\* When no walk is under way, the duplex has asked about every one of its remote
\* addresses and keeps no answer about an address that it has no longer.
THEOREM InfoIsComplete == Spec => []InfoComplete
<1>1. Init => InfoComplete /\ WalkInv
  BY DEF Init, InfoComplete, WalkInv
<1>. QED BY <1>1, InfoStep, PTL DEF Spec
===============================================================================

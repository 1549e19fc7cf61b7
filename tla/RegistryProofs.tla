--------------------------- MODULE RegistryProofs ---------------------------
(***************************************************************************)
(* The three registries, each over the one before, for any wallets, names, *)
(* devices, hashes, limits and legacy contents: IdentityRegistry,          *)
(* DeviceRegistry and SessionRegistry.                                     *)
(***************************************************************************)
EXTENDS SessionRegistry, FiniteSetTheorems, TLAPS

-----------------------------------------------------------------------------
(*****************************************************************************)
(* IdentityRegistry.  ControllerInverse is not inductive alone: a transfer   *)
(* clears the entry of the old controller, so records must be known to hold  *)
(* a real address, and unregistered names to hold the empty record.          *)
(*****************************************************************************)

\* The shape of the records: what createIdentity wrote, or nothing.
RecordsWellFormed ==
    /\ \A u \in Name :
          IF Registered(u)
          THEN u \in ValidName /\ ControllerOf(u) \in Address /\ IdOf(u) \in 1..nextId
          ELSE identityByUsername[u] = NoIdentity
    /\ usernameByController[Zero] = NoName

IRInv == IRTypeOK /\ RecordsWellFormed /\ ControllerInverse /\ IdsDense

-----------------------------------------------------------------------------
\* Deployment establishes the invariant, whoever is announced as RecoveryManager.
LEMMA IREmptyInv ==
    ASSUME IREmpty, identityRM \in AnyAddress
    PROVE  IRInv
<1> USE AddressAssumption, NameAssumption, MaxIdAssumption
<1>1. IRTypeOK
  BY DEF IRTypeOK, IREmpty, AnyName, AnyAddress, Identity, NoIdentity
<1>2. RecordsWellFormed
  BY DEF RecordsWellFormed, IREmpty, Registered, NoIdentity, AnyAddress
<1>3. ControllerInverse
  BY DEF ControllerInverse, IREmpty, Registered, NoIdentity, AnyAddress
<1>4. IdsDense
  BY DEF IdsDense, IREmpty, Registered, NoIdentity
<1>5. QED BY <1>1, <1>2, <1>3, <1>4 DEF IRInv

\* createIdentity keeps it: the new name, wallet and id are all unused.
LEMMA CreateIdentityInv ==
    ASSUME IRInv, NEW u \in Name, NEW c \in AnyAddress, NEW s \in AnyAddress,
           CreateIdentity(u, c, s)
    PROVE  IRInv'
<1> USE AddressAssumption, NameAssumption, MaxIdAssumption
<1> USE DEF IRInv
<1>1. /\ u \in ValidName /\ ~Registered(u)
      /\ c \in Address /\ usernameByController[c] = NoName
      /\ nextId < MaxId /\ nextId' = nextId + 1
      /\ identityByUsername' = [identityByUsername EXCEPT ![u] = NewIdentity(c)]
      /\ usernameByController' = [usernameByController EXCEPT ![c] = u]
      /\ identityRM' = identityRM /\ factory' = factory
  BY DEF CreateIdentity, NameOpen, WalletFree, HasIdentity, AnyAddress
<1>2. IRTypeOK'
  BY <1>1 DEF IRTypeOK, AnyName, AnyAddress, Identity, NewIdentity
<1>3. \A w \in Name : w # u => identityByUsername'[w] = identityByUsername[w]
  BY <1>1 DEF IRTypeOK
<1>4. /\ identityByUsername'[u].id = nextId + 1
      /\ identityByUsername'[u].controller = c
      /\ identityByUsername'[u].exists
  BY <1>1 DEF IRTypeOK, NewIdentity
<1>5. RecordsWellFormed'
  <2>1. ASSUME NEW w \in Name
        PROVE  IF Registered(w)'
               THEN w \in ValidName /\ ControllerOf(w)' \in Address /\ IdOf(w)' \in 1..nextId'
               ELSE identityByUsername'[w] = NoIdentity
    <3>1. CASE w = u
      BY <3>1, <1>1, <1>4 DEF Registered, ControllerOf, IdOf, IRTypeOK
    <3>2. CASE w # u
      BY <3>2, <1>1, <1>3 DEF RecordsWellFormed, Registered, ControllerOf, IdOf, IRTypeOK
    <3>3. QED BY <3>1, <3>2
  <2>2. usernameByController'[Zero] = NoName
    BY <1>1 DEF RecordsWellFormed, IRTypeOK, AnyAddress
  <2>3. QED BY <2>1, <2>2 DEF RecordsWellFormed
<1>6. ControllerInverse'
  <2> SUFFICES ASSUME NEW w \in Name, NEW a \in Address
               PROVE  usernameByController'[a] = w
                      <=> identityByUsername'[w].exists /\ identityByUsername'[w].controller = a
    BY DEF ControllerInverse, Registered, ControllerOf
  <2>1. usernameByController[a] = w <=> Registered(w) /\ ControllerOf(w) = a
    BY DEF ControllerInverse
  <2>2. CASE w = u
    BY <2>1, <2>2, <1>1, <1>4 DEF IRTypeOK, AnyAddress, Registered
  <2>3. CASE w # u /\ a = c
    BY <2>1, <2>3, <1>1, <1>3 DEF IRTypeOK, AnyAddress, Registered, ControllerOf
  <2>4. CASE w # u /\ a # c
    BY <2>1, <2>4, <1>1, <1>3 DEF IRTypeOK, AnyAddress, Registered, ControllerOf
  <2>5. QED BY <2>2, <2>3, <2>4
<1>7. IdsDense'
  <2>1. \A w \in Name : Registered(w)' => (IdOf(w)' = IF w = u THEN nextId + 1 ELSE IdOf(w))
    BY <1>3, <1>4 DEF Registered, IdOf
  <2>2. \A w \in Name : Registered(w)' <=> (w = u \/ Registered(w))
    BY <1>3, <1>4 DEF Registered
  <2>3. \A w \in Name : Registered(w) => IdOf(w) \in 1..nextId
    BY DEF RecordsWellFormed
  <2>4. nextId \in Nat
    BY DEF IRTypeOK
  <2>5. {IdOf(w)' : w \in {n \in Name : Registered(n)'}} = 1..(nextId + 1)
    <3>1. ASSUME NEW k \in 1..(nextId + 1)
          PROVE  \E w \in Name : Registered(w)' /\ IdOf(w)' = k
      <4>1. CASE k = nextId + 1
        BY <4>1, <2>1, <2>2, <2>4
      <4>2. CASE k \in 1..nextId
        <5>1. PICK w \in Name : Registered(w) /\ IdOf(w) = k
          BY <4>2 DEF IdsDense
        <5>2. w # u
          BY <5>1, <1>1
        <5>3. QED BY <5>1, <5>2, <2>1, <2>2
      <4>3. QED BY <4>1, <4>2, <2>4
    <3>2. ASSUME NEW w \in Name, Registered(w)'
          PROVE  IdOf(w)' \in 1..(nextId + 1)
      BY <3>2, <2>1, <2>2, <2>3, <2>4
    <3>3. QED BY <3>1, <3>2
  <2>6. ASSUME NEW v \in Name, NEW w \in Name,
               Registered(v)', Registered(w)', IdOf(v)' = IdOf(w)'
        PROVE  v = w
    <3>1. CASE v = u /\ w # u
      BY <3>1, <2>1, <2>2, <2>3, <2>4, <2>6
    <3>2. CASE v # u /\ w = u
      BY <3>2, <2>1, <2>2, <2>3, <2>4, <2>6
    <3>3. CASE v # u /\ w # u
      BY <3>3, <2>1, <2>2, <2>6 DEF IdsDense
    <3>4. QED BY <3>1, <3>2, <3>3
  <2>7. QED BY <2>5, <2>6, <1>1 DEF IdsDense
<1>8. QED BY <1>2, <1>5, <1>6, <1>7

\* Moving an identity to a free wallet keeps it, whoever asked for the move.
LEMMA RebindInv ==
    ASSUME IRInv, NEW u \in Name, NEW c \in AnyAddress, Rebind(u, c)
    PROVE  IRInv'
<1> USE AddressAssumption, NameAssumption, MaxIdAssumption
<1> USE DEF IRInv
<1> DEFINE old == ControllerOf(u)
<1>1. /\ Registered(u)
      /\ c \in Address /\ usernameByController[c] = NoName
      /\ usernameByController' = [usernameByController EXCEPT ![old] = NoName, ![c] = u]
      /\ identityByUsername' = [identityByUsername EXCEPT ![u].controller = c]
      /\ nextId' = nextId /\ identityRM' = identityRM /\ factory' = factory
  BY DEF Rebind, WalletFree, HasIdentity, AnyAddress, Moved
<1>2. /\ old \in Address
      /\ usernameByController[old] = u
      /\ old # c
  BY <1>1 DEF RecordsWellFormed, ControllerInverse
<1>3. IRTypeOK'
  BY <1>1, <1>2 DEF IRTypeOK, AnyName, AnyAddress, Identity
<1>4. \A w \in Name : w # u => identityByUsername'[w] = identityByUsername[w]
  BY <1>1 DEF IRTypeOK
<1>5. /\ identityByUsername'[u].id = IdOf(u)
      /\ identityByUsername'[u].controller = c
      /\ identityByUsername'[u].exists
  BY <1>1 DEF IRTypeOK, Identity, IdOf, Registered
<1>6. RecordsWellFormed'
  <2>1. ASSUME NEW w \in Name
        PROVE  IF Registered(w)'
               THEN w \in ValidName /\ ControllerOf(w)' \in Address /\ IdOf(w)' \in 1..nextId'
               ELSE identityByUsername'[w] = NoIdentity
    <3>1. CASE w = u
      BY <3>1, <1>1, <1>5 DEF RecordsWellFormed, Registered, ControllerOf, IdOf
    <3>2. CASE w # u
      BY <3>2, <1>1, <1>4 DEF RecordsWellFormed, Registered, ControllerOf, IdOf
    <3>3. QED BY <3>1, <3>2
  <2>2. usernameByController'[Zero] = NoName
    BY <1>1, <1>2 DEF RecordsWellFormed, IRTypeOK, AnyAddress
  <2>3. QED BY <2>1, <2>2 DEF RecordsWellFormed
<1>7. ControllerInverse'
  <2> SUFFICES ASSUME NEW w \in Name, NEW a \in Address
               PROVE  usernameByController'[a] = w
                      <=> identityByUsername'[w].exists /\ identityByUsername'[w].controller = a
    BY DEF ControllerInverse, Registered, ControllerOf
  <2>1. usernameByController[a] = w <=> identityByUsername[w].exists /\ identityByUsername[w].controller = a
    BY DEF ControllerInverse, Registered, ControllerOf
  <2>2. usernameByController'[a] = IF a = c THEN u ELSE IF a = old THEN NoName ELSE usernameByController[a]
    BY <1>1, <1>2 DEF IRTypeOK, AnyAddress
  <2>3. CASE w = u
    BY <2>1, <2>2, <2>3, <1>1, <1>2, <1>5 DEF ControllerOf
  <2>4. CASE w # u
    BY <2>1, <2>2, <2>4, <1>1, <1>2, <1>4
  <2>5. QED BY <2>3, <2>4
<1>8. IdsDense'
  <2>1. \A w \in Name : (Registered(w)' <=> Registered(w)) /\ IdOf(w)' = IdOf(w)
    BY <1>1, <1>4, <1>5 DEF Registered, IdOf
  <2>2. QED BY <2>1, <1>1 DEF IdsDense
<1>9. QED BY <1>3, <1>6, <1>7, <1>8

\* Nothing else an identity's records depend on: administration and stuttering.
LEMMA IRAdminInv ==
    ASSUME IRInv,
           UNCHANGED <<nextId, identityByUsername, usernameByController>>,
           identityRM' \in AnyAddress, factory' \in Factory \cup {Zero}
    PROVE  IRInv'
  BY DEF IRInv, IRTypeOK, RecordsWellFormed, ControllerInverse, IdsDense,
         Registered, ControllerOf, IdOf

\* Every transaction but those of the RecoveryManager preserves the invariant.
LEMMA IRUserNextInv ==
    ASSUME IRInv, IRUserNext
    PROVE  IRInv'
<1> USE AddressAssumption
<1>1. ASSUME NEW u \in Name, NEW c \in AnyAddress, NEW s \in AnyAddress, CreateIdentity(u, c, s)
      PROVE  IRInv'
  BY <1>1, CreateIdentityInv
<1>2. ASSUME NEW a \in Address, NEW u \in Name, NEW c \in AnyAddress, TransferController(a, u, c)
      PROVE  IRInv'
  BY <1>2, RebindInv DEF TransferController
<1>3. ASSUME NEW a \in Address, NEW rm \in RMChoice, SetIdentityRM(a, rm)
      PROVE  IRInv'
  BY <1>3, IRAdminInv DEF SetIdentityRM, AnyAddress, IRInv, IRTypeOK
<1>4. ASSUME NEW a \in Address, NEW f \in Factory \cup {Zero}, SetFactory(a, f)
      PROVE  IRInv'
  BY <1>4, IRAdminInv DEF SetFactory, IRInv, IRTypeOK
<1>5. QED BY <1>1, <1>2, <1>3, <1>4 DEF IRUserNext

\* The registry's invariant, for any number of wallets, names and factories.
THEOREM IdentityRegistryInvariant == IRSpec => []IRInv
<1>1. IRInit => IRInv
  BY IREmptyInv DEF IRInit, AnyAddress
<1>2. IRInv /\ [IRNext]_irVars => IRInv'
  <2> SUFFICES ASSUME IRInv, [IRNext]_irVars PROVE IRInv'
    OBVIOUS
  <2>1. CASE IRUserNext
    BY <2>1, IRUserNextInv
  <2>2. ASSUME NEW a \in Address, NEW u \in Name, NEW c \in AnyAddress, RecoverController(a, u, c)
        PROVE  IRInv'
    BY <2>2, RebindInv DEF RecoverController
  <2>3. CASE UNCHANGED irVars
    BY <2>3, IRAdminInv DEF irVars, IRInv, IRTypeOK
  <2>4. QED BY <2>1, <2>2, <2>3 DEF IRNext
<1>3. QED BY <1>1, <1>2, PTL DEF IRSpec

\* An address speaks for at most the identity whose record holds it.
LEMMA CallerResolvesFromInv ==
    ASSUME IRInv PROVE CallerResolves
<1> USE AddressAssumption, NameAssumption
<1> SUFFICES ASSUME NEW a \in AnyAddress, IdentityIdOf(a) # 0
             PROVE  \E u \in ValidName : /\ Registered(u)
                                         /\ IdOf(u) = IdentityIdOf(a)
                                         /\ ControllerOf(u) = a
  BY DEF CallerResolves
<1>1. HasIdentity(a) /\ IdentityIdOf(a) = IdOf(usernameByController[a])
  BY DEF IdentityIdOf
<1>2. a \in Address /\ usernameByController[a] \in Name
  BY <1>1 DEF HasIdentity, IRInv, RecordsWellFormed, IRTypeOK, AnyAddress, AnyName
<1>3. Registered(usernameByController[a]) /\ ControllerOf(usernameByController[a]) = a
  BY <1>2 DEF IRInv, ControllerInverse
<1>4. usernameByController[a] \in ValidName
  BY <1>2, <1>3 DEF IRInv, RecordsWellFormed
<1>5. QED BY <1>1, <1>3, <1>4

\* The two mappings are each other's inverse in every reachable state.
THEOREM ControllerInverseHolds == IRSpec => []ControllerInverse
<1>1. IRInv => ControllerInverse
  BY DEF IRInv
<1>2. QED BY <1>1, IdentityRegistryInvariant, PTL

\* Lookups, records and settings keep their types.
THEOREM IRTypeOKHolds == IRSpec => []IRTypeOK
<1>1. IRInv => IRTypeOK
  BY DEF IRInv
<1>2. QED BY <1>1, IdentityRegistryInvariant, PTL

\* Ids are given out without gaps and never twice: the other contracts key
\* their records by id alone.
THEOREM IdsDenseHolds == IRSpec => []IdsDense
<1>1. IRInv => IdsDense
  BY DEF IRInv
<1>2. QED BY <1>1, IdentityRegistryInvariant, PTL

\* What the other contracts authorise their callers by is sound.
THEOREM CallerResolvesHolds == IRSpec => []CallerResolves
<1>1. IRInv => CallerResolves
  BY CallerResolvesFromInv
<1>2. QED BY <1>1, IdentityRegistryInvariant, PTL

\* Names, ids and wallets agree in every reachable state, for any of them.
THEOREM IdentitiesConsistentHolds == IRSpec => []IdentitiesConsistent
<1>1. IRInv => IdentitiesConsistent
  BY CallerResolvesFromInv DEF IRInv, IdentitiesConsistent
<1>2. QED BY <1>1, IdentityRegistryInvariant, PTL

\* No transaction frees, renumbers or doubly moves a name.
THEOREM IdentityPermanentHolds == IRSpec => IdentityPermanent
<1>1. ASSUME IRInv, IRNext PROVE IdentityPermanentA
  <2> USE AddressAssumption, NameAssumption, MaxIdAssumption
  <2>1. ASSUME NEW u \in Name, NEW c \in AnyAddress, NEW s \in AnyAddress, CreateIdentity(u, c, s)
        PROVE  IdentityPermanentA
    <3>1. \A w \in Name : w # u => identityByUsername'[w] = identityByUsername[w]
      BY <1>1, <2>1 DEF CreateIdentity, IRInv, IRTypeOK
    <3>2. ~Registered(u) /\ ~HasIdentity(c) /\ c \in Address
      BY <2>1 DEF CreateIdentity, NameOpen, WalletFree, AnyAddress
    <3>3. identityByUsername'[u].controller = c
      BY <1>1, <2>1 DEF CreateIdentity, NewIdentity, IRInv, IRTypeOK
    <3>4. QED BY <3>1, <3>2, <3>3 DEF IdentityPermanentA, Registered, IdOf, ControllerOf
  <2>2. ASSUME NEW u \in Name, NEW c \in AnyAddress, Rebind(u, c)
        PROVE  IdentityPermanentA
    <3>1. \A w \in Name : w # u => identityByUsername'[w] = identityByUsername[w]
      BY <1>1, <2>2 DEF Rebind, IRInv, IRTypeOK
    <3>2. Registered(u) /\ ~HasIdentity(c) /\ c \in Address
      BY <2>2 DEF Rebind, WalletFree, AnyAddress
    <3>3. /\ identityByUsername'[u].controller = c
          /\ identityByUsername'[u].exists
          /\ identityByUsername'[u].id = IdOf(u)
      BY <1>1, <2>2, <3>2 DEF Rebind, IRInv, IRTypeOK, Identity, IdOf, Registered
    <3>4. QED BY <3>1, <3>2, <3>3 DEF IdentityPermanentA, Registered, IdOf, ControllerOf
  <2>3. CASE UNCHANGED identityByUsername
    BY <2>3 DEF IdentityPermanentA, Registered, IdOf, ControllerOf
  <2>4. QED
    BY <1>1, <2>1, <2>2, <2>3
       DEF IRNext, IRUserNext, TransferController, RecoverController, SetIdentityRM, SetFactory
<1>2. QED BY <1>1, IdentityRegistryInvariant, PTL DEF IRSpec, IdentityPermanent

-----------------------------------------------------------------------------
(*****************************************************************************)
(* DeviceRegistry.  The list of an identity matches the owners of devices    *)
(* only because the caller's id is one given out: so the invariant of        *)
(* IdentityRegistry is part of this one.                                     *)
(*****************************************************************************)

DRInv == IRInv /\ DRTypeOK /\ ListMatchesOwner /\ now \in 1..MaxTime

-----------------------------------------------------------------------------
\* The id a transaction acts for is one that was given out.
LEMMA CallerIdGiven ==
    ASSUME IRInv, NEW a \in Address, CallerHasIdentity(a)
    PROVE  IdentityIdOf(a) \in 1..nextId /\ IdentityIdOf(a) \in Id
<1>1. PICK u \in ValidName : Registered(u) /\ IdOf(u) = IdentityIdOf(a)
  BY CallerResolvesFromInv DEF CallerResolves, CallerHasIdentity, AnyAddress
<1>2. IdOf(u) \in 1..nextId
  BY <1>1, NameAssumption DEF IRInv, RecordsWellFormed
<1>3. QED BY <1>1, <1>2, MaxIdAssumption DEF IRInv, IRTypeOK, Id

\* Ids are never taken back.
LEMMA NextIdGrows ==
    ASSUME IRInv, IRUserNext
    PROVE  nextId' \in Nat /\ nextId <= nextId'
  BY DEF IRUserNext, CreateIdentity, TransferController, Rebind, SetIdentityRM, SetFactory,
         IRInv, IRTypeOK

\* A step keeps the invariant when it keeps every device's owner and every list;
\* the identities may change meanwhile.
OwnersKept ==
    /\ listed' = listed
    /\ \A d \in Device : /\ devices'[d].exists = devices[d].exists
                         /\ devices'[d].identityId = devices[d].identityId

LEMMA OwnersKeptInv ==
    ASSUME DRInv, IRInv', nextId' \in Nat, nextId <= nextId',
           DRTypeOK', OwnersKept, now' \in 1..MaxTime
    PROVE  DRInv'
<1>1. ListMatchesOwner'
  BY DEF DRInv, IRInv, IRTypeOK, ListMatchesOwner, OwnersKept, Exists, OwnerIdOf
<1>2. QED BY <1>1 DEF DRInv

\* So does a transaction of the identity registry alone.
LEMMA IdentityStepInv ==
    ASSUME DRInv, IRInv', nextId' \in Nat, nextId <= nextId', UNCHANGED <<drVars, now>>
    PROVE  DRInv'
<1>1. DRTypeOK' /\ OwnersKept /\ now' \in 1..MaxTime
  BY DEF DRInv, DRTypeOK, OwnersKept, drVars
<1>2. QED BY <1>1, OwnersKeptInv

\* Deployment establishes it, whoever is announced as RecoveryManager.
LEMMA DREmptyInv ==
    ASSUME IREmpty, DREmpty, Genesis, identityRM \in AnyAddress, deviceRM \in AnyAddress
    PROVE  DRInv
<1>1. IRInv
  BY IREmptyInv
<1>2. DRTypeOK
  BY DeviceAssumption, MaxTimeAssumption, MaxIdAssumption
     DEF DREmpty, DRTypeOK, DeviceRecord, NoDevice, Id
<1>3. ListMatchesOwner
  BY DEF DREmpty, ListMatchesOwner, Exists, OwnerIdOf, NoDevice, Id
<1>4. now \in 1..MaxTime
  BY MaxTimeAssumption DEF Genesis
<1>5. QED BY <1>1, <1>2, <1>3, <1>4 DEF DRInv

\* A registration adds the device to the list of the caller's identity, which is
\* the one it was in if it was in any.
LEMMA RegisterDeviceInv ==
    ASSUME DRInv, NEW a \in Address, NEW d \in Device, NEW s \in Salt,
           NEW k \in VaultKey \cup {NoKey}, RegisterDevice(a, d, s, k),
           UNCHANGED <<irVars, now>>
    PROVE  DRInv'
<1> DEFINE i == IdentityIdOf(a)
<1> USE DeviceAssumption, MaxTimeAssumption, MaxIdAssumption
<1>1. i \in 1..nextId /\ i \in Id /\ nextId \in Nat
  BY CallerIdGiven DEF DRInv, IRInv, IRTypeOK, RegisterDevice
<1>2. /\ Exists(d) => OwnerIdOf(d) = i
      /\ listLength[i] + 1 <= MAX_DEVICES
      /\ commitBlocks' = [commitBlocks EXCEPT ![<<d, s, a>>] = 0]
      /\ devices' = [devices EXCEPT
            ![d] = [identityId |-> i, revoked |-> FALSE, exists |-> TRUE]]
      /\ listed' = [listed EXCEPT ![i] = @ \cup {d}]
      /\ listLength' = [listLength EXCEPT ![i] = @ + 1]
      /\ deviceVaultKeys' = deviceVaultKeys
         \/ deviceVaultKeys' = [deviceVaultKeys EXCEPT ![d] = k]
      /\ deviceRM' = deviceRM /\ migrated' = migrated
  BY DEF RegisterDevice, Registrable, HasRoom
<1>3. IRInv'
  BY IRAdminInv DEF DRInv, irVars, IRInv, IRTypeOK
<1> HIDE DEF i
<1>4. DRTypeOK'
  <2> USE DEF DRInv, DRTypeOK
  <2>1. devices' \in [Device -> DeviceRecord]
    BY <1>1, <1>2 DEF DeviceRecord, Id
  <2>2. listed' \in [Id -> SUBSET Device]
    BY <1>1, <1>2
  <2>3. listLength' \in [Id -> 0..MAX_DEVICES]
    BY <1>1, <1>2
  <2>4. commitBlocks' \in [Commitment -> 0..MaxTime]
    <3>1. PICK c : commitBlocks' = [commitBlocks EXCEPT ![c] = 0]
      BY <1>2
    <3>2. commitBlocks \in [Commitment -> 0..MaxTime] /\ 0 \in 0..MaxTime
      OBVIOUS
    <3>3. QED BY ONLY <3>1, <3>2
  <2>5. deviceVaultKeys' \in [Device -> VaultKey \cup {NoKey}]
    BY <1>2
  <2>6. QED BY <2>1, <2>2, <2>3, <2>4, <2>5, <1>2 DEF irVars
<1>5. ListMatchesOwner'
  <2>1. ASSUME NEW j \in Id, NEW e \in Device
        PROVE  e \in listed'[j] <=> devices'[e].exists /\ devices'[e].identityId = j
    <3>1. e \in listed[j] <=> devices[e].exists /\ devices[e].identityId = j
      BY DEF DRInv, ListMatchesOwner, Exists, OwnerIdOf
    <3>2. listed'[j] = IF j = i THEN listed[i] \cup {d} ELSE listed[j]
      BY <1>1, <1>2 DEF DRInv, DRTypeOK
    <3>3. CASE e = d
      BY <3>1, <3>2, <3>3, <1>2 DEF DRInv, DRTypeOK, Exists, OwnerIdOf
    <3>4. CASE e # d
      BY <3>1, <3>2, <3>4, <1>2 DEF DRInv, DRTypeOK
    <3>5. QED BY <3>3, <3>4
  <2>2. ASSUME NEW e \in Device, devices'[e].exists
        PROVE  devices'[e].identityId \in 1..nextId
    BY <2>2, <1>1, <1>2 DEF DRInv, DRTypeOK, ListMatchesOwner, Exists, OwnerIdOf
  <2>3. QED BY <2>1, <2>2 DEF ListMatchesOwner, Exists, OwnerIdOf, irVars
<1>6. QED BY <1>3, <1>4, <1>5 DEF DRInv

\* Commitments, revocations, vault keys and the announcement of a RecoveryManager
\* leave owners and lists alone.
LEMMA OwnerFreeStepsInv ==
    ASSUME DRInv, UNCHANGED <<irVars, now>>,
           \/ \E c \in Commitment : CommitDevice(c)
           \/ \E a \in Address, d \in Device : RevokeDevice(a, d)
           \/ \E a \in Address, d \in Device, k \in VaultKey \cup {NoKey} :
                 UpdateDeviceVaultKey(a, d, k)
           \/ \E a \in Address, rm \in RMChoice : SetDeviceRM(a, rm)
    PROVE  DRInv'
<1>1. IRInv' /\ nextId' \in Nat /\ nextId <= nextId' /\ now' \in 1..MaxTime
  BY IRAdminInv DEF DRInv, irVars, IRInv, IRTypeOK
<1>2. ASSUME NEW c \in Commitment, CommitDevice(c) PROVE DRTypeOK' /\ OwnersKept
  <2>1. commitBlocks' = [commitBlocks EXCEPT ![c] = now]
    BY <1>2 DEF CommitDevice
  <2>2. commitBlocks \in [Commitment -> 0..MaxTime] /\ now \in 0..MaxTime
    BY MaxTimeAssumption DEF DRInv, DRTypeOK
  <2>3. commitBlocks' \in [Commitment -> 0..MaxTime]
    BY ONLY <2>1, <2>2
  <2>4. QED BY <1>2, <2>3 DEF CommitDevice, DRInv, DRTypeOK, OwnersKept, irVars
<1>3. ASSUME NEW a \in Address, NEW d \in Device, RevokeDevice(a, d)
      PROVE  DRTypeOK' /\ OwnersKept
  BY <1>3 DEF RevokeDevice, DRInv, DRTypeOK, DeviceRecord, OwnersKept, irVars
<1>4. ASSUME NEW a \in Address, NEW d \in Device, NEW k \in VaultKey \cup {NoKey},
             UpdateDeviceVaultKey(a, d, k)
      PROVE  DRTypeOK' /\ OwnersKept
  BY <1>4 DEF UpdateDeviceVaultKey, DRInv, DRTypeOK, OwnersKept, irVars
<1>5. ASSUME NEW a \in Address, NEW rm \in RMChoice, SetDeviceRM(a, rm)
      PROVE  DRTypeOK' /\ OwnersKept
  BY <1>5, AddressAssumption DEF SetDeviceRM, DRInv, DRTypeOK, OwnersKept, irVars, AnyAddress
<1>6. DRTypeOK' /\ OwnersKept
  BY <1>2, <1>3, <1>4, <1>5
<1>7. QED BY <1>1, <1>6, OwnersKeptInv

\* revokeAllDevices, alone or with a change of controller, only sets `revoked'.
LEMMA RevokeAllDevicesInv ==
    ASSUME DRInv, IRInv', nextId' = nextId, now' = now,
           NEW a \in Address, NEW i, RevokeAllDevices(a, i)
    PROVE  DRInv'
<1>1. DRTypeOK' /\ OwnersKept
  <2>1. devices' \in [Device -> DeviceRecord] /\ OwnersKept
    BY DEF RevokeAllDevices, DRInv, DRTypeOK, DeviceRecord, OwnersKept
  <2>2. QED BY <2>1 DEF RevokeAllDevices, DRInv, DRTypeOK
<1>2. nextId' \in Nat /\ nextId <= nextId'
  BY DEF DRInv, IRInv, IRTypeOK
<1>3. QED BY <1>1, <1>2, OwnersKeptInv DEF DRInv

\* The migration adds to the caller's list devices that were in none.
LEMMA MigrateDevicesInv ==
    ASSUME DRInv, NEW a \in Address, MigrateDevices(a), UNCHANGED <<irVars, now>>
    PROVE  DRInv'
<1> DEFINE i == IdentityIdOf(a)
           new == ToPort(usernameByController[a])
<1> USE DeviceAssumption, LegacyAssumption
<1>1. i \in 1..nextId /\ i \in Id /\ nextId \in Nat
  BY CallerIdGiven DEF DRInv, IRInv, IRTypeOK, MigrateDevices
<1>2. new \subseteq Device /\ \A d \in new : ~devices[d].exists
  BY DEF MigrateDevices, ToPort, Exists
<1>3. Cardinality(new) \in Nat
  BY <1>2, FS_Subset, FS_CardinalityType
<1>4. /\ listLength[i] + Cardinality(new) <= MAX_DEVICES
      /\ migrated' = migrated \cup {i}
      /\ devices' = [d \in Device |->
            IF d \in new
            THEN [identityId |-> i, revoked |-> d \in LegacyRevoked, exists |-> TRUE]
            ELSE devices[d]]
      /\ listed' = [listed EXCEPT ![i] = @ \cup new]
      /\ listLength' = [listLength EXCEPT ![i] = @ + Cardinality(new)]
      /\ deviceVaultKeys' \in [Device -> VaultKey \cup {NoKey}]
      /\ commitBlocks' = commitBlocks /\ deviceRM' = deviceRM
  BY DEF MigrateDevices, HasRoom, DRInv, DRTypeOK
<1>5. IRInv'
  BY IRAdminInv DEF DRInv, irVars, IRInv, IRTypeOK
<1> HIDE DEF i, new
<1>6. DRTypeOK'
  <2> USE DEF DRInv, DRTypeOK
  <2>1. devices' \in [Device -> DeviceRecord]
    BY <1>1, <1>4, MaxIdAssumption DEF DeviceRecord, Id
  <2>2. listed' \in [Id -> SUBSET Device]
    BY <1>1, <1>2, <1>4
  <2>3. listLength' \in [Id -> 0..MAX_DEVICES]
    BY <1>1, <1>3, <1>4
  <2>4. QED BY <2>1, <2>2, <2>3, <1>1, <1>4 DEF irVars
<1>7. ListMatchesOwner'
  <2>1. ASSUME NEW j \in Id, NEW e \in Device
        PROVE  e \in listed'[j] <=> devices'[e].exists /\ devices'[e].identityId = j
    <3>1. e \in listed[j] <=> devices[e].exists /\ devices[e].identityId = j
      BY DEF DRInv, ListMatchesOwner, Exists, OwnerIdOf
    <3>2. listed'[j] = IF j = i THEN listed[i] \cup new ELSE listed[j]
      BY <1>1, <1>4 DEF DRInv, DRTypeOK
    <3>3. CASE e \in new
      BY <3>1, <3>2, <3>3, <1>2, <1>4
    <3>4. CASE e \notin new
      BY <3>1, <3>2, <3>4, <1>4
    <3>5. QED BY <3>3, <3>4
  <2>2. ASSUME NEW e \in Device, devices'[e].exists
        PROVE  devices'[e].identityId \in 1..nextId
    BY <2>2, <1>1, <1>4 DEF DRInv, ListMatchesOwner, Exists, OwnerIdOf
  <2>3. QED BY <2>1, <2>2 DEF ListMatchesOwner, Exists, OwnerIdOf, irVars
<1>8. QED BY <1>5, <1>6, <1>7 DEF DRInv

-----------------------------------------------------------------------------
\* Every step keeps the invariant.
LEMMA DRNextInv == DRInv /\ [DRNext]_allVars => DRInv'
<1> SUFFICES ASSUME DRInv, [DRNext]_allVars PROVE DRInv'
  OBVIOUS
<1>1. CASE DRUserNext /\ UNCHANGED <<irVars, now>>
  BY <1>1, OwnerFreeStepsInv, RegisterDeviceInv, MigrateDevicesInv DEF DRUserNext
<1>2. CASE IRUserNext /\ UNCHANGED <<drVars, now>>
  BY <1>2, IRUserNextInv, NextIdGrows, IdentityStepInv DEF DRInv
<1>3. ASSUME NEW a \in Address, NEW u \in Name, NEW c \in AnyAddress, RecoverController(a, u, c)
      PROVE  IRInv' /\ nextId' = nextId /\ nextId \in Nat
  <2>1. IRInv'
    BY <1>3, RebindInv DEF RecoverController, DRInv
  <2>2. nextId' = nextId /\ nextId \in Nat
    BY <1>3 DEF RecoverController, Rebind, DRInv, IRInv, IRTypeOK
  <2>3. QED BY <2>1, <2>2
<1>4. CASE RMCallsNext /\ UNCHANGED now
  <2>1. ASSUME NEW a \in Address, NEW i \in Id, RevokeAllDevices(a, i), UNCHANGED irVars
        PROVE  DRInv'
    <3>1. IRInv' /\ nextId' = nextId
      BY <2>1, IRAdminInv DEF DRInv, irVars, IRInv, IRTypeOK
    <3>2. QED BY <3>1, <2>1, <1>4, RevokeAllDevicesInv
  <2>2. ASSUME NEW a \in Address, NEW u \in Name, NEW c \in AnyAddress,
               RecoverController(a, u, c), UNCHANGED drVars
        PROVE  DRInv'
    BY <2>2, <1>3, <1>4, IdentityStepInv
  <2>3. ASSUME NEW a \in Address, NEW u \in Name, NEW c \in AnyAddress,
               RecoverController(a, u, c), RevokeAllDevices(a, IdOf(u))
        PROVE  DRInv'
    BY <2>3, <1>3, <1>4, RevokeAllDevicesInv
  <2>4. QED BY <2>1, <2>2, <2>3, <1>4 DEF RMCallsNext
<1>5. CASE NewBlock /\ UNCHANGED <<irVars, drVars>>
  <2>1. IRInv' /\ nextId' \in Nat /\ nextId <= nextId'
    BY <1>5, IRAdminInv DEF DRInv, irVars, IRInv, IRTypeOK
  <2>2. DRTypeOK' /\ OwnersKept
    BY <1>5 DEF DRInv, DRTypeOK, OwnersKept, drVars
  <2>3. now' \in 1..MaxTime
    BY <1>5, MaxTimeAssumption DEF NewBlock, DRInv
  <2>4. QED BY <2>1, <2>2, <2>3, OwnersKeptInv
<1>6. CASE UNCHANGED allVars
  <2>1. IRInv' /\ nextId' \in Nat /\ nextId <= nextId'
    BY <1>6, IRAdminInv DEF DRInv, allVars, irVars, IRInv, IRTypeOK
  <2>2. QED BY <1>6, <2>1, IdentityStepInv DEF allVars
<1>7. QED BY <1>1, <1>2, <1>4, <1>5, <1>6 DEF DRNext

\* The invariant holds in every reachable state.
THEOREM DeviceRegistryInvariant == DRSpec => []DRInv
<1>1. DRInit => DRInv
  BY DREmptyInv DEF DRInit, AnyAddress
<1>2. QED BY <1>1, DRNextInv, PTL DEF DRSpec

\* The state keeps its types: the limit on an identity's list is never exceeded,
\* by registrations and the migration together.
THEOREM DRTypeOKHolds == DRSpec => []DRTypeOK
<1>1. DRInv => DRTypeOK
  BY DEF DRInv
<1>2. QED BY <1>1, DeviceRegistryInvariant, PTL

\* A device is in the list of its owner and in no other.
THEOREM ListMatchesOwnerHolds == DRSpec => []ListMatchesOwner
<1>1. DRInv => ListMatchesOwner
  BY DEF DRInv
<1>2. QED BY <1>1, DeviceRegistryInvariant, PTL

-----------------------------------------------------------------------------
\* No transaction moves a registered device to another identity or forgets it:
\* a registration asks for the identity it had, the migration for none.
LEMMA StepKeepsOwner == ASSUME DRInv, DRNext PROVE DeviceOwnerPermanentA
<1> SUFFICES ASSUME NEW d \in Device, devices[d].exists
             PROVE  devices'[d].exists /\ devices'[d].identityId = devices[d].identityId
  BY DEF DeviceOwnerPermanentA, Exists, OwnerIdOf
<1> USE DEF DRInv, DRTypeOK
<1>1. ASSUME NEW a \in Address, NEW e \in Device, NEW s \in Salt,
             NEW k \in VaultKey \cup {NoKey}, RegisterDevice(a, e, s, k)
      PROVE  devices'[d].exists /\ devices'[d].identityId = devices[d].identityId
  BY <1>1 DEF RegisterDevice, Registrable, Exists, OwnerIdOf
<1>2. ASSUME NEW a \in Address, MigrateDevices(a)
      PROVE  devices'[d] = devices[d]
  BY <1>2 DEF MigrateDevices, ToPort, Exists
<1>3. ASSUME NEW a \in Address, NEW i, RevokeAllDevices(a, i)
      PROVE  devices'[d].exists /\ devices'[d].identityId = devices[d].identityId
  BY <1>3 DEF RevokeAllDevices, DeviceRecord
<1>4. ASSUME NEW a \in Address, NEW e \in Device, RevokeDevice(a, e)
      PROVE  devices'[d].exists /\ devices'[d].identityId = devices[d].identityId
  BY <1>4 DEF RevokeDevice, DeviceRecord
<1>5. CASE devices' = devices
  BY <1>5
<1>6. QED
  BY <1>1, <1>2, <1>3, <1>4, <1>5
     DEF DRNext, DRUserNext, RMCallsNext, CommitDevice, UpdateDeviceVaultKey, SetDeviceRM, drVars

\* A registered device keeps its identity, whatever is done to both.
THEOREM DeviceOwnerPermanentHolds == DRSpec => DeviceOwnerPermanent
<1>1. ASSUME DRInv, [DRNext]_allVars PROVE [DeviceOwnerPermanentA]_allVars
  BY <1>1, StepKeepsOwner
<1>2. QED BY <1>1, DeviceRegistryInvariant, PTL DEF DRSpec, DeviceOwnerPermanent

\* A revoked device becomes active only in a registration: the migration leaves
\* devices that exist, and every other step sets `revoked' or leaves it.
LEMMA StepReactivates == ASSUME DRInv, DRNext PROVE ReactivationCommittedA
<1> SUFFICES ASSUME NEW d \in Device, devices[d].exists, devices[d].revoked,
                    ~devices'[d].revoked
             PROVE  \E a \in Address, s \in Salt :
                       /\ IdentityIdOf(a) = OwnerIdOf(d)
                       /\ <<d, s, a>> \in Commitment
                       /\ commitBlocks[<<d, s, a>>] \in 1..(now - 1)
                       /\ commitBlocks'[<<d, s, a>>] = 0
  BY DEF ReactivationCommittedA, IsDeviceActive, Exists
<1> USE DEF DRInv, DRTypeOK
<1>1. ASSUME NEW a \in Address, NEW e \in Device, NEW s \in Salt,
             NEW k \in VaultKey \cup {NoKey}, RegisterDevice(a, e, s, k)
      PROVE  /\ e = d
             /\ IdentityIdOf(a) = OwnerIdOf(d)
             /\ <<d, s, a>> \in Commitment
             /\ commitBlocks[<<d, s, a>>] \in 1..(now - 1)
             /\ commitBlocks'[<<d, s, a>>] = 0
  <2>1. e = d
    BY <1>1 DEF RegisterDevice
  <2>2. IdentityIdOf(a) = OwnerIdOf(d)
    BY <1>1, <2>1 DEF RegisterDevice, Registrable, Exists
  <2>3. <<d, s, a>> \in Commitment /\ commitBlocks[<<d, s, a>>] \in 1..(now - 1)
    BY <1>1, <2>1 DEF RegisterDevice, Revealable
  <2>4. \E c \in Commitment : c = <<d, s, a>> /\ commitBlocks' = [commitBlocks EXCEPT ![c] = 0]
    BY <1>1, <2>1, <2>3 DEF RegisterDevice
  <2>5. commitBlocks \in [Commitment -> 0..MaxTime]
    OBVIOUS
  <2>6. commitBlocks'[<<d, s, a>>] = 0
    BY ONLY <2>4, <2>5
  <2>7. QED BY <2>1, <2>2, <2>3, <2>6
<1>2. ASSUME NEW a \in Address, MigrateDevices(a)
      PROVE  FALSE
  BY <1>2 DEF MigrateDevices, ToPort, Exists
<1>3. ASSUME NEW a \in Address, NEW i, RevokeAllDevices(a, i)
      PROVE  FALSE
  BY <1>3 DEF RevokeAllDevices, DeviceRecord
<1>4. ASSUME NEW a \in Address, NEW e \in Device, RevokeDevice(a, e)
      PROVE  FALSE
  BY <1>4 DEF RevokeDevice, DeviceRecord
<1>5. CASE devices' = devices
  BY <1>5
<1>6. QED
  BY <1>1, <1>2, <1>3, <1>4, <1>5
     DEF DRNext, DRUserNext, RMCallsNext, CommitDevice, UpdateDeviceVaultKey, SetDeviceRM, drVars

\* Nothing but a matured commitment of its identity's wallet brings a device back.
THEOREM ReactivationCommittedHolds == DRSpec => ReactivationCommitted
<1>1. ASSUME DRInv, [DRNext]_allVars PROVE [ReactivationCommittedA]_allVars
  BY <1>1, StepReactivates
<1>2. QED BY <1>1, DeviceRegistryInvariant, PTL DEF DRSpec, ReactivationCommitted

\* Lists and owners agree in every reachable state, and the limit holds.
THEOREM DevicesConsistentHolds == DRSpec => []DevicesConsistent
<1>1. DRInv => DevicesConsistent
  BY DEF DRInv, DevicesConsistent
<1>2. QED BY <1>1, DeviceRegistryInvariant, PTL

\* A device stays with its identity, and comes back only by its commitment.
THEOREM DevicesStayHolds == DRSpec => DevicesStay
  BY DeviceOwnerPermanentHolds, ReactivationCommittedHolds, PTL DEF DevicesStay

\* Both together: what two identities that compete for a device can do about it.
THEOREM DevicesCorrectHolds == DRSpec => DevicesCorrect
BY DevicesConsistentHolds, DevicesStayHolds, PTL DEF DevicesCorrect


-----------------------------------------------------------------------------
(*****************************************************************************)
(* SessionRegistry.  Two facts about time join the invariant: no session and *)
(* no sweep is from the future.  Without them a sweep could undo an earlier  *)
(* one, or miss a session.  That a session's device keeps its identity is    *)
(* what the theorems of DeviceRegistry show of every step.                   *)
(*****************************************************************************)

NothingFromTheFuture ==
    /\ \A h \in Hash : sessions[h].createdAt <= now
    /\ \A i \in Id : revokedBefore[i] <= now

SRInv == DRInv /\ SRTypeOK /\ SessionFollowsDevice /\ NothingFromTheFuture

-----------------------------------------------------------------------------
\* A session that exists belongs to an id revokedBefore is defined for.
LEMMA SessionIdGiven ==
    ASSUME SRInv, NEW h \in Hash, sessions[h].exists
    PROVE  sessions[h].identityId \in Id
  BY MaxIdAssumption
     DEF SRInv, SessionFollowsDevice, DRInv, IRInv, IRTypeOK, Id

\* Deployment establishes the invariant.
LEMMA SRInitInv == SRInit => SRInv
<1> SUFFICES ASSUME SRInit PROVE SRInv
  OBVIOUS
<1> USE MaxTimeAssumption, MaxIdAssumption, SessionAssumption
<1>1. DRInv
  BY DREmptyInv DEF SRInit, AnyAddress
<1>2. SRTypeOK
  BY DEF SRInit, SREmpty, SRTypeOK, Session, NoSession
<1>3. SessionFollowsDevice
  BY DEF SRInit, SREmpty, SessionFollowsDevice, NoSession
<1>4. NothingFromTheFuture
  BY DEF SRInit, SREmpty, Genesis, NothingFromTheFuture, NoSession
<1>5. QED BY <1>1, <1>2, <1>3, <1>4 DEF SRInv

\* A new session is filed under the identity of its device.
LEMMA CreateSessionInv ==
    ASSUME SRInv, DRInv', NEW h \in Hash, NEW i \in Id, NEW d \in Device,
           NEW s \in Device \cup {Zero}, CreateSession(h, i, d, s),
           UNCHANGED <<irVars, drVars, now>>
    PROVE  SRInv'
<1> USE MaxTimeAssumption, MaxIdAssumption, SessionAssumption
<1>1. /\ devices[d].exists /\ devices[d].identityId = i /\ i \in 1..nextId
      /\ sessionCount[i] < MAX_SESSIONS
      /\ sessions' = [sessions EXCEPT ![h] = [identityId |-> i, device |-> d,
            createdAt |-> now, revoked |-> FALSE, exists |-> TRUE]]
      /\ sessionCount' = [sessionCount EXCEPT ![i] = @ + 1]
      /\ revokedBefore' = revokedBefore
      /\ devices' = devices /\ nextId' = nextId /\ now' = now
  BY DEF CreateSession, DeviceSpeaksFor, SessionRoom, Exists, OwnerIdOf, irVars, drVars,
         SRInv, DRInv, ListMatchesOwner
<1>2. SRTypeOK'
  <2>1. sessions' \in [Hash -> Session]
    BY <1>1 DEF SRInv, SRTypeOK, Session, DRInv, Id
  <2>2. sessionCount' \in [Id -> 0..MAX_SESSIONS]
    BY <1>1 DEF SRInv, SRTypeOK
  <2>3. QED BY <1>1, <2>1, <2>2 DEF SRInv, SRTypeOK
<1>3. ASSUME NEW g \in Hash
      PROVE  sessions'[g] = IF g = h
                THEN [identityId |-> i, device |-> d, createdAt |-> now,
                      revoked |-> FALSE, exists |-> TRUE]
                ELSE sessions[g]
  BY <1>1 DEF SRInv, SRTypeOK
<1>4. SessionFollowsDevice'
  BY <1>1, <1>3 DEF SRInv, SessionFollowsDevice, Exists, OwnerIdOf
<1>5. NothingFromTheFuture'
  BY <1>1, <1>3 DEF SRInv, NothingFromTheFuture, DRInv
<1>6. QED BY <1>2, <1>4, <1>5 DEF SRInv

\* A revocation, of one or of all, leaves sessions where they are.
LEMMA RevokeSessionInv ==
    ASSUME SRInv, DRInv', UNCHANGED <<irVars, drVars, now>>, NEW a \in Address,
           RevokeAllSessions(a) \/ \E h \in Hash : RevokeSession(a, h)
    PROVE  SRInv'
<1>1. /\ devices' = devices /\ nextId' = nextId /\ now' = now
      /\ now \in 0..MaxTime
  BY MaxTimeAssumption DEF irVars, drVars, SRInv, DRInv
<1>2. CASE RevokeAllSessions(a)
  <2>1. /\ sessions' = sessions /\ sessionCount' = sessionCount
        /\ revokedBefore' = [revokedBefore EXCEPT ![IdentityIdOf(a)] = now]
    BY <1>2 DEF RevokeAllSessions
  <2>2. SRTypeOK' /\ SessionFollowsDevice'
    BY <1>1, <2>1 DEF SRInv, SRTypeOK, SessionFollowsDevice, Exists, OwnerIdOf
  <2>3. NothingFromTheFuture'
    BY <1>1, <2>1 DEF SRInv, SRTypeOK, NothingFromTheFuture
  <2>4. QED BY <2>2, <2>3 DEF SRInv
<1>3. ASSUME NEW h \in Hash, RevokeSession(a, h) PROVE SRInv'
  <2>1. /\ sessions' = [sessions EXCEPT ![h].revoked = TRUE]
        /\ sessionCount' = sessionCount /\ revokedBefore' = revokedBefore
    BY <1>3 DEF RevokeSession
  <2>2. SRTypeOK'
    BY <2>1 DEF SRInv, SRTypeOK, Session
  <2>3. ASSUME NEW g \in Hash
        PROVE  /\ sessions'[g].exists = sessions[g].exists
               /\ sessions'[g].device = sessions[g].device
               /\ sessions'[g].identityId = sessions[g].identityId
               /\ sessions'[g].createdAt = sessions[g].createdAt
    BY <2>1 DEF SRInv, SRTypeOK, Session
  <2>4. SessionFollowsDevice' /\ NothingFromTheFuture'
    BY <1>1, <2>1, <2>3
       DEF SRInv, SessionFollowsDevice, NothingFromTheFuture, Exists, OwnerIdOf
  <2>5. QED BY <2>2, <2>4 DEF SRInv
<1>4. QED BY <1>2, <1>3

\* What happens in the other registries moves no session's device.
LEMMA RegistryStepInv ==
    ASSUME SRInv, DRNext, UNCHANGED srVars
    PROVE  SRInv'
<1>1. DRInv' /\ DeviceOwnerPermanentA
  BY DRNextInv, StepKeepsOwner DEF SRInv
<1>2. now <= now' /\ now \in Nat /\ now' \in Nat
  BY MaxTimeAssumption DEF DRNext, NewBlock, SRInv, DRInv
<1>3. SessionFollowsDevice'
  BY <1>1 DEF SRInv, SessionFollowsDevice, DeviceOwnerPermanentA, srVars, DRInv,
              ListMatchesOwner, Exists, OwnerIdOf
<1>4. SRTypeOK' /\ NothingFromTheFuture'
  BY <1>2, MaxTimeAssumption, MaxIdAssumption
     DEF SRInv, SRTypeOK, Session, NothingFromTheFuture, srVars
<1>5. QED BY <1>1, <1>3, <1>4 DEF SRInv

\* Every step keeps it.
LEMMA SRNextInv == SRInv /\ [SRNext]_srSystemVars => SRInv'
<1> SUFFICES ASSUME SRInv, [SRNext]_srSystemVars PROVE SRInv'
  OBVIOUS
<1>1. ASSUME UNCHANGED <<irVars, drVars, now>> PROVE DRInv'
  BY <1>1, DRNextInv DEF SRInv, allVars
<1>2. CASE SRUserNext /\ UNCHANGED <<irVars, drVars, now>>
  BY <1>1, <1>2, CreateSessionInv, RevokeSessionInv DEF SRUserNext
<1>3. CASE DRNext /\ UNCHANGED srVars
  BY <1>3, RegistryStepInv
<1>4. CASE UNCHANGED srSystemVars
  BY <1>1, <1>4 DEF srSystemVars, srVars, irVars, drVars, SRInv, SRTypeOK,
         SessionFollowsDevice, NothingFromTheFuture, Exists, OwnerIdOf
<1>5. QED BY <1>2, <1>3, <1>4 DEF SRNext

\* The invariant holds in every reachable state.
THEOREM SessionRegistryInvariant == SRSpec => []SRInv
  BY SRInitInv, SRNextInv, PTL DEF SRSpec

\* The state keeps its types: no identity has more than MAX_SESSIONS sessions.
THEOREM SRTypeOKHolds == SRSpec => []SRTypeOK
<1>1. SRInv => SRTypeOK
  BY DEF SRInv
<1>2. QED BY <1>1, SessionRegistryInvariant, PTL

\* A session stays under the identity of its device, whatever happens to both.
THEOREM SessionFollowsDeviceHolds == SRSpec => []SessionFollowsDevice
<1>1. SRInv => SessionFollowsDevice
  BY DEF SRInv
<1>2. QED BY <1>1, SessionRegistryInvariant, PTL

-----------------------------------------------------------------------------
\* No step takes a revocation back: flags are only set, sweeps only move forward.
LEMMA StepKeepsRevoked == ASSUME SRInv, SRNext PROVE RevokedForGoodA
<1> SUFFICES ASSUME NEW h \in Hash, sessions[h].exists, IsSessionRevoked(h)
             PROVE  IsSessionRevoked(h)'
  BY DEF RevokedForGoodA
<1>1. sessions[h].revoked \/ Swept(h)
  BY DEF IsSessionRevoked
<1>2. sessions[h].identityId \in Id
  BY SessionIdGiven
<1>3. ASSUME NEW g \in Hash, NEW i \in Id, NEW d \in Device, NEW s \in Device \cup {Zero},
             CreateSession(g, i, d, s)
      PROVE  sessions'[h] = sessions[h] /\ revokedBefore' = revokedBefore
  BY <1>3 DEF CreateSession, HashFree, SRInv, SRTypeOK
<1>4. ASSUME NEW a \in Address, NEW g \in Hash, RevokeSession(a, g)
      PROVE  /\ sessions'[h].revoked \/ sessions'[h] = sessions[h]
             /\ revokedBefore' = revokedBefore
  BY <1>4 DEF RevokeSession, SRInv, SRTypeOK, Session
<1>5. ASSUME NEW a \in Address, RevokeAllSessions(a)
      PROVE  IsSessionRevoked(h)'
  <2>1. /\ sessions' = sessions
        /\ revokedBefore' = [revokedBefore EXCEPT ![IdentityIdOf(a)] = now]
    BY <1>5 DEF RevokeAllSessions
  <2>2. revokedBefore[sessions[h].identityId] <= revokedBefore'[sessions[h].identityId]
    BY <1>2, <2>1, MaxTimeAssumption
       DEF SRInv, SRTypeOK, NothingFromTheFuture, DRInv
  <2>3. sessions[h].createdAt \in Nat /\ revokedBefore[sessions[h].identityId] \in Nat
        /\ revokedBefore'[sessions[h].identityId] \in Nat
    BY <1>2, <2>1, MaxTimeAssumption DEF SRInv, SRTypeOK, Session, DRInv
  <2>4. QED BY <1>1, <2>1, <2>2, <2>3 DEF IsSessionRevoked, Swept
<1>6. ASSUME UNCHANGED srVars PROVE IsSessionRevoked(h)'
  BY <1>1, <1>6 DEF srVars, IsSessionRevoked, Swept
<1>7. QED
  BY <1>1, <1>3, <1>4, <1>5, <1>6 DEF SRNext, SRUserNext, IsSessionRevoked, Swept

\* What is revoked once is revoked for good, also after a change of controller.
THEOREM RevokedForGoodHolds == SRSpec => RevokedForGood
<1>1. ASSUME SRInv, [SRNext]_srSystemVars PROVE [RevokedForGoodA]_srSystemVars
  BY <1>1, StepKeepsRevoked
<1>2. QED BY <1>1, SessionRegistryInvariant, PTL DEF SRSpec, RevokedForGood

\* A sweep reaches every session of the caller: none is younger than now.
THEOREM SweepCompleteHolds == SRSpec => SweepComplete
<1>1. ASSUME SRInv PROVE SweepCompleteA
  <2> SUFFICES ASSUME NEW a \in Address, RevokeAllSessions(a), NEW h \in Hash,
                      sessions[h].identityId = IdentityIdOf(a)
               PROVE  IsSessionRevoked(h)'
    BY DEF SweepCompleteA
  <2>1. /\ sessions' = sessions
        /\ revokedBefore' = [revokedBefore EXCEPT ![IdentityIdOf(a)] = now]
    BY DEF RevokeAllSessions
  <2>2. IdentityIdOf(a) \in Id
    BY <1>1, CallerIdGiven DEF RevokeAllSessions, SRInv, DRInv
  <2>3. sessions[h].createdAt <= revokedBefore'[IdentityIdOf(a)]
    BY <1>1, <2>1, <2>2 DEF SRInv, SRTypeOK, NothingFromTheFuture
  <2>4. QED BY <2>1, <2>3 DEF IsSessionRevoked, Swept
<1>2. QED BY <1>1, SessionRegistryInvariant, PTL DEF SweepComplete

\* A session becomes valid only by being created, for an active device.
LEMMA StepNeedsDevice == ASSUME SRInv, SRNext PROVE ValidSessionNeedsDeviceA
<1> SUFFICES ASSUME NEW h \in Hash, IsSessionRevoked(h), ~IsSessionRevoked(h)'
             PROVE  /\ IsDeviceActive(sessions'[h].device)
                    /\ OwnerIdOf(sessions'[h].device) = sessions'[h].identityId
  BY DEF ValidSessionNeedsDeviceA
<1>1. ~sessions[h].exists /\ sessions'[h].exists
  BY StepKeepsRevoked DEF RevokedForGoodA, IsSessionRevoked
<1>2. ASSUME NEW g \in Hash, NEW i \in Id, NEW d \in Device, NEW s \in Device \cup {Zero},
             CreateSession(g, i, d, s)
      PROVE  /\ IsDeviceActive(sessions'[h].device)
             /\ OwnerIdOf(sessions'[h].device) = sessions'[h].identityId
  BY <1>1, <1>2
     DEF CreateSession, DeviceSpeaksFor, IsDeviceActive, SRInv, SRTypeOK
<1>3. ASSUME NEW a \in Address, NEW g \in Hash, RevokeSession(a, g) PROVE FALSE
  BY <1>1, <1>3 DEF RevokeSession, IsSessionRevoked, SRInv, SRTypeOK, Session
<1>4. CASE UNCHANGED sessions
  BY <1>1, <1>4
<1>5. QED
  BY <1>2, <1>3, <1>4 DEF SRNext, SRUserNext, RevokeAllSessions, srVars

\* A site never sees a new valid session of a key that is not an active device.
THEOREM ValidSessionNeedsDeviceHolds == SRSpec => ValidSessionNeedsDevice
<1>1. ASSUME SRInv, [SRNext]_srSystemVars PROVE [ValidSessionNeedsDeviceA]_srSystemVars
  BY <1>1, StepNeedsDevice
<1>2. QED BY <1>1, SessionRegistryInvariant, PTL DEF SRSpec, ValidSessionNeedsDevice

\* Every session is filed where its controller can revoke it.
THEOREM SessionRecordsAgreeHolds == SRSpec => []SessionRecordsAgree
<1>1. SRInv => SessionRecordsAgree
  BY DEF SRInv, SessionRecordsAgree
<1>2. QED BY <1>1, SessionRegistryInvariant, PTL

\* What is revoked, singly or by a sweep, stays revoked.
THEOREM SessionsEndHolds == SRSpec => SessionsEnd
  BY RevokedForGoodHolds, SweepCompleteHolds, PTL DEF SessionsEnd

\* Both together: sessions are filed, counted and ended as the registry says.
THEOREM SessionRecordsCorrectHolds == SRSpec => SessionRecordsCorrect
BY SessionRecordsAgreeHolds, SessionsEndHolds, PTL DEF SessionRecordsCorrect
=============================================================================

--------------------------- MODULE DeviceRegistry ---------------------------
(***************************************************************************)
(* contracts/src/DeviceRegistry.sol over IdentityRegistry.sol: which device *)
(* keys speak for an identity.  The list _devicesByIdentity[i] is kept as   *)
(* the set of its members and its length, all that any function depends on  *)
(* (re-registering a revoked device appends it again).  A commitment is the *)
(* triple the hash covers.  Labels and addedAt are written, never read.     *)
(***************************************************************************)
EXTENDS IdentityRegistry, Naturals, FiniteSets

CONSTANTS
    Device,         \* device public keys, address(0) excluded
    Salt,           \* salts of the commit-reveal scheme
    Commitment,     \* the hashes anyone commits, as <<device, salt, sender>>
    VaultKey,       \* encrypted copies of a vault key
    NoKey,          \* empty bytes
    MAX_DEVICES,
    LegacyDeployed, \* both legacy addresses were given to the constructor
    LegacyUsers,    \* names the legacy IdentityRegistry knows
    LegacyDevices,  \* name -> the legacy devices of that identity
    LegacyRevoked,  \* the legacy devices that are revoked there
    LegacyKeyOf,    \* device -> its vault key in the legacy registry
    MaxTime         \* bound: the last block of a behaviour

ASSUME MaxTimeAssumption == MaxTime \in Nat \ {0}
ASSUME DeviceAssumption == /\ IsFiniteSet(Device)
                           /\ Commitment \subseteq Device \X Salt \X Address
                           /\ NoKey \notin VaultKey
                           /\ MAX_DEVICES \in Nat
ASSUME LegacyAssumption == /\ LegacyDeployed \in BOOLEAN
                           /\ LegacyUsers \subseteq Name
                           /\ LegacyDevices \in [LegacyUsers -> SUBSET Device]
                           /\ LegacyRevoked \subseteq Device
                           /\ LegacyKeyOf \in [Device -> VaultKey \cup {NoKey}]

VARIABLES
    devices,            \* device -> its record
    listed,             \* id -> the devices in _devicesByIdentity[id]
    listLength,         \* id -> the length of _devicesByIdentity[id]
    commitBlocks,       \* commitment -> block it was made in, 0 when absent
    deviceVaultKeys,    \* device -> the vault key encrypted for it
    deviceRM,           \* DeviceRegistry._recoveryManager
    migrated,           \* the ids migrateDevices has run for
    now                 \* the current block; 0 is the contract's "never"

\* The block a transaction executes in.  One clock stands for block.number and
\* block.timestamp: every block is one tick, several transactions share a block,
\* and durations (TIMELOCK) are counted in blocks.
Genesis == now = 1
NewBlock == now < MaxTime /\ now' = now + 1

drVars == <<devices, listed, listLength, commitBlocks, deviceVaultKeys, deviceRM, migrated>>

DeviceRecord == [identityId : 0..MaxId, revoked : BOOLEAN, exists : BOOLEAN]
NoDevice == [identityId |-> 0, revoked |-> FALSE, exists |-> FALSE]

DRTypeOK ==
    /\ devices \in [Device -> DeviceRecord]
    /\ listed \in [Id -> SUBSET Device]
    /\ listLength \in [Id -> 0..MAX_DEVICES]
    /\ commitBlocks \in [Commitment -> 0..MaxTime]
    /\ deviceVaultKeys \in [Device -> VaultKey \cup {NoKey}]
    /\ deviceRM \in AnyAddress
    /\ migrated \subseteq Id

DREmpty ==
    /\ devices = [d \in Device |-> NoDevice]
    /\ listed = [i \in Id |-> {}]
    /\ listLength = [i \in Id |-> 0]
    /\ commitBlocks = [c \in Commitment |-> 0]
    /\ deviceVaultKeys = [d \in Device |-> NoKey]
    /\ migrated = {}

-----------------------------------------------------------------------------
Exists(d) == devices[d].exists
IsDeviceActive(d) == Exists(d) /\ ~devices[d].revoked
OwnerIdOf(d) == devices[d].identityId

\* _getCallerIdentityId: the transaction reverts unless the caller controls one.
CallerHasIdentity(sender) == IdentityIdOf(sender) # 0

CommitDevice(c) ==
    /\ commitBlocks' = [commitBlocks EXCEPT ![c] = now]
    /\ UNCHANGED <<devices, listed, listLength, deviceVaultKeys, deviceRM, migrated>>

\* A revealed commitment must have been made in an earlier block.
RevealableSameBlock(c) == c \in Commitment /\ commitBlocks[c] # 0

Revealable(c) == c \in Commitment /\ commitBlocks[c] \in 1..(now - 1)

\* A device known already comes back only revoked, to the identity it had.
Registrable(d, i) == Exists(d) => devices[d].revoked /\ OwnerIdOf(d) = i

\* Room for n more entries in the identity's list.
HasRoom(i, n) == listLength[i] + n <= MAX_DEVICES

RegisterDevice(sender, d, salt, key) ==
    LET i == IdentityIdOf(sender)
        c == <<d, salt, sender>>
    IN  /\ CallerHasIdentity(sender)
        /\ Registrable(d, i)
        /\ Revealable(c)
        /\ HasRoom(i, 1)
        /\ commitBlocks' = [commitBlocks EXCEPT ![c] = 0]
        /\ devices' = [devices EXCEPT
              ![d] = [identityId |-> i, revoked |-> FALSE, exists |-> TRUE]]
        /\ listed' = [listed EXCEPT ![i] = @ \cup {d}]
        /\ listLength' = [listLength EXCEPT ![i] = @ + 1]
        /\ deviceVaultKeys' = IF key = NoKey THEN deviceVaultKeys
                              ELSE [deviceVaultKeys EXCEPT ![d] = key]
        /\ UNCHANGED <<deviceRM, migrated>>

\* revokeDevice and updateDeviceVaultKey: an active device of the caller's own.
OwnActive(sender, d) ==
    /\ IsDeviceActive(d)
    /\ CallerHasIdentity(sender)
    /\ OwnerIdOf(d) = IdentityIdOf(sender)

RevokeDevice(sender, d) ==
    /\ OwnActive(sender, d)
    /\ devices' = [devices EXCEPT ![d].revoked = TRUE]
    /\ UNCHANGED <<listed, listLength, commitBlocks, deviceVaultKeys, deviceRM, migrated>>

UpdateDeviceVaultKey(sender, d, key) ==
    /\ OwnActive(sender, d)
    /\ key # NoKey
    /\ deviceVaultKeys' = [deviceVaultKeys EXCEPT ![d] = key]
    /\ UNCHANGED <<devices, listed, listLength, commitBlocks, deviceRM, migrated>>

SetDeviceRM(sender, rm) ==
    /\ sender = Deployer
    /\ deviceRM = Zero
    /\ deviceRM' = rm
    /\ UNCHANGED <<devices, listed, listLength, commitBlocks, deviceVaultKeys, migrated>>

\* The loop of migrateDevices ports each legacy device no identity holds yet,
\* once; it reverts as soon as the list is full and a device is left to port.
ToPort(u) == {d \in LegacyDevices[u] : ~Exists(d)}

MigrateDevices(sender) ==
    LET i == IdentityIdOf(sender)
        u == usernameByController[sender]
    IN  /\ LegacyDeployed
        /\ CallerHasIdentity(sender)
        /\ i \notin migrated
        /\ u \in LegacyUsers
        /\ HasRoom(i, Cardinality(ToPort(u)))
        /\ migrated' = migrated \cup {i}
        /\ devices' = [d \in Device |->
              IF d \in ToPort(u)
              THEN [identityId |-> i, revoked |-> d \in LegacyRevoked, exists |-> TRUE]
              ELSE devices[d]]
        /\ listed' = [listed EXCEPT ![i] = @ \cup ToPort(u)]
        /\ listLength' = [listLength EXCEPT ![i] = @ + Cardinality(ToPort(u))]
        /\ deviceVaultKeys' = [d \in Device |->
              IF d \in ToPort(u) /\ LegacyKeyOf[d] # NoKey
              THEN LegacyKeyOf[d] ELSE deviceVaultKeys[d]]
        /\ UNCHANGED <<commitBlocks, deviceRM>>

\* revokeAllDevices walks the identity's list.
WalkedButLast(i) == IF listed[i] = {} THEN {} ELSE listed[i] \ {CHOOSE d \in listed[i] : TRUE}

Walked(i) == listed[i]

RevokeAllDevices(sender, i) ==
    /\ sender = deviceRM
    /\ devices' = [d \in Device |->
          IF d \in Walked(i) THEN [devices[d] EXCEPT !.revoked = TRUE] ELSE devices[d]]
    /\ UNCHANGED <<listed, listLength, commitBlocks, deviceVaultKeys, deviceRM, migrated>>

-----------------------------------------------------------------------------
DRUserNext ==
    \/ \E c \in Commitment : CommitDevice(c)
    \/ \E a \in Address, d \in Device, s \in Salt, k \in VaultKey \cup {NoKey} :
          RegisterDevice(a, d, s, k)
    \/ \E a \in Address, d \in Device : RevokeDevice(a, d)
    \/ \E a \in Address, d \in Device, k \in VaultKey \cup {NoKey} :
          UpdateDeviceVaultKey(a, d, k)
    \/ \E a \in Address, rm \in RMChoice : SetDeviceRM(a, rm)
    \/ \E a \in Address : MigrateDevices(a)

\* Here the RecoveryManager may do at any time what the two registries let it
\* do, alone or together; RecoveryManager.tla says when it does.
RMCallsNext ==
    \/ /\ \E a \in Address, i \in Id : RevokeAllDevices(a, i)
       /\ UNCHANGED irVars
    \/ /\ \E a \in Address, u \in Name, c \in AnyAddress : RecoverController(a, u, c)
       /\ UNCHANGED drVars
    \/ \E a \in Address, u \in Name, c \in AnyAddress :
          RecoverController(a, u, c) /\ RevokeAllDevices(a, IdOf(u))

DRNext ==
    \/ DRUserNext /\ UNCHANGED <<irVars, now>>
    \/ IRUserNext /\ UNCHANGED <<drVars, now>>
    \/ RMCallsNext /\ UNCHANGED now
    \/ NewBlock /\ UNCHANGED <<irVars, drVars>>

allVars == <<irVars, drVars, now>>

DRInit ==
    /\ IREmpty /\ identityRM = Zero
    /\ DREmpty /\ deviceRM = Zero
    /\ Genesis

DRSpec == DRInit /\ [][DRNext]_allVars

-----------------------------------------------------------------------------
(* Properties *)

\* A device is in the list of the one identity that owns it and in no other,
\* across transfers, recoveries, re-registrations and the migration: so
\* revokeAllDevices, which walks that list, misses none of its devices and
\* touches nobody else's.
ListMatchesOwner ==
    /\ \A i \in Id, d \in Device : d \in listed[i] <=> Exists(d) /\ OwnerIdOf(d) = i
    /\ \A d \in Device : Exists(d) => OwnerIdOf(d) \in 1..nextId

\* A key registered once belongs to that identity for good: no later
\* registration, migration or recovery moves it to another or forgets it.
DeviceOwnerPermanentA ==
    \A d \in Device : Exists(d) =>
        devices'[d].exists /\ devices'[d].identityId = OwnerIdOf(d)
DeviceOwnerPermanent == [][DeviceOwnerPermanentA]_allVars

\* A device that was revoked speaks again only because the wallet that controls
\* its identity at that time spends a commitment it made in an earlier block.
ReactivationCommittedA ==
    \A d \in Device : Exists(d) /\ ~IsDeviceActive(d) /\ ~devices'[d].revoked =>
        \E a \in Address, s \in Salt :
            /\ IdentityIdOf(a) = OwnerIdOf(d)
            /\ <<d, s, a>> \in Commitment
            /\ commitBlocks[<<d, s, a>>] \in 1..(now - 1)
            /\ commitBlocks'[<<d, s, a>>] = 0
ReactivationCommitted == [][ReactivationCommittedA]_allVars

\* A device is in the list of the identity that owns it and in no other
\* (DeviceRegistry.sol).
DevicesConsistent == DRTypeOK /\ ListMatchesOwner

\* A device never passes to another identity, and one that was revoked comes back
\* only by a commitment of its controller (DeviceRegistry.sol).
DevicesStay == DeviceOwnerPermanent /\ ReactivationCommitted

\* However two identities compete for a device, by pairing and by migration: it is in
\* its owner's list alone, never changes owner, and comes back from a revocation only
\* by a commitment (DeviceRegistry.sol).
DevicesCorrect == []DevicesConsistent /\ DevicesStay
=============================================================================

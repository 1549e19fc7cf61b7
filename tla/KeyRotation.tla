----------------------------- MODULE KeyRotation -----------------------------
(***************************************************************************)
(* The devices tab of the Desktop: the list, from which a device is revoked,*)
(* and the rotation of the vault key it then offers, for which the user     *)
(* pastes the keys of the devices that stay.  The new key is encrypted for  *)
(* each of them, taken into use here, the vault published under it, and all *)
(* of it announced in one transaction.  Beside it, devices the smart account*)
(* does not know are authorised again, and the current key is sent to one   *)
(* device.  DevicePairing.tla models the two cards that register devices;   *)
(* here a device is registered by a step of its own.                        *)
(*                                                                         *)
(* A vault key is its generation, numbered as it is made.  Encrypting it    *)
(* and taking it into use are one step of the Rust side; the upload is      *)
(* another, as it takes the network.  The vault's mapping on chain only     *)
(* changes by a rotation here; VaultScreen.tla models its publications.     *)
(***************************************************************************)
EXTENDS Naturals, FiniteSets, WalletWrite

CONSTANTS
    Registrable,    \* device addresses
    MaxKeys,        \* bound: vault keys made
    MaxRemountsOfTab,
    MaxSideTx       \* bound: re-authorisations and single keys sent

ASSUME RotationAssumption ==
    MaxKeys \in Nat \ {0} /\ {MaxRemountsOfTab, MaxSideTx} \subseteq Nat /\ "none" \notin Registrable

VARIABLES
    onChain,        \* device -> "absent", "active" or "revoked"
    signers,        \* authorizedDevices of the smart account
    vaultKeyOf,     \* on chain: device -> generation encrypted for it, 0 for none
    publishedKey,   \* generation the announced vault is under
    localKey,       \* generation in this computer's keyring
    keysMade,
    seen,           \* the devices and signers the tab last read
    revokeHook,
    revokingPubKey,
    pendingRemaining,   \* devices the offered rotation is for, {} when none is offered
    rotationPhase,
    rotationHook,   \* sendRotation of each mount
    batch,          \* and what its last transaction says
    rotations,      \* rotations running: set of [for, key, stage, mount]
    reauthHook,
    reauthFor,
    sendHook,       \* RedistributeVaultKey
    sendArgs,
    sideTx,         \* how many of those two were asked for
    mount           \* which mount of the tab this is

rotChainVars == <<onChain, signers, vaultKeyOf, publishedKey>>
rotKeyVars == <<localKey, keysMade>>
revokeVars == <<revokeHook, revokingPubKey>>
offerVars == <<pendingRemaining, rotationPhase, rotationHook, batch>>
reauthVars == <<reauthHook, reauthFor>>
sendVars == <<sendHook, sendArgs, sideTx>>
rotVars == <<rotChainVars, rotKeyVars, seen, revokeVars, offerVars, rotations, reauthVars, sendVars, mount>>

Generation == 0..MaxKeys
Mounts == 0..MaxRemountsOfTab
NoSend == [device |-> "none", key |-> 0]
NoBatch == [for |-> {}, key |-> 0, vault |-> 0]
ActiveSeen == {d \in Registrable : seen.devices[d] = "active"}
NeedReauth == {d \in ActiveSeen : d \notin seen.signers}

RotInit ==
    /\ onChain \in [Registrable -> {"absent", "active"}]
    /\ signers \in SUBSET {d \in Registrable : onChain[d] = "active"}
    /\ vaultKeyOf = [d \in Registrable |-> IF onChain[d] = "active" THEN 1 ELSE 0]
    /\ publishedKey = 1 /\ localKey = 1 /\ keysMade = 1
    /\ seen = [devices |-> onChain, signers |-> signers]
    /\ revokeHook = "idle" /\ revokingPubKey = "none"
    /\ pendingRemaining = {} /\ rotationPhase = "idle" /\ rotationHook = [m \in Mounts |-> "idle"] /\ batch = [m \in Mounts |-> NoBatch]
    /\ rotations = {} /\ reauthHook = "idle" /\ reauthFor = {}
    /\ sendHook = "idle" /\ sendArgs = NoSend /\ sideTx = 0 /\ mount = 0
-----------------------------------------------------------------------------
\* A device is paired, with the key this computer uses.
RegisterDevice(d) ==
    /\ onChain[d] = "absent"
    /\ onChain' = [onChain EXCEPT ![d] = "active"] /\ signers' = signers \cup {d}
    /\ vaultKeyOf' = [vaultKeyOf EXCEPT ![d] = localKey]
    /\ UNCHANGED <<publishedKey, rotKeyVars, seen, revokeVars, offerVars, rotations, reauthVars, sendVars, mount>>

\* invalidateQueries and the refetches.
Refetch ==
    /\ seen' = [devices |-> onChain, signers |-> signers] /\ seen' # seen
    /\ UNCHANGED <<rotChainVars, rotKeyVars, revokeVars, offerVars, rotations, reauthVars, sendVars, mount>>

\* handleRevoke leaves while a rotation is offered or under way.
NoRotationOpen == rotationPhase = "idle" /\ pendingRemaining = {}

PressRevoke(d) ==
    /\ d \in ActiveSeen /\ ~Busy(revokeHook) /\ NoRotationOpen
    /\ revokingPubKey' = d /\ revokeHook' = "pending"
    /\ UNCHANGED <<rotChainVars, rotKeyVars, seen, offerVars, rotations, reauthVars, sendVars, mount>>

AnswerRevoke ==
    /\ IsPending(revokeHook) /\ revokeHook' \in WalletAnswers
    /\ UNCHANGED <<rotChainVars, rotKeyVars, seen, revokingPubKey, offerVars, rotations, reauthVars, sendVars, mount>>

\* devices without the one just revoked, as the list may not have been read again.
Remaining(d) == ActiveSeen \ {d}

\* revokeDevice and removeDevice in one batch, which reverts when either does:
\* for a device revoked before, and for one the account does not know.  The
\* registry keeps the key it holds for the device.
MineRevoke ==
    /\ IsConfirming(revokeHook)
    /\ LET d == revokingPubKey IN
       IF onChain[d] = "active" /\ d \in signers
       THEN /\ onChain' = [onChain EXCEPT ![d] = "revoked"] /\ signers' = signers \ {d}
            /\ revokeHook' = "success" /\ revokingPubKey' = "none"
            /\ pendingRemaining' = IF Remaining(d) # {} THEN Remaining(d) ELSE pendingRemaining
       ELSE revokeHook' = "reverted" /\ UNCHANGED <<onChain, signers, revokingPubKey, pendingRemaining>>
    /\ UNCHANGED <<vaultKeyOf, publishedKey, rotKeyVars, seen, rotationPhase, rotationHook, batch, rotations, reauthVars, sendVars, mount>>
-----------------------------------------------------------------------------

PostponeRotation ==
    /\ pendingRemaining # {} /\ rotationPhase = "idle"
    /\ pendingRemaining' = {}
    /\ UNCHANGED <<rotChainVars, rotKeyVars, seen, revokeVars, rotationPhase, rotationHook, batch,
                   rotations, reauthVars, sendVars, mount>>

\* Every key was pasted.  generate_vault_key_hex.
ConfirmRotation ==
    /\ pendingRemaining # {} /\ rotationPhase = "idle" /\ keysMade < MaxKeys
    /\ keysMade' = keysMade + 1 /\ rotationPhase' = "rotating"
    /\ rotations' = rotations \cup
          {[for |-> pendingRemaining, key |-> keysMade', stage |-> "encrypt", mount |-> mount]}
    /\ UNCHANGED <<rotChainVars, localKey, seen, revokeVars, pendingRemaining, rotationHook,
                   batch, reauthVars, sendVars, mount>>

RotationFailed(r) ==
    /\ rotations' = rotations \ {r}
    /\ rotationPhase' = IF r.mount = mount THEN "idle" ELSE rotationPhase

\* Encrypt for each device, then rotate_vault_key: a pasted key that is wrong
\* stops the rotation before anything here changes.
EncryptAndCommitKey(r) ==
    /\ r.stage = "encrypt"
    /\ \/ /\ localKey' = r.key
          /\ rotations' = (rotations \ {r}) \cup {[r EXCEPT !.stage = "publish"]}
          /\ UNCHANGED rotationPhase
       \/ RotationFailed(r) /\ UNCHANGED localKey
    /\ UNCHANGED <<rotChainVars, keysMade, seen, revokeVars, pendingRemaining,
                   rotationHook, batch, reauthVars, sendVars, mount>>

\* vault_publish of what the vault file is under now, then the wallet is asked; a
\* tab opened since is not told.
PublishRotated(r) ==
    /\ r.stage = "publish" /\ ~Busy(rotationHook[r.mount])
    /\ \/ /\ rotations' = rotations \ {r}
          /\ batch' = [batch EXCEPT ![r.mount] = [for |-> r.for, key |-> r.key, vault |-> localKey]]
          /\ rotationHook' = [rotationHook EXCEPT ![r.mount] = "pending"]
          /\ rotationPhase' = IF r.mount = mount THEN "confirming" ELSE rotationPhase
       \/ RotationFailed(r) /\ UNCHANGED <<batch, rotationHook>>
    /\ UNCHANGED <<rotChainVars, rotKeyVars, seen, revokeVars, pendingRemaining,
                   reauthVars, sendVars, mount>>

\* A refusal is looked at by nobody: the phase stays "confirming".
AnswerRotation(m) ==
    /\ IsPending(rotationHook[m])
    /\ \E a \in WalletAnswers : rotationHook' = [rotationHook EXCEPT ![m] = a]
    /\ UNCHANGED <<rotChainVars, rotKeyVars, seen, revokeVars, pendingRemaining, rotationPhase, batch,
                   rotations, reauthVars, sendVars, mount>>

\* Slip: a revoked device is handed a key all the same.
AcceptedForAll(b) == b.for # {}

\* updateDeviceVaultKey refuses a revoked device, and the batch with it.
KeysAccepted(b) == \A d \in b.for : onChain[d] = "active"

\* updateDeviceVaultKey for each device, and updateVault.
MineRotation(m) ==
    /\ IsConfirming(rotationHook[m])
    /\ IF KeysAccepted(batch[m])
       THEN /\ vaultKeyOf' = [d \in Registrable |-> IF d \in batch[m].for THEN batch[m].key ELSE vaultKeyOf[d]]
            /\ publishedKey' = batch[m].vault
            /\ rotationHook' = [rotationHook EXCEPT ![m] = "success"]
            /\ IF m = mount THEN rotationPhase' = "idle" /\ pendingRemaining' = {}
                            ELSE UNCHANGED <<rotationPhase, pendingRemaining>>
       ELSE /\ rotationHook' = [rotationHook EXCEPT ![m] = "reverted"]
            /\ UNCHANGED <<vaultKeyOf, publishedKey, rotationPhase, pendingRemaining>>
    /\ UNCHANGED <<onChain, signers, rotKeyVars, seen, revokeVars, batch, rotations, reauthVars, sendVars, mount>>
-----------------------------------------------------------------------------
PressReauthorize ==
    /\ NeedReauth # {} /\ ~Busy(reauthHook) /\ sideTx < MaxSideTx
    /\ sideTx' = sideTx + 1
    /\ reauthHook' = "pending" /\ reauthFor' = NeedReauth
    /\ UNCHANGED <<rotChainVars, rotKeyVars, seen, revokeVars, offerVars, rotations, sendHook, sendArgs, mount>>

AnswerReauthorize ==
    /\ IsPending(reauthHook) /\ reauthHook' \in WalletAnswers
    /\ UNCHANGED <<rotChainVars, rotKeyVars, seen, revokeVars, offerVars, rotations, reauthFor, sendVars, mount>>

\* addDevice asks nothing of the registry, and reverts for a device it knows.
MineReauthorize ==
    /\ IsConfirming(reauthHook) /\ reauthFor' = {}
    /\ IF reauthFor \cap signers = {}
       THEN reauthHook' = "success" /\ signers' = signers \cup reauthFor
       ELSE reauthHook' = "reverted" /\ UNCHANGED signers
    /\ UNCHANGED <<onChain, vaultKeyOf, publishedKey, rotKeyVars, seen, revokeVars, offerVars, rotations,
                   sendVars, mount>>

\* RedistributeVaultKey encrypts the key in use here, which may have been rotated
\* and not announced.
SendCurrentKey(d) ==
    /\ d \in ActiveSeen /\ ~Busy(sendHook) /\ sideTx < MaxSideTx
    /\ sideTx' = sideTx + 1
    /\ sendHook' = "pending" /\ sendArgs' = [device |-> d, key |-> localKey]
    /\ UNCHANGED <<rotChainVars, rotKeyVars, seen, revokeVars, offerVars, rotations, reauthVars, mount>>

AnswerSend ==
    /\ IsPending(sendHook) /\ sendHook' \in WalletAnswers
    /\ UNCHANGED <<rotChainVars, rotKeyVars, seen, revokeVars, offerVars, rotations, reauthVars, sendArgs,
                   sideTx, mount>>

MineSend ==
    /\ IsConfirming(sendHook) /\ sendArgs' = NoSend
    /\ IF onChain[sendArgs.device] = "active"
       THEN sendHook' = "success" /\ vaultKeyOf' = [vaultKeyOf EXCEPT ![sendArgs.device] = sendArgs.key]
       ELSE sendHook' = "reverted" /\ UNCHANGED vaultKeyOf
    /\ UNCHANGED <<onChain, signers, publishedKey, rotKeyVars, seen, revokeVars, offerVars, rotations,
                   reauthVars, sideTx, mount>>

\* The tab is left and opened again.  A rotation and its transaction go on; others
\* the wallet was asked for are taken to be over.
RemountTab ==
    /\ mount < MaxRemountsOfTab
    /\ ~Busy(revokeHook) /\ ~Busy(reauthHook) /\ ~Busy(sendHook)
    /\ mount' = mount + 1
    /\ seen' = [devices |-> onChain, signers |-> signers]
    /\ revokeHook' = "idle" /\ revokingPubKey' = "none"
    /\ pendingRemaining' = {} /\ rotationPhase' = "idle"
    /\ reauthHook' = "idle" /\ sendHook' = "idle" /\ reauthFor' = {} /\ sendArgs' = NoSend
    /\ UNCHANGED <<rotChainVars, rotKeyVars, rotationHook, batch, rotations, sideTx>>

RotNext ==
    \/ \E d \in Registrable : RegisterDevice(d) \/ PressRevoke(d) \/ SendCurrentKey(d)
    \/ Refetch \/ AnswerRevoke \/ MineRevoke
    \/ PostponeRotation \/ ConfirmRotation
    \/ \E m \in Mounts : AnswerRotation(m) \/ MineRotation(m)
    \/ \E r \in rotations : EncryptAndCommitKey(r) \/ PublishRotated(r)
    \/ PressReauthorize \/ AnswerReauthorize \/ MineReauthorize \/ AnswerSend \/ MineSend \/ RemountTab

\* The Rust commands answer.
RotFairness == WF_rotVars(\E r \in rotations : EncryptAndCommitKey(r) \/ PublishRotated(r))

RotSpec == RotInit /\ [][RotNext]_rotVars
FairRotSpec == RotSpec /\ RotFairness
-----------------------------------------------------------------------------
(* Types.                                                                     *)
RotTypeOK ==
    /\ onChain \in [Registrable -> {"absent", "active", "revoked"}]
    /\ signers \subseteq Registrable /\ vaultKeyOf \in [Registrable -> Generation]
    /\ {publishedKey, localKey, keysMade} \subseteq 1..keysMade
    /\ {revokeHook, reauthHook, sendHook} \subseteq HookState /\ rotationHook \in [Mounts -> HookState]
    /\ IsConfirming(revokeHook) => revokingPubKey \in Registrable
    /\ pendingRemaining \subseteq Registrable
    /\ rotationPhase \in {"idle", "rotating", "confirming"}
    /\ rotationPhase = "idle" \/ pendingRemaining # {}

\* While a device is revoked nothing changes the key the registry holds for it,
\* neither a rotation that was offered before nor a key sent to it.
RevokedGetsNoNewKey ==
    [][\A d \in Registrable : onChain[d] = "revoked" /\ onChain'[d] = "revoked"
            => vaultKeyOf'[d] = vaultKeyOf[d]]_rotVars

\* A vault a rotation announces opens with the key the same transaction hands to
\* the remaining devices, as long as the tab was not left in between.
AnnouncedOpens ==
    [][publishedKey' # publishedKey /\ mount = 0 =>
          /\ \A d \in batch[0].for : vaultKeyOf'[d] = publishedKey'
          /\ rotations = {} => localKey = publishedKey']_rotVars

\* A rotation that cannot encrypt the key for a device changes nothing here: the
\* keyring's key only changes by a rotation that goes on to upload the vault.
FailedEncryptionKeepsKey ==
    [][localKey' # localKey => \E r \in rotations' : r.stage = "publish" /\ r.key = localKey']_rotVars

\* While a rotation is on screen no other device is revoked from it, so that no
\* rotation's list loses a device halfway.
ListIsKeptForRotation ==
    rotationPhase # "idle" /\ mount = 0 => \A d \in pendingRemaining : revokingPubKey # d

\* A rotation ends or asks the wallet.
RotationAnswers == []<>(rotationPhase # "rotating")

\* What the tab does not ensure (each is refuted by TLC).

\* A revocation that reverts was of a device revoked before: an active device can
\* be revoked from the list.
RevokeRevokes ==
    [][revokeHook' = "reverted" /\ revokeHook # "reverted" => onChain[revokingPubKey] # "active"]_rotVars

\* Two rotations never run at the same time.
OneRotationAtATime == Cardinality(rotations) <= 1

\* Once the screen is done with a rotation, this computer uses the announced key.
KeyInUseIsAnnounced ==
    rotationPhase = "idle" /\ pendingRemaining = {} /\ rotations = {} /\ ~Busy(rotationHook[mount])
        => localKey = publishedKey

\* A refused or reverted rotation leaves its buttons usable.
RefusalFreesTheBanner == rotationHook[mount] \in {"error", "reverted"} => rotationPhase # "confirming"

\* A rotation whose steps fail one by one keeps its list, gives a revoked device
\* nothing, announces a vault its key opens, and changes the key only when all were
\* encrypted to (ManageDevices.tsx).
RotationCorrect ==
    /\ [](RotTypeOK /\ ListIsKeptForRotation)
    /\ RevokedGetsNoNewKey /\ AnnouncedOpens /\ FailedEncryptionKeepsKey
=============================================================================

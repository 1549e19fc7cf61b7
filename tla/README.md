# TruthID: formal models

TLA+ models of TruthID, checked with TLC on small instances. The safety of every
modelled component is also proved with TLAPS, for every instance.
Every definition is translated from the code in `src/`; `PROJECT.json` ("map")
names the lines of each.

Contents: 1 the system, 2 its components, 3 modules and code, 4 runs,
5 disagreements with the documentation, 6 proofs, 7 limits and what is not
modelled, 8 plan.

## 1. The system

TruthID is a self-custodied identity. A username lives on a chain (Base) and is
controlled by a wallet, usually a smart account (`TruthIDAccount`) owned by a
hardware wallet. The identity lends its voice to *devices* (phones, laptops)
whose keys sign logins and operations of the account. A *vault* of secrets is
encrypted on the devices, stored on Arweave, and pointed at from the chain.

```
 Ledger/keyring --- Desktop app --+-- UserOperations --> EntryPoint --> TruthIDAccount
                       |          |                                        |
  Extension -- local   |          +-- transactions of the owner ---+       v
signer channel ------+                                           +->
IdentityRegistry
                       |  pairing, dead drop, LAN                  +-> DeviceRegistry
                    Mobile app --- UserOperations ---------------->+-> SessionRegistry
                       |                                           +-> VaultRegistry
                       +--- blobs, manifests ---> Arweave          +-> RecoveryManager
```

Interactions that matter:

* **Contract to contract, by synchronous call.** DeviceRegistry, SessionRegistry
  and VaultRegistry resolve their caller through
  `IdentityRegistry.getIdentityIdByController`. SessionRegistry reads device
  records. RecoveryManager calls `recoverController` and `revokeAllDevices`,
  and a refusal by either undoes everything. The account asks the device
  registry whether a signer is active.
* **App to chain, asynchronously.** An app sends `updateVault` through the
  owner's wallet or as a UserOperation and may or may not learn its fate.
* **App to Arweave.** Uploads and downloads fail one by one. The reference on
  chain is all that ties the two apps' copies together.
* **App to app.** Pairing and signing requests travel over LAN, deep links and
  a dead drop into a one-request channel.

## 2. Components

For each component: its state; its operations; what is hard; what makes it
correct. "modelled", "partly" and "not modelled" are as in `PROJECT.json`.

### 2.1 Contracts (`src/contracts/src`)

**IdentityRegistry (modelled).** State: username -> (id, controller),
controller -> username, id counter, RecoveryManager, factory. Operations:
`createIdentity`, `transferController`, `recoverController`,
`setRecoveryManager`, `setFactory`. Hard: two maps that each operation edits in
its own way, over transfers back and forth; consent given by a wallet, by its
owner before the account is deployed, or by a factory that changes. Correct
when the maps are inverse, ids are dense and permanent, and a lookup names the
controller.

**DeviceRegistry (modelled).** State: device records, list of every identity,
commitments, encrypted vault keys, migration flags. Operations:
`commitDevice`, `registerDevice`, `revokeDevice`, `updateDeviceVaultKey`,
`migrateDevices`, `revokeAllDevices`, `setRecoveryManager`. Hard: reactivation
of a revoked device, two identities racing for one key, a legacy registry that
lives on during the migration, a bounded list that counts registrations.
Correct when a device stays with its identity for good, lists and records
agree, and only a matured commitment brings a device back.

**RecoveryManager (modelled).** State: guardians (list and flags), threshold,
one proposal per identity, approval flags. Operations: `configureGuardians`,
`proposeRecovery`, `approveRecovery`, `executeRecovery`, `cancelRecovery`. Hard:
stale flags over repeated proposals and reconfigurations, a timelock during
which the controller acts, an execution over two other contracts that calls the
old controller before control moves. Correct when control moves only by the
controller or by a quorum after the delay; an execution begins without guardians
and ends without active devices. Guardians that the old controller names when it
is called survive: that is what the code gives.

**SessionRegistry (modelled).** State: session records, counts, one bulk
revocation time per identity. Operations: `createSession`, `revokeSession`,
`revokeAllSessions`. Hard: equal timestamps, devices that change state between
sessions. Correct when revocation is final and sessions follow their device.

**VaultRegistry (modelled).** State: current pointer, version, bounded history.
Operation: `updateVault`.

**TruthIDAccount (modelled).** State: authorised devices, blocked
destinations, the three registries, funds. Operations: `validateUserOp`,
`execute`, `executeBatch`, `addDevice`, `removeDevice`,
`blockDestinationForDevices`, `unblockDestinationForDevices`,
`updateRegistries`, `emergencyWithdraw`. Hard: a bundle is validated before any
of it runs; batches fail half-way; the account calls itself; one registry
takes another's role. Correct when no operation of a device changes who may act
for the account and the registries in use stay closed to devices.

**TruthIDAccountFactory (not modelled).** Predicts an address from the
registries of the moment (CREATE2 arithmetic) and deploys to it. Where its answer
is used, in the creation of an identity and in the transfer of an account, an
account is named by its owner.

### 2.2 Desktop (`src/desktop`)

**Vault file, commands, publication (partly).** State: `vault.enc`, the
baseline of the last publication, the last manifest, keys, device permissions.
Operations: edits under `lock_vault`, `vault_publish`. Hard: `vault_publish`
awaits uploads while holding a copy, crashes between two files. Correct when
what is published is the vault, and no edit is lost.

**Vault screens (partly).** The vault tab shows a copy of the file others write,
a form over one entry, attachments with pins, two buttons that publish through
wallet or device key; imports save rows one by one; the generator is a dialog
over a loop. Correct when a publication names only uploaded pins, buttons take
turns and return, an upload is announced once, no form is open on an entry that
was deleted, and nothing is imported twice.

**Vault key rotation (partly).** Revoke, then encrypt a new key for the
devices that stay, take it into use, publish, announce; each step may fail and
the tab may be left. Correct when a revoked device gets nothing and what is
announced opens.

**Request channels and their modals (modelled).** One pending request per
channel, an HTTP call that waits, a five-minute timeout, events and a query for
a window that mounts late. Correct when every caller gets the decision about
its own request, "approved" means done, and a caller that stays on the line does not
hold the channel for ever. One that hangs up may.

**Identity and account screens (modelled).** The form that creates an identity
in three transactions, withdrawal and migration to another wallet. Hard:
effects that ask the wallet, reads that unmount the form under it, wallets that
refuse, revert or never answer, or are not the one connected before. Correct
when consent, name, funds and the new owner belong together.

**Device, guardian, session and activity screens (partly).** Pairing by commitment
and reveal four seconds later; the guardians tab over four reads from nodes that
lag or fail, and requests that outlive a cancelled form; quick login and
revocations; the chunked scan of events with its cache. Correct when the reveal
opens the last commitment, decisions rest on what was read, and caches have no
gap.

**Wallets (partly).** Hardware wallets whose calls may hang, the wallet whose
key the Desktop keeps in a keyring that may not answer, and the requests made of
any of them through nodes that lag. Correct when calls that are not late do not
overlap, the account that was asked signs, and, as long as every read of the
keyring finds it, the key is never replaced and never unbacked unseen.

**UserOperation executor (modelled).** Nonce, price, estimate, two signatures,
sending and a bounded number of polls. Correct when success means executed and
a second operation has seen the first.

### 2.3 Mobile (`src/mobile`)

**Vault repository, publication and synchronisation (partly).** State: vault
file, blob cache, last manifest, baseline. Operations: edits,
`VaultPublishService.publish`, `VaultSyncService.sync`. Hard: edits between
every two awaits, failed downloads, a version that counts edits compared with
one that counts publications. Correct when a manifest's blobs are all at hand,
a pull restores exactly the manifest, and what is recorded as published is.

**Keys and UserOperations, Arweave access (partly).** As on the Desktop.
**Answers and transports (not modelled).** The phone is the environment of the
extension's modules. **User interface (not modelled).**

### 2.4 Browser extension and SDKs

**Session and passkeys (modelled).** One session in `chrome.storage.session`,
written by popup, poll and passkey signer; alarms that outlive the worker; a
page that waits 20 s for a passkey. **Edits and delivery (partly).** A queue of
proposals, changed from two contexts, sent to the Desktop, over the local network
or through a dead drop.
**Pages (modelled).** Icons, captured logins, and forms filled by whoever
answers first. Hard throughout: what was read before an await is used after it,
and every party may be stopped. Correct when entries are of the session that
was answered, no proposal is lost but those added during another change of the
queue, a phone is reached where the browser tells an address, and a form is filled
once by its own answer.

**TypeScript SDK (partly).** A challenge, a verification in two reads of a chain
that moves, a check of a session. Correct when nothing is vouched for that was
not true at some moment. **Python, Ruby and Dart SDKs, site, scripts and
packaging (not modelled)**: ports of the same calls, or no part of the protocol.

## 3. Modules and code

| module | extends | models |
|---|---|---|
| `IdentityRegistry` | | `IdentityRegistry.sol` |
| `DeviceRegistry` | IdentityRegistry | `DeviceRegistry.sol`, `IdentityResolver.sol`, the block of a transaction |
| `SessionRegistry` | DeviceRegistry | `SessionRegistry.sol` over both |
| `RecoveryManager` | DeviceRegistry | `RecoveryManager.sol` over both |
| `SocialRecovery` | | the abstract promise of recovery; instantiated by `RecoveryManager` |
| `VaultPublish` | | `VaultRegistry.sol`, the slot of one identity, and how Desktop and Mobile edit and publish |
| `VaultSync` | VaultPublish | how Mobile pulls; the composed vault system |
| `TruthIDAccount` | | `TruthIDAccount.sol` under the EntryPoint |
| `UserOpExecutor` | | `userOpExecutor.ts`, `pimlicoBundlerClient.ts` |
| `WalletWrite` | | a pair of wagmi's write and receipt hooks (a library) |
| `IdentityCreation` | WalletWrite | `App.tsx`'s choice of the screen, `CreateIdentity.tsx` |
| `AccountTransfers` | WalletWrite | `MigrateWallet.tsx`, `WithdrawETH.tsx`, `Settings.tsx` |
| `DevicePairing` | WalletWrite | `PairDevice.tsx`, `DesktopDevice.tsx` |
| `KeyRotation` | WalletWrite | `ManageDevices.tsx` and the key commands it calls |
| `GuardianScreen` | WalletWrite | `GuardianManagement.tsx` and its hooks |
| `SessionScreen` | WalletWrite | `QuickLogin.tsx`, `ActiveSessions.tsx` and their hooks |
| `VaultScreen` | | `VaultManagement.tsx`, `useVaultPublish.ts` |
| `VaultImport` | | `BitwardenImport.tsx`, `useBitwardenImport.ts`, the vault's backup |
| `PasswordGenerator` | | `passwordGenerator.ts` and its dialog |
| `ActivityScan` | | `useSmartAccountActivity.ts` |
| `HardwareWallet` | | `ConnectLedger.tsx`, `ConnectTrezor.tsx` and their connectors |
| `LocalWallet` | | `local_wallet.rs`, its connection screen and its backup gate |
| `WalletProvider` | | `evmProviderShared.ts` and the connectors' requests |
| `DesktopRequests` | | `single_slot_channel.rs`, `sign_request.rs`, `useIncomingRequest.ts`, the modals |
| `ExtensionEdits` | DesktopRequests | the extension's queue of proposals |
| `AutofillRequest` | DesktopRequests | address and card panels of a page |
| `ExtensionSession` | | `background.ts`, the popup's session, the passkey bridge |
| `LoginAutofill` | | login icons and captured logins of a page |
| `DeliveryRoutes` | | `desktopDelivery.ts`, `lanDelivery.ts`, `deadDropPublish.ts` |
| `SdkVerification` | | `sdk/typescript/client.ts` |
| `*Proofs` | some of the above, TLAPS | theorems (section 6) |
| `MC*` | several of the above, TLC | constants and compositions for TLC |

Conventions. A contract function is an action with the caller (`msg.sender`) as
its first parameter; `require` and `revert` conditions are conjuncts, so a
reverting transaction is no step. Contract calls inside a transaction are inside
its action. Each registry module has `...UserNext`, the transactions anyone may
send, which larger modules compose with `UNCHANGED` of what they do not touch.
`address(0)`, the empty string and empty bytes are `Zero`, `NoName`, `NoKey`.
Signatures are their signer; hashes of commitments are the tuple hashed.

*IdentityRegistry.* `identityByUsername`, `usernameByController`, `nextId`,
`identityRM`, `factory` are the storage. `Consents` is the signature check of
`createIdentity`: the wallet itself, or the owner of the account the factory
predicts. `Rebind` is the internal part shared by the two changes of
controller. Usernames are atoms; `ValidName` are those the format check accepts.

*DeviceRegistry.* `listed` is the set and `listLength` the length of
`identityDevices`: an item is appended at each registration, so a device paired
twice counts twice and the length is what the limit is compared with.
`migrateDevices` walks the legacy list, which is a constant: the legacy contract
may still change in reality, but it is read once per identity.

*RecoveryManager.* `isGuardian` and `approvals` are sets kept per identity,
separate from `configs[i].guardians` as in the contract, because the contract
clears flags only for the guardians of the moment. `executeRecovery` is two
actions. `ExecuteRecovery` marks the proposal executed and clears the
guardians; then the old controller is called (`emergencyWithdraw`), and as it may
call anybody, so may everybody act, in the same block: name guardians, propose,
transfer, register a device, execute for another identity. `FinishRecovery`
performs `revokeAllDevices` and `recoverController` through the very actions of
the registries, called as `RM`. `underway` holds the target of an execution in
between, and its depth, as an inner one ends first. If the end is refused the
whole transaction is undone, so that a step whose `FinishRecovery` can never come
stands for nothing; the safety stated here is of each state on the way.

*SocialRecovery.* Holder, guardians with quorum, and one attempt per identity: an
attempt opened by a guardian, voted by guardians, called off by the holder or
completed by a quorum after the delay; completed, it dismisses the guardians and
settles who takes over, at that instant, while the holder may still act.
`RecoveryManager` instantiates it with `holderBar`, `trustBar`, `attemptBar`,
`passingBar`, computed from the concrete storage; everything about devices, flags
and names is hidden.

*VaultPublish, VaultSync.* `vault`, `baseline`, `manifest` and `cache` are the
files `vault.enc`, `vault.published.enc`, `vault.manifest.enc` and
`vault_entries/`. `publishing` and `syncing` are the local variables of a
publication and a pull between two awaits. A `Value` is an entry's content; one
in `Draft` has a document not yet uploaded and `Pinned` maps it to the entry that
names the upload. A `Ref` is a value and the upload it belongs to, because
encryption is randomised: posting a value twice yields two addresses. A manifest
names a ref per entry. `inFlight` holds transactions sent and not yet decided;
`Mined` and `Failed` decide each. The parameters `crash` and `written` say how
many of several files were written before the app died. The Desktop's
actions hold one loaded copy from `DesktopStart` to `DesktopUpload`; the Mobile's
re-read the disk at each step, as the two programs do.

*TruthIDAccount.* A transaction of the EntryPoint is `ValidateUserOp` once or
more, then for each operation `NextOp`, `MakeCall` per call or `RevertOp`, then
`EndTransaction`. `saved` is what the EVM restores. `active` is what the candidate
device registries answer; other accounts change it whenever their code runs
(`ActiveElsewhere`): between transactions, between the validation and the
execution of a bundle, and inside a call of this one. `form` says whether the
outer function is `execute`, `executeBatch` or one of the account's own.

*Screens of the Desktop.* A React effect runs in the action that changes what it
depends on. A component's state is lost when it is unmounted, and what it
started goes on: requests, uploads, timers and commands are records of their
own, with what they captured when they were made (`unseen` and `lateOps` of the
vault tab, `forgotten` of the guardians tab). A hook of `WalletWrite` is
idle, pending at the wallet, refused, confirming, mined or reverted; the code
sees a revert as neither error nor success. Commands of the Rust side are one
step, except those that wait for the network or the user.

*Extension.* `stored` is the session of `chrome.storage.session`, `cur` what the
popup holds of it. An await on the network splits a handler in two actions, the
second of which uses what the first read; storage and alarms answer at once,
except for the queue of proposals: loading it and saving it are two steps, and
`writes` are those between the two.
A worker or popup that stops drops what it holds in memory.

*Slips.* An operator under a comment that starts with "Slip:", or beside the
definition it resembles, is a plausible mistake in that definition, for the
mutants of section 4.3, and used nowhere else.

*Refuted statements.* Some modules end with statements callers take for granted
and of which TLC has a counterexample; the comment at each says what happens.
They are no properties of a run (section 5).

## 4. Runs

A run explores one module, or several that share no modelled state: then one of
them moves, chosen at the start, and the others stay in an initial state. Such
a run has the behaviours of its parts and costs their sum. Parts that do share
state are composed by EXTENDS: the registries, the vault of two apps, the
channels with the extension that calls them.

Every part has one property that names what it promises of safety, a conjunction
of its type invariant and the statements above it in the module, each commented
where it is defined. It is an INVARIANT when all are about states, otherwise
a PROPERTY. What must eventually happen is one more property of the run, the
conjunction of its parts' liveness; the two are kept apart because the first is
proved (section 6) and the second is not.

### 4.1 Passing runs

| run | states | parts |
|---|---|---|
| accounts | 991 thousand | TruthIDAccount, IdentityRegistry, UserOpExecutor, GuardianScreen |
| registries | 1.2 million | SessionRegistry over DeviceRegistry over IdentityRegistry |
| recovery_manager | 553 thousand | RecoveryManager over the same, SocialRecovery |
| clients | 576 thousand | ExtensionSession, LoginAutofill, DeliveryRoutes, SdkVerification |
| local_requests | 657 thousand | DesktopRequests with ExtensionEdits and AutofillRequest |
| desktop_jobs | 427 thousand | VaultScreen, ActivityScan, DevicePairing, KeyRotation, HardwareWallet |
| desktop_dialogs | 2.4 million | IdentityCreation, AccountTransfers, SessionScreen, VaultImport, LocalWallet, WalletProvider, PasswordGenerator, VaultSync |

**accounts.** *Account:* an owner, one device, registries that are redeployed and
one that takes the RecoveryManager's place, bundles of two operations with two
calls. An operation can only invalidate what a later one of its bundle was
validated on, so two show what more do; two calls are a batch that fails half-way.
The candidate device registries change at any moment: a device is revoked between
validation and execution, and between two calls. `AccountCorrect` (a balance that
covers every payment, and registries that stay closed), `DevicesNeverPromote`,
`StaleOnlyBehindOwner`. *Identities:* five addresses, two factories that disagree
on accounts, two valid names and one that is not: with more wallets than names
every swap and take-over occurs. `IdentitiesConsistent`, `IdentityPermanent`.
*Operations:* two devices, two executions, two polls, so that one ends before the
other is mined. `OpsCorrect`, `ExecutionEnds`. *Guardians:* one other guardian,
three changes of the contract (approval, ripening, execution), two presses, so
that a form is cancelled with a request at the wallet and the next one is sent.
`GuardCorrect`.

**registries.** Two identities whose controllers commit to one device that a
legacy registry may also bring, two session hashes (symmetric), three blocks,
limits of two devices and one session. Three blocks are enough for commit,
reveal, revocation and the reveal of an old commitment; transactions of one
block share a timestamp, so that a session is created and swept in one second.
`DevicesCorrect`, `SessionRecordsCorrect`, `ValidSessionNeedsDevice`.

**recovery_manager.** One identity, an owner, a wallet to recover to, two
guardians, five guardian lists (empty, one, two, a duplicate, too long),
`TIMELOCK` 2, five blocks: a proposal is cancelled, another ripens, and a recovery
is followed by a new configuration. While an execution is out at the old
controller everybody may act, so that guardians are named and a proposal is made
from inside it. One inside another, of an identity whose wallet guards the first,
needs two identities: of that the theorems speak, not the run.
`RecoveryConsistent`, `ControlMovesByRight`, `OpenProposalFixed`,
`RecoveryCleanSlate`, and `ImplementsSocialRecovery`: every behaviour of the
contracts is one of the abstract specification.

**clients.** *Session:* two sessions, one passkey request, one stop of the
worker: a late poll of the first session meets the second. `SessionCorrect`.
*Page:* two password fields and a name field, a login with and one without a
name, two submits. `LoginCorrect`. *Routes:* three ports, four targets in
batches of two (a batch ends and another begins), no address to sweep from, one
drop. `RoutesCorrect`.
*Website:* two challenges, one check, three moves of the chain between reads.
`SdkCorrect`. Of all: `ClientsProceed` (a filled dead drop is collected, a page's
passkey request settles).

**local_requests.** Per kind of request one or two calls, one press, a remount
where the window may come late, two proposals (one is added while another change
of the queue is under way), one delivery, two fields and two panels on one form.
`ChannelCorrect`, `EditsCorrect`, `AutofillCorrect`, and `RequestsEnd` (slots of
callers that stay on the line are freed, alarms stop).

**desktop_jobs.** One entry with one file, two writes, one upload that finishes
(others may be under way beside it), a remount of the tab; two identities, two
blocks, three scans; two phones, three attempts, one revert; three generations of
the key; two hardware accounts, two screens. Each bound is the least at which a
second attempt overlaps the first. `ScreenCorrect`, `ScanCorrect`, `PairCorrect`,
`RotationCorrect`, `HardwareCorrect`, and `JobsProceed` (buttons return, the
spinner stops, a reveal follows, a rotation ends, a search goes on).

**desktop_dialogs.** Two names; two wallets, two units, two withdrawals, three
connections; two logins, one sweep; two items (symmetric), two imports, one
failure; two keys for the device (the second is made or brought while the keyring
hides the first); two hardware accounts and the local one, two requests, two logouts;
alphabets of two and one characters, lengths 1 and 3, bytes of eight values; a
laptop and a phone with two entries, two edits per copy, two manifests and a
history of two (one manifest overtaken by the other's, one entry unchanged while
the other is uploaded, one update refused). Safety only. `CreationCorrect`,
`TransferCorrect`, `SessionsCorrect`, `ImportCorrect`, `LocalCorrect`,
`ProviderCorrect`, `GenCorrect`, `SyncCorrect`, `IncrementalIsFull`.

*Fairness.* Liveness is stated where the code itself goes on: alarms and polls
of the extension (`SessionFairness`; collecting a drop is strongly fair, as
every poll may also fail), the timeouts and events of a channel
(`ChannelFairness`, `AutofillFairness`), the upload, bundler calls and polls of
a publication (`ScreenFairness`), the requests of a scan, which end or fail
(`ScanFairness`), blocks and the timer of the reveal (`PairFairness`), the Rust
commands of a rotation (`RotFairness`), the timeouts, ticks and list of a
hardware wallet (`HardwareFairness`), the calls of an execution, which return or
fail (`OpsFairness`). Nothing is assumed of users, of wallets, or of
transactions being mined. The contracts and the vault of two apps state no
liveness: nothing happens there unless somebody acts, and apps may be closed.

Deadlock is checked in the runs of the contracts. The others say
`CHECK_DEADLOCK FALSE`: their users may be done with everything the bounds allow.

### 4.2 Violation runs

`vault_stale_save`, `session_outlives_alarm`, `session_revocation`,
`activity_listed_twice`, `generator_hangs`: each states what a comment or
the test plan of the repository says and shows a behaviour of the code that
contradicts it, on a small instance. `generator_hangs` uses a real byte and one
character, as only the length matters, under fairness of the loop.

### 4.3 Mutants

Every property of a passing run has a mutant: a definition changed the way a
plausible bug would change the code (`PROJECT.json`, "mutants"), under which TLC
finds the property violated.

## 5. Disagreements

With the documentation (the violation runs):

* **SaveKeepsEdits** (`vault.rs:425`: commands that mutate exclude each other
  from load to save). `vault_publish` saves, after each document upload, the
  copy it loaded before, and takes no lock: an edit made meanwhile is lost.
* **StoredSessionWillExpire** (`background.ts:28`: the session disappears when
  its time is over, even if the popup is never opened again). A poll that waits
  for the network saves the session it read, after the alarm has removed it.
* **RevocationTakesEffect** (`PHASE.md:387`: press Revoke, the badge becomes
  "Revoked"). The transaction is sent from the wallet; for an identity that its
  smart account controls the registry refuses it.
* **ActivityIsListedOnce** (`useSmartAccountActivity.ts:124`: "already scanned to
  the latest block"). The early return is never reached: the scan starts over
  from the deployment block and appends everything again.
* **GenerationEnds** (`passwordGenerator.ts:63`). From 257 characters on the
  shuffle waits for a byte below 0.

Statements a caller may take for granted and TLC refutes, where no sentence of
the repository claims them in so many words:

* *Contracts:* no proposal is made from inside `executeRecovery`, as the
  guardians were cleared (`NoProposalFromInside`, `RecoveryManager.sol:266`: the
  old controller names new ones first, and these outlive the recovery); a device
  revoked in the registry makes no call (`RevokedMakesNoCall`,
  `TruthIDAccount.sol:361`: of what it signed before, those validated with the
  bundle are still made).
* *Vault:* a publication posts the vault (`PublishesTheVault`: a crash between
  manifest and baseline); a recorded update was accepted (`RecordedWasAccepted`: a
  failed or missing receipt returns normally); what is marked is published
  (`MarkedIsPublished`: equal versions of different contents).
* *Operations:* one reported as reverted, or failed, does nothing later
  (`RevertedDoesNothing`, `ErrorDoesNothing`).
* *Extension:* `OverlapsLoseNothing`, `RemovedStaysRemoved` (the queue of
  proposals is loaded and saved in two awaits, from popup and worker: the later
  save undoes the other change), `ListeningPhoneIsTried` (the browser tells no
  address), `RetryIsPending`, `LateFormIsOffered`, `ProposesFromASession`,
  `ProposedOnce`, `OffersAreStored`; *SDK:* `RevokedWasRevoked`,
  `MissingWasMissing`, `UnknownDeviceHasStatus`; *channels:* `RequestIsShown`,
  `NothingHidesPending`, `EverySlotIsFreed` (a caller that hangs up drops its
  timeout with the handler, and its request keeps the slot until the user decides).
* *Vault tab:* `OnePublicationAtATime`, `AnnouncedInOrder` (publications the tab no
  longer follows, and those of the modal, run beside its own),
  `DeletedStaysDeleted` (an upload's copy, or the approval of an edit, brings the
  entry back), `PinSurvivesEdit`, `FormSavesWhatItShowed`; *pairing:*
  `CancelStopsPairing`, `CardWaitsForCommit`, `RevertFreesTheForm`; *rotation:*
  `RevokeRevokes`, `OneRotationAtATime`, `KeyInUseIsAnnounced`,
  `RefusalFreesTheBanner`.
* *Creation and transfers:* `IdentityKeepsItsForm`, `BalanceMovesAlong`,
  `OneWithdrawalAtATime`, `MigrationCanBeLeft`; *guardians:* `ProposeIsOffered`,
  `EmptyFormMeansNone`, `ApprovalIsShown`, `CancelledStaysCancelled`; *sessions:*
  `ShownSessionIsRecorded`, `ActiveIsValid`, `RevokedIsRevoked`.
* *Hardware wallets and requests:* `SignerIsShown`, `SignerIsSender`,
  `OnlyTogetherClash` (of two requests made one after the other the second is
  numbered by a node that has not seen the first).
* *Local wallet:* `UsedOnlyBackedUp`; and, as a keyring that does not answer counts
  as one without a key (`config.rs:149`), `NeverOverwritten`
  (`local_wallet.rs:103-107`), `AlwaysCaught`, `BackupHoldsTheKey`.

## 6. Proofs

### 6.1 What is proved

Of the 40 properties of the passing runs, 36 are theorems: all but the liveness.
Each is stated of the component's own specification, for every value of its
constants that the named assumptions admit. A run that composes components moves
one of them at a time, so its behaviours are those of these specifications.

A proof module holds the proofs of components that belong together. For each it
states the inductive invariant as a conjunction of named parts; then come lemmas
about the operators the model is built from, the initial states, one lemma or
step per action with one per part that the action can disturb, and the theorems.

| module | component: inductive invariant | theorems about the runs' properties |
|---|---|---|
| `RegistryProofs` | IdentityRegistry: `IRInv` (IRTypeOK, RecordsWellFormed, ControllerInverse, IdsDense) | IdentitiesConsistent, IdentityPermanent |
| | DeviceRegistry: `DRInv` (IRInv, DRTypeOK, ListMatchesOwner, now in 1..MaxTime) | DevicesCorrect |
| | SessionRegistry: `SRInv` (DRInv, SRTypeOK, SessionFollowsDevice, NothingFromTheFuture) | SessionRecordsCorrect, ValidSessionNeedsDevice |
| `RecoveryManagerProofs` | RecoveryManager: `RMInv` (DRInv, RMTypeOK, FiniteGuardians, GuardiansConsistent, VotesCounted, InsideIsNew, CallsKnow; GuardiansNameable for the refinement) | RecoveryConsistent, ControlMovesByRight, OpenProposalFixed, RecoveryCleanSlate, ImplementsSocialRecovery |
| `TruthIDAccountProofs` | TruthIDAccount: `AccountInv` (AccountTypeOK, QueuedOutward, RunningOutward), `BundleInv` (with WaitingThrough, RunningThrough) | AccountCorrect, DevicesNeverPromote, StaleOnlyBehindOwner |
| | UserOpExecutor: `OpsInv` | OpsCorrect |
| | GuardianScreen: `GuardInv` (ChainInv, ReadInv, HookInv, OwnInv) | GuardCorrect |
| `VaultSyncProofs` | VaultSync over VaultPublish: `SyncInv` (SyncTyped, CacheCoversManifest, PostedCovered, PullCovered) | SyncCorrect, IncrementalIsFull |
| `ClientProofs` | LoginAutofill: `LoginInv` (IconInv, SubmitInv) | LoginCorrect |
| | DeliveryRoutes: `RoutesInv` (SearchInv, SweepInv, KuboInv) | RoutesCorrect |
| | SdkVerification: `SdkInv` (SdkTyped, CheckFine) | SdkCorrect |
| | ExtensionSession: `ExtensionInv` (ClockInv, WorkerInv, PopupInv, PageInv, SessionFine of each copy, PendingIsPolled) | SessionCorrect |
| `RequestProofs` | DesktopRequests: `ChannelInv` (ChannelTyped, WorkInv, DecisionInv) | ChannelCorrect |
| | ExtensionEdits: `EditsInv` (EditsTypeOK, NoProposalIsLost, CopiesKeep, AddsAlone, RemovalsDue) | EditsCorrect |
| | AutofillRequest: `AnswersInv` | AutofillCorrect |
| `JobsProofs` | KeyRotation: `RotInv` (KeysInv, RevokeInv, SideInv, RunningInv, AskedInv) | RotationCorrect |
| | DevicePairing: `PairInv` (PairFormInv, CommitInv, TimerInv, RevealInv) | PairCorrect |
| | HardwareWallet: `HwInv` (DeviceInv, SeekerInv, CallsInv) | HardwareCorrect |
| | ActivityScan: `ScanInv` (ScansInv, ListInv, LiveInv, SpinnerInv, SettledListIsCached) | ScanCorrect |
| | VaultScreen: `ScreenInv` (CopiesInv, FileInv, EditInv, PublishInv, SentInv) | ScreenCorrect |
| `DialogProofs` | LocalWallet: `LocalInv` (LocalShape, LocalTypeOK, GateHasKey, ConfirmedMeansCopy, UnbackedKeyIsCaught) | LocalCorrect |
| | IdentityCreation: `CreationInv` (GateInv, FormInv, FundingInv) | CreationCorrect |
| | AccountTransfers: `TransferInv` (TransferTypeOK, TransferShape, WithdrawInv, MigrateInv) | TransferCorrect |
| | SessionScreen: `ScreenInv` (RegistryFine, LoginFine, ListFine, AcrossFine) | SessionsCorrect |
| | VaultImport: `ImportInv` (ImportShape, RowsFine, ReviewIsFresh, LeftFine, SavedOrLeft, NoSilentDuplicate, TabIsTold) | ImportCorrect |
| | WalletProvider: `ProviderInv` (CacheInv, AsksInv, ChainInv) | ProviderCorrect |
| | PasswordGenerator: `GenInv` (DrawingInv, PreviewFitsOptions) | GenCorrect |

The property a run checks per component is a conjunction; where its parts speak
of single steps each has a theorem of its own first, and the theorem of the
whole combines them.

### 6.2 Why the strengthenings are needed

*Contracts.*

* *Identities.* `ControllerInverse` alone is not inductive: creating an identity
  must not meet an existing record with the new id, hence `IdsDense`, and
  records that do not exist must hold nothing (`RecordsWellFormed`).
* *Devices.* A record's identity is a real id only because `CallerResolves`
  follows from `IRInv`; a registration is therefore listed where it is owned.
* *Sessions.* `SweepComplete` compares a session's time with the time of the
  sweep; that no session and no sweep is of the future is `NothingFromTheFuture`.
* *Recovery.* `VotesCounted` counts approvals among present guardians; that
  approvals of an earlier proposal do not leak in rests on
  `GuardiansConsistent` (clearing the present guardians clears every flag that
  counts) and on the list being frozen while a proposal is open. An execution that
  is out has a target, and a proposal made from inside it is of its very block
  (`CallsKnow`, `InsideIsNew`): so no identity is executed twice at once, and what
  `FinishRecovery` hands over to is what the quorum voted for. Every step of the
  composed system is a step of the device system or leaves it alone, so `DRInv`
  is inherited rather than proved again.
* *Refinement.* The holder of id i is read through the name that carries i;
  `IdsDense` makes that name unique, so `CHOOSE` is determined (lemmas
  `HolderFacts`). `ExecuteRecovery` is the completion of the abstract attempt and
  `FinishRecovery` the take-over; whatever runs in between is an act of the holder
  or of others, as the abstract specification has it. Each concrete action maps to
  one abstract action or a stutter; `GuardiansNameable` provides the set the
  abstract action is called with.
* *Account.* A device's validated calls never lead to the account itself: this
  is true of the queue (`QueuedOutward`) and of the calls being executed
  (`RunningOutward`), and stays true whatever operations in between do to the
  blocked destinations. For `StaleOnlyBehindOwner` the invariant carries what
  validation found for the operations still to come (`WaitingThrough`) and for
  the running one at its start (`RunningThrough`), as long as no operation before
  may have moved the wall; a revert goes back to a state of which the same is
  true. What other accounts do to the registries meanwhile is no part of it: the
  account's storage decides destinations and authorised devices, and whether the
  device is active is asked at validation alone.

*Work that goes on while its screen is gone.* In most of the other models a
handler awaits something and uses afterwards what it read before. The invariant
has to say of every such piece of work what it may still do, including work no
screen follows any more:

* *Executor.* Mined operations are exactly those of nonces below the chain's, one
  of each; what an execution has seen is what was mined below its own nonce.
  That of two mined ones the later had seen the earlier follows.
* *Guardians.* A node lags one change at most (`ChainInv`), so a read is never
  older than `before`; once a read was made with no node behind, every later one
  and what the tab shows are at least as new as its own change (`OwnInv`).
  Requests of cancelled forms (`forgotten`) change the contract, not the tab.
* *Edits.* Whatever left the queue did so by a save, of a copy loaded earlier. A
  write under way holds in its copy every proposal that was queued, but those
  decided, handed over or `overlapped` (`CopiesKeep`); one that adds is alone or its
  proposal overlapped (`AddsAlone`), one that removes is due (`RemovalsDue`).
* *Vault.* `CacheCoversManifest` is not inductive: a publication writes its
  manifest long after it has posted the blobs, so the posted manifest must
  already be covered (`PostedCovered`), and a pull downloads only what changed
  since a manifest that another publication may have replaced meanwhile, so
  what it leaves out must be covered on its own (`PullCovered`). `CacheGrows`
  says no step removes a blob. `IncrementalIsFull` needs only the types:
  `RefsResolve` is the fact about manifests it is made of.
* *Session of the extension.* Storage, popup and polls hold copies of one
  session. A copy is fine when it was answered as it says (`SessionFine`), and
  every handler keeps this of the copy it holds, however long ago it read it.
* *Icons, logins.* `OneIconPerField` is not inductive: a field whose icon is
  still to come has none. `asking` counts the answers due, one at most, and none
  once there is an icon. A repeated login needs the order of the submits.
* *Routes.* A Desktop that was there all along is on a port still to come or on
  the one that answered; a phone is, if there is a sweep, in a batch that has not
  gone by; the node holds what earlier calls left in it.
* *SDK.* A verification that is under way has seen every state since its first
  read; so an answer put together from two reads was true at one of them.
* *Channels.* Approvals of one request overlap when its modal is mounted again.
  `WorkInv` counts, per request, the effects done and those still to be done
  against the presses of the user.
* *Rotation.* While the tab was never left, the key in use is the one of the
  rotation that goes on, and the batch the wallet is asked to sign announces it
  (`RunningInv`, `AskedInv`); after a remount this is no longer so, and the
  property says no more.
* *Pairing.* Form, commitment on its way and on chain, timer and reveal are
  copies of one attempt; which of them share a salt is `CommitInv`, `TimerInv`
  and `RevealInv`.
* *Hardware wallet.* At most one call is not late, and the screen waits for that
  one (`CallsInv`).
* *Activity.* Of the scans that were started one at most is not cancelled; it
  began from the cache as it is (`LiveInv`) and its chunks continue it without
  a gap.
* *Vault tab.* Copies of the vault are about (file, list, upload, those of uploads
  no tab follows), and no pin in any of them was not uploaded (`CopiesInv`).
  `deleted` is what the user deleted and nobody brought back; such an entry is
  neither in file nor list, so that no form is opened on it. An announcement still
  to be made is of an upload not announced yet, and of one such only (`SentInv`).
* *Creation.* A form that was left has a request at the wallet, which may still
  be signed (`late`): one form at most gets past the registration, and only one
  transfer is asked for by it (`FundingInv`).
* *Transfers.* What the wallet was asked to sign belongs to the screen that
  waits for it (`MigrateInv`); requests are counted against submissions.
* *Sessions.* What the tab read was on the chain, which forgets nothing.
* *Imports.* As long as imports do not overlap, what a review shows as new is not
  in the vault (`ReviewIsFresh`), and what an import was asked for is saved or
  still ahead of it (`SavedOrLeft`).
* *Wallets.* The nonces of an account's pool run from the mined ones on without a
  gap, unless a request strayed to another account (`Unbroken`, `Strayed`); so
  the next nonce is free, none waits for ever, and a node that is behind gives a
  nonce that is taken, not one too high. A local wallet
  has two keys only after a read missed one (`missed`), and `ConfirmedMeansCopy` and
  `UnbackedKeyIsCaught` speak of a device whose reads missed none. Its screens and
  its gate are shown only with a key (`GateHasKey`), so all are proved together.
* *Password generator.* What is drawn is not shown before it is shuffled, so its
  state between two turns of a loop is described (`DrawingInv`): it is made of
  the selected categories, each of which is in it from its first draw on. That
  no index is favoured is division with a remainder: replacing index `i` by `j`
  maps the bytes taken that give `i` one to one to those that give `j`.

### 6.3 What proving changed in the models

Three statements that TLC had passed on the small instances were not true in
general, or not for the reason given; each is corrected in its module:

* `ClashNeedsCompany` (WalletProvider): a request that was alone and stayed
  connected may find its nonce taken by another one of its account, one that
  outlived a logout (`Strayed`). The instance has too few requests to show it.
* `PendingStaysShown` (DesktopRequests): with three requests an event still on
  its way hides the pending one. The stronger form is kept as a refuted
  statement, `NothingHidesPending`.
* `DeletedStaysDeleted` (VaultScreen): the copy an upload saves may bring a deleted
  entry back, as in the code. It is a refuted statement now; what holds of the
  tab itself is `FormIsOfNoDeleted`.

The categories of `PasswordGenerator` are places counted by cardinality rather
than a sequence sorted and flattened by folds, about which nothing can be proved.
Two arms of a `CASE` in `VaultScreen` overlapped; they are disjoint now. Several
assumptions on constants that had been silent are named: a positive number of
ports, targets and keys, finite sets of guardians, drops and items, at least one
of each where the code presumes one.

### 6.4 Assumptions, and what stays with TLC

The proofs use the named assumptions on constants and no others: finite sets
of devices, guardians, fields, requests and drops; values such as `Zero`,
`NoName`, `NoKey`, `"none"` outside the sets they stand against; bounds that are
natural numbers, positive where there is one to begin with; an owner who is not
a device, an account that is not among the contracts it calls. TLC evaluates
each of them on the instances of section 4.

What stays with TLC:

* `ClientsProceed`, `RequestsEnd`, `JobsProceed`, `ExecutionEnds`: liveness, since
  the prover has no rule for fairness or `ENABLED`.
* The refuted statements of section 5.


## 7. Limits

What each model leaves out, beyond the payloads and encodings that are atoms
everywhere:

* *Blocks.* One clock for block numbers and timestamps; durations in blocks.
* *Recovery.* The call of the old controller inside `executeRecovery` is a window
  in which anybody acts, any number of times: a wallet that is no contract, or an
  account that only pays, does less. A window whose end would be refused is undone
  in the chain and stays open in the model, so that its states are more than the
  chain's. `emergencyWithdraw` is in `TruthIDAccount`, not composed with it.
* *Account.* Funds are a small bounded number; gas is a prefund of 0 or 1. A call
  of the account to another contract changes nothing the model has, except in
  device registries, which anybody's code may change during it. A failing
  validation rejects the whole bundle, so it is no step. In `Vault*` the account's
  nonce is represented by the vault's version, the only operations there being
  `updateVault`.
* *Vault.* Repository calls (load, change, save) are atomic; the Mobile's capture
  of version, content and entries is one step; a pull reads the reference and
  the manifest in one step. An upload of several entries is one step whose
  failure is `Abandon`. Profile names, device permissions and legacy blobs that
  hold a whole vault are left out. A document is not replaced by another while
  its upload is under way.
* *Vault key.* `KeyRotation` follows who holds which key and what is announced;
  the files that the Desktop's command rewrites one after the other are not in it,
  so a crash between two of them is not either. `AnnouncedOpens` speaks of a tab
  that was never left.
* *Two parties.* One laptop and one phone: the interplay of two phones goes through
  the same registry and manifests, and is not checked.
* *Desktop.* A Rust command is one step unless it awaits; one window; one
  channel of requests stands for all of them, which share nothing. WalletConnect
  and wagmi are libraries, known by how the code uses them: a request is
  answered, refused or never answered. In the screens a wallet's error means that
  nothing was sent; that a transaction may be accepted while the app is told of a
  failure is in `WalletProvider`. Choosing and parsing the file of an import is one
  step. `OneCallAtATime` counts the calls the screen waits for: one that timed out
  may still be at the device.
* *Wallets.* A node's view of an account's pool is any earlier one. A keyring
  that does not answer is taken for an empty one call by call; the key of a device
  lies in it or in the file, and what other programs do to either is left out.
* *Extension.* One page with one form; one session; the proposals a button sends
  are read in the press; the message that starts the polling of a dead drop
  arrives (`popup/main.ts:104` calls it best effort: if it is lost the popup alone
  polls); the recognition of fields is left to the page.

### Not modelled

* *Account factory.* It keeps no state but the accounts it made, and its
  prediction is arithmetic over hashes. A change of registries between prediction
  and deployment would need addresses with their inputs in the identity model.
* *Mobile transports.* The phone answers over the local network, over a dead
  drop, both or not at all: it is the environment of the extension's
  modules. Its own queues and deep links hold no state that the others read.
* *Mobile user interface and platform autofill.* Screens and bridges to the
  operating system over services that are modelled.
* *Python, Ruby and Dart SDKs.* Ports of the calls of the TypeScript SDK, which
  is the one followed line by line.
* *Site, deployment, packaging, integration tests.* No part of the protocol at run
  time.
* *Pure code.* Encodings, encryption, APDUs and protobuf, key derivation, QR
  codes, TOTP and layout: their correctness is a matter of values, not of the
  order of steps, and a unit test reaches it.

## 8. Plan

1. Proofs: that `ExtensionSession` and `AutofillRequest` implement an abstract
   request answered once (as `RecoveryManager` does `SocialRecovery`);
   `VaultSync` for phones that share a registry.
2. `KeyRotation` with the command's files as separate steps and a crash
   between them, and a cache that is set aside when it cannot be read.
3. The fields of a vault entry under concurrent updates, load and save of the
   repository as two steps, the Mobile's capture of a publication in its parts.
4. The account factory with `IdentityRegistry`: a controller that is a predicted
   address, under changes of registries and factories.
5. The phone's transports as a module of their own, composed with the
   extension's session, and two phones over one vault.

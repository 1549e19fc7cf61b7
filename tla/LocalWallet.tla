----------------------------- MODULE LocalWallet -----------------------------
(***************************************************************************)
(* The wallet whose key the Desktop keeps itself.  A device has one such    *)
(* key, made here or restored from a backup of the vault; losing it loses   *)
(* the identity, so that a backup is asked for before the key is used, by   *)
(* the screen that makes it and, should that be interrupted, by App when it *)
(* starts.  App also asks for the password of the app, if there is one.     *)
(*                                                                         *)
(* The key lies in the keyring of the system or, where that does not        *)
(* answer, in a file; a keyring that is locked, denied or down reads as one *)
(* without a key.  A command to the Rust side is one step, with what its    *)
(* reads of the key found.  Choosing a file takes the user, and connecting  *)
(* goes through wagmi.                                                      *)
(***************************************************************************)
EXTENDS Naturals, FiniteSets

CONSTANTS
    Keys,       \* private keys
    NoKey       \* no local wallet where it was looked for

VARIABLES
    store,      \* the key in the keyring and the one in the file
    missed,     \* keys of the device that a read did not find
    confirmed,  \* on disk: the key has been backed up
    backed,     \* keys that a backup holds, or that the user vouched for
    lock,       \* the app has a password
    shell,      \* the running app: is it locked, does it need a backup
    fresh,      \* a key came since the app started
    inUse,      \* wagmi is connected with the local wallet
    joining,    \* connections asked for: by the "screen", by one that was left
    step,       \* the screen that connects a local wallet
    gate,       \* the export in the gate that is shown
    leftOpen,   \* a file dialog outlives its gate
    restoring   \* Settings is restoring a backup

keyVars == <<store, missed, confirmed, backed>>
localVars == <<keyVars, lock, shell, fresh, inUse, joining, step, gate, leftOpen, restoring>>

ASSUME LocalAssumption == NoKey \notin Keys

Unknown == [locked |-> "unknown", needsBackup |-> "unknown"]
Answer(b) == IF b THEN "yes" ELSE "no"

\* The keys this device keeps.
Kept == {store.ring, store.file} \ {NoKey}

LocalInit ==
    /\ store = [ring |-> NoKey, file |-> NoKey] /\ missed = {}
    /\ confirmed = FALSE /\ backed = {} /\ lock = FALSE
    /\ shell = Unknown /\ fresh = FALSE /\ inUse = FALSE /\ joining = {}
    /\ step = "closed" /\ gate = "idle" /\ leftOpen = FALSE /\ restoring = FALSE

ShellShown == shell.locked = "no" /\ shell.needsBackup = "no"
\* The gate, inside the screen or in place of the app.
GateShown == step = "created" \/ (shell.locked = "no" /\ shell.needsBackup = "yes")
-----------------------------------------------------------------------------
\* get_keyring_or_file: a keyring that does not answer hides its key, and its key
\* hides the file's.
Seen == IF store.ring = NoKey THEN {store.file} ELSE {store.ring, store.file}

InKeyring(k) == [ring |-> k, file |-> NoKey]

\* A read that finds k.  A key found in the file is moved to the keyring, if that
\* takes it now.
Reads(k) ==
    /\ k \in Seen
    /\ missed' = missed \cup (Kept \ {k})
    /\ \/ store' = store
       \/ k = store.file /\ k # NoKey /\ store' = InKeyring(k)

\* set_keyring_or_file.
Writes(k) == store' \in {InKeyring(k), [store EXCEPT !.file = k]}

\* A new key is none that was there before.
New(k) == k \in Keys \ (Kept \cup missed \cup backed)
-----------------------------------------------------------------------------
\* The app is closed and started again; wagmi connects a wallet that says it may.
Authorized(k) == k # NoKey

Restart ==
    /\ shell' = Unknown /\ fresh' = FALSE
    /\ \E k \in Seen : Reads(k) /\ inUse' \in {FALSE, Authorized(k)}
    /\ joining' = {} /\ step' = "closed" /\ gate' = "idle" /\ leftOpen' = FALSE /\ restoring' = FALSE
    /\ UNCHANGED <<confirmed, backed, lock>>

\* useAppLock, when App mounts; the password is kept as the key is.
CheckLock ==
    /\ shell.locked = "unknown"
    /\ \E found \in {lock, FALSE} : shell' = [shell EXCEPT !.locked = Answer(found)]
    /\ UNCHANGED <<keyVars, lock, fresh, inUse, joining, step, gate, leftOpen, restoring>>

Unlock ==
    /\ shell.locked = "yes"
    /\ shell' = [shell EXCEPT !.locked = "no"]
    /\ UNCHANGED <<keyVars, lock, fresh, inUse, joining, step, gate, leftOpen, restoring>>

\* "Forgot your password?"  A keyring that does not answer keeps it.
ResetLock ==
    /\ shell.locked = "yes"
    /\ lock' \in {FALSE, lock}
    /\ shell' = [shell EXCEPT !.locked = "no"]
    /\ UNCHANGED <<keyVars, fresh, inUse, joining, step, gate, leftOpen, restoring>>

\* Settings.
SetLock ==
    /\ ShellShown
    /\ lock' = ~lock
    /\ UNCHANGED <<keyVars, shell, fresh, inUse, joining, step, gate, leftOpen, restoring>>

NeedsBackup(k) == k # NoKey /\ ~confirmed

\* useLocalWalletBackupGate, when App mounts.
CheckBackup ==
    /\ shell.needsBackup = "unknown"
    /\ \E k \in Seen : Reads(k) /\ shell' = [shell EXCEPT !.needsBackup = Answer(NeedsBackup(k))]
    /\ UNCHANGED <<confirmed, backed, lock, fresh, inUse, joining, step, gate, leftOpen, restoring>>
-----------------------------------------------------------------------------
\* The choice of wallets; a key that is found is not made again.
OpenLocalWallet ==
    /\ ShellShown /\ ~inUse /\ step = "closed"
    /\ \E k \in Seen : Reads(k) /\ step' = IF k = NoKey THEN "intro" ELSE "existing"
    /\ UNCHANGED <<confirmed, backed, lock, shell, fresh, inUse, joining, gate, leftOpen, restoring>>

Leave == /\ joining' = IF "screen" \in joining THEN {"orphan"} ELSE joining
         /\ leftOpen' = (leftOpen \/ gate = "exporting")
         /\ gate' = "idle"

GoBack ==
    /\ step # "closed"
    /\ step' = "closed" /\ Leave
    /\ UNCHANGED <<keyVars, lock, shell, fresh, inUse, restoring>>

\* Slip: local_wallet_generate does not look whether there is a key.
Vacant(k) == TRUE

\* local_wallet_generate refuses where it finds a key.
NoKeyYet(k) == k = NoKey

Create ==
    /\ step = "intro"
    /\ \E found \in Seen : NoKeyYet(found) /\ missed' = missed \cup (Kept \ {found})
    /\ \E k \in Keys : New(k) /\ Writes(k)
    /\ fresh' = TRUE /\ step' = "created" /\ gate' = "idle"
    /\ UNCHANGED <<confirmed, backed, lock, shell, inUse, joining, leftOpen, restoring>>

\* What the gate leads to: the connection, or the app.  The gate is gone.
Proceed ==
    IF step = "created"
    THEN /\ step' = "connecting" /\ joining' = joining \cup {"screen"}
         /\ UNCHANGED shell
    ELSE /\ shell' = [shell EXCEPT !.needsBackup = "no"]
         /\ UNCHANGED <<step, joining>>

PressExport ==
    /\ GateShown /\ gate # "exporting"
    /\ gate' = "exporting"
    /\ UNCHANGED <<keyVars, lock, shell, fresh, inUse, joining, step, leftOpen, restoring>>

\* vault_export_backup puts the key it finds in the file, or none.
BackupWritten == \E k \in Seen : Reads(k) /\ backed' = backed \cup ({k} \ {NoKey})

\* The dialog was closed, or the file not written.
ExportFails ==
    /\ gate = "exporting"
    /\ gate' \in {"idle", "error"}
    /\ UNCHANGED <<keyVars, lock, shell, fresh, inUse, joining, step, leftOpen, restoring>>

\* The effect confirms the backup that was written, unless that fails.
ExportEnds ==
    /\ gate = "exporting"
    /\ BackupWritten
    /\ \/ confirmed' = TRUE /\ gate' = "idle" /\ Proceed
       \/ gate' = "done" /\ UNCHANGED <<confirmed, shell, step, joining>>
    /\ UNCHANGED <<lock, fresh, inUse, leftOpen, restoring>>

\* A dialog whose gate is gone confirms nothing.
ForgottenExportEnds ==
    /\ leftOpen
    /\ leftOpen' = FALSE
    /\ BackupWritten \/ UNCHANGED <<store, missed, backed>>
    /\ UNCHANGED <<confirmed, lock, shell, fresh, inUse, joining, step, gate, restoring>>

\* "I already have a backup elsewhere."
Vouch ==
    /\ GateShown
    /\ backed' = backed \cup Kept
    /\ confirmed' = TRUE
    /\ leftOpen' = (leftOpen \/ gate = "exporting") /\ gate' = "idle"
    /\ Proceed
    /\ UNCHANGED <<store, missed, lock, fresh, inUse, restoring>>

ConnectExisting ==
    /\ step = "existing" /\ "screen" \notin joining
    /\ joining' = joining \cup {"screen"}
    /\ UNCHANGED <<keyVars, lock, shell, fresh, inUse, step, gate, leftOpen, restoring>>

\* A connected wallet closes the choice of wallets.
ConnectSucceeds ==
    /\ \E r \in joining : joining' = IF joining = {r} THEN {} ELSE {"orphan"}
    /\ \E k \in Seen \ {NoKey} : Reads(k)
    /\ inUse' = TRUE /\ step' = "closed"
    /\ leftOpen' = (leftOpen \/ gate = "exporting") /\ gate' = "idle"
    /\ UNCHANGED <<confirmed, backed, lock, shell, fresh, restoring>>

\* The gate is shown again, although the backup is confirmed.
ConnectFails ==
    /\ \E r \in joining :
          /\ joining' = joining \ {r}
          /\ step' = IF r = "screen" /\ step = "connecting" THEN "created" ELSE step
    /\ \E k \in Seen : Reads(k)
    /\ UNCHANGED <<confirmed, backed, lock, shell, fresh, inUse, gate, leftOpen, restoring>>

Logout ==
    /\ ShellShown /\ inUse
    /\ inUse' = FALSE
    /\ UNCHANGED <<keyVars, lock, shell, fresh, joining, step, gate, leftOpen, restoring>>

RestoreBackup ==
    /\ ShellShown /\ ~restoring
    /\ restoring' = TRUE
    /\ UNCHANGED <<keyVars, lock, shell, fresh, inUse, joining, step, gate, leftOpen>>

\* A backup brings its key where none is found, and proves that there is a copy;
\* marking that may fail.
BringKey(b) ==
    /\ NoKey \in Seen
    /\ missed' = missed \cup Kept
    /\ Writes(b) /\ backed' = backed \cup {b}
    /\ confirmed' \in {TRUE, confirmed} /\ fresh' = TRUE

\* Otherwise: the dialog was closed, there is no key in it, it is this device's,
\* or another, which is refused.
BackupRestored ==
    /\ restoring
    /\ restoring' = FALSE
    /\ \/ \E b \in Keys : BringKey(b)
       \/ /\ \E k \in Seen : Reads(k)
          /\ UNCHANGED <<confirmed, backed, fresh>>
    /\ UNCHANGED <<lock, shell, inUse, joining, step, gate, leftOpen>>

LocalNext ==
    \/ Restart \/ CheckLock \/ Unlock \/ ResetLock \/ SetLock \/ CheckBackup
    \/ OpenLocalWallet \/ GoBack \/ Create \/ PressExport \/ ExportFails \/ ExportEnds
    \/ ForgottenExportEnds \/ Vouch \/ ConnectExisting \/ ConnectSucceeds \/ ConnectFails
    \/ Logout \/ RestoreBackup \/ BackupRestored

LocalSpec == LocalInit /\ [][LocalNext]_localVars
-----------------------------------------------------------------------------
(* Types.                                                                     *)
LocalTypeOK ==
    /\ store.ring \in Keys \cup {NoKey} /\ store.file \in Keys \cup {NoKey}
    /\ missed \subseteq Keys /\ backed \subseteq Keys
    /\ shell.locked \in {"unknown", "yes", "no"} /\ shell.needsBackup \in {"unknown", "yes", "no"}
    /\ joining \subseteq {"screen", "orphan"} /\ ("screen" \in joining => step \in {"existing", "connecting"})
    /\ step \in {"closed", "intro", "existing", "created", "connecting"}
    /\ step \in {"existing", "created", "connecting"} => Kept # {}
    /\ gate = "exporting" => GateShown

\* The device loses a key only after a read did not find it: neither making a key
\* when a restored backup has brought one meanwhile, nor a backup replaces a key
\* that is found.
KeyIsKept == [][Kept \ Kept' \subseteq missed']_localVars

\* As long as every read found the device's key, it has one key at most, and a
\* backup it takes for confirmed holds this key, or the user vouched for it.
ConfirmedMeansCopy ==
    missed = {} => /\ \A k, l \in Kept : k = l
                   /\ confirmed => Kept \subseteq backed

\* The app lets nobody past the gate with a key it has not seen backed up, unless
\* the key came since the app started or a read did not find it.
UnbackedKeyIsCaught ==
    shell.needsBackup = "no" /\ Kept # {} /\ ~confirmed => fresh \/ missed # {}

\* The gate is not to be avoided: no wallet is used that was not backed up (refuted:
\* a key just made is offered as an existing one after going back).
UsedOnlyBackedUp == inUse => confirmed \/ shell.needsBackup # "no"

\* No key is overwritten by making another (local_wallet.rs:103-107; refuted: a
\* keyring that does not answer while the key is looked for and takes the new one).
NeverOverwritten == [][Kept \subseteq Kept']_localVars

\* A key that is not backed up is caught when the app starts (refuted: the keyring
\* does not answer then, and the app goes on as without a local wallet).
AlwaysCaught == shell.needsBackup = "no" /\ Kept # {} /\ ~confirmed => fresh

\* A confirmed backup holds the key, or the user vouched for it (refuted: the
\* keyring does not answer while the backup is written, which leaves the key out).
BackupHoldsTheKey == confirmed => Kept \subseteq backed

\* Through crashes, refused dialogs and restores, and with a keyring that may not
\* answer: a key is lost only after a read did not find it, and as long as every
\* read finds it, its confirmed backup is there or was vouched for and a key
\* without one is caught at the gate (local_wallet.rs, config.rs,
\* useLocalWalletBackupGate.ts).
LocalCorrect ==
    /\ [](LocalTypeOK /\ ConfirmedMeansCopy /\ UnbackedKeyIsCaught)
    /\ KeyIsKept
=============================================================================

---------------------------- MODULE DialogProofs ----------------------------
(***************************************************************************)
(* The dialogs of the Desktop with a wallet that may refuse, revert or     *)
(* never answer, for any wallets, names, items and accounts: LocalWallet,  *)
(* IdentityCreation, AccountTransfers, SessionScreen, VaultImport,         *)
(* WalletProvider and PasswordGenerator, in that order.                    *)
(***************************************************************************)
EXTENDS IdentityCreation, AccountTransfers, SessionScreen, VaultImport,
    LocalWallet, WalletProvider, PasswordGenerator, FiniteSetTheorems, FunctionTheorems, TLAPS

-----------------------------------------------------------------------------
(*****************************************************************************)
(* LocalWallet.  A key is lost only after a read did not find it.  As long   *)
(* as every read finds it, it stays the only one, is backed up once that is  *)
(* confirmed, and does not get past the start of the app before.             *)
(*****************************************************************************)

Stores == [ring : Keys \cup {NoKey}, file : Keys \cup {NoKey}]

LocalShape ==
    /\ store \in Stores
    /\ confirmed \in BOOLEAN /\ lock \in BOOLEAN /\ fresh \in BOOLEAN
    /\ shell \in [locked : {"unknown", "yes", "no"}, needsBackup : {"unknown", "yes", "no"}]

\* What is asked about or taken for backed up is a key that is there.
GateHasKey == confirmed \/ shell.needsBackup = "yes" => Kept # {}

LocalInv ==
    LocalShape /\ LocalTypeOK /\ GateHasKey /\ ConfirmedMeansCopy /\ UnbackedKeyIsCaught

-----------------------------------------------------------------------------
LEMMA LocalInitInv == ASSUME LocalInit PROVE LocalInv
<1> USE DEF LocalInit, Unknown, Kept
<1>1. LocalShape BY DEF LocalShape, Stores
<1>2. LocalTypeOK BY DEF LocalTypeOK, GateShown
<1>3. GateHasKey BY DEF GateHasKey
<1>4. ConfirmedMeansCopy BY DEF ConfirmedMeansCopy
<1>5. UnbackedKeyIsCaught BY DEF UnbackedKeyIsCaught
<1>6. QED BY <1>1, <1>2, <1>3, <1>4, <1>5 DEF LocalInv

\* What a read and a write of the key make of the device's keys.
LEMMA ReadFacts ==
    ASSUME LocalInv, NEW k, Reads(k)
    PROVE  /\ store' \in Stores /\ k \in Keys \cup {NoKey}
           /\ Kept' \subseteq Kept
           /\ Kept # {} => Kept' # {}
           /\ Kept \ Kept' \subseteq missed' /\ missed \subseteq missed' /\ missed' \subseteq Keys
           /\ k = NoKey => Kept \subseteq missed'
           /\ k # NoKey => k \in Kept'
           /\ missed' = {} => Kept \subseteq {k}
<1> USE DEF Stores, Kept, InKeyring
<1>1. /\ store \in Stores /\ missed \subseteq Keys
      /\ k \in Seen /\ missed' = missed \cup (Kept \ {k})
      /\ store' = store \/ (k = store.file /\ k # NoKey /\ store' = InKeyring(k))
  BY DEF LocalInv, LocalShape, LocalTypeOK, Reads
<1>2. k \in {store.ring, store.file} BY <1>1 DEF Seen
<1>3. CASE store' = store
  BY <1>1, <1>2, <1>3
<1>4. CASE k = store.file /\ k # NoKey /\ store' = InKeyring(k)
  BY <1>1, <1>2, <1>4
<1>5. QED BY <1>1, <1>3, <1>4

LEMMA WriteFacts ==
    ASSUME LocalInv, NEW k \in Keys, Writes(k)
    PROVE  /\ store' \in Stores /\ k \in Kept' /\ Kept' \subseteq Kept \cup {k}
<1>1. store \in Stores BY DEF LocalInv, LocalShape
<1>2. store' = InKeyring(k) \/ store' = [store EXCEPT !.file = k] BY DEF Writes
<1>3. QED BY <1>1, <1>2, LocalAssumption DEF Stores, Kept, InKeyring

\* A step that reads the key, or leaves it, and touches neither what is backed up
\* nor the gate of the app.
LEMMA ReadingInv ==
    ASSUME LocalInv, NEW k, Reads(k), UNCHANGED <<confirmed, shell>>,
           backed \subseteq backed', backed' \subseteq Keys, fresh' = fresh, lock' \in BOOLEAN
    PROVE  LocalShape' /\ GateHasKey' /\ ConfirmedMeansCopy' /\ UnbackedKeyIsCaught'
<1>1. LocalShape' BY ReadFacts DEF LocalInv, LocalShape
<1>2. GateHasKey' BY ReadFacts DEF LocalInv, GateHasKey
<1>3. ConfirmedMeansCopy'
  <2> SUFFICES ASSUME missed' = {}
               PROVE  (\A i, j \in Kept : i = j)' /\ (confirmed => Kept \subseteq backed)'
    BY DEF ConfirmedMeansCopy
  <2>1. missed = {} /\ Kept' \subseteq Kept BY ReadFacts
  <2>2. QED BY <2>1 DEF LocalInv, ConfirmedMeansCopy
<1>4. UnbackedKeyIsCaught' BY ReadFacts DEF LocalInv, UnbackedKeyIsCaught
<1>5. QED BY <1>1, <1>2, <1>3, <1>4

LEMMA StillTyped ==
    ASSUME LocalInv, NEW k, Reads(k)
    PROVE  /\ store'.ring \in Keys \cup {NoKey} /\ store'.file \in Keys \cup {NoKey}
           /\ missed' \subseteq Keys
           /\ Kept # {} => Kept' # {}
BY ReadFacts DEF Stores

LEMMA RestartInv == ASSUME LocalInv, Restart PROVE LocalInv'
<1>1. PICK k : Reads(k) BY DEF Restart
<1>2. /\ shell' = Unknown /\ fresh' = FALSE /\ UNCHANGED <<confirmed, backed, lock>>
      /\ joining' = {} /\ step' = "closed" /\ gate' = "idle"
  BY DEF Restart
<1>3. LocalShape' BY <1>1, <1>2, ReadFacts DEF LocalInv, LocalShape, Unknown
<1>4. LocalTypeOK' BY <1>1, <1>2, StillTyped DEF LocalInv, LocalTypeOK, Unknown
<1>5. GateHasKey' BY <1>1, <1>2, ReadFacts DEF LocalInv, GateHasKey, Unknown
<1>6. ConfirmedMeansCopy'
  <2> SUFFICES ASSUME missed' = {}
               PROVE  (\A i, j \in Kept : i = j)' /\ (confirmed => Kept \subseteq backed)'
    BY DEF ConfirmedMeansCopy
  <2>1. missed = {} /\ Kept' \subseteq Kept BY <1>1, ReadFacts
  <2>2. QED BY <1>2, <2>1 DEF LocalInv, ConfirmedMeansCopy
<1>7. UnbackedKeyIsCaught' BY <1>2 DEF UnbackedKeyIsCaught, Unknown
<1>8. QED BY <1>3, <1>4, <1>5, <1>6, <1>7 DEF LocalInv

\* The app is let through by a read that found no key, or by a key that is backed up.
LEMMA CheckBackupInv == ASSUME LocalInv, CheckBackup PROVE LocalInv'
<1>1. PICK k \in Seen : Reads(k) /\ shell' = [shell EXCEPT !.needsBackup = Answer(NeedsBackup(k))]
  BY DEF CheckBackup
<1>2. /\ shell.needsBackup = "unknown"
      /\ UNCHANGED <<confirmed, backed, lock, fresh, inUse, joining, step, gate, leftOpen, restoring>>
  BY DEF CheckBackup
<1>3. /\ shell'.locked = shell.locked
      /\ shell'.needsBackup = Answer(NeedsBackup(k))
      /\ shell' \in [locked : {"unknown", "yes", "no"}, needsBackup : {"unknown", "yes", "no"}]
  BY <1>1 DEF LocalInv, LocalShape, Answer
<1>4. LocalShape' BY <1>1, <1>2, <1>3, ReadFacts DEF LocalInv, LocalShape
<1>5. LocalTypeOK'
  BY <1>1, <1>2, <1>3, StillTyped DEF LocalInv, LocalTypeOK, GateShown, Answer
<1>6. GateHasKey'
  BY <1>1, <1>2, <1>3, ReadFacts DEF LocalInv, GateHasKey, Answer, NeedsBackup
<1>7. ConfirmedMeansCopy'
  <2> SUFFICES ASSUME missed' = {}
               PROVE  (\A i, j \in Kept : i = j)' /\ (confirmed => Kept \subseteq backed)'
    BY DEF ConfirmedMeansCopy
  <2>1. missed = {} /\ Kept' \subseteq Kept BY <1>1, ReadFacts
  <2>2. QED BY <1>2, <2>1 DEF LocalInv, ConfirmedMeansCopy
<1>8. UnbackedKeyIsCaught'
  <2>1. CASE k = NoKey
    BY <1>1, <2>1, ReadFacts DEF UnbackedKeyIsCaught
  <2>2. CASE k # NoKey
    BY <1>2, <1>3, <2>2 DEF UnbackedKeyIsCaught, Answer, NeedsBackup
  <2>3. QED BY <2>1, <2>2
<1>9. QED BY <1>4, <1>5, <1>6, <1>7, <1>8 DEF LocalInv

\* A key comes: the device had none, or a read missed it.
LEMMA NewKeyInv ==
    ASSUME LocalInv, NEW k \in Keys, Writes(k), missed' = missed \cup Kept, fresh' = TRUE,
           NEW more \in SUBSET {k}, backed' = backed \cup more,
           confirmed' = confirmed \/ (confirmed' = TRUE /\ k \in more),
           UNCHANGED <<lock, shell>>
    PROVE  LocalShape' /\ GateHasKey' /\ ConfirmedMeansCopy' /\ UnbackedKeyIsCaught'
<1>1. Kept' # {} /\ store' \in Stores BY WriteFacts
<1>2. LocalShape' BY <1>1 DEF LocalInv, LocalShape
<1>3. GateHasKey' BY <1>1 DEF GateHasKey
<1>4. ConfirmedMeansCopy'
  <2> SUFFICES ASSUME missed' = {}
               PROVE  (\A i, j \in Kept : i = j)' /\ (confirmed => Kept \subseteq backed)'
    BY DEF ConfirmedMeansCopy
  <2>1. Kept = {} OBVIOUS
  <2>2. Kept' = {k} BY <2>1, WriteFacts
  <2>3. ~confirmed BY <2>1 DEF LocalInv, GateHasKey
  <2>4. QED BY <2>2, <2>3
<1>5. UnbackedKeyIsCaught' BY DEF UnbackedKeyIsCaught
<1>6. QED BY <1>2, <1>3, <1>4, <1>5

LEMMA CreateInv == ASSUME LocalInv, Create PROVE LocalInv'
<1>1. missed' = missed \cup Kept
  BY DEF Create, NoKeyYet, Kept
<1>2. PICK k \in Keys : Writes(k) BY DEF Create
<1>3. /\ fresh' = TRUE /\ step' = "created" /\ gate' = "idle" /\ step = "intro"
      /\ UNCHANGED <<confirmed, backed, lock, shell, inUse, joining, leftOpen, restoring>>
  BY DEF Create
<1>4. LocalShape' /\ GateHasKey' /\ ConfirmedMeansCopy' /\ UnbackedKeyIsCaught'
  <2>1. backed' = backed \cup {} /\ {} \in SUBSET {k} BY <1>3
  <2>2. QED BY <1>1, <1>2, <1>3, <2>1, NewKeyInv
<1>5. LocalTypeOK'
  <2>1. /\ store'.ring \in Keys \cup {NoKey} /\ store'.file \in Keys \cup {NoKey} /\ Kept' # {}
    BY <1>2, WriteFacts DEF Stores
  <2>2. missed' \subseteq Keys BY <1>1 DEF LocalInv, LocalTypeOK, Kept
  <2>3. QED BY <1>3, <2>1, <2>2 DEF LocalInv, LocalTypeOK
<1>6. QED BY <1>4, <1>5 DEF LocalInv

LEMMA BackupRestoredInv == ASSUME LocalInv, BackupRestored PROVE LocalInv'
<1>1. UNCHANGED <<lock, shell, inUse, joining, step, gate, leftOpen>> BY DEF BackupRestored
<1>2. CASE \E b \in Keys : BringKey(b)
  <2>1. PICK b \in Keys : BringKey(b) BY <1>2
  <2>2. /\ missed' = missed \cup Kept /\ Writes(b) /\ backed' = backed \cup {b}
        /\ confirmed' \in {TRUE, confirmed} /\ fresh' = TRUE
    BY <2>1 DEF BringKey
  <2>3. LocalShape' /\ GateHasKey' /\ ConfirmedMeansCopy' /\ UnbackedKeyIsCaught'
    <3>1. {b} \in SUBSET {b} /\ (confirmed' = confirmed \/ (confirmed' = TRUE /\ b \in {b}))
      BY <2>2
    <3>2. QED BY <1>1, <2>2, <3>1, NewKeyInv
  <2>4. LocalTypeOK'
    <3>1. /\ store'.ring \in Keys \cup {NoKey} /\ store'.file \in Keys \cup {NoKey} /\ Kept' # {}
      BY <2>2, WriteFacts DEF Stores
    <3>2. missed' \subseteq Keys /\ backed' \subseteq Keys BY <2>2 DEF LocalInv, LocalTypeOK, Kept
    <3>3. QED BY <1>1, <3>1, <3>2 DEF LocalInv, LocalTypeOK, GateShown
  <2>5. QED BY <2>3, <2>4 DEF LocalInv
<1>3. CASE (\E k \in Seen : Reads(k)) /\ UNCHANGED <<confirmed, backed, fresh>>
  <2>1. PICK k \in Seen : Reads(k) BY <1>3
  <2>2. backed \subseteq Keys /\ lock \in BOOLEAN BY DEF LocalInv, LocalShape, LocalTypeOK
  <2>3. LocalShape' /\ GateHasKey' /\ ConfirmedMeansCopy' /\ UnbackedKeyIsCaught'
    BY <1>1, <1>3, <2>1, <2>2, ReadingInv
  <2>4. LocalTypeOK' BY <1>1, <1>3, <2>1, StillTyped DEF LocalInv, LocalTypeOK, GateShown
  <2>5. QED BY <2>3, <2>4 DEF LocalInv
<1>4. QED BY <1>2, <1>3 DEF BackupRestored

-----------------------------------------------------------------------------
\* A backup is confirmed: where no read missed the key, it holds the only one.
LEMMA ConfirmedInv ==
    ASSUME LocalInv, confirmed' = TRUE, GateShown, Proceed, UNCHANGED <<lock, fresh>>,
           store' \in Stores, Kept' # {}, Kept' \subseteq Kept, missed \subseteq missed',
           missed' \subseteq Keys, backed' \subseteq Keys,
           missed' = {} => Kept' \subseteq backed',
           gate' = "idle"
    PROVE  LocalInv'
<1>1. /\ shell' \in [locked : {"unknown", "yes", "no"}, needsBackup : {"unknown", "yes", "no"}]
      /\ joining' \subseteq {"screen", "orphan"}
      /\ "screen" \in joining' => step' \in {"existing", "connecting"}
      /\ step' \in {"closed", "intro", "existing", "created", "connecting"}
  BY DEF LocalInv, LocalShape, LocalTypeOK, Proceed
<1>2. LocalShape' BY <1>1 DEF LocalInv, LocalShape
<1>3. LocalTypeOK' BY <1>1 DEF LocalTypeOK, Stores
<1>4. GateHasKey' BY DEF GateHasKey
<1>5. ConfirmedMeansCopy' BY DEF LocalInv, ConfirmedMeansCopy
<1>6. UnbackedKeyIsCaught' BY DEF UnbackedKeyIsCaught
<1>7. QED BY <1>2, <1>3, <1>4, <1>5, <1>6 DEF LocalInv

LEMMA GateShowsAKey == ASSUME LocalInv, GateShown PROVE Kept # {}
BY DEF LocalInv, LocalTypeOK, GateHasKey, GateShown

LEMMA VouchInv == ASSUME LocalInv, Vouch PROVE LocalInv'
<1>1. /\ GateShown /\ backed' = backed \cup Kept /\ confirmed' = TRUE /\ Proceed /\ gate' = "idle"
      /\ UNCHANGED <<store, missed, lock, fresh, inUse, restoring>>
  BY DEF Vouch
<1>2. Kept' = Kept BY <1>1 DEF Kept
<1>3. /\ store \in Stores /\ missed \subseteq Keys /\ backed' \subseteq Keys
  BY <1>1 DEF LocalInv, LocalShape, LocalTypeOK, Kept
<1>4. QED BY <1>1, <1>2, <1>3, GateShowsAKey, ConfirmedInv

LEMMA WrittenFacts ==
    ASSUME LocalInv, BackupWritten
    PROVE  /\ \E k \in Seen : Reads(k)
           /\ store' \in Stores /\ Kept' \subseteq Kept
           /\ Kept # {} => Kept' # {}
           /\ missed \subseteq missed' /\ missed' \subseteq Keys
           /\ backed \subseteq backed' /\ backed' \subseteq Keys
           /\ missed' = {} => Kept' \subseteq backed'
<1>1. PICK k \in Seen : Reads(k) /\ backed' = backed \cup ({k} \ {NoKey}) BY DEF BackupWritten
<1>2. backed \subseteq Keys BY DEF LocalInv, LocalTypeOK
<1>3. NoKey \notin Kept BY DEF Kept
<1>4. QED BY <1>1, <1>2, <1>3, ReadFacts

LEMMA ExportEndsInv == ASSUME LocalInv, ExportEnds PROVE LocalInv'
<1>1. /\ gate = "exporting" /\ BackupWritten /\ UNCHANGED <<lock, fresh, inUse, leftOpen, restoring>>
  BY DEF ExportEnds
<1>2. GateShown BY <1>1 DEF LocalInv, LocalTypeOK
<1>3. CASE confirmed' = TRUE /\ gate' = "idle" /\ Proceed
  BY <1>1, <1>2, <1>3, WrittenFacts, GateShowsAKey, ConfirmedInv
<1>4. CASE gate' = "done" /\ UNCHANGED <<confirmed, shell, step, joining>>
  <2>1. PICK k : Reads(k) BY <1>1, WrittenFacts
  <2>2. lock \in BOOLEAN BY DEF LocalInv, LocalShape
  <2>3. LocalShape' /\ GateHasKey' /\ ConfirmedMeansCopy' /\ UnbackedKeyIsCaught'
    BY <1>1, <1>4, <2>1, <2>2, WrittenFacts, ReadingInv
  <2>4. LocalTypeOK' BY <1>1, <1>4, <2>1, WrittenFacts, StillTyped DEF LocalInv, LocalTypeOK
  <2>5. QED BY <2>3, <2>4 DEF LocalInv
<1>5. QED BY <1>3, <1>4 DEF ExportEnds

LEMMA ForgottenInv == ASSUME LocalInv, ForgottenExportEnds PROVE LocalInv'
<1>1. UNCHANGED <<confirmed, lock, shell, fresh, inUse, joining, step, gate, restoring>>
  BY DEF ForgottenExportEnds
<1>2. CASE BackupWritten
  <2>1. PICK k : Reads(k) BY <1>2, WrittenFacts
  <2>2. lock \in BOOLEAN BY DEF LocalInv, LocalShape
  <2>3. LocalShape' /\ GateHasKey' /\ ConfirmedMeansCopy' /\ UnbackedKeyIsCaught'
    BY <1>1, <1>2, <2>1, <2>2, WrittenFacts, ReadingInv
  <2>4. LocalTypeOK'
    BY <1>1, <1>2, <2>1, WrittenFacts, StillTyped DEF LocalInv, LocalTypeOK, GateShown
  <2>5. QED BY <2>3, <2>4 DEF LocalInv
<1>3. CASE UNCHANGED <<store, missed, backed>>
  BY <1>1, <1>3 DEF LocalInv, LocalShape, LocalTypeOK, GateHasKey, ConfirmedMeansCopy,
     UnbackedKeyIsCaught, GateShown, Kept
<1>4. QED BY <1>2, <1>3 DEF ForgottenExportEnds

\* The screen reads the key when it opens and when it connects.
LEMMA ScreenReadsInv ==
    ASSUME LocalInv, OpenLocalWallet \/ ConnectSucceeds \/ ConnectFails
    PROVE  LocalInv'
<1>1. PICK k : Reads(k) BY DEF OpenLocalWallet, ConnectSucceeds, ConnectFails
<1>2. UNCHANGED <<confirmed, backed, lock, shell, fresh>>
  BY DEF OpenLocalWallet, ConnectSucceeds, ConnectFails
<1>3. backed \subseteq Keys /\ lock \in BOOLEAN BY DEF LocalInv, LocalShape, LocalTypeOK
<1>4. LocalShape' /\ GateHasKey' /\ ConfirmedMeansCopy' /\ UnbackedKeyIsCaught'
  BY <1>1, <1>2, <1>3, ReadingInv
<1>5. LocalTypeOK'
  <2>1. CASE OpenLocalWallet
    <3>1. PICK s \in Seen : Reads(s) /\ step' = IF s = NoKey THEN "intro" ELSE "existing"
      BY <2>1 DEF OpenLocalWallet
    <3>2. s # NoKey => Kept' # {} BY <3>1, ReadFacts
    <3>3. step = "closed" /\ UNCHANGED <<joining, gate>> BY <2>1 DEF OpenLocalWallet
    <3>4. QED BY <1>2, <3>1, <3>2, <3>3, StillTyped DEF LocalInv, LocalTypeOK, GateShown
  <2>2. CASE ConnectSucceeds
    BY <1>1, <1>2, <2>2, StillTyped DEF ConnectSucceeds, LocalInv, LocalTypeOK, GateShown
  <2>3. CASE ConnectFails
    BY <1>1, <1>2, <2>3, StillTyped DEF ConnectFails, LocalInv, LocalTypeOK, GateShown
  <2>4. QED BY <2>1, <2>2, <2>3
<1>6. QED BY <1>4, <1>5 DEF LocalInv

\* Every other step leaves the key and what is known of its backup alone.
LEMMA LocalStep == ASSUME LocalInv, [LocalNext]_localVars PROVE LocalInv'
<1> DEFINE Quiet == \/ CheckLock \/ Unlock \/ ResetLock \/ SetLock \/ GoBack \/ PressExport
                    \/ ExportFails \/ ConnectExisting \/ Logout \/ RestoreBackup
<1>1. ASSUME UNCHANGED keyVars, fresh' = fresh, LocalShape', shell'.needsBackup = shell.needsBackup
      PROVE  GateHasKey' /\ ConfirmedMeansCopy' /\ UnbackedKeyIsCaught'
  BY <1>1 DEF LocalInv, GateHasKey, ConfirmedMeansCopy, UnbackedKeyIsCaught, keyVars, Kept
<1>2. ASSUME Quiet
      PROVE  /\ UNCHANGED keyVars /\ fresh' = fresh /\ LocalShape'
             /\ shell'.needsBackup = shell.needsBackup /\ LocalTypeOK'
  <2> USE DEF LocalInv, LocalShape, LocalTypeOK, GateShown, keyVars, Kept
  <2>1. CASE CheckLock BY <2>1 DEF CheckLock, Answer
  <2>2. CASE Unlock BY <2>2 DEF Unlock
  <2>3. CASE ResetLock BY <2>3 DEF ResetLock
  <2>4. CASE SetLock BY <2>4 DEF SetLock
  <2>5. CASE GoBack BY <2>5 DEF GoBack, Leave
  <2>6. CASE PressExport BY <2>6 DEF PressExport
  <2>7. CASE ExportFails BY <2>7 DEF ExportFails
  <2>8. CASE ConnectExisting BY <2>8 DEF ConnectExisting
  <2>9. CASE Logout BY <2>9 DEF Logout
  <2>10. CASE RestoreBackup BY <2>10 DEF RestoreBackup
  <2>11. QED BY <1>2, <2>1, <2>2, <2>3, <2>4, <2>5, <2>6, <2>7, <2>8, <2>9, <2>10
<1>3. Quiet => LocalInv' BY <1>1, <1>2 DEF LocalInv
<1>4. CASE UNCHANGED localVars
  BY <1>4 DEF localVars, keyVars, LocalInv, LocalShape, LocalTypeOK, GateHasKey, ConfirmedMeansCopy,
     UnbackedKeyIsCaught, GateShown, Kept
<1>5. QED
  BY <1>3, <1>4, RestartInv, CheckBackupInv, ScreenReadsInv, CreateInv, ExportEndsInv, ForgottenInv,
     VouchInv, BackupRestoredInv DEF LocalNext

LEMMA LocalInvHolds == LocalSpec => []LocalInv
BY LocalInitInv, LocalStep, PTL DEF LocalSpec

-----------------------------------------------------------------------------
\* As long as every read found the key of the device, this is its only one, and a
\* backup that was confirmed holds it or the user vouched for one; and a key that is
\* not confirmed gets past the gate only in the run of the app in which it came.
THEOREM UnbackedKeyIsCaughtHolds ==
    LocalSpec => [](missed = {} => /\ confirmed => Kept \subseteq backed
                                   /\ shell.needsBackup = "no" /\ Kept # {} => confirmed \/ fresh)
<1>1. LocalInv => (missed = {} => /\ confirmed => Kept \subseteq backed
                                  /\ shell.needsBackup = "no" /\ Kept # {} => confirmed \/ fresh)
  BY DEF LocalInv, ConfirmedMeansCopy, UnbackedKeyIsCaught
<1>2. QED BY <1>1, LocalInvHolds, PTL

\* No step takes a key from the device that every read so far has found: neither
\* making one, nor a restored backup, nor a read that moves it to the keyring.
THEOREM KeyIsKeptHolds == LocalSpec => KeyIsKept
<1>1. ASSUME LocalInv, LocalNext
      PROVE  Kept \ Kept' \subseteq missed'
  <2>1. CASE \E k : Reads(k)
    BY <1>1, <2>1, ReadFacts
  <2>2. CASE missed' = missed \cup Kept
    BY <2>2
  <2>3. CASE store' = store
    BY <2>3 DEF Kept
  <2>4. QED
    <3>1. CASE Restart BY <3>1, <2>1 DEF Restart
    <3>2. CASE CheckBackup BY <3>2, <2>1 DEF CheckBackup
    <3>3. CASE OpenLocalWallet BY <3>3, <2>1 DEF OpenLocalWallet
    <3>4. CASE Create BY <3>4, <2>2 DEF Create, NoKeyYet, Kept
    <3>5. CASE ExportEnds BY <3>5, <2>1 DEF ExportEnds, BackupWritten
    <3>6. CASE ForgottenExportEnds BY <3>6, <2>1, <2>3 DEF ForgottenExportEnds, BackupWritten
    <3>7. CASE ConnectSucceeds BY <3>7, <2>1 DEF ConnectSucceeds
    <3>8. CASE ConnectFails BY <3>8, <2>1 DEF ConnectFails
    <3>9. CASE BackupRestored BY <3>9, <2>1, <2>2 DEF BackupRestored, BringKey
    <3>10. QED
      BY <1>1, <2>3, <3>1, <3>2, <3>3, <3>4, <3>5, <3>6, <3>7, <3>8, <3>9
      DEF LocalNext, CheckLock, Unlock, ResetLock, SetLock, GoBack, PressExport, ExportFails, Vouch,
          ConnectExisting, Logout, RestoreBackup, keyVars
<1>2. LocalInv /\ [LocalNext]_localVars => [Kept \ Kept' \subseteq missed']_localVars
  BY <1>1
<1>3. QED BY <1>2, LocalInvHolds, PTL DEF LocalSpec, KeyIsKept

\* The promises of the local wallet together, for any keys and any behaviour of the
\* user, the app and the keyring.
THEOREM LocalCorrectHolds == LocalSpec => LocalCorrect
<1>1. LocalInv => LocalTypeOK /\ ConfirmedMeansCopy /\ UnbackedKeyIsCaught BY DEF LocalInv
<1>2. LocalSpec => [](LocalTypeOK /\ ConfirmedMeansCopy /\ UnbackedKeyIsCaught)
  BY <1>1, LocalInvHolds, PTL
<1>3. QED BY <1>2, KeyIsKeptHolds DEF LocalCorrect

-----------------------------------------------------------------------------
(*****************************************************************************)
(* IdentityCreation.  A form that is gone leaves the request it made of the  *)
(* wallet behind.  The invariant says what such a request may still do, and  *)
(* that one form at most gets past the registration.                         *)
(*****************************************************************************)

FormRecord == [username : Maybe(Usernames), step : 0..4, consent : {"idle", "pending", "error", "success"},
               consented : Maybe(Usernames), sent : Maybe(Usernames), tx : [Steps -> HookState]]
CreationLate == [tx : Steps, arg : Usernames, hook : {"pending", "confirming"}]

\* A form: its transactions are asked for one after the other, the first for the
\* name the consent was given to.
FormFine(f) ==
    /\ f.step = 0 => f.consent = "idle"
    /\ f.consent = "pending" => f.step = 1 /\ f.username = f.consented /\ f.username \in Usernames
    /\ f.step < 2 => f.tx[1] = "idle"
    /\ f.tx[1] # "idle" => f.sent = f.consented /\ f.sent \in Usernames
    /\ f.tx[2] # "idle" => f.tx[1] = "success"
    /\ f.tx[3] # "idle" => f.tx[2] = "success"

GateInv ==
    /\ nameOf \in Maybe(Usernames) /\ taken \subseteq Usernames
    /\ deployed \in BOOLEAN /\ connected \in BOOLEAN /\ onBase \in BOOLEAN /\ vaultKeyDerived \in BOOLEAN
    /\ query \in {"loading", "error", "read"}
    /\ onChainUsername \in {"none", nameOf} /\ storedUsername \in {"none", nameOf}

FormInv ==
    /\ createForm \in FormRecord /\ FormFine(createForm)
    /\ createForm = NewForm \/ CreateShown

\* One form at most gets past the registration, and one transfer is asked for by it.
FundingInv ==
    /\ late \subseteq CreationLate
    /\ funded \in 0..MaxFunding /\ funded <= 1
    /\ nameOf = "none" => createForm.tx[1] # "success" /\ funded = 0 /\ \A r \in late : r.tx = 1
    /\ createForm.tx[1] = "success" => (\A r \in late : r.tx # 3) /\ (createForm.tx[3] = "success" \/ funded = 0)
    /\ (\E r \in late : r.tx = 3) => funded = 0
    /\ \A q, r \in late : q.tx = 3 /\ r.tx = 3 => q = r
    /\ createForm.tx[3] # "idle" \/ funded > 0 \/ (\E r \in late : r.tx = 3) => deployed

CreationInv == GateInv /\ FormInv /\ FundingInv

\* The three transactions of the form, and the form as it is mounted.
LEMMA StepsAre == Steps = {1, 2, 3}
BY DEF Steps

LEMMA NewFormFine == /\ NewForm \in FormRecord /\ FormFine(NewForm)
                     /\ \A k \in Steps : NewForm.tx[k] = "idle"
<1>1. [k \in Steps |-> "idle"] \in [Steps -> HookState] BY DEF HookState
<1>2. NewForm \in FormRecord BY <1>1 DEF NewForm, FormRecord, Maybe
<1>3. \A k \in Steps : NewForm.tx[k] = "idle" BY DEF NewForm
<1>4. FormFine(NewForm) BY <1>3, StepsAre DEF FormFine, NewForm
<1>5. QED BY <1>2, <1>3, <1>4

\* The invariant holds at the start.
LEMMA CreationInitInv == ASSUME CreationInit PROVE CreationInv
<1> USE CreationAssumption DEF CreationInit
<1>1. GateInv
  <2>1. deployed \in BOOLEAN /\ connected \in BOOLEAN /\ onBase \in BOOLEAN /\ vaultKeyDerived \in BOOLEAN
    BY Zenon
  <2>2. QED BY <2>1 DEF GateInv, Maybe
<1>2. FormInv BY NewFormFine DEF FormInv
<1>3. FundingInv BY NewFormFine, StepsAre DEF FundingInv
<1>4. QED BY <1>1, <1>2, <1>3 DEF CreationInv

\* A form that goes leaves at most the one request that is under way.
LEMMA RemountedInv ==
    ASSUME CreationInv, Remounted, UNCHANGED chainIdVars
    PROVE  FormInv' /\ FundingInv'
<1> USE StepsAre DEF chainIdVars
<1>1. CASE CreateShown'
  <2>1. UNCHANGED <<createForm, late>> BY <1>1 DEF Remounted
  <2>2. FormInv' BY <1>1, <2>1 DEF CreationInv, FormInv
  <2>3. FundingInv' BY <2>1 DEF CreationInv, FundingInv
  <2>4. QED BY <2>2, <2>3
<1>2. CASE ~CreateShown'
  <2> DEFINE gone == {[tx |-> k, arg |-> createForm.sent, hook |-> createForm.tx[k]] :
                          k \in {j \in Steps : Busy(createForm.tx[j])}}
  <2>1. createForm' = NewForm /\ late' = late \cup gone BY <1>2 DEF Remounted
  <2>2. FormInv' BY <2>1, NewFormFine DEF FormInv
  <2>3. FormFine(createForm) /\ createForm \in FormRecord BY DEF CreationInv, FormInv
  <2>4. ASSUME NEW r \in gone
        PROVE  /\ r \in CreationLate /\ r = [tx |-> r.tx, arg |-> createForm.sent, hook |-> createForm.tx[r.tx]]
               /\ r.tx = 3 => /\ createForm.tx[1] = "success" /\ createForm.tx[3] # "success"
                              /\ createForm.tx[3] # "idle"
               /\ r.tx # 1 => createForm.tx[1] = "success"
    <3>1. PICK k \in Steps : /\ Busy(createForm.tx[k])
                             /\ r = [tx |-> k, arg |-> createForm.sent, hook |-> createForm.tx[k]]
      OBVIOUS
    <3>2. createForm.tx[k] \in {"pending", "confirming"} /\ r.tx = k BY <3>1 DEF Busy
    <3>3. createForm.tx[1] # "idle" BY <2>3, <3>2 DEF FormFine
    <3>4. createForm.sent \in Usernames BY <2>3, <3>3 DEF FormFine
    <3>5. r \in CreationLate BY <3>1, <3>2, <3>4 DEF CreationLate
    <3>6. QED BY <2>3, <3>1, <3>2, <3>5 DEF FormFine
  <2> HIDE DEF gone
  <2>5. FundingInv'
    <3>1. late' \subseteq CreationLate BY <2>1, <2>4 DEF CreationInv, FundingInv
    <3>2. \A k \in Steps : createForm'.tx[k] = "idle" BY <2>1, NewFormFine
    <3>3. nameOf' = "none" => \A r \in late' : r.tx = 1 BY <2>1, <2>4 DEF CreationInv, FundingInv
    <3>4. (\E r \in late' : r.tx = 3) => funded = 0 /\ deployed
      BY <2>1, <2>4 DEF CreationInv, FundingInv
    <3>5. \A q, r \in late' : q.tx = 3 /\ r.tx = 3 => q = r
      BY <2>1, <2>4 DEF CreationInv, FundingInv
    <3>6. QED BY <3>1, <3>2, <3>3, <3>4, <3>5 DEF CreationInv, FundingInv
  <2>6. QED BY <2>2, <2>5
<1>3. QED BY <1>1, <1>2

\* A form moves without the chain.
LEMMA FormStep ==
    ASSUME CreationInv, CreateShown, createForm' \in FormRecord, FormFine(createForm'),
           UNCHANGED <<chainIdVars, gateVars, late, vaultKeyDerived>>,
           createForm'.tx[1] = "success" => createForm.tx[1] = "success",
           createForm.tx[3] = "success" => createForm'.tx[3] = "success",
           createForm'.tx[3] # "idle" => createForm.tx[3] # "idle"
    PROVE  CreationInv'
<1> USE DEF chainIdVars, gateVars
<1>1. GateInv' BY DEF CreationInv, GateInv
<1>2. FormInv' BY DEF FormInv, CreateShown, LoadingIdentity
<1>3. FundingInv' BY DEF CreationInv, FundingInv
<1>4. QED BY <1>1, <1>2, <1>3 DEF CreationInv

\* One transaction of the form gets the state h.
LEMMA TxMoves ==
    ASSUME NEW f \in FormRecord, NEW k \in Steps, NEW h \in HookState
    PROVE  /\ [f EXCEPT !.tx[k] = h] \in FormRecord
           /\ \A j \in Steps : [f EXCEPT !.tx[k] = h].tx[j] = IF j = k THEN h ELSE f.tx[j]
           /\ [f EXCEPT !.tx[k] = h].username = f.username /\ [f EXCEPT !.tx[k] = h].step = f.step
           /\ [f EXCEPT !.tx[k] = h].consent = f.consent /\ [f EXCEPT !.tx[k] = h].consented = f.consented
           /\ [f EXCEPT !.tx[k] = h].sent = f.sent
<1>1. f.tx \in [Steps -> HookState] BY DEF FormRecord
<1>2. [f.tx EXCEPT ![k] = h] \in [Steps -> HookState] BY <1>1
<1>3. [f EXCEPT !.tx[k] = h] = [f EXCEPT !.tx = [f.tx EXCEPT ![k] = h]] OBVIOUS
<1>4. [f EXCEPT !.tx = [f.tx EXCEPT ![k] = h]] \in FormRecord BY <1>2 DEF FormRecord
<1>5. QED BY <1>1, <1>3, <1>4 DEF FormRecord

\* What the form is once the consent was asked for, and once it was given.
LEMMA SubmittedForm ==
    ASSUME NEW f \in FormRecord
    PROVE  LET g == [f EXCEPT !.step = 1, !.consent = "pending", !.consented = f.username]
           IN  /\ g \in FormRecord /\ g.tx = f.tx /\ g.step = 1 /\ g.consent = "pending"
               /\ g.username = f.username /\ g.consented = f.username
<1>1. 1 \in 0..4 OBVIOUS
<1>2. f.username \in Maybe(Usernames) BY DEF FormRecord
<1>3. QED BY <1>1, <1>2 DEF FormRecord

LEMMA ConsentedForm ==
    ASSUME NEW f \in FormRecord
    PROVE  LET g == [f EXCEPT !.consent = "success", !.step = 2, !.sent = f.username]
           IN  /\ g \in FormRecord /\ g.tx = f.tx /\ g.step = 2 /\ g.consent = "success"
               /\ g.sent = f.username /\ g.consented = f.consented
               /\ [f EXCEPT !.consent = "success", !.step = 2, !.sent = f.username, !.tx[1] = "pending"]
                     = [g EXCEPT !.tx[1] = "pending"]
<1>1. 2 \in 0..4 OBVIOUS
<1>2. f.username \in Maybe(Usernames) BY DEF FormRecord
<1>3. QED BY <1>1, <1>2 DEF FormRecord

\* What a mined transaction does to the chain.
LEMMA EffectFine ==
    ASSUME CreationInv, NEW k \in Steps, NEW name \in Usernames, NEW consented, Effect(k, name, consented)
    PROVE  /\ k = 1 => UNCHANGED <<deployed, funded>>
           /\ k = 2 => deployed' = TRUE /\ funded' = funded
           /\ k = 3 => deployed' = deployed /\ funded' = funded + 1
           /\ k # 1 => nameOf' = nameOf
           /\ nameOf # "none" => nameOf' = nameOf
           /\ nameOf' \in Maybe(Usernames)
           /\ k = 1 /\ Registers(name, consented) => nameOf = "none" /\ nameOf' = name
<1>0. nameOf \in Maybe(Usernames) /\ name \in Maybe(Usernames) BY DEF CreationInv, GateInv, Maybe
<1>1. CASE k = 1
  <2>1. IF Registers(name, consented) THEN nameOf' = name /\ UNCHANGED <<deployed, funded>>
        ELSE UNCHANGED <<nameOf, deployed, funded>>
    BY <1>1 DEF Effect
  <2>2. QED BY <1>0, <1>1, <2>1 DEF Registers
<1>2. CASE k = 2
  <2>1. deployed' = TRUE /\ UNCHANGED <<nameOf, funded>> BY <1>2 DEF Effect
  <2>2. QED BY <1>0, <1>2, <2>1
<1>3. CASE k = 3
  <2>1. funded' = funded + 1 /\ UNCHANGED <<nameOf, deployed>> BY <1>3 DEF Effect
  <2>2. QED BY <1>0, <1>3, <2>1
<1>4. QED BY <1>1, <1>2, <1>3, StepsAre

\* The transactions of the form that is there, and of one that is gone.
LEMMA MineCreationInv == ASSUME CreationInv, NEW k \in Steps, MineCreation(k) PROVE CreationInv'
<1> USE StepsAre
<1> DEFINE f == createForm
           s == [f EXCEPT !.tx[k] = "success"]
<1>1. f \in FormRecord /\ FormFine(f) /\ f.tx[k] = "confirming" /\ f.step \in 0..4
  BY DEF CreationInv, FormInv, MineCreation, IsConfirming, FormRecord
<1>2. f.tx[1] # "idle" /\ f.sent \in Usernames /\ f.sent = f.consented /\ f.step >= 2 /\ f.consent # "pending"
  BY <1>1 DEF FormFine
<1>3. /\ k = 1 => UNCHANGED <<deployed, funded>>
      /\ k = 2 => deployed' = TRUE /\ funded' = funded
      /\ k = 3 => deployed' = deployed /\ funded' = funded + 1
      /\ k # 1 => nameOf' = nameOf
      /\ nameOf # "none" => nameOf' = nameOf
      /\ nameOf' \in Maybe(Usernames)
      /\ k = 1 /\ Registers(f.sent, f.consented) => nameOf = "none" /\ nameOf' = f.sent
  BY <1>2, EffectFine DEF MineCreation
<1>4. UNCHANGED <<taken, connected, onBase, query, onChainUsername, storedUsername, late, vaultKeyDerived>>
  BY DEF MineCreation, gateVars
<1>5. CreateShown /\ CreateShown'
  <2>1. f # NewForm BY <1>1, NewFormFine
  <2>2. CreateShown BY <2>1 DEF CreationInv, FormInv
  <2>3. QED BY <1>4, <2>2 DEF CreateShown, LoadingIdentity
<1>6. GateInv'
  <2>1. deployed' \in BOOLEAN
    <3>1. deployed' = TRUE \/ deployed' = deployed BY <1>3
    <3>2. QED BY <3>1, Zenon DEF CreationInv, GateInv
  <2>2. QED BY <1>3, <1>4, <2>1 DEF CreationInv, GateInv
<1>7. CASE k = 1 /\ ~Registers(f.sent, f.consented)
  <2>1. createForm' = [f EXCEPT !.tx[1] = "reverted"] BY <1>7 DEF MineCreation
  <2>2. "reverted" \in HookState BY DEF HookState
  <2>3. /\ createForm' \in FormRecord
        /\ \A j \in Steps : createForm'.tx[j] = IF j = 1 THEN "reverted" ELSE f.tx[j]
        /\ createForm'.username = f.username /\ createForm'.step = f.step /\ createForm'.consent = f.consent
        /\ createForm'.consented = f.consented /\ createForm'.sent = f.sent
    BY <1>1, <2>1, <2>2, TxMoves
  <2>4. FormFine(createForm') BY <1>1, <1>2, <1>7, <2>3 DEF FormFine
  <2>5. FormInv' BY <1>5, <2>3, <2>4 DEF FormInv
  <2>6. nameOf' = nameOf BY <1>7 DEF MineCreation, Effect
  <2>7. f.tx[2] = "idle" /\ f.tx[3] = "idle" BY <1>1, <1>7 DEF FormFine
  <2>8. FundingInv' BY <1>3, <1>4, <1>7, <2>3, <2>6, <2>7 DEF CreationInv, FundingInv
  <2>9. QED BY <1>6, <2>5, <2>8 DEF CreationInv
<1>8. CASE k > 1 \/ Registers(f.sent, f.consented)
  <2>1. createForm' = AskNext(s, k) BY <1>8 DEF MineCreation
  <2>2. "success" \in HookState /\ "pending" \in HookState BY DEF HookState
  <2>3. /\ s \in FormRecord
        /\ \A j \in Steps : s.tx[j] = IF j = k THEN "success" ELSE f.tx[j]
        /\ s.username = f.username /\ s.step = f.step /\ s.consent = f.consent
        /\ s.consented = f.consented /\ s.sent = f.sent
    BY <1>1, <2>2, TxMoves
  <2> HIDE DEF s
  <2>4. ASSUME k # 3
        PROVE  /\ createForm' \in FormRecord
               /\ \A j \in Steps : createForm'.tx[j] = IF j = k + 1 THEN "pending" ELSE s.tx[j]
               /\ createForm'.username = s.username /\ createForm'.step = k + 2 /\ createForm'.consent = s.consent
               /\ createForm'.consented = s.consented /\ createForm'.sent = s.sent
    <3> DEFINE g == [s EXCEPT !.step = k + 2]
    <3>1. k + 2 \in 0..4 /\ k + 1 \in Steps BY <2>4
    <3>2. /\ g \in FormRecord /\ g.tx = s.tx /\ g.username = s.username /\ g.step = k + 2 /\ g.consent = s.consent
          /\ g.consented = s.consented /\ g.sent = s.sent
      BY <2>3, <3>1 DEF FormRecord
    <3>3. createForm' = [g EXCEPT !.tx[k + 1] = "pending"] BY <2>1, <2>3, <2>4 DEF AskNext, FormRecord
    <3> HIDE DEF g
    <3>4. QED BY <2>2, <3>1, <3>2, <3>3, TxMoves
  <2>5. k = 3 => createForm' = s BY <2>1 DEF AskNext
  <2>6. createForm' \in FormRecord BY <2>3, <2>4, <2>5
  <2>7. FormFine(createForm')
    <3>1. CASE k = 1 BY <1>1, <1>2, <2>3, <2>4, <3>1 DEF FormFine
    <3>2. CASE k = 2 BY <1>1, <1>2, <2>3, <2>4, <3>2 DEF FormFine
    <3>3. CASE k = 3 BY <1>1, <1>2, <2>3, <2>5, <3>3 DEF FormFine
    <3>4. QED BY <3>1, <3>2, <3>3
  <2>8. FormInv' BY <1>5, <2>6, <2>7 DEF FormInv
  <2>9. FundingInv'
    <3>1. CASE k = 1
      <4>1. nameOf = "none" /\ nameOf' \in Usernames BY <1>2, <1>3, <1>8, <3>1
      <4>2. nameOf' # "none" BY <4>1, CreationAssumption
      <4>3. createForm'.tx[3] = "idle" /\ funded = 0 /\ funded' = 0 /\ (\A r \in late : r.tx = 1) /\ deployed' = deployed
        BY <1>1, <1>3, <2>3, <2>4, <3>1, <4>1 DEF FormFine, CreationInv, FundingInv
      <4>4. QED BY <1>4, <4>2, <4>3 DEF CreationInv, FundingInv
    <3>2. CASE k = 2
      <4>1. f.tx[1] = "success" /\ f.tx[3] = "idle" BY <1>1, <3>2 DEF FormFine
      <4>2. createForm'.tx[1] = "success" /\ funded' = funded /\ nameOf' = nameOf /\ deployed' = TRUE
        BY <1>3, <2>3, <2>4, <3>2, <4>1
      <4>3. QED BY <1>4, <4>1, <4>2 DEF CreationInv, FundingInv
    <3>3. CASE k = 3
      <4>1. f.tx[1] = "success" /\ f.tx[3] = "confirming" BY <1>1, <3>3 DEF FormFine
      <4>2. funded = 0 /\ deployed /\ funded < MaxFunding /\ (\A r \in late : r.tx # 3)
        BY <3>3, <4>1 DEF CreationInv, FundingInv, MineCreation
      <4>3. createForm'.tx[3] = "success" /\ funded' = 1 /\ deployed' = deployed /\ nameOf' = nameOf /\ nameOf # "none"
        BY <1>3, <2>3, <2>5, <3>3, <4>1, <4>2 DEF CreationInv, FundingInv
      <4>4. 1 \in 0..MaxFunding BY <4>2, CreationAssumption
      <4>5. QED BY <1>4, <4>2, <4>3, <4>4 DEF CreationInv, FundingInv
    <3>4. QED BY <3>1, <3>2, <3>3
  <2>10. QED BY <1>6, <2>8, <2>9 DEF CreationInv
<1>9. QED BY <1>7, <1>8

LEMMA LateAnswerInv == ASSUME CreationInv, NEW r \in late, LateAnswer(r) PROVE CreationInv'
<1> USE DEF chainIdVars, gateVars
<1>1. r \in CreationLate /\ r.hook = "pending" BY DEF LateAnswer, CreationInv, FundingInv
<1>2. PICK a \in {"error", "confirming"} :
         late' = (late \ {r}) \cup (IF a = "error" THEN {} ELSE {[r EXCEPT !.hook = a]})
  BY DEF LateAnswer, WalletAnswers
<1>3. [r EXCEPT !.hook = "confirming"] \in CreationLate /\ [r EXCEPT !.hook = "confirming"].tx = r.tx
  BY <1>1 DEF CreationLate
<1>4. late' \subseteq CreationLate BY <1>2, <1>3 DEF CreationInv, FundingInv
<1>5. \A q \in late' : q \in late \ {r} \/ q = [r EXCEPT !.hook = "confirming"] BY <1>2
<1>6. UNCHANGED <<chainIdVars, gateVars, createForm, vaultKeyDerived>> BY DEF LateAnswer
<1>7. GateInv' BY <1>6 DEF CreationInv, GateInv
<1>8. FormInv' BY <1>6 DEF CreationInv, FormInv, CreateShown, LoadingIdentity
<1>9. FundingInv'
  <2>1. \A p, q \in late' : p.tx = 3 /\ q.tx = 3 => p = q
    BY <1>3, <1>5 DEF CreationInv, FundingInv
  <2>2. \A q \in late' : \E p \in late : p.tx = q.tx BY <1>3, <1>5
  <2>3. QED BY <1>4, <1>6, <2>1, <2>2 DEF CreationInv, FundingInv
<1>10. QED BY <1>7, <1>8, <1>9 DEF CreationInv

LEMMA LateMineInv == ASSUME CreationInv, NEW r \in late, LateMine(r) PROVE CreationInv'
<1> USE StepsAre
<1>1. r \in CreationLate /\ r.tx \in Steps /\ r.arg \in Usernames BY DEF CreationInv, FundingInv, CreationLate
<1>2. /\ r.tx = 1 => UNCHANGED <<deployed, funded>>
      /\ r.tx = 2 => deployed' = TRUE /\ funded' = funded
      /\ r.tx = 3 => deployed' = deployed /\ funded' = funded + 1
      /\ r.tx # 1 => nameOf' = nameOf
      /\ nameOf # "none" => nameOf' = nameOf
      /\ nameOf' \in Maybe(Usernames)
  BY <1>1, EffectFine DEF LateMine
<1>3. UNCHANGED <<taken, gateVars, createForm, vaultKeyDerived>> /\ late' = late \ {r}
      /\ (r.tx = 3 => funded < MaxFunding)
  BY DEF LateMine
<1>4. GateInv'
  <2>1. deployed' = TRUE \/ deployed' = deployed BY <1>1, <1>2
  <2>2. deployed' \in BOOLEAN BY <2>1, Zenon DEF CreationInv, GateInv
  <2>3. QED BY <1>2, <1>3, <2>2 DEF CreationInv, GateInv, gateVars
<1>5. FormInv' BY <1>3 DEF CreationInv, FormInv, CreateShown, LoadingIdentity, gateVars
<1>6. FundingInv'
  <2>1. CASE r.tx = 3
    <3>1. funded = 0 /\ deployed /\ nameOf # "none" /\ createForm.tx[1] # "success" /\ (\A q \in late' : q.tx # 3)
      BY <1>3, <2>1 DEF CreationInv, FundingInv
    <3>2. funded' = 1 /\ 1 \in 0..MaxFunding /\ deployed' = deployed /\ nameOf' = nameOf
      BY <1>2, <1>3, <2>1, <3>1, CreationAssumption
    <3>3. QED BY <1>3, <3>1, <3>2 DEF CreationInv, FundingInv
  <2>2. CASE r.tx # 3
    <3>1. funded' = funded /\ (deployed => deployed') /\ (nameOf' = "none" => nameOf = "none")
      BY <1>1, <1>2, <2>2
    <3>2. QED BY <1>3, <3>1 DEF CreationInv, FundingInv
  <2>3. QED BY <2>1, <2>2
<1>7. QED BY <1>4, <1>5, <1>6 DEF CreationInv

\* Every step moves the wallet, the reads, the form or one transaction.
LEMMA CreationStep == ASSUME CreationInv, [CreationNext]_creationVars PROVE CreationInv'
<1> USE StepsAre
<1>n. "none" \notin Usernames BY CreationAssumption
<1>f. createForm \in FormRecord /\ FormFine(createForm) /\ createForm.step \in 0..4
      /\ createForm.username \in Maybe(Usernames)
  BY DEF CreationInv, FormInv, FormRecord
<1>1. CASE ConnectIdentity
  <2>1. FormInv' /\ FundingInv' BY <1>1, RemountedInv DEF ConnectIdentity
  <2>2. connected' \in BOOLEAN BY <1>1, Zenon DEF ConnectIdentity
  <2>3. GateInv' BY <1>1, <2>2 DEF ConnectIdentity, SaveUsername, CreationInv, GateInv, chainIdVars
  <2>4. QED BY <2>1, <2>3 DEF CreationInv
<1>2. CASE SwitchNetwork
  <2>1. FormInv' /\ FundingInv' BY <1>2, RemountedInv DEF SwitchNetwork
  <2>2. onBase' \in BOOLEAN BY <1>2 DEF SwitchNetwork
  <2>3. GateInv' BY <1>2, <2>2 DEF SwitchNetwork, CreationInv, GateInv, chainIdVars
  <2>4. QED BY <2>1, <2>3 DEF CreationInv
<1>3. CASE Disconnect
  <2>1. FormInv' /\ FundingInv' BY <1>3, RemountedInv DEF Disconnect
  <2>2. connected' \in BOOLEAN BY <1>3, Zenon DEF Disconnect
  <2>3. GateInv' BY <1>3, <2>2 DEF Disconnect, CreationInv, GateInv, chainIdVars
  <2>4. QED BY <2>1, <2>3 DEF CreationInv
<1>4. CASE ReadUsername
  <2>1. FormInv' /\ FundingInv' BY <1>4, RemountedInv DEF ReadUsername
  <2>2. GateInv' BY <1>4 DEF ReadUsername, SaveUsername, CreationInv, GateInv, chainIdVars
  <2>3. QED BY <2>1, <2>2 DEF CreationInv
<1>5. ASSUME NEW n \in Usernames, TakeUsername(n) PROVE CreationInv'
  <2> USE <1>5 DEF TakeUsername, gateVars
  <2>1. GateInv' BY DEF CreationInv, GateInv
  <2>2. FormInv' BY DEF CreationInv, FormInv, CreateShown, LoadingIdentity
  <2>3. FundingInv' BY DEF CreationInv, FundingInv
  <2>4. QED BY <2>1, <2>2, <2>3 DEF CreationInv
<1>6. ASSUME NEW n \in Usernames, EditUsername(n) PROVE CreationInv'
  <2> USE <1>6 DEF EditUsername
  <2>1. createForm.consent # "pending" BY DEF FormPending
  <2>2. createForm' = [createForm EXCEPT !.username = n] OBVIOUS
  <2>3. createForm' \in FormRecord BY <1>f, <2>2 DEF FormRecord, Maybe
  <2>4. createForm'.tx = createForm.tx /\ createForm'.step = createForm.step /\ createForm'.consent = createForm.consent
        /\ createForm'.sent = createForm.sent /\ createForm'.consented = createForm.consented
    BY <1>f, <2>2 DEF FormRecord
  <2>5. FormFine(createForm') BY <1>f, <2>1, <2>4 DEF FormFine
  <2>6. QED BY <2>3, <2>4, <2>5, FormStep
<1>7. CASE SubmitIdentity
  <2> USE <1>7 DEF SubmitIdentity
  <2>1. createForm' = [createForm EXCEPT !.step = 1, !.consent = "pending", !.consented = createForm.username]
    OBVIOUS
  <2>2. createForm.username \in Usernames BY <1>f DEF Maybe
  <2>3. createForm' \in FormRecord BY <1>f, <2>1, SubmittedForm
  <2>4. createForm'.tx = createForm.tx /\ createForm'.step = 1 /\ createForm'.consent = "pending"
        /\ createForm'.username = createForm.username /\ createForm'.consented = createForm.username
    BY <1>f, <2>1, SubmittedForm
  <2>5. createForm.tx[1] = "idle" /\ createForm.tx[2] = "idle" /\ createForm.tx[3] = "idle" BY <1>f DEF FormFine
  <2>6. FormFine(createForm') BY <2>2, <2>4, <2>5 DEF FormFine
  <2>7. QED BY <2>3, <2>4, <2>5, <2>6, FormStep
<1>8. CASE AnswerConsent
  <2> USE <1>8 DEF AnswerConsent
  <2>1. CreateShown
    <3>1. NewForm.consent = "idle" BY DEF NewForm
    <3>2. QED BY <3>1 DEF CreationInv, FormInv
  <2>2. /\ createForm.step = 1 /\ createForm.username = createForm.consented /\ createForm.username \in Usernames
        /\ createForm.tx[1] = "idle" /\ createForm.tx[2] = "idle" /\ createForm.tx[3] = "idle"
    BY <1>f DEF FormFine
  <2>3. CASE createForm' = [createForm EXCEPT !.consent = "error"]
    <3>1. createForm' \in FormRecord BY <1>f, <2>3 DEF FormRecord
    <3>2. createForm'.tx = createForm.tx /\ createForm'.step = 1 /\ createForm'.consent = "error"
      BY <1>f, <2>2, <2>3 DEF FormRecord
    <3>3. FormFine(createForm') BY <2>2, <3>2 DEF FormFine
    <3>4. QED BY <2>1, <2>2, <3>1, <3>2, <3>3, FormStep
  <2>4. CASE createForm' = [createForm EXCEPT !.consent = "success", !.step = 2, !.sent = createForm.username,
                                              !.tx[1] = "pending"]
    <3> DEFINE g == [createForm EXCEPT !.consent = "success", !.step = 2, !.sent = createForm.username]
    <3>1. /\ g \in FormRecord /\ g.tx = createForm.tx /\ g.consent = "success" /\ g.step = 2
          /\ g.sent = createForm.username /\ g.consented = createForm.consented
      BY <1>f, ConsentedForm
    <3>2. createForm' = [g EXCEPT !.tx[1] = "pending"] BY <1>f, <2>4, ConsentedForm
    <3> HIDE DEF g
    <3>3. "pending" \in HookState BY DEF HookState
    <3>4. /\ createForm' \in FormRecord
          /\ \A j \in Steps : createForm'.tx[j] = IF j = 1 THEN "pending" ELSE g.tx[j]
          /\ createForm'.step = g.step /\ createForm'.consent = g.consent /\ createForm'.consented = g.consented
          /\ createForm'.sent = g.sent
      BY <3>1, <3>2, <3>3, TxMoves
    <3>5. FormFine(createForm') BY <2>2, <3>1, <3>4 DEF FormFine
    <3>6. QED BY <2>1, <2>2, <3>1, <3>4, <3>5, FormStep
  <2>5. QED BY <2>3, <2>4
<1>9. ASSUME NEW k \in Steps, AnswerCreation(k) PROVE CreationInv'
  <2>0. UNCHANGED <<chainIdVars, gateVars, late, vaultKeyDerived>> BY <1>9 DEF AnswerCreation
  <2>1. createForm.tx[k] = "pending" BY <1>9 DEF AnswerCreation, IsPending
  <2>2. CreateShown BY <2>1, NewFormFine DEF CreationInv, FormInv
  <2>3. PICK a \in {"error", "confirming"} : createForm' = [createForm EXCEPT !.tx[k] = a]
    BY <1>9 DEF AnswerCreation, WalletAnswers
  <2>4. a \in HookState BY DEF HookState
  <2>5. /\ createForm' \in FormRecord
        /\ \A j \in Steps : createForm'.tx[j] = IF j = k THEN a ELSE createForm.tx[j]
        /\ createForm'.username = createForm.username /\ createForm'.step = createForm.step
        /\ createForm'.consent = createForm.consent /\ createForm'.consented = createForm.consented
        /\ createForm'.sent = createForm.sent
    BY <1>f, <2>3, <2>4, TxMoves
  <2>6. FormFine(createForm') BY <1>f, <2>1, <2>5 DEF FormFine
  <2>7. QED BY <2>0, <2>1, <2>2, <2>5, <2>6, FormStep
<1>10. CASE RetryCreation
  <2>1. PICK k \in {2, 3} : /\ CreateShown /\ IsError(createForm.tx[k])
                            /\ createForm' = [createForm EXCEPT !.tx[k] = "pending"]
                            /\ UNCHANGED <<chainIdVars, gateVars, late, vaultKeyDerived>>
    BY <1>10 DEF RetryCreation
  <2>2. createForm.tx[k] = "error" BY <2>1 DEF IsError
  <2>3. "pending" \in HookState BY DEF HookState
  <2>4. /\ createForm' \in FormRecord
        /\ \A j \in Steps : createForm'.tx[j] = IF j = k THEN "pending" ELSE createForm.tx[j]
        /\ createForm'.username = createForm.username /\ createForm'.step = createForm.step
        /\ createForm'.consent = createForm.consent /\ createForm'.consented = createForm.consented
        /\ createForm'.sent = createForm.sent
    BY <1>f, <2>1, <2>3, TxMoves
  <2>5. FormFine(createForm') BY <1>f, <2>2, <2>4 DEF FormFine
  <2>6. QED BY <2>1, <2>2, <2>4, <2>5, FormStep
<1>11. CASE SetUpVaultKey
  <2> USE <1>11 DEF SetUpVaultKey, chainIdVars, gateVars
  <2>1. vaultKeyDerived' \in BOOLEAN BY Zenon
  <2>2. GateInv' BY <2>1 DEF CreationInv, GateInv
  <2>3. FormInv' BY DEF CreationInv, FormInv, CreateShown, LoadingIdentity
  <2>4. FundingInv' BY DEF CreationInv, FundingInv
  <2>5. QED BY <2>2, <2>3, <2>4 DEF CreationInv
<1>12. ASSUME NEW k \in Steps, MineCreation(k) PROVE CreationInv' BY <1>12, MineCreationInv
<1>13. ASSUME NEW r \in late, LateAnswer(r) \/ LateMine(r) PROVE CreationInv'
  BY <1>13, LateAnswerInv, LateMineInv
<1>14. CASE UNCHANGED creationVars
  <2> USE <1>14 DEF creationVars, chainIdVars, gateVars
  <2>1. GateInv' BY DEF CreationInv, GateInv
  <2>2. FormInv' BY DEF CreationInv, FormInv, CreateShown, LoadingIdentity
  <2>3. FundingInv' BY DEF CreationInv, FundingInv
  <2>4. QED BY <2>1, <2>2, <2>3 DEF CreationInv
<1>15. QED
  BY <1>1, <1>2, <1>3, <1>4, <1>5, <1>6, <1>7, <1>8, <1>9, <1>10, <1>11, <1>12, <1>13, <1>14 DEF CreationNext

\* The invariant gives what the run checks.
LEMMA CreationImplies == ASSUME CreationInv PROVE CreationCorrect
<1> USE StepsAre DEF CreationInv
<1>1. createForm.step \in 0..4 /\ createForm.username \in Maybe(Usernames) /\ createForm.tx \in [Steps -> HookState]
  BY DEF FormInv, FormRecord
<1>2. CreationTypeOK BY <1>1 DEF CreationTypeOK, GateInv, FormInv, FundingInv, Maybe
<1>3. ConsentIsForTheName BY DEF FormInv, FormFine, ConsentIsForTheName
<1>4. FundsWaitForTheAccount /\ FundedOnceOnly BY DEF FundingInv, FundsWaitForTheAccount, FundedOnceOnly
<1>5. StoredNameIsOwned BY DEF GateInv, StoredNameIsOwned
<1>6. QED BY <1>2, <1>3, <1>4, <1>5 DEF CreationCorrect

\* For any usernames and fundings: the consent is for the name that is registered,
\* the money waits for the account and is sent once, and the name that is kept was
\* read on chain (CreateIdentity.tsx).
THEOREM CreationCorrectHolds == CreationSpec => []CreationCorrect
BY CreationInitInv, CreationStep, CreationImplies, PTL DEF CreationSpec

-----------------------------------------------------------------------------
(*****************************************************************************)
(* AccountTransfers.  What the wallet was asked to sign belongs to the       *)
(* screen that waits for it, so that "done" is about the batch that was      *)
(* reviewed.                                                                 *)
(*****************************************************************************)

TransferLate == Wallets \X Wei \X Nat
Migration == [from : Wallets \cup {"none"}, to : Wallets \cup {"none"}, amount : Wei]

\* What the wallet was asked to sign belongs to the screen that waits for it.
TransferShape ==
    /\ withdrawArgs \in Wei /\ withdrawSubmitted \in BOOLEAN /\ migrateSubmitted \in BOOLEAN
    /\ submissions \in Nat /\ requests \in Nat
    /\ lateWithdrawals \subseteq TransferLate
    /\ migrateArgs \in Migration /\ newOwner \in Wallets \cup {"none"}
    /\ shownController \in accountsMade

WithdrawInv ==
    /\ Busy(withdrawHook) => withdrawStep = "confirming"
    /\ requests <= submissions
    /\ withdrawStep = "confirming" /\ ~withdrawSubmitted => requests < submissions

MigrateInv ==
    /\ phase \in {"connectOld", "review", "confirming", "done"} => newOwner # "none"
    /\ phase \in {"connectOld", "review", "confirming"} /\ accountsMade = {OldWallet} => newOwner # OldWallet
    /\ Busy(migrateHook) =>
          /\ phase = "confirming" /\ migrateArgs.to = newOwner
          /\ migrateArgs.from \in accountsMade
    /\ phase = "done" => controllerOf = newOwner

TransferInv == TransferTypeOK /\ TransferShape /\ WithdrawInv /\ MigrateInv

\* Which states of a hook are waited for.
LEMMA TransferHooks ==
    /\ Busy("pending") /\ Busy("confirming")
    /\ ~Busy("idle") /\ ~Busy("error") /\ ~Busy("success") /\ ~Busy("reverted")
    /\ {"idle", "pending", "error", "confirming", "success", "reverted"} = HookState
    /\ WalletAnswers = {"error", "confirming"}
BY DEF Busy, HookState, WalletAnswers

\* The invariant holds at the start, and every step keeps it.
LEMMA TransferInitInv == ASSUME TransferInit PROVE TransferInv
<1> USE TransfersAssumption, TransferHooks DEF TransferInit, NoMigration, Wei
<1>1. TransferTypeOK
  <2>1. ethOf \in [Wallets -> 0..MaxWei] OBVIOUS
  <2>2. MaxWithdrawals \in Nat /\ requests <= MaxWithdrawals + 1 OBVIOUS
  <2>3. shownBalance \in [Wallets -> 0..MaxWei] BY <2>1
  <2>4. {withdrawHook, migrateHook} \subseteq HookState BY DEF HookState
  <2>5. walletOn \in Wallets \cup {"none"} /\ letGo \in BOOLEAN OBVIOUS
  <2>6. QED BY <2>1, <2>2, <2>3, <2>4, <2>5 DEF TransferTypeOK
<1>2. TransferShape
  <2>1. migrateArgs \in Migration BY DEF Migration
  <2>2. withdrawSubmitted \in BOOLEAN /\ migrateSubmitted \in BOOLEAN OBVIOUS
  <2>3. QED BY <2>1, <2>2 DEF TransferShape
<1>3. WithdrawInv BY DEF WithdrawInv
<1>4. MigrateInv BY DEF MigrateInv
<1>5. QED BY <1>1, <1>2, <1>3, <1>4 DEF TransferInv

LEMMA TransferStep == ASSUME TransferInv, [TransferNext]_transferVars PROVE TransferInv'
<1> USE TransfersAssumption, TransferHooks DEF TransferInv
<1> USE DEF IsPending, IsConfirming, IsError, TransferTypeOK, TransferShape, WithdrawInv, MigrateInv,
          moneyVars, shownVars, walletVars, withdrawVars, migrateVars
<1>1. CASE Deposit
  <2>1. ethOf' \in [Wallets -> Wei]
    BY <1>1 DEF Deposit, Wei
  <2>2. QED
    BY <1>1, <2>1 DEF Deposit
<1>2. CASE RefreshReads
  BY <1>2 DEF RefreshReads
<1>3. CASE LetGo
  BY <1>3 DEF LetGo
<1>4. CASE OpenWithdraw
  BY <1>4 DEF OpenWithdraw
<1>5. ASSUME NEW n \in Wei, SubmitWithdraw(n) PROVE TransferInv'
  BY <1>5 DEF SubmitWithdraw, Wei
<1>6. CASE AskWithdraw
  <2>1. withdrawHook' \in {"pending", "error"} BY <1>6 DEF AskWithdraw, AskFrom
  <2>2. QED BY <1>6, <2>1 DEF AskWithdraw, MayAsk
<1>7. CASE AnswerWithdraw
  BY <1>7 DEF AnswerWithdraw
<1>8. CASE MineWithdraw
  <2>1. withdrawStep = "confirming" /\ phase = "closed"
    BY <1>8 DEF MineWithdraw
  <2>2. ethOf' \in [Wallets -> Wei]
    BY <1>8 DEF MineWithdraw, Paid, Wei
  <2>3. withdrawHook' \in {"success", "reverted"} /\ withdrawStep' \in {"confirming", "done"}
    BY <1>8, <2>1 DEF MineWithdraw
  <2>4. QED BY <1>8, <2>1, <2>2, <2>3 DEF MineWithdraw
<1>9. CASE CloseWithdraw
  <2>1. lateWithdrawals' \subseteq TransferLate
    <3>1. <<shownController, withdrawArgs, submissions>> \in TransferLate
      BY DEF TransferLate
    <3>2. QED BY <1>9, <3>1 DEF CloseWithdraw
  <2>2. /\ withdrawStep' = "closed" /\ withdrawHook' = "idle" /\ withdrawArgs' = 0 /\ withdrawSubmitted' = FALSE
        /\ withdrawStep # "closed"
        /\ UNCHANGED <<moneyVars, shownVars, walletVars, submissions, requests, migrateVars>>
    BY <1>9 DEF CloseWithdraw
  <2>3. withdrawSubmitted' \in BOOLEAN BY <2>2, Zenon
  <2>4. 0 \in Wei BY DEF Wei
  <2>5. QED BY <2>1, <2>2, <2>3, <2>4 DEF Wei
<1>10. ASSUME NEW r \in lateWithdrawals, LateWithdraw(r) PROVE TransferInv'
  <2>1. r[1] \in Wallets /\ r[2] \in Wei BY DEF TransferLate
  <2>2. ethOf' \in [Wallets -> Wei] BY <1>10, <2>1 DEF LateWithdraw, Paid, Wei
  <2>3. QED BY <1>10, <2>2 DEF LateWithdraw
<1>11. ASSUME NEW w \in Wallets, ConnectAWallet(w) PROVE TransferInv'
  <2>1. \/ phase = "closed" /\ phase' = phase /\ newOwner' = newOwner /\ letGo' = FALSE /\ walletOn' = w
        \/ phase' = "confirmNew" /\ newOwner' = w /\ letGo' = TRUE /\ walletOn' = w /\ phase = "connectNew"
        \/ phase' = "review" /\ newOwner' = newOwner /\ letGo' = FALSE /\ walletOn' = w /\ phase = "connectOld"
    BY <1>11 DEF ConnectAWallet, Captured
  <2>2. QED BY <1>11, <2>1 DEF ConnectAWallet
<1>12. CASE OpenSettings
  BY <1>12 DEF OpenSettings
<1>13. CASE ConnectNew
  <2>1. \/ phase' = "confirmNew" /\ newOwner' = walletOn /\ letGo' = TRUE /\ walletOn' = walletOn
        \/ phase' = "connectNew" /\ newOwner' = newOwner /\ letGo' = letGo /\ walletOn' = walletOn
    BY <1>13 DEF ConnectNew, Captured
  <2>2. QED BY <1>13, <2>1 DEF ConnectNew
<1>14. CASE ConfirmNew
  <2>1. /\ phase' \in {"review", "connectOld"} /\ newOwner' = newOwner /\ letGo' = letGo /\ walletOn' = walletOn
        /\ newOwner # "none" /\ newOwner # shownController /\ phase = "confirmNew"
    BY <1>14 DEF ConfirmNew, Captured, OtherWallet
  <2>2. QED BY <1>14, <2>1 DEF ConfirmNew
<1>15. CASE ConfirmMigration
  BY <1>15 DEF ConfirmMigration
<1>16. CASE AskMigration
  <2>1. migrateHook' \in {"pending", "error"} BY <1>16 DEF AskMigration, AskFrom
  <2>2. migrateArgs' \in Migration /\ migrateArgs'.to = newOwner /\ migrateArgs'.from = shownController
    BY <1>16 DEF AskMigration, Migration
  <2>3. QED BY <1>16, <2>1, <2>2 DEF AskMigration
<1>17. CASE AnswerMigration
  BY <1>17 DEF AnswerMigration
<1>18. CASE MineMigration
  <2> DEFINE b == migrateArgs
  <2>1. phase = "confirming" /\ b.to = newOwner /\ b.to \in Wallets /\ b.from \in Wallets /\ b.amount \in Wei
    BY <1>18 DEF MineMigration, Migration
  <2>2. CASE controllerOf = b.from /\ b.to # b.from /\ ethOf[b.from] >= b.amount /\ ethOf[b.to] + b.amount <= MaxWei
    <3>1. ethOf' \in [Wallets -> Wei]
      BY <1>18, <2>1, <2>2 DEF MineMigration, Wei
    <3>2. /\ controllerOf' = newOwner /\ accountsMade' = accountsMade \cup {newOwner}
          /\ migrateHook' = "success" /\ phase' = "done"
      BY <1>18, <2>1, <2>2 DEF MineMigration
    <3>3. QED BY <1>18, <2>1, <3>1, <3>2 DEF MineMigration
  <2>3. CASE ~(controllerOf = b.from /\ b.to # b.from /\ ethOf[b.from] >= b.amount /\ ethOf[b.to] + b.amount <= MaxWei)
    BY <1>18, <2>3 DEF MineMigration
  <2>4. QED BY <2>2, <2>3
<1>19. CASE RetryMigration
  BY <1>19 DEF RetryMigration
<1>20. CASE CloseSettings
  <2>1. NoMigration \in Migration BY DEF NoMigration, Migration, Wei
  <2>2. QED
    BY <1>20, <2>1 DEF CloseSettings, NotBusy
<1>21. CASE UNCHANGED transferVars
  BY <1>21 DEF transferVars
<1>22. QED
  BY <1>1, <1>2, <1>3, <1>4, <1>5, <1>6, <1>7, <1>8, <1>9, <1>10, <1>11, <1>12, <1>13, <1>14, <1>15, <1>16,
     <1>17, <1>18, <1>19, <1>20, <1>21 DEF TransferNext

\* It gives the state part of TransferCorrect.
LEMMA TransferImplies ==
    ASSUME TransferInv
    PROVE  TransferTypeOK /\ OneRequestPerSubmission /\ DoneMeansMigrated /\ MovesElsewhere
<1>1. ASSUME Busy(migrateHook), accountsMade = {OldWallet} PROVE migrateArgs.to # migrateArgs.from
  BY <1>1 DEF TransferInv, MigrateInv
<1>2. QED BY <1>1 DEF TransferInv, WithdrawInv, MigrateInv, OneRequestPerSubmission, DoneMeansMigrated, MovesElsewhere

\* Control goes where the batch said it would.
LEMMA ControlMoves ==
    ASSUME TransferInv, [TransferNext]_transferVars, controllerOf' # controllerOf
    PROVE  controllerOf' = newOwner /\ newOwner \in accountsMade'
<1>1. MineMigration
  BY DEF TransferNext, transferVars, Deposit, RefreshReads, LetGo, ConnectAWallet, OpenWithdraw, SubmitWithdraw,
     AskWithdraw, AnswerWithdraw, MineWithdraw, CloseWithdraw, LateWithdraw, OpenSettings, ConnectNew, ConfirmNew,
     ConfirmMigration, AskMigration, AnswerMigration, RetryMigration, CloseSettings, moneyVars
<1>2. migrateArgs.to = newOwner
  BY <1>1, TransferHooks DEF MineMigration, IsConfirming, TransferInv, MigrateInv
<1>3. QED BY <1>1, <1>2 DEF MineMigration, moneyVars

\* For any wallets and balances: one request per submission, "done" means that the
\* new account has control, and control moves to the account that was reviewed and
\* to no other (MigrateWallet.tsx).
THEOREM TransferCorrectHolds == TransferSpec => TransferCorrect
<1>1. TransferInv /\ [TransferNext]_transferVars
        => [controllerOf' # controllerOf => controllerOf' = newOwner /\ newOwner \in accountsMade']_transferVars
  BY ControlMoves
<1>2. QED BY <1>1, TransferInitInv, TransferStep, TransferImplies, PTL DEF TransferSpec, TransferCorrect, ControlFollowsReview

-----------------------------------------------------------------------------
(*****************************************************************************)
(* SessionScreen.  What the tab has read was on the chain, which forgets no  *)
(* session: this relates the copy on screen to what happened since.          *)
(*****************************************************************************)

FloatingTx == ({"create"} \X Sessions) \cup ({"revoke", "sweep"} \X (Sessions \cup {None}))

RegistryFine == /\ created \subseteq Sessions /\ revokedOne \cup swept \subseteq created
                /\ Cardinality(created) <= SessionLimit

LoginFine ==
    /\ asked \subseteq Sessions /\ signing \subseteq Sessions
    /\ loginStatus \in {"idle", "loading", "success", "error"}
    /\ sessionStatus \in {"idle", "signing", "pending", "confirmed", "error"}
    /\ createHook \in HookState /\ createFor \in Sessions
    /\ logins \in Sessions /\ loginResult \in Sessions
    /\ asked # {} => loginStatus = "loading" /\ asked = {logins}
    /\ loginResult # 0 => loginResult = logins

ListFine ==
    /\ listed \in [of : SUBSET Sessions, revoked : SUBSET Sessions]
    /\ listed.revoked \subseteq listed.of /\ listed.of \subseteq hashesRead
    /\ reportedWith \subseteq Sessions
    /\ revokeHook \in HookState /\ sweepHook \in HookState \cup {"mined"}
    /\ revokeFor \in Sessions \cup {None}
    /\ Busy(revokeHook) => revokingHash = revokeFor
    /\ revokeAllDone \in BOOLEAN
    /\ revokeAllDone => listed.of \subseteq reportedWith

\* What the tab read was on the chain, which forgets no session.
AcrossFine ==
    /\ hashesRead \subseteq created
    /\ sessionStatus = "confirmed" => createFor \in created
    /\ afloat \subseteq FloatingTx

ScreenInv == RegistryFine /\ LoginFine /\ ListFine /\ AcrossFine

\* Which states of a hook are waited for, and how many sessions there are.
LEMMA SessionsHooks ==
    /\ Busy("pending") /\ Busy("confirming")
    /\ ~Busy("idle") /\ ~Busy("error") /\ ~Busy("success") /\ ~Busy("reverted") /\ ~Busy("mined")
    /\ HookState = {"idle", "pending", "error", "confirming", "success", "reverted"}
    /\ WalletAnswers = {"error", "confirming"}
BY DEF Busy, HookState, WalletAnswers

LEMMA SessionsFacts == /\ SessionLimit \in Nat \ {0} /\ MaxLogins \in Nat
                       /\ \A n \in Sessions : n \in Nat /\ n <= MaxLogins
                       /\ 0 \in Sessions
                       /\ IsFiniteSet(Sessions)
<1>1. SessionLimit \in Nat \ {0} /\ MaxLogins \in Nat BY SessionScreenAssumption
<1>2. IsFiniteSet(Sessions) BY <1>1, FS_Interval DEF Sessions
<1>3. QED BY <1>1, <1>2 DEF Sessions

\* The registry takes one session more, as long as there is room.
LEMMA CreatingKeepsTheLimit ==
    ASSUME RegistryFine, NEW n \in Sessions, CreatedWith(n)
    PROVE  /\ created' \subseteq Sessions /\ created \subseteq created'
           /\ Cardinality(created') <= SessionLimit
           /\ Creates(n) => n \in created'
<1>1. IsFiniteSet(created) BY SessionsFacts, FS_Subset DEF RegistryFine
<1>2. CASE Creates(n)
  <2>1. created' = created \cup {n} /\ n \notin created /\ Cardinality(created) < SessionLimit
    BY <1>2 DEF CreatedWith, Creates
  <2>2. Cardinality(created \cup {n}) = Cardinality(created) + 1
    BY <1>1, <2>1, FS_AddElement
  <2>3. Cardinality(created) \in Nat BY <1>1, FS_CardinalityType
  <2>4. QED BY <2>1, <2>2, <2>3, SessionsFacts DEF RegistryFine
<1>3. CASE ~Creates(n) BY <1>3 DEF CreatedWith, RegistryFine
<1>4. QED BY <1>2, <1>3

\* What a hook that is no longer followed leaves behind.
LEMMA AfloatFine ==
    ASSUME LoginFine
    PROVE  CreationAfloat \subseteq FloatingTx
BY DEF LoginFine, CreationAfloat, FloatingTx

\* The invariant holds at the start, and every step keeps it.
LEMMA ScreenInitInv == ASSUME SessionsInit PROVE ScreenInv
<1> USE SessionsFacts, SessionsHooks DEF SessionsInit
<1>1. RegistryFine
  <2>1. Cardinality({0}) = 1 BY FS_Singleton
  <2>2. QED BY <2>1 DEF RegistryFine
<1>2. LoginFine BY DEF LoginFine
<1>3. ListFine
  <2>1. listed \in [of : SUBSET Sessions, revoked : SUBSET Sessions] BY DEF NoList
  <2>2. revokeAllDone \in BOOLEAN BY Zenon
  <2>3. QED BY <2>1, <2>2 DEF ListFine, NoList
<1>4. AcrossFine BY DEF AcrossFine
<1>5. QED BY <1>1, <1>2, <1>3, <1>4 DEF ScreenInv

LEMMA ScreenStep == ASSUME ScreenInv, [SessionsNext]_sessionVars PROVE ScreenInv'
<1> USE SessionsFacts, SessionsHooks
<1>r. ASSUME UNCHANGED <<created, revokedOne, swept>> PROVE RegistryFine'
  BY <1>r DEF ScreenInv, RegistryFine
<1>l. ASSUME UNCHANGED loginVars PROVE LoginFine'
  BY <1>l DEF ScreenInv, LoginFine, loginVars
<1>t. ASSUME UNCHANGED listVars PROVE ListFine'
  BY <1>t DEF ScreenInv, ListFine, listVars
<1>c. created \in SUBSET Sessions /\ revokedOne \cup swept \subseteq created BY DEF ScreenInv, RegistryFine
<1>1. CASE OpenDialog
  <2> USE <1>1 DEF OpenDialog
  <2>1. RegistryFine' /\ ListFine' BY <1>r, <1>t DEF registryVars
  <2>2. LoginFine' BY DEF ScreenInv, LoginFine
  <2>3. AcrossFine' BY DEF ScreenInv, AcrossFine, listVars, registryVars
  <2>4. QED BY <2>1, <2>2, <2>3 DEF ScreenInv
<1>2. CASE CloseDialog
  <2> USE <1>2 DEF CloseDialog, FreshDialog
  <2>1. RegistryFine' /\ ListFine' BY <1>r, <1>t DEF registryVars
  <2>2. LoginFine' BY DEF ScreenInv, LoginFine
  <2>3. AcrossFine' BY AfloatFine DEF ScreenInv, AcrossFine, listVars, registryVars
  <2>4. QED BY <2>1, <2>2, <2>3 DEF ScreenInv
<1>3. CASE PressLogin
  <2> USE <1>3 DEF PressLogin, FreshDialog
  <2>1. RegistryFine' /\ ListFine' BY <1>r, <1>t DEF registryVars
  <2>2. logins' \in Sessions BY DEF ScreenInv, LoginFine, Sessions
  <2>3. LoginFine' BY <2>2 DEF ScreenInv, LoginFine, CanLogin
  <2>4. AcrossFine' BY AfloatFine DEF ScreenInv, AcrossFine, listVars, registryVars
  <2>5. QED BY <2>1, <2>3, <2>4 DEF ScreenInv
<1>4. ASSUME NEW n \in asked, NEW ok \in BOOLEAN, LoginAnswered(n, ok) PROVE ScreenInv'
  <2> USE <1>4 DEF LoginAnswered
  <2>1. RegistryFine' /\ ListFine' BY <1>r, <1>t DEF registryVars
  <2>2. asked' = {} /\ n = logins BY DEF ScreenInv, LoginFine
  <2>3. LoginFine' BY <2>2 DEF ScreenInv, LoginFine
  <2>4. AcrossFine' BY DEF ScreenInv, AcrossFine, listVars, registryVars
  <2>5. QED BY <2>1, <2>3, <2>4 DEF ScreenInv
<1>5. CASE PressCreate
  <2> USE <1>5 DEF PressCreate
  <2>1. RegistryFine' /\ ListFine' BY <1>r, <1>t DEF registryVars
  <2>2. LoginFine' BY DEF ScreenInv, LoginFine
  <2>3. AcrossFine' BY DEF ScreenInv, AcrossFine, listVars, registryVars
  <2>4. QED BY <2>1, <2>2, <2>3 DEF ScreenInv
<1>6. ASSUME NEW n \in signing, SessionSigned(n) PROVE ScreenInv'
  <2> USE <1>6 DEF SessionSigned
  <2>1. RegistryFine' /\ ListFine' BY <1>r, <1>t DEF registryVars
  <2>2. LoginFine' BY DEF ScreenInv, LoginFine
  <2>3. AcrossFine' BY AfloatFine DEF ScreenInv, AcrossFine, listVars, registryVars
  <2>4. QED BY <2>1, <2>2, <2>3 DEF ScreenInv
<1>7. ASSUME NEW n \in signing, SigningFails(n) PROVE ScreenInv'
  <2> USE <1>7 DEF SigningFails
  <2>1. RegistryFine' /\ ListFine' BY <1>r, <1>t DEF registryVars
  <2>2. LoginFine' BY DEF ScreenInv, LoginFine
  <2>3. AcrossFine' BY DEF ScreenInv, AcrossFine, listVars, registryVars
  <2>4. QED BY <2>1, <2>2, <2>3 DEF ScreenInv
<1>8. CASE AnswerCreate
  <2> USE <1>8 DEF AnswerCreate
  <2>1. RegistryFine' /\ ListFine' BY <1>r, <1>t DEF registryVars
  <2>2. LoginFine' BY DEF ScreenInv, LoginFine
  <2>3. AcrossFine' BY DEF ScreenInv, AcrossFine, listVars, registryVars
  <2>4. QED BY <2>1, <2>2, <2>3 DEF ScreenInv
<1>9. CASE MineCreate
  <2> USE <1>9 DEF MineCreate
  <2>0. createFor \in Sessions BY DEF ScreenInv, LoginFine
  <2>a. RegistryFine BY DEF ScreenInv
  <2>1. /\ created' \subseteq Sessions /\ created \subseteq created' /\ Cardinality(created') <= SessionLimit
        /\ Creates(createFor) => createFor \in created'
    BY <2>0, <2>a, CreatingKeepsTheLimit
  <2>2. RegistryFine' BY <1>c, <2>1 DEF RegistryFine
  <2>3. LoginFine' BY DEF ScreenInv, LoginFine
  <2>4. ListFine' BY <1>t
  <2>5. AcrossFine' BY <2>1 DEF ScreenInv, AcrossFine, listVars
  <2>6. QED BY <2>2, <2>3, <2>4, <2>5 DEF ScreenInv
<1>10. CASE OpenTab
  <2> USE <1>10 DEF OpenTab
  <2>1. RegistryFine' /\ LoginFine' BY <1>r, <1>l DEF registryVars
  <2>2. ListFine' BY DEF ScreenInv, ListFine
  <2>3. AcrossFine' BY DEF ScreenInv, AcrossFine, loginVars, registryVars
  <2>4. QED BY <2>1, <2>2, <2>3 DEF ScreenInv
<1>11. CASE CloseTab
  <2> USE <1>11 DEF CloseTab
  <2>1. RegistryFine' /\ LoginFine' BY <1>r, <1>l DEF registryVars
  <2>2. revokeAllDone' \in BOOLEAN BY Zenon
  <2>3. ListFine' BY <2>2 DEF ScreenInv, ListFine
  <2>4. afloat' \subseteq FloatingTx BY DEF ScreenInv, AcrossFine, ListFine, FloatingTx
  <2>5. AcrossFine' BY <2>4 DEF ScreenInv, AcrossFine, loginVars, registryVars
  <2>6. QED BY <2>1, <2>3, <2>5 DEF ScreenInv
<1>12. CASE ReadHashes
  <2> USE <1>12 DEF ReadHashes
  <2>1. RegistryFine' /\ LoginFine' BY <1>r, <1>l DEF registryVars
  <2>2. listed' \in [of : SUBSET Sessions, revoked : SUBSET Sessions] /\ listed'.of = {} /\ listed'.revoked = {}
    BY DEF NoList
  <2>3. revokeAllDone' \in BOOLEAN BY DEF ReportEnds
  <2>4. ListFine' BY <2>2, <2>3 DEF ScreenInv, ListFine
  <2>5. AcrossFine' BY DEF ScreenInv, AcrossFine, loginVars, registryVars
  <2>6. QED BY <2>1, <2>4, <2>5 DEF ScreenInv
<1>13. CASE ReadSessions
  <2> USE <1>13 DEF ReadSessions
  <2>1. RegistryFine' /\ LoginFine' BY <1>r, <1>l DEF registryVars
  <2>2. hashesRead \subseteq Sessions BY <1>c DEF ScreenInv, AcrossFine
  <2>3. /\ listed' \in [of : SUBSET Sessions, revoked : SUBSET Sessions]
        /\ listed'.of = hashesRead /\ listed'.revoked \subseteq hashesRead
    BY <2>2 DEF Details
  <2>4. revokeAllDone' \in BOOLEAN /\ ~revokeAllDone' BY DEF ReportEnds
  <2>5. ListFine' BY <2>3, <2>4 DEF ScreenInv, ListFine
  <2>6. AcrossFine' BY DEF ScreenInv, AcrossFine, loginVars, registryVars
  <2>7. QED BY <2>1, <2>5, <2>6 DEF ScreenInv
<1>14. ASSUME NEW s \in Sessions, PressRevokeOne(s) PROVE ScreenInv'
  <2> USE <1>14 DEF PressRevokeOne
  <2>1. RegistryFine' /\ LoginFine' BY <1>r, <1>l DEF registryVars
  <2>2. ListFine' BY DEF ScreenInv, ListFine
  <2>3. afloat' \subseteq FloatingTx BY DEF ScreenInv, AcrossFine, ListFine, FloatingTx
  <2>4. AcrossFine' BY <2>3 DEF ScreenInv, AcrossFine, loginVars, registryVars
  <2>5. QED BY <2>1, <2>2, <2>4 DEF ScreenInv
<1>15. CASE AnswerRevokeOne
  <2> USE <1>15 DEF AnswerRevokeOne
  <2>1. RegistryFine' /\ LoginFine' BY <1>r, <1>l DEF registryVars
  <2>2. ListFine' BY DEF ScreenInv, ListFine, IsPending
  <2>3. AcrossFine' BY DEF ScreenInv, AcrossFine, loginVars, registryVars
  <2>4. QED BY <2>1, <2>2, <2>3 DEF ScreenInv
<1>16. CASE MineRevokeOne
  <2> USE <1>16 DEF MineRevokeOne
  <2>1. RegistryFine' BY DEF ScreenInv, RegistryFine, Revokes, Valid
  <2>2. LoginFine' BY <1>l
  <2>3. ListFine' BY DEF ScreenInv, ListFine
  <2>4. AcrossFine' BY DEF ScreenInv, AcrossFine, loginVars
  <2>5. QED BY <2>1, <2>2, <2>3, <2>4 DEF ScreenInv
<1>17. CASE PressRevokeAll
  <2> USE <1>17 DEF PressRevokeAll
  <2>1. RegistryFine' /\ LoginFine' BY <1>r, <1>l DEF registryVars
  <2>2. ListFine' BY DEF ScreenInv, ListFine
  <2>3. AcrossFine' BY DEF ScreenInv, AcrossFine, loginVars, registryVars
  <2>4. QED BY <2>1, <2>2, <2>3 DEF ScreenInv
<1>18. CASE AnswerRevokeAll
  <2> USE <1>18 DEF AnswerRevokeAll
  <2>1. RegistryFine' /\ LoginFine' BY <1>r, <1>l DEF registryVars
  <2>2. ListFine' BY DEF ScreenInv, ListFine
  <2>3. AcrossFine' BY DEF ScreenInv, AcrossFine, loginVars, registryVars
  <2>4. QED BY <2>1, <2>2, <2>3 DEF ScreenInv
<1>19. CASE MineRevokeAll
  <2> USE <1>19 DEF MineRevokeAll, Sweep
  <2>1. RegistryFine' BY DEF ScreenInv, RegistryFine
  <2>2. LoginFine' BY <1>l
  <2>3. ListFine' BY DEF ScreenInv, ListFine
  <2>4. AcrossFine' BY DEF ScreenInv, AcrossFine, loginVars
  <2>5. QED BY <2>1, <2>2, <2>3, <2>4 DEF ScreenInv
<1>20. CASE SeeSweep
  <2> USE <1>20 DEF SeeSweep
  <2>1. RegistryFine' /\ LoginFine' BY <1>r, <1>l DEF registryVars
  <2>2. revokeAllDone' \in BOOLEAN BY Zenon
  <2>3. ListFine' BY <1>c, <2>2 DEF ScreenInv, ListFine, AcrossFine
  <2>4. AcrossFine' BY DEF ScreenInv, AcrossFine, loginVars, registryVars
  <2>5. QED BY <2>1, <2>3, <2>4 DEF ScreenInv
<1>21. ASSUME NEW tx \in afloat, LateTransaction(tx) PROVE ScreenInv'
  <2>1. LoginFine' /\ ListFine' BY <1>21, <1>l, <1>t DEF LateTransaction
  <2>2. /\ tx[1] \in {"create", "revoke", "sweep"}
        /\ tx[1] = "create" => tx[2] \in Sessions
    BY DEF ScreenInv, AcrossFine, FloatingTx
  <2>3. RegistryFine' /\ created \subseteq created'
    <3>1. CASE tx[1] = "create"
      <4>1. CreatedWith(tx[2]) /\ UNCHANGED <<revokedOne, swept>> BY <1>21, <3>1 DEF LateTransaction
      <4>2. tx[2] \in Sessions BY <2>2, <3>1
      <4>3. RegistryFine BY DEF ScreenInv
      <4>4. /\ created' \subseteq Sessions /\ created \subseteq created'
            /\ Cardinality(created') <= SessionLimit
        BY <4>1, <4>2, <4>3, CreatingKeepsTheLimit
      <4>5. QED BY <1>c, <4>1, <4>4 DEF RegistryFine
    <3>2. CASE tx[1] = "revoke"
      BY <1>21, <3>2 DEF LateTransaction, ScreenInv, RegistryFine, Revokes, Valid
    <3>3. CASE tx[1] = "sweep"
      BY <1>21, <3>3 DEF LateTransaction, ScreenInv, RegistryFine, Sweep
    <3>4. QED BY <2>2, <3>1, <3>2, <3>3
  <2>4. AcrossFine' BY <1>21, <2>3 DEF LateTransaction, ScreenInv, AcrossFine, loginVars, listVars
  <2>5. QED BY <2>1, <2>3, <2>4 DEF ScreenInv
<1>22. CASE UNCHANGED sessionVars
  <2> USE <1>22 DEF sessionVars, registryVars
  <2>1. RegistryFine' /\ LoginFine' /\ ListFine' BY <1>r, <1>l, <1>t
  <2>2. AcrossFine' BY DEF ScreenInv, AcrossFine, loginVars, listVars
  <2>3. QED BY <2>1, <2>2 DEF ScreenInv
<1>23. QED
  BY <1>1, <1>2, <1>3, <1>4, <1>5, <1>6, <1>7, <1>8, <1>9, <1>10, <1>11, <1>12, <1>13, <1>14, <1>15, <1>16,
     <1>17, <1>18, <1>19, <1>20, <1>21, <1>22 DEF SessionsNext

\* It gives what the run checks.
LEMMA ScreenImplies == ASSUME ScreenInv PROVE SessionsCorrect
<1> USE DEF ScreenInv, RegistryFine, LoginFine, ListFine, AcrossFine
<1>1. SessionsTypeOK BY DEF SessionsTypeOK
<1>2. ShownLoginIsTheLast /\ ConfirmedWasRecorded BY DEF ShownLoginIsTheLast, ConfirmedWasRecorded
<1>3. NewSessionIsNotSwept BY DEF NewSessionIsNotSwept
<1>4. QED BY <1>1, <1>2, <1>3 DEF SessionsCorrect

\* For any limit and number of logins: the login shown is the last one asked for,
\* "registered" is said of one on the chain, and a sweep is not reported for what
\* came after it (QuickLogin.tsx, ActiveSessions.tsx).
THEOREM SessionsCorrectHolds == SessionsSpec => []SessionsCorrect
BY ScreenInitInv, ScreenStep, ScreenImplies, PTL DEF SessionsSpec

-----------------------------------------------------------------------------
(*****************************************************************************)
(* VaultImport.  An import that was confirmed without overlap saves what its *)
(* review saw; the invariant counts the rows saved since.                    *)
(*****************************************************************************)

WalletChoices == {"skip", "overwrite", "new"}

\* A row of the review: only a duplicate is not taken as new, and a duplicate is
\* new only where the user said so.
RowFine(r) == /\ ~r.duplicate => r.action = "new"
              /\ r.duplicate /\ r.action = "new" => r.picked

ImportShape ==
    /\ copies \in [Items -> Nat] /\ askedNew \in [Items -> Nat]
    /\ left \in [Import -> SUBSET (Items \X WalletChoices)] /\ wanted \in [Import -> SUBSET Items]
    /\ state \in [Import -> {"idle", "running", "done", "failed"}]
    /\ stage \in {"idle", "needs-password", "reviewing", "importing", "done", "error"}
    /\ \E n \in 0..MaxImports : Confirmed = 1..n

RowsFine ==
    /\ stage = "reviewing" => rows \in [Items -> Row] /\ \A i \in Items : RowFine(rows[i])
    /\ stage # "reviewing" => rows = NoRows

\* Nothing was saved since a review began that is confirmed without overlap.
ReviewIsFresh ==
    stage = "reviewing" /\ Running = {} => \A i \in Items : ~rows[i].duplicate => copies[i] = 0

\* An import has a row at most per item, and room for the row to come.
LeftFine ==
    /\ ~overlapped => \A j, k \in Running : j = k
    /\ \A k \in Import : state[k] # "running" => left[k] = {}
    /\ \A k \in Import : \A q, r \in left[k] : q[1] = r[1] => q = r
    /\ \A k \in Import : \A r \in left[k] : r[1] \in wanted[k]
    /\ ~overlapped => \A k \in Import : \A r \in left[k] : r[2] # "overwrite" => copies[r[1]] <= askedNew[r[1]]

SavedOrLeft ==
    ~restored => \A k \in Import : state[k] \in {"running", "done"} =>
        \A i \in wanted[k] : copies[i] > 0 \/ \E r \in left[k] : r[1] = i

ImportInv == ImportShape /\ RowsFine /\ ReviewIsFresh /\ LeftFine /\ SavedOrLeft
             /\ NoSilentDuplicate /\ TabIsTold

\* The review shows every item once, and a duplicate as one.
LEMMA PreviewFine ==
    ASSUME ImportShape, NEW i \in Items
    PROVE  Preview(i) \in Row /\ RowFine(Preview(i)) /\ (~Preview(i).duplicate => copies[i] = 0)
<1>1. copies[i] \in Nat BY DEF ImportShape
<1>2. (copies[i] > 0) \in BOOLEAN BY <1>1
<1>3. \A a \in {"skip", "new"}, d \in BOOLEAN :
        [selected |-> TRUE, action |-> a, duplicate |-> d, picked |-> FALSE] \in Row
  BY DEF Row
<1>4. Preview(i) \in Row BY <1>2, <1>3 DEF Preview
<1>5. CASE copies[i] > 0
  <2>1. Preview(i).duplicate = TRUE /\ Preview(i).action = "skip" BY <1>5 DEF Preview
  <2>2. QED BY <1>4, <2>1 DEF RowFine
<1>6. CASE copies[i] = 0
  <2>1. ~(copies[i] > 0) BY <1>6
  <2>2. Preview(i).action = "new" BY <2>1 DEF Preview
  <2>3. Preview(i).duplicate = (copies[i] > 0) BY DEF Preview
  <2>4. QED BY <1>4, <1>6, <2>1, <2>2, <2>3 DEF RowFine
<1>7. QED BY <1>1, <1>5, <1>6

\* The invariant holds at the start.
LEMMA ImportInitInv == ASSUME ImportInit PROVE ImportInv
<1> USE DEF ImportInit
<1>1. ImportShape
  <2>1. Confirmed = 1..0 BY DEF Confirmed
  <2>2. QED BY <2>1, ImportAssumption DEF ImportShape
<1>2. RowsFine /\ ReviewIsFresh BY DEF RowsFine, ReviewIsFresh
<1>3. LeftFine /\ SavedOrLeft
  BY DEF LeftFine, SavedOrLeft, Running
<1>4. NoSilentDuplicate
  <2>1. \A i \in Items : copies[i] \in {0, 1} /\ askedNew[i] = 0 OBVIOUS
  <2>2. QED BY <2>1 DEF NoSilentDuplicate
<1>5. TabIsTold BY DEF TabIsTold
<1>6. QED BY <1>1, <1>2, <1>3, <1>4, <1>5 DEF ImportInv

\* What only the imports under way and their saves bear on.
LEMMA ReviewInv ==
    ASSUME ImportInv, UNCHANGED importRest, RowsFine', ReviewIsFresh',
           stage' \in {"idle", "needs-password", "reviewing", "importing", "done", "error"}
    PROVE  ImportInv'
<1>1. ImportShape'
  <2>1. Confirmed' = Confirmed BY DEF Confirmed, importRest
  <2>2. QED BY <2>1 DEF ImportInv, ImportShape, importRest
<1>2. LeftFine'
  <2>1. Running' = Running BY DEF Running, importRest
  <2>2. QED BY <2>1 DEF ImportInv, LeftFine, importRest
<1>3. SavedOrLeft' /\ NoSilentDuplicate' /\ TabIsTold'
  BY DEF ImportInv, SavedOrLeft, NoSilentDuplicate, TabIsTold, importRest
<1>4. QED BY <1>1, <1>2, <1>3 DEF ImportInv

\* One lemma per step of the review,
LEMMA ShowPreviewInv ==
    ASSUME ImportInv, ShowPreview, UNCHANGED importRest PROVE ImportInv'
<1>1. \A i \in Items : Preview(i) \in Row /\ RowFine(Preview(i)) /\ (~Preview(i).duplicate => copies[i] = 0)
  BY PreviewFine DEF ImportInv
<1>2. rows' = [i \in Items |-> Preview(i)] /\ stage' = "reviewing" BY DEF ShowPreview
<1>3. \A i \in Items : rows'[i] = Preview(i) BY <1>2
<1>4. rows' \in [Items -> Row] BY <1>1, <1>2
<1>5. RowsFine' BY <1>1, <1>2, <1>3, <1>4 DEF RowsFine
<1>6. ReviewIsFresh' BY <1>1, <1>3 DEF ReviewIsFresh, importRest
<1>7. QED BY <1>2, <1>5, <1>6, ReviewInv

LEMMA ReviewRowInv ==
    ASSUME ImportInv, NEW i \in Items, ReviewRow(i) PROVE ImportInv'
<1>1. stage = "reviewing" /\ stage' = stage /\ rows \in [Items -> Row] /\ (\A j \in Items : RowFine(rows[j]))
      /\ UNCHANGED importRest
  BY DEF ReviewRow, ImportInv, RowsFine
<1>2. PICK r \in Row : /\ rows' = [rows EXCEPT ![i] = r] /\ RowFine(r)
                       /\ r.duplicate = rows[i].duplicate
  <2>1. CASE rows' = [rows EXCEPT ![i].selected = ~@]
    <3> DEFINE r == [rows[i] EXCEPT !.selected = ~@]
    <3>1. r \in Row BY <1>1 DEF Row
    <3>2. RowFine(r) /\ r.duplicate = rows[i].duplicate BY <1>1 DEF Row, RowFine
    <3>3. rows' = [rows EXCEPT ![i] = r] BY <2>1, <1>1
    <3>4. QED BY <3>1, <3>2, <3>3
  <2>2. ASSUME NEW a \in WalletChoices, rows[i].duplicate, rows' = [rows EXCEPT ![i].action = a, ![i].picked = TRUE]
        PROVE  \E r \in Row : /\ rows' = [rows EXCEPT ![i] = r] /\ RowFine(r)
                              /\ r.duplicate = rows[i].duplicate
    <3> DEFINE r == [rows[i] EXCEPT !.action = a, !.picked = TRUE]
    <3>1. r \in Row BY <1>1 DEF Row, WalletChoices
    <3>2. RowFine(r) /\ r.duplicate = rows[i].duplicate BY <1>1, <2>2 DEF Row, RowFine
    <3>3. rows' = [rows EXCEPT ![i] = r] BY <2>2, <1>1
    <3>4. QED BY <3>1, <3>2, <3>3
  <2>3. QED BY <2>1, <2>2 DEF ReviewRow, WalletChoices
<1>3. rows' \in [Items -> Row] /\ \A j \in Items : RowFine(rows'[j]) /\ rows'[j].duplicate = rows[j].duplicate
  BY <1>1, <1>2
<1>4. RowsFine' BY <1>1, <1>3 DEF RowsFine
<1>5. ReviewIsFresh'
  <2>1. Running' = Running /\ copies' = copies BY <1>1 DEF Running, importRest
  <2>2. QED BY <1>1, <1>3, <2>1 DEF ReviewIsFresh, ImportInv
<1>6. QED BY <1>1, <1>4, <1>5, ReviewInv

\* The import that is confirmed gets the next number.
LEMMA ConfirmInv == ASSUME ImportInv, Confirm PROVE ImportInv'
<1> DEFINE chosen == {i \in DOMAIN rows : IsToSave(rows[i])}
           k == Cardinality(Confirmed) + 1
           todo == {<<i, rows[i].action>> : i \in chosen}
<1>1. stage = "reviewing" /\ Confirmed # Import BY DEF Confirm
<1>2. /\ left' = [left EXCEPT ![k] = todo] /\ wanted' = [wanted EXCEPT ![k] = chosen]
      /\ state' = [state EXCEPT ![k] = "running"]
      /\ askedNew' = [i \in Items |-> askedNew[i] +
                 IF i \in chosen /\ rows[i].picked /\ rows[i].action = "new" THEN 1 ELSE 0]
      /\ overlapped' = (overlapped \/ Running # {})
      /\ stage' = "importing" /\ rows' = NoRows
      /\ UNCHANGED <<copies, failures, stale, restored, backup>>
  BY DEF Confirm
<1>3. /\ rows \in [Items -> Row] /\ \A i \in Items : RowFine(rows[i]) /\ rows[i].action \in WalletChoices
      /\ DOMAIN rows = Items
  BY <1>1 DEF ImportInv, RowsFine, Row, WalletChoices
<1>4. PICK n \in 0..MaxImports : Confirmed = 1..n BY DEF ImportInv, ImportShape
<1>5. k = n + 1 /\ k \in Import /\ k \notin Confirmed /\ state[k] = "idle"
  <2>1. n \in Nat /\ MaxImports \in Nat BY ImportAssumption
  <2>2. Cardinality(1..n) = n BY <2>1, FS_Interval
  <2>3. n # MaxImports BY <1>1, <1>4 DEF Import
  <2>4. k = n + 1 BY <1>4, <2>2
  <2>5. k \in Import /\ k \notin Confirmed BY <1>4, <2>1, <2>3, <2>4 DEF Import
  <2>6. QED BY <2>4, <2>5 DEF Confirmed
<1>6. /\ chosen \subseteq Items /\ todo \subseteq Items \X WalletChoices
      /\ \A r \in todo : r[1] \in chosen /\ r[2] = rows[r[1]].action
  BY <1>3
<1>7. \A i \in chosen : \E r \in todo : r[1] = i
  <2>1. \A i \in chosen : <<i, rows[i].action>> \in todo OBVIOUS
  <2>2. QED BY <2>1
<1>t. \A q, r \in todo : q[1] = r[1] => q = r BY <1>6
<1> HIDE DEF k, todo
<1>8. ImportShape'
  <2>1. askedNew' \in [Items -> Nat]
    BY <1>2 DEF ImportInv, ImportShape
  <2>2. left' \in [Import -> SUBSET (Items \X WalletChoices)] /\ wanted' \in [Import -> SUBSET Items]
    BY <1>2, <1>5, <1>6 DEF ImportInv, ImportShape
  <2>3. state' \in [Import -> {"idle", "running", "done", "failed"}]
    BY <1>2, <1>5 DEF ImportInv, ImportShape
  <2>4. Confirmed' = 1..(n + 1)
    <3>1. \A j \in Import : state'[j] = IF j = k THEN "running" ELSE state[j]
      BY <1>2, <1>5 DEF ImportInv, ImportShape
    <3>2. Confirmed' = Confirmed \cup {k} BY <1>5, <3>1 DEF Confirmed
    <3>3. QED BY <1>4, <1>5, <3>2
  <2>5. n + 1 \in 0..MaxImports BY <1>5, ImportAssumption DEF Import
  <2>6. QED BY <1>2, <2>1, <2>2, <2>3, <2>4, <2>5 DEF ImportInv, ImportShape
<1>9. /\ \A j \in Import : state'[j] = IF j = k THEN "running" ELSE state[j]
      /\ \A j \in Import : left'[j] = IF j = k THEN todo ELSE left[j]
      /\ \A j \in Import : wanted'[j] = IF j = k THEN chosen ELSE wanted[j]
  BY <1>2, <1>5 DEF ImportInv, ImportShape
<1>10. \A i \in Items : copies[i] \in Nat /\ askedNew[i] \in Nat /\ askedNew'[i] >= askedNew[i]
  BY <1>2 DEF ImportInv, ImportShape
<1>11. LeftFine'
  <2>1. Running' = Running \cup {k} BY <1>5, <1>9 DEF Running
  <2>2. ~overlapped' => \A i, j \in Running' : i = j
    BY <1>2, <2>1
  <2>3. ASSUME ~overlapped', NEW j \in Import, NEW r \in left'[j], r[2] # "overwrite"
        PROVE  copies'[r[1]] <= askedNew'[r[1]]
    <3>1. CASE j = k
      <4>1. r[1] \in chosen /\ r[2] = rows[r[1]].action BY <1>6, <1>9, <2>3, <3>1
      <4>2. r[1] \in Items /\ RowFine(rows[r[1]]) /\ rows[r[1]] \in Row BY <1>3, <1>6, <4>1
      <4>3. Running = {} /\ ~overlapped BY <2>3, <1>2
      <4>4. copies[r[1]] <= 1 + askedNew[r[1]] BY <4>2, <4>3 DEF ImportInv, NoSilentDuplicate
      <4>5. rows[r[1]].action = "new"
        BY <4>1, <4>2, <2>3 DEF RowFine, Row, IsToSave
      <4>6. CASE rows[r[1]].picked
        <5>1. askedNew'[r[1]] = askedNew[r[1]] + 1 BY <1>2, <4>1, <4>2, <4>5, <4>6
        <5>2. QED BY <1>2, <1>10, <4>2, <4>4, <5>1
      <4>7. CASE ~rows[r[1]].picked
        <5>1. ~rows[r[1]].duplicate BY <4>2, <4>5, <4>7 DEF RowFine
        <5>2. copies[r[1]] = 0 BY <1>1, <4>2, <4>3, <5>1 DEF ImportInv, ReviewIsFresh
        <5>3. QED BY <1>2, <1>10, <4>2, <5>2
      <4>8. QED BY <4>6, <4>7
    <3>2. CASE j # k
      <4>0. r \in left[j] /\ left[j] \subseteq Items \X WalletChoices
        BY <1>9, <2>3, <3>2 DEF ImportInv, ImportShape
      <4>1. r \in left[j] /\ ~overlapped /\ r[1] \in Items
        BY <1>2, <2>3, <4>0
      <4>2. copies[r[1]] <= askedNew[r[1]] BY <2>3, <4>1 DEF ImportInv, LeftFine
      <4>3. QED BY <1>2, <1>10, <4>1, <4>2
    <3>3. QED BY <3>1, <3>2
  <2>4. \A j \in Import : state'[j] # "running" => left'[j] = {}
    BY <1>9 DEF ImportInv, LeftFine
  <2>5. \A j \in Import : \A q, r \in left'[j] : q[1] = r[1] => q = r
    BY <1>9, <1>t DEF ImportInv, LeftFine
  <2>6. \A j \in Import : \A r \in left'[j] : r[1] \in wanted'[j]
    BY <1>6, <1>9 DEF ImportInv, LeftFine
  <2>7. QED BY <2>2, <2>3, <2>4, <2>5, <2>6 DEF LeftFine
<1>12. SavedOrLeft'
  <2>1. \A i \in wanted'[k] : \E r \in left'[k] : r[1] = i BY <1>5, <1>7, <1>9
  <2>2. QED BY <1>2, <1>9, <2>1 DEF ImportInv, SavedOrLeft
<1>13. NoSilentDuplicate'
  <2>1. ASSUME ~overlapped', NEW i \in Items PROVE copies'[i] <= 1 + askedNew'[i]
    <3>1. copies[i] <= 1 + askedNew[i] BY <1>2, <2>1 DEF ImportInv, NoSilentDuplicate
    <3>2. QED BY <1>2, <1>10, <3>1
  <2>2. QED BY <2>1 DEF NoSilentDuplicate
<1>14. TabIsTold' BY <1>2, <1>5, <1>9 DEF TabIsTold
<1>15. RowsFine' /\ ReviewIsFresh' BY <1>2 DEF RowsFine, ReviewIsFresh
<1>16. QED BY <1>8, <1>11, <1>12, <1>13, <1>14, <1>15 DEF ImportInv

\* of the imports that save row by row,
LEMMA SaveRowInv == ASSUME ImportInv, NEW k \in Import, SaveRow(k) PROVE ImportInv'
<1>1. PICK r \in left[k] :
          /\ copies' = IF r[2] = "overwrite" /\ copies[r[1]] > 0 THEN copies
                       ELSE [copies EXCEPT ![r[1]] = @ + 1]
          /\ left' = [left EXCEPT ![k] = @ \ {r}]
  BY DEF SaveRow
<1>2. state[k] = "running" /\ stale' = TRUE
      /\ UNCHANGED <<stage, rows, wanted, state, askedNew, overlapped, failures, restored, backup>>
  BY DEF SaveRow
<1>3. r[1] \in Items /\ r[2] \in WalletChoices BY DEF ImportInv, ImportShape
<1>4. /\ \A j \in Import : left'[j] = IF j = k THEN left[j] \ {r} ELSE left[j]
      /\ \A i \in Items : copies'[i] \in Nat /\ copies[i] \in Nat /\ askedNew[i] \in Nat
      /\ \A i \in Items : i # r[1] => copies'[i] = copies[i]
      /\ copies'[r[1]] > 0 /\ copies'[r[1]] >= copies[r[1]]
      /\ copies'[r[1]] = IF r[2] = "overwrite" /\ copies[r[1]] > 0 THEN copies[r[1]] ELSE copies[r[1]] + 1
  <2>1. \A i \in Items : copies[i] \in Nat /\ askedNew[i] \in Nat BY DEF ImportInv, ImportShape
  <2>2. \A j \in Import : left'[j] = IF j = k THEN left[j] \ {r} ELSE left[j]
    BY <1>1 DEF ImportInv, ImportShape
  <2>3. CASE r[2] = "overwrite" /\ copies[r[1]] > 0
    BY <1>1, <1>3, <2>1, <2>2, <2>3
  <2>4. CASE ~(r[2] = "overwrite" /\ copies[r[1]] > 0)
    <3>1. copies' = [copies EXCEPT ![r[1]] = @ + 1] BY <1>1, <2>4
    <3>2. \A i \in Items : copies'[i] = IF i = r[1] THEN copies[i] + 1 ELSE copies[i]
      BY <3>1, <1>3 DEF ImportInv, ImportShape
    <3>3. QED BY <1>3, <2>1, <2>2, <2>4, <3>2
  <2>5. QED BY <2>3, <2>4
<1>5. ImportShape'
  <2>1. copies' \in [Items -> Nat] BY <1>1, <1>3 DEF ImportInv, ImportShape
  <2>2. left' \in [Import -> SUBSET (Items \X WalletChoices)] BY <1>1 DEF ImportInv, ImportShape
  <2>3. Confirmed' = Confirmed BY <1>2 DEF Confirmed
  <2>4. QED BY <1>2, <2>1, <2>2, <2>3 DEF ImportInv, ImportShape
<1>6. Running' = Running /\ k \in Running BY <1>2 DEF Running
<1>7. RowsFine' /\ ReviewIsFresh' BY <1>2, <1>6 DEF ImportInv, RowsFine, ReviewIsFresh
<1>8. LeftFine'
  <2>1. ASSUME ~overlapped', NEW j \in Import, NEW q \in left'[j], q[2] # "overwrite"
        PROVE  copies'[q[1]] <= askedNew'[q[1]]
    <3>0. q \in left[j] /\ left[j] \subseteq Items \X WalletChoices
      BY <1>4, <2>1 DEF ImportInv, ImportShape
    <3>1. q \in left[j] /\ ~overlapped /\ q[1] \in Items
      BY <1>2, <2>1, <3>0
    <3>2. j = k
      <4>1. state[j] = "running" BY <3>1 DEF ImportInv, LeftFine
      <4>2. QED BY <1>6, <3>1, <4>1 DEF ImportInv, LeftFine, Running
    <3>3. q # r BY <1>4, <2>1, <3>2
    <3>4. q[1] # r[1] BY <3>1, <3>2, <3>3 DEF ImportInv, LeftFine
    <3>5. copies[q[1]] <= askedNew[q[1]] BY <2>1, <3>1 DEF ImportInv, LeftFine
    <3>6. QED BY <1>2, <1>4, <3>1, <3>4, <3>5
  <2>2. QED BY <1>2, <1>4, <1>6, <2>1 DEF ImportInv, LeftFine
<1>9. SavedOrLeft'
  <2>1. ASSUME ~restored', NEW j \in Import, state'[j] \in {"running", "done"}, NEW i \in wanted'[j]
        PROVE  copies'[i] > 0 \/ \E q \in left'[j] : q[1] = i
    <3>1. i \in Items /\ i \in wanted[j] BY <1>2, <2>1 DEF ImportInv, ImportShape
    <3>2. copies[i] > 0 \/ \E q \in left[j] : q[1] = i
      BY <1>2, <2>1, <3>1 DEF ImportInv, SavedOrLeft
    <3>3. CASE i = r[1] BY <1>4, <3>3
    <3>4. CASE i # r[1] BY <1>4, <3>1, <3>2, <3>4
    <3>5. QED BY <3>3, <3>4
  <2>2. QED BY <2>1 DEF SavedOrLeft
<1>10. NoSilentDuplicate'
  <2>1. ASSUME ~overlapped', NEW i \in Items PROVE copies'[i] <= 1 + askedNew'[i]
    <3>1. ~overlapped /\ copies[i] <= 1 + askedNew[i] BY <1>2, <2>1 DEF ImportInv, NoSilentDuplicate
    <3>2. CASE i # r[1] BY <1>2, <1>4, <3>1, <3>2
    <3>3. CASE i = r[1] /\ r[2] = "overwrite"
      BY <1>2, <1>4, <3>1, <3>3
    <3>4. CASE i = r[1] /\ r[2] # "overwrite"
      <4>1. copies[i] <= askedNew[i] BY <3>1, <3>4 DEF ImportInv, LeftFine
      <4>2. QED BY <1>2, <1>4, <3>4, <4>1
    <3>5. QED BY <3>2, <3>3, <3>4
  <2>2. QED BY <2>1 DEF NoSilentDuplicate
<1>11. TabIsTold' BY <1>2 DEF TabIsTold
<1>12. QED BY <1>5, <1>7, <1>8, <1>9, <1>10, <1>11 DEF ImportInv

LEMMA RowFailsInv == ASSUME ImportInv, NEW k \in Import, RowFails(k) PROVE ImportInv'
<1> USE DEF RowFails
<1>1. /\ \A j \in Import : left'[j] = IF j = k THEN {} ELSE left[j]
      /\ \A j \in Import : state'[j] = IF j = k THEN "failed" ELSE state[j]
  BY DEF ImportInv, ImportShape
<1>2. ImportShape'
  <2>1. left' \in [Import -> SUBSET (Items \X WalletChoices)] BY DEF ImportInv, ImportShape
  <2>2. state' \in [Import -> {"idle", "running", "done", "failed"}] BY DEF ImportInv, ImportShape
  <2>3. Confirmed' = Confirmed BY <1>1 DEF Confirmed
  <2>4. QED BY <2>1, <2>2, <2>3 DEF ImportInv, ImportShape
<1>3. RowsFine' /\ ReviewIsFresh' BY DEF RowsFine, ReviewIsFresh
<1>4. LeftFine'
  <2>1. Running' \subseteq Running BY <1>1 DEF Running
  <2>2. QED BY <1>1, <2>1 DEF ImportInv, LeftFine
<1>5. SavedOrLeft' BY <1>1 DEF ImportInv, SavedOrLeft
<1>6. NoSilentDuplicate' BY DEF ImportInv, NoSilentDuplicate
<1>7. TabIsTold' BY <1>1 DEF TabIsTold
<1>8. QED BY <1>2, <1>3, <1>4, <1>5, <1>6, <1>7 DEF ImportInv

LEMMA ImportDoneInv == ASSUME ImportInv, NEW k \in Import, ImportDone(k) PROVE ImportInv'
<1> USE DEF ImportDone
<1>1. \A j \in Import : state'[j] = IF j = k THEN "done" ELSE state[j]
  BY DEF ImportInv, ImportShape
<1>2. ImportShape'
  <2>1. state' \in [Import -> {"idle", "running", "done", "failed"}] BY DEF ImportInv, ImportShape
  <2>2. Confirmed' = Confirmed BY <1>1 DEF Confirmed
  <2>3. QED BY <2>1, <2>2 DEF ImportInv, ImportShape
<1>3. RowsFine' /\ ReviewIsFresh' BY DEF RowsFine, ReviewIsFresh
<1>4. LeftFine'
  <2>1. Running' \subseteq Running BY <1>1 DEF Running
  <2>2. QED BY <1>1, <2>1 DEF ImportInv, LeftFine
<1>5. SavedOrLeft' BY <1>1 DEF ImportInv, SavedOrLeft
<1>6. NoSilentDuplicate' /\ TabIsTold' BY DEF ImportInv, NoSilentDuplicate, TabIsTold
<1>7. QED BY <1>2, <1>3, <1>4, <1>5, <1>6 DEF ImportInv

\* and of a restore, which replaces the vault.
LEMMA RestoreInv == ASSUME ImportInv, StartRestore \/ Restore PROVE ImportInv'
<1>1. UNCHANGED <<stage, rows, left, wanted, state, askedNew, overlapped, failures>>
  BY DEF StartRestore, Restore
<1>2. \/ UNCHANGED <<copies, stale, restored>>
      \/ copies' = [i \in Items |-> 0] /\ stale' = FALSE /\ restored' = TRUE
  BY DEF StartRestore, Restore
<1>3. copies' \in [Items -> Nat] /\ \A i \in Items : copies'[i] = copies[i] \/ copies'[i] = 0
  BY <1>2 DEF ImportInv, ImportShape
<1>4. \A i \in Items : askedNew[i] \in Nat BY DEF ImportInv, ImportShape
<1>5. ImportShape'
  <2>1. Confirmed' = Confirmed BY <1>1 DEF Confirmed
  <2>2. QED BY <1>1, <1>3, <2>1 DEF ImportInv, ImportShape
<1>6. Running' = Running BY <1>1 DEF Running
<1>7. RowsFine' /\ ReviewIsFresh' BY <1>1, <1>3, <1>6 DEF ImportInv, RowsFine, ReviewIsFresh
<1>8. LeftFine'
  <2>1. \A k \in Import : \A r \in left[k] : r[1] \in Items BY DEF ImportInv, ImportShape
  <2>2. QED BY <1>1, <1>3, <1>4, <1>6, <2>1 DEF ImportInv, LeftFine
<1>9. SavedOrLeft' BY <1>1, <1>2 DEF ImportInv, SavedOrLeft
<1>10. NoSilentDuplicate' BY <1>1, <1>3, <1>4 DEF ImportInv, NoSilentDuplicate
<1>11. TabIsTold' BY <1>1, <1>2 DEF ImportInv, TabIsTold
<1>12. QED BY <1>5, <1>7, <1>8, <1>9, <1>10, <1>11 DEF ImportInv

\* Every step is one of them.
LEMMA ImportStep == ASSUME ImportInv, [ImportNext]_importVars PROVE ImportInv'
<1>1. ASSUME stage' # "reviewing", rows' = NoRows PROVE RowsFine' /\ ReviewIsFresh'
  BY <1>1 DEF RowsFine, ReviewIsFresh
<1>2. CASE ChooseExport
  <2>1. CASE ShowPreview BY <1>2, <2>1, ShowPreviewInv DEF ChooseExport
  <2>2. CASE stage' \in {"needs-password", "error"} /\ rows' = rows
    <3>1. rows' = NoRows BY <1>2, <2>2 DEF ChooseExport, ImportInv, RowsFine
    <3>2. QED BY <1>1, <1>2, <2>2, <3>1, ReviewInv DEF ChooseExport
  <2>3. QED BY <1>2, <2>1, <2>2 DEF ChooseExport
<1>3. CASE SubmitPassword BY <1>3, ShowPreviewInv DEF SubmitPassword
<1>4. CASE Confirm BY <1>4, ConfirmInv
<1>5. CASE Reset BY <1>1, <1>5, ReviewInv DEF Reset
<1>6. CASE StartRestore \/ Restore BY <1>6, RestoreInv
<1>7. ASSUME NEW i \in Items, ReviewRow(i) PROVE ImportInv' BY <1>7, ReviewRowInv
<1>8. ASSUME NEW k \in Import, SaveRow(k) \/ RowFails(k) \/ ImportDone(k) PROVE ImportInv'
  BY <1>8, SaveRowInv, RowFailsInv, ImportDoneInv
<1>9. CASE UNCHANGED importVars
  <2>1. UNCHANGED importRest /\ UNCHANGED <<rows, stage>> BY <1>9 DEF importVars, importRest
  <2>2. Running' = Running BY <2>1 DEF Running, importRest
  <2>3. RowsFine' /\ ReviewIsFresh' BY <2>1, <2>2 DEF ImportInv, RowsFine, ReviewIsFresh, importRest
  <2>4. stage' \in {"idle", "needs-password", "reviewing", "importing", "done", "error"}
    BY <2>1 DEF ImportInv, ImportShape
  <2>5. QED BY <2>1, <2>3, <2>4, ReviewInv
<1>10. QED BY <1>2, <1>3, <1>4, <1>5, <1>6, <1>7, <1>8, <1>9 DEF ImportNext

\* The invariant gives what the run checks.
LEMMA ImportImplies == ASSUME ImportInv PROVE ImportCorrect
<1>1. ImportTypeOK
  <2>1. stage = "reviewing" <=> DOMAIN rows = Items
    BY ImportAssumption DEF ImportInv, RowsFine, NoRows
  <2>2. \A i \in DOMAIN rows : rows[i] \in Row
    BY DEF ImportInv, RowsFine, NoRows
  <2>3. \A k \in Import : {r[1] : r \in left[k]} \subseteq wanted[k] BY DEF ImportInv, LeftFine
  <2>4. QED BY <2>1, <2>2, <2>3 DEF ImportInv, ImportShape, ImportTypeOK
<1>2. DoneMeansAll BY DEF ImportInv, LeftFine, SavedOrLeft, DoneMeansAll
<1>3. QED BY <1>1, <1>2 DEF ImportInv, ImportCorrect

\* For any items, imports and failures: no item is there twice unasked, "imported"
\* means all rows, and the tab is told (useBitwardenImport.ts).
THEOREM ImportCorrectHolds == ImportSpec => []ImportCorrect
BY ImportInitInv, ImportStep, ImportImplies, PTL DEF ImportSpec

-----------------------------------------------------------------------------
(*****************************************************************************)
(* WalletProvider.  That a nonce does not clash is a fact about all requests *)
(* of an account: as long as none strayed, the nonces in the pool are those  *)
(* from the mined ones on, without a gap, and the next one is free.          *)
(*****************************************************************************)

Going == {"pressed", "received", "prepared", "signing", "signed"}
Nonced == {"prepared", "signing", "signed"}
Somebody == Accounts \cup {Unset}
Transaction == [by : Accounts, nonce : Nat]
AskRecord == [phase : Going \cup {"none", "failed", "answered", "lost", "clashed"}, wants : {"send", "sign"},
              of : Connector, asked : Somebody, from : Somebody, nonce : Nat, by : Somebody,
              left : BOOLEAN, alone : BOOLEAN, behind : BOOLEAN]
CacheRecord == [address : Somebody, index : HardwareAccounts]

PoolOf(a) == {t \in pool : t.by = a}
SentBy(a) == {r \in Asks : asks[r].phase \in {"answered", "lost"} /\ asks[r].wants = "send" /\ asks[r].by = a}

\* The address and the index a connector remembers are those of one account.
CacheInv ==
    /\ current \in Connector \cup {"none"} /\ cached \in [Connector -> CacheRecord]
    /\ \A w \in Connector : current = w <=> cached[w].address # Unset
    /\ cached["hardware"].address \in {Unset, cached["hardware"].index}
    /\ cached["local"].address \in {Unset, LocalAccount}

\* A request, as long as its account has not logged out, is that account's.
AskFine(q) ==
    /\ q.phase \in Going /\ ~q.left => current = q.of /\ cached[q.of].address = q.asked
    /\ q.phase \in {"received", "prepared", "signed"} => q.wants = "send"
    /\ q.phase \in Going \ {"pressed"} /\ q.wants = "send" => q.from \in Accounts
    /\ q.phase \in Going \ {"pressed"} /\ q.wants = "send" /\ ~q.left => q.from = q.asked
    /\ q.phase \in {"none", "pressed", "received", "prepared"} => q.by = Unset
    /\ q.phase \in {"signing", "signed", "clashed"} => q.by \in Accounts
    /\ q.by \in {Unset, q.asked} \/ q.left

\* The nonce it was given is not past the next one, and is the next one of a
\* request that is alone, if the node was not behind.
NonceFine(q) ==
    /\ q.wants = "send" /\ q.phase \in Nonced =>
          q.nonce <= NextNonce(q.from) /\ (q.alone /\ ~q.behind => q.nonce = NextNonce(q.from))
    /\ q.nonce <= Cardinality(Asks)

AsksInv ==
    /\ asks \in [Asks -> AskRecord]
    /\ \A r \in Asks : AskFine(asks[r]) /\ NonceFine(asks[r])
    /\ \A r, s \in Asks : r # s /\ asks[r].alone /\ asks[r].wants = "send" /\ UnderWay(r)
                            /\ asks[s].wants = "send" => ~UnderWay(s)
    /\ ClashNeedsCompany

Unbroken(a) == \A t \in pool : t.by = a => \A n \in mined[a]..t.nonce : [by |-> a, nonce |-> n] \in pool

ChainInv ==
    /\ pool \subseteq Transaction /\ IsFiniteSet(pool) /\ mined \in [Accounts -> Nat]
    /\ \A t \in pool : t.nonce >= mined[t.by]
    /\ \A a \in Accounts : NextNonce(a) <= Cardinality(SentBy(a))
    /\ \A a \in Accounts : Strayed(a) \/ Unbroken(a)

ProviderInv == CacheInv /\ AsksInv /\ ChainInv

-----------------------------------------------------------------------------
\* The accounts, and the numbers of their transactions.
LEMMA AccountFacts == /\ Unset \notin Accounts /\ LocalAccount \in Accounts /\ HardwareAccounts \subseteq Accounts
                      /\ 0 \in HardwareAccounts /\ IsFiniteSet(Asks) /\ Cardinality(Asks) \in Nat
BY ProviderAssumption, FS_CardinalityType DEF Accounts

LEMMA CountsAreNumbers ==
    ASSUME NEW p, IsFiniteSet(p), NEW a
    PROVE  IsFiniteSet({t \in p : t.by = a}) /\ Cardinality({t \in p : t.by = a}) \in Nat
<1>1. {t \in p : t.by = a} \in SUBSET p OBVIOUS
<1>2. QED BY <1>1, FS_Subset, FS_CardinalityType

LEMMA NextIsANumber == ASSUME ChainInv, NEW a \in Accounts PROVE NextNonce(a) \in Nat /\ mined[a] \in Nat
<1>1. Cardinality({t \in pool : t.by = a}) \in Nat BY CountsAreNumbers DEF ChainInv
<1>2. mined[a] \in Nat BY DEF ChainInv
<1>3. QED BY <1>1, <1>2 DEF NextNonce

\* Transactions of one account are told apart by their nonces.
LEMMA NoncesCount ==
    ASSUME NEW p \in SUBSET Transaction, IsFiniteSet(p), NEW a \in Accounts
    PROVE  LET P == {t \in p : t.by = a}
               N == {n \in Nat : [by |-> a, nonce |-> n] \in p}
           IN  IsFiniteSet(N) /\ Cardinality(N) = Cardinality(P)
<1> DEFINE P == {t \in p : t.by = a}
           N == {n \in Nat : [by |-> a, nonce |-> n] \in p}
           f == [t \in P |-> t.nonce]
<1>1. IsFiniteSet(P) BY CountsAreNumbers
<1>2. \A t \in P : t.nonce \in N /\ t = [by |-> a, nonce |-> t.nonce]
  <2> SUFFICES ASSUME NEW t \in P PROVE t.nonce \in N /\ t = [by |-> a, nonce |-> t.nonce]
    OBVIOUS
  <2>1. t \in Transaction /\ t.by = a OBVIOUS
  <2>2. t = [by |-> a, nonce |-> t.nonce] /\ t.nonce \in Nat BY <2>1 DEF Transaction
  <2>3. QED BY <2>2
<1>3. f \in [P -> N] BY <1>2
<1>4. \A s, t \in P : f[s] = f[t] => s = t
  <2> SUFFICES ASSUME NEW s \in P, NEW t \in P, f[s] = f[t] PROVE s = t
    OBVIOUS
  <2>1. s.nonce = t.nonce OBVIOUS
  <2>2. s = [by |-> a, nonce |-> s.nonce] /\ t = [by |-> a, nonce |-> t.nonce] BY <1>2
  <2>3. QED BY <2>1, <2>2
<1>5. \A n \in N : \E t \in P : f[t] = n
  <2> SUFFICES ASSUME NEW n \in N PROVE \E t \in P : f[t] = n
    OBVIOUS
  <2>1. [by |-> a, nonce |-> n] \in P OBVIOUS
  <2>2. f[[by |-> a, nonce |-> n]] = n BY <2>1
  <2>3. QED BY <2>1, <2>2
<1>6. f \in Injection(P, N) BY <1>3, <1>4 DEF Injection, IsInjective
<1>7. f \in Surjection(P, N) BY <1>3, <1>5 DEF Surjection
<1>8. ExistsBijection(P, N) BY <1>6, <1>7 DEF ExistsBijection, Bijection
<1>9. QED BY <1>1, <1>8, FS_Bijection

\* Without a gap the nonces of an account are those from the mined ones on.
LEMMA Gapless ==
    ASSUME NEW p \in SUBSET Transaction, IsFiniteSet(p), NEW a \in Accounts, NEW m \in Nat,
           \A t \in p : t.by = a => t.nonce >= m /\ \A n \in m..t.nonce : [by |-> a, nonce |-> n] \in p
    PROVE  \A n \in Nat : [by |-> a, nonce |-> n] \in p
                            <=> n >= m /\ n < m + Cardinality({t \in p : t.by = a})
<1> DEFINE P == {t \in p : t.by = a}
           N == {n \in Nat : [by |-> a, nonce |-> n] \in p}
           k == Cardinality(P)
<1>1. IsFiniteSet(N) /\ Cardinality(N) = k /\ k \in Nat BY NoncesCount, CountsAreNumbers
<1>2. \A n \in N : n \in Nat /\ n >= m /\ m..n \subseteq N
  <2> SUFFICES ASSUME NEW n \in N PROVE n \in Nat /\ n >= m /\ m..n \subseteq N
    OBVIOUS
  <2>1. [by |-> a, nonce |-> n] \in p OBVIOUS
  <2>2. n >= m /\ \A j \in m..n : [by |-> a, nonce |-> j] \in p BY <2>1
  <2>3. QED BY <2>2
<1>3. ASSUME NEW n \in N PROVE n < m + k
  <2>1. n \in Nat /\ n >= m /\ (m..n) \in SUBSET N BY <1>2
  <2>2. Cardinality(m..n) = n - m + 1 BY <2>1, FS_Interval
  <2>3. Cardinality(m..n) <= k BY <1>1, <2>1, FS_Subset
  <2>4. QED BY <1>1, <2>1, <2>2, <2>3
<1> DEFINE I == m..(m + k - 1)
<1>4. IsFiniteSet(I) /\ Cardinality(I) = k
  <2>1. m \in Int /\ m + k - 1 \in Int BY <1>1
  <2>2. QED BY <1>1, <2>1, FS_Interval
<1>5. N \in SUBSET I
  <2> SUFFICES ASSUME NEW n \in N PROVE n \in I
    OBVIOUS
  <2>1. n \in Nat /\ n >= m /\ n < m + k BY <1>2, <1>3
  <2> HIDE DEF N, k
  <2>2. QED BY <1>1, <2>1
<1>6. N = I BY <1>1, <1>4, <1>5, FS_Subset
<1>7. \A n \in Nat : n \in I <=> n >= m /\ n < m + k BY <1>1
<1>8. QED BY <1>6, <1>7

\* So that the next nonce of an account without gaps is the first free one.
LEMMA NextIsFree ==
    ASSUME ChainInv, NEW a \in Accounts, Unbroken(a)
    PROVE  \A n \in Nat : [by |-> a, nonce |-> n] \in pool <=> n >= mined[a] /\ n < NextNonce(a)
<1>1. \A t \in pool : t.by = a => t.nonce >= mined[a] /\ \A n \in mined[a]..t.nonce : [by |-> a, nonce |-> n] \in pool
  BY DEF ChainInv, Unbroken
<1>2. mined[a] \in Nat /\ pool \in SUBSET Transaction /\ IsFiniteSet(pool) BY DEF ChainInv
<1>3. QED BY <1>1, <1>2, Gapless DEF NextNonce

-----------------------------------------------------------------------------
\* The invariant holds at the start.
LEMMA ProviderInitInv == ASSUME ProviderInit PROVE ProviderInv
<1> USE AccountFacts DEF ProviderInit
<1>1. CacheInv
  <2>1. [address |-> Unset, index |-> 0] \in CacheRecord BY DEF CacheRecord, Somebody
  <2>2. cached \in [Connector -> CacheRecord] BY <2>1
  <2>3. \A w \in Connector : cached[w].address = Unset /\ w # "none" BY DEF Connector
  <2>4. "hardware" \in Connector /\ "local" \in Connector BY DEF Connector
  <2>5. QED BY <2>2, <2>3, <2>4 DEF CacheInv
<1>2. AsksInv
  <2>1. NotAsked \in AskRecord BY DEF NotAsked, AskRecord, Connector, Somebody, Going
  <2>2. AskFine(NotAsked) BY DEF AskFine, NotAsked, Going
  <2>3. NonceFine(NotAsked) BY DEF NonceFine, NotAsked, Nonced
  <2>4. \A r \in Asks : ~UnderWay(r) /\ asks[r].phase = "none" BY DEF UnderWay, NotAsked
  <2>5. QED BY <2>1, <2>2, <2>3, <2>4 DEF AsksInv, ClashNeedsCompany
<1>3. ChainInv
  <2>1. IsFiniteSet(pool) /\ Cardinality({}) = 0 BY FS_EmptySet
  <2>2. ASSUME NEW a \in Accounts PROVE NextNonce(a) <= Cardinality(SentBy(a))
    <3>1. {t \in pool : t.by = a} = {} /\ mined[a] = 0 OBVIOUS
    <3>2. NextNonce(a) = 0 BY <2>1, <3>1 DEF NextNonce
    <3>3. SentBy(a) \in SUBSET Asks BY DEF SentBy
    <3>4. Cardinality(SentBy(a)) \in Nat BY <3>3, FS_Subset, FS_CardinalityType
    <3>5. QED BY <3>2, <3>4
  <2>3. QED BY <2>1, <2>2 DEF ChainInv, Unbroken
<1>4. QED BY <1>1, <1>2, <1>3 DEF ProviderInv

\* A request that strayed stays so.
LEMMA StrayedStays ==
    ASSUME \A s \in Asks : asks[s].left /\ asks[s].by \in Accounts => asks'[s].left /\ asks'[s].by = asks[s].by
    PROVE  \A a \in Accounts : Strayed(a) => Strayed(a)'
BY DEF Strayed

\* One request moves, by a step that sends nothing.
LEMMA OneAskMoves ==
    ASSUME ProviderInv, NEW r \in Asks, NEW v \in AskRecord, asks' = [asks EXCEPT ![r] = v],
           UNCHANGED <<current, cached, pool, mined>>,
           AskFine(v), NonceFine(v), v.wants = asks[r].wants, v.alone = asks[r].alone, v.left = asks[r].left,
           v.by = asks[r].by \/ asks[r].by = Unset,
           v.phase \in Going => asks[r].phase \in Going,
           v.phase \in {"answered", "lost"} => v.wants = "sign", asks[r].phase \in Going,
           v.phase = "clashed" => ~v.alone \/ v.behind \/ Strayed(v.by)
    PROVE  ProviderInv'
<1>0. asks \in [Asks -> AskRecord] BY DEF ProviderInv, AsksInv
<1>1. \A s \in Asks : asks'[s] = IF s = r THEN v ELSE asks[s] BY <1>0
<1>2. asks' \in [Asks -> AskRecord] BY <1>0
<1>3. \A a : NextNonce(a)' = NextNonce(a) BY DEF NextNonce
<1>4. ASSUME NEW s \in Asks PROVE AskFine(asks[s])' /\ NonceFine(asks[s])'
  <2>1. AskFine(asks'[s]) /\ NonceFine(asks'[s]) BY <1>1 DEF ProviderInv, AsksInv
  <2>2. AskFine(asks[s])' BY <2>1 DEF AskFine
  <2>3. NonceFine(asks[s])' BY <1>3, <2>1 DEF NonceFine
  <2>4. QED BY <2>2, <2>3
<1>5. \A s \in Asks : asks[s].left /\ asks[s].by \in Accounts => asks'[s].left /\ asks'[s].by = asks[s].by
  BY <1>1, AccountFacts
<1>6. \A a \in Accounts : Strayed(a) => Strayed(a)' BY <1>5, StrayedStays
<1>7. \A q, s \in Asks : q # s /\ asks'[q].alone /\ asks'[q].wants = "send" /\ UnderWay(q)'
                            /\ asks'[s].wants = "send" => ~UnderWay(s)'
  <2>1. \A s \in Asks : /\ asks'[s].alone = asks[s].alone /\ asks'[s].wants = asks[s].wants
                        /\ UnderWay(s)' => UnderWay(s)
    BY <1>1 DEF UnderWay, Going
  <2>2. QED BY <2>1 DEF ProviderInv, AsksInv
<1>8. ClashNeedsCompany'
  <2>1. ASSUME NEW s \in Asks, asks'[s].phase = "clashed"
        PROVE  ~asks'[s].alone \/ asks'[s].behind \/ \E q \in Asks : asks'[q].left /\ asks'[q].by = asks'[s].by
    <3>1. asks'[s].by \in Accounts BY <1>1, <2>1 DEF ProviderInv, AsksInv, AskFine
    <3>2. ~asks'[s].alone \/ asks'[s].behind \/ Strayed(asks'[s].by)
      BY <1>1, <2>1 DEF ProviderInv, AsksInv, ClashNeedsCompany
    <3>3. QED BY <1>5, <3>1, <3>2 DEF Strayed
  <2>2. QED BY <2>1 DEF ClashNeedsCompany, Strayed
<1>9. AsksInv' BY <1>2, <1>4, <1>7, <1>8 DEF AsksInv
<1>10. ChainInv'
  <2>1. \A a \in Accounts : SentBy(a)' = SentBy(a)
    <3> SUFFICES ASSUME NEW a \in Accounts, NEW s \in Asks
                 PROVE  (asks'[s].phase \in {"answered", "lost"} /\ asks'[s].wants = "send" /\ asks'[s].by = a)
                          <=> (asks[s].phase \in {"answered", "lost"} /\ asks[s].wants = "send" /\ asks[s].by = a)
      BY DEF SentBy
    <3>1. QED BY <1>1 DEF Going
  <2>2. \A a \in Accounts : Unbroken(a)' <=> Unbroken(a) BY DEF Unbroken
  <2>3. QED BY <1>3, <1>6, <2>1, <2>2 DEF ProviderInv, ChainInv
<1>11. CacheInv' BY DEF ProviderInv, CacheInv
<1>12. QED BY <1>9, <1>10, <1>11 DEF ProviderInv

\* What a request keeps and what it changes when one field of it is written.
LEMMA PhaseMoves ==
    ASSUME NEW q \in AskRecord, NEW p \in Going \cup {"failed", "answered", "lost", "clashed"}
    PROVE  LET v == [q EXCEPT !.phase = p]
           IN  /\ v \in AskRecord /\ v.phase = p /\ v.wants = q.wants /\ v.of = q.of /\ v.asked = q.asked
               /\ v.from = q.from /\ v.nonce = q.nonce /\ v.by = q.by /\ v.left = q.left /\ v.alone = q.alone
               /\ v.behind = q.behind
BY DEF AskRecord

\* The same for the sender and the signer that a request gets.
LEMMA SenderWritten ==
    ASSUME NEW q \in AskRecord, NEW a \in Accounts
    PROVE  LET v == [q EXCEPT !.phase = "received", !.from = a]
           IN  /\ v \in AskRecord /\ v.phase = "received" /\ v.wants = q.wants /\ v.of = q.of /\ v.asked = q.asked
               /\ v.from = a /\ v.nonce = q.nonce /\ v.by = q.by /\ v.left = q.left /\ v.alone = q.alone
               /\ v.behind = q.behind
BY DEF AskRecord, Somebody, Going

LEMMA SignerWritten ==
    ASSUME NEW q \in AskRecord, NEW a \in Accounts
    PROVE  LET v == [q EXCEPT !.phase = "signing", !.by = a]
           IN  /\ v \in AskRecord /\ v.phase = "signing" /\ v.wants = q.wants /\ v.of = q.of /\ v.asked = q.asked
               /\ v.from = q.from /\ v.nonce = q.nonce /\ v.by = a /\ v.left = q.left /\ v.alone = q.alone
               /\ v.behind = q.behind
BY DEF AskRecord, Somebody, Going

\* What the invariant says of one request.
LEMMA AskFacts ==
    ASSUME ProviderInv, NEW r \in Asks
    PROVE  asks[r] \in AskRecord /\ AskFine(asks[r]) /\ NonceFine(asks[r])
BY DEF ProviderInv, AsksInv

\* The address of a connected connector and the account it signs for.
LEMMA ConnectedFacts ==
    ASSUME CacheInv, NEW w \in Connector, cached[w].address # Unset
    PROVE  cached[w].address \in Accounts /\ SignerOf(w) = cached[w].address
<1>1. w \in {"hardware", "local"} BY DEF Connector
<1>2. cached[w] \in CacheRecord BY DEF CacheInv
<1>3. cached[w].address \in Somebody BY <1>2 DEF CacheRecord
<1>4. QED BY <1>1, <1>3 DEF CacheInv, SignerOf, Somebody

\* Whatever the connector remembers, it signs for some account.
LEMMA SignerIsAnAccount == ASSUME CacheInv, NEW w \in Connector PROVE SignerOf(w) \in Accounts
<1>1. cached[w] \in CacheRecord BY DEF CacheInv
<1>2. cached[w].index \in Accounts BY <1>1, AccountFacts DEF CacheRecord
<1>3. QED BY <1>2, AccountFacts DEF SignerOf

-----------------------------------------------------------------------------
\* The steps that move one request.
LEMMA EndsInv ==
    ASSUME ProviderInv, NEW r \in Asks, asks' = [asks EXCEPT ![r].phase = "failed"],
           asks[r].phase \in Going, UNCHANGED <<current, cached, pool, mined>>
    PROVE  ProviderInv'
<1> DEFINE v == [asks[r] EXCEPT !.phase = "failed"]
<1>1. asks' = [asks EXCEPT ![r] = v] OBVIOUS
<1>2. asks[r] \in AskRecord /\ AskFine(asks[r]) /\ NonceFine(asks[r]) BY AskFacts
<1>3. /\ v \in AskRecord /\ v.phase = "failed" /\ v.wants = asks[r].wants /\ v.of = asks[r].of
      /\ v.asked = asks[r].asked /\ v.from = asks[r].from /\ v.nonce = asks[r].nonce /\ v.by = asks[r].by
      /\ v.left = asks[r].left /\ v.alone = asks[r].alone /\ v.behind = asks[r].behind
  BY <1>2, PhaseMoves
<1> HIDE DEF v
<1>4. AskFine(v) BY <1>2, <1>3 DEF AskFine, Going
<1>5. NonceFine(v) BY <1>2, <1>3 DEF NonceFine, Nonced
<1>6. QED BY <1>1, <1>3, <1>4, <1>5, OneAskMoves DEF Going

LEMMA ReceiveInv == ASSUME ProviderInv, NEW r \in Asks, Receive(r) PROVE ProviderInv'
<1> USE DEF Receive
<1> DEFINE v == [asks[r] EXCEPT !.phase = "received", !.from = cached[asks[r].of].address]
<1>1. asks' = [asks EXCEPT ![r] = v] OBVIOUS
<1>2. asks[r] \in AskRecord /\ AskFine(asks[r]) /\ NonceFine(asks[r]) BY AskFacts
<1>3. asks[r].of \in Connector BY <1>2 DEF AskRecord
<1>4. cached[asks[r].of].address \in Accounts BY <1>3, ConnectedFacts DEF ProviderInv
<1>5. /\ v \in AskRecord /\ v.phase = "received" /\ v.wants = asks[r].wants /\ v.of = asks[r].of
      /\ v.asked = asks[r].asked /\ v.from = cached[asks[r].of].address /\ v.nonce = asks[r].nonce
      /\ v.by = asks[r].by /\ v.left = asks[r].left /\ v.alone = asks[r].alone /\ v.behind = asks[r].behind
  BY <1>2, <1>4, SenderWritten
<1> HIDE DEF v
<1>6. AskFine(v) BY <1>2, <1>4, <1>5 DEF AskFine, Going
<1>7. NonceFine(v) BY <1>2, <1>5 DEF NonceFine, Nonced
<1>8. QED BY <1>1, <1>5, <1>6, <1>7, OneAskMoves DEF Going

LEMMA PrepareInv == ASSUME ProviderInv, NEW r \in Asks, PrepareTransaction(r) PROVE ProviderInv'
<1>0. asks[r].phase = "received" /\ UNCHANGED <<current, cached, pool, mined>> BY DEF PrepareTransaction
<1>1. CASE asks' = [asks EXCEPT ![r].phase = "failed"]
  BY <1>0, <1>1, EndsInv DEF Going
<1>2. CASE \E n \in 0..NextNonce(asks[r].from) :
              asks' = [asks EXCEPT ![r].phase = "prepared", ![r].nonce = n,
                                   ![r].behind = n < NextNonce(asks[r].from)]
  <2>1. PICK n \in 0..NextNonce(asks[r].from) :
              asks' = [asks EXCEPT ![r].phase = "prepared", ![r].nonce = n,
                                   ![r].behind = n < NextNonce(asks[r].from)]
    BY <1>2
  <2> DEFINE b == n < NextNonce(asks[r].from)
             v == [asks[r] EXCEPT !.phase = "prepared", !.nonce = n, !.behind = b]
  <2>2. asks' = [asks EXCEPT ![r] = v] BY <2>1
  <2>3. asks[r] \in AskRecord /\ AskFine(asks[r]) /\ NonceFine(asks[r]) BY AskFacts
  <2>4. asks[r].wants = "send" /\ asks[r].from \in Accounts BY <1>0, <2>3 DEF AskFine, Going
  <2>5. NextNonce(asks[r].from) \in Nat BY <2>4, NextIsANumber DEF ProviderInv
  <2>6. n \in Nat /\ n <= Cardinality(Asks)
    <3>1. NextNonce(asks[r].from) <= Cardinality(SentBy(asks[r].from)) BY <2>4 DEF ProviderInv, ChainInv
    <3>2. SentBy(asks[r].from) \in SUBSET Asks BY DEF SentBy
    <3>3. /\ Cardinality(SentBy(asks[r].from)) \in Nat
          /\ Cardinality(SentBy(asks[r].from)) <= Cardinality(Asks)
      BY <3>2, FS_Subset, FS_CardinalityType, AccountFacts
    <3>4. QED BY <2>5, <3>1, <3>3, AccountFacts
  <2>7. b \in BOOLEAN OBVIOUS
  <2>8. b <=> n < NextNonce(asks[r].from) OBVIOUS
  <2> HIDE DEF b
  <2>9. /\ v \in AskRecord /\ v.phase = "prepared" /\ v.wants = asks[r].wants /\ v.of = asks[r].of
        /\ v.asked = asks[r].asked /\ v.from = asks[r].from /\ v.nonce = n
        /\ v.by = asks[r].by /\ v.left = asks[r].left /\ v.alone = asks[r].alone /\ v.behind = b
    <3> DEFINE q == asks[r]
    <3>1. q \in AskRecord /\ n \in Nat /\ b \in BOOLEAN BY <2>3, <2>6, <2>7
    <3>2. v = [q EXCEPT !.phase = "prepared", !.nonce = n, !.behind = b] OBVIOUS
    <3> HIDE DEF q, v
    <3>3. /\ v \in AskRecord /\ v.phase = "prepared" /\ v.wants = q.wants /\ v.of = q.of /\ v.asked = q.asked
          /\ v.from = q.from /\ v.nonce = n /\ v.by = q.by /\ v.left = q.left /\ v.alone = q.alone
          /\ v.behind = b
      BY <3>1, <3>2 DEF AskRecord, Going
    <3>4. QED BY <3>3 DEF q
  <2> HIDE DEF v
  <2>10. AskFine(v) BY <1>0, <2>3, <2>4, <2>9 DEF AskFine, Going
  <2>11. NonceFine(v)
    <3>1. n <= NextNonce(asks[r].from) /\ (~b => n = NextNonce(asks[r].from)) BY <2>5, <2>6, <2>8
    <3>2. QED BY <2>6, <2>9, <3>1 DEF NonceFine
  <2>12. QED BY <1>0, <2>2, <2>9, <2>10, <2>11, OneAskMoves DEF Going
<1>3. QED BY <1>1, <1>2 DEF PrepareTransaction

LEMMA CallInv == ASSUME ProviderInv, NEW r \in Asks, CallSigner(r) PROVE ProviderInv'
<1> USE DEF CallSigner
<1> DEFINE a == SignerOf(asks[r].of)
           v == [asks[r] EXCEPT !.phase = "signing", !.by = a]
<1>1. asks' = [asks EXCEPT ![r] = v] OBVIOUS
<1>2. asks[r] \in AskRecord /\ AskFine(asks[r]) /\ NonceFine(asks[r]) BY AskFacts
<1>3. asks[r].of \in Connector /\ asks[r].asked \in Somebody BY <1>2 DEF AskRecord
<1>4. a \in Accounts BY <1>3, SignerIsAnAccount DEF ProviderInv
<1>5. /\ v \in AskRecord /\ v.phase = "signing" /\ v.wants = asks[r].wants /\ v.of = asks[r].of
      /\ v.asked = asks[r].asked /\ v.from = asks[r].from /\ v.nonce = asks[r].nonce
      /\ v.by = a /\ v.left = asks[r].left /\ v.alone = asks[r].alone /\ v.behind = asks[r].behind
  BY <1>2, <1>4, SignerWritten
<1>6. asks[r].left \/ a = asks[r].asked
  <2> SUFFICES ASSUME ~asks[r].left PROVE a = asks[r].asked
    OBVIOUS
  <2>1. current = asks[r].of /\ cached[asks[r].of].address = asks[r].asked BY <1>2 DEF AskFine, Going
  <2>2. cached[asks[r].of].address # Unset BY <1>3, <2>1 DEF ProviderInv, CacheInv
  <2>3. QED BY <1>3, <2>1, <2>2, ConnectedFacts DEF ProviderInv
<1> HIDE DEF v, a
<1>7. AskFine(v) BY <1>2, <1>4, <1>5, <1>6 DEF AskFine, Going
<1>8. NonceFine(v) BY <1>2, <1>5 DEF NonceFine, Nonced
<1>9. asks[r].by = Unset BY <1>2 DEF AskFine
<1>10. asks[r].phase \in Going BY DEF Going
<1>11. QED BY <1>1, <1>5, <1>7, <1>8, <1>9, <1>10, OneAskMoves DEF Going

LEMMA SignsInv == ASSUME ProviderInv, NEW r \in Asks, SignerSigns(r) PROVE ProviderInv'
<1> USE DEF SignerSigns
<1> DEFINE p == IF asks[r].wants = "send" THEN "signed" ELSE "answered"
           v == [asks[r] EXCEPT !.phase = p]
<1>1. asks' = [asks EXCEPT ![r] = v] OBVIOUS
<1>2. asks[r] \in AskRecord /\ AskFine(asks[r]) /\ NonceFine(asks[r]) BY AskFacts
<1>3. p \in {"signed", "answered"} /\ (p = "signed" <=> asks[r].wants = "send") OBVIOUS
<1> HIDE DEF p
<1>4. /\ v \in AskRecord /\ v.phase = p /\ v.wants = asks[r].wants /\ v.of = asks[r].of
      /\ v.asked = asks[r].asked /\ v.from = asks[r].from /\ v.nonce = asks[r].nonce /\ v.by = asks[r].by
      /\ v.left = asks[r].left /\ v.alone = asks[r].alone /\ v.behind = asks[r].behind
  <2>1. p \in Going \cup {"failed", "answered", "lost", "clashed"} BY <1>3 DEF Going
  <2>2. QED BY <1>2, <2>1, PhaseMoves
<1> HIDE DEF v
<1>5. AskFine(v) BY <1>2, <1>3, <1>4 DEF AskFine, Going
<1>6. NonceFine(v) BY <1>2, <1>3, <1>4 DEF NonceFine, Nonced
<1>7. v.wants \in {"send", "sign"} BY <1>4 DEF AskRecord
<1>8. QED BY <1>1, <1>3, <1>4, <1>5, <1>6, <1>7, OneAskMoves DEF Going

\* A signed transaction, and the nonce it has if its account stayed.
LEMMA SignedFacts ==
    ASSUME ProviderInv, NEW r \in Asks, asks[r].phase = "signed"
    PROVE  /\ asks[r] \in AskRecord /\ asks[r].wants = "send" /\ asks[r].by \in Accounts
           /\ asks[r].nonce \in Nat /\ mined[asks[r].by] \in Nat /\ NextNonce(asks[r].by) \in Nat
           /\ mined[asks[r].by] <= NextNonce(asks[r].by)
           /\ Strayed(asks[r].by) \/ /\ Unbroken(asks[r].by) /\ asks[r].nonce <= NextNonce(asks[r].by)
                                     /\ asks[r].alone /\ ~asks[r].behind => asks[r].nonce = NextNonce(asks[r].by)
<1>1. asks[r] \in AskRecord /\ AskFine(asks[r]) /\ NonceFine(asks[r]) BY AskFacts
<1>2. asks[r].wants = "send" /\ asks[r].by \in Accounts BY <1>1 DEF AskFine, Going
<1>3. asks[r].nonce \in Nat BY <1>1 DEF AskRecord
<1>4. NextNonce(asks[r].by) \in Nat /\ mined[asks[r].by] \in Nat
  BY <1>2, NextIsANumber DEF ProviderInv
<1>5. mined[asks[r].by] <= NextNonce(asks[r].by)
  <2>1. Cardinality({t \in pool : t.by = asks[r].by}) \in Nat
    BY CountsAreNumbers DEF ProviderInv, ChainInv
  <2>2. QED BY <1>4, <2>1 DEF NextNonce
<1>6. ASSUME ~Strayed(asks[r].by)
      PROVE  /\ Unbroken(asks[r].by) /\ asks[r].nonce <= NextNonce(asks[r].by)
             /\ asks[r].alone /\ ~asks[r].behind => asks[r].nonce = NextNonce(asks[r].by)
  <2>1. ~asks[r].left BY <1>6 DEF Strayed
  <2>2. asks[r].from = asks[r].by BY <1>1, <1>2, <2>1, AccountFacts DEF AskFine, Going
  <2>3. Unbroken(asks[r].by) BY <1>2, <1>6 DEF ProviderInv, ChainInv
  <2>4. QED BY <1>1, <1>2, <2>2, <2>3 DEF NonceFine, Nonced
<1>7. QED BY <1>1, <1>2, <1>3, <1>4, <1>5, <1>6

\* A nonce that is taken ends the request, and one that is free is used.
LEMMA ClashInv ==
    ASSUME ProviderInv, NEW r \in Asks, asks[r].phase = "signed", Taken(r),
           asks' = [asks EXCEPT ![r].phase = "clashed"], UNCHANGED <<current, cached, pool, mined>>
    PROVE  ProviderInv'
<1> DEFINE v == [asks[r] EXCEPT !.phase = "clashed"]
           a == asks[r].by
<1>1. asks' = [asks EXCEPT ![r] = v] OBVIOUS
<1>2. asks[r] \in AskRecord /\ AskFine(asks[r]) /\ NonceFine(asks[r]) BY AskFacts
<1>3. /\ v \in AskRecord /\ v.phase = "clashed" /\ v.wants = asks[r].wants /\ v.of = asks[r].of
      /\ v.asked = asks[r].asked /\ v.from = asks[r].from /\ v.nonce = asks[r].nonce /\ v.by = asks[r].by
      /\ v.left = asks[r].left /\ v.alone = asks[r].alone /\ v.behind = asks[r].behind
  BY <1>2, PhaseMoves
<1>4. ~asks[r].alone \/ asks[r].behind \/ Strayed(a)
  <2> SUFFICES ASSUME asks[r].alone, ~asks[r].behind, ~Strayed(a) PROVE FALSE
    OBVIOUS
  <2>1. Unbroken(a) /\ asks[r].nonce = NextNonce(a) /\ a \in Accounts BY SignedFacts
  <2>2. mined[a] \in Nat /\ NextNonce(a) \in Nat /\ mined[a] <= NextNonce(a) BY SignedFacts
  <2>3. [by |-> a, nonce |-> NextNonce(a)] \notin pool
    <3>1. \A n \in Nat : [by |-> a, nonce |-> n] \in pool <=> n >= mined[a] /\ n < NextNonce(a)
      BY <2>1, NextIsFree DEF ProviderInv
    <3>2. ~(NextNonce(a) < NextNonce(a)) BY <2>2
    <3>3. QED BY <2>2, <3>1, <3>2
  <2>4. QED BY <2>1, <2>2, <2>3 DEF Taken
<1> HIDE DEF v
<1>5. AskFine(v) BY <1>2, <1>3 DEF AskFine, Going
<1>6. NonceFine(v) BY <1>2, <1>3 DEF NonceFine, Nonced
<1>7. v.by = a /\ (~v.alone \/ v.behind \/ Strayed(v.by)) BY <1>3, <1>4
<1> HIDE DEF a
<1>8. QED BY <1>1, <1>3, <1>5, <1>6, <1>7, OneAskMoves DEF Going

\* One more transaction of an account.
LEMMA OneMore ==
    ASSUME ChainInv, NEW t \in Transaction, t \notin pool, pool' = pool \cup {t}, mined' = mined
    PROVE  /\ IsFiniteSet(pool') /\ NextNonce(t.by)' = NextNonce(t.by) + 1
           /\ \A a \in Accounts \ {t.by} : NextNonce(a)' = NextNonce(a)
<1>1. IsFiniteSet(pool) /\ pool \subseteq Transaction BY DEF ChainInv
<1>2. IsFiniteSet(pool') BY <1>1, FS_AddElement
<1>3. NextNonce(t.by)' = NextNonce(t.by) + 1
  <2> DEFINE P == {s \in pool : s.by = t.by}
  <2>1. {s \in pool' : s.by = t.by} = P \cup {t} OBVIOUS
  <2>2. IsFiniteSet(P) /\ Cardinality(P) \in Nat BY <1>1, CountsAreNumbers
  <2>3. t \notin P OBVIOUS
  <2>4. Cardinality(P \cup {t}) = Cardinality(P) + 1 BY <2>2, <2>3, FS_AddElement
  <2>5. t.by \in Accounts BY DEF Transaction
  <2>6. mined[t.by] \in Nat BY <2>5 DEF ChainInv
  <2>7. NextNonce(t.by) = mined[t.by] + Cardinality(P) BY DEF NextNonce
  <2>8. NextNonce(t.by)' = mined[t.by] + Cardinality(P \cup {t}) BY <2>1 DEF NextNonce
  <2> HIDE DEF P
  <2>9. QED BY <2>2, <2>4, <2>6, <2>7, <2>8
<1>4. ASSUME NEW a \in Accounts \ {t.by} PROVE NextNonce(a)' = NextNonce(a)
  <2>1. {s \in pool' : s.by = a} = {s \in pool : s.by = a} OBVIOUS
  <2>2. QED BY <2>1 DEF NextNonce
<1>5. QED BY <1>2, <1>3, <1>4

LEMMA AcceptInv ==
    ASSUME ProviderInv, NEW r \in Asks, NEW b, NEW m, asks[r].by = b, asks[r].nonce = m,
           NEW told \in {"answered", "lost"},
           asks[r].phase = "signed", ~Taken(r), asks' = [asks EXCEPT ![r].phase = told],
           pool' = pool \cup {[by |-> b, nonce |-> m]},
           UNCHANGED <<current, cached, mined>>
    PROVE  ProviderInv'
<1> DEFINE v == [asks[r] EXCEPT !.phase = told]
           t == [by |-> b, nonce |-> m]
<1>0. asks \in [Asks -> AskRecord] BY DEF ProviderInv, AsksInv
<1>1. asks[r] \in AskRecord /\ AskFine(asks[r]) /\ NonceFine(asks[r]) BY AskFacts
<1>2. /\ v \in AskRecord /\ v.phase = told /\ v.wants = asks[r].wants /\ v.of = asks[r].of
      /\ v.asked = asks[r].asked /\ v.from = asks[r].from /\ v.nonce = m /\ v.by = b
      /\ v.left = asks[r].left /\ v.alone = asks[r].alone /\ v.behind = asks[r].behind
  <2>1. told \in Going \cup {"failed", "answered", "lost", "clashed"} OBVIOUS
  <2>2. QED BY <1>1, <2>1, PhaseMoves
<1>3. \A s \in Asks : asks'[s] = IF s = r THEN v ELSE asks[s] BY <1>0
<1>4. asks' \in [Asks -> AskRecord] BY <1>0, <1>2
<1>5. b \in Accounts /\ m \in Nat /\ asks[r].wants = "send" BY SignedFacts
<1>6. mined[b] \in Nat /\ NextNonce(b) \in Nat /\ mined[b] <= NextNonce(b) BY SignedFacts
<1>7. t \in Transaction /\ t.by = b /\ t.nonce = m /\ t \notin pool /\ m >= mined[b]
  BY <1>5, <1>6 DEF Transaction, Taken
<1>8. pool' = pool \cup {t} OBVIOUS
<1>9. IsFiniteSet(pool') /\ NextNonce(b)' = NextNonce(b) + 1 /\ \A a \in Accounts \ {b} : NextNonce(a)' = NextNonce(a)
  BY <1>7, <1>8, OneMore DEF ProviderInv
<1> HIDE DEF v, t
<1>10. \A s \in Asks : asks[s].left /\ asks[s].by \in Accounts => asks'[s].left /\ asks'[s].by = asks[s].by
  BY <1>2, <1>3
<1>11. \A a \in Accounts : Strayed(a) => Strayed(a)' BY <1>10, StrayedStays
<1>12. CacheInv' BY DEF ProviderInv, CacheInv
<1>13. AsksInv'
  <2>1. ASSUME NEW s \in Asks PROVE AskFine(asks[s])'
    <3>1. AskFine(asks'[s])
      <4>1. AskFine(v) BY <1>1, <1>2 DEF AskFine, Going
      <4>2. AskFine(asks[s]) BY AskFacts
      <4>3. QED BY <1>3, <4>1, <4>2
    <3>2. QED BY <3>1 DEF AskFine
  <2>2. ASSUME NEW s \in Asks PROVE NonceFine(asks[s])'
    <3>1. CASE s = r
      <4>1. v.nonce <= Cardinality(Asks) BY <1>1, <1>2 DEF NonceFine
      <4>2. asks'[s].phase = told /\ asks'[s].nonce = v.nonce BY <1>2, <1>3, <3>1
      <4>3. QED BY <4>1, <4>2 DEF NonceFine, Nonced
    <3>2. CASE s # r
      <4>1. asks'[s] = asks[s] /\ asks[s] \in AskRecord /\ AskFine(asks[s]) /\ NonceFine(asks[s])
        BY <1>3, <3>2, AskFacts
      <4> SUFFICES ASSUME asks[s].wants = "send", asks[s].phase \in Nonced
                   PROVE  /\ asks[s].nonce <= NextNonce(asks[s].from)'
                          /\ asks[s].alone /\ ~asks[s].behind => asks[s].nonce = NextNonce(asks[s].from)'
        BY <4>1 DEF NonceFine
      <4>2. UnderWay(s) /\ UnderWay(r) BY DEF UnderWay, Nonced
      <4>3. ~asks[s].alone BY <1>5, <3>2, <4>2 DEF ProviderInv, AsksInv
      <4>4. asks[s].from \in Accounts BY <4>1 DEF AskFine, Nonced, Going
      <4>5. asks[s].nonce <= NextNonce(asks[s].from) BY <4>1 DEF NonceFine
      <4>6. asks[s].nonce \in Nat BY <4>1 DEF AskRecord
      <4>7. NextNonce(asks[s].from) \in Nat BY <4>4, NextIsANumber DEF ProviderInv
      <4>8. \/ NextNonce(asks[s].from)' = NextNonce(asks[s].from)
            \/ NextNonce(asks[s].from)' = NextNonce(asks[s].from) + 1
        BY <1>9, <4>4
      <4>9. QED BY <4>3, <4>5, <4>6, <4>7, <4>8
    <3>3. QED BY <3>1, <3>2
  <2>3. \A q, s \in Asks : q # s /\ asks'[q].alone /\ asks'[q].wants = "send" /\ UnderWay(q)'
                              /\ asks'[s].wants = "send" => ~UnderWay(s)'
    <3>1. \A s \in Asks : /\ asks'[s].alone = asks[s].alone /\ asks'[s].wants = asks[s].wants
                          /\ UnderWay(s)' => UnderWay(s)
      BY <1>2, <1>3 DEF UnderWay
    <3>2. QED BY <3>1 DEF ProviderInv, AsksInv
  <2>4. ClashNeedsCompany'
    <3>1. ASSUME NEW s \in Asks, asks'[s].phase = "clashed"
          PROVE  ~asks'[s].alone \/ asks'[s].behind \/ \E q \in Asks : asks'[q].left /\ asks'[q].by = asks'[s].by
      <4>1. asks'[s] = asks[s] BY <1>2, <1>3, <3>1
      <4>2. asks[s].by \in Accounts BY <3>1, <4>1, AskFacts DEF AskFine
      <4>3. ~asks[s].alone \/ asks[s].behind \/ Strayed(asks[s].by)
        BY <3>1, <4>1 DEF ProviderInv, AsksInv, ClashNeedsCompany
      <4>4. QED BY <1>10, <4>1, <4>2, <4>3 DEF Strayed
    <3>2. QED BY <3>1 DEF ClashNeedsCompany, Strayed
  <2>5. QED BY <1>4, <2>1, <2>2, <2>3, <2>4 DEF AsksInv
<1>14. ChainInv'
  <2>1. pool' \subseteq Transaction /\ mined' \in [Accounts -> Nat] /\ \A u \in pool' : u.nonce >= mined'[u.by]
    BY <1>7, <1>8 DEF ProviderInv, ChainInv
  <2>2. ASSUME NEW a \in Accounts PROVE NextNonce(a)' <= Cardinality(SentBy(a)')
    <3>1. NextNonce(a) \in Nat /\ NextNonce(a) <= Cardinality(SentBy(a))
      BY NextIsANumber DEF ProviderInv, ChainInv
    <3>2. CASE a = b
      <4>1. SentBy(a)' = SentBy(a) \cup {r} /\ r \notin SentBy(a)
        BY <1>2, <1>3, <1>5, <3>2 DEF SentBy
      <4>2. SentBy(a) \in SUBSET Asks BY DEF SentBy
      <4>3. IsFiniteSet(SentBy(a)) /\ Cardinality(SentBy(a)) \in Nat
        BY <4>2, FS_Subset, FS_CardinalityType, AccountFacts
      <4>4. Cardinality(SentBy(a) \cup {r}) = Cardinality(SentBy(a)) + 1 BY <4>1, <4>3, FS_AddElement
      <4>5. NextNonce(a)' = NextNonce(a) + 1 BY <1>9, <3>2
      <4>6. QED BY <3>1, <4>1, <4>3, <4>4, <4>5
    <3>3. CASE a # b
      <4>1. SentBy(a)' = SentBy(a) BY <1>2, <1>3, <3>3 DEF SentBy
      <4>2. NextNonce(a)' = NextNonce(a) BY <1>9, <3>3
      <4>3. QED BY <3>1, <4>1, <4>2
    <3>4. QED BY <3>2, <3>3
  <2>3. ASSUME NEW a \in Accounts PROVE Strayed(a)' \/ Unbroken(a)'
    <3>1. CASE Strayed(a) BY <1>11, <3>1
    <3>2. CASE ~Strayed(a) /\ a # b
      <4>1. Unbroken(a) BY <3>2 DEF ProviderInv, ChainInv
      <4>2. Unbroken(a)' BY <1>7, <1>8, <3>2, <4>1 DEF Unbroken
      <4>3. QED BY <4>2
    <3>3. CASE ~Strayed(a) /\ a = b
      <4>1. Unbroken(b) /\ m <= NextNonce(b) BY <3>3, SignedFacts
      <4>2. \A n \in Nat : [by |-> b, nonce |-> n] \in pool <=> n >= mined[b] /\ n < NextNonce(b)
        BY <1>5, <4>1, NextIsFree DEF ProviderInv
      <4>3. [by |-> b, nonce |-> m] \notin pool BY <1>7 DEF t
      <4>4. m = NextNonce(b) BY <1>5, <1>6, <1>7, <4>1, <4>2, <4>3
      <4>5. ASSUME NEW n \in mined[b]..m PROVE [by |-> b, nonce |-> n] \in pool'
        <5>1. n \in Nat /\ n >= mined[b] /\ n <= m BY <1>5, <1>6
        <5>2. CASE n = m BY <1>8, <5>2 DEF t
        <5>3. CASE n # m
          <6>1. n < NextNonce(b) BY <1>5, <4>4, <5>1, <5>3
          <6>2. QED BY <1>8, <4>2, <5>1, <6>1
        <5>4. QED BY <5>2, <5>3
      <4>6. ASSUME NEW u \in pool', u.by = b, NEW n \in mined[b]..u.nonce
            PROVE  [by |-> b, nonce |-> n] \in pool'
        <5>1. CASE u = t BY <1>7, <4>5, <5>1
        <5>2. CASE u \in pool BY <1>8, <4>1, <4>6, <5>2 DEF Unbroken
        <5>3. QED BY <1>8, <5>1, <5>2
      <4>7. Unbroken(b)' BY <4>6 DEF Unbroken
      <4>8. QED BY <3>3, <4>7
    <3>4. QED BY <3>1, <3>2, <3>3
  <2>4. QED BY <1>9, <2>1, <2>2, <2>3 DEF ChainInv
<1>15. QED BY <1>12, <1>13, <1>14 DEF ProviderInv

LEMMA BroadcastInv == ASSUME ProviderInv, NEW r \in Asks, Broadcast(r) PROVE ProviderInv'
<1>1. asks[r].phase = "signed" /\ UNCHANGED <<current, cached, mined>> BY DEF Broadcast
<1>2. CASE /\ ~Taken(r) /\ \E told \in {"answered", "lost"} : asks' = [asks EXCEPT ![r].phase = told]
           /\ pool' = pool \cup {[by |-> asks[r].by, nonce |-> asks[r].nonce]}
  <2>1. PICK b, m : b = asks[r].by /\ m = asks[r].nonce OBVIOUS
  <2>2. PICK told \in {"answered", "lost"} : asks' = [asks EXCEPT ![r].phase = told] BY <1>2
  <2>3. QED BY <1>1, <1>2, <2>1, <2>2, AcceptInv
<1>3. CASE Taken(r) /\ asks' = [asks EXCEPT ![r].phase = "clashed"] /\ UNCHANGED pool
  BY <1>1, <1>3, ClashInv
<1>4. CASE asks' = [asks EXCEPT ![r].phase = "failed"] /\ UNCHANGED pool
  BY <1>1, <1>4, EndsInv DEF Going
<1>5. QED BY <1>2, <1>3, <1>4 DEF Broadcast

LEMMA MineInv == ASSUME ProviderInv, NEW a \in Accounts, Mine(a) PROVE ProviderInv'
<1> DEFINE t == [by |-> a, nonce |-> mined[a]]
<1>1. /\ t \in pool /\ pool' = pool \ {t} /\ mined' = [mined EXCEPT ![a] = mined[a] + 1]
      /\ UNCHANGED <<current, cached, asks>>
  BY DEF Mine
<1>2. pool \subseteq Transaction /\ IsFiniteSet(pool) /\ mined \in [Accounts -> Nat] BY DEF ProviderInv, ChainInv
<1>3. mined[a] \in Nat /\ mined' \in [Accounts -> Nat] /\ mined'[a] = mined[a] + 1
      /\ \A c \in Accounts \ {a} : mined'[c] = mined[c]
  BY <1>1, <1>2
<1>4. IsFiniteSet(pool') /\ pool' \subseteq Transaction BY <1>1, <1>2, FS_RemoveElement
<1>5. ASSUME NEW c \in Accounts PROVE NextNonce(c)' = NextNonce(c)
  <2>1. CASE c = a
    <3> DEFINE P == {s \in pool : s.by = a}
    <3>1. {s \in pool' : s.by = a} = P \ {t} BY <1>1
    <3>2. t \in P /\ IsFiniteSet(P) /\ Cardinality(P) \in Nat BY <1>1, <1>2, CountsAreNumbers
    <3>4. NextNonce(a)' = mined'[a] + Cardinality(P \ {t}) BY <3>1 DEF NextNonce
    <3>5. NextNonce(a) = mined[a] + Cardinality(P) BY DEF NextNonce
    <3> HIDE DEF P, t
    <3>3. Cardinality(P \ {t}) = Cardinality(P) - 1 BY <3>2, FS_RemoveElement
    <3>6. QED BY <1>3, <2>1, <3>2, <3>3, <3>4, <3>5
  <2>2. CASE c # a
    <3>1. {s \in pool' : s.by = c} = {s \in pool : s.by = c} BY <1>1, <2>2
    <3>2. QED BY <1>3, <2>2, <3>1 DEF NextNonce
  <2>3. QED BY <2>1, <2>2
<1>6. CacheInv' BY <1>1 DEF ProviderInv, CacheInv
<1>7. AsksInv'
  <2>1. ASSUME NEW s \in Asks PROVE AskFine(asks[s])' /\ NonceFine(asks[s])'
    <3>1. AskFine(asks[s]) /\ NonceFine(asks[s]) BY AskFacts
    <3>2. AskFine(asks[s])' BY <1>1, <3>1 DEF AskFine
    <3>3. asks[s].wants = "send" /\ asks[s].phase \in Nonced => asks[s].from \in Accounts
      BY <3>1 DEF AskFine, Nonced, Going
    <3>4. NonceFine(asks[s])' BY <1>1, <1>5, <3>1, <3>3 DEF NonceFine
    <3>5. QED BY <3>2, <3>4
  <2>2. ClashNeedsCompany' BY <1>1 DEF ProviderInv, AsksInv, ClashNeedsCompany, Strayed
  <2>3. QED BY <1>1, <2>1, <2>2 DEF ProviderInv, AsksInv, UnderWay
<1>8. ChainInv'
  <2>1. ASSUME NEW u \in pool' PROVE u.nonce >= mined'[u.by]
    <3>1. u \in Transaction /\ u \in pool /\ u # t BY <1>1, <1>2
    <3>2. u.by \in Accounts /\ u.nonce \in Nat /\ u = [by |-> u.by, nonce |-> u.nonce] BY <3>1 DEF Transaction
    <3>3. u.nonce >= mined[u.by] BY <3>1 DEF ProviderInv, ChainInv
    <3>4. CASE u.by = a
      <4>1. u.nonce # mined[a] BY <3>1, <3>2, <3>4
      <4>2. QED BY <1>3, <3>2, <3>3, <3>4, <4>1
    <3>5. CASE u.by # a BY <1>3, <3>2, <3>3, <3>5
    <3>6. QED BY <3>4, <3>5
  <2>2. \A c \in Accounts : SentBy(c)' = SentBy(c) BY <1>1 DEF SentBy
  <2>3. \A c \in Accounts : NextNonce(c)' <= Cardinality(SentBy(c))' BY <1>5, <2>2 DEF ProviderInv, ChainInv
  <2>4. ASSUME NEW c \in Accounts PROVE Strayed(c)' \/ Unbroken(c)'
    <3>1. CASE Strayed(c) BY <1>1, <3>1 DEF Strayed
    <3>2. CASE Unbroken(c)
      <4>1. ASSUME NEW u \in pool', u.by = c, NEW n \in mined'[c]..u.nonce
            PROVE  [by |-> c, nonce |-> n] \in pool'
        <5>1. u \in pool /\ u.nonce \in Nat /\ mined[c] \in Nat /\ mined'[c] \in Nat
          BY <1>1, <1>2, <1>3 DEF Transaction
        <5>2. mined'[c] >= mined[c] /\ (c = a => n # mined[a])
          BY <1>3, <5>1
        <5>3. n \in mined[c]..u.nonce BY <5>1, <5>2
        <5>4. [by |-> c, nonce |-> n] \in pool BY <3>2, <4>1, <5>1, <5>3 DEF Unbroken
        <5>5. [by |-> c, nonce |-> n] # t BY <5>2
        <5>6. QED BY <1>1, <5>4, <5>5
      <4>2. Unbroken(c)' BY <4>1 DEF Unbroken
      <4>3. QED BY <4>2
    <3>3. QED BY <3>1, <3>2 DEF ProviderInv, ChainInv
  <2>5. QED BY <1>3, <1>4, <2>1, <2>3, <2>4 DEF ChainInv
<1>9. QED BY <1>6, <1>7, <1>8 DEF ProviderInv

-----------------------------------------------------------------------------
\* Connecting, logging out and pressing a button.
LEMMA ChainStays ==
    ASSUME ChainInv, UNCHANGED <<pool, mined>>,
           \A s \in Asks : asks[s].left /\ asks[s].by \in Accounts => asks'[s].left /\ asks'[s].by = asks[s].by,
           \A a \in Accounts : SentBy(a)' = SentBy(a)
    PROVE  ChainInv' /\ \A a : NextNonce(a)' = NextNonce(a)
<1>1. \A a : NextNonce(a)' = NextNonce(a) BY DEF NextNonce
<1>2. \A a \in Accounts : Strayed(a) => Strayed(a)' BY StrayedStays
<1>3. \A a \in Accounts : Unbroken(a) => Unbroken(a)' BY DEF Unbroken
<1>4. QED BY <1>1, <1>2, <1>3 DEF ChainInv

LEMMA ConnectInv ==
    ASSUME ProviderInv, current = "none", NEW w \in Connector, current' = w,
           NEW c \in CacheRecord, c.address # Unset, w = "hardware" => c.address = c.index,
           w = "local" => c.address = LocalAccount,
           cached' = [cached EXCEPT ![w] = c], UNCHANGED <<asks, pool, mined>>
    PROVE  ProviderInv'
<1>1. cached \in [Connector -> CacheRecord] /\ "none" \notin Connector /\ Connector = {"hardware", "local"}
  BY DEF ProviderInv, CacheInv, Connector
<1>2. CacheInv'
  <2>1. cached' \in [Connector -> CacheRecord] /\ cached'[w] = c /\ \A u \in Connector \ {w} : cached'[u] = cached[u]
    BY <1>1
  <2>2. \A u \in Connector : cached[u].address = Unset BY <1>1 DEF ProviderInv, CacheInv
  <2>3. cached'["hardware"].address \in {Unset, cached'["hardware"].index}
    BY <1>1, <2>1, <2>2
  <2>4. cached'["local"].address \in {Unset, LocalAccount}
    BY <1>1, <2>1, <2>2
  <2>5. QED BY <2>1, <2>2, <2>3, <2>4 DEF CacheInv
<1>3. ChainInv' /\ \A a : NextNonce(a)' = NextNonce(a) BY ChainStays DEF ProviderInv, SentBy
<1>4. AsksInv'
  <2>1. ASSUME NEW s \in Asks PROVE AskFine(asks[s])' /\ NonceFine(asks[s])'
    <3>1. asks[s] \in AskRecord /\ AskFine(asks[s]) /\ NonceFine(asks[s]) BY AskFacts
    <3>2. asks[s].of \in Connector BY <3>1 DEF AskRecord
    <3>3. ~(asks[s].phase \in Going /\ ~asks[s].left) BY <1>1, <3>1, <3>2 DEF AskFine
    <3>4. AskFine(asks[s])' BY <3>1, <3>3 DEF AskFine
    <3>5. NonceFine(asks[s])' BY <1>3, <3>1 DEF NonceFine
    <3>6. QED BY <3>4, <3>5
  <2>2. ClashNeedsCompany' BY DEF ProviderInv, AsksInv, ClashNeedsCompany, Strayed
  <2>3. QED BY <2>1, <2>2 DEF ProviderInv, AsksInv, UnderWay
<1>5. QED BY <1>2, <1>3, <1>4 DEF ProviderInv

LEMMA LogOutInv == ASSUME ProviderInv, LogOut PROVE ProviderInv'
<1>1. /\ current # "none" /\ current' = "none"
      /\ cached' = [cached EXCEPT ![current] = [address |-> Unset, index |-> 0]]
      /\ asks' = [s \in Asks |-> IF UnderWay(s) /\ asks[s].of = current
                                  THEN [asks[s] EXCEPT !.left = TRUE] ELSE asks[s]]
      /\ UNCHANGED <<pool, mined>>
  BY DEF LogOut
<1>2. cached \in [Connector -> CacheRecord] /\ current \in Connector /\ Connector = {"hardware", "local"}
  BY <1>1 DEF ProviderInv, CacheInv, Connector
<1>3. CacheInv'
  <2> DEFINE c == [address |-> Unset, index |-> 0]
  <2>1. c \in CacheRecord /\ c.address = Unset BY AccountFacts DEF CacheRecord, Somebody
  <2> HIDE DEF c
  <2>2. cached' = [cached EXCEPT ![current] = c] BY <1>1 DEF c
  <2>3. cached' \in [Connector -> CacheRecord] /\ cached'[current] = c
        /\ \A u \in Connector \ {current} : cached'[u] = cached[u]
    BY <1>2, <2>1, <2>2
  <2>4. \A u \in Connector : cached'[u].address = Unset BY <2>1, <2>3 DEF ProviderInv, CacheInv
  <2>5. \A u \in Connector : u # "none" BY <1>2
  <2>6. QED BY <1>1, <1>2, <2>3, <2>4, <2>5 DEF CacheInv
\* Every field but "left" stays, and what is under way has left.
<1>4. ASSUME NEW s \in Asks
      PROVE  /\ asks'[s] \in AskRecord /\ asks'[s].phase = asks[s].phase /\ asks'[s].wants = asks[s].wants
             /\ asks'[s].of = asks[s].of /\ asks'[s].asked = asks[s].asked /\ asks'[s].from = asks[s].from
             /\ asks'[s].nonce = asks[s].nonce /\ asks'[s].by = asks[s].by /\ asks'[s].alone = asks[s].alone
             /\ asks'[s].behind = asks[s].behind
             /\ asks[s].left => asks'[s].left
             /\ asks[s].phase \in Going => asks'[s].left
  <2>1. asks[s] \in AskRecord /\ AskFine(asks[s]) BY AskFacts
  <2>2. CASE UnderWay(s) /\ asks[s].of = current
    <3>1. asks'[s] = [asks[s] EXCEPT !.left = TRUE] BY <1>1, <2>2
    <3>2. QED BY <2>1, <3>1 DEF AskRecord
  <2>3. CASE ~(UnderWay(s) /\ asks[s].of = current)
    <3>1. asks'[s] = asks[s] BY <1>1, <2>3
    <3>2. asks[s].phase \in Going => asks[s].left BY <2>1, <2>3 DEF AskFine, UnderWay, Going
    <3>3. QED BY <2>1, <3>1, <3>2
  <2>4. QED BY <2>2, <2>3
<1>5. asks' \in [Asks -> AskRecord]
  <2>1. DOMAIN asks' = Asks /\ asks' = [s \in Asks |-> asks'[s]] BY <1>1
  <2>2. QED BY <1>4, <2>1
<1>6. \A a \in Accounts : SentBy(a)' = SentBy(a) BY <1>4 DEF SentBy
<1>7. ChainInv' /\ \A a : NextNonce(a)' = NextNonce(a)
  BY <1>1, <1>4, <1>6, ChainStays DEF ProviderInv
<1>8. AsksInv'
  <2>1. ASSUME NEW s \in Asks PROVE AskFine(asks[s])' /\ NonceFine(asks[s])'
    <3>1. AskFine(asks[s]) /\ NonceFine(asks[s]) BY AskFacts
    <3>2. AskFine(asks[s])' BY <1>4, <3>1 DEF AskFine
    <3>3. NonceFine(asks[s])' BY <1>4, <1>7, <3>1 DEF NonceFine
    <3>4. QED BY <3>2, <3>3
  <2>2. ClashNeedsCompany' BY <1>4 DEF ProviderInv, AsksInv, ClashNeedsCompany, Strayed
  <2>3. \A s \in Asks : UnderWay(s)' <=> UnderWay(s) BY <1>4 DEF UnderWay
  <2>4. QED BY <1>4, <1>5, <2>1, <2>2, <2>3 DEF ProviderInv, AsksInv
<1>9. QED BY <1>3, <1>7, <1>8 DEF ProviderInv

\* A request that meets another is not alone any more.
LEMMA NoLongerAlone ==
    ASSUME NEW q \in AskRecord
    PROVE  LET v == [q EXCEPT !.alone = FALSE]
           IN  /\ v \in AskRecord /\ v.phase = q.phase /\ v.wants = q.wants /\ v.of = q.of /\ v.asked = q.asked
               /\ v.from = q.from /\ v.nonce = q.nonce /\ v.by = q.by /\ v.left = q.left /\ v.alone = FALSE
               /\ v.behind = q.behind
BY DEF AskRecord

LEMMA PressInv ==
    ASSUME ProviderInv, NEW r \in Asks, NEW wants \in {"send", "sign"}, PressButton(r, wants)
    PROVE  ProviderInv'
<1> DEFINE others == {s \in Asks : wants = "send" /\ UnderWay(s) /\ asks[s].wants = "send"}
           lone == others = {}
           v == [NotAsked EXCEPT !.phase = "pressed", !.wants = wants, !.of = current,
                                 !.asked = cached[current].address, !.alone = lone]
<1>1. /\ asks[r].phase = "none" /\ current # "none" /\ UNCHANGED <<current, cached, pool, mined>>
      /\ asks' = [s \in Asks |-> IF s = r THEN v ELSE IF s \in others THEN [asks[s] EXCEPT !.alone = FALSE]
                                  ELSE asks[s]]
  BY DEF PressButton
<1>2. current \in Connector /\ cached[current] \in CacheRecord BY <1>1 DEF ProviderInv, CacheInv
<1>3. cached[current].address \in Somebody BY <1>2 DEF CacheRecord
<1>4. lone \in BOOLEAN OBVIOUS
<1> HIDE DEF lone
<1>5. /\ v \in AskRecord /\ v.phase = "pressed" /\ v.wants = wants /\ v.of = current
      /\ v.asked = cached[current].address /\ v.by = Unset /\ v.left = FALSE /\ v.alone = lone /\ v.nonce = 0
  <2> DEFINE a == cached[current].address
             k == current
             b == lone
  <2>1. wants \in {"send", "sign"} /\ k \in Connector /\ a \in Somebody /\ b \in BOOLEAN BY <1>2, <1>3, <1>4
  <2>2. v = [NotAsked EXCEPT !.phase = "pressed", !.wants = wants, !.of = k, !.asked = a, !.alone = b]
    OBVIOUS
  <2> HIDE DEF a, k, b, v
  <2>3. /\ v \in AskRecord /\ v.phase = "pressed" /\ v.wants = wants /\ v.of = k
        /\ v.asked = a /\ v.by = Unset /\ v.left = FALSE /\ v.alone = b /\ v.nonce = 0
    BY <2>1, <2>2 DEF NotAsked, AskRecord, Going, Somebody, Connector
  <2>4. QED BY <2>3 DEF a, k, b
<1> HIDE DEF v
<1>6. asks'[r] = v BY <1>1
<1>7. ASSUME NEW s \in Asks \ {r}
      PROVE  /\ asks'[s] \in AskRecord /\ asks'[s].phase = asks[s].phase /\ asks'[s].wants = asks[s].wants
             /\ asks'[s].of = asks[s].of /\ asks'[s].asked = asks[s].asked /\ asks'[s].from = asks[s].from
             /\ asks'[s].nonce = asks[s].nonce /\ asks'[s].by = asks[s].by /\ asks'[s].left = asks[s].left
             /\ asks'[s].behind = asks[s].behind
             /\ asks'[s].alone => asks[s].alone /\ s \notin others
             /\ ~asks[s].alone => ~asks'[s].alone
  <2>1. asks[s] \in AskRecord BY AskFacts
  <2>2. CASE s \in others
    <3>1. asks'[s] = [asks[s] EXCEPT !.alone = FALSE] BY <1>1, <2>2
    <3>2. QED BY <2>1, <3>1, NoLongerAlone
  <2>3. CASE s \notin others
    <3>1. asks'[s] = asks[s] BY <1>1, <2>3
    <3>2. QED BY <2>1, <2>3, <3>1
  <2>4. QED BY <2>2, <2>3
<1>8. asks' \in [Asks -> AskRecord]
  <2>1. DOMAIN asks' = Asks /\ asks' = [s \in Asks |-> asks'[s]] BY <1>1
  <2>2. QED BY <1>5, <1>6, <1>7, <2>1
<1>9. asks[r].by = Unset /\ asks[r].phase \notin Going
  BY <1>1, AskFacts DEF AskFine, Going
<1>10. \A s \in Asks : asks[s].left /\ asks[s].by \in Accounts => asks'[s].left /\ asks'[s].by = asks[s].by
  BY <1>7, <1>9, AccountFacts
<1>11. \A a \in Accounts : SentBy(a)' = SentBy(a) BY <1>1, <1>5, <1>6, <1>7 DEF SentBy
<1>12. ChainInv' /\ \A a : NextNonce(a)' = NextNonce(a)
  BY <1>1, <1>10, <1>11, ChainStays DEF ProviderInv
<1>13. CacheInv' BY <1>1 DEF ProviderInv, CacheInv
<1>14. AsksInv'
  <2>1. ASSUME NEW s \in Asks PROVE AskFine(asks[s])' /\ NonceFine(asks[s])'
    <3>1. CASE s = r
      <4>1. AskFine(asks[s])' BY <1>1, <1>5, <1>6, <3>1 DEF AskFine, Going
      <4>2. 0 <= Cardinality(Asks) BY AccountFacts
      <4>3. NonceFine(asks[s])' BY <1>5, <1>6, <3>1, <4>2 DEF NonceFine, Nonced
      <4>4. QED BY <4>1, <4>3
    <3>2. CASE s # r
      <4>1. AskFine(asks[s]) /\ NonceFine(asks[s]) BY AskFacts
      <4>2. AskFine(asks[s])' BY <1>1, <1>7, <3>2, <4>1 DEF AskFine
      <4>3. NonceFine(asks[s])' BY <1>7, <1>12, <3>2, <4>1 DEF NonceFine
      <4>4. QED BY <4>2, <4>3
    <3>3. QED BY <3>1, <3>2
  <2>2. ClashNeedsCompany'
    <3>1. ASSUME NEW s \in Asks, asks'[s].phase = "clashed"
          PROVE  ~asks'[s].alone \/ asks'[s].behind \/ \E q \in Asks : asks'[q].left /\ asks'[q].by = asks'[s].by
      <4>1. s # r BY <1>5, <1>6, <3>1
      <4>2. asks[s].phase = "clashed" /\ asks[s].by \in Accounts BY <1>7, <3>1, <4>1, AskFacts DEF AskFine
      <4>3. ~asks[s].alone \/ asks[s].behind \/ Strayed(asks[s].by)
        BY <4>2 DEF ProviderInv, AsksInv, ClashNeedsCompany
      <4>4. QED BY <1>7, <1>10, <4>1, <4>2, <4>3 DEF Strayed
    <3>2. QED BY <3>1 DEF ClashNeedsCompany, Strayed
  <2>3. ASSUME NEW q \in Asks, NEW s \in Asks, q # s, asks'[q].alone, asks'[q].wants = "send", UnderWay(q)',
               asks'[s].wants = "send", UnderWay(s)'
        PROVE  FALSE
    <3>1. CASE q = r
      <4>1. lone /\ wants = "send" BY <1>5, <1>6, <2>3, <3>1
      <4>2. UnderWay(s) /\ asks[s].wants = "send" BY <1>7, <2>3, <3>1 DEF UnderWay
      <4>3. QED BY <4>1, <4>2 DEF lone
    <3>2. CASE s = r
      <4>1. wants = "send" BY <1>5, <1>6, <2>3, <3>2
      <4>2. UnderWay(q) /\ asks[q].wants = "send" /\ q \notin others BY <1>7, <2>3, <3>2 DEF UnderWay
      <4>3. QED BY <4>1, <4>2
    <3>3. CASE q # r /\ s # r BY <1>7, <2>3, <3>3 DEF ProviderInv, AsksInv, UnderWay
    <3>4. QED BY <3>1, <3>2, <3>3
  <2>4. QED BY <1>8, <2>1, <2>2, <2>3 DEF AsksInv
<1>15. QED BY <1>12, <1>13, <1>14 DEF ProviderInv

-----------------------------------------------------------------------------
\* Every step moves one request, the wallet or the chain.
LEMMA ProviderStep == ProviderInv /\ [ProviderNext]_providerVars => ProviderInv'
<1> SUFFICES ASSUME ProviderInv, [ProviderNext]_providerVars PROVE ProviderInv'
  OBVIOUS
<1>0. "hardware" \in Connector /\ "local" \in Connector /\ cached \in [Connector -> CacheRecord]
  BY DEF ProviderInv, CacheInv, Connector
<1>1. ASSUME NEW i \in HardwareAccounts, ConnectHardware(i) PROVE ProviderInv'
  <2> DEFINE c == [address |-> i, index |-> i]
  <2>1. c \in CacheRecord /\ c.address = i /\ c.index = i BY AccountFacts DEF CacheRecord, Somebody
  <2>2. i # Unset BY AccountFacts
  <2>3. cached' = [cached EXCEPT !["hardware"] = c] BY <1>1 DEF ConnectHardware, HardwareConnected
  <2> HIDE DEF c
  <2>4. QED BY <1>0, <1>1, <2>1, <2>2, <2>3, ConnectInv DEF ConnectHardware
<1>2. CASE ConnectLocal
  <2> DEFINE c == [cached["local"] EXCEPT !.address = LocalAccount]
  <2>1. cached["local"] \in CacheRecord BY <1>0
  <2>2. c \in CacheRecord /\ c.address = LocalAccount BY <2>1, AccountFacts DEF CacheRecord, Somebody
  <2>3. cached' = [cached EXCEPT !["local"] = c] BY <1>2 DEF ConnectLocal
  <2> HIDE DEF c
  <2>4. LocalAccount # Unset BY AccountFacts
  <2>5. QED BY <1>0, <1>2, <2>2, <2>3, <2>4, ConnectInv DEF ConnectLocal
<1>3. CASE LogOut BY <1>3, LogOutInv
<1>4. ASSUME NEW r \in Asks, NEW wants \in {"send", "sign"}, PressButton(r, wants) PROVE ProviderInv'
  BY <1>4, PressInv
<1>5. ASSUME NEW r \in Asks, NotConnected(r) PROVE ProviderInv'
  BY <1>5, EndsInv DEF NotConnected, Going
<1>6. ASSUME NEW r \in Asks, Receive(r) PROVE ProviderInv' BY <1>6, ReceiveInv
<1>7. ASSUME NEW r \in Asks, PrepareTransaction(r) PROVE ProviderInv' BY <1>7, PrepareInv
<1>8. ASSUME NEW r \in Asks, CallSigner(r) PROVE ProviderInv' BY <1>8, CallInv
<1>9. ASSUME NEW r \in Asks, SignerRefuses(r) PROVE ProviderInv'
  BY <1>9, EndsInv DEF SignerRefuses, Going
<1>10. ASSUME NEW r \in Asks, SignerSigns(r) PROVE ProviderInv' BY <1>10, SignsInv
<1>11. ASSUME NEW r \in Asks, Broadcast(r) PROVE ProviderInv' BY <1>11, BroadcastInv
<1>12. ASSUME NEW a \in Accounts, Mine(a) PROVE ProviderInv' BY <1>12, MineInv
<1>13. CASE UNCHANGED providerVars
  BY <1>13 DEF providerVars, ProviderInv, CacheInv, AsksInv, ChainInv, AskFine, NonceFine, UnderWay,
     ClashNeedsCompany, Strayed, SentBy, NextNonce, Unbroken
<1>14. QED
  BY <1>1, <1>2, <1>3, <1>4, <1>5, <1>6, <1>7, <1>8, <1>9, <1>10, <1>11, <1>12, <1>13 DEF ProviderNext

\* The invariant gives what the run checks.
LEMMA ProviderImplies == ProviderInv => ProviderCorrect
<1> SUFFICES ASSUME ProviderInv PROVE ProviderCorrect
  OBVIOUS
<1>1. ProviderTypeOK
  <2>1. current \in Connector \cup {"none"} /\ \A w \in Connector : current = w <=> cached[w].address # Unset
    BY DEF ProviderInv, CacheInv
  <2>2. ASSUME NEW r \in Asks PROVE asks[r].by \in Accounts \cup {Unset} /\ asks[r].nonce \in 0..Cardinality(Asks)
    <3>1. asks[r] \in AskRecord /\ NonceFine(asks[r]) BY AskFacts
    <3>2. asks[r].by \in Somebody /\ asks[r].nonce \in Nat /\ asks[r].nonce <= Cardinality(Asks)
      BY <3>1 DEF AskRecord, NonceFine
    <3>3. QED BY <3>2, AccountFacts DEF Somebody
  <2>3. \A t \in pool : t.by \in Accounts /\ t.nonce >= mined[t.by]
    BY DEF ProviderInv, ChainInv, Transaction
  <2>4. QED BY <2>1, <2>2, <2>3 DEF ProviderTypeOK
<1>2. SignedByWhoAsked BY AskFacts DEF SignedByWhoAsked, AskFine
<1>3. ClashNeedsCompany BY DEF ProviderInv, AsksInv
<1>4. NothingWaitsForever
  BY DEF NothingWaitsForever, ProviderInv, ChainInv, Unbroken, Transaction
<1>5. QED BY <1>1, <1>2, <1>3, <1>4 DEF ProviderCorrect

\* For any accounts, requests and logouts, with nodes that are behind and replies
\* that are lost: the account that was asked signs, transactions clash only when they
\* are sent together, numbered by a node that is behind or one strayed, and none
\* waits behind a nonce nobody uses (evmProviderShared.ts and its connectors).
THEOREM ProviderCorrectHolds == ProviderSpec => []ProviderCorrect
<1>1. ProviderInit => ProviderInv BY ProviderInitInv
<1>2. ProviderInv /\ [ProviderNext]_providerVars => ProviderInv' BY ProviderStep
<1>3. ProviderInv => ProviderCorrect BY ProviderImplies
<1>4. QED BY <1>1, <1>2, <1>3, PTL DEF ProviderSpec

-----------------------------------------------------------------------------
(*****************************************************************************)
(* PasswordGenerator.  A password fits its options because every selected    *)
(* category has a place of its own at the start, and what is drawn later and *)
(* the shuffle take nothing away.  No index is favoured because moving a     *)
(* byte from one index to another is an injection of the bytes taken.        *)
(*****************************************************************************)

\* Division with a remainder, for indices drawn from bytes.
LEMMA TimesGrows ==
    ASSUME NEW m \in Nat, NEW a \in Nat, NEW b \in Nat, a < b
    PROVE  m * a + m <= m * b
<1> DEFINE k == b - a - 1
<1>1. k \in Nat /\ b = a + 1 + k OBVIOUS
<1>2. m * k \in Nat BY <1>1
<1>3. m * b = m * a + m + m * k BY <1>1
<1>4. m * a \in Nat OBVIOUS
<1>5. QED BY <1>2, <1>3, <1>4

LEMMA Division ==
    ASSUME NEW m \in Nat \ {0}, NEW v \in Nat
    PROVE  /\ v % m \in 0 .. m - 1
           /\ v \div m \in Nat /\ v = m * (v \div m) + (v % m)
OBVIOUS

LEMMA Remainder ==
    ASSUME NEW m \in Nat \ {0}, NEW q \in Nat, NEW r \in 0 .. m - 1
    PROVE  (m * q + r) % m = r
<1> DEFINE v == m * q + r  p == v \div m
<1>0. m * q \in Nat OBVIOUS
<1>1. v \in Nat BY <1>0
<1>2. v % m \in 0 .. m - 1 /\ p \in Nat /\ v = m * p + (v % m) BY <1>1, Division
<1>4. m * p \in Nat BY <1>2
<1> HIDE DEF p
<1>5. CASE p < q
  <2>1. m * p + m <= m * q BY <1>2, <1>5, TimesGrows
  <2>2. QED BY <2>1, <1>0, <1>2, <1>4
<1>6. CASE q < p
  <2>1. m * q + m <= m * p BY <1>2, <1>6, TimesGrows
  <2>2. QED BY <2>1, <1>0, <1>2, <1>4
<1>7. CASE p = q BY <1>0, <1>2, <1>7
<1>8. QED BY <1>2, <1>5, <1>6, <1>7

\* A fair byte less one index and plus another is a fair byte of the other index.
FairOf(max, i) == {v \in FairBytes(max) : v % max = i}

LEMMA FairBytesMove ==
    ASSUME NEW max \in Nat \ {0}, NEW i \in 0 .. max - 1, NEW j \in 0 .. max - 1,
           NEW v \in FairOf(max, i)
    PROVE  v - i + j \in FairOf(max, j)
<1> DEFINE q == v \div max  n == ByteValues \div max  rest == ByteValues % max
<1>1. ByteValues \in Nat /\ v \in 0 .. ByteValues - 1 /\ v < ByteValues - rest /\ v % max = i
  BY GeneratorAssumption DEF FairOf, FairBytes
<1>2. q \in Nat /\ v = max * q + i BY <1>1, Division
<1>3. n \in Nat /\ rest \in Nat /\ ByteValues - rest = max * n
  <2>1. n \in Nat /\ rest \in 0 .. max - 1 /\ ByteValues = max * n + rest
    BY ONLY <1>1, Division, max \in Nat \ {0}
  <2> HIDE DEF n, rest
  <2>2. max * n \in Nat BY <2>1
  <2>3. QED BY <2>1, <2>2
<1> HIDE DEF q, n
<1>4. max * q \in Nat /\ max * n \in Nat BY <1>2, <1>3
<1>5. q < n
  <2>1. SUFFICES ASSUME n <= q PROVE FALSE BY <1>2, <1>3
  <2>2. n = q \/ max * n + max <= max * q BY <2>1, <1>2, <1>3, TimesGrows
  <2>3. QED BY <2>2, <1>1, <1>2, <1>3, <1>4
<1>6. max * q + max <= max * n BY <1>2, <1>3, <1>5, TimesGrows
<1>7. v - i + j = max * q + j BY <1>2, <1>4
<1>8. (v - i + j) % max = j BY <1>2, <1>7, Remainder
<1>9. v - i + j \in 0 .. ByteValues - 1 /\ v - i + j < ByteValues - rest
  BY <1>1, <1>3, <1>4, <1>6, <1>7
<1>10. QED BY <1>8, <1>9 DEF FairOf, FairBytes

LEMMA NoIndexIsLikelier ==
    ASSUME NEW max \in Nat \ {0}, NEW i \in 0 .. max - 1, NEW j \in 0 .. max - 1
    PROVE  /\ IsFiniteSet(FairOf(max, i))
           /\ Cardinality(FairOf(max, i)) <= Cardinality(FairOf(max, j))
<1> DEFINE f == [v \in FairOf(max, i) |-> v - i + j]
<1>1. \A k : FairOf(max, k) \subseteq 0 .. ByteValues - 1 BY DEF FairOf, FairBytes
<1>2. \A k : IsFiniteSet(FairOf(max, k))
  <2>1. ByteValues - 1 \in Int BY GeneratorAssumption
  <2>2. IsFiniteSet(0 .. ByteValues - 1) BY <2>1, FS_Interval
  <2>3. QED BY <1>1, <2>2, FS_Subset
<1>3. f \in [FairOf(max, i) -> FairOf(max, j)] BY FairBytesMove
<1>4. IsInjective(f)
  <2>1. SUFFICES ASSUME NEW a \in FairOf(max, i), NEW b \in FairOf(max, i), f[a] = f[b]
                 PROVE  a = b
    BY DEF IsInjective
  <2>2. a \in Int /\ b \in Int BY <1>1, GeneratorAssumption
  <2>3. a - i + j = b - i + j BY <2>1
  <2>4. QED BY <2>2, <2>3
<1> HIDE DEF f
<1>5. f \in Injection(FairOf(max, i), FairOf(max, j)) BY <1>3, <1>4 DEF Injection
<1>6. QED BY <1>2, <1>5, FS_Injection

LEMMA EveryIndexIsEven ==
    ASSUME options.length \in Nat
    PROVE  IndicesAreEven
<1>1. SUFFICES ASSUME NEW max \in 1 .. options.length, NEW i \in 0 .. max - 1, NEW j \in 0 .. max - 1
               PROVE  Cardinality(FairOf(max, i)) = Cardinality(FairOf(max, j))
  BY DEF IndicesAreEven, FairOf
<1>2. max \in Nat \ {0} OBVIOUS
<1>3. /\ Cardinality(FairOf(max, i)) <= Cardinality(FairOf(max, j))
      /\ Cardinality(FairOf(max, j)) <= Cardinality(FairOf(max, i))
  BY <1>2, NoIndexIsLikelier
<1>4. Cardinality(FairOf(max, i)) \in Nat /\ Cardinality(FairOf(max, j)) \in Nat
  BY <1>2, NoIndexIsLikelier, FS_CardinalityType
<1>5. QED BY <1>3, <1>4

\* The state between two steps: while generatePassword runs, what it has drawn is
\* of the selected categories, each of which is already there.
Drawn(s, o) ==
    /\ s \in Seq(Characters(o)) /\ Len(s) <= o.length
    /\ \A c \in o.selected : \E n \in 1 .. Len(s) : s[n] \in CharsOf(c)

DrawingInv ==
    IF Idle THEN chars = <<>>
    ELSE /\ Possible(options) /\ Drawn(chars, options)
         /\ generator = "shuffling" => Len(chars) = options.length

GenInv ==
    /\ options \in [length : Lengths, selected : SUBSET Category]
    /\ generator \in {"closed", "open", "filling", "shuffling"}
    /\ DrawingInv
    /\ turn \in 0 .. Len(chars)
    /\ preview \in Passwords /\ genError \in BOOLEAN
    /\ PreviewFitsOptions

LEMMA LengthIsPositive ==
    ASSUME NEW o \in [length : Lengths, selected : SUBSET Category]
    PROVE  o.length \in Nat /\ o.length > 0 /\ o.selected \subseteq Category
<1>1. o.length \in Lengths /\ o.selected \subseteq Category OBVIOUS
<1>2. o.length \in Nat \ {0} BY <1>1, GeneratorAssumption
<1>3. QED BY <1>1, <1>2

LEMMA GenInvSuffices == ASSUME GenInv PROVE GenCorrect
<1>1. options.length \in Nat /\ options.length > 0 BY LengthIsPositive DEF GenInv
<1>2. GenTypeOK BY <1>1 DEF GenInv, DrawingInv, Drawn, GenTypeOK, Idle
<1>3. QED BY <1>1, <1>2, EveryIndexIsEven DEF GenInv, GenCorrect

LEMMA GenInitInv == ASSUME GenInit PROVE GenInv
<1>1. <<>> \in Passwords BY DEF Passwords
<1>2. options \in [length : Lengths, selected : SUBSET Category] BY DEF GenInit
<1>3. turn \in 0 .. Len(chars) BY DEF GenInit
<1>4. DrawingInv BY DEF GenInit, DrawingInv, Idle
<1>5. QED BY <1>1, <1>2, <1>3, <1>4 DEF GenInit, GenInv, PreviewFitsOptions

LEMMA RandomIndexBelow ==
    ASSUME NEW max \in Nat \ {0}
    PROVE  RandomIndex(max) \subseteq 0 .. max - 1
<1>1. \A v \in FairBytes(max) : v \in Nat BY GeneratorAssumption DEF FairBytes
<1>2. QED BY <1>1, Division DEF RandomIndex

LEMMA RandomCharIsOfAlphabet ==
    ASSUME NEW c \in Category
    PROVE  RandomChar(Alphabets[c]) \subseteq CharsOf(c)
<1>1. Len(Alphabets[c]) \in Nat \ {0} /\ DOMAIN Alphabets[c] = 1 .. Len(Alphabets[c])
  BY GeneratorAssumption DEF Category
<1>2. \A i \in RandomIndex(Len(Alphabets[c])) : i + 1 \in DOMAIN Alphabets[c]
  BY <1>1, RandomIndexBelow
<1>3. QED BY <1>2 DEF RandomChar, CharsOf, ToSet

LEMMA RandomJoinedIsSelected ==
    ASSUME NEW o, NEW ch \in RandomJoined(o)
    PROVE  ch \in Characters(o)
<1>1. PICK p \in Joined(o) : ch = Alphabets[p[1]][p[2]] BY DEF RandomJoined
<1>2. PICK c \in o.selected : p \in {c} \X DOMAIN Alphabets[c] BY <1>1 DEF Joined
<1>3. p[1] = c /\ p[2] \in DOMAIN Alphabets[c] BY <1>2
<1>4. QED BY <1>1, <1>3 DEF Characters, CharsOf, ToSet

LEMMA PlaceIsOneOfSelected ==
    ASSUME NEW o, o.selected \subseteq Category, NEW c \in o.selected
    PROVE  /\ Cardinality(o.selected) \in Nat
           /\ Place(o, c) \in 1 .. Cardinality(o.selected)
<1> DEFINE upTo == {d \in o.selected : d <= c}
<1>1. IsFiniteSet(o.selected) BY GeneratorAssumption, FS_Subset DEF Category
<1>2. IsFiniteSet(upTo) /\ Cardinality(upTo) <= Cardinality(o.selected) BY <1>1, FS_Subset
<1>3. c \in upTo BY GeneratorAssumption DEF Category
<1>4. Cardinality(upTo) # 0 BY <1>2, <1>3, FS_EmptySet
<1>5. Cardinality(upTo) \in Nat /\ Cardinality(o.selected) \in Nat
  BY <1>1, <1>2, FS_CardinalityType
<1>6. QED BY <1>2, <1>4, <1>5 DEF Place

LEMMA GenerateInv ==
    ASSUME GenInv, Idle, NEW o \in [length : Lengths, selected : SUBSET Category], Generate(o)
    PROVE  GenInv'
<1>0. chars = <<>> /\ turn \in 0 .. Len(chars) BY DEF GenInv, DrawingInv
<1>1. /\ options' = o /\ chars = <<>> /\ turn = 0 /\ turn' = 0
      /\ o.selected \subseteq Category /\ o.length \in Nat
  BY <1>0, LengthIsPositive DEF Generate
<1>2. CASE Possible(o)
  <2>1. /\ generator' = "filling" /\ preview' = preview /\ genError' = genError
        /\ chars' \in [1 .. Cardinality(o.selected) -> Characters(o)]
        /\ \A c \in o.selected : chars'[Place(o, c)] \in RandomChar(Alphabets[c])
    BY <1>2 DEF Generate
  <2>2. Cardinality(o.selected) \in Nat BY <1>1, <1>2, PlaceIsOneOfSelected DEF Possible
  <2>3. chars' \in Seq(Characters(o)) /\ Len(chars') = Cardinality(o.selected) BY <2>1, <2>2
  <2>4. \A c \in o.selected : \E n \in 1 .. Len(chars') : chars'[n] \in CharsOf(c)
    <3>1. SUFFICES ASSUME NEW c \in o.selected
                   PROVE  \E n \in 1 .. Len(chars') : chars'[n] \in CharsOf(c)
      OBVIOUS
    <3>2. Place(o, c) \in 1 .. Len(chars') BY <1>1, <2>3, PlaceIsOneOfSelected
    <3>3. chars'[Place(o, c)] \in CharsOf(c) BY <1>1, <2>1, RandomCharIsOfAlphabet
    <3>4. QED BY <3>2, <3>3
  <2>5. Drawn(chars', o) BY <1>2, <2>3, <2>4 DEF Drawn, Possible
  <2>6. DrawingInv' BY <1>1, <1>2, <2>1, <2>5 DEF DrawingInv, Idle
  <2>7. QED BY <1>1, <2>1, <2>2, <2>3, <2>6 DEF GenInv, PreviewFitsOptions, Passwords
<1>3. CASE ~Possible(o)
  <2>1. /\ generator' = "open" /\ chars' = <<>> /\ preview' = <<>> /\ genError' = TRUE
    BY <1>3 DEF Generate
  <2>2. <<>> \in Passwords BY DEF Passwords
  <2>3. QED BY <1>1, <1>3, <2>1, <2>2 DEF GenInv, DrawingInv, Idle, PreviewFitsOptions
<1>4. QED BY <1>2, <1>3

LEMMA DrawCharInv == ASSUME GenInv, DrawChar PROVE GenInv'
<1> USE DEF DrawChar
<1>1. options.length \in Nat BY LengthIsPositive DEF GenInv
<1>2. Possible(options) /\ Drawn(chars, options) BY DEF GenInv, DrawingInv, Idle
<1>3. PICK ch \in RandomJoined(options) : chars' = Append(chars, ch) OBVIOUS
<1>4. ch \in Characters(options) BY RandomJoinedIsSelected
<1>5. /\ chars' \in Seq(Characters(options)) /\ Len(chars') = Len(chars) + 1
      /\ \A n \in 1 .. Len(chars) : chars'[n] = chars[n]
      /\ Len(chars) \in Nat
  BY <1>2, <1>3, <1>4 DEF Drawn
<1>6. \A c \in options.selected : \E n \in 1 .. Len(chars') : chars'[n] \in CharsOf(c)
  <2>1. SUFFICES ASSUME NEW c \in options.selected
                 PROVE  \E n \in 1 .. Len(chars') : chars'[n] \in CharsOf(c)
    OBVIOUS
  <2>2. PICK n \in 1 .. Len(chars) : chars[n] \in CharsOf(c) BY <1>2 DEF Drawn
  <2>3. n \in 1 .. Len(chars') /\ chars'[n] = chars[n] BY <1>5
  <2>4. QED BY <2>2, <2>3
<1>7. Drawn(chars', options) BY <1>1, <1>5, <1>6 DEF Drawn
<1>8. DrawingInv' BY <1>2, <1>7 DEF DrawingInv, Idle
<1>9. turn' \in 0 .. Len(chars') BY <1>5 DEF GenInv
<1>10. QED BY <1>8, <1>9 DEF GenInv, PreviewFitsOptions

LEMMA StartShuffleInv == ASSUME GenInv, StartShuffle PROVE GenInv'
<1> USE DEF StartShuffle
<1>1. options.length \in Nat BY LengthIsPositive DEF GenInv
<1>2. Possible(options) /\ Drawn(chars, options) BY DEF GenInv, DrawingInv, Idle
<1>3. Len(chars) \in Nat /\ Len(chars) = options.length BY <1>1, <1>2 DEF Drawn
<1>4. DrawingInv' BY <1>2, <1>3 DEF DrawingInv, Idle
<1>5. turn' \in 0 .. Len(chars') BY <1>3
<1>6. QED BY <1>4, <1>5 DEF GenInv, PreviewFitsOptions

\* A swap keeps what was drawn, only elsewhere.
LEMMA SwapKeepsDrawn ==
    ASSUME NEW s, NEW o, Drawn(s, o), NEW i \in 1 .. Len(s), NEW j \in 1 .. Len(s)
    PROVE  Drawn(Swapped(s, i, j), o) /\ Len(Swapped(s, i, j)) = Len(s)
<1> DEFINE t == Swapped(s, i, j)
<1>1. s \in Seq(Characters(o)) /\ Len(s) \in Nat BY DEF Drawn
<1>2. /\ t \in Seq(Characters(o)) /\ Len(t) = Len(s)
      /\ t[i] = s[j] /\ t[j] = s[i]
      /\ \A n \in 1 .. Len(s) : n # i /\ n # j => t[n] = s[n]
  BY <1>1 DEF Swapped
<1> HIDE DEF t
<1>3. \A c \in o.selected : \E n \in 1 .. Len(t) : t[n] \in CharsOf(c)
  <2>1. SUFFICES ASSUME NEW c \in o.selected
                 PROVE  \E n \in 1 .. Len(t) : t[n] \in CharsOf(c)
    OBVIOUS
  <2>2. PICK n \in 1 .. Len(s) : s[n] \in CharsOf(c) BY DEF Drawn
  <2>3. CASE n = i BY <1>2, <2>2, <2>3
  <2>4. CASE n = j BY <1>2, <2>2, <2>4
  <2>5. CASE n # i /\ n # j BY <1>2, <2>2, <2>5
  <2>6. QED BY <2>3, <2>4, <2>5
<1>4. Drawn(t, o) BY <1>2, <1>3 DEF Drawn
<1>5. QED BY <1>2, <1>4 DEF t

LEMMA ShuffleInv == ASSUME GenInv, Shuffle PROVE GenInv'
<1> USE DEF Shuffle
<1>1. /\ Possible(options) /\ Drawn(chars, options) /\ Len(chars) = options.length
      /\ turn \in 0 .. Len(chars) /\ Len(chars) \in Nat
  BY LengthIsPositive DEF GenInv, DrawingInv, Idle
<1>2. PICK j \in RandomIndex(turn) : chars' = Swapped(chars, turn, j + 1) OBVIOUS
<1>3. turn \in 1 .. Len(chars) /\ j + 1 \in 1 .. Len(chars)
  <2>1. turn \in Nat \ {0} BY <1>1
  <2>2. j \in 0 .. turn - 1 BY <2>1, RandomIndexBelow
  <2>3. QED BY <1>1, <2>1, <2>2
<1>4. Drawn(chars', options) /\ Len(chars') = Len(chars) BY <1>1, <1>2, <1>3, SwapKeepsDrawn
<1>5. DrawingInv' BY <1>1, <1>4 DEF DrawingInv, Idle
<1>6. turn' \in 0 .. Len(chars') BY <1>1, <1>4
<1>7. QED BY <1>5, <1>6 DEF GenInv, PreviewFitsOptions

LEMMA ShowPasswordInv == ASSUME GenInv, ShowPassword PROVE GenInv'
<1> USE DEF ShowPassword
<1>1. /\ Possible(options) /\ Drawn(chars, options) /\ Len(chars) = options.length
      /\ options.length \in Lengths /\ options.length \in Nat /\ options.selected \subseteq Category
  BY LengthIsPositive DEF GenInv, DrawingInv, Idle
<1>2. chars \in [1 .. options.length -> Characters(options)] BY <1>1 DEF Drawn
<1>3. Characters(options) \subseteq UNION {CharsOf(c) : c \in Category} BY <1>1 DEF Characters
<1>4. preview' \in Passwords BY <1>1, <1>2, <1>3 DEF Passwords
<1>5. PreviewFitsOptions'
  <2>1. \A c \in options.selected : CharsOf(c) \intersect ToSet(chars) # {}
    BY <1>1, <1>2 DEF Drawn, ToSet
  <2>2. ToSet(chars) \subseteq Characters(options) BY <1>2 DEF ToSet
  <2>3. QED BY <1>1, <2>1, <2>2 DEF PreviewFitsOptions
<1>6. DrawingInv' BY DEF DrawingInv, Idle
<1>7. turn' \in 0 .. Len(chars') OBVIOUS
<1>8. QED BY <1>4, <1>5, <1>6, <1>7 DEF GenInv

LEMMA GenNextInv == ASSUME GenInv, [GenNext]_genVars PROVE GenInv'
<1>1. options \in [length : Lengths, selected : SUBSET Category] BY DEF GenInv
<1>2. CASE OpenGenerator \/ Regenerate BY <1>1, <1>2, GenerateInv DEF OpenGenerator, Regenerate, Idle
<1>3. ASSUME NEW c \in Category, ToggleCategory(c) PROVE GenInv'
  <2>1. [options EXCEPT !.selected = IF c \in @ THEN @ \ {c} ELSE @ \union {c}]
            \in [length : Lengths, selected : SUBSET Category]
    BY <1>1
  <2>2. QED BY <1>3, <2>1, GenerateInv DEF ToggleCategory, Idle
<1>4. ASSUME NEW n \in Lengths, ChangeLength(n) PROVE GenInv'
  <2>1. [options EXCEPT !.length = n] \in [length : Lengths, selected : SUBSET Category] BY <1>1
  <2>2. QED BY <1>4, <2>1, GenerateInv DEF ChangeLength, Idle
<1>5. CASE UsePassword \/ CloseGenerator
  BY <1>5 DEF UsePassword, CloseGenerator, GenInv, DrawingInv, Idle, PreviewFitsOptions
<1>6. CASE GenStep
  BY <1>6, DrawCharInv, StartShuffleInv, ShuffleInv, ShowPasswordInv DEF GenStep
<1>7. CASE UNCHANGED genVars
  BY <1>7 DEF genVars, GenInv, DrawingInv, Idle, PreviewFitsOptions
<1>8. QED BY <1>2, <1>3, <1>4, <1>5, <1>6, <1>7 DEF GenNext

(* A shown password fits the options shown, with a character of every selected  *)
(* category, and randomIndex favours no index, for any alphabets, lengths and   *)
(* number of byte values.                                                       *)
THEOREM GenCorrectHolds == GenSpec => []GenCorrect
BY GenInitInv, GenNextInv, GenInvSuffices, PTL DEF GenSpec
=============================================================================

----------------------------- MODULE JobsProofs -----------------------------
(***************************************************************************)
(* The work of the Desktop that goes on without the user, for any devices, *)
(* blocks, entries, uploads and accounts: KeyRotation, DevicePairing,      *)
(* HardwareWallet, ActivityScan and VaultScreen, in that order. In all of  *)
(* them a screen that was left, or gave up, has work under way that nobody *)
(* follows any more; the invariants say what such work may still do. That  *)
(* the work ends is liveness, and stays with TLC.                          *)
(***************************************************************************)
EXTENDS VaultScreen, ActivityScan, DevicePairing, KeyRotation, HardwareWallet,
    FiniteSetTheorems, TLAPS

-----------------------------------------------------------------------------
(*****************************************************************************)
(* KeyRotation.  A rotation that goes on after the tab was left has its own  *)
(* key and list.  The invariant says which rotation the screen is about,     *)
(* what the wallet was asked to sign, and which devices the key in use was   *)
(* encrypted to.                                                             *)
(*****************************************************************************)

RotationRecord == [for : SUBSET Registrable, key : 1..MaxKeys, stage : {"encrypt", "publish"}, mount : Mounts]
BatchRecord == [for : SUBSET Registrable, key : Generation, vault : Generation]

KeysInv ==
    /\ onChain \in [Registrable -> {"absent", "active", "revoked"}] /\ signers \subseteq Registrable
    /\ vaultKeyOf \in [Registrable -> Generation]
    /\ keysMade \in 1..MaxKeys /\ localKey \in 1..keysMade /\ publishedKey \in 1..keysMade

RevokeInv ==
    /\ revokeHook \in HookState /\ revokingPubKey \in Registrable \cup {"none"}
    /\ Busy(revokeHook) => revokingPubKey \in Registrable
    /\ pendingRemaining \subseteq Registrable
    /\ pendingRemaining # {} => revokingPubKey = "none"

SideInv ==
    /\ reauthHook \in HookState /\ reauthFor \subseteq Registrable /\ sendHook \in HookState
    /\ Busy(sendHook) => sendArgs.device \in Registrable /\ sendArgs.key \in 1..keysMade

\* A mount has one rotation at most, and its screen says so; before the tab was
\* left, the key in use is the one of the rotation that goes on.
RunningInv ==
    /\ mount \in Mounts /\ rotations \subseteq RotationRecord
    /\ \A r \in rotations : r.key <= keysMade /\ r.mount <= mount
    /\ \A r \in rotations : r.mount = mount => rotationPhase = "rotating"
    /\ \A r \in rotations : mount = 0 /\ r.stage = "publish" => localKey = r.key
    /\ \A r, s \in rotations : r.mount = s.mount => r = s
    /\ rotationPhase \in {"idle", "rotating", "confirming"}
    /\ rotationPhase = "idle" \/ pendingRemaining # {}

AskedInv ==
    /\ rotationHook \in [Mounts -> HookState] /\ batch \in [Mounts -> BatchRecord]
    /\ \A m \in Mounts : m > mount => rotationHook[m] = "idle"
    /\ \A m \in Mounts : Busy(rotationHook[m]) => batch[m].vault \in 1..keysMade
    /\ Busy(rotationHook[mount]) => rotationPhase = "confirming"
    /\ mount = 0 /\ Busy(rotationHook[0]) => batch[0].vault = localKey /\ batch[0].key = localKey

RotInv == KeysInv /\ RevokeInv /\ SideInv /\ RunningInv /\ AskedInv

-----------------------------------------------------------------------------
\* Which states of a hook are waited for.
LEMMA HookFacts ==
    /\ Busy("pending") /\ Busy("confirming")
    /\ ~Busy("idle") /\ ~Busy("error") /\ ~Busy("success") /\ ~Busy("reverted")
    /\ {"idle", "pending", "error", "confirming", "success", "reverted"} = HookState
    /\ WalletAnswers = {"error", "confirming"}
BY DEF Busy, HookState, WalletAnswers

\* The invariant holds at the start.
LEMMA RotInitInv == ASSUME RotInit PROVE RotInv
<1> USE RotationAssumption, HookFacts DEF RotInit
<1>1. KeysInv
  <2>1. vaultKeyOf \in [Registrable -> Generation] BY DEF Generation
  <2>2. QED BY <2>1 DEF KeysInv
<1>2. RevokeInv BY DEF RevokeInv
<1>3. SideInv BY DEF SideInv
<1>4. RunningInv BY DEF RunningInv, Mounts
<1>5. AskedInv
  <2>1. NoBatch \in BatchRecord BY DEF NoBatch, BatchRecord, Generation
  <2>2. batch \in [Mounts -> BatchRecord] BY <2>1
  <2>3. 0 \in Mounts BY DEF Mounts
  <2>4. QED BY <2>2, <2>3 DEF AskedInv
<1>6. QED BY <1>1, <1>2, <1>3, <1>4, <1>5 DEF RotInv

\* The parts a step leaves alone.
LEMMA KeysStay == ASSUME KeysInv, UNCHANGED <<rotChainVars, rotKeyVars>> PROVE KeysInv'
BY DEF KeysInv, rotChainVars, rotKeyVars

LEMMA RevokeStays == ASSUME RevokeInv, UNCHANGED <<revokeVars, pendingRemaining>> PROVE RevokeInv'
BY DEF RevokeInv, revokeVars

LEMMA SideStays == ASSUME SideInv, UNCHANGED <<reauthVars, sendVars, keysMade>> PROVE SideInv'
BY DEF SideInv, reauthVars, sendVars

LEMMA RunningStays ==
    ASSUME RunningInv, UNCHANGED <<rotKeyVars, mount, rotations, rotationPhase, pendingRemaining>> PROVE RunningInv'
BY DEF RunningInv, rotKeyVars

LEMMA AskedStays ==
    ASSUME AskedInv, UNCHANGED <<rotKeyVars, mount, rotationHook, batch, rotationPhase>> PROVE AskedInv'
BY DEF AskedInv, rotKeyVars

\* What a rotation is once its key was committed.
LEMMA Published ==
    ASSUME NEW r \in RotationRecord
    PROVE  LET s == [r EXCEPT !.stage = "publish"]
           IN  s \in RotationRecord /\ s.for = r.for /\ s.key = r.key /\ s.mount = r.mount /\ s.stage = "publish"
BY DEF RotationRecord

-----------------------------------------------------------------------------
(* The list and the transactions beside a rotation.                          *)
\* Each step keeps the invariant; first those of the chain and of the single
\* devices.
LEMMA RegisterInv == ASSUME RotInv, NEW d \in Registrable, RegisterDevice(d) PROVE RotInv'
<1> USE DEF RegisterDevice
<1>1. KeysInv'
  <2>1. localKey \in Generation BY RotationAssumption DEF RotInv, KeysInv, Generation
  <2>2. vaultKeyOf' \in [Registrable -> Generation] BY <2>1 DEF RotInv, KeysInv
  <2>3. onChain' \in [Registrable -> {"absent", "active", "revoked"}] BY DEF RotInv, KeysInv
  <2>4. signers' \subseteq Registrable BY DEF RotInv, KeysInv
  <2>5. QED BY <2>2, <2>3, <2>4 DEF RotInv, KeysInv, rotKeyVars
<1>2. RevokeInv' BY RevokeStays DEF RotInv, offerVars
<1>3. SideInv' BY SideStays DEF RotInv, rotKeyVars
<1>4. RunningInv' BY RunningStays DEF RotInv, offerVars
<1>5. AskedInv' BY AskedStays DEF RotInv, offerVars
<1>6. QED BY <1>1, <1>2, <1>3, <1>4, <1>5 DEF RotInv

LEMMA PressRevokeInv ==
    ASSUME RotInv, \/ Refetch \/ AnswerRevoke \/ \E d \in Registrable : PressRevoke(d) PROVE RotInv'
<1>1. KeysInv' BY KeysStay DEF RotInv, Refetch, AnswerRevoke, PressRevoke
<1>2. RevokeInv'
  <2>1. CASE Refetch BY <2>1, RevokeStays DEF RotInv, Refetch, offerVars
  <2>2. CASE AnswerRevoke BY <2>2, HookFacts DEF RotInv, RevokeInv, AnswerRevoke, offerVars, IsPending
  <2>3. ASSUME NEW d \in Registrable, PressRevoke(d) PROVE RevokeInv'
    BY <2>3, HookFacts DEF RotInv, RevokeInv, PressRevoke, NoRotationOpen, offerVars
  <2>4. QED BY <2>1, <2>2, <2>3
<1>3. SideInv' BY SideStays DEF RotInv, Refetch, AnswerRevoke, PressRevoke, rotKeyVars
<1>4. RunningInv' BY RunningStays DEF RotInv, Refetch, AnswerRevoke, PressRevoke, offerVars
<1>5. AskedInv' BY AskedStays DEF RotInv, Refetch, AnswerRevoke, PressRevoke, offerVars
<1>6. QED BY <1>1, <1>2, <1>3, <1>4, <1>5 DEF RotInv

LEMMA MineRevokeInv == ASSUME RotInv, MineRevoke PROVE RotInv'
<1> USE DEF MineRevoke
<1>1. revokingPubKey \in Registrable /\ "none" \notin Registrable
  BY HookFacts, RotationAssumption DEF RotInv, RevokeInv, IsConfirming
<1>2. KeysInv'
  <2>1. onChain' \in [Registrable -> {"absent", "active", "revoked"}] /\ signers' \subseteq Registrable
    BY DEF RotInv, KeysInv
  <2>2. QED BY <2>1 DEF RotInv, KeysInv, rotKeyVars
<1>3. RevokeInv'
  <2>1. pendingRemaining = {} BY <1>1 DEF RotInv, RevokeInv
  <2>2. Remaining(revokingPubKey) \subseteq Registrable BY DEF Remaining, ActiveSeen
  <2>3. QED BY <1>1, <2>1, <2>2, HookFacts DEF RotInv, RevokeInv
<1>4. SideInv' BY SideStays DEF RotInv, rotKeyVars
<1>5. RunningInv'
  <2>1. pendingRemaining = {} BY <1>1 DEF RotInv, RevokeInv
  <2>2. rotationPhase = "idle" BY <2>1 DEF RotInv, RunningInv
  <2>3. QED BY <2>2 DEF RotInv, RunningInv, rotKeyVars
<1>6. AskedInv' BY AskedStays DEF RotInv
<1>7. QED BY <1>2, <1>3, <1>4, <1>5, <1>6 DEF RotInv

LEMMA ReauthorizeInv == ASSUME RotInv, PressReauthorize \/ AnswerReauthorize \/ MineReauthorize PROVE RotInv'
<1>1. KeysInv' BY DEF RotInv, KeysInv, SideInv, PressReauthorize, AnswerReauthorize, MineReauthorize, rotChainVars, rotKeyVars
<1>2. RevokeInv' BY RevokeStays DEF RotInv, PressReauthorize, AnswerReauthorize, MineReauthorize, offerVars
<1>3. SideInv'
  <2>1. UNCHANGED <<sendHook, sendArgs, keysMade>>
    BY DEF PressReauthorize, AnswerReauthorize, MineReauthorize, sendVars, rotKeyVars
  <2>2. NeedReauth \subseteq Registrable BY DEF NeedReauth, ActiveSeen
  <2>3. reauthHook' \in HookState /\ reauthFor' \subseteq Registrable
    BY <2>2, HookFacts DEF RotInv, SideInv, PressReauthorize, AnswerReauthorize, MineReauthorize
  <2>4. QED BY <2>1, <2>3 DEF RotInv, SideInv
<1>4. RunningInv' BY RunningStays DEF RotInv, PressReauthorize, AnswerReauthorize, MineReauthorize, offerVars
<1>5. AskedInv' BY AskedStays DEF RotInv, PressReauthorize, AnswerReauthorize, MineReauthorize, offerVars
<1>6. QED BY <1>1, <1>2, <1>3, <1>4, <1>5 DEF RotInv

LEMMA SendInv == ASSUME RotInv, AnswerSend \/ MineSend \/ \E d \in Registrable : SendCurrentKey(d) PROVE RotInv'
<1>1. KeysInv'
  <2>1. CASE MineSend
    <3>1. sendArgs.device \in Registrable /\ sendArgs.key \in 1..keysMade
      BY <2>1, HookFacts DEF RotInv, SideInv, MineSend, IsConfirming
    <3>2. sendArgs.key \in Generation BY <3>1, RotationAssumption DEF RotInv, KeysInv, Generation
    <3>3. vaultKeyOf' \in [Registrable -> Generation] BY <2>1, <3>1, <3>2 DEF RotInv, KeysInv, MineSend
    <3>4. QED BY <2>1, <3>3 DEF RotInv, KeysInv, MineSend, rotKeyVars
  <2>2. CASE AnswerSend BY <2>2, KeysStay DEF RotInv, AnswerSend
  <2>3. ASSUME NEW d \in Registrable, SendCurrentKey(d) PROVE KeysInv' BY <2>3, KeysStay DEF RotInv, SendCurrentKey
  <2>4. QED BY <2>1, <2>2, <2>3
<1>2. RevokeInv' BY RevokeStays DEF RotInv, AnswerSend, MineSend, SendCurrentKey, offerVars
<1>3. SideInv'
  <2>1. UNCHANGED <<reauthVars, keysMade>> BY DEF AnswerSend, MineSend, SendCurrentKey, rotKeyVars
  <2>2. CASE MineSend BY <2>1, <2>2, HookFacts DEF RotInv, SideInv, MineSend, reauthVars
  <2>3. CASE AnswerSend BY <2>1, <2>3, HookFacts DEF RotInv, SideInv, AnswerSend, reauthVars, IsPending
  <2>4. ASSUME NEW d \in Registrable, SendCurrentKey(d) PROVE SideInv'
    <3>1. sendArgs'.device = d /\ sendArgs'.key = localKey BY <2>4 DEF SendCurrentKey
    <3>2. QED BY <2>1, <2>4, <3>1, HookFacts DEF RotInv, SideInv, KeysInv, SendCurrentKey, reauthVars
  <2>5. QED BY <2>2, <2>3, <2>4
<1>4. RunningInv' BY RunningStays DEF RotInv, AnswerSend, MineSend, SendCurrentKey, offerVars
<1>5. AskedInv' BY AskedStays DEF RotInv, AnswerSend, MineSend, SendCurrentKey, offerVars
<1>6. QED BY <1>1, <1>2, <1>3, <1>4, <1>5 DEF RotInv

-----------------------------------------------------------------------------
(* The rotation.                                                             *)
LEMMA PostponeInv == ASSUME RotInv, PostponeRotation PROVE RotInv'
<1> USE DEF PostponeRotation
<1>1. KeysInv' BY KeysStay DEF RotInv
<1>2. RevokeInv' BY DEF RotInv, RevokeInv, revokeVars
<1>3. SideInv' BY SideStays DEF RotInv, rotKeyVars
<1>4. RunningInv' BY DEF RotInv, RunningInv, rotKeyVars
<1>5. AskedInv' BY AskedStays DEF RotInv
<1>6. QED BY <1>1, <1>2, <1>3, <1>4, <1>5 DEF RotInv

\* Then those of a rotation.
LEMMA ConfirmInv == ASSUME RotInv, ConfirmRotation PROVE RotInv'
<1> USE DEF ConfirmRotation
<1>1. keysMade' = keysMade + 1 /\ keysMade \in 1..MaxKeys /\ keysMade' \in 1..MaxKeys
  BY RotationAssumption DEF RotInv, KeysInv
<1>2. KeysInv' BY <1>1, RotationAssumption DEF RotInv, KeysInv, rotChainVars
<1>3. RevokeInv' BY RevokeStays DEF RotInv
<1>4. SideInv' BY <1>1, RotationAssumption DEF RotInv, SideInv, reauthVars, sendVars
<1>5. RunningInv'
  <2> DEFINE new == [for |-> pendingRemaining, key |-> keysMade', stage |-> "encrypt", mount |-> mount]
  <2>1. new \in RotationRecord BY <1>1 DEF RotInv, RevokeInv, RunningInv, RotationRecord
  <2>2. new.mount = mount /\ new.key = keysMade' /\ new.stage = "encrypt" OBVIOUS
  <2>3. rotations' = rotations \cup {new} OBVIOUS
  <2> HIDE DEF new
  <2>4. \A r \in rotations : r.mount # mount /\ r.key <= keysMade /\ r.mount <= mount
    BY DEF RotInv, RunningInv
  <2>5. \A r \in rotations : r.key \in 1..MaxKeys BY DEF RotInv, RunningInv, RotationRecord
  <2>6. \A r \in rotations' : r.key <= keysMade' /\ r.mount <= mount
    BY <1>1, <2>2, <2>3, <2>4, <2>5, RotationAssumption DEF RotInv, RunningInv, Mounts
  <2>7. \A r, s \in rotations' : r.mount = s.mount => r = s
    BY <2>2, <2>3, <2>4 DEF RotInv, RunningInv
  <2>8. QED BY <2>1, <2>2, <2>3, <2>4, <2>6, <2>7 DEF RotInv, RunningInv
<1>6. AskedInv' BY <1>1, RotationAssumption DEF RotInv, AskedInv
<1>7. QED BY <1>2, <1>3, <1>4, <1>5, <1>6 DEF RotInv

\* A rotation that ends frees its screen, and disturbs no transaction.
LEMMA FailedInv ==
    ASSUME RunningInv, AskedInv, NEW r \in rotations, RotationFailed(r),
           UNCHANGED <<rotKeyVars, pendingRemaining, rotationHook, batch, mount>>
    PROVE  RunningInv' /\ AskedInv'
<1> USE DEF RotationFailed, rotKeyVars
<1>1. \A s \in rotations' : s.mount = mount => rotationPhase' = "rotating"
  BY DEF RunningInv
<1>2. rotationPhase' \in {"idle", "rotating", "confirming"} /\ (rotationPhase' = "idle" \/ pendingRemaining' # {})
  BY DEF RunningInv
<1>3. RunningInv' BY <1>1, <1>2 DEF RunningInv
<1>4. Busy(rotationHook[mount]) => rotationPhase' = "confirming"
  BY DEF RunningInv, AskedInv
<1>5. AskedInv' BY <1>4 DEF AskedInv
<1>6. QED BY <1>3, <1>5

LEMMA EncryptInv == ASSUME RotInv, NEW r \in rotations, EncryptAndCommitKey(r) PROVE RotInv'
<1> USE DEF EncryptAndCommitKey
<1>1. r \in RotationRecord /\ r.key \in 1..MaxKeys /\ r.key <= keysMade /\ keysMade \in 1..MaxKeys
  BY DEF RotInv, KeysInv, RunningInv, RotationRecord
<1>2. KeysInv'
  <2>1. localKey' \in 1..keysMade BY <1>1, RotationAssumption DEF RotInv, KeysInv
  <2>2. QED BY <2>1 DEF RotInv, KeysInv, rotChainVars
<1>3. RevokeInv' BY RevokeStays DEF RotInv
<1>4. SideInv' BY SideStays DEF RotInv
<1>5. RunningInv' /\ AskedInv'
  <2>1. CASE RotationFailed(r) /\ UNCHANGED localKey
    BY <2>1, FailedInv DEF RotInv, rotKeyVars
  <2>2. CASE /\ localKey' = r.key
             /\ rotations' = (rotations \ {r}) \cup {[r EXCEPT !.stage = "publish"]}
             /\ UNCHANGED rotationPhase
    <3> DEFINE s == [r EXCEPT !.stage = "publish"]
    <3>1. s \in RotationRecord /\ s.for = r.for /\ s.key = r.key /\ s.mount = r.mount /\ s.stage = "publish"
      BY <1>1, Published
    <3>2. rotations' = (rotations \ {r}) \cup {s} BY <2>2
    <3> HIDE DEF s
    <3>3. \A t, u \in rotations' : t.mount = u.mount => t = u
      BY <3>1, <3>2 DEF RotInv, RunningInv
    <3>4. \A t \in rotations' : t.key <= keysMade /\ t.mount <= mount
      BY <3>1, <3>2 DEF RotInv, RunningInv
    <3>5. \A t \in rotations' : t.mount = mount => rotationPhase = "rotating"
      BY <3>1, <3>2 DEF RotInv, RunningInv
    <3>6. mount = 0 => \A t \in rotations' : t.mount = 0
      BY <3>1, <3>2, <3>4 DEF RotInv, RunningInv, RotationRecord, Mounts
    <3>7. \A t \in rotations' : mount = 0 /\ t.stage = "publish" => localKey' = t.key
      BY <2>2, <3>1, <3>2, <3>3, <3>6
    <3>8. rotations' \subseteq RotationRecord BY <3>1, <3>2 DEF RotInv, RunningInv
    <3>9. RunningInv' BY <2>2, <3>3, <3>4, <3>5, <3>7, <3>8 DEF RotInv, RunningInv
    <3>10. mount = 0 => r.mount = mount
      BY <1>1 DEF RotInv, RunningInv, RotationRecord, Mounts
    <3>11. mount = 0 => ~Busy(rotationHook[0])
      BY <3>10 DEF RotInv, RunningInv, AskedInv
    <3>12. AskedInv' BY <2>2, <3>11 DEF RotInv, AskedInv
    <3>13. QED BY <3>9, <3>12
  <2>3. QED BY <2>1, <2>2
<1>6. QED BY <1>2, <1>3, <1>4, <1>5 DEF RotInv

LEMMA PublishRotatedInv == ASSUME RotInv, NEW r \in rotations, PublishRotated(r) PROVE RotInv'
<1> USE DEF PublishRotated
<1>1. r \in RotationRecord /\ r.key \in 1..MaxKeys /\ r.mount \in Mounts /\ r.for \subseteq Registrable
  BY DEF RotInv, RunningInv, RotationRecord
<1>2. KeysInv' BY KeysStay DEF RotInv
<1>3. RevokeInv' BY RevokeStays DEF RotInv
<1>4. SideInv' BY SideStays DEF RotInv, rotKeyVars
<1>5. RunningInv' /\ AskedInv'
  <2>1. CASE RotationFailed(r) /\ UNCHANGED <<batch, rotationHook>>
    BY <2>1, FailedInv DEF RotInv
  <2> DEFINE b == [for |-> r.for, key |-> r.key, vault |-> localKey]
  <2>2. CASE /\ rotations' = rotations \ {r}
             /\ batch' = [batch EXCEPT ![r.mount] = b]
             /\ rotationHook' = [rotationHook EXCEPT ![r.mount] = "pending"]
             /\ rotationPhase' = IF r.mount = mount THEN "confirming" ELSE rotationPhase
    <3>1. localKey \in 1..keysMade /\ localKey \in Generation /\ r.key \in Generation
      BY <1>1, RotationAssumption DEF RotInv, KeysInv, Generation
    <3>2. b \in BatchRecord /\ b.vault = localKey /\ b.key = r.key BY <1>1, <3>1 DEF BatchRecord
    <3>3. batch' = [batch EXCEPT ![r.mount] = b] BY <2>2
    <3> HIDE DEF b
    <3>4. batch' \in [Mounts -> BatchRecord] /\ batch'[r.mount] = b
           /\ \A m \in Mounts : m # r.mount => batch'[m] = batch[m]
      BY <1>1, <3>2, <3>3 DEF RotInv, AskedInv
    <3>5. rotationHook' \in [Mounts -> HookState] /\ rotationHook'[r.mount] = "pending"
           /\ \A m \in Mounts : m # r.mount => rotationHook'[m] = rotationHook[m]
      BY <1>1, <2>2, HookFacts DEF RotInv, AskedInv
    <3>6. mount \in Mounts /\ mount' = mount /\ localKey' = localKey /\ keysMade' = keysMade
           /\ pendingRemaining' = pendingRemaining /\ r.mount <= mount
      BY DEF RotInv, RunningInv, rotKeyVars
    <3>7. \A t \in rotations' : t.mount = mount => rotationPhase' = "rotating"
      BY <2>2 DEF RotInv, RunningInv
    <3>8. rotationPhase' \in {"idle", "rotating", "confirming"} /\ (rotationPhase' = "idle" \/ pendingRemaining # {})
      BY <2>2 DEF RotInv, RunningInv
    <3>9. RunningInv' BY <2>2, <3>6, <3>7, <3>8 DEF RotInv, RunningInv
    <3>10. \A m \in Mounts : m > mount => rotationHook'[m] = "idle"
      BY <1>1, <3>5, <3>6 DEF RotInv, AskedInv, Mounts
    <3>11. \A m \in Mounts : Busy(rotationHook'[m]) => batch'[m].vault \in 1..keysMade
      BY <3>1, <3>2, <3>4, <3>5 DEF RotInv, AskedInv
    <3>12. Busy(rotationHook'[mount]) => rotationPhase' = "confirming"
      BY <2>2, <3>5, <3>6 DEF RotInv, AskedInv
    <3>13. mount = 0 => r.mount = 0 BY <1>1, <3>6 DEF Mounts
    <3>14. mount = 0 => b.vault = localKey /\ b.key = localKey
      BY <3>2 DEF RotInv, RunningInv
    <3>15. mount = 0 => batch'[0].vault = localKey /\ batch'[0].key = localKey BY <3>4, <3>13, <3>14
    <3>16. AskedInv' BY <3>4, <3>5, <3>6, <3>10, <3>11, <3>12, <3>15 DEF AskedInv
    <3>17. QED BY <3>9, <3>16
  <2>3. QED BY <2>1, <2>2
<1>6. QED BY <1>2, <1>3, <1>4, <1>5 DEF RotInv

LEMMA AnswerRotationInv == ASSUME RotInv, NEW m \in Mounts, AnswerRotation(m) PROVE RotInv'
<1> USE DEF AnswerRotation
<1>1. KeysInv' BY KeysStay DEF RotInv
<1>2. RevokeInv' BY RevokeStays DEF RotInv
<1>3. SideInv' BY SideStays DEF RotInv, rotKeyVars
<1>4. RunningInv' BY RunningStays DEF RotInv
<1>5. AskedInv'
  <2>1. Busy(rotationHook[m]) BY HookFacts DEF IsPending
  <2>2. rotationHook' \in [Mounts -> HookState] BY HookFacts DEF RotInv, AskedInv
  <2>3. \A n \in Mounts : Busy(rotationHook'[n]) => Busy(rotationHook[n]) BY <2>1 DEF RotInv, AskedInv
  <2>4. mount \in Mounts /\ 0 \in Mounts BY RotationAssumption DEF RotInv, RunningInv, Mounts
  <2>5. ~(m > mount) BY <2>1, HookFacts DEF RotInv, AskedInv
  <2>6. \A n \in Mounts : n > mount => rotationHook'[n] = "idle" BY <2>5 DEF RotInv, AskedInv
  <2>7. QED BY <2>2, <2>3, <2>4, <2>6 DEF RotInv, AskedInv, rotKeyVars
<1>6. QED BY <1>1, <1>2, <1>3, <1>4, <1>5 DEF RotInv

LEMMA MineRotationInv == ASSUME RotInv, NEW m \in Mounts, MineRotation(m) PROVE RotInv'
<1> USE DEF MineRotation
<1>1. Busy(rotationHook[m]) BY HookFacts DEF IsConfirming
<1>2. batch[m] \in BatchRecord /\ batch[m].vault \in 1..keysMade /\ batch[m].key \in Generation
  BY <1>1 DEF RotInv, AskedInv, BatchRecord
<1>3. KeysInv'
  <2>1. vaultKeyOf' \in [Registrable -> Generation] BY <1>2 DEF RotInv, KeysInv
  <2>2. publishedKey' \in 1..keysMade BY <1>2 DEF RotInv, KeysInv
  <2>3. QED BY <2>1, <2>2 DEF RotInv, KeysInv, rotKeyVars
<1>4. RevokeInv' BY DEF RotInv, RevokeInv, revokeVars
<1>5. SideInv' BY SideStays DEF RotInv, rotKeyVars
<1>6. RunningInv'
  <2>1. m = mount => \A r \in rotations : r.mount # mount BY <1>1 DEF RotInv, RunningInv, AskedInv
  <2>2. QED BY <2>1 DEF RotInv, RunningInv, rotKeyVars
<1>7. AskedInv'
  <2>1. rotationHook' \in [Mounts -> HookState] /\ ~Busy(rotationHook'[m])
         /\ \A n \in Mounts : n # m => rotationHook'[n] = rotationHook[n]
    BY HookFacts DEF RotInv, AskedInv
  <2>2. \A n \in Mounts : Busy(rotationHook'[n]) => Busy(rotationHook[n]) BY <2>1
  <2>3. mount \in Mounts /\ 0 \in Mounts BY RotationAssumption DEF RotInv, RunningInv, Mounts
  <2>4. ~(m > mount) BY <1>1, HookFacts DEF RotInv, AskedInv
  <2>5. \A n \in Mounts : n > mount => rotationHook'[n] = "idle" BY <2>1, <2>4 DEF RotInv, AskedInv
  <2>6. Busy(rotationHook'[mount]) => rotationPhase' = "confirming"
    BY <2>1, <2>2, <2>3 DEF RotInv, AskedInv
  <2>7. QED BY <2>1, <2>2, <2>3, <2>5, <2>6 DEF RotInv, AskedInv, rotKeyVars
<1>8. QED BY <1>3, <1>4, <1>5, <1>6, <1>7 DEF RotInv

LEMMA RemountTabInv == ASSUME RotInv, RemountTab PROVE RotInv'
<1> USE DEF RemountTab
<1>1. mount' = mount + 1 /\ mount \in Mounts /\ mount' \in Mounts /\ mount' > mount /\ mount' # 0
  BY RotationAssumption DEF RotInv, RunningInv, Mounts
<1>2. KeysInv' BY KeysStay DEF RotInv
<1>3. RevokeInv' BY HookFacts DEF RotInv, RevokeInv
<1>4. SideInv' BY HookFacts DEF RotInv, SideInv
<1>5. RunningInv'
  <2>1. \A r \in rotations : r.mount \in Mounts /\ r.mount <= mount BY DEF RotInv, RunningInv, RotationRecord
  <2>2. \A r \in rotations : r.mount <= mount' /\ r.mount # mount' BY <1>1, <2>1 DEF Mounts
  <2>3. QED BY <1>1, <2>2 DEF RotInv, RunningInv, rotKeyVars
<1>6. AskedInv'
  <2>1. \A m \in Mounts : m > mount' => m > mount BY <1>1 DEF Mounts
  <2>2. rotationHook[mount'] = "idle" BY <1>1 DEF RotInv, AskedInv
  <2>3. QED BY <1>1, <2>1, <2>2, HookFacts DEF RotInv, AskedInv, rotKeyVars
<1>7. QED BY <1>2, <1>3, <1>4, <1>5, <1>6 DEF RotInv

\* Every step is one of these.
LEMMA RotStep == ASSUME RotInv, [RotNext]_rotVars PROVE RotInv'
<1>1. CASE UNCHANGED rotVars
  BY <1>1, KeysStay, RevokeStays, SideStays, RunningStays, AskedStays
  DEF RotInv, rotVars, rotKeyVars, offerVars
<1>2. CASE RotNext
  BY <1>2, RegisterInv, PressRevokeInv, MineRevokeInv, ReauthorizeInv, SendInv, PostponeInv, ConfirmInv,
     EncryptInv, PublishRotatedInv, AnswerRotationInv, MineRotationInv, RemountTabInv DEF RotNext
<1>3. QED BY <1>1, <1>2

\* The invariant of every behaviour, from which the four parts of RotationCorrect
\* follow.
LEMMA RotInvHolds == RotSpec => []RotInv
BY RotInitInv, RotStep, PTL DEF RotSpec

-----------------------------------------------------------------------------
\* Types, and the list of who keeps access is there as long as a rotation may need
\* it (ManageDevices.tsx).
THEOREM RotationListHolds == RotSpec => [](RotTypeOK /\ ListIsKeptForRotation)
<1>1. RotInv => RotTypeOK
  BY HookFacts DEF RotInv, KeysInv, RevokeInv, SideInv, RunningInv, AskedInv, RotTypeOK, IsConfirming
<1>2. RotInv => ListIsKeptForRotation
  BY RotationAssumption DEF RotInv, RevokeInv, ListIsKeptForRotation
<1>3. QED BY <1>1, <1>2, RotInvHolds, PTL

\* No step gives a device that is and stays revoked another key.
THEOREM RevokedGetsNoNewKeyHolds == RotSpec => RevokedGetsNoNewKey
<1> DEFINE Kept(d) == onChain[d] = "revoked" /\ onChain'[d] = "revoked" => vaultKeyOf'[d] = vaultKeyOf[d]
<1>1. ASSUME RotInv, [RotNext]_rotVars, NEW d \in Registrable PROVE Kept(d)
  <2>1. vaultKeyOf \in [Registrable -> Generation] BY <1>1 DEF RotInv, KeysInv
  <2>2. ASSUME NEW e \in Registrable, RegisterDevice(e) PROVE Kept(d) BY <2>1, <2>2 DEF RegisterDevice
  <2>3. CASE MineSend BY <2>1, <2>3 DEF MineSend
  <2>4. ASSUME NEW m \in Mounts, MineRotation(m) PROVE Kept(d) BY <2>1, <2>4 DEF MineRotation, KeysAccepted
  <2>5. ASSUME UNCHANGED vaultKeyOf PROVE Kept(d) BY <2>5
  <2>6. QED BY <1>1, <2>2, <2>3, <2>4, <2>5
     DEF RotNext, rotVars, rotChainVars, PressRevoke, SendCurrentKey, Refetch, AnswerRevoke, MineRevoke,
         PostponeRotation, ConfirmRotation, AnswerRotation, EncryptAndCommitKey, PublishRotated,
         PressReauthorize, AnswerReauthorize, MineReauthorize, AnswerSend, RemountTab
<1>2. RotInv /\ [RotNext]_rotVars => [\A d \in Registrable : Kept(d)]_rotVars BY <1>1
<1>3. QED BY <1>2, RotInvHolds, PTL DEF RotSpec, RevokedGetsNoNewKey

\* As long as the tab was never left (mount = 0), the vault a rotation announces is
\* one that opens with the key the same transaction hands to the devices that stay,
\* and with no rotation under way it is the key in use here (ManageDevices.tsx).
THEOREM AnnouncedOpensHolds == RotSpec => AnnouncedOpens
<1> DEFINE Announced == publishedKey' # publishedKey /\ mount = 0 =>
                      /\ \A d \in batch[0].for : vaultKeyOf'[d] = publishedKey'
                      /\ rotations = {} => localKey = publishedKey'
<1>1. ASSUME RotInv, [RotNext]_rotVars PROVE Announced
  <2>1. ASSUME NEW m \in Mounts, MineRotation(m), mount = 0, publishedKey' # publishedKey PROVE Announced
    <3>1. Busy(rotationHook[m]) BY <2>1, HookFacts DEF MineRotation, IsConfirming
    <3>2. m = 0 BY <1>1, <2>1, <3>1, HookFacts DEF RotInv, AskedInv, Mounts
    <3>3. batch[0].vault = localKey /\ batch[0].key = localKey /\ batch[0].for \subseteq Registrable
      BY <1>1, <2>1, <3>1, <3>2 DEF RotInv, AskedInv, BatchRecord
    <3>4. publishedKey' = batch[0].vault
           /\ vaultKeyOf' = [d \in Registrable |-> IF d \in batch[0].for THEN batch[0].key ELSE vaultKeyOf[d]]
      BY <2>1, <3>2 DEF MineRotation
    <3>5. QED BY <3>3, <3>4
  <2>2. ASSUME UNCHANGED publishedKey PROVE Announced BY <2>2
  <2>3. QED BY <1>1, <2>1, <2>2
     DEF RotNext, rotVars, rotChainVars, RegisterDevice, PressRevoke, SendCurrentKey, Refetch, AnswerRevoke,
         MineRevoke, PostponeRotation, ConfirmRotation, AnswerRotation, EncryptAndCommitKey, PublishRotated,
         PressReauthorize, AnswerReauthorize, MineReauthorize, AnswerSend, MineSend, RemountTab
<1>2. RotInv /\ [RotNext]_rotVars => [Announced]_rotVars BY <1>1
<1>3. QED BY <1>2, RotInvHolds, PTL DEF RotSpec, AnnouncedOpens

\* The key in use changes only by a rotation that encrypted it to every device.
THEOREM FailedEncryptionKeepsKeyHolds == RotSpec => FailedEncryptionKeepsKey
<1> DEFINE Uploads == localKey' # localKey => \E r \in rotations' : r.stage = "publish" /\ r.key = localKey'
<1>1. ASSUME RotInv, [RotNext]_rotVars PROVE Uploads
  <2>1. ASSUME NEW r \in rotations, EncryptAndCommitKey(r), localKey' # localKey PROVE Uploads
    <3> DEFINE s == [r EXCEPT !.stage = "publish"]
    <3>1. r \in RotationRecord BY <1>1, <2>1 DEF RotInv, RunningInv
    <3>2. s.key = r.key /\ s.stage = "publish" BY <3>1, Published
    <3>3. s \in rotations' /\ localKey' = r.key BY <2>1 DEF EncryptAndCommitKey
    <3> HIDE DEF s
    <3>4. QED BY <3>2, <3>3
  <2>2. ASSUME UNCHANGED localKey PROVE Uploads BY <2>2
  <2>3. QED BY <1>1, <2>1, <2>2
     DEF RotNext, rotVars, rotKeyVars, RegisterDevice, PressRevoke, SendCurrentKey, Refetch, AnswerRevoke,
         MineRevoke, PostponeRotation, ConfirmRotation, AnswerRotation, MineRotation, PublishRotated,
         PressReauthorize, AnswerReauthorize, MineReauthorize, AnswerSend, MineSend, RemountTab
<1>2. RotInv /\ [RotNext]_rotVars => [Uploads]_rotVars BY <1>1
<1>3. QED BY <1>2, RotInvHolds, PTL DEF RotSpec, FailedEncryptionKeepsKey

\* For any devices and keys: a rotation whose steps fail one by one keeps its list,
\* gives a revoked device nothing, announces a vault its key opens, and changes the
\* key only when all were encrypted to (ManageDevices.tsx).
THEOREM RotationCorrectHolds == RotSpec => RotationCorrect
BY RotationListHolds, RevokedGetsNoNewKeyHolds, AnnouncedOpensHolds, FailedEncryptionKeepsKeyHolds, PTL
DEF RotationCorrect


-----------------------------------------------------------------------------
(*****************************************************************************)
(* DevicePairing.  The secret of the form, the commitment on its way and the *)
(* one on chain are three copies of one attempt; the invariant says which of *)
(* them belong together at every step.                                       *)
(*****************************************************************************)

CommitRecord == [device : PairDevices \cup {"none"}, age : 0..2]

PairFormInv ==
    /\ card \in {"phone", "desktop"} /\ phase \in {"idle", "committing", "registering"}
    /\ addressInput \in PairDevices \cup {"none"} /\ salt \in 0..MaxAttempts
    /\ registered \subseteq PairDevices /\ commits \in [1..MaxAttempts -> CommitRecord]

\* A commitment that is out is the last attempt's, and the form that waits for it
\* still shows its device.
CommitInv ==
    /\ commitHook \in HookState /\ commitArgs \in Reveal \cup {NoReveal}
    /\ Busy(commitHook) => commitArgs \in Reveal /\ commitArgs.salt = salt /\ commitArgs.device \in wantedDevices
    /\ Busy(commitHook) /\ phase = "committing" => commitArgs = [device |-> addressInput, salt |-> salt]

\* The timer reveals the last commitment, which is on chain.
TimerInv ==
    /\ timer \in Reveal \cup {NoReveal}
    /\ timer # NoReveal =>
          /\ IsSuccess(commitHook) /\ timer = commitArgs /\ timer.salt = salt
          /\ timer.device \in wantedDevices
          /\ commits[salt] \in {[device |-> timer.device, age |-> 1], [device |-> timer.device, age |-> 2]}

\* A reveal that is out is of an attempt before the commitment that is.
RevealInv ==
    /\ revealHook \in HookState /\ revealArgs \in Reveal \cup {NoReveal}
    /\ revealArgs.salt \in 0..salt
    /\ Busy(commitHook) \/ timer # NoReveal => revealArgs.salt # salt
    /\ Busy(revealHook) => revealArgs \in Reveal /\ (Opens(revealArgs) \/ revealArgs.device \in registered)

PairInv == PairFormInv /\ CommitInv /\ TimerInv /\ RevealInv
-----------------------------------------------------------------------------
\* Which states of a hook are waited for, and the two hashes' parts.
LEMMA PairHookFacts ==
    /\ Busy("pending") /\ Busy("confirming")
    /\ ~Busy("idle") /\ ~Busy("error") /\ ~Busy("success") /\ ~Busy("reverted")
    /\ {"idle", "pending", "error", "confirming", "success", "reverted"} = HookState
    /\ WalletAnswers = {"error", "confirming"}
    /\ \A h : IsSuccess(h) => ~Busy(h)
    /\ \A h : IsSuccess(h) <=> h = "success"
    /\ \A h : IsPending(h) <=> h = "pending"
    /\ \A h : IsConfirming(h) <=> h = "confirming"
BY DEF Busy, HookState, WalletAnswers, IsSuccess, IsPending, IsConfirming

LEMMA RevealFacts ==
    /\ NoReveal \notin Reveal /\ NoReveal.salt = 0
    /\ \A r \in Reveal : r.device \in PairDevices /\ r.salt \in 1..MaxAttempts /\ r # NoReveal
    /\ \A d \in PairDevices, s \in 1..MaxAttempts :
          LET r == [device |-> d, salt |-> s] IN r \in Reveal /\ r.device = d /\ r.salt = s
BY PairingAssumption DEF Reveal, NoReveal

LEMMA CommitFacts ==
    /\ \A d \in PairDevices, a \in 0..2 :
          LET c == [device |-> d, age |-> a] IN c \in CommitRecord /\ c.device = d /\ c.age = a
    /\ NoCommit \in CommitRecord /\ NoCommit.age = 0
    /\ \A c \in CommitRecord : [c EXCEPT !.age = 2] = [device |-> c.device, age |-> 2]
                               /\ [c EXCEPT !.age = 2] \in CommitRecord
BY DEF CommitRecord, NoCommit

\* The invariant holds at the start, and one lemma per step shows that it stays.
LEMMA PairInitInv == ASSUME PairInit PROVE PairInv
<1> USE PairingAssumption, PairHookFacts, RevealFacts, CommitFacts DEF PairInit
<1>1. PairFormInv BY DEF PairFormInv, PairDevices
<1>2. CommitInv BY DEF CommitInv
<1>3. TimerInv BY DEF TimerInv
<1>4. RevealInv BY DEF RevealInv
<1>5. QED BY <1>1, <1>2, <1>3, <1>4 DEF PairInv

-----------------------------------------------------------------------------
LEMMA FormStep ==
    ASSUME PairInv, OpenCard \/ ClosePairing \/ \E a \in Phones : PasteAddress(a) PROVE PairInv'
<1> USE DEF OpenCard, ClosePairing, PasteAddress, ClosedForm
<1>1. UNCHANGED <<card, salt, hookVars, pairChainVars, wantedDevices>> BY DEF pairGhosts
<1>2. PairFormInv' BY <1>1 DEF PairInv, PairFormInv, pairChainVars, PairDevices
<1>3. CommitInv'
  <2>1. phase' = "idle" \/ (phase' = phase /\ addressInput' = addressInput) OBVIOUS
  <2>2. QED BY <1>1, <2>1 DEF PairInv, CommitInv, hookVars
<1>4. TimerInv' BY <1>1 DEF PairInv, TimerInv, hookVars, pairChainVars
<1>5. RevealInv' BY <1>1 DEF PairInv, RevealInv, Opens, hookVars, pairChainVars
<1>6. QED BY <1>2, <1>3, <1>4, <1>5 DEF PairInv

LEMMA PressRegisterInv == ASSUME PairInv, PressRegister PROVE PairInv'
<1> USE DEF PressRegister, DrawSalt
<1> DEFINE r == [device |-> addressInput, salt |-> salt']
<1>1. salt' = salt + 1 /\ salt \in 0..MaxAttempts /\ salt' \in 1..MaxAttempts /\ salt' # salt
  BY PairingAssumption DEF PairInv, PairFormInv
<1>2. addressInput \in PairDevices BY DEF PairInv, PairFormInv
<1>3. r \in Reveal /\ r.device = addressInput /\ r.salt = salt' BY <1>1, <1>2, RevealFacts
<1>4. commitArgs' = r /\ addressInput' = addressInput BY DEF pairFormVars
<1>5. commitArgs' = [device |-> addressInput', salt |-> salt'] BY <1>4
<1> HIDE DEF r
<1>6. PairFormInv' BY <1>1 DEF PairInv, PairFormInv, pairFormVars, pairChainVars
<1>7. CommitInv' BY <1>3, <1>4, <1>5, PairHookFacts DEF CommitInv
<1>8. timer' = NoReveal BY DEF PairInv, TimerInv
<1>9. TimerInv' BY <1>8 DEF TimerInv
<1>10. RevealInv'
  <2>1. revealArgs' = revealArgs /\ commits' = commits /\ registered' = registered BY DEF pairChainVars
  <2>2. Busy(revealHook') => Busy(revealHook) BY PairHookFacts
  <2>3. revealHook' \in HookState BY PairHookFacts DEF PairInv, RevealInv
  <2>4. revealArgs.salt \in 0..salt' /\ revealArgs.salt # salt' BY <1>1 DEF PairInv, RevealInv
  <2>5. QED BY <2>1, <2>2, <2>3, <2>4 DEF PairInv, RevealInv, Opens
<1>11. QED BY <1>6, <1>7, <1>9, <1>10 DEF PairInv

LEMMA AnswerCommitInv == ASSUME PairInv, AnswerCommit PROVE PairInv'
<1> USE DEF AnswerCommit
<1>1. Busy(commitHook) /\ timer = NoReveal BY PairHookFacts DEF PairInv, TimerInv
<1>2. PairFormInv' BY DEF PairInv, PairFormInv, pairFormVars, pairChainVars
<1>3. CommitInv'
  <2>1. phase' = "committing" => phase = "committing" OBVIOUS
  <2>2. QED BY <1>1, <2>1, PairHookFacts DEF PairInv, CommitInv, pairFormVars, pairGhosts
<1>4. TimerInv' BY <1>1 DEF PairInv, TimerInv
<1>5. RevealInv' BY <1>1 DEF PairInv, RevealInv, Opens, pairChainVars
<1>6. QED BY <1>2, <1>3, <1>4, <1>5 DEF PairInv

LEMMA MineCommitInv == ASSUME PairInv, MineCommit PROVE PairInv'
<1> USE DEF MineCommit
<1>1. Busy(commitHook) /\ timer = NoReveal BY PairHookFacts DEF PairInv, TimerInv
<1>2. /\ commitArgs \in Reveal /\ commitArgs.salt = salt /\ commitArgs.device \in wantedDevices
      /\ commitArgs.device \in PairDevices /\ salt \in 1..MaxAttempts
  BY <1>1, RevealFacts DEF PairInv, CommitInv
<1> DEFINE c == [device |-> commitArgs.device, age |-> 1]
<1>3. c \in CommitRecord /\ c.device = commitArgs.device BY <1>2 DEF CommitRecord
<1>4. commits' = commits \/ commits' = [commits EXCEPT ![salt] = c] BY <1>2
<1>5. IsSuccess(commitHook') => commits' = [commits EXCEPT ![salt] = c] BY <1>2, PairHookFacts
<1>6. PairFormInv'
  <2>1. commits' \in [1..MaxAttempts -> CommitRecord] BY <1>3, <1>4 DEF PairInv, PairFormInv
  <2>2. QED BY <2>1 DEF PairInv, PairFormInv, pairFormVars
<1>7. commitHook' \in HookState /\ ~Busy(commitHook') BY PairHookFacts
<1>8. CommitInv' BY <1>7 DEF PairInv, CommitInv
<1>9. TimerInv'
  <2>1. CASE ~Prepare BY <1>1, <2>1 DEF TimerInv
  <2>2. CASE Prepare
    <3>1. commitArgs = [device |-> addressInput, salt |-> salt] BY <1>1, <2>2 DEF PairInv, CommitInv, Prepare
    <3>2. timer' = commitArgs BY <2>2, <3>1
    <3>3. commits'[salt] = c BY <1>3, <1>5, <1>2, <2>2 DEF Prepare, PairInv, PairFormInv
    <3>4. QED BY <1>2, <2>2, <3>2, <3>3 DEF Prepare, TimerInv, pairGhosts
  <2>3. QED BY <2>1, <2>2
<1>10. RevealInv'
  <2>1. revealArgs.salt # salt BY <1>1 DEF PairInv, RevealInv
  <2>2. commits \in [1..MaxAttempts -> CommitRecord] BY DEF PairInv, PairFormInv
  <2>3. \A r \in Reveal : r.salt # salt => commits'[r.salt] = commits[r.salt]
    BY <1>4, <2>2, RevealFacts
  <2>4. Busy(revealHook) => Opens(revealArgs)' \/ revealArgs.device \in registered
    BY <2>1, <2>3 DEF PairInv, RevealInv, Opens
  <2>5. QED BY <1>7, <2>1, <2>4 DEF PairInv, RevealInv
<1>11. QED BY <1>6, <1>8, <1>9, <1>10 DEF PairInv

LEMMA NextBlockInv == ASSUME PairInv, NextBlockIsMined PROVE PairInv'
<1> USE DEF NextBlockIsMined
<1>1. commits \in [1..MaxAttempts -> CommitRecord] BY DEF PairInv, PairFormInv
<1>2. ASSUME NEW s \in 1..MaxAttempts
      PROVE  /\ commits'[s] \in CommitRecord
             /\ commits'[s] = commits[s] \/ commits'[s] = [device |-> commits[s].device, age |-> 2]
             /\ commits[s].age # 1 => commits'[s] = commits[s]
  BY <1>1, CommitFacts
<1>3. PairFormInv'
  <2>1. commits' \in [1..MaxAttempts -> CommitRecord] BY <1>2
  <2>2. QED BY <2>1 DEF PairInv, PairFormInv, pairFormVars
<1>4. CommitInv' BY DEF PairInv, CommitInv, hookVars, pairFormVars, pairGhosts
<1>5. TimerInv'
  <2>1. CASE timer = NoReveal BY <2>1 DEF TimerInv, PairInv, hookVars
  <2>2. CASE timer # NoReveal
    <3>1. salt \in 1..MaxAttempts /\ timer.device \in PairDevices BY <2>2, RevealFacts DEF PairInv, TimerInv
    <3>2. commits[salt].device = timer.device BY <2>2, <3>1, CommitFacts DEF PairInv, TimerInv
    <3>3. commits'[salt] \in {[device |-> timer.device, age |-> 1], [device |-> timer.device, age |-> 2]}
      BY <1>2, <2>2, <3>1, <3>2 DEF PairInv, TimerInv
    <3>4. QED BY <2>2, <3>3 DEF PairInv, TimerInv, hookVars, pairGhosts
  <2>3. QED BY <2>1, <2>2
<1>6. RevealInv'
  <2>1. \A r \in Reveal : Opens(r) => Opens(r)'
    <3>1. TAKE r \in Reveal
    <3>2. HAVE Opens(r)
    <3>3. commits[r.salt].age = 2 BY <3>2, RevealFacts, CommitFacts DEF Opens
    <3>4. QED BY <1>2, <3>2, <3>3, RevealFacts DEF Opens
  <2>2. QED BY <2>1 DEF PairInv, RevealInv, hookVars
<1>7. QED BY <1>3, <1>4, <1>5, <1>6 DEF PairInv

LEMMA TimerFiresInv == ASSUME PairInv, TimerFiresReveal PROVE PairInv'
<1> USE DEF TimerFiresReveal
<1>1. /\ timer \in Reveal /\ timer.salt = salt /\ salt \in 1..MaxAttempts /\ timer.device \in PairDevices
      /\ ~Busy(commitHook)
  BY RevealFacts, PairHookFacts DEF PairInv, TimerInv
<1>2. commits[salt] = [device |-> timer.device, age |-> 2]
  <2>1. commits[salt].age # 1 BY <1>1 DEF AfterABlock
  <2>2. QED BY <1>1, <2>1, CommitFacts DEF PairInv, TimerInv
<1>3. PairFormInv' BY DEF PairInv, PairFormInv, pairFormVars, pairChainVars
<1>4. CommitInv' BY DEF PairInv, CommitInv, pairFormVars, pairGhosts
<1>5. TimerInv' BY DEF TimerInv
<1>6. RevealInv'
  <2>1. Opens(revealArgs)' BY <1>1, <1>2 DEF Opens, pairChainVars
  <2>2. revealArgs'.salt \in 0..salt BY <1>1, PairingAssumption
  <2>3. QED BY <1>1, <2>1, <2>2, PairHookFacts DEF RevealInv
<1>7. QED BY <1>3, <1>4, <1>5, <1>6 DEF PairInv

LEMMA AnswerRevealInv == ASSUME PairInv, AnswerReveal PROVE PairInv'
<1> USE DEF AnswerReveal
<1>1. Busy(revealHook) BY PairHookFacts
<1>2. PairFormInv' BY DEF PairInv, PairFormInv, pairFormVars, pairChainVars
<1>3. CommitInv'
  <2>1. phase' = "committing" => phase = "committing" OBVIOUS
  <2>2. QED BY <2>1 DEF PairInv, CommitInv, pairFormVars, pairGhosts
<1>4. TimerInv' BY DEF PairInv, TimerInv, pairChainVars, pairGhosts
<1>5. RevealInv' BY <1>1, PairHookFacts DEF PairInv, RevealInv, Opens, pairChainVars
<1>6. QED BY <1>2, <1>3, <1>4, <1>5 DEF PairInv

LEMMA MineRevealInv == ASSUME PairInv, MineReveal PROVE PairInv'
<1> USE DEF MineReveal
<1>1. revealArgs \in Reveal /\ revealArgs.salt \in 1..MaxAttempts /\ revealArgs.device \in PairDevices
  BY PairHookFacts, RevealFacts DEF PairInv, RevealInv
<1>2. commits' = commits \/ commits' = [commits EXCEPT ![revealArgs.salt] = NoCommit] BY DEF pairChainVars
<1>3. PairFormInv'
  <2>1. commits' \in [1..MaxAttempts -> CommitRecord] BY <1>2, CommitFacts DEF PairInv, PairFormInv
  <2>2. registered' \subseteq PairDevices BY <1>1 DEF PairInv, PairFormInv, pairChainVars
  <2>3. phase' \in {"idle", "committing", "registering"} /\ addressInput' \in PairDevices \cup {"none"}
    BY DEF PairInv, PairFormInv, pairFormVars, ClosedForm
  <2>4. QED BY <2>1, <2>2, <2>3 DEF PairInv, PairFormInv
<1>4. CommitInv'
  <2>1. phase' = "idle" \/ (phase' = phase /\ addressInput' = addressInput) BY DEF pairFormVars, ClosedForm
  <2>2. QED BY <2>1 DEF PairInv, CommitInv, pairGhosts
<1>5. TimerInv'
  <2>1. CASE timer = NoReveal BY <2>1 DEF TimerInv
  <2>2. CASE timer # NoReveal
    <3>1. salt # revealArgs.salt /\ salt \in 1..MaxAttempts BY <2>2, RevealFacts DEF PairInv, RevealInv, TimerInv
    <3>2. commits'[salt] = commits[salt] BY <1>2, <3>1 DEF PairInv, PairFormInv
    <3>3. QED BY <2>2, <3>2 DEF PairInv, TimerInv, pairGhosts
  <2>3. QED BY <2>1, <2>2
<1>6. RevealInv' BY PairHookFacts DEF PairInv, RevealInv
<1>7. QED BY <1>3, <1>4, <1>5, <1>6 DEF PairInv

LEMMA RemountCardsInv == ASSUME PairInv, RemountCards PROVE PairInv'
<1> USE DEF RemountCards
<1>1. PairFormInv' BY DEF PairInv, PairFormInv, pairChainVars, PairDevices
<1>2. CommitInv' BY PairHookFacts DEF PairInv, CommitInv
<1>3. TimerInv' BY DEF TimerInv
<1>4. RevealInv' BY PairHookFacts DEF PairInv, RevealInv
<1>5. QED BY <1>1, <1>2, <1>3, <1>4 DEF PairInv

\* Every step is one of these.
LEMMA PairStep == ASSUME PairInv, [PairNext]_pairVars PROVE PairInv'
<1>1. CASE UNCHANGED pairVars
  <2>1. UNCHANGED <<card, pairFormVars, phase, salt, hookVars, pairChainVars, pairGhosts>> BY <1>1 DEF pairVars
  <2>2. PairFormInv' BY <2>1 DEF PairInv, PairFormInv, pairFormVars, pairChainVars
  <2>3. CommitInv' BY <2>1 DEF PairInv, CommitInv, pairFormVars, hookVars, pairGhosts
  <2>4. TimerInv' BY <2>1 DEF PairInv, TimerInv, hookVars, pairChainVars, pairGhosts
  <2>5. RevealInv' BY <2>1 DEF PairInv, RevealInv, Opens, hookVars, pairChainVars
  <2>6. QED BY <2>2, <2>3, <2>4, <2>5 DEF PairInv
<1>2. CASE PairNext
  BY <1>2, FormStep, PressRegisterInv, AnswerCommitInv, MineCommitInv, NextBlockInv, TimerFiresInv,
     AnswerRevealInv, MineRevealInv, RemountCardsInv DEF PairNext
<1>3. QED BY <1>1, <1>2

\* For any phones and attempts: a reveal opens the last commitment, in a later
\* block, whatever was typed or pressed meanwhile (PairDevice.tsx,
\* DesktopDevice.tsx).
THEOREM PairCorrectHolds == PairSpec => []PairCorrect
<1>1. PairInv => PairTypeOK BY DEF PairInv, PairFormInv, CommitInv, TimerInv, RevealInv, PairTypeOK
<1>2. PairInv => RevealOpensCommit BY DEF PairInv, RevealInv, RevealOpensCommit
<1>3. PairInv => RevealsTheLastCommit BY DEF PairInv, TimerInv, RevealsTheLastCommit
<1>4. PairInv => PairCorrect BY <1>1, <1>2, <1>3 DEF PairCorrect
<1>5. QED BY <1>4, PairInitInv, PairStep, PTL DEF PairSpec

-----------------------------------------------------------------------------
(*****************************************************************************)
(* HardwareWallet.  A call that was given up is late, and at most one call   *)
(* is not.  What the screen waits for is that one.                           *)
(*****************************************************************************)

SeekerRecord == [open : BOOLEAN, phase : {"detecting", "account-select"}, selected : Index, busy : BOOLEAN,
                 connecting : BOOLEAN, listed : SUBSET Index, next : Index, loading : BOOLEAN]

ConnectorRecord == [address : Index \cup {NoAddress}, index : Index]

\* What the screen shows while it waits for a call.
Awaits(s, c) ==
    /\ c.for = "detect" => s.phase = "detecting"
    /\ c.for = "list" => s.loading /\ c.account = s.next
    /\ c.for = "connect" => s.connecting /\ c.account = connector.index

DeviceInv ==
    /\ usable \in BOOLEAN /\ mounts \in 0..MaxScreens
    /\ connector \in ConnectorRecord

SeekerInv ==
    /\ seeker \in SeekerRecord
    /\ seeker.connecting => seeker.phase = "account-select" /\ ~seeker.loading
    /\ seeker.loading => seeker.phase = "account-select" /\ seeker.listed = 0..(seeker.next - 1)
    /\ seeker.open => connector.address = NoAddress

CallsInv ==
    /\ calls \subseteq Call
    /\ \A c, d \in calls : ~c.late /\ ~d.late => c = d
    /\ \A c \in calls : ~c.late => seeker.open /\ seeker.busy /\ Awaits(seeker, c)
    /\ seeker.open /\ seeker.busy => \E c \in calls : ~c.late

HwInv == DeviceInv /\ SeekerInv /\ CallsInv
-----------------------------------------------------------------------------
\* The records of the screen and of a call, field by field.
LEMMA ScreenFacts ==
    /\ Fresh \in SeekerRecord /\ Fresh.open /\ ~Fresh.busy /\ ~Fresh.connecting /\ ~Fresh.loading
    /\ Closed \in SeekerRecord /\ ~Closed.open /\ ~Closed.connecting /\ ~Closed.loading
<1>1. 0 \in Index BY HardwareAssumption DEF Index
<1>2. QED BY <1>1 DEF Fresh, Closed, SeekerRecord

LEMMA CallFacts ==
    ASSUME NEW c \in Call
    PROVE  /\ c.for \in {"detect", "list", "connect"} /\ c.account \in Index /\ c.late \in BOOLEAN
           /\ LET d == [c EXCEPT !.late = TRUE] IN d \in Call /\ d.late /\ d.for = c.for /\ d.account = c.account
BY DEF Call

LEMMA SeekerFields ==
    ASSUME NEW s \in SeekerRecord
    PROVE  /\ s.next \in Index /\ s.selected \in Index /\ s.listed \subseteq Index
           /\ s.busy \in BOOLEAN /\ s.loading \in BOOLEAN /\ s.connecting \in BOOLEAN /\ s.open \in BOOLEAN
BY DEF SeekerRecord

LEMMA BusyFacts ==
    ASSUME NEW s \in SeekerRecord
    PROVE  LET t == [s EXCEPT !.busy = TRUE]
           IN  /\ t \in SeekerRecord /\ t.busy /\ t.open = s.open /\ t.phase = s.phase /\ t.selected = s.selected
               /\ t.connecting = s.connecting /\ t.listed = s.listed /\ t.next = s.next /\ t.loading = s.loading
BY DEF SeekerRecord

\* What the screen is after it gave up on a call, and the call after that.
LEMMA GivesUpFacts ==
    ASSUME seeker \in SeekerRecord, NEW c
    PROVE  /\ GivesUp(c) \in SeekerRecord /\ ~GivesUp(c).busy
           /\ GivesUp(c).open = seeker.open /\ GivesUp(c).phase = seeker.phase
           /\ GivesUp(c).next = seeker.next /\ GivesUp(c).listed = seeker.listed
           /\ GivesUp(c).connecting => seeker.connecting
           /\ GivesUp(c).loading => seeker.loading
<1>1. CASE c.for = "detect" BY <1>1 DEF GivesUp, SeekerRecord
<1>2. CASE c.for = "list" BY <1>2 DEF GivesUp, SeekerRecord
<1>3. CASE c.for \notin {"detect", "list"} BY <1>3 DEF GivesUp, SeekerRecord
<1>4. QED BY <1>1, <1>2, <1>3

LEMMA LateFacts ==
    ASSUME calls \subseteq Call, NEW C \in SUBSET calls
    PROVE  \A d \in {[c EXCEPT !.late = TRUE] : c \in C} : d \in Call /\ d.late
<1>1. \A c \in C : LET d == [c EXCEPT !.late = TRUE] IN d \in Call /\ d.late BY DEF Call
<1>2. QED BY <1>1

\* The invariant holds at the start.
LEMMA HwInitInv == ASSUME HardwareInit PROVE HwInv
<1> USE HardwareAssumption, ScreenFacts DEF HardwareInit
<1>1. DeviceInv BY DEF DeviceInv, ConnectorRecord, Index
<1>2. SeekerInv BY DEF SeekerInv
<1>3. CallsInv BY DEF CallsInv
<1>4. QED BY <1>1, <1>2, <1>3 DEF HwInv

-----------------------------------------------------------------------------
(* What the user does.                                                       *)
\* One lemma per step that starts no call.
LEMMA HandleInv == ASSUME HwInv, Handle PROVE HwInv'
<1>1. usable' \in BOOLEAN BY DEF Handle
<1>2. QED BY <1>1 DEF Handle, HwInv, DeviceInv, SeekerInv, CallsInv, Awaits

LEMMA OpenSeekerInv == ASSUME HwInv, OpenSeeker PROVE HwInv'
<1> USE DEF OpenSeeker
<1>1. DeviceInv' BY HardwareAssumption DEF HwInv, DeviceInv
<1>2. SeekerInv' BY ScreenFacts DEF SeekerInv
<1>3. \A c \in calls : c.late BY DEF HwInv, CallsInv
<1>4. CallsInv' BY <1>3, ScreenFacts DEF HwInv, CallsInv
<1>5. QED BY <1>1, <1>2, <1>4 DEF HwInv

LEMMA SelectInv == ASSUME HwInv, NEW i \in Index, Select(i) PROVE HwInv'
<1> USE DEF Select
<1>1. /\ seeker' \in SeekerRecord /\ seeker'.open = seeker.open /\ seeker'.phase = seeker.phase
      /\ seeker'.busy = seeker.busy /\ seeker'.connecting = seeker.connecting /\ seeker'.listed = seeker.listed
      /\ seeker'.next = seeker.next /\ seeker'.loading = seeker.loading
  BY DEF HwInv, SeekerInv, SeekerRecord
<1>2. DeviceInv' BY DEF HwInv, DeviceInv
<1>3. SeekerInv' BY <1>1 DEF HwInv, SeekerInv
<1>4. CallsInv' BY <1>1 DEF HwInv, CallsInv, Awaits
<1>5. QED BY <1>2, <1>3, <1>4 DEF HwInv

\* Every call a screen starts.
LEMMA AskInv ==
    ASSUME CallsInv, seeker \in SeekerRecord, seeker.open, ~seeker.busy,
           NEW p \in {"detect", "list", "connect"}, NEW i \in Index, Ask(p, i),
           seeker'.open, seeker'.busy,
           p = "detect" => seeker'.phase = "detecting",
           p = "list" => seeker'.loading /\ i = seeker'.next,
           p = "connect" => seeker'.connecting /\ i = connector'.index
    PROVE  CallsInv'
<1> DEFINE new == [for |-> p, account |-> i, late |-> FALSE]
<1>1. new \in Call /\ ~new.late /\ new.for = p /\ new.account = i BY DEF Call
<1>2. calls' = calls \cup {new} BY DEF Ask
<1> HIDE DEF new
<1>3. \A c \in calls : c.late BY DEF CallsInv
<1>4. Awaits(seeker, new)' BY <1>1 DEF Awaits
<1>5. QED BY <1>1, <1>2, <1>3, <1>4 DEF CallsInv

\* The calls to the device,
LEMMA PollInv == ASSUME HwInv, Poll PROVE HwInv'
<1> USE DEF Poll
<1>1. seeker \in SeekerRecord BY DEF HwInv, SeekerInv
<1>2. /\ seeker' \in SeekerRecord /\ seeker'.busy /\ seeker'.open = seeker.open /\ seeker'.phase = seeker.phase
      /\ seeker'.connecting = seeker.connecting /\ seeker'.listed = seeker.listed
      /\ seeker'.next = seeker.next /\ seeker'.loading = seeker.loading
  BY <1>1, BusyFacts
<1>3. 0 \in Index BY HardwareAssumption DEF Index
<1>4. DeviceInv' BY DEF HwInv, DeviceInv
<1>5. SeekerInv' BY <1>2 DEF HwInv, SeekerInv
<1>6. CallsInv' BY <1>1, <1>2, <1>3, AskInv DEF HwInv
<1>7. QED BY <1>4, <1>5, <1>6 DEF HwInv

LEMMA ListNextInv == ASSUME HwInv, ListNext PROVE HwInv'
<1> USE DEF ListNext
<1>1. seeker \in SeekerRecord /\ seeker.next \in Index BY SeekerFields DEF HwInv, SeekerInv
<1>2. /\ seeker' \in SeekerRecord /\ seeker'.busy /\ seeker'.open = seeker.open /\ seeker'.phase = seeker.phase
      /\ seeker'.connecting = seeker.connecting /\ seeker'.listed = seeker.listed
      /\ seeker'.next = seeker.next /\ seeker'.loading = seeker.loading
  BY <1>1, BusyFacts
<1>4. DeviceInv' BY DEF HwInv, DeviceInv
<1>5. SeekerInv' BY <1>2 DEF HwInv, SeekerInv
<1>6. CallsInv' BY <1>1, <1>2, AskInv DEF HwInv
<1>7. QED BY <1>4, <1>5, <1>6 DEF HwInv

LEMMA ConnectInv == ASSUME HwInv, Connect PROVE HwInv'
<1> USE DEF Connect, CanConnect, Choose
<1>1. seeker \in SeekerRecord /\ seeker.selected \in Index BY SeekerFields DEF HwInv, SeekerInv
<1>2. /\ seeker' \in SeekerRecord /\ seeker'.busy /\ seeker'.connecting /\ seeker'.open = seeker.open
      /\ seeker'.phase = seeker.phase /\ seeker'.listed = seeker.listed
      /\ seeker'.next = seeker.next /\ seeker'.loading = seeker.loading
  BY <1>1 DEF SeekerRecord
<1>3. connector' \in ConnectorRecord /\ connector'.index = seeker.selected /\ connector'.address = connector.address
  BY <1>1 DEF HwInv, DeviceInv, ConnectorRecord
<1>4. DeviceInv' BY <1>3 DEF HwInv, DeviceInv
<1>5. SeekerInv' BY <1>2, <1>3 DEF HwInv, SeekerInv
<1>6. CallsInv' BY <1>1, <1>2, <1>3, AskInv DEF HwInv
<1>7. QED BY <1>4, <1>5, <1>6 DEF HwInv

-----------------------------------------------------------------------------
(* What becomes of a call.                                                   *)
LEMMA BackInv == ASSUME HwInv, Back PROVE HwInv'
<1> USE DEF Back
<1>1. DeviceInv' BY DEF HwInv, DeviceInv
<1>2. SeekerInv' BY ScreenFacts DEF SeekerInv
<1>3. \A c \in calls' : c \in Call /\ c.late BY LateFacts DEF HwInv, CallsInv
<1>4. CallsInv' BY <1>3, ScreenFacts DEF CallsInv
<1>5. QED BY <1>1, <1>2, <1>4 DEF HwInv

\* the ones that are given up,
LEMMA GaveUpInv ==
    ASSUME SeekerInv, UNCHANGED connector, NEW c \in calls, seeker' = GivesUp(c) PROVE SeekerInv'
<1>1. seeker \in SeekerRecord BY DEF SeekerInv
<1>2. QED BY <1>1, GivesUpFacts DEF SeekerInv

LEMMA ExpireInv == ASSUME HwInv, NEW c \in calls, Expire(c) PROVE HwInv'
<1> USE DEF Expire
<1> DEFINE d == [c EXCEPT !.late = TRUE]
<1>1. d \in Call /\ d.late BY CallFacts DEF HwInv, CallsInv
<1>2. calls' = (calls \ {c}) \cup {d} OBVIOUS
<1> HIDE DEF d
<1>3. DeviceInv' BY DEF HwInv, DeviceInv
<1>4. SeekerInv' BY GaveUpInv DEF HwInv
<1>5. \A e \in calls' : e.late BY <1>1, <1>2 DEF HwInv, CallsInv
<1>6. ~seeker'.busy BY GivesUpFacts DEF HwInv, SeekerInv
<1>7. CallsInv' BY <1>1, <1>2, <1>5, <1>6 DEF HwInv, CallsInv
<1>8. QED BY <1>3, <1>4, <1>7 DEF HwInv

\* A call that is answered: a late one changes nothing on screen, and the one that
\* was waited for frees the screen.
LEMMA AnsweredInv ==
    ASSUME HwInv, NEW c \in calls, calls' = calls \ {c}, UNCHANGED <<usable, mounts, connector>>,
           c.late => seeker' = seeker, ~c.late => SeekerInv' /\ ~seeker'.busy
    PROVE  HwInv'
<1>1. DeviceInv' BY DEF HwInv, DeviceInv
<1>2. SeekerInv' BY DEF HwInv, SeekerInv
<1>3. CallsInv'
  <2>1. CASE c.late BY <2>1 DEF HwInv, CallsInv, Awaits
  <2>2. CASE ~c.late
    <3>1. \A e \in calls' : e.late BY <2>2 DEF HwInv, CallsInv
    <3>2. QED BY <2>2, <3>1 DEF HwInv, CallsInv
  <2>3. QED BY <2>1, <2>2
<1>4. QED BY <1>1, <1>2, <1>3 DEF HwInv

\* and the four answers.
LEMMA RefusedInv == ASSUME HwInv, NEW c \in calls, Refused(c) PROVE HwInv'
<1> USE DEF Refused
<1>1. ~c.late => SeekerInv' BY GaveUpInv DEF HwInv
<1>2. ~c.late => ~seeker'.busy BY GivesUpFacts DEF HwInv, SeekerInv
<1>3. QED BY <1>1, <1>2, AnsweredInv

LEMMA FoundInv == ASSUME HwInv, NEW c \in calls, Found(c) PROVE HwInv'
<1> USE DEF Found
<1>1. ASSUME ~c.late PROVE SeekerInv' /\ ~seeker'.busy
  <2>1. 0 \in Index BY HardwareAssumption DEF Index
  <2>2. /\ seeker' \in SeekerRecord /\ ~seeker'.busy /\ seeker'.open = seeker.open
        /\ seeker'.phase = "account-select" /\ seeker'.connecting = seeker.connecting
        /\ seeker'.listed = {} /\ seeker'.next = 0 /\ seeker'.loading
    BY <1>1, <2>1 DEF HwInv, SeekerInv, SeekerRecord
  <2>3. ~seeker.connecting BY <1>1 DEF HwInv, SeekerInv, CallsInv, Awaits
  <2>4. 0..(0 - 1) = {} OBVIOUS
  <2>5. QED BY <2>2, <2>3, <2>4 DEF HwInv, SeekerInv
<1>2. QED BY <1>1, AnsweredInv

LEMMA ListedInv == ASSUME HwInv, NEW c \in calls, Listed(c) PROVE HwInv'
<1> USE DEF Listed
<1>1. ASSUME ~c.late PROVE SeekerInv' /\ ~seeker'.busy
  <2>1. /\ c.account = seeker.next /\ seeker.loading /\ seeker.next \in Index /\ seeker.listed \subseteq Index
        /\ seeker \in SeekerRecord
    BY <1>1, SeekerFields DEF HwInv, SeekerInv, CallsInv, Awaits
  <2> DEFINE more == c.account + 1 \in Index
             n == IF more THEN c.account + 1 ELSE c.account
             l == seeker.listed \cup {c.account}
  <2>2. more \in BOOLEAN /\ n \in Index /\ l \in SUBSET Index BY <2>1
  <2>3. seeker' = [seeker EXCEPT !.busy = FALSE, !.listed = l, !.next = n, !.loading = more] BY <1>1
  <2>4. more => n = c.account + 1 OBVIOUS
  <2>5. l = seeker.listed \cup {c.account} OBVIOUS
  <2> HIDE DEF more, n, l
  <2>6. /\ seeker' \in SeekerRecord /\ ~seeker'.busy /\ seeker'.open = seeker.open
        /\ seeker'.phase = seeker.phase /\ seeker'.connecting = seeker.connecting
        /\ seeker'.listed = l /\ seeker'.next = n /\ seeker'.loading = more
    BY <2>1, <2>2, <2>3 DEF SeekerRecord
  <2>7. c.account \in Nat /\ seeker.listed = 0..(c.account - 1)
    BY <2>1, HardwareAssumption DEF HwInv, SeekerInv, Index
  <2>8. l = 0..c.account BY <2>5, <2>7
  <2>9. more => l = 0..(n - 1) BY <2>4, <2>7, <2>8
  <2>10. QED BY <2>1, <2>6, <2>9 DEF HwInv, SeekerInv
<1>2. QED BY <1>1, AnsweredInv

LEMMA ConnectedInv == ASSUME HwInv, NEW c \in calls, Connected(c) PROVE HwInv'
<1> USE DEF Connected
<1>1. c.account \in Index BY CallFacts DEF HwInv, CallsInv
<1>2. connector' \in ConnectorRecord BY <1>1 DEF HwInv, DeviceInv, ConnectorRecord
<1>3. DeviceInv' BY <1>2 DEF HwInv, DeviceInv
<1>4. SeekerInv' BY ScreenFacts DEF SeekerInv
<1>5. \A e \in calls' : e \in Call /\ e.late
  <2>1. calls \ {c} \in SUBSET calls /\ calls \subseteq Call BY DEF HwInv, CallsInv
  <2>2. QED BY <2>1, LateFacts
<1>6. CallsInv' BY <1>5, ScreenFacts DEF CallsInv
<1>7. QED BY <1>3, <1>4, <1>6 DEF HwInv

\* The wallet lets the account go.
LEMMA DisconnectInv == ASSUME HwInv, Disconnect PROVE HwInv'
<1> USE DEF Disconnect
<1>1. connector' \in ConnectorRecord /\ connector'.address = NoAddress
  BY HardwareAssumption DEF ConnectorRecord, Index
<1>2. DeviceInv' BY <1>1 DEF HwInv, DeviceInv
<1>3. SeekerInv' BY <1>1 DEF HwInv, SeekerInv
<1>4. ~seeker.open BY DEF HwInv, SeekerInv
<1>5. CallsInv' BY <1>4 DEF HwInv, CallsInv
<1>6. QED BY <1>2, <1>3, <1>5 DEF HwInv

\* Every step is one of these.
LEMMA HwStep == ASSUME HwInv, [HardwareNext]_hwVars PROVE HwInv'
<1>1. CASE UNCHANGED hwVars BY <1>1 DEF hwVars, HwInv, DeviceInv, SeekerInv, CallsInv, Awaits
<1>2. CASE HardwareNext
  BY <1>2, HandleInv, OpenSeekerInv, PollInv, ListNextInv, ConnectInv, BackInv, DisconnectInv, SelectInv,
     ExpireInv, RefusedInv, FoundInv, ListedInv, ConnectedInv DEF HardwareNext
<1>3. QED BY <1>1, <1>2

\* The invariant of every behaviour.
LEMMA HwInvHolds == HardwareSpec => []HwInv
BY HwInitInv, HwStep, PTL DEF HardwareSpec

-----------------------------------------------------------------------------
\* For any number of accounts and screens: one call is waited for at a time, and
\* the list is read while the device is free (ConnectLedger.tsx).
THEOREM HardwareScreenHolds == HardwareSpec => [](HardwareTypeOK /\ OneCallAtATime /\ ListFindsItFree)
<1>1. HwInv => HardwareTypeOK
  BY SeekerFields DEF HwInv, DeviceInv, SeekerInv, CallsInv, ConnectorRecord, HardwareTypeOK
<1>2. ASSUME HwInv PROVE OneCallAtATime
  <2>1. \A c, d \in Waited : c = d BY <1>2 DEF HwInv, CallsInv, Waited
  <2>2. Cardinality(Waited) <= 1
    <3>1. CASE Waited = {} BY <3>1, FS_EmptySet
    <3>2. ASSUME NEW c \in Waited PROVE Cardinality(Waited) <= 1
      <4>1. Waited = {c} BY <2>1
      <4>2. Cardinality({c}) = 1 BY FS_Singleton
      <4>3. QED BY <4>1, <4>2
    <3>3. QED BY <3>1, <3>2
  <2>3. seeker.busy \in BOOLEAN BY <1>2, SeekerFields DEF HwInv, SeekerInv
  <2>4. seeker.open => (seeker.busy <=> Waited # {}) BY <1>2, <2>3 DEF HwInv, CallsInv, Waited
  <2>5. QED BY <2>2, <2>4 DEF OneCallAtATime
<1>3. ASSUME HwInv PROVE ListFindsItFree
  <2>1. \A c \in Waited : c \in Call /\ Awaits(seeker, c) BY <1>3 DEF HwInv, CallsInv, Waited
  <2>2. seeker.loading => \A c \in Waited : c.for = "list"
    BY <1>3, <2>1, CallFacts DEF HwInv, SeekerInv, Awaits
  <2>3. QED BY <1>3, <2>2 DEF HwInv, SeekerInv, ListFindsItFree
<1>4. QED BY <1>1, <1>2, <1>3, HwInvHolds, PTL

\* Another account than the one shown signs only after an answer that came late.
THEOREM OnlyLateAnswersMisleadHolds == HardwareSpec => OnlyLateAnswersMislead
<1> DEFINE Late == SignerIsShown /\ ~SignerIsShown' =>
                      \E c \in calls : c.late /\ c.for = "connect" /\ connector'.address = c.account
<1>1. ASSUME HwInv, [HardwareNext]_hwVars PROVE Late
  <2>1. ASSUME UNCHANGED connector PROVE Late BY <2>1 DEF SignerIsShown
  <2>2. CASE Connect
    <3>1. connector.address = NoAddress BY <1>1, <2>2 DEF HwInv, SeekerInv, Connect
    <3>2. connector'.address = connector.address
      BY <1>1, <2>2 DEF Connect, Choose, HwInv, DeviceInv, ConnectorRecord
    <3>3. QED BY <3>1, <3>2 DEF SignerIsShown
  <2>3. CASE Disconnect BY <2>3 DEF Disconnect, SignerIsShown
  <2>4. ASSUME NEW c \in calls, Connected(c) PROVE Late
    <3>1. connector'.address = c.account /\ connector'.index = connector.index /\ c.for = "connect"
      BY <1>1, <2>4 DEF Connected, HwInv, DeviceInv, ConnectorRecord
    <3>2. ~c.late => c.account = connector.index BY <1>1, <3>1 DEF HwInv, CallsInv, Awaits
    <3>3. QED BY <3>1, <3>2 DEF SignerIsShown
  <2>5. QED BY <1>1, <2>1, <2>2, <2>3, <2>4
     DEF HardwareNext, hwVars, Handle, OpenSeeker, Poll, ListNext, Back, Select, Expire, Refused, Found, Listed
<1>2. HwInv /\ [HardwareNext]_hwVars => [Late]_hwVars BY <1>1
<1>3. QED BY <1>2, HwInvHolds, PTL DEF HardwareSpec, OnlyLateAnswersMislead

\* Both together: calls that are given up but go on mislead nobody but by a late
\* answer (ConnectLedger.tsx).
THEOREM HardwareCorrectHolds == HardwareSpec => HardwareCorrect
BY HardwareScreenHolds, OnlyLateAnswersMisleadHolds, PTL DEF HardwareCorrect


-----------------------------------------------------------------------------
(*****************************************************************************)
(* ActivityScan.  Of the scans that were started one at most is not          *)
(* cancelled; it began from the cache as it still is, and what it found      *)
(* continues that cache without a gap.                                       *)
(*****************************************************************************)

List == [Event -> Nat]
CacheRecord == [last : 0..MaxBlock, list : List]
ScanRecord == [stage : {"unused", "head", "chunks", "over"}, id : Identities \cup {"none"}, cancelled : BOOLEAN,
               cached : CacheRecord, next : 0..(MaxBlock + 1), to : 0..MaxBlock, found : List]

\* Nothing of the other identities.
OwnOnly(i, merged) == \A j \in Identities \ {i}, b \in Blocks : merged[<<j, b>>] = 0

CacheFine(i, c) ==
    /\ c \in CacheRecord /\ c.last <= head
    /\ \A b \in Blocks : b <= c.last => c.list[<<i, b>>] > 0
    /\ OwnOnly(i, c.list)

\* What a scan found, with what was cached when it began, has no gap up to where it is.
ChunksFine(s) ==
    /\ s.to \in 1..head /\ s.cached.last <= s.to /\ s.next >= 1
    /\ \A b \in Blocks : b < s.next => s.cached.list[<<s.id, b>>] + s.found[<<s.id, b>>] > 0

ScanFine(s) ==
    /\ s \in ScanRecord
    /\ s.stage # "unused" =>
          /\ s.id \in Identities /\ CacheFine(s.id, s.cached) /\ OwnOnly(s.id, s.found)
          /\ s.stage = "chunks" => ChunksFine(s)

ScansInv ==
    /\ scans \in [1..MaxScans -> ScanRecord] /\ \A k \in 1..MaxScans : ScanFine(scans[k])
    /\ \E n \in 0..MaxScans : Started = 1..n
    /\ \A k, o \in Started : ~scans[k].cancelled /\ ~scans[o].cancelled => k = o

ListInv ==
    /\ head \in Blocks /\ identity \in Identities \cup {"none"} /\ shown \in List
    /\ isScanning \in BOOLEAN /\ error \in BOOLEAN
    /\ cache \in [Identities -> CacheRecord] /\ \A i \in Identities : CacheFine(i, cache[i])

\* The scan that is not cancelled is the mounted identity's, and began from the
\* cache as it is.
LiveInv ==
    \A k \in Started : ~scans[k].cancelled =>
        /\ scans[k].id = identity
        /\ scans[k].stage # "over" => isScanning /\ scans[k].cached = cache[scans[k].id]

SpinnerInv ==
    isScanning /\ identity # "none" => \E k \in Started : ~scans[k].cancelled /\ scans[k].stage # "over"

ScanInv == ScansInv /\ ListInv /\ LiveInv /\ SpinnerInv /\ SettledListIsCached
-----------------------------------------------------------------------------
\* Lists and their merge, the events of some blocks, and what there is before a
\* scan.
LEMMA ListFacts ==
    /\ EmptyList \in List /\ \A e \in Event : EmptyList[e] = 0
    /\ \A a, b \in List : Merge(a, b) \in List /\ \A e \in Event : Merge(a, b)[e] = a[e] + b[e]
BY DEF List, EmptyList, Merge

LEMMA EventFacts ==
    ASSUME NEW i \in Identities, NEW from \in Nat, NEW to \in Nat
    PROVE  /\ EventsOf(i, from, to) \in List
           /\ \A j \in Identities, b \in Blocks :
                 EventsOf(i, from, to)[<<j, b>>] = IF j = i /\ b \in from..to THEN 1 ELSE 0
BY DEF List, EventsOf, Event

LEMMA NoScanFacts ==
    /\ NoCache \in CacheRecord /\ NoCache.last = 0 /\ NoCache.list = EmptyList
    /\ NoScan \in ScanRecord /\ NoScan.stage = "unused"
<1>1. NoCache \in CacheRecord /\ NoCache.last = 0 /\ NoCache.list = EmptyList
  BY ListFacts, ScanAssumption DEF CacheRecord, NoCache
<1>2. QED BY <1>1, ListFacts, ScanAssumption DEF NoScan, ScanRecord

\* An identity that was never scanned has no gap.
LEMMA NoCacheFine == ASSUME head \in Blocks, NEW i \in Identities PROVE CacheFine(i, NoCache)
<1>1. \A j \in Identities, b \in Blocks : <<j, b>> \in Event BY DEF Event
<1>2. QED BY <1>1, NoScanFacts, ListFacts, ScanAssumption DEF CacheFine, OwnOnly, Blocks

\* The invariant holds at the start.
LEMMA ScanInitInv == ASSUME ScanInit PROVE ScanInv
<1> USE ScanAssumption, NoScanFacts, ListFacts DEF ScanInit
<1>1. Started = {} BY DEF Started
<1>2. ScansInv
  <2>1. Started = 1..0 BY <1>1
  <2>2. QED BY <1>1, <2>1 DEF ScansInv, ScanFine
<1>3. ListInv BY NoCacheFine DEF ListInv
<1>4. LiveInv BY <1>1 DEF LiveInv
<1>5. SpinnerInv /\ SettledListIsCached BY DEF SpinnerInv, SettledListIsCached
<1>6. QED BY <1>2, <1>3, <1>4, <1>5 DEF ScanInv

-----------------------------------------------------------------------------
(* The effect.                                                               *)
\* A scan that is cancelled, and one that begins.
LEMMA CancelledFacts ==
    ASSUME NEW s \in ScanRecord
    PROVE  LET t == [s EXCEPT !.cancelled = TRUE]
           IN  /\ t \in ScanRecord /\ t.cancelled /\ t.stage = s.stage /\ t.id = s.id /\ t.cached = s.cached
               /\ t.next = s.next /\ t.to = s.to /\ t.found = s.found
BY DEF ScanRecord

LEMMA CancelledFine ==
    ASSUME NEW s \in ScanRecord, ScanFine(s)
    PROVE  ScanFine([s EXCEPT !.cancelled = TRUE])
<1> DEFINE t == [s EXCEPT !.cancelled = TRUE]
<1>1. /\ t \in ScanRecord /\ t.stage = s.stage /\ t.id = s.id /\ t.cached = s.cached
      /\ t.next = s.next /\ t.to = s.to /\ t.found = s.found
  BY CancelledFacts
<1> HIDE DEF t
<1>2. ScanFine(t) BY <1>1 DEF ScanFine, ChunksFine
<1>3. QED BY <1>2 DEF t

LEMMA FreshFacts ==
    ASSUME NEW i \in Identities, NEW c \in CacheRecord
    PROVE  LET t == [NoScan EXCEPT !.stage = "head", !.id = i, !.cached = c]
           IN  t \in ScanRecord /\ ~t.cancelled /\ t.stage = "head" /\ t.id = i /\ t.cached = c /\ t.found = EmptyList
BY NoScanFacts, ListFacts, ScanAssumption DEF NoScan, ScanRecord

Cancelled == [k \in 1..MaxScans |-> IF k \in Started THEN [scans[k] EXCEPT !.cancelled = TRUE] ELSE scans[k]]

\* The effect first cancels what runs.
LEMMA AllCancelled ==
    ASSUME ScansInv
    PROVE  /\ Cancelled \in [1..MaxScans -> ScanRecord] /\ \A k \in 1..MaxScans : ScanFine(Cancelled[k])
           /\ \A k \in 1..MaxScans : Cancelled[k].stage = scans[k].stage
           /\ \A k \in Started : Cancelled[k].cancelled
<1>1. ASSUME NEW k \in 1..MaxScans
      PROVE  /\ Cancelled[k] \in ScanRecord /\ ScanFine(Cancelled[k]) /\ Cancelled[k].stage = scans[k].stage
             /\ k \in Started => Cancelled[k].cancelled
  <2>1. scans[k] \in ScanRecord /\ ScanFine(scans[k]) BY DEF ScansInv
  <2>2. CASE k \in Started
    <3>1. Cancelled[k] = [scans[k] EXCEPT !.cancelled = TRUE] BY <2>2 DEF Cancelled
    <3>2. QED BY <2>1, <3>1, CancelledFacts, CancelledFine
  <2>3. CASE k \notin Started
    <3>1. Cancelled[k] = scans[k] BY <2>3 DEF Cancelled
    <3>2. QED BY <2>1, <2>3, <3>1
  <2>4. QED BY <2>2, <2>3
<1>2. Cancelled = [k \in 1..MaxScans |-> Cancelled[k]] BY DEF Cancelled
<1>3. Started \subseteq 1..MaxScans BY DEF Started
<1>4. QED BY <1>1, <1>2, <1>3

\* The scans are started one after the other.
LEMMA NextScan ==
    ASSUME ScansInv, Started # 1..MaxScans
    PROVE  LET k == CHOOSE n \in 1..MaxScans \ Started : \A o \in 1..MaxScans \ Started : n <= o
           IN  k \in 1..MaxScans /\ Started = 1..(k - 1)
<1>1. PICK n \in 0..MaxScans : Started = 1..n BY DEF ScansInv
<1>2. n + 1 \in 1..MaxScans \ Started /\ \A o \in 1..MaxScans \ Started : n + 1 <= o
  BY <1>1, ScanAssumption
<1> DEFINE k == CHOOSE m \in 1..MaxScans \ Started : \A o \in 1..MaxScans \ Started : m <= o
<1>3. k \in 1..MaxScans \ Started /\ \A o \in 1..MaxScans \ Started : k <= o BY <1>2
<1> HIDE DEF k
<1>4. k = n + 1 BY <1>1, <1>2, <1>3, ScanAssumption
<1>5. k \in 1..MaxScans /\ Started = 1..(k - 1) BY <1>1, <1>2, <1>4
<1>6. QED BY <1>5 DEF k

\* With no identity nothing is started; with one a scan of it is.
LEMMA NoneInv ==
    ASSUME ScansInv, scans' = Cancelled, head' = head
    PROVE  ScansInv' /\ LiveInv' /\ Started' = Started
<1>1. Started' = Started BY AllCancelled DEF Started
<1>2. \A k \in 1..MaxScans : ScanFine(scans[k])'
  <2>1. \A k \in 1..MaxScans : ScanFine(Cancelled[k]) BY AllCancelled
  <2>2. QED BY <2>1 DEF ScanFine, ChunksFine, CacheFine, OwnOnly, Blocks
<1>3. \A k \in Started' : scans'[k].cancelled BY <1>1, AllCancelled
<1>4. ScansInv' BY <1>1, <1>2, <1>3, AllCancelled DEF ScansInv
<1>5. QED BY <1>1, <1>3, <1>4 DEF LiveInv

LEMMA EffectInv ==
    ASSUME ScanInv, NEW i \in Identities, NEW c, CacheFine(i, c), NEW l \in List, RunEffect(i, c, l),
           identity' = i, head' = head, cache'[i] = c
    PROVE  ScansInv' /\ LiveInv' /\ SpinnerInv' /\ SettledListIsCached' /\ shown' \in List /\ isScanning' /\ ~error'
<1> DEFINE k == CHOOSE n \in 1..MaxScans \ Started : \A o \in 1..MaxScans \ Started : n <= o
           t == [NoScan EXCEPT !.stage = "head", !.id = i, !.cached = c]
<1>1. c \in CacheRecord BY DEF CacheFine
<1>2. i # "none" BY ScanAssumption
<1>3. /\ Started # 1..MaxScans
      /\ scans' = [Cancelled EXCEPT ![k] = t]
      /\ shown' = IF c.last > 0 THEN c.list ELSE l
      /\ isScanning' = TRUE /\ error' = FALSE
  BY <1>2 DEF RunEffect, Cancelled
<1>4. k \in 1..MaxScans /\ Started = 1..(k - 1) BY <1>3, NextScan DEF ScanInv
<1>5. t \in ScanRecord /\ ~t.cancelled /\ t.stage = "head" /\ t.id = i /\ t.cached = c /\ t.found = EmptyList
  BY <1>1, FreshFacts
<1> HIDE DEF k, t
<1>6. ScansInv BY DEF ScanInv
<1>7. /\ Cancelled \in [1..MaxScans -> ScanRecord] /\ \A o \in 1..MaxScans : ScanFine(Cancelled[o])
      /\ \A o \in 1..MaxScans : Cancelled[o].stage = scans[o].stage
      /\ \A o \in Started : Cancelled[o].cancelled
  BY <1>6, AllCancelled
<1>8. scans' \in [1..MaxScans -> ScanRecord] /\ scans'[k] = t /\ \A o \in 1..MaxScans : o # k => scans'[o] = Cancelled[o]
  BY <1>3, <1>4, <1>5, <1>7
<1>9. Started' = Started \cup {k} /\ k \notin Started
  BY <1>4, <1>5, <1>7, <1>8 DEF Started
<1>10. Started' = 1..k BY <1>4, <1>9, ScanAssumption
<1>11. ScanFine(t)
  <2>1. \A j \in Identities, b \in Blocks : EmptyList[<<j, b>>] = 0 BY ListFacts DEF Event
  <2>2. QED BY <1>5, <2>1 DEF ScanFine, OwnOnly
<1>12. \A o \in 1..MaxScans : ScanFine(scans'[o]) BY <1>7, <1>8, <1>11
<1>13. \A o \in 1..MaxScans : ScanFine(scans[o])' BY <1>12 DEF ScanFine, ChunksFine, CacheFine, OwnOnly, Blocks
<1>14. \A o \in Started' : o # k => scans'[o].cancelled BY <1>7, <1>8, <1>9 DEF Started
<1>15. ScansInv'
  <2>1. \E n \in 0..MaxScans : Started' = 1..n BY <1>4, <1>10
  <2>2. QED BY <1>8, <1>13, <1>14, <2>1 DEF ScansInv
<1>16. LiveInv' BY <1>3, <1>5, <1>8, <1>14 DEF LiveInv
<1>17. SpinnerInv' BY <1>5, <1>8, <1>9 DEF SpinnerInv
<1>18. SettledListIsCached' BY <1>3 DEF SettledListIsCached
<1>19. shown' \in List BY <1>1, <1>3 DEF CacheRecord
<1>20. QED BY <1>3, <1>15, <1>16, <1>17, <1>18, <1>19

\* The steps that run the effect.
LEMMA ChangeIdentityInv == ASSUME ScanInv, NEW i \in Identities \cup {"none"}, ChangeIdentity(i) PROVE ScanInv'
<1> USE DEF ChangeIdentity
<1>1. ListInv /\ ScansInv BY DEF ScanInv
<1>2. CASE i = "none"
  <2>1. /\ scans' = Cancelled /\ shown' = shown /\ UNCHANGED <<isScanning, error, head, cache>> /\ identity' = "none"
    BY <1>2 DEF RunEffect, Cancelled
  <2>2. ScansInv' /\ LiveInv' BY <1>1, <2>1, NoneInv
  <2>3. ListInv' BY <1>1, <2>1 DEF ListInv, CacheFine
  <2>4. QED BY <2>1, <2>2, <2>3 DEF ScanInv, SpinnerInv, SettledListIsCached
<1>3. CASE i # "none"
  <2>1. i \in Identities /\ CacheFine(i, cache[i]) /\ shown \in List BY <1>1, <1>3 DEF ListInv
  <2>2. RunEffect(i, cache[i], shown) /\ cache'[i] = cache[i] /\ head' = head /\ identity' = i /\ cache' = cache
    BY <1>3
  <2>3. ScansInv' /\ LiveInv' /\ SpinnerInv' /\ SettledListIsCached' /\ shown' \in List /\ isScanning' /\ ~error'
    BY <2>1, <2>2, EffectInv
  <2>4. isScanning' \in BOOLEAN /\ error' \in BOOLEAN BY <1>3, ScanAssumption DEF RunEffect
  <2>5. ListInv' BY <1>1, <2>1, <2>2, <2>3, <2>4 DEF ListInv, CacheFine
  <2>6. QED BY <2>3, <2>5 DEF ScanInv
<1>4. QED BY <1>2, <1>3

LEMMA RescanInv == ASSUME ScanInv, Rescan PROVE ScanInv'
<1> USE DEF Rescan
<1>1. ListInv /\ identity \in Identities BY DEF ScanInv, ListInv
<1>2. CacheFine(identity, NoCache) /\ EmptyList \in List BY <1>1, NoCacheFine, ListFacts DEF ListInv
<1>3. /\ cache' \in [Identities -> CacheRecord] /\ cache'[identity] = NoCache
      /\ \A i \in Identities : i # identity => cache'[i] = cache[i]
  BY <1>1, NoScanFacts DEF ListInv
<1>4. ScansInv' /\ LiveInv' /\ SpinnerInv' /\ SettledListIsCached' /\ shown' \in List /\ isScanning' /\ ~error'
  BY <1>1, <1>2, <1>3, EffectInv
<1>5. isScanning' \in BOOLEAN /\ error' \in BOOLEAN BY <1>1, ScanAssumption DEF RunEffect
<1>6. \A i \in Identities : CacheFine(i, cache'[i]) BY <1>1, <1>2, <1>3 DEF ListInv
<1>7. ListInv' BY <1>1, <1>3, <1>4, <1>5, <1>6 DEF ListInv, CacheFine
<1>8. QED BY <1>4, <1>7 DEF ScanInv

LEMMA UnmountInv == ASSUME ScanInv, Unmount PROVE ScanInv'
<1> USE DEF Unmount
<1>1. scans' = Cancelled BY DEF Cancelled
<1>2. ScansInv' /\ LiveInv' BY <1>1, NoneInv DEF ScanInv
<1>3. ListInv' BY ListFacts DEF ScanInv, ListInv, CacheFine
<1>4. QED BY <1>2, <1>3 DEF ScanInv, SpinnerInv, SettledListIsCached

\* A block more leaves every list as it was.
LEMMA MineBlockInv == ASSUME ScanInv, MineBlock PROVE ScanInv'
<1> USE DEF MineBlock
<1>1. head \in Blocks /\ head' \in Blocks /\ head <= head' BY ScanAssumption DEF ScanInv, ListInv, Blocks
<1>2. ASSUME NEW i, NEW c, CacheFine(i, c) PROVE CacheFine(i, c)'
  <2>1. c.last \in 0..MaxBlock BY <1>2 DEF CacheFine, CacheRecord
  <2>2. QED BY <1>1, <1>2, <2>1, ScanAssumption DEF CacheFine, Blocks
<1>3. ASSUME NEW s, ScanFine(s) PROVE ScanFine(s)'
  <2>1. ChunksFine(s) => ChunksFine(s)' BY <1>1, ScanAssumption DEF ChunksFine, Blocks
  <2>2. QED BY <1>2, <1>3, <2>1 DEF ScanFine
<1>4. ScansInv' BY <1>3 DEF ScanInv, ScansInv, Started
<1>5. ListInv' BY <1>1, <1>2 DEF ScanInv, ListInv
<1>6. QED BY <1>4, <1>5 DEF ScanInv, LiveInv, SpinnerInv, SettledListIsCached, Started

-----------------------------------------------------------------------------
(* A scan that goes on.                                                      *)
\* One scan moves.
LEMMA OneScan ==
    ASSUME ScansInv, NEW k \in Started, NEW t \in ScanRecord, ScanFine(t), t.stage # "unused",
           t.cancelled = scans[k].cancelled, scans' = [scans EXCEPT ![k] = t], head' = head
    PROVE  /\ ScansInv' /\ Started' = Started /\ scans'[k] = t
           /\ \A o \in Started : o # k => scans'[o] = scans[o]
<1>1. k \in 1..MaxScans /\ scans[k].stage # "unused" /\ Started \subseteq 1..MaxScans BY DEF Started
<1>2. scans' \in [1..MaxScans -> ScanRecord] /\ scans'[k] = t /\ \A o \in 1..MaxScans : o # k => scans'[o] = scans[o]
  BY <1>1 DEF ScansInv
<1>3. Started' = Started BY <1>1, <1>2 DEF Started
<1>4. \A o \in 1..MaxScans : ScanFine(scans'[o]) BY <1>2 DEF ScansInv
<1>5. \A o \in 1..MaxScans : ScanFine(scans[o])' BY <1>4 DEF ScanFine, ChunksFine, CacheFine, OwnOnly, Blocks
<1>6. \A o \in Started : scans'[o].cancelled = scans[o].cancelled BY <1>1, <1>2
<1>7. ScansInv' BY <1>2, <1>3, <1>5, <1>6 DEF ScansInv
<1>8. QED BY <1>1, <1>2, <1>3, <1>7

\* A scan that neither ends nor changes what is cached.
LEMMA ScanGoesOn ==
    ASSUME ScanInv, NEW k \in Started, NEW t \in ScanRecord, ScanFine(t), t.stage \in {"head", "chunks"},
           scans[k].stage # "over", t.cancelled = scans[k].cancelled, t.id = scans[k].id, t.cached = scans[k].cached,
           scans' = [scans EXCEPT ![k] = t], UNCHANGED <<head, identity, isScanning, error, cache>>,
           shown' \in List, shown' = shown \/ ~scans[k].cancelled
    PROVE  ScanInv'
<1>1. /\ ScansInv' /\ Started' = Started /\ scans'[k] = t
      /\ \A o \in Started : o # k => scans'[o] = scans[o]
  BY OneScan DEF ScanInv
<1>2. ListInv' BY DEF ScanInv, ListInv, CacheFine
<1>3. LiveInv' BY <1>1 DEF ScanInv, LiveInv
<1>4. SpinnerInv' BY <1>1 DEF ScanInv, SpinnerInv
<1>5. SettledListIsCached' BY DEF ScanInv, LiveInv, SettledListIsCached
<1>6. QED BY <1>1, <1>2, <1>3, <1>4, <1>5 DEF ScanInv

\* The head of the chain, and one chunk.
LEMMA ReadHeadInv == ASSUME ScanInv, NEW k \in 1..MaxScans, ReadHead(k) PROVE ScanInv'
<1> DEFINE s == scans[k]
           n == NextFrom(s.cached, head)
           t == [s EXCEPT !.stage = "chunks", !.to = head, !.next = n]
<1>1. k \in Started /\ s \in ScanRecord /\ ScanFine(s) /\ head \in Blocks /\ s.stage = "head"
  BY DEF ReadHead, ScanInv, ScansInv, ListInv, Started
<1>2. CacheFine(s.id, s.cached) /\ OwnOnly(s.id, s.found) /\ s.id \in Identities /\ s.cached.last \in 0..head
      /\ s.cached \in CacheRecord /\ s.found \in List
  BY <1>1, ScanAssumption DEF ScanFine, CacheFine, CacheRecord, ScanRecord, Blocks
<1>3. n \in 1..(MaxBlock + 1) /\ head \in 0..MaxBlock /\ (n = 1 \/ n <= s.cached.last + 1)
  BY <1>1, <1>2, ScanAssumption DEF NextFrom, DeployBlock, Blocks
<1>4. scans' = [scans EXCEPT ![k] = t] BY <1>1 DEF ReadHead, ScanInv, ScansInv
<1>5. UNCHANGED <<head, identity, shown, isScanning, error, cache>> BY DEF ReadHead
<1> HIDE DEF n, s
<1>6. /\ t \in ScanRecord /\ t.stage = "chunks" /\ t.to = head /\ t.next = n /\ t.cancelled = s.cancelled
      /\ t.id = s.id /\ t.cached = s.cached /\ t.found = s.found
  <2>1. n \in 0..(MaxBlock + 1) BY <1>3, ScanAssumption
  <2>2. t \in ScanRecord BY <1>1, <1>3, <2>1 DEF ScanRecord
  <2>3. QED BY <1>1, <2>2 DEF ScanRecord
<1> HIDE DEF t
<1>7. ChunksFine(t)
  <2>1. \A b \in Blocks : b < n => b <= s.cached.last BY <1>2, <1>3, ScanAssumption DEF Blocks
  <2>2. \A b \in Blocks : s.cached.list[<<s.id, b>>] \in Nat /\ s.found[<<s.id, b>>] \in Nat
    BY <1>2 DEF CacheRecord, List, Event
  <2>3. \A b \in Blocks : b < n => s.cached.list[<<s.id, b>>] + s.found[<<s.id, b>>] > 0
    BY <1>2, <2>1, <2>2 DEF CacheFine
  <2>4. QED BY <1>1, <1>2, <1>3, <1>6, <2>3, ScanAssumption DEF ChunksFine, Blocks
<1>8. ScanFine(t) BY <1>2, <1>6, <1>7 DEF ScanFine
<1>9. scans[k].stage # "over" /\ t.cancelled = scans[k].cancelled /\ t.id = scans[k].id /\ t.cached = scans[k].cached
  BY <1>1, <1>6 DEF s
<1>10. shown' \in List BY <1>5 DEF ScanInv, ListInv
<1>11. QED BY <1>1, <1>4, <1>5, <1>6, <1>8, <1>9, <1>10, ScanGoesOn

LEMMA ScanChunkInv == ASSUME ScanInv, NEW k \in 1..MaxScans, ScanChunk(k) PROVE ScanInv'
<1> DEFINE s == scans[k]
           to == IF s.next + ChunkSize - 1 > s.to THEN s.to ELSE s.next + ChunkSize - 1
           found == Merge(s.found, EventsOf(s.id, s.next, to))
           n == to + 1
           t == [s EXCEPT !.found = found, !.next = n]
<1>1. /\ scans' = [scans EXCEPT ![k].found = found, ![k].next = to + 1] /\ s.stage = "chunks" /\ s.next <= s.to
      /\ shown' = IF s.cancelled THEN shown ELSE Merge(s.cached.list, found)
      /\ UNCHANGED <<head, identity, isScanning, error, cache>>
  BY DEF ScanChunk
<1>2. k \in Started /\ s \in ScanRecord /\ ScanFine(s) /\ head \in Blocks
  BY <1>1 DEF ScanInv, ScansInv, ListInv, Started
<1>3. /\ CacheFine(s.id, s.cached) /\ OwnOnly(s.id, s.found) /\ s.id \in Identities /\ ChunksFine(s)
      /\ s.cached \in CacheRecord /\ s.found \in List /\ s.cached.list \in List
      /\ s.next \in 0..(MaxBlock + 1) /\ s.to \in 0..MaxBlock
  BY <1>1, <1>2 DEF ScanFine, CacheFine, CacheRecord, ScanRecord
<1>4. to \in s.next..s.to /\ s.next >= 1 BY <1>1, <1>3, ScanAssumption DEF ChunksFine
<1>5. scans' = [scans EXCEPT ![k] = t] BY <1>1, <1>2 DEF ScanInv, ScansInv
<1> HIDE DEF to
<1>6. /\ found \in List
      /\ \A j \in Identities, b \in Blocks : j # s.id => found[<<j, b>>] = s.found[<<j, b>>]
      /\ \A b \in Blocks : found[<<s.id, b>>] = s.found[<<s.id, b>>] + (IF b \in s.next..to THEN 1 ELSE 0)
  <2>1. EventsOf(s.id, s.next, to) \in List
        /\ \A j \in Identities, b \in Blocks :
              EventsOf(s.id, s.next, to)[<<j, b>>] = IF j = s.id /\ b \in s.next..to THEN 1 ELSE 0
    <3>1. s.id \in Identities /\ s.next \in Nat /\ to \in Nat BY <1>3, <1>4, ScanAssumption
    <3>2. QED BY <3>1, EventFacts
  <2>2. \A j \in Identities, b \in Blocks : <<j, b>> \in Event BY DEF Event
  <2>3. \A j \in Identities, b \in Blocks : s.found[<<j, b>>] \in Nat BY <1>3, <2>2 DEF List
  <2>4. \A j \in Identities, b \in Blocks :
           found[<<j, b>>] = s.found[<<j, b>>] + EventsOf(s.id, s.next, to)[<<j, b>>]
    BY <1>3, <2>1, <2>2, ListFacts
  <2>5. found \in List BY <1>3, <2>1, ListFacts
  <2> HIDE DEF found
  <2>6. QED BY <1>3, <2>1, <2>3, <2>4, <2>5
<1>7. n \in 1..(MaxBlock + 1) BY <1>3, <1>4, ScanAssumption
<1>8. Merge(s.cached.list, found) \in List BY <1>3, <1>6, ListFacts
<1>9. n = to + 1 OBVIOUS
<1> HIDE DEF found, n, s
<1>10. /\ t \in ScanRecord /\ t.stage = s.stage /\ t.to = s.to /\ t.next = n /\ t.cancelled = s.cancelled
       /\ t.id = s.id /\ t.cached = s.cached /\ t.found = found
  <2>1. n \in 0..(MaxBlock + 1) BY <1>7, ScanAssumption
  <2>2. t \in ScanRecord BY <1>2, <1>6, <2>1 DEF ScanRecord
  <2>3. QED BY <1>2, <2>2 DEF ScanRecord
<1> HIDE DEF t
<1>11. OwnOnly(s.id, found) BY <1>3, <1>6 DEF OwnOnly
<1>12. ChunksFine(t)
  <2>1. \A b \in Blocks : s.cached.list[<<s.id, b>>] \in Nat /\ s.found[<<s.id, b>>] \in Nat
    BY <1>3 DEF List, Event
  <2>2. \A b \in Blocks : b < n => b < s.next \/ b \in s.next..to
    BY <1>3, <1>4, <1>9, ScanAssumption DEF Blocks
  <2>3. \A b \in Blocks : b < n => s.cached.list[<<s.id, b>>] + found[<<s.id, b>>] > 0
    BY <1>3, <1>6, <2>1, <2>2 DEF ChunksFine
  <2>4. QED BY <1>3, <1>7, <1>10, <2>3 DEF ChunksFine
<1>13. ScanFine(t) BY <1>1, <1>3, <1>10, <1>11, <1>12 DEF ScanFine
<1>14. /\ scans[k].stage # "over" /\ t.cancelled = scans[k].cancelled /\ t.id = scans[k].id
       /\ t.cached = scans[k].cached /\ t.stage = "chunks"
  BY <1>1, <1>10 DEF s
<1>15. shown' \in List /\ (shown' = shown \/ ~scans[k].cancelled)
  <2>1. shown \in List BY DEF ScanInv, ListInv
  <2>2. QED BY <1>1, <1>8, <2>1 DEF s
<1>16. QED BY <1>1, <1>2, <1>5, <1>10, <1>13, <1>14, <1>15, ScanGoesOn

\* A scan that ends.
LEMMA OverFacts ==
    ASSUME ScansInv, NEW k \in Started, scans' = [scans EXCEPT ![k].stage = "over"], head' = head
    PROVE  /\ ScansInv' /\ Started' = Started /\ scans'[k].stage = "over"
           /\ scans'[k].cancelled = scans[k].cancelled /\ scans'[k].id = scans[k].id
           /\ \A o \in Started : o # k => scans'[o] = scans[o]
<1> DEFINE s == scans[k]
           t == [s EXCEPT !.stage = "over"]
<1>1. s \in ScanRecord /\ ScanFine(s) /\ s.stage # "unused" BY DEF ScansInv, Started
<1>2. scans' = [scans EXCEPT ![k] = t] BY <1>1 DEF ScansInv
<1>3. s = scans[k] OBVIOUS
<1> HIDE DEF s
<1>4. t \in ScanRecord /\ t.stage = "over" /\ t.id = s.id /\ t.cached = s.cached /\ t.found = s.found
      /\ t.cancelled = s.cancelled
  BY <1>1 DEF ScanRecord
<1> HIDE DEF t
<1>5. ScanFine(t) BY <1>1, <1>4 DEF ScanFine
<1>6. t.stage # "unused" /\ t.cancelled = scans[k].cancelled BY <1>3, <1>4
<1>7. QED BY <1>2, <1>3, <1>4, <1>5, <1>6, OneScan

\* A cancelled scan that ends changes nothing.
LEMMA LateOver ==
    ASSUME ScanInv, NEW k \in Started, scans[k].cancelled, scans' = [scans EXCEPT ![k].stage = "over"],
           UNCHANGED <<head, identity, shown, isScanning, error, cache>>
    PROVE  ScanInv'
<1>1. /\ ScansInv' /\ Started' = Started /\ scans'[k].cancelled
      /\ \A o \in Started : o # k => scans'[o] = scans[o]
  BY OverFacts DEF ScanInv
<1>2. ListInv' BY DEF ScanInv, ListInv, CacheFine
<1>3. LiveInv' BY <1>1 DEF ScanInv, LiveInv
<1>4. SpinnerInv' BY <1>1 DEF ScanInv, SpinnerInv
<1>5. SettledListIsCached' BY DEF ScanInv, SettledListIsCached
<1>6. QED BY <1>1, <1>2, <1>3, <1>4, <1>5 DEF ScanInv

LEMMA FailInv == ASSUME ScanInv, NEW k \in 1..MaxScans, Fail(k) PROVE ScanInv'
<1> USE DEF Fail
<1>1. k \in Started BY DEF Started
<1>2. CASE scans[k].cancelled BY <1>1, <1>2, LateOver
<1>3. CASE ~scans[k].cancelled
  <2>1. /\ ScansInv' /\ Started' = Started /\ scans'[k].stage = "over"
        /\ \A o \in Started : o # k => scans'[o] = scans[o]
    BY <1>1, OverFacts DEF ScanInv
  <2>2. isScanning' = FALSE /\ error' = TRUE BY <1>3
  <2>3. ListInv' BY <2>2 DEF ScanInv, ListInv, CacheFine
  <2>4. \A o \in Started : o # k => scans[o].cancelled BY <1>1, <1>3 DEF ScanInv, ScansInv
  <2>5. scans[k].id = identity BY <1>1, <1>3 DEF ScanInv, LiveInv
  <2>6. scans'[k].id = scans[k].id BY <1>1, OverFacts DEF ScanInv
  <2>7. LiveInv' BY <2>1, <2>4, <2>5, <2>6 DEF LiveInv
  <2>8. QED BY <2>1, <2>2, <2>3, <2>7 DEF ScanInv, SpinnerInv, SettledListIsCached
<1>4. QED BY <1>2, <1>3

\* What a scan that was not cancelled leaves in the cache.
StoredCache(k) == [last |-> scans[k].to, list |-> Merge(scans[k].cached.list, scans[k].found)]

LEMMA StoredFine ==
    ASSUME ScanInv, NEW k \in Started, scans[k].stage = "chunks", scans[k].next > scans[k].to
    PROVE  /\ scans[k].id \in Identities /\ StoredCache(k) \in CacheRecord /\ CacheFine(scans[k].id, StoredCache(k))
           /\ StoredCache(k).list \in List /\ scans[k].cached.last <= StoredCache(k).last
<1> DEFINE s == scans[k]
           merged == Merge(s.cached.list, s.found)
<1>1. s \in ScanRecord /\ ScanFine(s) /\ head \in Blocks BY DEF ScanInv, ScansInv, ListInv, Started
<1>2. /\ CacheFine(s.id, s.cached) /\ OwnOnly(s.id, s.found) /\ s.id \in Identities /\ ChunksFine(s)
      /\ s.found \in List /\ s.cached.list \in List /\ s.next \in 0..(MaxBlock + 1) /\ s.to \in 0..MaxBlock
  BY <1>1 DEF ScanFine, CacheFine, CacheRecord, ScanRecord
<1>3. s.next > s.to /\ StoredCache(k) = [last |-> s.to, list |-> merged] BY DEF StoredCache
<1> HIDE DEF s
<1>4. \A j \in Identities, b \in Blocks :
         /\ <<j, b>> \in Event /\ s.cached.list[<<j, b>>] \in Nat /\ s.found[<<j, b>>] \in Nat
         /\ merged[<<j, b>>] = s.cached.list[<<j, b>>] + s.found[<<j, b>>]
  <2>1. \A j \in Identities, b \in Blocks : <<j, b>> \in Event BY DEF Event
  <2>2. \A j \in Identities, b \in Blocks : s.cached.list[<<j, b>>] \in Nat /\ s.found[<<j, b>>] \in Nat
    BY <1>2, <2>1 DEF List
  <2>3. QED BY <1>2, <2>1, <2>2, ListFacts
<1>5. merged \in List BY <1>2, ListFacts
<1> HIDE DEF merged
<1>6. /\ StoredCache(k) \in CacheRecord /\ StoredCache(k).last = s.to /\ StoredCache(k).list = merged
  BY <1>2, <1>3, <1>5 DEF CacheRecord
<1>7. OwnOnly(s.id, merged)
  <2>1. \A j \in Identities \ {s.id}, b \in Blocks : s.cached.list[<<j, b>>] = 0 /\ s.found[<<j, b>>] = 0
    BY <1>2 DEF CacheFine, OwnOnly
  <2>2. ASSUME NEW j \in Identities \ {s.id}, NEW b \in Blocks PROVE merged[<<j, b>>] = 0
    <3>1. s.cached.list[<<j, b>>] = 0 /\ s.found[<<j, b>>] = 0 BY <2>1
    <3>2. merged[<<j, b>>] = s.cached.list[<<j, b>>] + s.found[<<j, b>>] BY <1>4
    <3>3. QED BY <3>1, <3>2
  <2>3. QED BY <2>2 DEF OwnOnly
<1>8. \A b \in Blocks : b <= s.to => merged[<<s.id, b>>] > 0
  <2>1. \A b \in Blocks : b <= s.to => b < s.next BY <1>2, <1>3, ScanAssumption DEF Blocks
  <2>2. QED BY <1>2, <1>4, <2>1 DEF ChunksFine
<1>9. s.to <= head /\ s.cached.last <= s.to BY <1>1, <1>2, ScanAssumption DEF ChunksFine, Blocks
<1>10. CacheFine(s.id, StoredCache(k)) BY <1>6, <1>7, <1>8, <1>9 DEF CacheFine
<1>11. QED BY <1>2, <1>5, <1>6, <1>9, <1>10 DEF s

LEMMA StoreInv == ASSUME ScanInv, NEW k \in 1..MaxScans, Store(k) PROVE ScanInv'
<1> USE DEF Store
<1>1. k \in Started BY DEF Started
<1>2. CASE scans[k].cancelled BY <1>1, <1>2, LateOver
<1>3. CASE ~scans[k].cancelled
  <2>1. /\ ScansInv' /\ Started' = Started /\ scans'[k].stage = "over" /\ scans'[k].id = scans[k].id
        /\ \A o \in Started : o # k => scans'[o] = scans[o]
    BY <1>1, OverFacts DEF ScanInv
  <2>2. /\ isScanning' = FALSE /\ UNCHANGED <<head, identity, error>> /\ shown' = StoredCache(k).list
        /\ cache' = [cache EXCEPT ![scans[k].id] = StoredCache(k)]
    BY <1>3 DEF StoredCache
  <2>3. /\ scans[k].id \in Identities /\ StoredCache(k) \in CacheRecord /\ CacheFine(scans[k].id, StoredCache(k))
        /\ StoredCache(k).list \in List
    BY <1>1, StoredFine
  <2>4. scans[k].id = identity BY <1>1, <1>3 DEF ScanInv, LiveInv
  <2>5. /\ cache' \in [Identities -> CacheRecord] /\ cache'[identity] = StoredCache(k)
        /\ \A i \in Identities : i # identity => cache'[i] = cache[i]
    BY <2>2, <2>3, <2>4 DEF ScanInv, ListInv
  <2>6. \A i \in Identities : CacheFine(i, cache'[i]) BY <2>3, <2>4, <2>5 DEF ScanInv, ListInv
  <2>7. \A i \in Identities : CacheFine(i, cache[i])' BY <2>2, <2>6 DEF CacheFine
  <2>8. ListInv' BY <2>2, <2>3, <2>5, <2>7 DEF ScanInv, ListInv
  <2>9. \A o \in Started : o # k => scans[o].cancelled BY <1>1, <1>3 DEF ScanInv, ScansInv
  <2>10. LiveInv' BY <2>1, <2>2, <2>4, <2>9 DEF LiveInv
  <2>11. SettledListIsCached' BY <2>2, <2>5 DEF SettledListIsCached
  <2>12. QED BY <2>1, <2>2, <2>8, <2>10, <2>11 DEF ScanInv, SpinnerInv
<1>4. QED BY <1>2, <1>3

\* Every step is one of these.
LEMMA ScanStep == ASSUME ScanInv, [ScanNext]_scanVars PROVE ScanInv'
<1>1. CASE UNCHANGED scanVars
  <2>1. UNCHANGED <<head, identity, shown, isScanning, error, cache, scans>> BY <1>1 DEF scanVars
  <2>2. ScansInv' BY <2>1 DEF ScanInv, ScansInv, Started, ScanFine, ChunksFine, CacheFine
  <2>3. ListInv' BY <2>1 DEF ScanInv, ListInv, CacheFine
  <2>4. QED BY <2>1, <2>2, <2>3 DEF ScanInv, LiveInv, SpinnerInv, SettledListIsCached, Started
<1>2. CASE ScanNext
  BY <1>2, ChangeIdentityInv, RescanInv, UnmountInv, MineBlockInv, ReadHeadInv, ScanChunkInv, StoreInv, FailInv
  DEF ScanNext
<1>3. QED BY <1>1, <1>2

\* The invariant of every behaviour.
LEMMA ScanInvHolds == ScanSpec => []ScanInv
BY ScanInitInv, ScanStep, PTL DEF ScanSpec

-----------------------------------------------------------------------------
\* For any identities, blocks and chunk sizes: the cached list has no gap, and a
\* list that settled is the cached one (useSmartAccountActivity.ts).
THEOREM ScanListsHold == ScanSpec => [](ScanTypeOK /\ CacheHasNoGap /\ SettledListIsCached)
<1>1. ASSUME ScanInv PROVE ScanTypeOK
  <2>1. \A e \in Event : shown[e] \in Nat BY <1>1 DEF ScanInv, ListInv, List
  <2>2. \A i \in Identities : cache[i].last \in 0..head
    <3>1. TAKE i \in Identities
    <3>2. CacheFine(i, cache[i]) /\ head \in Nat BY <1>1, ScanAssumption DEF ScanInv, ListInv, Blocks
    <3>3. cache[i].last \in 0..MaxBlock /\ cache[i].last <= head BY <3>2 DEF CacheFine, CacheRecord
    <3>4. QED BY <3>2, <3>3
  <2>3. QED BY <1>1, <2>1, <2>2 DEF ScanInv, ScansInv, ListInv, LiveInv, SpinnerInv, ScanTypeOK
<1>2. ScanInv => CacheHasNoGap BY DEF ScanInv, ListInv, CacheFine, OwnOnly, CacheHasNoGap
<1>3. ScanInv => SettledListIsCached BY DEF ScanInv
<1>4. QED BY <1>1, <1>2, <1>3, ScanInvHolds, PTL

\* The cache of an identity is replaced only by one that reaches at least as far,
\* or by none at the user's request.
THEOREM CacheMovesForwardHolds == ScanSpec => CacheMovesForward
<1> DEFINE Forward == \A i \in Identities :
                         cache'[i] # cache[i] =>
                             /\ identity = i
                             /\ cache'[i] = NoCache \/ cache'[i].last >= cache[i].last
<1>1. ASSUME ScanInv, [ScanNext]_scanVars PROVE Forward
  <2>1. cache \in [Identities -> CacheRecord] BY <1>1 DEF ScanInv, ListInv
  <2>2. ASSUME UNCHANGED cache PROVE Forward BY <2>2
  <2>3. CASE Rescan BY <2>1, <2>3 DEF Rescan
  <2>4. ASSUME NEW k \in 1..MaxScans, Store(k) PROVE Forward
    <3>1. k \in Started BY <2>4 DEF Store, Started
    <3>2. CASE scans[k].cancelled BY <2>4, <3>2 DEF Store
    <3>3. CASE ~scans[k].cancelled
      <4>1. cache' = [cache EXCEPT ![scans[k].id] = StoredCache(k)] BY <2>4, <3>3 DEF Store, StoredCache
      <4>2. scans[k].id = identity /\ scans[k].cached = cache[scans[k].id]
        BY <1>1, <2>4, <3>1, <3>3 DEF ScanInv, LiveInv, Store
      <4>3. /\ scans[k].cached.last <= StoredCache(k).last /\ StoredCache(k) \in CacheRecord
            /\ scans[k].id \in Identities
        BY <1>1, <2>4, <3>1, StoredFine DEF Store
      <4>4. cache[identity].last \in Nat /\ StoredCache(k).last \in Nat
        BY <2>1, <4>2, <4>3 DEF CacheRecord
      <4>5. cache'[identity] = StoredCache(k) /\ \A i \in Identities : i # identity => cache'[i] = cache[i]
        BY <2>1, <4>1, <4>2, <4>3
      <4>6. QED BY <4>2, <4>3, <4>4, <4>5
    <3>4. QED BY <3>2, <3>3
  <2>5. QED BY <1>1, <2>2, <2>3, <2>4
     DEF ScanNext, scanVars, Unmount, MineBlock, ChangeIdentity, ReadHead, ScanChunk, Fail
<1>2. ScanInv /\ [ScanNext]_scanVars => [Forward]_scanVars BY <1>1
<1>3. QED BY <1>2, ScanInvHolds, PTL DEF ScanSpec, CacheMovesForward

\* Both together, for scans that are cancelled, fail or start over
\* (useSmartAccountActivity.ts).
THEOREM ScanCorrectHolds == ScanSpec => ScanCorrect
BY ScanListsHold, CacheMovesForwardHolds, PTL DEF ScanCorrect


-----------------------------------------------------------------------------
(*****************************************************************************)
(* VaultScreen.  Copies of the vault are about: the file, the list on        *)
(* screen, the one an upload took and those of uploads that the tab does not *)
(* follow.  None names a pin that was not uploaded; what is still to be      *)
(* announced was not announced before; and no form is on a deleted entry.    *)
(*****************************************************************************)

FormRecord == [open : {"no", "add", "edit", "hidden"}, id : Entries \cup {0}, base : Entry \cup {NoEntry}, file : File,
               type : {"credential", "document"}]

\* Whoever holds a copy holds no pin that was not uploaded, and no entry that was
\* not made.
EntryPinned(e) == e.cid # 0 => pins[e.cid] > 0
CopyFine(v) == v \in Vault /\ \A i \in Entries : EntryPinned(v[i]) /\ (i > created => v[i] = NoEntry)

CopiesInv == /\ CopyFine(vault) /\ CopyFine(list) /\ CopyFine(upload.copy)
             /\ \A u \in unseen : CopyFine(u.copy)

FileInv ==
    /\ blobs \in [Entries -> File] /\ pins \in [1..MaxFiles -> Nat]
    /\ writes \in 0..MaxWrites /\ created \in 0..MaxEntries
    /\ deleted \subseteq 1..created /\ \A i \in deleted : vault[i] = NoEntry /\ list[i] = NoEntry

EditInv ==
    /\ form \in FormRecord /\ EntryPinned(form.base) /\ confirming \in 0..created
    /\ form.open = "edit" =>
          form.base # NoEntry /\ form.id \in 1..created /\ form.id \notin deleted /\ confirming = 0
    /\ form.open = "hidden" => form.id \in 1..created /\ confirming = 0

PublishInv ==
    /\ upload.by \in {"none", "wallet", "deviceKey"} /\ ButtonsTakeTurns
    /\ key \in {"missing", "signing", "ready"} /\ tx \in {"idle", "signing", "confirming"}
    /\ userOp \in {"idle", "publishing", "sending", "waiting"}

SentInv ==
    /\ uploads \in 0..MaxUploads /\ update \in 0..uploads /\ op \in 0..uploads /\ lateOps \subseteq 1..uploads
    /\ sent \in [Upload -> {0, 1}] /\ \A u \in Upload : u > uploads => sent[u] = 0
    /\ update # 0 => sent[update] = 0 /\ update # op /\ update \notin lateOps
    /\ op # 0 => sent[op] = 0 /\ op \notin lateOps
    /\ \A u \in lateOps : sent[u] = 0
    /\ userOp = "sending" => op # 0

ScreenInv == CopiesInv /\ FileInv /\ EditInv /\ PublishInv /\ SentInv
-----------------------------------------------------------------------------
\* Entries, and the forms on them, field by field.
LEMMA EntryFacts ==
    /\ NoEntry \notin Entry /\ NoEntry.cid = 0 /\ NoEntry.doc = 0 /\ 0 \in File
    /\ \A e \in Entry \cup {NoEntry} : e.cid \in File /\ e.doc \in File
    /\ \A e \in Entry \cup {NoEntry}, f \in File : e # NoEntry => [e EXCEPT !.cid = f] \in Entry
    /\ \A e \in Entry \cup {NoEntry}, f \in File : e # NoEntry => [e EXCEPT !.cid = f].cid = f
    /\ \A e \in Entry, t \in 1..MaxWrites : [e EXCEPT !.text = t] \in Entry /\ [e EXCEPT !.text = t].cid = e.cid
BY ScreenAssumption DEF Entry, NoEntry, File

LEMMA CopyOfNothing == ASSUME created \in Nat PROVE CopyFine([i \in Entries |-> NoEntry])
BY EntryFacts DEF CopyFine, Vault, EntryPinned

LEMMA NoFormFacts ==
    /\ NoForm \in FormRecord /\ NoForm.open = "no" /\ NoForm.base = NoEntry /\ NoForm.file = 0
BY EntryFacts DEF NoForm, FormRecord

\* The invariant holds at the start.
LEMMA ScreenInitInv == ASSUME ScreenInit PROVE ScreenInv
<1> USE ScreenAssumption, EntryFacts, NoFormFacts DEF ScreenInit
<1>1. CopiesInv BY CopyOfNothing DEF CopiesInv, NoUpload
<1>2. FileInv BY DEF FileInv
<1>3. EditInv BY DEF EditInv, EntryPinned
<1>4. PublishInv BY DEF PublishInv, ButtonsTakeTurns, NoUpload
<1>5. SentInv BY DEF SentInv
<1>6. QED BY <1>1, <1>2, <1>3, <1>4, <1>5 DEF ScreenInv

\* The parts a step leaves alone.
LEMMA CopiesStay ==
    ASSUME CopiesInv, UNCHANGED <<vault, list, created, pins>>,
           upload' = upload \/ upload'.copy = vault \/ upload' = NoUpload,
           unseen' \subseteq unseen \cup {upload}, created \in Nat
    PROVE  CopiesInv'
<1>1. CopyFine(NoUpload.copy) BY CopyOfNothing DEF NoUpload
<1>2. CopyFine(vault') /\ CopyFine(list') /\ CopyFine(upload'.copy) /\ \A u \in unseen' : CopyFine(u.copy)
  BY <1>1 DEF CopiesInv
<1>3. QED BY <1>2 DEF CopiesInv, CopyFine, EntryPinned

LEMMA FileStays == ASSUME FileInv, UNCHANGED <<fileVars, list>> PROVE FileInv'
BY DEF FileInv, fileVars

LEMMA EditStays == ASSUME EditInv, UNCHANGED <<form, confirming, created, deleted, pins>> PROVE EditInv'
BY DEF EditInv, EntryPinned

LEMMA PublishStays == ASSUME PublishInv, UNCHANGED <<upload, key, tx, userOp>> PROVE PublishInv'
BY DEF PublishInv, ButtonsTakeTurns

LEMMA SentStays ==
    ASSUME SentInv, UNCHANGED <<uploads, update, op, lateOps, sent>>, userOp' = "sending" => userOp = "sending"
    PROVE  SentInv'
BY DEF SentInv

-----------------------------------------------------------------------------
(* The key, and the form before it is saved.                                 *)
\* The key of the vault is asked for without touching anything else.
LEMMA KeyInv == ASSUME ScreenInv, AskSignature \/ DeriveKey PROVE ScreenInv'
<1> USE DEF AskSignature, DeriveKey
<1>1. UNCHANGED <<fileVars, formVars, publishVars, netVars>> /\ key' \in {"missing", "signing", "ready"} OBVIOUS
<1>2. UNCHANGED <<vault, list, created, pins, upload, unseen, form, confirming, deleted, tx, userOp, op, lateOps, uploads, update, sent>>
      /\ UNCHANGED fileVars
  BY <1>1 DEF fileVars, formVars, publishVars, netVars
<1>3. CopiesInv' BY <1>2, CopiesStay DEF ScreenInv, FileInv
<1>4. FileInv' BY <1>2, FileStays DEF ScreenInv
<1>5. EditInv' BY <1>2, EditStays DEF ScreenInv
<1>6. PublishInv' BY <1>1, <1>2 DEF ScreenInv, PublishInv, ButtonsTakeTurns
<1>7. SentInv' BY <1>2, SentStays DEF ScreenInv
<1>8. QED BY <1>3, <1>4, <1>5, <1>6, <1>7 DEF ScreenInv

\* A step that only moves the form.
LEMMA FormMoves ==
    ASSUME ScreenInv, UNCHANGED <<fileVars, list, publishVars, netVars, key>>, EditInv'
    PROVE  ScreenInv'
<1>1. UNCHANGED <<vault, list, created, pins, upload, unseen, deleted, tx, userOp, op, lateOps, uploads, update, sent, key>>
  BY DEF fileVars, publishVars, netVars
<1>2. CopiesInv' BY <1>1, CopiesStay DEF ScreenInv, FileInv
<1>3. FileInv' BY FileStays DEF ScreenInv
<1>4. PublishInv' BY <1>1, PublishStays DEF ScreenInv
<1>5. SentInv' BY <1>1, SentStays DEF ScreenInv
<1>6. QED BY <1>2, <1>3, <1>4, <1>5 DEF ScreenInv

\* What a step of the form leaves of its fields.
LEMMA FormFields ==
    ASSUME NEW f \in FormRecord
    PROVE  /\ f.base \in Entry \cup {NoEntry} /\ f.file \in File /\ f.open \in {"no", "add", "edit", "hidden"}
           /\ \A t \in {"credential", "document"} :
                 LET g == [f EXCEPT !.type = t]
                 IN  g \in FormRecord /\ g.open = f.open /\ g.base = f.base /\ g.id = f.id
           /\ \A d \in File :
                 LET g == [f EXCEPT !.file = d]
                 IN  g \in FormRecord /\ g.open = f.open /\ g.base = f.base /\ g.id = f.id
BY DEF FormRecord

\* The form after the list was read again.
LEMMA ReopenedFacts ==
    ASSUME form \in FormRecord, NEW l \in Vault, form.open \in {"edit", "hidden"} => form.id \in Entries
    PROVE  LET f == Reopened(l)
           IN  /\ f \in FormRecord
               /\ form.open \notin {"edit", "hidden"} => f = form
               /\ form.open \in {"edit", "hidden"} =>
                     /\ f.id = form.id /\ f.open \in {"edit", "hidden"}
                     /\ f.open = "edit" => f.base = l[form.id] /\ f.base # NoEntry
                     /\ f.open = "hidden" => f.base = NoEntry
<1>1. CASE form.open \notin {"edit", "hidden"} BY <1>1 DEF Reopened
<1>2. CASE form.open \in {"edit", "hidden"} /\ l[form.id] # NoEntry
  <2>1. Reopened(l) = FormOf(l, form.id) BY <1>2 DEF Reopened
  <2>2. l[form.id] \in Entry \cup {NoEntry} BY <1>2 DEF Vault
  <2>3. FormOf(l, form.id) \in FormRecord BY <1>2, <2>2, EntryFacts DEF FormOf, FormRecord
  <2>4. FormOf(l, form.id).open = "edit" /\ FormOf(l, form.id).id = form.id /\ FormOf(l, form.id).base = l[form.id]
    BY DEF FormOf
  <2>5. QED BY <1>2, <2>1, <2>3, <2>4
<1>3. CASE form.open \in {"edit", "hidden"} /\ l[form.id] = NoEntry
  <2>1. Reopened(l) = [NoForm EXCEPT !.open = "hidden", !.id = form.id] BY <1>3 DEF Reopened
  <2>2. [NoForm EXCEPT !.open = "hidden", !.id = form.id] \in FormRecord
    BY <1>3, NoFormFacts DEF FormRecord
  <2>3. LET f == [NoForm EXCEPT !.open = "hidden", !.id = form.id]
        IN  f.open = "hidden" /\ f.id = form.id /\ f.base = NoEntry
    BY DEF NoForm
  <2>4. QED BY <1>3, <2>1, <2>2, <2>3
<1>4. QED BY <1>1, <1>2, <1>3

\* The steps that only move the form.
LEMMA SwitchPickInv == ASSUME ScreenInv, SwitchType \/ PickFile PROVE ScreenInv'
<1> USE DEF SwitchType, PickFile
<1>1. UNCHANGED <<fileVars, list, confirming, publishVars, netVars, key>> OBVIOUS
<1>2. form \in FormRecord BY DEF ScreenInv, EditInv
<1>3. form' \in FormRecord /\ form'.open = form.open /\ form'.base = form.base /\ form'.id = form.id
  <2>1. ASSUME NEW t \in {"credential", "document"}, form' = [form EXCEPT !.type = t]
        PROVE  form' \in FormRecord /\ form'.open = form.open /\ form'.base = form.base /\ form'.id = form.id
    BY <1>2, <2>1, FormFields
  <2>2. ASSUME NEW d \in 1..MaxFiles, form' = [form EXCEPT !.file = d]
        PROVE  form' \in FormRecord /\ form'.open = form.open /\ form'.base = form.base /\ form'.id = form.id
    <3>1. d \in File BY ScreenAssumption DEF File
    <3>2. QED BY <1>2, <2>2, <3>1, FormFields
  <2>3. QED BY <2>1, <2>2
<1>4. EditInv' BY <1>1, <1>3 DEF ScreenInv, EditInv, EntryPinned, fileVars
<1>5. QED BY <1>1, <1>4, FormMoves

LEMMA OpenAddInv == ASSUME ScreenInv, OpenAdd \/ CancelForm PROVE ScreenInv'
<1> USE DEF OpenAdd, CancelForm
<1>1. UNCHANGED <<fileVars, list, confirming, publishVars, netVars, key>> OBVIOUS
<1>2. form' \in FormRecord /\ form'.open \notin {"edit", "hidden"} /\ form'.base = NoEntry
  BY EntryFacts DEF NoForm, FormRecord
<1>3. EditInv' BY <1>1, <1>2, EntryFacts DEF ScreenInv, EditInv, EntryPinned, fileVars
<1>4. QED BY <1>1, <1>3, FormMoves

LEMMA OpenEditInv == ASSUME ScreenInv, NEW id \in Entries, OpenEdit(id) PROVE ScreenInv'
<1> USE DEF OpenEdit
<1>1. UNCHANGED <<fileVars, list, publishVars, netVars, key>> OBVIOUS
<1>2. list \in Vault /\ list[id] \in Entry \cup {NoEntry} /\ EntryPinned(list[id]) /\ id <= created /\ id \notin deleted
      /\ id \in 1..created
  <2>1. list \in Vault /\ EntryPinned(list[id]) /\ ~(id > created) /\ id \notin deleted
    BY DEF ScreenInv, CopiesInv, CopyFine, FileInv
  <2>2. list[id] \in Entry \cup {NoEntry} BY <2>1 DEF Vault
  <2>3. created \in Nat /\ id \in Nat \ {0} BY ScreenAssumption DEF ScreenInv, FileInv, Entries
  <2>4. QED BY <2>1, <2>2, <2>3
<1>3. form' \in FormRecord /\ form'.base = list[id] /\ form'.id = id /\ form'.open = "edit"
  BY <1>2, EntryFacts DEF FormOf, FormRecord
<1>4. EditInv' BY <1>1, <1>2, <1>3 DEF ScreenInv, EditInv, EntryPinned, FileInv, fileVars
<1>5. QED BY <1>1, <1>4, FormMoves

LEMMA AskDeleteInv == ASSUME ScreenInv, NEW id \in Entries, AskDelete(id) PROVE ScreenInv'
<1> USE DEF AskDelete
<1>1. UNCHANGED <<fileVars, list, publishVars, netVars, key>> OBVIOUS
<1>2. id \in 0..created BY ScreenAssumption DEF ScreenInv, CopiesInv, CopyFine, FileInv, Entries
<1>3. form' \in FormRecord /\ form'.open \notin {"edit", "hidden"} /\ EntryPinned(form'.base)
  BY NoFormFacts, EntryFacts DEF ScreenInv, EditInv, EntryPinned
<1>4. EditInv' BY <1>1, <1>2, <1>3 DEF EditInv, EntryPinned, fileVars
<1>5. QED BY <1>1, <1>4, FormMoves

-----------------------------------------------------------------------------
(* What is written to the file.                                              *)
\* A copy stays fine while pins are added and entries made.
LEMMA CopyGrows ==
    ASSUME pins \in [1..MaxFiles -> Nat], created \in Nat, created' \in Nat, created <= created',
           \A f \in 1..MaxFiles : pins'[f] \in Nat /\ pins[f] <= pins'[f],
           NEW v, CopyFine(v)
    PROVE  CopyFine(v)'
<1>1. ASSUME NEW e \in Entry \cup {NoEntry}, EntryPinned(e) PROVE EntryPinned(e)'
  <2>1. e.cid # 0 => e.cid \in 1..MaxFiles BY EntryFacts, ScreenAssumption DEF File
  <2>2. QED BY <1>1, <2>1 DEF EntryPinned
<1>2. \A i \in Entries : v[i] \in Entry \cup {NoEntry} BY DEF CopyFine, Vault
<1>3. \A i \in Entries : i > created' => i > created BY ScreenAssumption DEF Entries
<1>4. QED BY <1>1, <1>2, <1>3 DEF CopyFine

\* What a form writes is an entry whose pin was uploaded.
LEMMA PayloadFacts ==
    ASSUME ScreenInv, writes < MaxWrites
    PROVE  Payload(form) \in Entry /\ EntryPinned(Payload(form))
<1>1. /\ form \in FormRecord /\ form.base \in Entry \cup {NoEntry} /\ form.file \in File /\ EntryPinned(form.base)
      /\ form.base.doc \in File /\ form.base.cid \in File
  BY FormFields, EntryFacts DEF ScreenInv, EditInv
<1>2. writes + 1 \in 1..MaxWrites /\ 0 \in File BY ScreenAssumption DEF ScreenInv, FileInv, File
<1>3. CASE form.type = "credential"
  <2>1. Payload(form) = [text |-> writes + 1, doc |-> 0, cid |-> 0] BY <1>3 DEF Payload
  <2>2. QED BY <1>2, <2>1 DEF Entry, EntryPinned
<1>4. CASE form.type = "document" /\ form.file # 0
  <2>1. Payload(form) = [text |-> writes + 1, doc |-> form.file, cid |-> 0] BY <1>4 DEF Payload
  <2>2. QED BY <1>1, <1>2, <2>1 DEF Entry, EntryPinned
<1>5. CASE form.type = "document" /\ form.file = 0
  <2>1. Payload(form) = [text |-> writes + 1, doc |-> form.base.doc, cid |-> form.base.cid] BY <1>5 DEF Payload
  <2>2. QED BY <1>1, <1>2, <2>1 DEF Entry, EntryPinned
<1>6. QED BY <1>1, <1>3, <1>4, <1>5 DEF FormRecord

\* The entry a form is saved to is not a deleted one.
LEMMA TargetFacts ==
    ASSUME ScreenInv, Shown(form), Target \in Entries, created' = Larger(created, Target)
    PROVE  /\ Target \notin deleted /\ created' \in 0..MaxEntries /\ created <= created' /\ Target <= created'
           /\ created \in Nat
<1>1. created \in 0..MaxEntries /\ deleted \subseteq 1..created BY DEF ScreenInv, FileInv
<1>2. Target \notin deleted BY <1>1, ScreenAssumption DEF ScreenInv, EditInv, Target, Shown
<1>3. QED BY <1>1, <1>2, ScreenAssumption DEF Larger, Entries

\* An entry is written over or made, and no deleted one comes back.
LEMMA WrittenInv ==
    ASSUME ScreenInv, Shown(form), writes < MaxWrites, Target \in Entries,
           vault' = Written(vault), created' = Larger(created, Target), UNCHANGED <<deleted, pins, upload, unseen>>,
           list' = list \/ list' = vault'
    PROVE  CopiesInv' /\ \A i \in deleted : vault'[i] = NoEntry /\ list'[i] = NoEntry
<1>1. /\ Target \notin deleted /\ created' \in 0..MaxEntries /\ created <= created' /\ Target <= created'
      /\ created \in Nat /\ created' \in Nat
  BY TargetFacts
<1>2. Payload(form) \in Entry /\ EntryPinned(Payload(form)) BY PayloadFacts
<1>3. /\ vault \in Vault /\ pins \in [1..MaxFiles -> Nat] /\ deleted \subseteq Entries
      /\ \A i \in deleted : vault[i] = NoEntry /\ list[i] = NoEntry
  BY ScreenAssumption DEF ScreenInv, CopiesInv, CopyFine, FileInv, Entries
<1>4. vault' = [vault EXCEPT ![Target] = Payload(form)] BY DEF Written
<1>5. vault' \in Vault BY <1>2, <1>3, <1>4 DEF Vault
<1>6. vault'[Target] = Payload(form) /\ \A i \in Entries : i # Target => vault'[i] = vault[i]
  BY <1>3, <1>4 DEF Vault
<1>7. \A v : CopyFine(v) => CopyFine(v)'
  <2>1. \A f \in 1..MaxFiles : pins'[f] \in Nat /\ pins[f] <= pins'[f] BY <1>3
  <2>2. TAKE v
  <2>3. QED BY <1>1, <1>3, <2>1, CopyGrows
<1>8. CopyFine(vault)'
  <2>1. \A i \in Entries : i > created' => i # Target /\ i > created
    BY <1>1, ScreenAssumption DEF Entries
  <2>2. \A i \in Entries : i > created' => vault'[i] = NoEntry
    BY <1>6, <2>1 DEF ScreenInv, CopiesInv, CopyFine
  <2>3. \A i \in Entries : EntryPinned(vault[i])'
    BY <1>2, <1>6 DEF ScreenInv, CopiesInv, CopyFine, EntryPinned
  <2>4. QED BY <1>5, <2>2, <2>3 DEF CopyFine
<1>9. list' = list => CopyFine(list)' BY <1>7 DEF ScreenInv, CopiesInv, CopyFine
<1>10. list' = vault' => CopyFine(list)' BY <1>8 DEF CopyFine, EntryPinned
<1>11. CopyFine(upload.copy)' /\ \A u \in unseen' : CopyFine(u.copy)' BY <1>7 DEF ScreenInv, CopiesInv, CopyFine
<1>12. \A i \in deleted : vault'[i] = NoEntry BY <1>1, <1>3, <1>6
<1>13. QED BY <1>3, <1>8, <1>9, <1>10, <1>11, <1>12 DEF CopiesInv

\* The steps that write the file.
LEMMA SaveFormInv == ASSUME ScreenInv, SaveForm PROVE ScreenInv'
<1> USE DEF SaveForm
<1>1. UNCHANGED <<deleted, pins, confirming, upload, update, tx, userOp, op, unseen, lateOps, uploads, sent, key>>
  BY DEF publishVars, netVars
<1>2. CopiesInv' /\ \A i \in deleted : vault'[i] = NoEntry /\ list'[i] = NoEntry BY <1>1, WrittenInv
<1>3. created' \in 0..MaxEntries /\ created <= created' /\ created \in Nat BY TargetFacts
<1>4. FileInv'
  <2>1. form.file \in File BY FormFields DEF ScreenInv, EditInv
  <2>2. blobs' \in [Entries -> File] BY <2>1 DEF ScreenInv, FileInv
  <2>3. writes' \in 0..MaxWrites BY ScreenAssumption DEF ScreenInv, FileInv
  <2>4. deleted \subseteq 1..created' BY <1>3, ScreenAssumption DEF ScreenInv, FileInv
  <2>5. QED BY <1>1, <1>2, <1>3, <2>2, <2>3, <2>4 DEF ScreenInv, FileInv
<1>5. confirming \in 0..created' BY <1>3, ScreenAssumption DEF ScreenInv, EditInv
<1>6. EditInv' BY <1>1, <1>5, NoFormFacts, EntryFacts DEF EditInv, EntryPinned
<1>7. PublishInv' BY <1>1, PublishStays DEF ScreenInv
<1>8. SentInv' BY <1>1, SentStays DEF ScreenInv
<1>9. QED BY <1>2, <1>4, <1>6, <1>7, <1>8 DEF ScreenInv

LEMMA SaveHalfwayInv == ASSUME ScreenInv, SaveHalfway PROVE ScreenInv'
<1> USE DEF SaveHalfway
<1>1. UNCHANGED <<blobs, deleted, pins, list, form, confirming, upload, update, tx, userOp, op, unseen, lateOps, uploads, sent, key>>
  BY DEF formVars, publishVars, netVars
<1>2. CopiesInv' /\ \A i \in deleted : vault'[i] = NoEntry /\ list'[i] = NoEntry BY <1>1, WrittenInv
<1>3. created' \in 0..MaxEntries /\ created <= created' /\ created \in Nat BY TargetFacts
<1>4. FileInv'
  <2>3. writes' \in 0..MaxWrites BY ScreenAssumption DEF ScreenInv, FileInv
  <2>4. deleted \subseteq 1..created' BY <1>3, ScreenAssumption DEF ScreenInv, FileInv
  <2>5. QED BY <1>1, <1>2, <1>3, <2>3, <2>4 DEF ScreenInv, FileInv
<1>5. confirming \in 0..created' /\ (form.open \in {"edit", "hidden"} => form.id \in 1..created')
  BY <1>3, ScreenAssumption DEF ScreenInv, EditInv
<1>6. EditInv' BY <1>1, <1>5 DEF ScreenInv, EditInv, EntryPinned
<1>7. PublishInv' BY <1>1, PublishStays DEF ScreenInv
<1>8. SentInv' BY <1>1, SentStays DEF ScreenInv
<1>9. QED BY <1>2, <1>4, <1>6, <1>7, <1>8 DEF ScreenInv

LEMMA DeleteInv == ASSUME ScreenInv, NEW yes \in BOOLEAN, Delete(yes) PROVE ScreenInv'
<1> USE DEF Delete, LoadAll
<1>1. UNCHANGED <<blobs, writes, created, pins, upload, update, tx, userOp, op, unseen, lateOps, uploads, sent, key>>
  BY DEF publishVars, netVars, fileVars
<1>2. confirming \in Entries /\ confirming \in 1..created /\ form.open \notin {"edit", "hidden"} /\ created \in Nat
  BY ScreenAssumption DEF ScreenInv, EditInv, FileInv, Entries
<1>0. form' = form BY <1>2 DEF Reopened
<1>3. CASE yes
  <2>1. /\ vault' = [vault EXCEPT ![confirming] = NoEntry] /\ deleted' = deleted \cup {confirming}
        /\ list' = vault' /\ confirming' = 0
    BY <1>3
  <2>2. vault \in Vault BY DEF ScreenInv, CopiesInv, CopyFine
  <2>3. vault' \in Vault BY <1>2, <2>1, <2>2 DEF Vault
  <2>4. vault'[confirming] = NoEntry /\ \A i \in Entries : i # confirming => vault'[i] = vault[i]
    BY <1>2, <2>1, <2>2 DEF Vault
  <2>5. CopyFine(vault)'
    BY <1>1, <1>2, <2>3, <2>4, EntryFacts DEF ScreenInv, CopiesInv, CopyFine, EntryPinned
  <2>6. CopiesInv' BY <1>1, <2>1, <2>5 DEF ScreenInv, CopiesInv, CopyFine, EntryPinned
  <2>7. FileInv'
    <3>1. deleted \subseteq Entries BY ScreenAssumption DEF ScreenInv, FileInv, Entries
    <3>2. \A i \in deleted' : vault'[i] = NoEntry /\ list'[i] = NoEntry
      BY <2>1, <2>4, <3>1 DEF ScreenInv, FileInv
    <3>3. QED BY <1>1, <1>2, <2>1, <3>2 DEF ScreenInv, FileInv
  <2>8. EditInv' BY <1>0, <1>1, <1>2, <2>1 DEF ScreenInv, EditInv, EntryPinned
  <2>9. QED BY <1>1, <2>6, <2>7, <2>8, PublishStays, SentStays DEF ScreenInv
<1>4. CASE ~yes
  <2>1. UNCHANGED <<fileVars, list>> /\ confirming' = 0 BY <1>4
  <2>2. UNCHANGED <<fileVars, list, publishVars, netVars, key>> BY <2>1
  <2>3. EditInv' BY <1>0, <1>1, <1>2, <2>1 DEF ScreenInv, EditInv, EntryPinned, fileVars
  <2>4. QED BY <2>2, <2>3, FormMoves
<1>5. QED BY <1>3, <1>4

LEMMA ChangeProfilesInv == ASSUME ScreenInv, ChangeProfiles PROVE ScreenInv'
<1> USE DEF ChangeProfiles, LoadAll
<1>1. UNCHANGED <<vault, blobs, writes, created, deleted, pins, confirming>> /\ list' = vault
      /\ form' = Reopened(vault)
  BY DEF fileVars
<1>2. UNCHANGED <<upload, update, tx, userOp, op, unseen, lateOps, uploads, sent, key>> BY DEF publishVars, netVars
<1>3. CopiesInv' BY <1>1, <1>2 DEF ScreenInv, CopiesInv, CopyFine, EntryPinned
<1>4. FileInv' BY <1>1 DEF ScreenInv, FileInv
<1>5. /\ form \in FormRecord /\ vault \in Vault /\ EntryPinned(form.base) /\ \A i \in Entries : EntryPinned(vault[i])
      /\ form.open \in {"edit", "hidden"} => form.id \in Entries /\ form.id \in 1..created /\ confirming = 0
      /\ \A i \in deleted : vault[i] = NoEntry
  BY ScreenAssumption DEF ScreenInv, EditInv, CopiesInv, CopyFine, FileInv, Entries
<1>6. EditInv'
  <2>1. CASE form.open \notin {"edit", "hidden"}
    <3>1. form' = form BY <1>1, <1>5, <2>1, ReopenedFacts
    <3>2. QED BY <1>1, <3>1, EditStays DEF ScreenInv
  <2>2. CASE form.open \in {"edit", "hidden"}
    <3>1. /\ form' \in FormRecord /\ form'.id = form.id /\ form'.open \in {"edit", "hidden"}
          /\ form'.open = "edit" => form'.base = vault[form.id] /\ form'.base # NoEntry
          /\ form'.open = "hidden" => form'.base = NoEntry
      BY <1>1, <1>5, <2>2, ReopenedFacts
    <3>2. EntryPinned(form'.base) BY <1>5, <2>2, <3>1, EntryFacts DEF EntryPinned
    <3>3. form'.open = "edit" => form'.id \notin deleted BY <1>5, <3>1
    <3>4. QED BY <1>1, <1>5, <2>2, <3>1, <3>2, <3>3 DEF ScreenInv, EditInv, EntryPinned
  <2>3. QED BY <2>1, <2>2
<1>7. QED BY <1>2, <1>3, <1>4, <1>6, PublishStays, SentStays DEF ScreenInv

LEMMA ApproveEditInv == ASSUME ScreenInv, NEW id \in Entries, ApproveEdit(id) PROVE ScreenInv'
<1> USE DEF ApproveEdit
<1>1. UNCHANGED <<blobs, pins, list, form, confirming>> BY DEF formVars
<1>2. UNCHANGED <<upload, update, tx, userOp, op, lateOps, uploads, sent, key>> BY DEF publishVars
<1> DEFINE e == [text |-> writes + 1, doc |-> 0, cid |-> 0]
<1>3. vault \in Vault /\ writes \in 0..MaxWrites /\ writes + 1 \in 1..MaxWrites /\ created \in 0..MaxEntries
      /\ created \in Nat /\ deleted \subseteq 1..created
  BY ScreenAssumption DEF ScreenInv, CopiesInv, CopyFine, FileInv
<1>4. e \in Entry /\ e.cid = 0 BY <1>3, EntryFacts DEF Entry
<1>5. vault' = [vault EXCEPT ![id] = e] OBVIOUS
<1> HIDE DEF e
<1>6. vault' \in Vault /\ vault'[id] = e /\ \A i \in Entries : i # id => vault'[i] = vault[i]
  BY <1>3, <1>4, <1>5 DEF Vault
<1>7. created' \in 0..MaxEntries /\ created <= created' /\ id <= created' /\ created' \in Nat
  BY <1>3, ScreenAssumption DEF Larger, Entries
<1>8. \A v : CopyFine(v) => CopyFine(v)'
  <2>1. pins \in [1..MaxFiles -> Nat] /\ \A f \in 1..MaxFiles : pins'[f] \in Nat /\ pins[f] <= pins'[f]
    BY <1>1 DEF ScreenInv, FileInv
  <2>2. TAKE v
  <2>3. QED BY <1>3, <1>7, <2>1, CopyGrows
<1>9. CopyFine(vault)'
  <2>1. \A i \in Entries : i > created' => i # id /\ i > created
    BY <1>3, <1>7, ScreenAssumption DEF Entries
  <2>2. \A i \in Entries : i > created' => vault'[i] = NoEntry
    BY <1>6, <2>1 DEF ScreenInv, CopiesInv, CopyFine
  <2>3. \A i \in Entries : EntryPinned(vault[i])'
    BY <1>1, <1>4, <1>6 DEF ScreenInv, CopiesInv, CopyFine, EntryPinned
  <2>4. QED BY <1>6, <2>2, <2>3 DEF CopyFine
<1>10. CopiesInv'
  <2>1. CopyFine(list)' /\ CopyFine(upload.copy)' BY <1>1, <1>2, <1>8 DEF ScreenInv, CopiesInv, CopyFine
  <2>2. ASSUME NEW u \in unseen' PROVE CopyFine(u.copy)'
    <3>1. CASE u \in unseen BY <1>8, <3>1 DEF ScreenInv, CopiesInv
    <3>2. CASE u = [by |-> "modal", tab |-> remounts, copy |-> vault']
      <4>1. u.copy = vault' BY <3>2
      <4>2. QED BY <1>9, <4>1 DEF CopyFine, EntryPinned
    <3>3. QED BY <3>1, <3>2
  <2>3. QED BY <1>9, <2>1, <2>2 DEF CopiesInv
<1>11. FileInv'
  <2>1. deleted \subseteq Entries BY <1>3, ScreenAssumption DEF Entries
  <2>2. \A i \in deleted' : vault'[i] = NoEntry /\ list'[i] = NoEntry
    BY <1>1, <1>6, <2>1 DEF ScreenInv, FileInv
  <2>3. deleted' \subseteq 1..created'
    <3>1. deleted \subseteq 1..created /\ created \in Nat BY <1>3
    <3>2. 1..created \subseteq 1..created' BY <1>7, <3>1
    <3>3. deleted' \subseteq deleted BY <1>1
    <3>4. QED BY <3>1, <3>2, <3>3
  <2>4. writes' \in 0..MaxWrites BY <1>3
  <2>5. QED BY <1>1, <1>7, <2>2, <2>3, <2>4 DEF ScreenInv, FileInv
<1>12. EditInv'
  <2>1. confirming \in 0..created' /\ (form.open \in {"edit", "hidden"} => form.id \in 1..created')
    BY <1>3, <1>7 DEF ScreenInv, EditInv
  <2>2. QED BY <1>1, <2>1 DEF ScreenInv, EditInv, EntryPinned
<1>13. QED BY <1>2, <1>10, <1>11, <1>12, PublishStays, SentStays DEF ScreenInv

-----------------------------------------------------------------------------
(* Publication.                                                              *)
\* What an upload pins, and what it brings back.
LEMMA PinsGrow ==
    ASSUME ScreenInv, NEW v, Pin(v)
    PROVE  /\ pins' \in [1..MaxFiles -> Nat] /\ \A f \in 1..MaxFiles : pins'[f] \in Nat /\ pins[f] <= pins'[f]
           /\ \A i \in NeedPin(v) : blobs[i] \in 1..MaxFiles /\ pins'[blobs[i]] > 0
<1> DEFINE Of(f) == {i \in NeedPin(v) : blobs[i] = f}
<1>1. \A f : IsFiniteSet(Of(f)) /\ Cardinality(Of(f)) \in Nat /\ (Cardinality(Of(f)) = 0 <=> Of(f) = {})
  <2>1. IsFiniteSet(Entries) BY FS_Interval, ScreenAssumption DEF Entries
  <2>2. \A f : Of(f) \subseteq Entries BY DEF NeedPin
  <2>3. QED BY <2>1, <2>2, FS_Subset, FS_CardinalityType, FS_EmptySet
<1>2. pins' = [f \in 1..MaxFiles |-> pins[f] + Cardinality(Of(f))] BY DEF Pin
<1>3. pins \in [1..MaxFiles -> Nat] /\ blobs \in [Entries -> File] BY DEF ScreenInv, FileInv
<1>4. \A i \in NeedPin(v) : i \in Of(blobs[i]) /\ blobs[i] \in 1..MaxFiles
  BY <1>3, ScreenAssumption DEF NeedPin, File
<1> HIDE DEF Of
<1>5. \A i \in NeedPin(v) : Cardinality(Of(blobs[i])) > 0 BY <1>1, <1>4
<1>6. QED BY <1>1, <1>2, <1>3, <1>4, <1>5

LEMMA PinInv ==
    ASSUME ScreenInv, NEW v, CopyFine(v), Pin(v), UNCHANGED <<blobs, writes, created, list, form, confirming>>,
           upload' = upload \/ upload' = NoUpload, unseen' \subseteq unseen
    PROVE  CopiesInv' /\ FileInv' /\ EditInv'
<1>1. /\ pins' \in [1..MaxFiles -> Nat] /\ \A f \in 1..MaxFiles : pins'[f] \in Nat /\ pins[f] <= pins'[f]
      /\ \A i \in NeedPin(v) : blobs[i] \in 1..MaxFiles /\ pins'[blobs[i]] > 0
  BY PinsGrow
<1>2. created \in Nat /\ pins \in [1..MaxFiles -> Nat] BY DEF ScreenInv, FileInv
<1>3. \A w : CopyFine(w) => CopyFine(w)'
  <2>1. TAKE w
  <2>2. QED BY <1>1, <1>2, CopyGrows
<1>4. vault' = vault \/ vault' = Pinned(v) BY DEF Pin
<1>5. ASSUME NEW w, w = Pinned(v) PROVE CopyFine(w)'
  <2> DEFINE p == Pinned(v)
  <2>1. v \in Vault /\ \A i \in Entries : v[i] \in Entry \cup {NoEntry} BY DEF CopyFine, Vault
  <2>2. \A i \in NeedPin(v) : i \in Entries /\ v[i] # NoEntry /\ blobs[i] \in File
    BY <1>1, EntryFacts, ScreenAssumption DEF NeedPin, File
  <2>3. ASSUME NEW i \in Entries
        PROVE  /\ p[i] \in Entry \cup {NoEntry} /\ (p[i].cid # 0 => pins'[p[i].cid] > 0)
               /\ i > created => p[i] = NoEntry
    <3>1. CASE i \in NeedPin(v)
      <4>1. p[i] = [v[i] EXCEPT !.cid = blobs[i]] BY <3>1 DEF Pinned
      <4>2. p[i] \in Entry /\ p[i].cid = blobs[i] BY <2>1, <2>2, <3>1, <4>1, EntryFacts
      <4>3. ~(i > created) BY <2>2, <3>1 DEF CopyFine
      <4>4. QED BY <1>1, <3>1, <4>2, <4>3
    <3>2. CASE i \notin NeedPin(v)
      <4>1. p[i] = v[i] BY <3>2 DEF Pinned
      <4>2. CopyFine(v)' BY <1>3
      <4>3. QED BY <2>1, <4>1, <4>2 DEF CopyFine, EntryPinned
    <3>3. QED BY <3>1, <3>2
  <2>4. p = [i \in Entries |-> p[i]] BY DEF Pinned
  <2> HIDE DEF p
  <2>5. p \in Vault BY <2>3, <2>4 DEF Vault
  <2>6. w = p BY <1>5 DEF p
  <2>7. QED BY <2>3, <2>5, <2>6 DEF CopyFine, EntryPinned
<1>6. CopyFine(vault)'
  <2>1. CASE vault' = vault BY <1>3, <2>1 DEF ScreenInv, CopiesInv, CopyFine
  <2>2. CASE vault' = Pinned(v) BY <1>5, <2>2 DEF CopyFine, EntryPinned
  <2>3. QED BY <1>4, <2>1, <2>2
<1>7. CopyFine(NoUpload.copy) BY <1>2, CopyOfNothing DEF NoUpload
<1>8. CopiesInv'
  <2>1. CopyFine(list)' BY <1>3 DEF ScreenInv, CopiesInv, CopyFine
  <2>2. CopyFine(upload.copy)' /\ \A u \in unseen' : CopyFine(u.copy)' BY <1>3, <1>7 DEF ScreenInv, CopiesInv, CopyFine
  <2>3. QED BY <1>6, <2>1, <2>2 DEF CopiesInv
<1>9. deleted' \subseteq deleted /\ \A i \in deleted' : vault'[i] = NoEntry BY DEF Pin
<1>10. FileInv' BY <1>1, <1>9 DEF ScreenInv, FileInv
<1>11. EditInv'
  <2>1. EntryPinned(form.base)'
    <3>1. form.base \in Entry \cup {NoEntry} BY FormFields DEF ScreenInv, EditInv
    <3>2. form.base.cid # 0 => form.base.cid \in 1..MaxFiles BY <3>1, EntryFacts, ScreenAssumption DEF File
    <3>3. QED BY <1>1, <1>2, <3>2 DEF ScreenInv, EditInv, EntryPinned
  <2>2. QED BY <1>9, <2>1 DEF ScreenInv, EditInv
<1>12. QED BY <1>8, <1>10, <1>11

\* An upload that has ended leaves both buttons to the next.
LEMMA UploadEnds ==
    ASSUME ScreenInv, upload.by # "none", upload' = NoUpload, UNCHANGED <<key, tx>>,
           userOp' = userOp \/ userOp' \in {"idle", "sending"}
    PROVE  PublishInv'
BY DEF ScreenInv, PublishInv, ButtonsTakeTurns, NoUpload

\* The number of the upload that ends is new.
LEMMA NewUpload ==
    ASSUME ScreenInv, uploads < MaxUploads, uploads' = uploads + 1
    PROVE  /\ uploads' \in 1..MaxUploads /\ uploads' \in Upload /\ sent[uploads'] = 0
           /\ update # uploads' /\ op # uploads' /\ uploads' \notin lateOps
           /\ update \in 0..uploads' /\ op \in 0..uploads' /\ lateOps \subseteq 1..uploads'
           /\ \A u \in Upload : u > uploads' => sent[u] = 0
<1>1. uploads \in 0..MaxUploads /\ update \in 0..uploads /\ op \in 0..uploads /\ lateOps \subseteq 1..uploads
      /\ \A u \in Upload : u > uploads => sent[u] = 0
  BY DEF ScreenInv, SentInv
<1>2. uploads' \in 1..MaxUploads /\ uploads' > uploads BY <1>1, ScreenAssumption
<1>3. sent[uploads'] = 0 BY <1>1, <1>2 DEF Upload
<1>4. \A u \in Upload : u > uploads' => u > uploads BY <1>1, <1>2, ScreenAssumption DEF Upload
<1>5. QED BY <1>1, <1>2, <1>3, <1>4, ScreenAssumption DEF Upload

LEMMA UploadDoneInv == ASSUME ScreenInv, UploadDone PROVE ScreenInv'
<1> USE DEF UploadDone, Done
<1>1. PICK v : v = upload.copy OBVIOUS
<1>2. CopyFine(v) /\ Pin(v) BY <1>1 DEF ScreenInv, CopiesInv
<1>3. UNCHANGED <<blobs, writes, created, list, form, confirming, unseen, lateOps, key, tx, sent>> /\ upload' = NoUpload
  BY DEF formVars
<1>4. CopiesInv' /\ FileInv' /\ EditInv' BY <1>2, <1>3, PinInv
<1>5. PublishInv' BY <1>3, UploadEnds
<1>6. /\ uploads' \in 1..MaxUploads /\ uploads' \in Upload /\ sent[uploads'] = 0
      /\ update # uploads' /\ op # uploads' /\ uploads' \notin lateOps
      /\ update \in 0..uploads' /\ op \in 0..uploads' /\ lateOps \subseteq 1..uploads'
      /\ \A u \in Upload : u > uploads' => sent[u] = 0
  BY NewUpload
<1>7. SentInv'
  <2>1. CASE upload.by = "wallet" /\ update' = uploads' /\ UNCHANGED <<userOp, op>>
    BY <1>3, <1>6, <2>1, ScreenAssumption DEF ScreenInv, SentInv
  <2>2. CASE userOp' = "sending" /\ op' = uploads' /\ UNCHANGED update
    BY <1>3, <1>6, <2>2, ScreenAssumption DEF ScreenInv, SentInv
  <2>3. QED BY <2>1, <2>2
<1>8. QED BY <1>4, <1>5, <1>7 DEF ScreenInv

\* An upload that fails may have pinned and saved, or changed nothing.
LEMMA FailedInv2 ==
    ASSUME ScreenInv, NEW v, CopyFine(v), Failed(v), UNCHANGED <<blobs, writes, created, list, form, confirming>>,
           upload' = upload \/ upload' = NoUpload, unseen' \subseteq unseen
    PROVE  CopiesInv' /\ FileInv' /\ EditInv'
<1>1. CASE Pin(v) BY <1>1, PinInv
<1>2. CASE UNCHANGED <<vault, pins, deleted>>
  <2>1. CopiesInv' BY <1>2, CopiesStay DEF ScreenInv, FileInv
  <2>2. FileInv' BY <1>2 DEF ScreenInv, FileInv
  <2>3. EditInv' BY <1>2, EditStays DEF ScreenInv
  <2>4. QED BY <2>1, <2>2, <2>3
<1>3. QED BY <1>1, <1>2 DEF Failed

LEMMA UploadFailsInv == ASSUME ScreenInv, UploadFails PROVE ScreenInv'
<1> USE DEF UploadFails
<1>1. PICK v : v = upload.copy OBVIOUS
<1>2. CopyFine(v) /\ Failed(v) BY <1>1 DEF ScreenInv, CopiesInv
<1>3. UNCHANGED <<blobs, writes, created, list, form, confirming, unseen, lateOps, key, tx, update, op, uploads, sent>>
      /\ upload' = NoUpload
  BY DEF formVars, Failed
<1>4. CopiesInv' /\ FileInv' /\ EditInv' BY <1>2, <1>3, FailedInv2
<1>5. PublishInv' BY <1>3, UploadEnds
<1>6. SentInv' BY <1>3, SentStays DEF ScreenInv
<1>7. QED BY <1>4, <1>5, <1>6 DEF ScreenInv

LEMMA UnseenDoneInv == ASSUME ScreenInv, NEW u \in unseen, UnseenDone(u) PROVE ScreenInv'
<1> USE DEF UnseenDone, Done
<1>1. PICK v : v = u.copy OBVIOUS
<1>2. CopyFine(v) /\ Pin(v) BY <1>1 DEF ScreenInv, CopiesInv
<1>3. UNCHANGED <<blobs, writes, created, list, form, confirming, upload, key, tx, userOp, update, op, sent>>
      /\ unseen' \subseteq unseen
  BY DEF formVars, publishVars
<1>4. CopiesInv' /\ FileInv' /\ EditInv' BY <1>2, <1>3, PinInv
<1>5. PublishInv' BY <1>3, PublishStays DEF ScreenInv
<1>6. /\ uploads' \in 1..MaxUploads /\ uploads' \in Upload /\ sent[uploads'] = 0
      /\ update # uploads' /\ op # uploads' /\ uploads' \notin lateOps
      /\ update \in 0..uploads' /\ op \in 0..uploads' /\ lateOps \subseteq 1..uploads'
      /\ \A x \in Upload : x > uploads' => sent[x] = 0
  BY NewUpload
<1>7. SentInv'
  <2>1. lateOps' \subseteq lateOps \cup {uploads'} OBVIOUS
  <2>2. lateOps' \subseteq 1..uploads' /\ \A x \in lateOps' : sent'[x] = 0
    BY <1>3, <1>6, <2>1 DEF ScreenInv, SentInv
  <2>3. QED BY <1>3, <1>6, <2>1, <2>2, ScreenAssumption DEF ScreenInv, SentInv
<1>8. QED BY <1>4, <1>5, <1>7 DEF ScreenInv

LEMMA UnseenFailsInv == ASSUME ScreenInv, NEW u \in unseen, UnseenFails(u) PROVE ScreenInv'
<1> USE DEF UnseenFails
<1>1. PICK v : v = u.copy OBVIOUS
<1>2. CopyFine(v) /\ Failed(v) BY <1>1 DEF ScreenInv, CopiesInv
<1>3. UNCHANGED <<blobs, writes, created, list, form, confirming, upload, key, tx, userOp, update, op, lateOps, uploads, sent>>
      /\ unseen' \subseteq unseen
  BY DEF formVars, publishVars, Failed
<1>4. CopiesInv' /\ FileInv' /\ EditInv' BY <1>2, <1>3, FailedInv2
<1>5. QED BY <1>3, <1>4, PublishStays, SentStays DEF ScreenInv

\* A step of the publication that does not touch the file.
LEMMA PublishMoves ==
    ASSUME ScreenInv, UNCHANGED <<fileVars, formVars, unseen>>,
           upload' = upload \/ upload'.copy = vault, PublishInv', SentInv'
    PROVE  ScreenInv'
<1>1. UNCHANGED <<vault, list, created, pins, form, confirming, deleted>> BY DEF fileVars, formVars
<1>2. CopiesInv' BY <1>1, CopiesStay DEF ScreenInv, FileInv
<1>3. FileInv' BY <1>1, FileStays DEF ScreenInv
<1>4. QED BY <1>1, <1>2, <1>3, EditStays DEF ScreenInv

\* The two buttons, the wallet and the bundler.
LEMMA PressInv == ASSUME ScreenInv, PressSend \/ PressDeviceKey PROVE ScreenInv'
<1> USE DEF PressSend, PressDeviceKey, Start
<1>1. UNCHANGED <<fileVars, formVars, netVars, update, tx, key>> /\ upload'.copy = vault OBVIOUS
<1>2. PublishInv' BY DEF ScreenInv, PublishInv, ButtonsTakeTurns, Disabled
<1>3. UNCHANGED <<uploads, update, op, lateOps, sent, unseen>> /\ (userOp' = "sending" => userOp = "sending")
  BY DEF netVars
<1>4. SentInv' BY <1>3, SentStays DEF ScreenInv
<1>5. QED BY <1>1, <1>2, <1>3, <1>4, PublishMoves

LEMMA SendUpdateInv == ASSUME ScreenInv, SendUpdate PROVE ScreenInv'
<1> USE DEF SendUpdate
<1>1. PublishInv' BY DEF ScreenInv, PublishInv, ButtonsTakeTurns
<1>2. update \in Upload /\ sent[update] = 0 /\ uploads \in 0..MaxUploads /\ update <= uploads
  BY ScreenAssumption DEF ScreenInv, SentInv, Upload
<1>3. sent' \in [Upload -> {0, 1}] /\ \A u \in Upload : u # update => sent'[u] = sent[u]
  BY <1>2 DEF ScreenInv, SentInv
<1>4. \A u \in Upload : u > uploads => u # update BY <1>2, ScreenAssumption DEF Upload
<1>5. lateOps \subseteq Upload /\ (op # 0 => op \in Upload) BY ScreenAssumption DEF ScreenInv, SentInv, Upload
<1>6. SentInv' BY <1>2, <1>3, <1>4, <1>5, ScreenAssumption DEF ScreenInv, SentInv
<1>7. QED BY <1>1, <1>6, PublishMoves

\* One of the uploads still to be announced is announced, or refused.
LEMMA AnnounceInv ==
    ASSUME ScreenInv, NEW u \in Upload, NEW accepted \in BOOLEAN, Announce(u, accepted), UNCHANGED <<uploads, update>>,
           sent[u] = 0, u <= uploads, update # u, op' # u, u \notin lateOps', lateOps' \subseteq lateOps,
           op' = op \/ op' = 0, userOp' = "sending" => userOp = "sending" /\ op' = op
    PROVE  SentInv'
<1>1. uploads \in 0..MaxUploads /\ sent \in [Upload -> {0, 1}] BY DEF ScreenInv, SentInv
<1>2. sent' \in [Upload -> {0, 1}] /\ \A x \in Upload : x # u => sent'[x] = sent[x]
  BY <1>1 DEF Announce
<1>3. \A x \in Upload : x > uploads => x # u BY <1>1, ScreenAssumption DEF Upload
<1>4. lateOps \subseteq Upload /\ (op # 0 => op \in Upload) /\ (update # 0 => update \in Upload)
  BY ScreenAssumption DEF ScreenInv, SentInv, Upload
<1>5. QED BY <1>1, <1>2, <1>3, <1>4 DEF ScreenInv, SentInv

LEMMA SendUserOpInv == ASSUME ScreenInv, NEW yes \in BOOLEAN, SendUserOp(yes) PROVE ScreenInv'
<1> USE DEF SendUserOp
<1>1. UNCHANGED <<fileVars, formVars, unseen, upload, update, key, tx, uploads, lateOps>> OBVIOUS
<1>2. userOp = "sending" /\ userOp' \in {"waiting", "idle"} OBVIOUS
<1>3. PublishInv' BY <1>1, <1>2 DEF ScreenInv, PublishInv, ButtonsTakeTurns
<1>4. op \in Upload /\ op # 0 /\ sent[op] = 0 /\ op <= uploads /\ update # op /\ op \notin lateOps
  BY ScreenAssumption DEF ScreenInv, SentInv, Upload
<1>5. Announce(op, yes) /\ op' = 0 OBVIOUS
<1>6. PICK u : u = op OBVIOUS
<1>7. SentInv' BY <1>1, <1>2, <1>4, <1>5, <1>6, AnnounceInv
<1>8. QED BY <1>1, <1>3, <1>7, PublishMoves

LEMMA SendLateInv ==
    ASSUME ScreenInv, NEW u \in lateOps, NEW yes \in BOOLEAN, SendLateUserOp(u, yes) PROVE ScreenInv'
<1> USE DEF SendLateUserOp
<1>1. UNCHANGED <<fileVars, formVars, unseen, upload, update, op, key, tx, userOp, uploads>> BY DEF publishVars
<1>2. PublishInv' BY <1>1, PublishStays DEF ScreenInv
<1>3. u \in Upload /\ u # 0 /\ sent[u] = 0 /\ u <= uploads /\ update # u /\ op # u
  BY ScreenAssumption DEF ScreenInv, SentInv, Upload
<1>4. SentInv' BY <1>1, <1>3, AnnounceInv
<1>5. QED BY <1>1, <1>2, <1>4, PublishMoves

LEMMA AnswersInv ==
    ASSUME ScreenInv, \/ JustPublishedEnds \/ AnswerWallet \/ Receipt \/ PollsRunOut
                      \/ \E yes \in BOOLEAN : ReceiptOfUserOp(yes)
    PROVE  ScreenInv'
<1> USE DEF JustPublishedEnds, AnswerWallet, Receipt, PollsRunOut, ReceiptOfUserOp
<1>1. UNCHANGED <<fileVars, formVars, netVars, upload, update, op, key>> OBVIOUS
<1>2. \/ UNCHANGED <<tx, userOp>>
      \/ tx' \in {"confirming", "idle"} /\ UNCHANGED userOp
      \/ userOp = "waiting" /\ userOp' = "idle" /\ UNCHANGED tx
  OBVIOUS
<1>3. PublishInv' BY <1>1, <1>2 DEF ScreenInv, PublishInv, ButtonsTakeTurns
<1>4. UNCHANGED <<uploads, update, op, lateOps, sent, unseen>> /\ (userOp' = "sending" => userOp = "sending")
  BY <1>1, <1>2 DEF netVars
<1>5. SentInv' BY <1>4, SentStays DEF ScreenInv
<1>6. QED BY <1>1, <1>3, <1>4, <1>5, PublishMoves

\* The tab is left with a publication under way.
LEMMA RemountInv == ASSUME ScreenInv, Remount PROVE ScreenInv'
<1> USE DEF Remount
<1>1. UNCHANGED <<vault, blobs, writes, created, deleted, pins>> BY DEF fileVars
<1>2. created \in Nat /\ CopyFine(NoUpload.copy) BY CopyOfNothing DEF ScreenInv, FileInv, NoUpload
<1>3. unseen' \subseteq unseen \cup {upload} OBVIOUS
<1>4. CopyFine(vault) /\ CopyFine(list') /\ CopyFine(upload'.copy) /\ \A u \in unseen' : CopyFine(u.copy)
  BY <1>2, <1>3 DEF ScreenInv, CopiesInv
<1>5. CopiesInv' BY <1>1, <1>4 DEF CopiesInv, CopyFine, EntryPinned
<1>6. FileInv' BY <1>1 DEF ScreenInv, FileInv
<1>7. EditInv' BY <1>1, <1>2, NoFormFacts, EntryFacts DEF EditInv, EntryPinned
<1>8. PublishInv' BY DEF ScreenInv, PublishInv, ButtonsTakeTurns, NoUpload
<1>9. SentInv'
  <2>1. lateOps' \subseteq lateOps \cup {op} /\ (op = 0 => lateOps' = lateOps) OBVIOUS
  <2>2. lateOps' \subseteq 1..uploads /\ \A u \in lateOps' : sent[u] = 0
    BY <2>1, ScreenAssumption DEF ScreenInv, SentInv
  <2>3. QED BY <2>2, ScreenAssumption DEF ScreenInv, SentInv
<1>10. QED BY <1>5, <1>6, <1>7, <1>8, <1>9 DEF ScreenInv

\* Every step is one of these.
LEMMA ScreenStep == ASSUME ScreenInv, [ScreenNext]_screenVars PROVE ScreenInv'
<1>1. CASE UNCHANGED screenVars
  <2>1. UNCHANGED <<fileVars, formVars, publishVars, netVars, key>> BY <1>1 DEF screenVars
  <2>2. UNCHANGED <<list, form, confirming, created, deleted, pins>> BY <2>1 DEF fileVars, formVars
  <2>3. EditInv' BY <2>2, EditStays DEF ScreenInv
  <2>4. QED BY <2>1, <2>2, <2>3, FormMoves
<1>2. CASE ScreenNext
  BY <1>2, KeyInv, OpenAddInv, SwitchPickInv, SaveFormInv, SaveHalfwayInv, OpenEditInv, AskDeleteInv, ApproveEditInv,
     DeleteInv, SendUserOpInv, AnswersInv, ChangeProfilesInv, PressInv, UploadDoneInv, UploadFailsInv, SendUpdateInv,
     RemountInv, UnseenDoneInv, UnseenFailsInv, SendLateInv DEF ScreenNext
<1>3. QED BY <1>1, <1>2

\* The invariant of every behaviour.
LEMMA ScreenInvHolds == ScreenSpec => []ScreenInv
BY ScreenInitInv, ScreenStep, PTL DEF ScreenSpec

-----------------------------------------------------------------------------
\* For any entries, files, writes, uploads and changes of the tab: pins that are named
\* were uploaded, the two buttons of a tab take turns, an upload is announced at most
\* once, and no form is open on a deleted entry (VaultManagement.tsx).
THEOREM ScreenCorrectHolds == ScreenSpec => []ScreenCorrect
<1>1. ASSUME ScreenInv PROVE ScreenTypeOK
  <2>1. {vault, list, upload.copy} \cup {u.copy : u \in unseen} \subseteq Vault
    BY <1>1 DEF ScreenInv, CopiesInv, CopyFine
  <2>2. created \in Entries \cup {0} /\ confirming \in Entries \cup {0}
    BY <1>1, ScreenAssumption DEF ScreenInv, FileInv, EditInv, Entries
  <2>3. form.base \in Entry \cup {NoEntry} BY <1>1, FormFields DEF ScreenInv, EditInv
  <2>4. QED BY <1>1, <2>1, <2>2, <2>3 DEF ScreenInv, FileInv, EditInv, PublishInv, SentInv, ScreenTypeOK
<1>2. ScreenInv => PinsAreUploaded BY DEF ScreenInv, CopiesInv, CopyFine, EntryPinned, PinsAreUploaded
<1>3. ScreenInv => ButtonsTakeTurns BY DEF ScreenInv, PublishInv
<1>4. ScreenInv => AnnouncedOnce
  <2>1. \A x \in {0, 1} : x <= 1 OBVIOUS
  <2>2. QED BY <2>1 DEF ScreenInv, SentInv, AnnouncedOnce
<1>5. ScreenInv => FormIsOfNoDeleted BY DEF ScreenInv, EditInv, FormIsOfNoDeleted
<1>6. ScreenInv => ScreenCorrect BY <1>1, <1>2, <1>3, <1>4, <1>5 DEF ScreenCorrect
<1>7. QED BY <1>6, ScreenInvHolds, PTL
=============================================================================

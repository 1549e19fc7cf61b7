---------------------------- MODULE DevicePairing ----------------------------
(***************************************************************************)
(* Two cards of the devices tab register a device in two transactions of    *)
(* the smart account, a commitment that hides the key and, four seconds     *)
(* after its receipt, the reveal: PairDevice for a phone whose address the  *)
(* user pastes, and DesktopDevice for this computer.  They are one machine  *)
(* that differs in what is reset and whether it can be cancelled; card says *)
(* which of them a behaviour is about.  React runs an effect right after    *)
(* the change it depends on; encrypting the vault key for the new device is *)
(* part of the step that sends the reveal, and pairing succeeds without it. *)
(***************************************************************************)
EXTENDS Naturals, WalletWrite

CONSTANTS
    Phones,         \* addresses the user may paste
    MaxAttempts,    \* bound: times Register is pressed; each draws a salt
    MaxReverts      \* bound: commitments that revert

ASSUME PairingAssumption == {MaxAttempts, MaxReverts} \subseteq Nat /\ "none" \notin Phones

VARIABLES
    card,           \* "phone" or "desktop"
    isOpen,
    addressInput,
    phase,          \* "idle", "committing", "registering"
    salt,           \* the salt of the last attempt, 0 before the first
    commitHook,
    commitArgs,     \* what the last commitment covers
    revealHook,
    revealArgs,
    timer,          \* what the four-second timer will reveal
    commits,        \* on chain: salt -> what it covers and its age in blocks, 1 or 2
    registered,     \* on chain: devices
    wantedDevices,  \* addresses Register was pressed for
    dropped,        \* the user closed the form since Register was pressed
    commitReverts

pairFormVars == <<isOpen, addressInput>>
hookVars == <<commitHook, commitArgs, revealHook, revealArgs, timer>>
pairChainVars == <<commits, registered>>
pairGhosts == <<wantedDevices, dropped>>
pairVars == <<card, pairFormVars, phase, salt, hookVars, pairChainVars, pairGhosts, commitReverts>>

PairDevices == Phones \cup {"desktop"}
NoReveal == [device |-> "none", salt |-> 0]
Reveal == [device : PairDevices, salt : 1..MaxAttempts]
NoCommit == [device |-> "none", age |-> 0]

PairInit ==
    /\ card \in {"phone", "desktop"}
    /\ isOpen = (card = "desktop") /\ addressInput = IF card = "desktop" THEN "desktop" ELSE "none"
    /\ phase = "idle" /\ salt = 0
    /\ commitHook = "idle" /\ commitArgs = NoReveal
    /\ revealHook = "idle" /\ revealArgs = NoReveal /\ timer = NoReveal
    /\ commits = [s \in 1..MaxAttempts |-> NoCommit] /\ registered = {}
    /\ wantedDevices = {} /\ dropped = FALSE /\ commitReverts = 0
-----------------------------------------------------------------------------
OpenCard == ~isOpen /\ isOpen' = TRUE
            /\ UNCHANGED <<card, addressInput, phase, salt, hookVars, pairChainVars, pairGhosts, commitReverts>>

PasteAddress(a) ==
    /\ card = "phone" /\ isOpen /\ phase = "idle"
    /\ addressInput' = a
    /\ UNCHANGED <<card, isOpen, phase, salt, hookVars, pairChainVars, pairGhosts, commitReverts>>

ClosedForm ==
    /\ isOpen' = FALSE /\ addressInput' = "none" /\ phase' = "idle"

\* closePairing, the Cancel button: what is under way goes on.
ClosePairing ==
    /\ card = "phone" /\ isOpen
    /\ ClosedForm
    /\ dropped' = TRUE
    /\ UNCHANGED <<card, salt, hookVars, pairChainVars, wantedDevices, commitReverts>>

DrawSalt == salt' = salt + 1

\* handleRegister.  PairDevice resets both hooks; sending resets the hook that
\* sends, and with it the error or success the effects look at.
PressRegister ==
    /\ isOpen /\ phase = "idle" /\ addressInput # "none"
    /\ card = "desktop" => "desktop" \notin registered
    /\ salt < MaxAttempts
    /\ DrawSalt
    /\ commitHook' = "pending" /\ commitArgs' = [device |-> addressInput, salt |-> salt']
    /\ revealHook' = IF card = "phone" THEN "idle" ELSE revealHook
    /\ timer' = IF IsSuccess(commitHook) THEN NoReveal ELSE timer
    \* The effect on the errors runs again if one of them changed.
    /\ phase' = IF card = "desktop" /\ IsError(commitHook) /\ IsError(revealHook)
                THEN "idle" ELSE "committing"
    /\ wantedDevices' = wantedDevices \cup {addressInput} /\ dropped' = FALSE
    /\ UNCHANGED <<card, pairFormVars, revealArgs, pairChainVars, commitReverts>>

AnswerCommit ==
    /\ IsPending(commitHook)
    /\ commitHook' \in WalletAnswers
    /\ phase' = IF IsError(commitHook') THEN "idle" ELSE phase
    /\ UNCHANGED <<card, pairFormVars, salt, commitArgs, revealHook, revealArgs, timer,
                   pairChainVars, pairGhosts, commitReverts>>

\* Slip: the effect waits for the phase it sets itself.
PrepareLate == IsSuccess(commitHook') /\ phase = "registering" /\ addressInput # "none"

\* Slip: any success is followed by a reveal, whatever the form is doing.
PrepareAnyPhase == IsSuccess(commitHook') /\ addressInput # "none"

\* The effect on isCommitSuccess.
Prepare == IsSuccess(commitHook') /\ phase = "committing" /\ addressInput # "none"

MineCommit ==
    /\ IsConfirming(commitHook)
    /\ \/ /\ commitHook' = "success"
          /\ commits' = [commits EXCEPT ![commitArgs.salt] = [device |-> commitArgs.device, age |-> 1]]
          /\ UNCHANGED commitReverts
       \/ /\ commitReverts < MaxReverts /\ commitReverts' = commitReverts + 1
          /\ commitHook' = "reverted" /\ UNCHANGED commits
    /\ IF Prepare
       THEN phase' = "registering" /\ timer' = [device |-> addressInput, salt |-> salt]
       ELSE UNCHANGED <<phase, timer>>
    /\ UNCHANGED <<card, pairFormVars, salt, commitArgs, revealHook, revealArgs, registered, pairGhosts>>

\* Blocks come every two seconds, so the timer's four are at least one.
NextBlockIsMined ==
    /\ \E s \in 1..MaxAttempts : commits[s].age = 1
    /\ commits' = [s \in 1..MaxAttempts |->
                     IF commits[s].age = 1 THEN [commits[s] EXCEPT !.age = 2] ELSE commits[s]]
    /\ UNCHANGED <<card, pairFormVars, phase, salt, hookVars, registered, pairGhosts, commitReverts>>

AfterABlock == \A s \in 1..MaxAttempts : commits[s].age # 1

TimerFiresReveal ==
    /\ timer # NoReveal /\ AfterABlock
    /\ revealHook' = "pending" /\ revealArgs' = timer /\ timer' = NoReveal
    /\ UNCHANGED <<card, pairFormVars, phase, salt, commitHook, commitArgs, pairChainVars, pairGhosts, commitReverts>>

AnswerReveal ==
    /\ IsPending(revealHook)
    /\ revealHook' \in WalletAnswers
    /\ phase' = IF IsError(revealHook') THEN "idle" ELSE phase
    /\ UNCHANGED <<card, pairFormVars, salt, commitHook, commitArgs, revealArgs, timer,
                   pairChainVars, pairGhosts, commitReverts>>

\* The registry's conditions: an earlier block's commitment to this device, not
\* registered yet.
Opens(r) == commits[r.salt] = [device |-> r.device, age |-> 2]

\* The effect on isRegisterSuccess closes the form that waits for it.
MineReveal ==
    /\ IsConfirming(revealHook)
    /\ IF Opens(revealArgs) /\ revealArgs.device \notin registered
       THEN /\ revealHook' = "success" /\ registered' = registered \cup {revealArgs.device}
            /\ commits' = [commits EXCEPT ![revealArgs.salt] = NoCommit]
            /\ IF phase # "registering" THEN UNCHANGED <<pairFormVars, phase>>
               ELSE IF card = "phone" THEN ClosedForm
               ELSE phase' = "idle" /\ UNCHANGED pairFormVars
       ELSE revealHook' = "reverted" /\ UNCHANGED <<pairFormVars, phase, pairChainVars>>
    /\ UNCHANGED <<card, salt, commitHook, commitArgs, revealArgs, timer, pairGhosts, commitReverts>>

\* The tab is left and opened again: the timer is cleared, what the wallet was
\* asked for is no longer followed.
RemountCards ==
    /\ ~Busy(commitHook) /\ ~Busy(revealHook)     \* bound: not while a transaction is out
    /\ phase' = "idle" /\ commitHook' = "idle" /\ revealHook' = "idle" /\ timer' = NoReveal
    /\ isOpen' = (card = "desktop")
    /\ addressInput' = IF card = "desktop" THEN "desktop" ELSE "none"
    /\ dropped' = TRUE
    /\ UNCHANGED <<card, salt, commitArgs, revealArgs, pairChainVars, wantedDevices, commitReverts>>

PairNext ==
    \/ OpenCard \/ (\E a \in Phones : PasteAddress(a)) \/ ClosePairing \/ PressRegister
    \/ AnswerCommit \/ MineCommit \/ NextBlockIsMined \/ TimerFiresReveal
    \/ AnswerReveal \/ MineReveal \/ RemountCards

\* Blocks are mined and timers fire; the wallet need not answer.
PairFairness == WF_pairVars(NextBlockIsMined) /\ WF_pairVars(TimerFiresReveal)

PairSpec == PairInit /\ [][PairNext]_pairVars
FairPairSpec == PairSpec /\ PairFairness
-----------------------------------------------------------------------------
(* Types.  A reveal is only prepared by a commitment that is mined.            *)
PairTypeOK ==
    /\ card \in {"phone", "desktop"} /\ phase \in {"idle", "committing", "registering"}
    /\ addressInput \in PairDevices \cup {"none"} /\ salt \in 0..MaxAttempts
    /\ {commitHook, revealHook} \subseteq HookState
    /\ {commitArgs, revealArgs, timer} \subseteq Reveal \cup {NoReveal}
    /\ registered \subseteq PairDevices
    /\ timer # NoReveal => IsSuccess(commitHook)

\* Every reveal the wallet is asked for opens a commitment of an earlier block:
\* no sequence of cancelled, refused and repeated attempts makes the registry
\* refuse it as too early or as unknown.
RevealOpensCommit ==
    Busy(revealHook) => Opens(revealArgs) \/ revealArgs.device \in registered

\* Only devices the user pressed Register for are registered, and nothing but the
\* last commitment is revealed, whatever is pasted in the meantime.
RevealsTheLastCommit ==
    timer # NoReveal =>
        timer = commitArgs /\ timer.device \in wantedDevices

\* A mined commitment is followed by its reveal, unless the user closes the form.
RevealFollows ==
    IsSuccess(commitHook) /\ revealHook = "idle" /\ phase # "idle"
        ~> revealHook # "idle" \/ phase = "idle"

\* What the two cards do not ensure (each is refuted by TLC).

\* Cancel stops a pairing: the wallet is asked for nothing more.
CancelStopsPairing == [][dropped /\ dropped' => ~(IsPending(revealHook') /\ timer # NoReveal)]_pairVars

\* A card that asked for a commitment waits for it.
CardWaitsForCommit == Busy(commitHook) /\ ~dropped => phase = "committing"

\* A transaction that reverts leaves the form usable.
RevertFreesTheForm == ~dropped /\ "reverted" \in {commitHook, revealHook} => phase = "idle"

\* However a form is edited, cancelled and pressed again: a reveal opens the last
\* commitment, in a later block (PairDevice.tsx).
PairCorrect == PairTypeOK /\ RevealOpensCommit /\ RevealsTheLastCommit
=============================================================================

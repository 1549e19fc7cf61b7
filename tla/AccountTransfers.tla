--------------------------- MODULE AccountTransfers ---------------------------
(***************************************************************************)
(* The two dialogs of the Desktop that move the money of a smart account:   *)
(* the withdrawal, and the migration of the identity to another wallet.     *)
(* The migration learns the new wallet's address by connecting it, lets it  *)
(* go, has the old one connected again and signs, in one batch, the new     *)
(* account's creation, the transfer of the identity and of the balance.     *)
(* Both ask the wallet from an effect, guarded by a ref.                    *)
(*                                                                         *)
(* A smart account is named by the wallet that owns it.  The other wallets  *)
(* have no identity of their own, and the screens know the identity by its  *)
(* cached username, so that they stay while no wallet is connected.         *)
(***************************************************************************)
EXTENDS Naturals, WalletWrite

CONSTANTS
    Wallets,
    OldWallet,      \* the wallet the identity was created with
    MaxWei,         \* bound: of every balance
    MaxWithdrawals, \* bound: withdrawals submitted
    MaxConnections  \* bound: wallets connected

ASSUME TransfersAssumption ==
    /\ OldWallet \in Wallets /\ "none" \notin Wallets /\ {MaxWithdrawals, MaxConnections} \subseteq Nat
    /\ MaxWei \in Nat \ {0}

VARIABLES
    ethOf,          \* balance of each account
    controllerOf,   \* of the identity
    accountsMade,   \* accounts deployed
    shownBalance,   \* useBalance of each account
    shownController,\* getIdentity
    walletOn,       \* the wallet connected
    letGo,          \* a disconnect() is under way
    connections,
    withdrawStep,   \* "closed", "form", "confirming" or "done"
    withdrawHook, withdrawArgs, withdrawSubmitted,
    submissions, requests,      \* withdrawals submitted, and asked of the wallet
    lateWithdrawals,            \* of dialogs closed since: set of amounts under way
    phase, newOwner,
    migrateHook, migrateArgs, migrateSubmitted

moneyVars == <<ethOf, controllerOf, accountsMade>>
shownVars == <<shownBalance, shownController>>
walletVars == <<walletOn, letGo, connections>>
withdrawVars == <<withdrawStep, withdrawHook, withdrawArgs, withdrawSubmitted, submissions, requests,
                  lateWithdrawals>>
migrateVars == <<phase, newOwner, migrateHook, migrateArgs, migrateSubmitted>>
transferVars == <<moneyVars, shownVars, walletVars, withdrawVars, migrateVars>>

Wei == 0..MaxWei
NoMigration == [from |-> "none", to |-> "none", amount |-> 0]

TransferInit ==
    /\ ethOf \in [Wallets -> {0, 1}] /\ \A w \in Wallets \ {OldWallet} : ethOf[w] = 0
    /\ controllerOf = OldWallet /\ accountsMade = {OldWallet}
    /\ shownBalance = ethOf /\ shownController = OldWallet
    /\ walletOn \in {OldWallet, "none"} /\ letGo = FALSE /\ connections = 0
    /\ withdrawStep = "closed" /\ withdrawHook = "idle" /\ withdrawArgs = 0 /\ withdrawSubmitted = FALSE
    /\ submissions = 0 /\ requests = 0 /\ lateWithdrawals = {}
    /\ phase = "closed" /\ newOwner = "none"
    /\ migrateHook = "idle" /\ migrateArgs = NoMigration /\ migrateSubmitted = FALSE
-----------------------------------------------------------------------------
\* Somebody pays into the identity's account.
Deposit ==
    /\ ethOf[controllerOf] < MaxWei
    /\ ethOf' = [ethOf EXCEPT ![controllerOf] = @ + 1]
    /\ UNCHANGED <<controllerOf, accountsMade, shownVars, walletVars, withdrawVars, migrateVars>>

RefreshReads ==
    /\ shownBalance' = ethOf /\ shownController' = controllerOf
    /\ shownVars' # shownVars
    /\ UNCHANGED <<moneyVars, walletVars, withdrawVars, migrateVars>>

\* The effects' guard.
MayAsk(submitted, hook) == ~Busy(hook) /\ ~HasHash(hook) /\ ~submitted

\* execute and executeBatch answer an account's owner only: for any other wallet,
\* or none, the request fails at once.
AskFrom(account) == IF walletOn = account THEN "pending" ELSE "error"
-----------------------------------------------------------------------------
\* Settings and the dialog are overlays: one is open at a time.
OpenWithdraw ==
    /\ withdrawStep = "closed" /\ phase = "closed" /\ shownBalance[shownController] > 0
    /\ withdrawStep' = "form"
    /\ UNCHANGED <<moneyVars, shownVars, walletVars, withdrawHook, withdrawArgs, withdrawSubmitted,
                   submissions, requests, lateWithdrawals, migrateVars>>

SubmitWithdraw(n) ==
    /\ withdrawStep = "form" /\ walletOn # "none" /\ submissions < MaxWithdrawals
    /\ n \in 1..shownBalance[shownController]
    /\ withdrawStep' = "confirming" /\ withdrawArgs' = n /\ submissions' = submissions + 1
    /\ UNCHANGED <<moneyVars, shownVars, walletVars, withdrawHook, withdrawSubmitted, requests,
                   lateWithdrawals, migrateVars>>

AskWithdraw ==
    /\ withdrawStep = "confirming" /\ MayAsk(withdrawSubmitted, withdrawHook)
    /\ withdrawHook' = AskFrom(shownController) /\ withdrawSubmitted' = TRUE
    /\ requests < MaxWithdrawals + 1 /\ requests' = requests + 1
    /\ UNCHANGED <<moneyVars, shownVars, walletVars, withdrawStep, withdrawArgs, submissions,
                   lateWithdrawals, migrateVars>>

AnswerWithdraw ==
    /\ IsPending(withdrawHook) /\ withdrawHook' \in WalletAnswers
    /\ UNCHANGED <<moneyVars, shownVars, walletVars, withdrawStep, withdrawArgs, withdrawSubmitted,
                   submissions, requests, lateWithdrawals, migrateVars>>

Paid(account, n) == ethOf' = [ethOf EXCEPT ![account] = @ - n]

\* The old account keeps its owner, whatever became of the identity.
MineWithdraw ==
    /\ IsConfirming(withdrawHook)
    /\ IF ethOf[shownController] >= withdrawArgs
       THEN Paid(shownController, withdrawArgs) /\ withdrawHook' = "success" /\ withdrawStep' = "done"
       ELSE withdrawHook' = "reverted" /\ UNCHANGED <<ethOf, withdrawStep>>
    /\ UNCHANGED <<controllerOf, accountsMade, shownVars, walletVars, withdrawArgs, withdrawSubmitted,
                   submissions, requests, lateWithdrawals, migrateVars>>

\* Cancel is disabled while confirming, the overlay and its cross are not.
CloseWithdraw ==
    /\ withdrawStep # "closed"
    /\ withdrawStep' = "closed" /\ withdrawHook' = "idle" /\ withdrawArgs' = 0 /\ withdrawSubmitted' = FALSE
    /\ lateWithdrawals' = lateWithdrawals \cup (IF Busy(withdrawHook)
                                                THEN {<<shownController, withdrawArgs, submissions>>} ELSE {})
    /\ UNCHANGED <<moneyVars, shownVars, walletVars, submissions, requests, migrateVars>>

LateWithdraw(r) ==
    /\ lateWithdrawals' = lateWithdrawals \ {r}
    /\ Paid(r[1], r[2]) /\ ethOf[r[1]] >= r[2]
    /\ UNCHANGED <<controllerOf, accountsMade, shownVars, walletVars, withdrawStep, withdrawHook,
                   withdrawArgs, withdrawSubmitted, submissions, requests, migrateVars>>
-----------------------------------------------------------------------------
\* The effects on the connection: the new wallet's address is taken and the
\* wallet let go, or the review is reached.
Captured(p, w, going) ==
    CASE p = "connectNew" /\ w # "none" ->
            phase' = "confirmNew" /\ newOwner' = w /\ letGo' = TRUE /\ walletOn' = w
      [] p = "connectOld" /\ w # "none" ->
            phase' = "review" /\ UNCHANGED newOwner /\ letGo' = going /\ walletOn' = w
      [] OTHER -> phase' = p /\ UNCHANGED newOwner /\ letGo' = going /\ walletOn' = w

\* From the top bar, or from the screen the migration shows for it.
ConnectAWallet(w) ==
    /\ walletOn = "none" /\ connections < MaxConnections
    /\ phase \in {"closed", "connectNew", "connectOld"}
    /\ connections' = connections + 1
    /\ Captured(phase, w, FALSE)
    /\ UNCHANGED <<moneyVars, shownVars, withdrawVars, migrateHook, migrateArgs, migrateSubmitted>>

LetGo ==
    /\ letGo /\ letGo' = FALSE /\ walletOn' = "none"
    /\ UNCHANGED <<moneyVars, shownVars, connections, withdrawVars, migrateVars>>

OpenSettings ==
    /\ phase = "closed" /\ withdrawStep = "closed" /\ phase' = "intro"
    /\ UNCHANGED <<moneyVars, shownVars, walletVars, withdrawVars, newOwner, migrateHook, migrateArgs,
                   migrateSubmitted>>

\* With a wallet connected already, it is that one's address that is taken.  Also
\* handleChooseDifferentWallet.
ConnectNew ==
    /\ phase \in {"intro", "confirmNew"}
    /\ Captured("connectNew", walletOn, letGo)
    /\ UNCHANGED <<moneyVars, shownVars, connections, withdrawVars, migrateHook, migrateArgs, migrateSubmitted>>

\* isSameWallet.
OtherWallet == newOwner # "none" /\ newOwner # shownController

ConfirmNew ==
    /\ phase = "confirmNew" /\ OtherWallet
    /\ Captured("connectOld", walletOn, letGo)
    /\ UNCHANGED <<moneyVars, shownVars, connections, withdrawVars, migrateHook, migrateArgs, migrateSubmitted>>

ConfirmMigration ==
    /\ phase = "review" /\ phase' = "confirming"
    /\ UNCHANGED <<moneyVars, shownVars, walletVars, withdrawVars, newOwner, migrateHook, migrateArgs,
                   migrateSubmitted>>

AskMigration ==
    /\ phase = "confirming" /\ MayAsk(migrateSubmitted, migrateHook)
    /\ migrateHook' = AskFrom(shownController) /\ migrateSubmitted' = TRUE
    /\ migrateArgs' = [from |-> shownController, to |-> newOwner, amount |-> shownBalance[shownController]]
    /\ UNCHANGED <<moneyVars, shownVars, walletVars, withdrawVars, phase, newOwner>>

AnswerMigration ==
    /\ IsPending(migrateHook) /\ migrateHook' \in WalletAnswers
    /\ UNCHANGED <<moneyVars, shownVars, walletVars, withdrawVars, phase, newOwner, migrateArgs,
                   migrateSubmitted>>

\* createAccount answers for an account that exists; transferController wants the
\* identity's controller and a wallet without one.
MineMigration ==
    /\ IsConfirming(migrateHook)
    /\ LET b == migrateArgs IN
       IF controllerOf = b.from /\ b.to # b.from /\ ethOf[b.from] >= b.amount /\ ethOf[b.to] + b.amount <= MaxWei
       THEN /\ controllerOf' = b.to /\ accountsMade' = accountsMade \cup {b.to}
            /\ ethOf' = [ethOf EXCEPT ![b.from] = @ - b.amount, ![b.to] = @ + b.amount]
            /\ migrateHook' = "success" /\ phase' = IF phase = "confirming" THEN "done" ELSE phase
       ELSE migrateHook' = "reverted" /\ UNCHANGED <<moneyVars, phase>>
    /\ UNCHANGED <<shownVars, walletVars, withdrawVars, newOwner, migrateArgs, migrateSubmitted>>

RetryMigration ==
    /\ phase = "confirming" /\ IsError(migrateHook)
    /\ migrateHook' = "idle" /\ migrateSubmitted' = FALSE
    /\ UNCHANGED <<moneyVars, shownVars, walletVars, withdrawVars, phase, newOwner, migrateArgs>>

\* Slip: Settings does not know of the migration under way.
NeverBusy == phase # "closed"

\* settingsBusy: the overlay and the cross do nothing while confirming.
NotBusy == phase \notin {"closed", "confirming"}

CloseSettings ==
    /\ NotBusy
    /\ phase' = "closed" /\ newOwner' = "none" /\ migrateSubmitted' = FALSE
    /\ IF Busy(migrateHook) THEN UNCHANGED <<migrateHook, migrateArgs>>
                            ELSE migrateHook' = "idle" /\ migrateArgs' = NoMigration
    /\ UNCHANGED <<moneyVars, shownVars, walletVars, withdrawVars>>

TransferNext ==
    \/ Deposit \/ RefreshReads \/ LetGo \/ \E w \in Wallets : ConnectAWallet(w)
    \/ OpenWithdraw \/ \E n \in Wei : SubmitWithdraw(n)
    \/ AskWithdraw \/ AnswerWithdraw \/ MineWithdraw \/ CloseWithdraw
    \/ \E r \in lateWithdrawals : LateWithdraw(r)
    \/ OpenSettings \/ ConnectNew \/ ConfirmNew \/ ConfirmMigration
    \/ AskMigration \/ AnswerMigration \/ MineMigration \/ RetryMigration \/ CloseSettings

TransferSpec == TransferInit /\ [][TransferNext]_transferVars
-----------------------------------------------------------------------------
(* Types.                                                                     *)
TransferTypeOK ==
    /\ ethOf \in [Wallets -> Wei] /\ shownBalance \in [Wallets -> Wei]
    /\ controllerOf \in accountsMade /\ accountsMade \subseteq Wallets /\ shownController \in Wallets
    /\ walletOn \in Wallets \cup {"none"} /\ letGo \in BOOLEAN
    /\ {withdrawHook, migrateHook} \subseteq HookState
    /\ withdrawStep \in {"closed", "form", "confirming", "done"}
    /\ phase \in {"closed", "intro", "connectNew", "confirmNew", "connectOld", "review", "confirming", "done"}
    /\ withdrawStep = "closed" \/ phase = "closed"
    /\ requests <= MaxWithdrawals + 1

\* Every submission of the withdrawal form asks the wallet at most once: a refusal
\* does not ask again.
OneRequestPerSubmission == requests <= submissions

\* The migration says it is done only of an identity the new account controls.
DoneMeansMigrated == phase = "done" => controllerOf = newOwner

\* The batch of a first migration never hands the identity to the account that
\* signs it, which the registry would refuse after the wallet signed.  (A second
\* one, confirmed while the screen still shows the controller before the first,
\* may: the comparison is not made again in the review.)
MovesElsewhere ==
    Busy(migrateHook) /\ accountsMade = {OldWallet} => migrateArgs.to # migrateArgs.from

\* Control of the identity only moves to the account the review shows, which the
\* same batch deploys.
ControlFollowsReview ==
    [][controllerOf' # controllerOf => controllerOf' = newOwner /\ newOwner \in accountsMade']_transferVars

\* What the dialogs do not ensure (each is refuted by TLC).

\* A migration that is done left nothing behind.
BalanceMovesAlong == phase = "done" /\ controllerOf = newOwner => ethOf[migrateArgs.from] = 0

\* A second withdrawal is not asked for while one is under way.
OneWithdrawalAtATime == Busy(withdrawHook) => lateWithdrawals = {}

\* A migration that cannot go on can be left.
MigrationCanBeLeft == phase = "confirming" => migrateHook # "reverted"

\* One request per submission; "done" means that the new account has control, which
\* moves to the account that was reviewed and to no other (MigrateWallet.tsx).
TransferCorrect ==
    /\ [](TransferTypeOK /\ OneRequestPerSubmission /\ DoneMeansMigrated
           /\ MovesElsewhere)
    /\ ControlFollowsReview
=============================================================================

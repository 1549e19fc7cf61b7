---------------------------- MODULE GuardianScreen ----------------------------
(***************************************************************************)
(* The guardians tab of the Desktop, for the identity it shows: the user's  *)
(* own, whose guardians are configured and whose recovery is cancelled      *)
(* here, or one the user guards, looked up by name.  Guardian list,         *)
(* proposal and the user's own approval are read separately,                *)
(* from nodes that may lag behind, and any read may fail.  What a success of *)
(* its own has the tab read again, at once and three seconds later, is read  *)
(* like the rest: it may fail too, or still find a node that lags.          *)
(*                                                                         *)
(* RecoveryManager.tla models the contract; here it is one identity, with   *)
(* the conditions the tab's buttons are about.  Every change counts as a    *)
(* version, by which a read is told from a later one.  How a transaction of *)
(* the tab ended is only kept by what it did: a refusal and a revert leave  *)
(* their button as it was.  A request the form forgot goes on: the wallet may *)
(* still sign it and the chain mine it.                                     *)
(***************************************************************************)
EXTENDS Naturals, FiniteSets, WalletWrite

CONSTANTS
    Guards,         \* who may be a guardian
    Me,             \* the connected wallet
    MaxGuardTx,     \* bound: changes of the contract
    MaxGuardPresses \* bound: transactions asked for here

ASSUME GuardAssumption ==
    Me \in Guards /\ IsFiniteSet(Guards) /\ {MaxGuardTx, MaxGuardPresses} \subseteq Nat

VARIABLES
    role,           \* "own" or "target"
    recovery,       \* on chain: [list, threshold, status, approvals, ripe, version]
    before,         \* what a node that lags still says
    lagging,
    cfgRead, propRead,  \* [state, said]: "loading", "error", "retrying" or "read",
                        \* and what it said
    approvedRead,       \* hasGuardianApproved, "loading" until it is read
    showConfigForm,
    hooks,          \* the five useWriteContract of the tab
    configArgs,     \* the list last submitted
    presses,
    forgotten,      \* lists whose configuration goes on without the form
    ownVersion,     \* version of the last change the tab saw succeed
    readSince       \* the proposal was read after it, with no node behind

readVars == <<cfgRead, propRead, approvedRead>>
askVars == <<configArgs, presses, forgotten>>
ownVars == <<ownVersion, readSince>>
guardVars == <<role, recovery, before, lagging, readVars, showConfigForm, hooks, askVars, ownVars>>

Kinds == {"config", "propose", "approve", "execute", "cancel"}
NoRecovery == [list |-> {}, threshold |-> 0, status |-> "none", approvals |-> {}, ripe |-> FALSE, version |-> 0]
Unread == [state |-> "loading", said |-> NoRecovery]
Lists == (SUBSET Guards) \ {{}}

\* What the screen makes of its reads: a list that was not read counts as empty,
\* a threshold as 0, a proposal as none.
Guardians == cfgRead.said.list
Threshold == cfgRead.said.threshold
ProposalStatus == propRead.said.status
IsGuardian == Me \in Guardians

GuardInit ==
    /\ role \in {"own", "target"}
    /\ \/ recovery = NoRecovery
       \/ \E l \in Lists, st \in {"none", "active"} :
             recovery = [NoRecovery EXCEPT !.list = l, !.threshold = 1, !.status = st]
    /\ before = recovery /\ lagging = FALSE
    /\ cfgRead = Unread /\ propRead = Unread /\ approvedRead = "loading"
    /\ showConfigForm = FALSE /\ configArgs = {} /\ presses = 0
    /\ hooks = [k \in Kinds |-> "idle"] /\ forgotten = {} /\ ownVersion = 0 /\ readSince = FALSE
-----------------------------------------------------------------------------
(* The reads.                                                                 *)
Seen == {recovery} \cup (IF lagging THEN {before} ELSE {})

\* What getGuardianConfig and getProposal say of it.
ConfigOf(c) == [NoRecovery EXCEPT !.list = c.list, !.threshold = c.threshold]
ProposalOf(c) == [c EXCEPT !.list = {}, !.threshold = 0]

\* A read that fails keeps what an earlier one said; a first one is then tried again,
\* and counts as loading meanwhile.
ReadConfig ==
    /\ \/ \E c \in Seen : cfgRead' = [state |-> "read", said |-> ConfigOf(c)]
       \/ cfgRead.state \in {"loading", "retrying"} /\ cfgRead' = [cfgRead EXCEPT !.state = "error"]
       \/ cfgRead.state = "error" /\ cfgRead' = [cfgRead EXCEPT !.state = "retrying"]
    /\ cfgRead' # cfgRead
    /\ UNCHANGED <<role, recovery, before, lagging, propRead, approvedRead, showConfigForm, hooks, askVars,
                   ownVars>>

ConfigLoading == cfgRead.state \in {"loading", "retrying"}

\* The approval is only read while a proposal is open.
ApprovalFor(p) == IF p.status = "active" THEN approvedRead ELSE "loading"

ReadProposal ==
    /\ \E c \in Seen : propRead' = [state |-> "read", said |-> ProposalOf(c)]
    /\ readSince' = (readSince \/ ~lagging)
    /\ approvedRead' = ApprovalFor(propRead'.said)
    /\ UNCHANGED <<role, recovery, before, lagging, cfgRead, showConfigForm, hooks, askVars, ownVersion>>

ReadApproved ==
    /\ ProposalStatus = "active" /\ IsGuardian
    /\ \E c \in Seen : approvedRead' = IF Me \in c.approvals THEN "yes" ELSE "no"
    /\ approvedRead' # approvedRead
    /\ UNCHANGED <<role, recovery, before, lagging, cfgRead, propRead, showConfigForm, hooks, askVars,
                   ownVars>>

NodesCatchUp ==
    /\ lagging /\ lagging' = FALSE /\ before' = recovery
    /\ UNCHANGED <<role, recovery, readVars, showConfigForm, hooks, askVars, ownVars>>
-----------------------------------------------------------------------------
(* What the contract accepts.                                                 *)
Version == recovery.version
AtNextVersion(r) == [r EXCEPT !.version = @ + 1]

Configured(l) == AtNextVersion([NoRecovery EXCEPT !.list = l, !.threshold = 1, !.status = recovery.status, !.version = Version])
Proposed == AtNextVersion([recovery EXCEPT !.status = "active", !.approvals = {}, !.ripe = FALSE])
ApprovedBy(g) == AtNextVersion([recovery EXCEPT !.approvals = @ \cup {g}])
Executed == AtNextVersion([NoRecovery EXCEPT !.status = "executed", !.version = Version])
Cancelled == AtNextVersion([recovery EXCEPT !.status = "cancelled"])

Active == recovery.status = "active"
Quorum == Active /\ recovery.ripe /\ Cardinality(recovery.approvals) >= recovery.threshold
Accepts(k) ==
    CASE k = "config" -> ~Active
      [] k = "propose" -> ~Active /\ Me \in recovery.list
      [] k = "approve" -> Active /\ Me \in recovery.list \ recovery.approvals
      [] k = "execute" -> Quorum
      [] k = "cancel" -> Active
After(k) ==
    CASE k = "config" -> Configured(configArgs)
      [] k = "propose" -> Proposed
      [] k = "approve" -> ApprovedBy(Me)
      [] k = "execute" -> Executed
      [] k = "cancel" -> Cancelled

\* The chain moves on: nodes that lag answer with what was before.
Becomes(r) == recovery' = r /\ before' = recovery /\ lagging' = TRUE

\* The other guardians, the owner of an identity guarded here, anyone who executes,
\* and the timelock.
OthersAct ==
    /\ Version < MaxGuardTx
    /\ \/ \E g \in recovery.list \ {Me} :
             (~Active /\ Becomes(Proposed)) \/ (Active /\ g \notin recovery.approvals /\ Becomes(ApprovedBy(g)))
       \/ Quorum /\ Becomes(Executed)
       \/ role = "target" /\ Active /\ Becomes(Cancelled)
       \/ role = "target" /\ ~Active /\ \E l \in Lists : Becomes(Configured(l))
       \/ Active /\ ~recovery.ripe /\ Becomes(AtNextVersion([recovery EXCEPT !.ripe = TRUE]))
    /\ UNCHANGED <<role, readVars, showConfigForm, hooks, askVars, ownVars>>
-----------------------------------------------------------------------------
(* The buttons.                                                               *)
\* Slip: a list that is still loading passes for an empty one.
OfferConfigEarly == role = "own"

\* The form is offered empty where no guardians are configured, and filled in
\* where they are.
OfferConfig == role = "own" /\ ~ConfigLoading

OpenConfigForm ==
    /\ OfferConfig /\ ~showConfigForm /\ showConfigForm' = TRUE
    /\ UNCHANGED <<role, recovery, before, lagging, readVars, hooks, askVars, ownVars>>

\* resetConfig only forgets a request that is out.
CancelConfigForm ==
    /\ showConfigForm /\ showConfigForm' = FALSE
    /\ forgotten' = forgotten \cup (IF Busy(hooks["config"]) THEN {configArgs} ELSE {})
    /\ hooks' = [hooks EXCEPT !["config"] = "idle"]
    /\ UNCHANGED <<role, recovery, before, lagging, readVars, configArgs, presses, ownVars>>

\* canExecute waits until the list is not loading, canTargetExecute for a threshold;
\* both for the timelock, a constant of the contract, to be read.
CanExecute ==
    /\ ProposalStatus = "active" /\ propRead.said.ripe
    /\ IF role = "own" THEN ~ConfigLoading ELSE Threshold > 0
    /\ Cardinality(propRead.said.approvals) >= Threshold

Offered(k) ==
    CASE k = "config" -> showConfigForm
      [] k = "propose" -> IsGuardian /\ ProposalStatus = "none"
      [] k = "approve" -> ProposalStatus = "active" /\ IsGuardian /\ approvedRead = "no"
      [] k = "execute" -> CanExecute
      [] k = "cancel" -> role = "own" /\ ProposalStatus = "active"

PressGuard(k) ==
    /\ Offered(k) /\ hooks[k] = "idle" /\ presses < MaxGuardPresses
    /\ presses' = presses + 1 /\ hooks' = [hooks EXCEPT ![k] = "pending"]
    /\ configArgs' \in IF k = "config" THEN Lists ELSE {configArgs}
    /\ UNCHANGED <<role, recovery, before, lagging, readVars, showConfigForm, forgotten, ownVars>>

AnswerGuard(k) ==
    /\ IsPending(hooks[k])
    /\ \E a \in WalletAnswers : hooks' = [hooks EXCEPT ![k] = IF IsError(a) THEN "idle" ELSE a]
    /\ UNCHANGED <<role, recovery, before, lagging, readVars, askVars, showConfigForm, ownVars>>

\* The success effects close the form; the refetches they ask for are reads.
MineGuard(k) ==
    /\ IsConfirming(hooks[k]) /\ Version < MaxGuardTx
    /\ IF Accepts(k)
       THEN /\ Becomes(After(k))
            /\ ownVersion' = Version + 1 /\ readSince' = FALSE
            /\ showConfigForm' = (showConfigForm /\ k # "config")
       ELSE UNCHANGED <<recovery, before, lagging, ownVars, showConfigForm>>
    /\ hooks' = [hooks EXCEPT ![k] = "idle"]
    /\ UNCHANGED <<role, readVars, askVars>>

\* One the form forgot is signed and mined, which nothing here notices.
MineForgotten(l) ==
    /\ l \in forgotten /\ Version < MaxGuardTx
    /\ IF Accepts("config") THEN Becomes(Configured(l)) ELSE UNCHANGED <<recovery, before, lagging>>
    /\ forgotten' = forgotten \ {l}
    /\ UNCHANGED <<role, readVars, showConfigForm, hooks, configArgs, presses, ownVars>>

GuardNext ==
    \/ ReadConfig \/ ReadProposal \/ ReadApproved \/ NodesCatchUp
    \/ OthersAct \/ OpenConfigForm \/ CancelConfigForm
    \/ \E k \in Kinds : PressGuard(k) \/ AnswerGuard(k) \/ MineGuard(k)
    \/ \E l \in Lists : MineForgotten(l)

GuardSpec == GuardInit /\ [][GuardNext]_guardVars
-----------------------------------------------------------------------------
(* Types.                                                                     *)
GuardTypeOK ==
    /\ role \in {"own", "target"} /\ recovery.list \subseteq Guards
    /\ recovery.threshold <= Cardinality(recovery.list)
    /\ recovery.status \in {"none", "active", "executed", "cancelled"}
    /\ cfgRead.state \in {"loading", "error", "retrying", "read"} /\ propRead.state \in {"loading", "read"}
    /\ approvedRead \in {"loading", "yes", "no"}
    /\ configArgs \subseteq Guards /\ hooks \in [Kinds -> {"idle", "pending", "confirming"}]
    /\ forgotten \subseteq Lists
    /\ ownVersion <= Version /\ Version <= MaxGuardTx
    /\ approvedRead # "loading" => ProposalStatus = "active"

\* An identity that has guardians is never shown the form for one that has none,
\* nor a recovery as executable, because the list is still on its way: what the
\* wallet is asked for was decided on a list that arrived, or once failed to, and
\* so was what a closed form left behind.
DecidedOnTheList ==
    (\/ Busy(hooks["config"]) \/ Busy(hooks["execute"]) \/ showConfigForm \/ forgotten # {})
    => cfgRead.state # "loading"

\* For an identity guarded by the user, recovery is offered on a list that was read.
TargetDecidedOnTheList == role = "target" /\ Busy(hooks["execute"]) => cfgRead.state = "read"

\* Once the proposal was read with no node behind, the one on screen stays at least as
\* new as what the tab saw its own transactions do, whatever nodes lag later.
OwnChangeIsShown == readSince => propRead.said.version >= ownVersion

\* What the tab does not ensure (each is refuted by TLC).

\* A guardian may propose whenever the contract would accept it.
ProposeIsOffered ==
    propRead.said = ProposalOf(recovery) /\ cfgRead.said = ConfigOf(recovery) /\ Accepts("propose") => Offered("propose")

\* The form for an identity without guardians is only shown to one.
EmptyFormMeansNone == showConfigForm /\ cfgRead.state # "read" => FALSE

\* After the user's approval, and a read of the proposal, approving is not offered again.
ApprovalIsShown ==
    Me \in recovery.approvals /\ readSince /\ ownVersion = Version => ~Offered("approve")

\* A form that was cancelled configures nothing: what it had sent may still be mined.
CancelledStaysCancelled ==
    [][\A l \in Lists : MineForgotten(l) => recovery' = recovery]_guardVars

\* Over answers of nodes that lag, reads that fail and requests a closed form left behind:
\* the wallet is asked for what was decided on a list that was read, or whose read failed,
\* and a read with no node behind shows the tab's own change for good
\* (GuardianManagement.tsx).
GuardCorrect ==
    /\ GuardTypeOK /\ DecidedOnTheList /\ TargetDecidedOnTheList /\ OwnChangeIsShown
=============================================================================

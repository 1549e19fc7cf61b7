-------------------------- MODULE RecoveryManager --------------------------
(***************************************************************************)
(* contracts/src/RecoveryManager.sol composed with the two registries it    *)
(* drives: guardians give an identity whose wallet is lost a new controller,*)
(* M of N of them, TIMELOCK after one of them proposed it.  The contract is *)
(* modelled as deployed: both registries point at it.  A proposal's flags   *)
(* (exists, executed, cancelled) are one state; proposedBy is never read.   *)
(* executeRecovery calls the old controller half-way, with the proposal     *)
(* closed and the registries still as they were.  Whatever that call runs   *)
(* comes between ExecuteRecovery and FinishRecovery, in the same block: any *)
(* operation of any address, since every address may be a contract, other   *)
(* executions included.  One that cannot finish reverts, so its behaviour   *)
(* just stops inside it: a prefix more than the chain has, never one less.  *)
(***************************************************************************)
EXTENDS DeviceRegistry, Sequences

CONSTANTS
    RM,             \* the RecoveryManager's address
    TIMELOCK,       \* in blocks
    MAX_GUARDIANS,
    GuardianLists   \* the arrays configureGuardians is called with

ASSUME RecoveryAssumption == /\ RM \in Address
                             /\ TIMELOCK \in Nat \ {0}
                             /\ MAX_GUARDIANS \in Nat
                             /\ GuardianLists \subseteq Seq(AnyAddress)

VARIABLES
    configs,        \* id -> GuardianConfig
    isGuardian,     \* id -> the addresses whose _isGuardian flag is set
    proposals,      \* id -> RecoveryProposal
    approvals,      \* id -> the addresses whose _approvals flag is set
    underway        \* id -> the executeRecovery that is out at its old controller

rmVars == <<configs, isGuardian, proposals, approvals, underway>>

GuardianConfig == [guardians : SUBSET AnyAddress, threshold : 0..MAX_GUARDIANS, configured : BOOLEAN]
NoConfig == [guardians |-> {}, threshold |-> 0, configured |-> FALSE]

Proposal == [state : {"none", "active", "executed", "cancelled"},
             newController : AnyAddress, proposedAt : 0..MaxTime, approvalCount : Nat]
NoProposal == [state |-> "none", newController |-> Zero, proposedAt |-> 0, approvalCount |-> 0]

\* newController as the execution holds it in memory, and how deep it is nested.
Execution == [to : AnyAddress, depth : Nat]
Idle == [to |-> Zero, depth |-> 0]

RMTypeOK ==
    /\ configs \in [Id -> GuardianConfig]
    /\ isGuardian \in [Id -> SUBSET AnyAddress]
    /\ proposals \in [Id -> Proposal]
    /\ approvals \in [Id -> SUBSET AnyAddress]
    /\ underway \in [Id -> Execution]

RMInit ==
    /\ configs = [i \in Id |-> NoConfig]
    /\ isGuardian = [i \in Id |-> {}]
    /\ proposals = [i \in Id |-> NoProposal]
    /\ approvals = [i \in Id |-> {}]
    /\ underway = [i \in Id |-> Idle]

-----------------------------------------------------------------------------
Elements(list) == {list[k] : k \in DOMAIN list}

\* C7: a repeated guardian would count twice towards N but vote once.
NoDuplicate(list) == \A j, k \in DOMAIN list : list[j] = list[k] => j = k

FewEnough(list) == Len(list) <= MAX_GUARDIANS

Active(i) == proposals[i].state = "active"

ReconfigurableAlways(i) == TRUE

Reconfigurable(i) == ~Active(i)

FlagsCleared(i) == isGuardian[i] \ configs[i].guardians

ConfigureGuardians(sender, u, list, threshold) ==
    LET i == IdOf(u)
    IN  /\ Registered(u)
        /\ sender = ControllerOf(u)
        /\ threshold \in 1..Len(list)
        /\ FewEnough(list)
        /\ NoDuplicate(list)
        /\ Reconfigurable(i)
        /\ configs' = [configs EXCEPT ![i] =
              [guardians |-> Elements(list), threshold |-> threshold, configured |-> TRUE]]
        /\ isGuardian' = [isGuardian EXCEPT ![i] = FlagsCleared(i) \cup Elements(list)]
        /\ UNCHANGED <<proposals, approvals, underway>>

\* _clearApprovals resets the flags of the current guardians only.
ApprovalsKept(i) == approvals[i]

ApprovalsCleared(i) == approvals[i] \ configs[i].guardians

ProposeRecovery(sender, u, newController) ==
    LET i == IdOf(u)
    IN  /\ newController # Zero
        /\ Registered(u)
        /\ configs[i].configured
        /\ sender \in isGuardian[i]
        /\ ~Active(i)
        /\ approvals' = [approvals EXCEPT ![i] = ApprovalsCleared(i)]
        /\ proposals' = [proposals EXCEPT ![i] =
              [state |-> "active", newController |-> newController,
               proposedAt |-> now, approvalCount |-> 0]]
        /\ UNCHANGED <<configs, isGuardian, underway>>

NotYetApprovedUnchecked(i, a) == TRUE

NotYetApproved(i, a) == a \notin approvals[i]

ApproveRecovery(sender, u) ==
    LET i == IdOf(u)
    IN  /\ Registered(u)
        /\ sender \in isGuardian[i]
        /\ Active(i)
        /\ NotYetApproved(i, sender)
        /\ approvals' = [approvals EXCEPT ![i] = @ \cup {sender}]
        /\ proposals' = [proposals EXCEPT ![i].approvalCount = @ + 1]
        /\ UNCHANGED <<configs, isGuardian, underway>>

CancelRecovery(sender, u) ==
    /\ Registered(u)
    /\ sender = ControllerOf(u)
    /\ Active(IdOf(u))
    /\ proposals' = [proposals EXCEPT ![IdOf(u)].state = "cancelled"]
    /\ UNCHANGED <<configs, isGuardian, approvals, underway>>

\* What executeRecovery asks of the proposal itself.
ReadyEarly(i) ==
    /\ Active(i)
    /\ proposals[i].approvalCount >= configs[i].threshold
    /\ now + 1 >= proposals[i].proposedAt + TIMELOCK

Ready(i) ==
    /\ Active(i)
    /\ proposals[i].approvalCount >= configs[i].threshold
    /\ now >= proposals[i].proposedAt + TIMELOCK

InCall(i) == underway[i].depth > 0

Depth == Cardinality({i \in Id : InCall(i)})

Innermost(i) == InCall(i) /\ \A j \in Id : underway[j].depth <= underway[i].depth

\* Anyone may call it.  Its own tables are final before the old controller is
\* called with the request for the account's funds, whose failure is caught.
ExecuteRecovery(u) ==
    LET i == IdOf(u)
    IN  /\ Registered(u)
        /\ Ready(i)
        /\ proposals' = [proposals EXCEPT ![i].state = "executed"]
        /\ isGuardian' = [isGuardian EXCEPT ![i] = FlagsCleared(i)]
        /\ configs' = [configs EXCEPT ![i] = NoConfig]
        /\ underway' = [underway EXCEPT ![i] =
              [to |-> proposals[i].newController, depth |-> Depth + 1]]
        /\ UNCHANGED approvals

\* That call has returned: the two registries are called as RM, and a refusal by
\* either of them reverts the whole transaction.
FinishRecovery(u) ==
    LET i == IdOf(u)
    IN  /\ Registered(u)
        /\ Innermost(i)
        /\ RevokeAllDevices(RM, i)
        /\ RecoverController(RM, u, underway[i].to)
        /\ underway' = [underway EXCEPT ![i] = Idle]
        /\ UNCHANGED <<configs, isGuardian, proposals, approvals>>

-----------------------------------------------------------------------------
RMUserNext ==
    \/ \E a \in Address, u \in Name, list \in GuardianLists :
          \E t \in 0..(Len(list) + 1) : ConfigureGuardians(a, u, list, t)
    \/ \E a \in Address, u \in Name, c \in AnyAddress : ProposeRecovery(a, u, c)
    \/ \E a \in Address, u \in Name : ApproveRecovery(a, u)
    \/ \E a \in Address, u \in Name : CancelRecovery(a, u)

RMNext ==
    \/ RMUserNext /\ UNCHANGED <<irVars, drVars, now>>
    \/ (\E u \in Name : ExecuteRecovery(u)) /\ UNCHANGED <<irVars, drVars, now>>
    \/ (\E u \in Name : FinishRecovery(u)) /\ UNCHANGED now
    \/ IRUserNext /\ UNCHANGED <<drVars, rmVars, now>>
    \/ DRUserNext /\ UNCHANGED <<irVars, rmVars, now>>
    \/ (\A i \in Id : ~InCall(i)) /\ NewBlock /\ UNCHANGED <<irVars, drVars, rmVars>>

rmSystemVars == <<irVars, drVars, rmVars, now>>

Deployed ==
    /\ IREmpty /\ identityRM = RM
    /\ DREmpty /\ deviceRM = RM
    /\ RMInit
    /\ Genesis

RMSpec == Deployed /\ [][RMNext]_rmSystemVars

-----------------------------------------------------------------------------
(* Properties *)

\* While a proposal is open its approvalCount is the number of present guardians
\* whose approval flag is set.  Flags left from an earlier proposal, and those of
\* people who are guardians no more or again, never count.
VotesCounted ==
    \A i \in Id : Active(i) =>
        proposals[i].approvalCount = Cardinality(approvals[i] \cap configs[i].guardians)

\* The lookup flags are exactly the configured list, and a quorum of distinct
\* guardians exists: no reconfiguration or recovery leaves a former guardian with
\* power, or a threshold nobody can reach.
GuardiansConsistent ==
    \A i \in Id :
        /\ isGuardian[i] = configs[i].guardians
        /\ configs[i].configured =>
              configs[i].threshold \in 1..Cardinality(configs[i].guardians)
        /\ Active(i) => configs[i].configured

\* An identity changes hands only if its controller signs the transfer, which
\* leaves devices, guardians and proposals as they are, or when an execution
\* finishes, to the wallet that execution began with.  And one begins only if a
\* quorum of the present guardians approved this very wallet in a proposal made at
\* least TIMELOCK earlier; nothing run inside it replaces it or its wallet.
QuorumOf(i) == approvals[i] \cap configs[i].guardians
BeginsByRight(i) ==
    /\ Active(i)
    /\ configs[i].configured
    /\ Cardinality(QuorumOf(i)) >= configs[i].threshold
    /\ now - proposals[i].proposedAt >= TIMELOCK
    /\ underway'[i].to = proposals[i].newController
ControlMovesByRightA ==
    /\ \A u \in Name :
          Registered(u) /\ identityByUsername'[u].controller # ControllerOf(u) =>
            \/ /\ \E a \in Address :
                     TransferController(a, u, identityByUsername'[u].controller)
               /\ UNCHANGED <<drVars, rmVars>>
            \/ /\ InCall(IdOf(u)) /\ underway'[IdOf(u)] = Idle
               /\ identityByUsername'[u].controller = underway[IdOf(u)].to
    /\ \A i \in Id : underway'[i] # underway[i] =>
          IF InCall(i) THEN underway'[i] = Idle ELSE BeginsByRight(i)
ControlMovesByRight == [][ControlMovesByRightA]_rmSystemVars

\* While a proposal stays open its terms are fixed: target, start of the
\* timelock, guardians and threshold; and votes are only ever added.
OpenProposalFixedA ==
    \A i \in Id : Active(i) /\ proposals'[i].state = "active" =>
        /\ proposals'[i].newController = proposals[i].newController
        /\ proposals'[i].proposedAt = proposals[i].proposedAt
        /\ configs'[i] = configs[i]
        /\ approvals[i] \subseteq approvals'[i]
OpenProposalFixed == [][OpenProposalFixedA]_rmSystemVars

\* A recovery takes the old regime's power away, though the old controller is
\* called in the middle of it: when an execution begins the guardians are gone, and
\* when it ends no device of the identity is active, the ones registered meanwhile
\* included, in the very step the wallet changes.  Guardians the old controller
\* names during the call are not covered: the code keeps those.
RecoveryCleanSlateA ==
    \A i \in Id :
        /\ Active(i) /\ proposals'[i].state = "executed" =>
              isGuardian'[i] = {} /\ ~configs'[i].configured
        /\ InCall(i) /\ ~InCall(i)' =>
              /\ \A d \in Device :
                    devices'[d].exists /\ devices'[d].identityId = i => devices'[d].revoked
              /\ \A u \in Name : Registered(u) /\ IdOf(u) = i =>
                    identityByUsername'[u].controller # ControllerOf(u)
RecoveryCleanSlate == [][RecoveryCleanSlateA]_rmSystemVars

\* RecoveryManager.sol:266: the guardians are cleared before the call so that a
\* proposal made from inside it reverts with GuardiansNotConfigured, "sem segunda
\* proposta fantasma pendurada por 7 dias".
NoProposalFromInside == \A i \in Id : InCall(i) => ~Active(i)

\* The contracts implement SocialRecovery.tla: approvalCount and the flags
\* amount to the set of votes cast in the proposal that is open.
NameWithId(i) == CHOOSE u \in Name : Registered(u) /\ IdOf(u) = i
holderBar == [i \in Id |-> IF i <= nextId THEN ControllerOf(NameWithId(i)) ELSE Zero]
trustBar == [i \in Id |-> [guardians |-> configs[i].guardians,
                           quorum |-> configs[i].threshold]]
attemptBar == [i \in Id |->
    IF Active(i)
    THEN [open |-> TRUE, target |-> proposals[i].newController,
          votes |-> approvals[i] \cap configs[i].guardians,
          since |-> proposals[i].proposedAt]
    ELSE [open |-> FALSE, target |-> Zero, votes |-> {}, since |-> 0]]
passingBar == [i \in Id |-> IF InCall(i) THEN [on |-> TRUE, to |-> underway[i].to]
                                         ELSE [on |-> FALSE, to |-> Zero]]

Nameable == UNION {Elements(list) : list \in GuardianLists}

Social == INSTANCE SocialRecovery WITH
    SRId <- Id, Wallet <- Address, Guardian <- Nameable, Nobody <- Zero, Delay <- TIMELOCK, Last <- MaxTime,
    holder <- holderBar, trust <- trustBar, attempt <- attemptBar, passing <- passingBar, clock <- now

ImplementsSocialRecovery == Social!SocialSpec

\* A proposal open while an execution for its identity is out was made inside it, so
\* no identity is executed twice at once: the second would need TIMELOCK to pass.
InsideIsNew == \A i \in Id : InCall(i) /\ Active(i) => proposals[i].proposedAt = now

\* Only present guardians' votes for the open proposal count, the flags are the
\* list, and no execution runs inside another of its identity (RecoveryManager.sol).
RecoveryConsistent == RMTypeOK /\ VotesCounted /\ GuardiansConsistent /\ InsideIsNew
=============================================================================

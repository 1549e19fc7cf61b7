----------------------- MODULE RecoveryManagerProofs -----------------------
(***************************************************************************)
(* The safety of social recovery, for any guardians, thresholds, identities *)
(* and delays.  Every step of the system is a step of the two registries or *)
(* leaves them alone, so their invariant carries over.  On top of it, votes *)
(* are counted only together with the guardians' flags being the configured *)
(* list: neither of VotesCounted and GuardiansConsistent is inductive alone.*)
(***************************************************************************)
EXTENDS RecoveryManager, RegistryProofs

FiniteGuardians == \A i \in Id : IsFiniteSet(configs[i].guardians)

\* An execution knows the wallet it moves the identity to, and so does an open
\* proposal: address(0) is refused when it is made.
CallsKnow ==
    /\ \A i \in Id : InCall(i) <=> underway[i] # Idle
    /\ \A i \in Id : InCall(i) => underway[i].to # Zero
    /\ \A i \in Id : Active(i) => proposals[i].newController # Zero

RMInv ==
    DRInv /\ RMTypeOK /\ FiniteGuardians /\ GuardiansConsistent /\ VotesCounted
    /\ InsideIsNew /\ CallsKnow

-----------------------------------------------------------------------------
\* A registered name has an id the tables of this contract are defined for.
LEMMA RegisteredId ==
    ASSUME IRInv, NEW u \in Name, Registered(u)
    PROVE  IdOf(u) \in Id
  BY MaxIdAssumption DEF IRInv, RecordsWellFormed, IRTypeOK, Id

\* How deep the executions nest is a number.
LEMMA DepthCounts == Depth \in Nat
<1>1. IsFiniteSet(Id)
  BY MaxIdAssumption, FS_Interval DEF Id
<1>2. IsFiniteSet({i \in Id : InCall(i)})
  BY <1>1, FS_Subset
<1>3. QED BY <1>2, FS_CardinalityType DEF Depth

\* A list without duplicates names as many guardians as it is long.
LEMMA ElementsCounted ==
    ASSUME NEW list \in Seq(AnyAddress), NoDuplicate(list)
    PROVE  IsFiniteSet(Elements(list)) /\ Cardinality(Elements(list)) = Len(list)
<1>1. DOMAIN list = 1..Len(list) /\ Len(list) \in Nat
  OBVIOUS
<1>2. IsFiniteSet(1..Len(list)) /\ Cardinality(1..Len(list)) = Len(list)
  BY <1>1, FS_Interval
<1>3. [k \in 1..Len(list) |-> list[k]] \in Bijection(1..Len(list), Elements(list))
  BY <1>1 DEF NoDuplicate, Elements, Bijection, Injection, Surjection, IsInjective
<1>4. ExistsBijection(1..Len(list), Elements(list))
  BY <1>3 DEF ExistsBijection
<1>5. QED BY <1>2, <1>4, FS_Bijection

\* Every step of the system is one of the registries, or leaves them alone.
LEMMA RegistriesStep ==
    ASSUME RMInv, [RMNext]_rmSystemVars
    PROVE  [DRNext]_allVars
<1>1. ASSUME NEW u \in Name, FinishRecovery(u), UNCHANGED now
      PROVE  DRNext
  <2>1. underway[IdOf(u)].to \in AnyAddress
    BY <1>1, RegisteredId DEF FinishRecovery, RMInv, DRInv, RMTypeOK, Execution
  <2>2. RMCallsNext
    BY <1>1, <2>1, RecoveryAssumption DEF FinishRecovery, RMCallsNext
  <2>3. QED BY <1>1, <2>2 DEF DRNext
<1>2. QED BY <1>1 DEF RMNext, DRNext, rmSystemVars, allVars

\* Deployment establishes the invariant.
LEMMA DeployedInv == Deployed => RMInv
<1> SUFFICES ASSUME Deployed PROVE RMInv
  OBVIOUS
<1>1. DRInv
  BY DREmptyInv, RecoveryAssumption DEF Deployed, AnyAddress
<1>2. RMTypeOK
  BY RecoveryAssumption, MaxTimeAssumption
     DEF Deployed, RMInit, RMTypeOK, GuardianConfig, NoConfig, Proposal, NoProposal, AnyAddress,
         Execution, Idle
<1>3. FiniteGuardians
  BY FS_EmptySet DEF Deployed, RMInit, FiniteGuardians, NoConfig
<1>4. GuardiansConsistent /\ VotesCounted
  BY DEF Deployed, RMInit, GuardiansConsistent, VotesCounted, Active, NoConfig, NoProposal
<1>5. InsideIsNew /\ CallsKnow
  BY DEF Deployed, RMInit, InsideIsNew, CallsKnow, InCall, Idle, Active, NoProposal
<1>6. QED BY <1>1, <1>2, <1>3, <1>4, <1>5 DEF RMInv

\* The part of the invariant that speaks of votes and guardians.
OwnInv == RMTypeOK /\ FiniteGuardians /\ GuardiansConsistent /\ VotesCounted

\* Guardians are only configured while no proposal is open.
LEMMA ConfigureGuardiansInv ==
    ASSUME RMInv, NEW a \in Address, NEW u \in Name, NEW list \in GuardianLists,
           NEW t \in 0..(Len(list) + 1), ConfigureGuardians(a, u, list, t)
    PROVE  OwnInv'
<1> DEFINE i == IdOf(u)
           new == [guardians |-> Elements(list), threshold |-> t, configured |-> TRUE]
<1>1. i \in Id
  BY RegisteredId DEF ConfigureGuardians, RMInv, DRInv
<1>2. /\ t \in 1..Len(list) /\ Len(list) <= MAX_GUARDIANS /\ Len(list) \in Nat
      /\ ~Active(i)
      /\ configs' = [configs EXCEPT ![i] = new]
      /\ isGuardian' = [isGuardian EXCEPT ![i] = FlagsCleared(i) \cup Elements(list)]
      /\ proposals' = proposals /\ approvals' = approvals /\ underway' = underway
  BY RecoveryAssumption DEF ConfigureGuardians, FewEnough, Reconfigurable
<1>3. /\ IsFiniteSet(Elements(list)) /\ Cardinality(Elements(list)) = Len(list)
      /\ Elements(list) \subseteq AnyAddress
  <2>1. list \in Seq(AnyAddress) /\ NoDuplicate(list)
    BY RecoveryAssumption DEF ConfigureGuardians
  <2>2. QED BY <2>1, ElementsCounted DEF Elements
<1>4. FlagsCleared(i) = {}
  BY <1>1 DEF FlagsCleared, RMInv, GuardiansConsistent
<1> HIDE DEF i
<1>5. RMTypeOK'
  BY <1>1, <1>2, <1>3, <1>4, RecoveryAssumption DEF RMInv, RMTypeOK, GuardianConfig
<1>6. ASSUME NEW j \in Id
      PROVE  /\ configs'[j] = IF j = i THEN new ELSE configs[j]
             /\ isGuardian'[j] = IF j = i THEN Elements(list) ELSE isGuardian[j]
  BY <1>1, <1>2, <1>4 DEF RMInv, RMTypeOK
<1>7. FiniteGuardians'
  BY <1>3, <1>6 DEF RMInv, FiniteGuardians
<1>8. GuardiansConsistent'
  <2> SUFFICES ASSUME NEW j \in Id
               PROVE  /\ isGuardian'[j] = configs'[j].guardians
                      /\ configs'[j].configured =>
                            configs'[j].threshold \in 1..Cardinality(configs'[j].guardians)
                      /\ proposals'[j].state = "active" => configs'[j].configured
    BY DEF GuardiansConsistent, Active
  <2>1. CASE j = i
    <3>1. configs'[j] = new /\ isGuardian'[j] = Elements(list)
      BY <2>1, <1>6
    <3>2. t \in 1..Cardinality(Elements(list))
      BY <1>2, <1>3
    <3>3. QED BY <3>1, <3>2
  <2>2. CASE j # i
    BY <2>2, <1>2, <1>6 DEF RMInv, GuardiansConsistent, Active
  <2>3. QED BY <2>1, <2>2
<1>9. VotesCounted'
  BY <1>2, <1>6 DEF RMInv, VotesCounted, Active
<1>10. QED BY <1>5, <1>7, <1>8, <1>9 DEF OwnInv

\* A proposal starts without a vote, whatever flags an earlier one has left.
LEMMA ProposeRecoveryInv ==
    ASSUME RMInv, NEW a \in Address, NEW u \in Name, NEW c \in AnyAddress,
           ProposeRecovery(a, u, c)
    PROVE  OwnInv'
<1> DEFINE i == IdOf(u)
           new == [state |-> "active", newController |-> c,
                   proposedAt |-> now, approvalCount |-> 0]
<1>1. i \in Id
  BY RegisteredId DEF ProposeRecovery, RMInv, DRInv
<1>2. /\ configs[i].configured
      /\ approvals' = [approvals EXCEPT ![i] = ApprovalsCleared(i)]
      /\ proposals' = [proposals EXCEPT ![i] = new]
      /\ configs' = configs /\ isGuardian' = isGuardian /\ underway' = underway
  BY DEF ProposeRecovery
<1>3. ApprovalsCleared(i) \subseteq AnyAddress
      /\ ApprovalsCleared(i) \cap configs[i].guardians = {}
  BY <1>1 DEF ApprovalsCleared, RMInv, RMTypeOK
<1> HIDE DEF i
<1>4. RMTypeOK'
  BY <1>1, <1>2, <1>3, MaxTimeAssumption DEF RMInv, RMTypeOK, Proposal, DRInv
<1>5. ASSUME NEW j \in Id
      PROVE  /\ proposals'[j] = IF j = i THEN new ELSE proposals[j]
             /\ approvals'[j] = IF j = i THEN ApprovalsCleared(i) ELSE approvals[j]
  BY <1>1, <1>2 DEF RMInv, RMTypeOK
<1>6. FiniteGuardians' /\ GuardiansConsistent'
  BY <1>2, <1>5 DEF RMInv, FiniteGuardians, GuardiansConsistent, Active
<1>7. VotesCounted'
  <2> SUFFICES ASSUME NEW j \in Id, proposals'[j].state = "active"
               PROVE  proposals'[j].approvalCount
                         = Cardinality(approvals'[j] \cap configs'[j].guardians)
    BY DEF VotesCounted, Active
  <2>1. CASE j = i
    <3>1. proposals'[j].approvalCount = 0 /\ approvals'[j] \cap configs'[j].guardians = {}
      BY <2>1, <1>2, <1>3, <1>5
    <3>2. QED BY <3>1, FS_EmptySet
  <2>2. CASE j # i
    BY <2>2, <1>2, <1>5 DEF RMInv, VotesCounted, Active
  <2>3. QED BY <2>1, <2>2
<1>8. QED BY <1>4, <1>6, <1>7 DEF OwnInv

\* A guardian's approval adds exactly one vote.
LEMMA ApproveRecoveryInv ==
    ASSUME RMInv, NEW a \in Address, NEW u \in Name, ApproveRecovery(a, u)
    PROVE  OwnInv'
<1> DEFINE i == IdOf(u)
           votes == approvals[i] \cap configs[i].guardians
<1>1. i \in Id
  BY RegisteredId DEF ApproveRecovery, RMInv, DRInv
<1>2. /\ a \in isGuardian[i] /\ Active(i) /\ a \notin approvals[i]
      /\ approvals' = [approvals EXCEPT ![i] = @ \cup {a}]
      /\ proposals' = [proposals EXCEPT ![i].approvalCount = @ + 1]
      /\ configs' = configs /\ isGuardian' = isGuardian /\ underway' = underway
  BY DEF ApproveRecovery, NotYetApproved
<1>3. /\ (approvals[i] \cup {a}) \cap configs[i].guardians = votes \cup {a}
      /\ a \notin votes
      /\ proposals[i].approvalCount = Cardinality(votes)
      /\ IsFiniteSet(votes)
  BY <1>1, <1>2, FS_Intersection DEF RMInv, GuardiansConsistent, VotesCounted, FiniteGuardians
<1>4. Cardinality(votes \cup {a}) = Cardinality(votes) + 1
  BY <1>3, FS_AddElement
<1> HIDE DEF i, votes
<1>5. RMTypeOK'
  BY <1>1, <1>2 DEF RMInv, RMTypeOK, Proposal, AnyAddress
<1>6. ASSUME NEW j \in Id
      PROVE  /\ proposals'[j].state = proposals[j].state
             /\ proposals'[j].approvalCount =
                   IF j = i THEN proposals[j].approvalCount + 1 ELSE proposals[j].approvalCount
             /\ approvals'[j] = IF j = i THEN approvals[i] \cup {a} ELSE approvals[j]
  BY <1>1, <1>2 DEF RMInv, RMTypeOK, Proposal
<1>7. FiniteGuardians' /\ GuardiansConsistent'
  BY <1>2, <1>6 DEF RMInv, FiniteGuardians, GuardiansConsistent, Active
<1>8. VotesCounted'
  BY <1>2, <1>3, <1>4, <1>6 DEF RMInv, VotesCounted, Active
<1>9. QED BY <1>5, <1>7, <1>8 DEF OwnInv

\* Cancelling closes a proposal and leaves its votes behind.
LEMMA CancelRecoveryInv ==
    ASSUME RMInv, NEW a \in Address, NEW u \in Name, CancelRecovery(a, u)
    PROVE  OwnInv'
<1> DEFINE i == IdOf(u)
<1>1. i \in Id
  BY RegisteredId DEF CancelRecovery, RMInv, DRInv
<1>2. /\ proposals' = [proposals EXCEPT ![i].state = "cancelled"]
      /\ configs' = configs /\ isGuardian' = isGuardian /\ approvals' = approvals
      /\ underway' = underway
  BY DEF CancelRecovery
<1> HIDE DEF i
<1>3. RMTypeOK'
  BY <1>1, <1>2 DEF RMInv, RMTypeOK, Proposal
<1>4. ASSUME NEW j \in Id
      PROVE  /\ proposals'[j].state = "active" => j # i /\ proposals[j].state = "active"
             /\ proposals'[j].approvalCount = proposals[j].approvalCount
  BY <1>1, <1>2 DEF RMInv, RMTypeOK, Proposal
<1>5. FiniteGuardians' /\ GuardiansConsistent' /\ VotesCounted'
  BY <1>2, <1>4 DEF RMInv, FiniteGuardians, GuardiansConsistent, VotesCounted, Active
<1>6. QED BY <1>3, <1>5 DEF OwnInv

\* A recovery closes its proposal and dismisses the guardians.
LEMMA ExecuteRecoveryInv ==
    ASSUME RMInv, NEW u \in Name, ExecuteRecovery(u)
    PROVE  OwnInv'
<1> DEFINE i == IdOf(u)
<1>1. i \in Id
  BY RegisteredId DEF ExecuteRecovery, RMInv, DRInv
<1>2. /\ proposals' = [proposals EXCEPT ![i].state = "executed"]
      /\ isGuardian' = [isGuardian EXCEPT ![i] = FlagsCleared(i)]
      /\ configs' = [configs EXCEPT ![i] = NoConfig]
      /\ approvals' = approvals
      /\ underway' = [underway EXCEPT ![i] =
            [to |-> proposals[i].newController, depth |-> Depth + 1]]
  BY DEF ExecuteRecovery
<1>3. FlagsCleared(i) = {}
  BY <1>1 DEF FlagsCleared, RMInv, GuardiansConsistent
<1> HIDE DEF i
<1>4. RMTypeOK'
  <2>1. proposals' \in [Id -> Proposal]
    BY <1>1, <1>2 DEF RMInv, RMTypeOK, Proposal
  <2>2. NoConfig \in GuardianConfig
    BY RecoveryAssumption DEF NoConfig, GuardianConfig
  <2>3. configs' \in [Id -> GuardianConfig]
    BY <1>1, <1>2, <2>2 DEF RMInv, RMTypeOK
  <2>4. isGuardian' \in [Id -> SUBSET AnyAddress]
    BY <1>1, <1>2, <1>3 DEF RMInv, RMTypeOK
  <2>5. underway' \in [Id -> Execution]
    <3>1. proposals[i].newController \in AnyAddress
      BY <1>1 DEF RMInv, RMTypeOK, Proposal
    <3>2. [to |-> proposals[i].newController, depth |-> Depth + 1] \in Execution
      BY <3>1, DepthCounts DEF Execution
    <3>3. QED BY <1>1, <1>2, <3>2 DEF RMInv, RMTypeOK
  <2>6. QED BY <1>2, <2>1, <2>3, <2>4, <2>5 DEF RMInv, RMTypeOK
<1>5. ASSUME NEW j \in Id
      PROVE  /\ proposals'[j].state = "active" => j # i /\ proposals[j].state = "active"
             /\ proposals'[j].approvalCount = proposals[j].approvalCount
             /\ configs'[j] = IF j = i THEN NoConfig ELSE configs[j]
             /\ isGuardian'[j] = IF j = i THEN {} ELSE isGuardian[j]
  BY <1>1, <1>2, <1>3 DEF RMInv, RMTypeOK, Proposal
<1>6. FiniteGuardians'
  <2> SUFFICES ASSUME NEW j \in Id PROVE IsFiniteSet(configs'[j].guardians)
    BY DEF FiniteGuardians
  <2>1. NoConfig.guardians = {}
    BY DEF NoConfig
  <2>2. QED BY <2>1, <1>5, FS_EmptySet DEF RMInv, FiniteGuardians
<1>7. GuardiansConsistent'
  <2>1. NoConfig.guardians = {} /\ ~NoConfig.configured
    BY DEF NoConfig
  <2>2. QED BY <2>1, <1>5 DEF RMInv, GuardiansConsistent, Active
<1>8. VotesCounted'
  BY <1>2, <1>5 DEF RMInv, VotesCounted, Active
<1>9. QED BY <1>4, <1>6, <1>7, <1>8 DEF OwnInv

\* The end of an execution touches neither guardians nor proposals.
LEMMA FinishRecoveryInv ==
    ASSUME RMInv, NEW u \in Name, FinishRecovery(u)
    PROVE  OwnInv'
<1>1. /\ underway' = [underway EXCEPT ![IdOf(u)] = Idle]
      /\ configs' = configs /\ isGuardian' = isGuardian
      /\ proposals' = proposals /\ approvals' = approvals
  BY DEF FinishRecovery
<1>2. Idle \in Execution
  BY DEF Idle, Execution, AnyAddress
<1>3. underway' \in [Id -> Execution]
  BY <1>1, <1>2 DEF RMInv, RMTypeOK
<1>4. QED
  BY <1>1, <1>3 DEF OwnInv, RMInv, RMTypeOK, FiniteGuardians, GuardiansConsistent,
                    VotesCounted, Active

\* An identity whose execution is out cannot be executed again: its proposal, if it
\* has one, is of this very block.
LEMMA NotTwiceAtOnce ==
    ASSUME RMInv, NEW i \in Id, Ready(i)
    PROVE  ~InCall(i)
<1>1. proposals[i].proposedAt \in Nat /\ now \in Nat /\ TIMELOCK \in Nat \ {0}
  BY MaxTimeAssumption, RecoveryAssumption DEF RMInv, RMTypeOK, Proposal, DRInv
<1>2. QED BY <1>1 DEF Ready, RMInv, InsideIsNew

\* What a step does to an execution: it begins, ends, or stays as it is.
LEMMA ExecutionStep ==
    ASSUME RMInv, RMNext, NEW i \in Id
    PROVE  \/ underway'[i] = underway[i]
           \/ /\ Ready(i) /\ proposals'[i].state = "executed"
              /\ underway'[i].to = proposals[i].newController /\ underway'[i].depth > 0
           \/ InCall(i) /\ underway'[i] = Idle
<1>1. ASSUME NEW u \in Name, ExecuteRecovery(u), IdOf(u) = i
      PROVE  /\ Ready(i) /\ proposals'[i].state = "executed"
             /\ underway'[i].to = proposals[i].newController /\ underway'[i].depth > 0
  BY <1>1, DepthCounts DEF ExecuteRecovery, RMInv, RMTypeOK, Proposal
<1>2. ASSUME NEW u \in Name, ExecuteRecovery(u), IdOf(u) # i
      PROVE  underway'[i] = underway[i]
  BY <1>2 DEF ExecuteRecovery, RMInv, RMTypeOK
<1>3. ASSUME NEW u \in Name, FinishRecovery(u), IdOf(u) = i
      PROVE  InCall(i) /\ underway'[i] = Idle
  BY <1>3 DEF FinishRecovery, Innermost, RMInv, RMTypeOK
<1>4. ASSUME NEW u \in Name, FinishRecovery(u), IdOf(u) # i
      PROVE  underway'[i] = underway[i]
  BY <1>4 DEF FinishRecovery, RMInv, RMTypeOK
<1>5. CASE RMUserNext
  BY <1>5 DEF RMUserNext, ConfigureGuardians, ProposeRecovery, ApproveRecovery, CancelRecovery
<1>6. CASE UNCHANGED rmVars
  BY <1>6 DEF rmVars
<1>7. QED BY <1>1, <1>2, <1>3, <1>4, <1>5, <1>6 DEF RMNext

\* What a step does to a proposal that it leaves open.
LEMMA ProposalStep ==
    ASSUME RMInv, RMNext, NEW i \in Id, proposals'[i].state = "active"
    PROVE  \/ /\ Active(i) /\ proposals'[i].proposedAt = proposals[i].proposedAt
              /\ proposals'[i].newController = proposals[i].newController
           \/ proposals'[i].proposedAt = now /\ proposals'[i].newController # Zero
<1> USE DEF RMInv, RMTypeOK, Active
<1>1. ASSUME NEW a \in Address, NEW u \in Name, NEW c \in AnyAddress, ProposeRecovery(a, u, c)
      PROVE  \/ proposals'[i] = proposals[i]
             \/ proposals'[i].proposedAt = now /\ proposals'[i].newController = c /\ c # Zero
  BY <1>1 DEF ProposeRecovery
<1>2. ASSUME NEW a \in Address, NEW u \in Name, ApproveRecovery(a, u)
      PROVE  /\ proposals'[i].state = proposals[i].state
             /\ proposals'[i].proposedAt = proposals[i].proposedAt
             /\ proposals'[i].newController = proposals[i].newController
  BY <1>2 DEF ApproveRecovery, Proposal
<1>3. ASSUME NEW a \in Address, NEW u \in Name, CancelRecovery(a, u)
      PROVE  proposals'[i] = proposals[i]
  BY <1>3 DEF CancelRecovery, Proposal
<1>4. ASSUME NEW u \in Name, ExecuteRecovery(u)
      PROVE  proposals'[i] = proposals[i]
  BY <1>4 DEF ExecuteRecovery, Proposal
<1>5. CASE proposals' = proposals
  BY <1>5
<1>6. QED
  BY <1>1, <1>2, <1>3, <1>4, <1>5
     DEF RMNext, RMUserNext, ConfigureGuardians, FinishRecovery, rmVars

\* Executions and what is proposed inside them.
LEMMA CallsInv ==
    ASSUME RMInv, RMNext
    PROVE  InsideIsNew' /\ CallsKnow'
<1>1. ASSUME NEW i \in Id PROVE (InCall(i) <=> underway[i] # Idle)'
  <2>1. CASE underway'[i] = underway[i]
    BY <1>1, <2>1 DEF RMInv, CallsKnow, InCall
  <2>2. CASE underway'[i].depth > 0
    BY <2>2 DEF InCall, Idle
  <2>3. CASE underway'[i] = Idle
    BY <2>3 DEF InCall, Idle
  <2>4. QED BY <1>1, <2>1, <2>2, <2>3, ExecutionStep
<1>2. ASSUME NEW i \in Id, InCall(i)' PROVE (underway[i].to # Zero)'
  <2>1. CASE underway'[i] = underway[i]
    BY <1>2, <2>1 DEF RMInv, CallsKnow, InCall
  <2>2. CASE Ready(i) /\ underway'[i].to = proposals[i].newController
    BY <2>2 DEF RMInv, CallsKnow, Ready
  <2>3. underway'[i] # Idle
    BY <1>2 DEF InCall, Idle
  <2>4. QED BY <2>1, <2>2, <2>3, ExecutionStep
<1>3. ASSUME NEW i \in Id, Active(i)' PROVE (proposals[i].newController # Zero)'
  BY <1>3, ProposalStep DEF RMInv, CallsKnow, Active
<1>4. ASSUME NEW i \in Id, InCall(i)', Active(i)' PROVE (proposals[i].proposedAt = now)'
  <2>1. InCall(i)
    BY <1>4, ExecutionStep DEF InCall, Idle, Active
  <2>2. now' = now
    BY <2>1 DEF RMNext
  <2>3. QED BY <1>4, <2>1, <2>2, ProposalStep DEF RMInv, InsideIsNew, Active
<1>5. QED BY <1>1, <1>2, <1>3, <1>4 DEF InsideIsNew, CallsKnow

\* Every step keeps the invariant.
LEMMA RMNextInv == RMInv /\ [RMNext]_rmSystemVars => RMInv'
<1> SUFFICES ASSUME RMInv, [RMNext]_rmSystemVars PROVE RMInv'
  OBVIOUS
<1>1. DRInv'
  BY RegistriesStep, DRNextInv DEF RMInv
<1>2. ASSUME RMUserNext PROVE OwnInv'
  BY <1>2, ConfigureGuardiansInv, ProposeRecoveryInv, ApproveRecoveryInv, CancelRecoveryInv
     DEF RMUserNext
<1>3. ASSUME NEW u \in Name, ExecuteRecovery(u) PROVE OwnInv'
  BY <1>3, ExecuteRecoveryInv
<1>4. ASSUME NEW u \in Name, FinishRecovery(u) PROVE OwnInv'
  BY <1>4, FinishRecoveryInv
<1>5. ASSUME UNCHANGED rmVars PROVE OwnInv'
  BY <1>5 DEF rmVars, OwnInv, RMInv, RMTypeOK, FiniteGuardians, GuardiansConsistent,
              VotesCounted, Active
<1>6. OwnInv'
  BY <1>2, <1>3, <1>4, <1>5 DEF RMNext, rmSystemVars
<1>7. InsideIsNew' /\ CallsKnow'
  <2>1. CASE UNCHANGED rmSystemVars
    BY <2>1 DEF rmSystemVars, rmVars, RMInv, InsideIsNew, CallsKnow, InCall, Active
  <2>2. QED BY <2>1, CallsInv
<1>8. QED BY <1>1, <1>6, <1>7 DEF RMInv, OwnInv

\* The invariant holds in every reachable state.
THEOREM RecoveryManagerInvariant == RMSpec => []RMInv
  BY DeployedInv, RMNextInv, PTL DEF RMSpec

\* The state keeps its types: no list of guardians is longer than MAX_GUARDIANS.
THEOREM RMTypeOKHolds == RMSpec => []RMTypeOK
<1>1. RMInv => RMTypeOK
  BY DEF RMInv
<1>2. QED BY <1>1, RecoveryManagerInvariant, PTL

\* The count of an open proposal is the number of its guardians' votes.
THEOREM VotesCountedHolds == RMSpec => []VotesCounted
<1>1. RMInv => VotesCounted
  BY DEF RMInv
<1>2. QED BY <1>1, RecoveryManagerInvariant, PTL

\* The flags are the configured list, and a quorum of distinct guardians exists.
THEOREM GuardiansConsistentHolds == RMSpec => []GuardiansConsistent
<1>1. RMInv => GuardiansConsistent
  BY DEF RMInv
<1>2. QED BY <1>1, RecoveryManagerInvariant, PTL

\* Votes and flags stand for present guardians in every reachable state.
THEOREM RecoveryConsistentHolds == RMSpec => []RecoveryConsistent
<1>1. RMInv => RecoveryConsistent
  BY DEF RMInv, RecoveryConsistent
<1>2. QED BY <1>1, RecoveryManagerInvariant, PTL

-----------------------------------------------------------------------------
\* While a proposal stays open nobody can change what is being voted on.
LEMMA StepKeepsTerms == ASSUME RMInv, RMNext PROVE OpenProposalFixedA
<1> SUFFICES ASSUME NEW j \in Id, Active(j), proposals'[j].state = "active"
             PROVE  /\ proposals'[j].newController = proposals[j].newController
                    /\ proposals'[j].proposedAt = proposals[j].proposedAt
                    /\ configs'[j] = configs[j]
                    /\ approvals[j] \subseteq approvals'[j]
  BY DEF OpenProposalFixedA
<1> DEFINE Fixed == /\ proposals'[j].newController = proposals[j].newController
                    /\ proposals'[j].proposedAt = proposals[j].proposedAt
                    /\ configs'[j] = configs[j]
                    /\ approvals[j] \subseteq approvals'[j]
<1> USE DEF RMInv, RMTypeOK, Active
<1>1. ASSUME NEW a \in Address, NEW u \in Name, NEW list \in GuardianLists,
             NEW t \in 0..(Len(list) + 1), ConfigureGuardians(a, u, list, t)
      PROVE  Fixed
  BY <1>1 DEF ConfigureGuardians, Reconfigurable
<1>2. ASSUME NEW a \in Address, NEW u \in Name, NEW c \in AnyAddress, ProposeRecovery(a, u, c)
      PROVE  Fixed
  BY <1>2 DEF ProposeRecovery
<1>3. ASSUME NEW a \in Address, NEW u \in Name, ApproveRecovery(a, u)
      PROVE  Fixed
  BY <1>3 DEF ApproveRecovery, Proposal
<1>4. ASSUME NEW a \in Address, NEW u \in Name, CancelRecovery(a, u)
      PROVE  Fixed
  BY <1>4 DEF CancelRecovery, Proposal
<1>5. ASSUME NEW u \in Name, ExecuteRecovery(u)
      PROVE  Fixed
  <2>1. IdOf(u) # j
    BY <1>5 DEF ExecuteRecovery, Proposal
  <2>2. QED BY <1>5, <2>1 DEF ExecuteRecovery
<1>6. CASE UNCHANGED <<configs, proposals, approvals>>
  BY <1>6
<1>7. QED
  BY <1>1, <1>2, <1>3, <1>4, <1>5, <1>6 DEF RMNext, RMUserNext, FinishRecovery, rmVars

\* The terms of an open proposal are fixed.
THEOREM OpenProposalFixedHolds == RMSpec => OpenProposalFixed
<1>1. ASSUME RMInv, [RMNext]_rmSystemVars PROVE [OpenProposalFixedA]_rmSystemVars
  BY <1>1, StepKeepsTerms
<1>2. QED BY <1>1, RecoveryManagerInvariant, PTL DEF RMSpec, OpenProposalFixed

\* Only executeRecovery turns a proposal to executed, and it dismisses the guardians.
LEMMA BeginDismisses ==
    ASSUME RMInv, RMNext, NEW j \in Id, Active(j), proposals'[j].state = "executed"
    PROVE  isGuardian'[j] = {} /\ ~configs'[j].configured
<1> USE DEF RMInv, RMTypeOK, Active, Proposal
<1>1. ~RMUserNext
  BY DEF RMUserNext, ConfigureGuardians, ProposeRecovery, ApproveRecovery, CancelRecovery
<1>2. proposals' # proposals
  OBVIOUS
<1>3. PICK u \in Name : ExecuteRecovery(u)
  BY <1>1, <1>2 DEF RMNext, FinishRecovery, rmVars
<1>4. IdOf(u) = j
  BY <1>3 DEF ExecuteRecovery
<1>5. FlagsCleared(j) = {}
  BY DEF FlagsCleared, GuardiansConsistent
<1>6. /\ isGuardian' = [isGuardian EXCEPT ![j] = FlagsCleared(j)]
      /\ configs' = [configs EXCEPT ![j] = NoConfig]
  BY <1>3, <1>4 DEF ExecuteRecovery
<1>7. ~NoConfig.configured
  BY DEF NoConfig
<1>8. QED BY <1>5, <1>6, <1>7

\* Only the end of an execution takes it away.
LEMMA EndIsFinish ==
    ASSUME RMInv, RMNext, NEW j \in Id, InCall(j), ~InCall(j)'
    PROVE  \E u \in Name : FinishRecovery(u) /\ IdOf(u) = j
<1>1. underway' # underway
  BY DEF InCall
<1>2. ASSUME NEW u \in Name, ExecuteRecovery(u) PROVE FALSE
  <2>1. Ready(IdOf(u)) /\ IdOf(u) \in Id
    BY <1>2, RegisteredId DEF ExecuteRecovery, RMInv, DRInv
  <2>2. IdOf(u) # j
    BY <2>1, NotTwiceAtOnce
  <2>3. QED BY <1>2, <2>2 DEF ExecuteRecovery, InCall, RMInv, RMTypeOK
<1>3. PICK u \in Name : FinishRecovery(u)
  BY <1>1, <1>2
     DEF RMNext, RMUserNext, ConfigureGuardians, ProposeRecovery, ApproveRecovery,
         CancelRecovery, rmVars
<1>4. IdOf(u) = j
  BY <1>3 DEF FinishRecovery, InCall, RMInv, RMTypeOK
<1>5. QED BY <1>3, <1>4

\* It walks the list that ListMatchesOwner says holds every device of the identity.
LEMMA StepCleansSlate == ASSUME RMInv, RMNext PROVE RecoveryCleanSlateA
<1> SUFFICES ASSUME NEW j \in Id, InCall(j), ~InCall(j)'
             PROVE  /\ \A d \in Device :
                          devices'[d].exists /\ devices'[d].identityId = j => devices'[d].revoked
                    /\ \A u \in Name : Registered(u) /\ IdOf(u) = j =>
                          identityByUsername'[u].controller # ControllerOf(u)
  BY BeginDismisses DEF RecoveryCleanSlateA
<1>1. PICK w \in Name : FinishRecovery(w) /\ IdOf(w) = j
  BY EndIsFinish
<1>2. ASSUME NEW d \in Device, devices'[d].exists, devices'[d].identityId = j
      PROVE  devices'[d].revoked
  <2>1. devices' = [e \in Device |->
           IF e \in listed[j] THEN [devices[e] EXCEPT !.revoked = TRUE] ELSE devices[e]]
    BY <1>1 DEF FinishRecovery, RevokeAllDevices, Walked
  <2>2. devices[d] \in DeviceRecord
    BY DEF RMInv, DRInv, DRTypeOK
  <2>3. devices[d].exists /\ devices[d].identityId = j
    BY <1>2, <2>1, <2>2 DEF DeviceRecord
  <2>4. d \in listed[j]
    BY <2>3 DEF RMInv, DRInv, ListMatchesOwner, Exists, OwnerIdOf
  <2>5. QED BY <2>1, <2>2, <2>4 DEF DeviceRecord
<1>3. ASSUME NEW u \in Name, Registered(u), IdOf(u) = j
      PROVE  identityByUsername'[u].controller # ControllerOf(u)
  <2>1. Registered(w) /\ Rebind(w, underway[j].to)
    BY <1>1 DEF FinishRecovery, RecoverController
  <2>2. w = u
    BY <1>1, <1>3, <2>1 DEF RMInv, DRInv, IRInv, IdsDense
  <2>3. identityByUsername'[u].controller = underway[j].to /\ ~HasIdentity(underway[j].to)
    BY <2>1, <2>2 DEF Rebind, WalletFree, RMInv, DRInv, IRInv, IRTypeOK, Identity
  <2>4. HasIdentity(ControllerOf(u))
    BY <1>3, NameAssumption
       DEF HasIdentity, RMInv, DRInv, IRInv, RecordsWellFormed, ControllerInverse
  <2>5. QED BY <2>3, <2>4
<1>4. QED BY <1>2, <1>3

\* A recovery ends with no active device, and begins with no guardian left.
THEOREM RecoveryCleanSlateHolds == RMSpec => RecoveryCleanSlate
<1>1. ASSUME RMInv, [RMNext]_rmSystemVars PROVE [RecoveryCleanSlateA]_rmSystemVars
  BY <1>1, StepCleansSlate
<1>2. QED BY <1>1, RecoveryManagerInvariant, PTL DEF RMSpec, RecoveryCleanSlate

\* Control moves by the controller's signature or by a quorum after the delay.
LEMMA StepMovesByRight == ASSUME RMInv, RMNext PROVE ControlMovesByRightA
<1> DEFINE next(u) == identityByUsername'[u].controller
<1>1. ASSUME NEW u \in Name, Registered(u), next(u) # ControllerOf(u)
      PROVE  \/ /\ \E a \in Address : TransferController(a, u, next(u))
                /\ UNCHANGED <<drVars, rmVars>>
             \/ /\ InCall(IdOf(u)) /\ underway'[IdOf(u)] = Idle
                /\ next(u) = underway[IdOf(u)].to
  <2>1. ASSUME NEW w \in Name, NEW c \in AnyAddress, Rebind(w, c)
        PROVE  w = u /\ next(u) = c
    BY <1>1, <2>1 DEF Rebind, ControllerOf, RMInv, DRInv, IRInv, IRTypeOK, Identity
  <2>2. ASSUME NEW w \in Name, NEW c \in AnyAddress, NEW s \in AnyAddress, CreateIdentity(w, c, s)
        PROVE  FALSE
    BY <1>1, <2>2 DEF CreateIdentity, NameOpen, ControllerOf, RMInv, DRInv, IRInv, IRTypeOK
  <2>3. CASE IRUserNext /\ UNCHANGED <<drVars, rmVars, now>>
    <3>1. \E a \in Address, w \in Name, c \in AnyAddress : TransferController(a, w, c)
      BY <1>1, <2>2, <2>3 DEF IRUserNext, SetIdentityRM, SetFactory, ControllerOf
    <3>2. QED BY <2>1, <2>3, <3>1 DEF TransferController
  <2>4. ASSUME NEW w \in Name, FinishRecovery(w)
        PROVE  /\ InCall(IdOf(u)) /\ underway'[IdOf(u)] = Idle
               /\ next(u) = underway[IdOf(u)].to
    <3>1. /\ IdOf(w) \in Id /\ InCall(IdOf(w))
          /\ Rebind(w, underway[IdOf(w)].to)
          /\ underway' = [underway EXCEPT ![IdOf(w)] = Idle]
      BY <2>4, RegisteredId DEF FinishRecovery, Innermost, RecoverController, RMInv, DRInv
    <3>2. underway[IdOf(w)].to \in AnyAddress
      BY <3>1 DEF RMInv, RMTypeOK, Execution
    <3>3. w = u /\ next(u) = underway[IdOf(w)].to
      BY <2>1, <3>1, <3>2
    <3>4. QED BY <3>1, <3>3 DEF RMInv, RMTypeOK
  <2>5. CASE UNCHANGED irVars
    BY <1>1, <2>5 DEF irVars, ControllerOf
  <2>6. QED BY <2>3, <2>4, <2>5 DEF RMNext
<1>2. ASSUME NEW i \in Id, underway'[i] # underway[i]
      PROVE  IF InCall(i) THEN underway'[i] = Idle ELSE BeginsByRight(i)
  <2>1. CASE InCall(i) /\ underway'[i] = Idle
    BY <2>1
  <2>2. CASE Ready(i) /\ underway'[i].to = proposals[i].newController
    <3>1. ~InCall(i)
      BY <2>2, NotTwiceAtOnce
    <3>2. Active(i) /\ proposals[i].approvalCount >= configs[i].threshold
      BY <2>2 DEF Ready
    <3>3. /\ proposals[i].approvalCount = Cardinality(QuorumOf(i))
          /\ configs[i].configured
      BY <3>2 DEF RMInv, VotesCounted, GuardiansConsistent, QuorumOf
    <3>4. now - proposals[i].proposedAt >= TIMELOCK
      <4>1. proposals[i].proposedAt \in Nat
        BY MaxTimeAssumption DEF RMInv, RMTypeOK, Proposal
      <4>2. now \in Nat
        BY MaxTimeAssumption DEF RMInv, DRInv
      <4>3. QED BY <2>2, <4>1, <4>2, RecoveryAssumption DEF Ready
    <3>5. QED BY <2>2, <3>1, <3>2, <3>3, <3>4 DEF BeginsByRight
  <2>3. QED BY <1>2, <2>1, <2>2, ExecutionStep
<1>3. QED BY <1>1, <1>2 DEF ControlMovesByRightA

\* Nobody takes an identity over but as its controller, or its guardians, decide.
THEOREM ControlMovesByRightHolds == RMSpec => ControlMovesByRight
<1>1. ASSUME RMInv, [RMNext]_rmSystemVars PROVE [ControlMovesByRightA]_rmSystemVars
  BY <1>1, StepMovesByRight
<1>2. QED BY <1>1, RecoveryManagerInvariant, PTL DEF RMSpec, ControlMovesByRight

-----------------------------------------------------------------------------
(***************************************************************************)
(* RecoveryManager over the two registries implements SocialRecovery, for   *)
(* any wallets, guardians and delay.  The abstract holder of an identity is *)
(* the controller of the one name that carries its id, which IdsDense makes *)
(* unique; the abstract votes are the flags of present guardians, which     *)
(* VotesCounted says approvalCount counts.                                  *)
(***************************************************************************)

\* What the refinement mapping needs of holderBar, without its CHOOSE.
HolderFacts ==
    /\ holderBar = [i \in Id |-> holderBar[i]]
    /\ \A u \in Name : Registered(u) =>
          IdOf(u) \in Id /\ holderBar[IdOf(u)] = ControllerOf(u)
    /\ \A i \in Id : holderBar[i] # Zero => \E u \in Name : Registered(u) /\ IdOf(u) = i

-----------------------------------------------------------------------------
\* It follows from the invariant.
LEMMA HolderFactsHold == RMInv => HolderFacts
<1> SUFFICES ASSUME RMInv PROVE HolderFacts
  OBVIOUS
<1>1. IRInv
  BY DEF RMInv, DRInv
<1>2. ASSUME NEW u \in Name, Registered(u)
      PROVE  IdOf(u) \in 1..nextId /\ IdOf(u) \in Id /\ NameWithId(IdOf(u)) = u
  <2>1. IdOf(u) \in 1..nextId /\ IdOf(u) \in Id
    BY <1>1, <1>2, RegisteredId DEF IRInv, RecordsWellFormed
  <2>2. NameWithId(IdOf(u)) \in Name /\ Registered(NameWithId(IdOf(u)))
        /\ IdOf(NameWithId(IdOf(u))) = IdOf(u)
    BY <1>2 DEF NameWithId
  <2>3. NameWithId(IdOf(u)) = u
    BY <1>1, <1>2, <2>2 DEF IRInv, IdsDense
  <2>4. QED BY <2>1, <2>3
<1>3. \A u \in Name : Registered(u) =>
         IdOf(u) \in Id /\ holderBar[IdOf(u)] = ControllerOf(u)
  BY <1>1, <1>2 DEF holderBar, IRInv, IRTypeOK
<1>4. ASSUME NEW i \in Id, holderBar[i] # Zero
      PROVE  \E u \in Name : Registered(u) /\ IdOf(u) = i
  <2>1. i \in 1..nextId
    BY <1>1, <1>4, MaxIdAssumption DEF holderBar, Id, IRInv, IRTypeOK
  <2>2. QED BY <1>1, <2>1 DEF IRInv, IdsDense
<1>5. holderBar = [i \in Id |-> holderBar[i]]
  BY DEF holderBar
<1>6. QED BY <1>3, <1>4, <1>5 DEF HolderFacts

\* An identity whose name and controller stay keeps its holder.
LEMMA SameHolder ==
    ASSUME HolderFacts, HolderFacts', NEW j \in Id,
           \A u \in Name : (Registered(u)' /\ IdOf(u)' = j) <=> (Registered(u) /\ IdOf(u) = j),
           \A u \in Name : Registered(u) /\ IdOf(u) = j => ControllerOf(u)' = ControllerOf(u)
    PROVE  holderBar'[j] = holderBar[j]
<1>1. ASSUME NEW u \in Name, Registered(u), IdOf(u) = j
      PROVE  holderBar[j] = ControllerOf(u) /\ holderBar'[j] = ControllerOf(u)
  BY <1>1 DEF HolderFacts
<1>2. CASE \A u \in Name : ~(Registered(u) /\ IdOf(u) = j)
  BY <1>2 DEF HolderFacts
<1>3. QED BY <1>1, <1>2

\* So does every identity when the identity registry is left alone.
LEMMA HolderUnchanged ==
    ASSUME HolderFacts, HolderFacts', UNCHANGED irVars
    PROVE  holderBar' = holderBar
<1>1. ASSUME NEW j \in Id PROVE holderBar'[j] = holderBar[j]
  BY SameHolder DEF irVars, Registered, IdOf, ControllerOf
<1>2. QED BY <1>1 DEF HolderFacts

\* A wallet without an identity holds none in the abstract.
LEMMA WalletFreeIsFree ==
    ASSUME RMInv, HolderFacts, NEW w \in Address, ~HasIdentity(w)
    PROVE  Social!FreeWallet(w)
<1> SUFFICES ASSUME NEW i \in Id, holderBar[i] = w PROVE FALSE
  BY DEF Social!FreeWallet
<1>1. PICK u \in Name : Registered(u) /\ IdOf(u) = i
  BY AddressAssumption DEF HolderFacts
<1>2. ControllerOf(u) = w
  BY <1>1 DEF HolderFacts
<1>3. usernameByController[w] = u
  BY <1>1, <1>2 DEF RMInv, DRInv, IRInv, ControllerInverse
<1>4. QED BY <1>3, NameAssumption DEF HasIdentity

\* Moving a name moves the holder of its id, and of no other.
LEMMA RebindMovesHolder ==
    ASSUME RMInv, HolderFacts, HolderFacts', NEW u \in Name, NEW c \in AnyAddress, Rebind(u, c)
    PROVE  /\ IdOf(u) \in Id /\ c \in Address
           /\ holderBar[IdOf(u)] # Zero
           /\ Social!FreeWallet(c)
           /\ holderBar' = [holderBar EXCEPT ![IdOf(u)] = c]
<1>1. Registered(u) /\ c \in Address /\ ~HasIdentity(c)
  BY DEF Rebind, WalletFree, AnyAddress
<1>2. IdOf(u) \in Id /\ holderBar[IdOf(u)] = ControllerOf(u) /\ ControllerOf(u) \in Address
  BY <1>1 DEF HolderFacts, RMInv, DRInv, IRInv, RecordsWellFormed
<1>3. /\ \A v \in Name : (Registered(v)' <=> Registered(v)) /\ IdOf(v)' = IdOf(v)
      /\ \A v \in Name \ {u} : ControllerOf(v)' = ControllerOf(v)
      /\ ControllerOf(u)' = c
  BY DEF Rebind, Registered, IdOf, ControllerOf, RMInv, DRInv, IRInv, IRTypeOK, Identity
<1>4. holderBar'[IdOf(u)] = c
  BY <1>1, <1>3 DEF HolderFacts
<1>5. ASSUME NEW j \in Id, j # IdOf(u) PROVE holderBar'[j] = holderBar[j]
  BY <1>3, <1>5, SameHolder
<1>6. holderBar' = [holderBar EXCEPT ![IdOf(u)] = c]
  BY <1>2, <1>4, <1>5 DEF HolderFacts
<1>7. QED BY <1>1, <1>2, <1>6, WalletFreeIsFree, AddressAssumption

\* A new name gives the next id its first holder.
LEMMA CreateEnrols ==
    ASSUME RMInv, HolderFacts, HolderFacts', NEW u \in Name, NEW c \in AnyAddress,
           NEW s \in AnyAddress, CreateIdentity(u, c, s)
    PROVE  /\ nextId + 1 \in Id /\ c \in Address
           /\ holderBar[nextId + 1] = Zero
           /\ Social!FreeWallet(c)
           /\ holderBar' = [holderBar EXCEPT ![nextId + 1] = c]
<1>1. /\ ~Registered(u) /\ c \in Address /\ ~HasIdentity(c)
      /\ nextId < MaxId /\ nextId \in Nat
  BY DEF CreateIdentity, NameOpen, WalletFree, AnyAddress, RMInv, DRInv, IRInv, IRTypeOK
<1>2. nextId + 1 \in Id
  BY <1>1, MaxIdAssumption DEF Id
<1>3. \A v \in Name : Registered(v) => IdOf(v) \in 1..nextId
  BY DEF RMInv, DRInv, IRInv, RecordsWellFormed
<1>4. holderBar[nextId + 1] = Zero
  BY <1>1, <1>2, <1>3 DEF HolderFacts
<1>5. /\ \A v \in Name \ {u} : identityByUsername'[v] = identityByUsername[v]
      /\ Registered(u)' /\ IdOf(u)' = nextId + 1 /\ ControllerOf(u)' = c
  BY DEF CreateIdentity, NewIdentity, Registered, IdOf, ControllerOf, RMInv, DRInv, IRInv, IRTypeOK
<1>6. holderBar'[nextId + 1] = c
  BY <1>5 DEF HolderFacts
<1>7. ASSUME NEW j \in Id, j # nextId + 1 PROVE holderBar'[j] = holderBar[j]
  <2>1. \A v \in Name : (Registered(v)' /\ IdOf(v)' = j) <=> (Registered(v) /\ IdOf(v) = j)
    BY <1>1, <1>5, <1>7 DEF Registered, IdOf
  <2>2. \A v \in Name : Registered(v) /\ IdOf(v) = j => ControllerOf(v)' = ControllerOf(v)
    BY <1>1, <1>5 DEF ControllerOf
  <2>3. QED BY <2>1, <2>2, SameHolder
<1>8. holderBar' = [holderBar EXCEPT ![nextId + 1] = c]
  BY <1>2, <1>6, <1>7 DEF HolderFacts
<1>9. QED BY <1>1, <1>2, <1>4, <1>8, WalletFreeIsFree

-----------------------------------------------------------------------------
\* A deployed system starts as the abstract one does.
LEMMA DeployedIsSocialInit == Deployed => Social!SocialInit
<1> SUFFICES ASSUME Deployed PROVE Social!SocialInit
  OBVIOUS
<1>1. holderBar = [i \in Id |-> Zero]
  BY MaxIdAssumption DEF Deployed, IREmpty, holderBar, Id
<1>2. trustBar = [i \in Id |-> [guardians |-> {}, quorum |-> 0]]
  BY DEF Deployed, RMInit, trustBar, NoConfig
<1>3. attemptBar = [i \in Id |-> [open |-> FALSE, target |-> Zero, votes |-> {}, since |-> 0]]
  BY DEF Deployed, RMInit, attemptBar, NoProposal, Active
<1>4. passingBar = [i \in Id |-> [on |-> FALSE, to |-> Zero]]
  BY DEF Deployed, RMInit, passingBar, InCall, Idle
<1>5. QED
  BY <1>1, <1>2, <1>3, <1>4
     DEF Social!SocialInit, Social!NoTrust, Social!NoAttempt, Social!NotPassing, Deployed, Genesis

\* The contract's own tables determine trust, attempt and passage.
LEMMA TablesUnchanged ==
    ASSUME UNCHANGED rmVars
    PROVE  trustBar' = trustBar /\ attemptBar' = attemptBar /\ passingBar' = passingBar
  BY DEF rmVars, trustBar, attemptBar, passingBar, Active, InCall

\* Nothing passes while no execution begins or ends.
LEMMA PassingUnchanged ==
    ASSUME UNCHANGED underway PROVE passingBar' = passingBar
  BY DEF passingBar, InCall

\* createIdentity enrols, transferController hands over, the rest of the identity
\* registry stutters.
LEMMA IdentityStepSimulates ==
    ASSUME RMInv, HolderFacts, HolderFacts', IRUserNext, UNCHANGED <<drVars, rmVars, now>>
    PROVE  [Social!SocialNext]_Social!srcVars
<1>1. trustBar' = trustBar /\ attemptBar' = attemptBar /\ passingBar' = passingBar /\ now' = now
  BY TablesUnchanged
<1>2. ASSUME NEW u \in Name, NEW c \in AnyAddress, NEW s \in AnyAddress, CreateIdentity(u, c, s)
      PROVE  Social!SocialNext
  <2>1. Social!Enrol(nextId + 1, c)
    BY <1>1, <1>2, CreateEnrols DEF Social!Enrol
  <2>2. QED BY <1>2, <2>1, CreateEnrols DEF Social!SocialNext
<1>3. ASSUME NEW a \in Address, NEW u \in Name, NEW c \in AnyAddress, TransferController(a, u, c)
      PROVE  Social!SocialNext
  <2>1. /\ IdOf(u) \in Id /\ c \in Address
        /\ Social!HandOver(IdOf(u), c)
    BY <1>1, <1>3, RebindMovesHolder DEF TransferController, Social!HandOver
  <2>2. QED BY <2>1 DEF Social!SocialNext
<1>4. ASSUME UNCHANGED <<nextId, identityByUsername, usernameByController>>
      PROVE  UNCHANGED Social!srcVars
  <2>1. ASSUME NEW j \in Id PROVE holderBar'[j] = holderBar[j]
    BY <1>4, SameHolder DEF Registered, IdOf, ControllerOf
  <2>2. QED BY <1>1, <2>1 DEF HolderFacts, Social!srcVars
<1>5. QED BY <1>2, <1>3, <1>4 DEF IRUserNext, SetIdentityRM, SetFactory

\* The abstract module counts as this one does.
LEMMA SameCardinality == ASSUME NEW S PROVE Social!Cardinality(S) = Cardinality(S)
  BY DEF Social!Cardinality, Cardinality

\* Naming any set of guardians is a step of the abstract system.
LEMMA NamingIsNext ==
    ASSUME NEW j \in Id, NEW H \in SUBSET Nameable, NEW t \in 1..Cardinality(H),
           Social!NameGuardians(j, H, t)
    PROVE  Social!SocialNext
  BY SameCardinality DEF Social!SocialNext

\* configureGuardians names guardians.
LEMMA ConfigureSimulates ==
    ASSUME RMInv, HolderFacts, HolderFacts', UNCHANGED <<irVars, drVars, now>>,
           NEW a \in Address, NEW u \in Name, NEW list \in GuardianLists,
           NEW t \in 0..(Len(list) + 1), ConfigureGuardians(a, u, list, t)
    PROVE  Social!SocialNext
<1> DEFINE i == IdOf(u)
           G == Elements(list)
<1>1. /\ i \in Id /\ holderBar[i] # Zero
      /\ Registered(u) /\ NoDuplicate(list) /\ t \in 1..Len(list) /\ ~Active(i)
      /\ configs' = [configs EXCEPT ![i] = [guardians |-> G, threshold |-> t, configured |-> TRUE]]
      /\ proposals' = proposals /\ approvals' = approvals
  BY AddressAssumption
     DEF ConfigureGuardians, Reconfigurable, HolderFacts, RMInv, DRInv, IRInv, RecordsWellFormed
<1>2. G \subseteq Nameable /\ t \in 1..Cardinality(G)
  <2>1. list \in Seq(AnyAddress)
    BY RecoveryAssumption
  <2>2. Cardinality(G) = Len(list)
    BY <1>1, <2>1, ElementsCounted
  <2>3. QED BY <1>1, <2>2 DEF Nameable
<1>3. holderBar' = holderBar /\ passingBar' = passingBar /\ now' = now
  BY HolderUnchanged, PassingUnchanged DEF ConfigureGuardians
<1> HIDE DEF i, G
<1>4. trustBar' = [trustBar EXCEPT ![i] = [guardians |-> G, quorum |-> t]]
  BY <1>1 DEF trustBar, RMInv, RMTypeOK
<1>5. attemptBar' = attemptBar
  <2>1. ASSUME NEW j \in Id PROVE attemptBar'[j] = attemptBar[j]
    <3>1. CASE j = i
      BY <1>1, <3>1 DEF attemptBar, Active
    <3>2. CASE j # i
      BY <1>1, <3>2 DEF attemptBar, Active, RMInv, RMTypeOK
    <3>3. QED BY <3>1, <3>2
  <2>2. QED BY <2>1 DEF attemptBar
<1>6. ~attemptBar[i].open
  BY <1>1 DEF attemptBar
<1>7. Social!NameGuardians(i, G, t)
  BY <1>1, <1>3, <1>4, <1>5, <1>6 DEF Social!NameGuardians
<1>8. QED BY <1>1, <1>2, <1>7, NamingIsNext

\* proposeRecovery begins an attempt.
LEMMA ProposeSimulates ==
    ASSUME RMInv, HolderFacts, HolderFacts', UNCHANGED <<irVars, drVars, now>>,
           NEW a \in Address, NEW u \in Name, NEW c \in AnyAddress, ProposeRecovery(a, u, c)
    PROVE  Social!SocialNext
<1> DEFINE i == IdOf(u)
           new == [state |-> "active", newController |-> c,
                   proposedAt |-> now, approvalCount |-> 0]
<1>1. /\ i \in Id /\ holderBar[i] # Zero /\ c \in Address
      /\ a \in configs[i].guardians /\ ~Active(i)
      /\ approvals' = [approvals EXCEPT ![i] = approvals[i] \ configs[i].guardians]
      /\ proposals' = [proposals EXCEPT ![i] = new]
      /\ configs' = configs
  <2>1. Registered(u) /\ c \in Address /\ a \in isGuardian[i] /\ ~Active(i)
    BY DEF ProposeRecovery, AnyAddress
  <2>2. i \in Id /\ holderBar[i] = ControllerOf(u) /\ ControllerOf(u) # Zero
    BY <2>1, AddressAssumption DEF HolderFacts, RMInv, DRInv, IRInv, RecordsWellFormed
  <2>3. a \in configs[i].guardians
    BY <2>1, <2>2 DEF RMInv, GuardiansConsistent
  <2>4. QED BY <2>1, <2>2, <2>3 DEF ProposeRecovery, ApprovalsCleared
<1>2. holderBar' = holderBar /\ passingBar' = passingBar /\ now' = now
  BY HolderUnchanged, PassingUnchanged DEF ProposeRecovery
<1> HIDE DEF i
<1>3. trustBar' = trustBar
  BY <1>1 DEF trustBar
<1>4. attemptBar' = [attemptBar EXCEPT ![i] =
         [open |-> TRUE, target |-> c, votes |-> {}, since |-> now]]
  <2>1. ASSUME NEW j \in Id
        PROVE  attemptBar'[j] = IF j = i THEN [open |-> TRUE, target |-> c, votes |-> {}, since |-> now]
                                ELSE attemptBar[j]
    <3>1. CASE j = i
      <4>1. proposals'[i] = new
        BY <1>1 DEF RMInv, RMTypeOK
      <4>2. approvals'[i] = approvals[i] \ configs[i].guardians
        BY <1>1 DEF RMInv, RMTypeOK
      <4>3. approvals'[i] \cap configs'[i].guardians = {}
        BY <1>1, <4>2
      <4>4. new.state = "active" /\ new.newController = c /\ new.proposedAt = now
        OBVIOUS
      <4>5. QED BY <3>1, <4>1, <4>3, <4>4 DEF attemptBar, Active
    <3>2. CASE j # i
      <4>1. proposals'[j] = proposals[j] /\ approvals'[j] = approvals[j] /\ configs'[j] = configs[j]
        BY <1>1, <3>2 DEF RMInv, RMTypeOK
      <4>2. QED BY <3>2, <4>1 DEF attemptBar, Active
    <3>3. QED BY <3>1, <3>2
  <2>2. QED BY <1>1, <2>1 DEF attemptBar
<1>5. ~attemptBar[i].open /\ trustBar[i].guardians # {}
  BY <1>1 DEF attemptBar, trustBar
<1>6. Social!Begin(i, c)
  BY <1>1, <1>2, <1>3, <1>4, <1>5 DEF Social!Begin
<1>7. QED BY <1>1, <1>6 DEF Social!SocialNext

\* approveRecovery casts a vote.
LEMMA ApproveSimulates ==
    ASSUME RMInv, HolderFacts, HolderFacts', UNCHANGED <<irVars, drVars, now>>,
           NEW a \in Address, NEW u \in Name, ApproveRecovery(a, u),
           configs[IdOf(u)].guardians \subseteq Nameable
    PROVE  Social!SocialNext
<1> DEFINE i == IdOf(u)
<1>1. /\ i \in Id
      /\ a \in configs[i].guardians /\ Active(i) /\ a \notin approvals[i]
      /\ approvals' = [approvals EXCEPT ![i] = @ \cup {a}]
      /\ proposals' = [proposals EXCEPT ![i].approvalCount = @ + 1]
      /\ configs' = configs
  BY DEF ApproveRecovery, NotYetApproved, HolderFacts, RMInv, GuardiansConsistent
<1>2. holderBar' = holderBar /\ passingBar' = passingBar /\ now' = now
  BY HolderUnchanged, PassingUnchanged DEF ApproveRecovery
<1>3. a \in Nameable
  BY <1>1
<1> HIDE DEF i
<1>4. trustBar' = trustBar
  BY <1>1 DEF trustBar
<1>5. attemptBar' = [attemptBar EXCEPT ![i].votes = @ \cup {a}]
  <2>1. ASSUME NEW j \in Id
        PROVE  attemptBar'[j] = IF j = i THEN [attemptBar[i] EXCEPT !.votes = @ \cup {a}]
                                ELSE attemptBar[j]
    <3>1. /\ proposals'[j].state = proposals[j].state
          /\ proposals'[j].newController = proposals[j].newController
          /\ proposals'[j].proposedAt = proposals[j].proposedAt
          /\ approvals'[j] = IF j = i THEN approvals[i] \cup {a} ELSE approvals[j]
          /\ configs'[j] = configs[j]
      BY <1>1 DEF RMInv, RMTypeOK, Proposal
    <3>2. CASE j = i
      <4>1. (approvals[i] \cup {a}) \cap configs[i].guardians
               = (approvals[i] \cap configs[i].guardians) \cup {a}
        BY <1>1
      <4>2. QED BY <1>1, <3>1, <3>2, <4>1 DEF attemptBar, Active
    <3>3. CASE j # i
      BY <3>1, <3>3 DEF attemptBar, Active
    <3>4. QED BY <3>2, <3>3
  <2>2. QED BY <1>1, <2>1 DEF attemptBar
<1>6. attemptBar[i].open /\ a \in trustBar[i].guardians \ attemptBar[i].votes
  BY <1>1 DEF attemptBar, trustBar
<1>7. Social!Vote(i, a)
  BY <1>2, <1>4, <1>5, <1>6 DEF Social!Vote
<1>8. QED BY <1>1, <1>3, <1>7 DEF Social!SocialNext

\* cancelRecovery calls an attempt off.
LEMMA CancelSimulates ==
    ASSUME RMInv, HolderFacts, HolderFacts', UNCHANGED <<irVars, drVars, now>>,
           NEW a \in Address, NEW u \in Name, CancelRecovery(a, u)
    PROVE  Social!SocialNext
<1> DEFINE i == IdOf(u)
<1>1. /\ i \in Id /\ Active(i)
      /\ proposals' = [proposals EXCEPT ![i].state = "cancelled"]
      /\ configs' = configs /\ approvals' = approvals
  BY DEF CancelRecovery, HolderFacts
<1>2. holderBar' = holderBar /\ passingBar' = passingBar /\ now' = now
  BY HolderUnchanged, PassingUnchanged DEF CancelRecovery
<1> HIDE DEF i
<1>3. trustBar' = trustBar
  BY <1>1 DEF trustBar
<1>4. attemptBar' = [attemptBar EXCEPT ![i] =
         [open |-> FALSE, target |-> Zero, votes |-> {}, since |-> 0]]
  <2>1. ASSUME NEW j \in Id
        PROVE  attemptBar'[j] = IF j = i THEN [open |-> FALSE, target |-> Zero, votes |-> {}, since |-> 0]
                                ELSE attemptBar[j]
    <3>1. CASE j = i
      <4>1. proposals'[j].state = "cancelled"
        BY <1>1, <3>1 DEF RMInv, RMTypeOK, Proposal
      <4>2. QED BY <3>1, <4>1 DEF attemptBar, Active
    <3>2. CASE j # i
      <4>1. proposals'[j] = proposals[j] /\ approvals' = approvals /\ configs' = configs
        BY <1>1, <3>2 DEF RMInv, RMTypeOK
      <4>2. QED BY <3>2, <4>1 DEF attemptBar, Active
    <3>3. QED BY <3>1, <3>2
  <2>2. QED BY <1>1, <2>1 DEF attemptBar
<1>5. attemptBar[i].open
  BY <1>1 DEF attemptBar
<1>6. Social!CallOff(i)
  BY <1>2, <1>3, <1>4, <1>5 DEF Social!CallOff, Social!NoAttempt
<1>7. QED BY <1>1, <1>6 DEF Social!SocialNext

\* executeRecovery completes an attempt.
LEMMA ExecuteSimulates ==
    ASSUME RMInv, HolderFacts, HolderFacts', UNCHANGED <<irVars, drVars, now>>,
           NEW u \in Name, ExecuteRecovery(u)
    PROVE  Social!SocialNext
<1> DEFINE i == IdOf(u)
           target == proposals[i].newController
<1>1. i \in Id /\ Ready(i)
  BY DEF ExecuteRecovery, HolderFacts
<1>2. proposals[i] \in Proposal
  BY <1>1 DEF RMInv, RMTypeOK
<1>3. ~InCall(i) /\ Depth + 1 > 0
  BY <1>1, NotTwiceAtOnce, DepthCounts
<1>4. holderBar' = holderBar
  BY HolderUnchanged
<1>5. /\ proposals' = [proposals EXCEPT ![i].state = "executed"]
      /\ configs' = [configs EXCEPT ![i] = NoConfig]
      /\ approvals' = approvals
      /\ underway' = [underway EXCEPT ![i] = [to |-> target, depth |-> Depth + 1]]
  BY DEF ExecuteRecovery
<1>6. /\ Active(i)
      /\ Cardinality(approvals[i] \cap configs[i].guardians) >= configs[i].threshold
      /\ now >= proposals[i].proposedAt + TIMELOCK
  BY <1>1 DEF Ready, RMInv, VotesCounted
<1> HIDE DEF i
<1>7. trustBar' = [trustBar EXCEPT ![i] = [guardians |-> {}, quorum |-> 0]]
  BY <1>1, <1>5 DEF trustBar, NoConfig, RMInv, RMTypeOK
<1>8. attemptBar' = [attemptBar EXCEPT ![i] =
         [open |-> FALSE, target |-> Zero, votes |-> {}, since |-> 0]]
  <2>1. ASSUME NEW j \in Id
        PROVE  attemptBar'[j] = IF j = i THEN [open |-> FALSE, target |-> Zero, votes |-> {}, since |-> 0]
                                ELSE attemptBar[j]
    <3>1. CASE j = i
      <4>1. proposals'[j].state = "executed"
        BY <1>1, <1>5, <3>1 DEF RMInv, RMTypeOK, Proposal
      <4>2. QED BY <3>1, <4>1 DEF attemptBar, Active
    <3>2. CASE j # i
      <4>1. proposals'[j] = proposals[j] /\ approvals' = approvals /\ configs'[j] = configs[j]
        BY <1>1, <1>5, <3>2 DEF RMInv, RMTypeOK
      <4>2. QED BY <3>2, <4>1 DEF attemptBar, Active
    <3>3. QED BY <3>1, <3>2
  <2>2. QED BY <1>1, <2>1 DEF attemptBar
<1>9. /\ attemptBar[i] = [open |-> TRUE, target |-> target,
                          votes |-> approvals[i] \cap configs[i].guardians,
                          since |-> proposals[i].proposedAt]
      /\ trustBar[i].quorum = configs[i].threshold
  BY <1>1, <1>6 DEF attemptBar, trustBar
<1> HIDE DEF target
<1>13. passingBar' = [passingBar EXCEPT ![i] = [on |-> TRUE, to |-> target]]
  <2>1. ASSUME NEW j \in Id
        PROVE  passingBar'[j] = IF j = i THEN [on |-> TRUE, to |-> target] ELSE passingBar[j]
    <3>1. underway'[j] = IF j = i THEN [to |-> target, depth |-> Depth + 1] ELSE underway[j]
      BY <1>1, <1>5 DEF RMInv, RMTypeOK
    <3>2. passingBar'[j] = IF underway'[j].depth > 0 THEN [on |-> TRUE, to |-> underway'[j].to]
                           ELSE [on |-> FALSE, to |-> Zero]
      BY DEF passingBar, InCall
    <3>3. passingBar[j] = IF underway[j].depth > 0 THEN [on |-> TRUE, to |-> underway[j].to]
                          ELSE [on |-> FALSE, to |-> Zero]
      BY DEF passingBar, InCall
    <3>4. CASE j = i
      <4>1. underway'[j].depth = Depth + 1 /\ underway'[j].to = target
        BY <3>1, <3>4
      <4>2. QED BY <1>3, <3>2, <3>4, <4>1
    <3>5. CASE j # i
      BY <3>1, <3>2, <3>3, <3>5
    <3>6. QED BY <3>4, <3>5
  <2>2. QED BY <1>1, <2>1 DEF passingBar
<1>10. /\ attemptBar[i].open /\ attemptBar[i].target = target
       /\ Cardinality(attemptBar[i].votes) >= trustBar[i].quorum
       /\ now >= attemptBar[i].since + TIMELOCK
       /\ ~passingBar[i].on
  BY <1>1, <1>3, <1>6, <1>9 DEF passingBar
<1>11. Social!Complete(i)
  BY <1>4, <1>13, <1>7, <1>8, <1>10, SameCardinality
     DEF Social!Complete, Social!NoTrust, Social!NoAttempt
<1>12. QED BY <1>1, <1>11 DEF Social!SocialNext

\* Its end is the take-over.
LEMMA FinishSimulates ==
    ASSUME RMInv, HolderFacts, HolderFacts', UNCHANGED now, NEW u \in Name, FinishRecovery(u)
    PROVE  Social!SocialNext
<1> DEFINE i == IdOf(u)
           target == underway[i].to
<1>1. i \in Id /\ InCall(i)
  BY DEF FinishRecovery, HolderFacts, Innermost
<1>2. target \in AnyAddress /\ Rebind(u, target)
  BY <1>1 DEF FinishRecovery, RecoverController, RMInv, RMTypeOK, Execution
<1>3. holderBar' = [holderBar EXCEPT ![i] = target] /\ Social!FreeWallet(target)
  BY <1>2, RebindMovesHolder
<1>4. /\ configs' = configs /\ proposals' = proposals /\ approvals' = approvals
      /\ underway' = [underway EXCEPT ![i] = Idle]
  BY DEF FinishRecovery
<1>5. trustBar' = trustBar /\ attemptBar' = attemptBar
  BY <1>4 DEF trustBar, attemptBar, Active
<1>6. passingBar[i].on /\ passingBar[i].to = target
  BY <1>1 DEF passingBar
<1> HIDE DEF i, target
<1>7. passingBar' = [passingBar EXCEPT ![i] = [on |-> FALSE, to |-> Zero]]
  <2>1. ASSUME NEW j \in Id
        PROVE  passingBar'[j] = IF j = i THEN [on |-> FALSE, to |-> Zero] ELSE passingBar[j]
    <3>1. underway'[j] = IF j = i THEN Idle ELSE underway[j]
      BY <1>1, <1>4 DEF RMInv, RMTypeOK
    <3>2. passingBar'[j] = IF underway'[j].depth > 0 THEN [on |-> TRUE, to |-> underway'[j].to]
                           ELSE [on |-> FALSE, to |-> Zero]
      BY DEF passingBar, InCall
    <3>3. passingBar[j] = IF underway[j].depth > 0 THEN [on |-> TRUE, to |-> underway[j].to]
                          ELSE [on |-> FALSE, to |-> Zero]
      BY DEF passingBar, InCall
    <3>4. Idle.depth = 0
      BY DEF Idle
    <3>5. CASE j = i
      <4>1. ~(underway'[j].depth > 0)
        BY <3>1, <3>4, <3>5
      <4>2. QED BY <3>2, <3>5, <4>1
    <3>6. CASE j # i
      BY <3>1, <3>2, <3>3, <3>6
    <3>7. QED BY <3>5, <3>6
  <2>2. QED BY <1>1, <2>1 DEF passingBar
<1>8. Social!TakeOver(i)
  BY <1>3, <1>5, <1>6, <1>7 DEF Social!TakeOver, Social!NotPassing
<1>9. QED BY <1>1, <1>8 DEF Social!SocialNext

\* Guardians are only ever taken from the lists configureGuardians is given.
GuardiansNameable == \A i \in Id : configs[i].guardians \subseteq Nameable

\* Every step keeps that.
LEMMA GuardiansNameableInv ==
    RMInv /\ GuardiansNameable /\ [RMNext]_rmSystemVars => GuardiansNameable'
<1> SUFFICES ASSUME RMInv, GuardiansNameable, [RMNext]_rmSystemVars PROVE GuardiansNameable'
  OBVIOUS
<1>1. ASSUME NEW a \in Address, NEW u \in Name, NEW list \in GuardianLists,
             NEW t \in 0..(Len(list) + 1), ConfigureGuardians(a, u, list, t)
      PROVE  GuardiansNameable'
  BY <1>1 DEF ConfigureGuardians, GuardiansNameable, Nameable, RMInv, RMTypeOK
<1>2. ASSUME NEW u \in Name, ExecuteRecovery(u)
      PROVE  GuardiansNameable'
  BY <1>2 DEF ExecuteRecovery, GuardiansNameable, NoConfig, RMInv, RMTypeOK
<1>3. CASE configs' = configs
  BY <1>3 DEF GuardiansNameable
<1>4. QED
  BY <1>1, <1>2, <1>3
     DEF RMNext, RMUserNext, ProposeRecovery, ApproveRecovery, CancelRecovery, FinishRecovery,
         rmSystemVars, rmVars

\* Every step is a step of the abstract system or leaves its state alone.
LEMMA StepSimulates ==
    RMInv /\ HolderFacts /\ HolderFacts' /\ GuardiansNameable /\ [RMNext]_rmSystemVars
        => [Social!SocialNext]_Social!srcVars
<1> SUFFICES ASSUME RMInv, HolderFacts, HolderFacts', GuardiansNameable, [RMNext]_rmSystemVars
             PROVE  [Social!SocialNext]_Social!srcVars
  OBVIOUS
<1>1. ASSUME RMUserNext, UNCHANGED <<irVars, drVars, now>> PROVE Social!SocialNext
  <2>1. ASSUME NEW a \in Address, NEW u \in Name, ApproveRecovery(a, u)
        PROVE  Social!SocialNext
    <3>1. IdOf(u) \in Id
      BY <2>1 DEF ApproveRecovery, HolderFacts
    <3>2. QED BY <1>1, <2>1, <3>1, ApproveSimulates DEF GuardiansNameable
  <2>2. QED
    BY <1>1, <2>1, ConfigureSimulates, ProposeSimulates, CancelSimulates DEF RMUserNext
<1>2. CASE (\E u \in Name : ExecuteRecovery(u)) /\ UNCHANGED <<irVars, drVars, now>>
  BY <1>2, ExecuteSimulates
<1>8. CASE (\E u \in Name : FinishRecovery(u)) /\ UNCHANGED now
  BY <1>8, FinishSimulates
<1>3. CASE IRUserNext /\ UNCHANGED <<drVars, rmVars, now>>
  BY <1>3, IdentityStepSimulates
<1>4. ASSUME UNCHANGED <<irVars, rmVars>>
      PROVE  UNCHANGED <<holderBar, trustBar, attemptBar, passingBar>>
  BY <1>4, HolderUnchanged, TablesUnchanged
<1>5. CASE (\A i \in Id : ~InCall(i)) /\ NewBlock /\ UNCHANGED <<irVars, drVars, rmVars>>
  <2>1. Social!Tick
    BY <1>4, <1>5 DEF NewBlock, Social!Tick, passingBar
  <2>2. QED BY <2>1 DEF Social!SocialNext
<1>6. ASSUME UNCHANGED <<irVars, rmVars, now>>
      PROVE  UNCHANGED Social!srcVars
  BY <1>4, <1>6 DEF Social!srcVars
<1>7. QED BY <1>1, <1>2, <1>3, <1>5, <1>6, <1>8 DEF RMNext, rmSystemVars

\* The contracts implement what social recovery promises.
THEOREM ImplementsSocialRecoveryHolds == RMSpec => ImplementsSocialRecovery
<1>1. Deployed => GuardiansNameable
  BY DEF Deployed, RMInit, GuardiansNameable, NoConfig
<1>2. QED
  BY <1>1, DeployedIsSocialInit, RecoveryManagerInvariant, HolderFactsHold,
     GuardiansNameableInv, StepSimulates, PTL
     DEF RMSpec, ImplementsSocialRecovery, Social!SocialSpec
=============================================================================

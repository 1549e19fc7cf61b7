------------------------ MODULE TruthIDAccountProofs ------------------------
(***************************************************************************)
(* For any number of devices, contracts, operations and calls: an account  *)
(* keeps its type, and no operation of a device changes who may act for it.*)
(* That an operation does not touch the account's authority rests on what  *)
(* validation saw long before, so the invariant carries it along: the calls*)
(* of a device's validated operations never go to the account itself, and a*)
(* device's running operation would restore the authority there is. The    *)
(* last part is about the whole bundle: what its operations were validated *)
(* on still holds when they run, up to the first that may change it.       *)
(* UserOpExecutor and GuardianScreen, how the Desktop reaches the account  *)
(* and its recovery, follow.                                               *)
(***************************************************************************)
EXTENDS TruthIDAccount, UserOpExecutor, GuardianScreen, FiniteSetTheorems,
    SequenceTheorems, TLAPS

\* Operations waiting in the bundle: none of a device calls the account.
QueuedOutward ==
    \A j \in 1..Len(ops) : ops[j].signer # Owner =>
        \A k \in 1..Len(ops[j].calls) : ops[j].calls[k].dest # Self

\* The operation in execution: the same of the calls it has still to make, and
\* of what its failure would bring back.
RunningOutward ==
    calls # <<>> =>
        /\ at \in 1..Len(ops)
        /\ saved # Nobody
        /\ ops[at].signer # Owner =>
              /\ \A k \in 1..Len(calls) : calls[k].dest # Self
              /\ Authority(saved.account) = Authority(account)

AccountInv == AccountTypeOK /\ QueuedOutward /\ RunningOutward

-----------------------------------------------------------------------------
\* The operations TLC enumerates are operations.
LEMMA UserOpsType == UserOps \subseteq UserOp
<1> SUFFICES ASSUME NEW o \in UserOps PROVE o \in UserOp
  OBVIOUS
<1>1. \A c \in Call : <<c>> \in Seq(Call)
  OBVIOUS
<1>2. \A n \in 0..MaxCalls : [1..n -> Call] \subseteq Seq(Call)
  BY SeqDef, AccountAssumption
<1>3. CASE o \in [signer : Device \cup {Owner}, form : {"executeBatch"},
                   calls : UNION {[1..n -> Call] : n \in 0..MaxCalls}]
  BY <1>2, <1>3 DEF UserOp
<1>4. CASE o \in [signer : Device \cup {Owner}, form : {"admin"},
                   calls : {<<c>> : c \in {x \in Call : x.dest = Self}}]
  BY <1>1, <1>4 DEF UserOp
<1>5. QED BY <1>3, <1>4 DEF UserOps

\* A call keeps account and registries within their types.
LEMMA PerformType ==
    ASSUME NEW c \in Call, account \in Account, active \in [Contract -> SUBSET Device], Perform(c)
    PROVE  account' \in Account /\ active' \in [Contract -> SUBSET Device]
<1> USE AccountAssumption
<1> SUFFICES account' \in Account
  BY DEF Perform
<1>0. /\ account = [authorizedDevices |-> account.authorizedDevices,
                    blockedForDevices |-> account.blockedForDevices,
                    registries |-> account.registries, balance |-> account.balance]
      /\ account.authorizedDevices \in SUBSET Device
      /\ account.blockedForDevices \in SUBSET (Contract \cup {Self})
      /\ account.registries \in RegistryTriple
      /\ account.balance \in 0..MaxBalance
  BY DEF Account
<1>1. CASE c.dest = Self /\ AdminCall(c)
  <2>1. CASE c.name = "addDevice" /\ AddDevice(c.arg)
    <3>1. c.arg \in Device
      BY <2>1, CallAssumption DEF AddDevice
    <3>2. QED BY <2>1, <3>1, <1>0, <1>1 DEF AddDevice, Account
  <2>2. CASE c.name = "removeDevice" /\ RemoveDevice(c.arg)
    BY <2>2, <1>0, <1>1 DEF RemoveDevice, Account
  <2>3. CASE c.name = "block" /\ BlockDestinationForDevices(c.arg)
    <3>1. c.arg \in Contract \cup {Self}
      BY <2>3, CallAssumption
    <3>2. QED BY <2>3, <3>1, <1>0, <1>1 DEF BlockDestinationForDevices, Account
  <2>4. CASE c.name = "unblock" /\ UnblockDestinationForDevices(c.arg)
    BY <2>4, <1>0, <1>1 DEF UnblockDestinationForDevices, Account
  <2>5. CASE c.name = "updateRegistries" /\ UpdateRegistries(c.arg)
    <3>1. c.arg \in Registries
      BY <2>5, CallAssumption
    <3>2. c.arg \in RegistryTriple /\ Members(c.arg) \subseteq Contract
      BY <3>1 DEF RegistryTriple, Members
    <3>3. BlockedAfter(c.arg) \in SUBSET (Contract \cup {Self})
      BY <3>2, <1>0 DEF BlockedAfter
    <3>4. QED BY <2>5, <3>2, <3>3, <1>0, <1>1 DEF UpdateRegistries, Account
  <2>6. QED BY <1>1, <2>1, <2>2, <2>3, <2>4, <2>5 DEF AdminCall
<1>2. CASE c.dest # Self /\ OutsideCall(c)
  <2>1. c.arg \in {0, 1}
    BY <1>2, CallAssumption
  <2>2. account.balance - c.arg \in 0..MaxBalance
    BY <2>1, <1>0, <1>2 DEF OutsideCall
  <2>3. QED BY <2>2, <1>0, <1>2 DEF OutsideCall, Account
<1>3. QED BY <1>1, <1>2 DEF Perform

\* A call that does not go to the account leaves its authority alone.
LEMMA OutsideKeepsAuthority ==
    ASSUME NEW c \in Call, account \in Account, c.dest # Self, Perform(c)
    PROVE  Authority(account') = Authority(account)
BY DEF Perform, OutsideCall, Authority, Account

LEMMA AccountInitInv == AccountInit => AccountInv
<1> SUFFICES ASSUME AccountInit PROVE AccountInv
  OBVIOUS
<1>1. PICK r \in Registries :
          account = [authorizedDevices |-> {}, blockedForDevices |-> Members(r),
                     registries |-> r, balance |-> 0]
  BY DEF AccountInit
<1>2. r \in RegistryTriple /\ Members(r) \subseteq Contract
  BY AccountAssumption DEF RegistryTriple, Members
<1>3. account \in Account
  BY <1>1, <1>2, AccountAssumption DEF Account
<1>4. AccountTypeOK
  BY <1>3, AccountAssumption DEF AccountInit, AccountTypeOK
<1>5. QueuedOutward /\ RunningOutward
  BY DEF AccountInit, QueuedOutward, RunningOutward
<1>6. QED BY <1>4, <1>5 DEF AccountInv

\* What ValidateUserOp lets in is an operation of the owner, or calls nothing of
\* the account's own.
LEMMA ValidateUserOpInv ==
    ASSUME AccountInv, NEW o \in UserOps, NEW funds \in {0, 1}, ValidateUserOp(o, funds)
    PROVE  AccountInv'
<1> USE DEF AccountInv
<1>1. /\ at = 0 /\ at' = 0 /\ active' = active /\ calls' = calls /\ saved' = saved
      /\ Len(ops) < MaxOps /\ funds <= account.balance
      /\ account' = [account EXCEPT !.balance = @ - funds]
      /\ ops' = Append(ops, o)
  BY DEF ValidateUserOp
<1>2. o \in UserOp
  BY UserOpsType
<1>3. ops' \in Seq(UserOp) /\ Len(ops') = Len(ops) + 1
  BY <1>1, <1>2 DEF AccountTypeOK
<1>4. account' \in Account
  <2>1. account.balance - funds \in 0..MaxBalance
    BY <1>1, AccountAssumption DEF AccountTypeOK, Account
  <2>2. QED BY <1>1, <2>1 DEF AccountTypeOK, Account
<1>5. AccountTypeOK'
  BY <1>1, <1>3, <1>4, AccountAssumption DEF AccountTypeOK
<1>6. QueuedOutward'
  <2>1. o.signer # Owner => \A k \in 1..Len(o.calls) : o.calls[k].dest # Self
    <3>1. DOMAIN o.calls = 1..Len(o.calls)
      BY <1>2 DEF UserOp
    <3>2. QED BY <3>1 DEF ValidateUserOp, ValidSignature, IsDeviceCallAllowed, IsDestAllowed
  <2>2. \A j \in 1..Len(ops') : ops'[j] = IF j = Len(ops) + 1 THEN o ELSE ops[j]
    BY <1>1, <1>2, <1>3 DEF AccountTypeOK
  <2>3. ASSUME NEW j \in 1..Len(ops'), ops'[j].signer # Owner, NEW k \in 1..Len(ops'[j].calls)
        PROVE  ops'[j].calls[k].dest # Self
    <3>1. CASE j = Len(ops) + 1
      BY <2>1, <2>2, <2>3, <3>1
    <3>2. CASE j # Len(ops) + 1
      <4>1. j \in 1..Len(ops) /\ ops'[j] = ops[j]
        BY <3>2, <2>2, <1>3 DEF AccountTypeOK
      <4>2. QED BY <4>1, <2>3 DEF QueuedOutward
    <3>3. QED BY <3>1, <3>2
  <2>4. QED BY <2>3 DEF QueuedOutward
<1>7. RunningOutward'
  <2>1. calls = <<>>
    BY <1>1 DEF RunningOutward, AccountTypeOK
  <2>2. QED BY <1>1, <2>1 DEF RunningOutward
<1>8. QED BY <1>5, <1>6, <1>7

\* The next operation starts from the account as it is.
LEMMA NextOpInv == ASSUME AccountInv, NextOp PROVE AccountInv'
<1> USE DEF AccountInv
<1>1. /\ at < Len(ops) /\ at' = at + 1 /\ calls' = ops[at + 1].calls
      /\ saved' = [account |-> account, active |-> active]
      /\ account' = account /\ active' = active /\ ops' = ops
  BY DEF NextOp
<1>2. at + 1 \in 1..Len(ops) /\ ops[at + 1] \in UserOp
  BY <1>1 DEF AccountTypeOK
<1>3. AccountTypeOK'
  BY <1>1, <1>2 DEF AccountTypeOK, UserOp, Snapshot
<1>4. QueuedOutward'
  BY <1>1 DEF QueuedOutward
<1>5. saved' # Nobody /\ saved'.account = account
  BY <1>1, AccountAssumption DEF AccountTypeOK, Snapshot
<1>6. RunningOutward'
  BY <1>1, <1>2, <1>5 DEF RunningOutward, QueuedOutward
<1>7. QED BY <1>3, <1>4, <1>6

LEMMA BeforeExecutionInv == ASSUME AccountInv, BeforeExecution PROVE AccountInv'
<1> USE DEF AccountInv
<1>1. /\ saved' = [account |-> account, active |-> active]
      /\ UNCHANGED <<account, active, ops, at, calls>>
      /\ calls = <<>>
  BY DEF BeforeExecution, RunningOutward
<1>2. saved' \in Snapshot
  BY <1>1 DEF AccountTypeOK, Snapshot
<1>3. AccountTypeOK'
  BY <1>1, <1>2 DEF AccountTypeOK
<1>4. QueuedOutward' /\ RunningOutward'
  BY <1>1 DEF QueuedOutward, RunningOutward
<1>5. QED BY <1>3, <1>4

LEMMA MakeCallInv == ASSUME AccountInv, MakeCall PROVE AccountInv'
<1> USE DEF AccountInv
<1>1. /\ calls # <<>> /\ calls' = Tail(calls) /\ Perform(Head(calls))
      /\ ops' = ops /\ at' = at /\ saved' = saved
  BY DEF MakeCall
<1>2. /\ calls \in Seq(Call) /\ Head(calls) \in Call /\ Head(calls) = calls[1]
      /\ Tail(calls) \in Seq(Call) /\ Len(Tail(calls)) = Len(calls) - 1
      /\ \A k \in 1..Len(Tail(calls)) : Tail(calls)[k] = calls[k + 1]
      /\ Len(calls) >= 1
  BY <1>1 DEF AccountTypeOK
<1>3. account' \in Account /\ active' \in [Contract -> SUBSET Device]
  BY <1>1, <1>2, PerformType DEF AccountTypeOK
<1>4. AccountTypeOK'
  BY <1>1, <1>2, <1>3 DEF AccountTypeOK
<1>5. QueuedOutward'
  BY <1>1 DEF QueuedOutward
<1>6. RunningOutward'
  <2>1. at \in 1..Len(ops) /\ saved # Nobody
    BY <1>1 DEF RunningOutward
  <2>2. ASSUME ops[at].signer # Owner
        PROVE  /\ \A k \in 1..Len(Tail(calls)) : Tail(calls)[k].dest # Self
               /\ Authority(saved.account) = Authority(account')
    <3>1. \A k \in 1..Len(calls) : calls[k].dest # Self
      BY <1>1, <2>2 DEF RunningOutward
    <3>2. \A k \in 1..Len(Tail(calls)) : k + 1 \in 1..Len(calls)
      BY <1>2
    <3>3. Authority(account') = Authority(account)
      BY <1>1, <1>2, <3>1, OutsideKeepsAuthority DEF AccountTypeOK
    <3>4. QED BY <1>1, <1>2, <2>2, <3>1, <3>2, <3>3 DEF RunningOutward
  <2>3. QED BY <1>1, <2>1, <2>2 DEF RunningOutward
<1>7. QED BY <1>4, <1>5, <1>6

LEMMA RevertOpInv == ASSUME AccountInv, RevertOp PROVE AccountInv'
<1> USE DEF AccountInv
<1>1. /\ saved # Nobody
      /\ account' = saved.account /\ active' = saved.active /\ calls' = <<>>
      /\ ops' = ops /\ at' = at /\ saved' = saved
  BY DEF RevertOp, RunningOutward
<1>2. AccountTypeOK'
  BY <1>1 DEF AccountTypeOK, Snapshot
<1>3. QueuedOutward' /\ RunningOutward'
  BY <1>1 DEF QueuedOutward, RunningOutward
<1>4. QED BY <1>2, <1>3

\* Outside a bundle nothing is queued; the RecoveryManager takes only funds.
LEMMA OthersInv ==
    ASSUME AccountInv,
           \/ EndTransaction
           \/ \E c \in Call : OwnerCall(c)
           \/ Receive
           \/ \E c \in Contract : EmergencyWithdraw(c)
           \/ \E t \in Registries, D \in SUBSET Device : ActiveElsewhere(t.device, D)
    PROVE  AccountInv'
<1> USE AccountAssumption DEF AccountInv
<1>1. ASSUME ops = <<>> PROVE calls = <<>>
  BY <1>1 DEF RunningOutward
<1>2. CASE EndTransaction
  <2>1. AccountTypeOK'
    BY <1>2 DEF EndTransaction, AccountTypeOK
  <2>2. QueuedOutward' /\ RunningOutward'
    BY <1>2 DEF EndTransaction, QueuedOutward, RunningOutward
  <2>3. QED BY <2>1, <2>2
<1>3. ASSUME NEW c \in Call, OwnerCall(c) PROVE AccountInv'
  <2>1. AccountTypeOK'
    BY <1>3, PerformType DEF OwnerCall, AccountTypeOK
  <2>2. QueuedOutward' /\ RunningOutward'
    BY <1>1, <1>3 DEF OwnerCall, QueuedOutward, RunningOutward
  <2>3. QED BY <2>1, <2>2
<1>4. CASE Receive
  <2>1. account.balance + 1 \in 0..MaxBalance
    BY <1>4 DEF Receive, AccountTypeOK, Account
  <2>2. account' \in Account
    BY <1>4, <2>1 DEF Receive, AccountTypeOK, Account
  <2>3. AccountTypeOK'
    BY <1>4, <2>2 DEF Receive, AccountTypeOK
  <2>4. QueuedOutward' /\ RunningOutward'
    BY <1>1, <1>4 DEF Receive, QueuedOutward, RunningOutward
  <2>5. QED BY <2>3, <2>4
<1>5. ASSUME NEW c \in Contract, EmergencyWithdraw(c) PROVE AccountInv'
  <2>1. account' \in Account /\ Authority(account') = Authority(account)
    BY <1>5 DEF EmergencyWithdraw, AccountTypeOK, Account, Authority
  <2>2. AccountTypeOK'
    BY <1>5, <2>1 DEF EmergencyWithdraw, AccountTypeOK
  <2>3. QueuedOutward' /\ RunningOutward'
    BY <1>5, <2>1 DEF EmergencyWithdraw, QueuedOutward, RunningOutward
  <2>4. QED BY <2>2, <2>3
<1>6. ASSUME NEW t \in Registries, NEW D \in SUBSET Device, ActiveElsewhere(t.device, D)
      PROVE  AccountInv'
  <2>1. AccountTypeOK'
    BY <1>6 DEF ActiveElsewhere, AccountTypeOK
  <2>2. QueuedOutward' /\ RunningOutward'
    BY <1>6 DEF ActiveElsewhere, QueuedOutward, RunningOutward
  <2>3. QED BY <2>1, <2>2
<1>7. QED BY <1>2, <1>3, <1>4, <1>5, <1>6

LEMMA AccountNextInv == AccountInv /\ [AccountNext]_vars => AccountInv'
<1> SUFFICES ASSUME AccountInv, [AccountNext]_vars PROVE AccountInv'
  OBVIOUS
<1>1. CASE UNCHANGED vars
  BY <1>1 DEF vars, AccountInv, AccountTypeOK, QueuedOutward, RunningOutward
<1>2. CASE AccountNext
  BY <1>2, ValidateUserOpInv, BeforeExecutionInv, NextOpInv, MakeCallInv, RevertOpInv, OthersInv DEF AccountNext
<1>3. QED BY <1>1, <1>2

\* The account, the bundle and the running operation keep their types.
THEOREM AccountTypeOKHolds == AccountSpec => []AccountTypeOK
<1>1. AccountInv => AccountTypeOK
  BY DEF AccountInv
<1>2. QED BY <1>1, AccountInitInv, AccountNextInv, PTL DEF AccountSpec

\* One step of the system changes the account's authority for the owner only.
LEMMA StepKeepsAuthority ==
    ASSUME AccountInv, [AccountNext]_vars PROVE DevicesNeverPromoteA
<1> SUFFICES ASSUME ops # <<>>, ~(at > 0 /\ ops[at].signer = Owner)
             PROVE  Authority(account') = Authority(account)
  BY DEF DevicesNeverPromoteA
<1> USE DEF AccountInv
<1>1. CASE UNCHANGED vars \/ BeforeExecution \/ NextOp \/ EndTransaction
  BY <1>1 DEF vars, BeforeExecution, NextOp, EndTransaction, Authority
<1>2. ASSUME NEW o \in UserOps, NEW funds \in {0, 1}, ValidateUserOp(o, funds)
      PROVE  Authority(account') = Authority(account)
  BY <1>2 DEF ValidateUserOp, AccountTypeOK, Account, Authority
<1>3. CASE MakeCall
  <2>1. /\ Head(calls) \in Call /\ Head(calls) = calls[1] /\ 1 \in 1..Len(calls)
        /\ at \in 1..Len(ops) /\ Perform(Head(calls))
    BY <1>3 DEF MakeCall, RunningOutward, AccountTypeOK
  <2>2. Head(calls).dest # Self
    BY <1>3, <2>1 DEF MakeCall, RunningOutward
  <2>3. QED BY <2>1, <2>2, OutsideKeepsAuthority DEF AccountTypeOK
<1>4. CASE RevertOp
  BY <1>4 DEF RevertOp, RunningOutward
<1>5. ASSUME NEW c \in Contract, EmergencyWithdraw(c)
      PROVE  Authority(account') = Authority(account)
  BY <1>5 DEF EmergencyWithdraw, AccountTypeOK, Account, Authority
<1>6. QED BY <1>1, <1>2, <1>3, <1>4, <1>5 DEF AccountNext, OwnerCall, Receive, ActiveElsewhere

\* TruthIDAccount.sol:28-49: only the owner decides who may act for the account
\* and where, whatever devices sign and however their operations are bundled.
THEOREM DevicesNeverPromoteHolds == AccountSpec => DevicesNeverPromote
<1>1. AccountInv /\ [AccountNext]_vars => [DevicesNeverPromoteA]_vars
  BY StepKeepsAuthority
<1>2. QED BY <1>1, AccountInitInv, AccountNextInv, PTL DEF AccountSpec, DevicesNeverPromote

\* What a call may do to the wall around the registries.
LEMMA PerformKeepsWall ==
    ASSUME NEW c \in Call, account \in Account, Perform(c),
           NEW m \in Members(account'.registries), ~(c.name = "unblock" /\ c.arg = m)
    PROVE  \/ m \in account'.blockedForDevices
           \/ m \in Members(account.registries) \ account.blockedForDevices
<1>1. CASE account'.registries = account.registries
           /\ account.blockedForDevices \subseteq account'.blockedForDevices
  BY <1>1
<1>2. CASE c.dest # Self /\ OutsideCall(c)
  BY <1>1, <1>2 DEF OutsideCall, Account
<1>3. CASE c.dest = Self /\ AdminCall(c)
  <2>1. CASE c.name = "unblock" /\ UnblockDestinationForDevices(c.arg)
    BY <2>1 DEF UnblockDestinationForDevices, Account
  <2>2. CASE c.name = "updateRegistries" /\ UpdateRegistries(c.arg)
    <3>1. account'.registries = c.arg /\ account'.blockedForDevices = BlockedAfter(c.arg)
      BY <2>2 DEF UpdateRegistries, Account
    <3>2. QED BY <3>1 DEF BlockedAfter
  <2>3. CASE \/ c.name = "addDevice" /\ AddDevice(c.arg)
             \/ c.name = "removeDevice" /\ RemoveDevice(c.arg)
             \/ c.name = "block" /\ BlockDestinationForDevices(c.arg)
    BY <1>1, <2>3 DEF AddDevice, RemoveDevice, BlockDestinationForDevices, Account
  <2>4. QED BY <1>3, <2>1, <2>2, <2>3 DEF AdminCall
<1>4. QED BY <1>2, <1>3 DEF Perform

LEMMA StepKeepsWall ==
    ASSUME AccountInv, [AccountNext]_vars PROVE CurrentRegistriesStayBlockedA
<1> SUFFICES ASSUME NEW m \in Members(account'.registries),
                    m \notin account'.blockedForDevices,
                    m \notin Members(account.registries) \ account.blockedForDevices,
                    ~RevertOp
             PROVE  \E call \in Call :
                        /\ call.name = "unblock" /\ call.arg = m
                        /\ OwnerCall(call) \/ (MakeCall /\ call = Head(calls))
  BY DEF CurrentRegistriesStayBlockedA
<1> USE DEF AccountInv
<1>1. ~(/\ account'.registries = account.registries
        /\ account'.blockedForDevices = account.blockedForDevices)
  OBVIOUS
<1>2. CASE MakeCall
  <2>1. Head(calls) \in Call /\ Perform(Head(calls))
    BY <1>2 DEF MakeCall, AccountTypeOK
  <2>2. Head(calls).name = "unblock" /\ Head(calls).arg = m
    BY <2>1, PerformKeepsWall DEF AccountTypeOK
  <2>3. QED BY <1>2, <2>1, <2>2
<1>3. ASSUME NEW c \in Call, OwnerCall(c)
      PROVE  c.name = "unblock" /\ c.arg = m
  BY <1>3, PerformKeepsWall DEF OwnerCall, AccountTypeOK
<1>4. ~(UNCHANGED vars \/ BeforeExecution \/ NextOp \/ EndTransaction)
  BY <1>1 DEF vars, BeforeExecution, NextOp, EndTransaction
<1>5. ASSUME NEW o \in UserOps, NEW funds \in {0, 1}, ValidateUserOp(o, funds)
      PROVE  FALSE
  BY <1>1, <1>5 DEF ValidateUserOp, AccountTypeOK, Account
<1>6. ASSUME \/ Receive
             \/ \E c \in Contract : EmergencyWithdraw(c)
             \/ \E t \in Registries, D \in SUBSET Device : ActiveElsewhere(t.device, D)
      PROVE  FALSE
  BY <1>1, <1>6 DEF Receive, EmergencyWithdraw, ActiveElsewhere, AccountTypeOK, Account
<1>7. QED BY <1>2, <1>3, <1>4, <1>5, <1>6 DEF AccountNext

\* TruthIDAccount.sol:277-280: the registries an account points at are closed to
\* its devices across any exchange of registries, for any addresses.
THEOREM CurrentRegistriesStayBlockedHolds == AccountSpec => CurrentRegistriesStayBlocked
<1>1. AccountInv /\ [AccountNext]_vars => [CurrentRegistriesStayBlockedA]_vars
  BY StepKeepsWall
<1>2. QED BY <1>1, AccountInitInv, AccountNextInv, PTL DEF AccountSpec, CurrentRegistriesStayBlocked

-----------------------------------------------------------------------------
(* What an operation was validated on still holds when it runs, as long as  *)
(* no operation before it in the bundle may have moved the wall.            *)

CalmBefore(n) == \A i \in 1..n : ~MayMoveTheWall(ops[i])

\* What validateUserOp asked of a device's operation, of the account's own storage.
Through(o, acct) ==
    /\ o.signer \in acct.authorizedDevices
    /\ \A k \in DOMAIN o.calls :
          o.calls[k].dest # Self /\ o.calls[k].dest \notin acct.blockedForDevices

\* Of the operations still to come.
WaitingThrough ==
    \A j \in (at + 1)..Len(ops) :
        ops[j].signer # Owner /\ CalmBefore(at) => Through(ops[j], account)

\* Of the one that runs and those after it, when it started; its calls are its own.
RunningThrough ==
    calls # <<>> =>
        /\ \A k \in 1..Len(calls) : \E i \in DOMAIN ops[at].calls : calls[k] = ops[at].calls[i]
        /\ \A j \in at..Len(ops) :
              ops[j].signer # Owner /\ CalmBefore(at - 1)
              => Through(ops[j], saved.account)

BundleInv == AccountInv /\ WaitingThrough /\ RunningThrough

\* Only the authority counts.
LEMMA ThroughKept ==
    ASSUME NEW o, NEW a, NEW b, Through(o, a), Authority(a) = Authority(b)
    PROVE  Through(o, b)
BY DEF Through, Authority

LEMMA ValidateKeepsBundle ==
    ASSUME BundleInv, NEW o \in UserOps, NEW funds \in {0, 1}, ValidateUserOp(o, funds)
    PROVE  BundleInv'
<1> USE DEF BundleInv, AccountInv
<1>1. /\ at = 0 /\ at' = 0 /\ calls' = calls
      /\ ops \in Seq(UserOp) /\ o \in UserOp
      /\ ops' = Append(ops, o)
  BY UserOpsType DEF ValidateUserOp, AccountTypeOK
<1>2. Authority(account') = Authority(account)
  BY DEF ValidateUserOp, AccountTypeOK, Account, Authority
<1>3. calls = <<>>
  BY <1>1 DEF RunningOutward
<1>4. ASSUME NEW j \in 1..Len(ops'), ops'[j].signer # Owner
      PROVE  Through(ops'[j], account')
  <2>1. CASE j \in 1..Len(ops)
    <3>1. ops'[j] = ops[j]
      BY <1>1, <2>1
    <3>2. CalmBefore(0)
      BY DEF CalmBefore
    <3>3. Through(ops[j], account)
      BY <1>1, <1>4, <2>1, <3>1, <3>2 DEF WaitingThrough
    <3>4. QED BY <1>1, <1>2, <3>1, <3>3, ThroughKept
  <2>2. CASE j \notin 1..Len(ops)
    <3>1. ops'[j] = o
      BY <1>1, <2>2
    <3>2. Through(o, account)
      BY <1>4, <3>1 DEF ValidateUserOp, ValidSignature, IsDeviceCallAllowed, IsDestAllowed, Through
    <3>3. QED BY <1>1, <1>2, <3>1, <3>2, ThroughKept
  <2>3. QED BY <2>1, <2>2
<1>5. WaitingThrough' /\ RunningThrough'
  BY <1>1, <1>3, <1>4 DEF WaitingThrough, RunningThrough
<1>6. QED BY <1>5, ValidateUserOpInv

LEMMA BeforeExecutionKeepsBundle == ASSUME BundleInv, BeforeExecution PROVE BundleInv'
<1>1. calls = <<>> /\ UNCHANGED <<account, ops, at, calls>>
  BY DEF BundleInv, AccountInv, RunningOutward, BeforeExecution
<1>2. WaitingThrough' /\ RunningThrough'
  BY <1>1 DEF BundleInv, WaitingThrough, RunningThrough, CalmBefore
<1>3. QED BY <1>2, BeforeExecutionInv DEF BundleInv

LEMMA NextOpKeepsBundle == ASSUME BundleInv, NextOp PROVE BundleInv'
<1> USE DEF BundleInv, AccountInv
<1>1. /\ at < Len(ops) /\ at' = at + 1 /\ calls' = ops[at + 1].calls
      /\ saved' = [account |-> account, active |-> active]
      /\ account' = account /\ active' = active /\ ops' = ops
      /\ at \in Nat /\ ops \in Seq(UserOp)
  BY DEF NextOp, AccountTypeOK
<1>6. ops[at + 1] \in UserOp /\ ops[at + 1].calls \in Seq(Call)
  <2>1. ops[at + 1] \in UserOp
    BY <1>1 DEF AccountTypeOK
  <2>2. QED BY <2>1 DEF UserOp
<1>2. (CalmBefore(at))' => CalmBefore(at)
  BY <1>1 DEF CalmBefore
<1>3. WaitingThrough'
  BY <1>1, <1>2 DEF WaitingThrough
<1>4. (CalmBefore(at - 1))' <=> CalmBefore(at)
  BY <1>1 DEF CalmBefore
<1>5. RunningThrough'
  BY <1>1, <1>4, <1>6 DEF RunningThrough, WaitingThrough
<1>7. QED BY <1>3, <1>5, NextOpInv

LEMMA MakeCallKeepsBundle == ASSUME BundleInv, MakeCall PROVE BundleInv'
<1> USE DEF BundleInv, AccountInv
<1>1. /\ calls # <<>> /\ calls' = Tail(calls) /\ Perform(Head(calls))
      /\ ops' = ops /\ at' = at /\ saved' = saved
  BY DEF MakeCall
<1>2. /\ calls \in Seq(Call) /\ Head(calls) \in Call /\ Head(calls) = calls[1]
      /\ 1 \in 1..Len(calls) /\ Len(Tail(calls)) = Len(calls) - 1
      /\ \A k \in 1..Len(Tail(calls)) :
            Tail(calls)[k] = calls[k + 1] /\ k + 1 \in 1..Len(calls)
      /\ at \in 1..Len(ops)
  BY <1>1 DEF AccountTypeOK, RunningOutward
<1>3. RunningThrough'
  BY <1>1, <1>2 DEF RunningThrough, CalmBefore
<1>4. ASSUME CalmBefore(at)
      PROVE  Authority(account') = Authority(account)
  <2>1. ~MayMoveTheWall(ops[at])
    BY <1>2, <1>4 DEF CalmBefore
  <2>2. Head(calls).dest # Self
    BY <1>1, <1>2, <2>1 DEF MayMoveTheWall, RunningOutward, RunningThrough
  <2>3. QED BY <1>1, <1>2, <2>2, OutsideKeepsAuthority DEF AccountTypeOK
<1>6. WaitingThrough'
  <2>1. (CalmBefore(at))' <=> CalmBefore(at)
    BY <1>1 DEF CalmBefore
  <2>2. ASSUME NEW j \in (at + 1)..Len(ops), ops[j].signer # Owner, CalmBefore(at)
        PROVE  Through(ops[j], account')
    <3>1. Through(ops[j], account)
      BY <2>2 DEF WaitingThrough
    <3>2. QED BY <1>4, <2>2, <3>1, ThroughKept
  <2>3. QED BY <1>1, <2>1, <2>2 DEF WaitingThrough
<1>7. QED BY <1>3, <1>6, MakeCallInv

LEMMA RevertOpKeepsBundle == ASSUME BundleInv, RevertOp PROVE BundleInv'
<1> USE DEF BundleInv, AccountInv
<1>1. /\ calls # <<>> /\ account' = saved.account /\ active' = saved.active
      /\ calls' = <<>> /\ ops' = ops /\ at' = at
      /\ at \in 1..Len(ops) /\ ops \in Seq(UserOp)
  BY DEF RevertOp, RunningOutward, AccountTypeOK
<1>2. (CalmBefore(at))' => CalmBefore(at - 1)
  BY <1>1 DEF CalmBefore
<1>3. WaitingThrough'
  BY <1>1, <1>2 DEF WaitingThrough, RunningThrough
<1>4. RunningThrough'
  BY <1>1 DEF RunningThrough
<1>5. QED BY <1>3, <1>4, RevertOpInv

\* Outside a bundle nothing waits; a withdrawal takes only funds.
LEMMA OthersKeepBundle ==
    ASSUME BundleInv,
           \/ EndTransaction
           \/ \E c \in Call : OwnerCall(c)
           \/ Receive
           \/ \E c \in Contract : EmergencyWithdraw(c)
           \/ \E t \in Registries, D \in SUBSET Device : ActiveElsewhere(t.device, D)
    PROVE  BundleInv'
<1> USE DEF BundleInv, AccountInv
<1>1. ASSUME ops' = <<>>, calls' = <<>>, at' = 0 PROVE WaitingThrough' /\ RunningThrough'
  BY <1>1 DEF WaitingThrough, RunningThrough
<1>2. ops = <<>> => calls = <<>> /\ at = 0
  BY DEF RunningOutward, AccountTypeOK
<1>3. CASE EndTransaction
  BY <1>1, <1>3, OthersInv DEF EndTransaction
<1>4. CASE (\E c \in Call : OwnerCall(c)) \/ Receive
  BY <1>1, <1>2, <1>4, OthersInv DEF OwnerCall, Receive
<1>5. ASSUME NEW c \in Contract, EmergencyWithdraw(c) PROVE BundleInv'
  <2>1. /\ UNCHANGED <<active, ops, at, calls, saved>>
        /\ Authority(account') = Authority(account)
    BY <1>5 DEF EmergencyWithdraw, AccountTypeOK, Account, Authority
  <2>2. WaitingThrough'
    BY <2>1, ThroughKept DEF WaitingThrough, CalmBefore
  <2>3. RunningThrough'
    BY <2>1 DEF RunningThrough, CalmBefore
  <2>4. QED BY <1>5, <2>2, <2>3, OthersInv
<1>6. ASSUME NEW t \in Registries, NEW D \in SUBSET Device, ActiveElsewhere(t.device, D)
      PROVE  BundleInv'
  <2>1. UNCHANGED <<account, ops, at, calls, saved>>
    BY <1>6 DEF ActiveElsewhere
  <2>2. WaitingThrough' /\ RunningThrough'
    BY <2>1 DEF WaitingThrough, RunningThrough, CalmBefore
  <2>3. QED BY <1>6, <2>2, OthersInv
<1>7. QED BY <1>3, <1>4, <1>5, <1>6

LEMMA BundleInvHolds == AccountSpec => []BundleInv
<1>1. AccountInit => BundleInv
  <2> SUFFICES ASSUME AccountInit PROVE BundleInv
    OBVIOUS
  <2>1. ops = <<>> /\ at = 0 /\ calls = <<>>
    BY DEF AccountInit
  <2>2. WaitingThrough /\ RunningThrough
    BY <2>1 DEF WaitingThrough, RunningThrough
  <2>3. QED BY <2>2, AccountInitInv DEF BundleInv
<1>2. BundleInv /\ [AccountNext]_vars => BundleInv'
  <2> SUFFICES ASSUME BundleInv, [AccountNext]_vars PROVE BundleInv'
    OBVIOUS
  <2>1. CASE UNCHANGED vars
    <3>1. AccountInv'
      BY <2>1, AccountNextInv DEF BundleInv
    <3>2. WaitingThrough' /\ RunningThrough'
      BY <2>1 DEF vars, BundleInv, WaitingThrough, RunningThrough, CalmBefore
    <3>3. QED BY <3>1, <3>2 DEF BundleInv
  <2>2. CASE AccountNext
    BY <2>2, ValidateKeepsBundle, BeforeExecutionKeepsBundle, NextOpKeepsBundle, MakeCallKeepsBundle,
       RevertOpKeepsBundle, OthersKeepBundle DEF AccountNext
  <2>3. QED BY <2>1, <2>2
<1>3. QED BY <1>1, <1>2, PTL DEF AccountSpec

\* TruthIDAccount.sol:358: a device's call is made on what its validation saw of the
\* account, however long the bundle and whatever registries do meanwhile, unless the
\* owner had the account call itself earlier in the same bundle.
THEOREM StaleOnlyBehindOwnerHolds == AccountSpec => StaleOnlyBehindOwner
<1>1. BundleInv => [StaleOnlyBehindOwnerA]_vars
  <2> SUFFICES ASSUME BundleInv, MakeCall, ops[at].signer # Owner, CalmBefore(at - 1)
               PROVE  /\ IsDestAllowed(Head(calls).dest)
                      /\ ops[at].signer \in account.authorizedDevices
    BY DEF StaleOnlyBehindOwnerA, CalmBefore
  <2> USE DEF BundleInv, AccountInv
  <2>1. /\ calls # <<>> /\ Head(calls) = calls[1] /\ 1 \in 1..Len(calls)
        /\ at \in 1..Len(ops) /\ at \in at..Len(ops)
    BY DEF MakeCall, AccountTypeOK, RunningOutward
  <2>2. Through(ops[at], saved.account)
    BY <2>1 DEF RunningThrough
  <2>3. Authority(saved.account) = Authority(account)
    BY <2>1 DEF RunningOutward
  <2>4. Through(ops[at], account)
    BY <2>2, <2>3, ThroughKept
  <2>5. PICK i \in DOMAIN ops[at].calls : Head(calls) = ops[at].calls[i]
    BY <2>1 DEF RunningThrough
  <2>6. QED BY <2>4, <2>5 DEF Through, IsDestAllowed
<1>2. QED BY <1>1, BundleInvHolds, PTL DEF StaleOnlyBehindOwner

\* Both together: the account keeps its shape and its wall.
THEOREM AccountCorrectHolds == AccountSpec => AccountCorrect
BY AccountTypeOKHolds, CurrentRegistriesStayBlockedHolds, PTL DEF AccountCorrect


-----------------------------------------------------------------------------
(*****************************************************************************)
(* UserOpExecutor.  Operations are executed in the order of their nonces,    *)
(* one of each, and what an execution has seen is what was executed before   *)
(* its own nonce.  So of two that were executed the later one had seen the   *)
(* earlier.                                                                  *)
(*****************************************************************************)

ExecStage == {"idle", "reading", "pricing", "estimating", "sending", "polling", "over"}
ExecRecord == [stage : ExecStage, by : OpDevice, nonce : Nat, gas : Gas,
               signed : Gas \union {"blank"}, polls : 0 .. MaxPolls - 1]

\* What an execution has ensured at its line.
ExecFine(o, n) ==
    /\ o.nonce <= n
    /\ o.stage = "idle" => o.nonce = 0
    /\ o.stage = "estimating" => o.signed # "blank"
    /\ o.stage \in {"sending", "polling"} => o.gas = "full" /\ o.signed = "full"

\* Operations are executed in the order of their nonces, one of each, and an
\* execution has seen those before its own.
OpsInv ==
    /\ keysTaken \subseteq OpDevice
    /\ op \in [Exec -> ExecRecord]
    /\ pool \subseteq Exec \ Mined
    /\ outcome \in [Exec -> {"none", "success", "failure"}]
    /\ told \in [Exec -> {"nothing", "done", "reverted", "error"}]
    /\ chainNonce \in Nat /\ chainNonce = Cardinality(Mined)
    /\ seen \in [Exec -> SUBSET Exec]
    /\ \A x \in Exec : ExecFine(op[x], chainNonce)
    /\ \A x \in Exec : x \in pool \/ outcome[x] # "none" => op[x].stage \in {"polling", "over"}
    /\ \A x \in Exec : told[x] = "done" => outcome[x] = "success"
    /\ \A x \in Mined : op[x].nonce < chainNonce
    /\ \A x, y \in Mined : x # y => op[x].nonce # op[y].nonce
    /\ \A x \in Exec : seen[x] = {y \in Mined : op[y].nonce < op[x].nonce}

\* The invariant gives what the run checks.
LEMMA OpsInvImplies ==
  OpsInv => OpsCorrect
<1> SUFFICES ASSUME OpsInv
             PROVE  OpsCorrect
  OBVIOUS
<1>1. OpsTypeOK
  <2> DEFINE R == [stage : {"idle", "reading", "pricing", "estimating", "sending", "polling", "over"},
                   by : OpDevice, nonce : 0 .. chainNonce, gas : Gas,
                   signed : Gas \union {"blank"}, polls : 0 .. MaxPolls - 1]
  <2>1. ASSUME NEW x \in Exec PROVE op[x] \in R
    <3>1. op[x] \in ExecRecord /\ op[x].nonce <= chainNonce /\ chainNonce \in Nat
      BY DEF OpsInv, ExecFine
    <3>2. op[x].nonce \in 0 .. chainNonce
      BY <3>1 DEF ExecRecord
    <3> QED BY <3>1, <3>2 DEF ExecRecord, ExecStage
  <2>2. op \in [Exec -> R]
    <3> HIDE DEF R
    <3> QED BY <2>1 DEF OpsInv
  <2> QED BY <2>2 DEF OpsInv, OpsTypeOK
<1>2. DoneWasExecuted BY DEF OpsInv, DoneWasExecuted
<1>3. SecondSawTheFirst
  <2> SUFFICES ASSUME NEW x \in Mined, NEW y \in Mined, x # y PROVE x \in seen[y] \/ y \in seen[x]
    BY DEF SecondSawTheFirst
  <2>1. x \in Exec /\ y \in Exec BY DEF Mined
  <2>2. op[x].nonce \in Nat /\ op[y].nonce \in Nat BY <2>1 DEF OpsInv, ExecRecord
  <2>3. op[x].nonce < op[y].nonce \/ op[y].nonce < op[x].nonce BY <2>2 DEF OpsInv
  <2> QED BY <2>1, <2>3 DEF OpsInv
<1>4. SentIsSignedAndCovered BY DEF OpsInv, SentIsSignedAndCovered, ExecFine
<1> QED BY <1>1, <1>2, <1>3, <1>4 DEF OpsCorrect

\* It holds before anything was executed.
LEMMA BlankFine == Blank \in ExecRecord /\ Blank.nonce = 0 /\ Blank.stage = "idle"
BY OpsAssumption DEF Blank, ExecRecord, ExecStage, Gas

LEMMA OpsInvInit == OpsInit => OpsInv
<1> SUFFICES ASSUME OpsInit PROVE OpsInv
  OBVIOUS
<1>1. Blank \in ExecRecord /\ Blank.nonce = 0 /\ Blank.stage = "idle" BY BlankFine
<1>2. Mined = {} BY DEF OpsInit, Mined
<1>3. Cardinality({}) = 0 BY FS_EmptySet
<1> QED BY <1>1, <1>2, <1>3 DEF OpsInit, OpsInv, ExecFine

\* One execution moves before its operation is with the bundler, or on from there;
\* the nonce it goes by stays.
LEMMA ExecutionMoves ==
  ASSUME OpsInv, NEW x \in Exec, NEW o \in ExecRecord, op' = [op EXCEPT ![x] = o],
         ExecFine(o, chainNonce), o.nonce = op[x].nonce,
         op[x].stage \in {"polling", "over"} => o.stage \in {"polling", "over"},
         UNCHANGED <<chainNonce, outcome, seen>>, keysTaken' = keysTaken,
         \/ pool' = pool
         \/ o.stage = "polling" /\ pool' \subseteq pool \union {x} /\ outcome[x] = "none",
         told' \in [Exec -> {"nothing", "done", "reverted", "error"}],
         \A y \in Exec : told'[y] = "done" => outcome[y] = "success"
  PROVE  OpsInv'
<1>1. Mined' = Mined BY DEF Mined
<1>2. op' \in [Exec -> ExecRecord] /\ op'[x] = o /\ \A y \in Exec : y # x => op'[y] = op[y]
  BY DEF OpsInv
<1>3. \A y \in Exec : op'[y].nonce = op[y].nonce BY <1>2
<1>4. \A y \in Exec : ExecFine(op'[y], chainNonce) BY <1>2 DEF OpsInv
<1>5. pool' \subseteq Exec \ Mined' BY <1>1 DEF OpsInv, Mined
<1>6. \A y \in Exec : y \in pool' \/ outcome'[y] # "none" => op'[y].stage \in {"polling", "over"}
  BY <1>2 DEF OpsInv
<1>7. \A y \in Exec : seen'[y] = {z \in Mined' : op'[z].nonce < op'[y].nonce}
  BY <1>1, <1>3 DEF OpsInv, Mined
<1>8. /\ \A y \in Mined' : op'[y].nonce < chainNonce'
      /\ \A y, z \in Mined' : y # z => op'[y].nonce # op'[z].nonce
  BY <1>1, <1>3 DEF OpsInv, Mined
<1> QED BY <1>1, <1>2, <1>4, <1>5, <1>6, <1>7, <1>8 DEF OpsInv

\* The steps of executeViaUserOp but for the read of the nonce.
LEMMA ExecStepInv ==
  ASSUME OpsInv, NEW x \in Exec,
         ReadGasPrice(x) \/ Estimate(x) \/ Send(x) \/ AskReceipt(x) \/ ExecutionFails(x)
  PROVE  OpsInv'
<1> USE OpsAssumption
<1>0. /\ op[x] \in ExecRecord /\ ExecFine(op[x], chainNonce) /\ op[x].nonce \in Nat
      /\ outcome[x] \in {"none", "success", "failure"}
      /\ \A y \in Exec : told[y] = "done" => outcome[y] = "success"
      /\ told \in [Exec -> {"nothing", "done", "reverted", "error"}]
  BY DEF OpsInv, ExecRecord
<1>1. CASE ReadGasPrice(x)
  <2>1. PICK o : o = [SignForEstimate(op[x]) EXCEPT !.stage = "estimating"] OBVIOUS
  <2>2. o \in ExecRecord /\ o.stage = "estimating" /\ o.signed = op[x].gas /\ o.nonce = op[x].nonce
    BY <1>0, <2>1 DEF ExecRecord, ExecStage, SignForEstimate
  <2>3. ExecFine(o, chainNonce) BY <1>0, <2>2 DEF ExecFine, ExecRecord, Gas
  <2> QED BY <1>0, <1>1, <2>1, <2>2, <2>3, ExecutionMoves DEF ReadGasPrice, Goes, In
<1>2. CASE Estimate(x)
  <2>0. op[x].signed # "blank" /\ op[x].stage = "estimating" BY <1>0, <1>2 DEF Estimate, In, ExecFine
  <2>1. PICK o : o = [op[x] EXCEPT !.stage = "sending", !.gas = "full", !.signed = "full"] OBVIOUS
  <2>2. /\ o \in ExecRecord /\ o.stage = "sending" /\ o.signed = "full" /\ o.gas = "full"
        /\ o.nonce = op[x].nonce
    BY <1>0, <2>1 DEF ExecRecord, ExecStage, Gas
  <2>3. ExecFine(o, chainNonce) BY <1>0, <2>2 DEF ExecFine
  <2>4. op' = [op EXCEPT ![x] = o] BY <1>2, <2>0, <2>1 DEF Estimate, Estimated, Goes
  <2> QED BY <1>0, <1>2, <2>0, <2>2, <2>3, <2>4, ExecutionMoves DEF Estimate
<1>3. CASE Send(x)
  <2>0. op[x].stage = "sending" /\ op[x].gas = "full" /\ op[x].signed = "full"
    BY <1>0, <1>3 DEF Send, In
  <2>1. PICK o : o = [op[x] EXCEPT !.stage = "polling"] OBVIOUS
  <2>2. /\ o \in ExecRecord /\ o.stage = "polling" /\ o.signed = "full" /\ o.gas = "full"
        /\ o.nonce = op[x].nonce
    BY <1>0, <2>0, <2>1 DEF ExecRecord, ExecStage
  <2>3. ExecFine(o, chainNonce) BY <1>0, <2>2 DEF ExecFine
  <2>4. outcome[x] = "none" BY <2>0 DEF OpsInv
  <2>5. pool' \subseteq pool \union {x} BY <1>3 DEF Send
  <2> QED BY <1>0, <1>3, <2>0, <2>1, <2>2, <2>3, <2>4, <2>5, ExecutionMoves DEF Send, Goes
<1>4. CASE AskReceipt(x)
  <2>0. op[x].stage = "polling" BY <1>4 DEF AskReceipt, In
  <2>1. CASE op' = [op EXCEPT ![x] = [op[x] EXCEPT !.stage = "over"]]
             /\ \E what \in {"done", "reverted"} :
                   /\ told' = [told EXCEPT ![x] = what] /\ (what = "done" => outcome[x] = "success")
    <3>1. PICK o : o = [op[x] EXCEPT !.stage = "over"] OBVIOUS
    <3>2. o \in ExecRecord /\ o.stage = "over" /\ o.nonce = op[x].nonce
      BY <1>0, <3>1 DEF ExecRecord, ExecStage
    <3>3. ExecFine(o, chainNonce) BY <1>0, <3>2 DEF ExecFine
    <3>4. \A y \in Exec : told'[y] = "done" => outcome[y] = "success"
      BY <1>0, <2>1
    <3>5. told' \in [Exec -> {"nothing", "done", "reverted", "error"}]
      BY <1>0, <2>1
    <3> QED BY <1>4, <2>1, <3>1, <3>2, <3>3, <3>4, <3>5, ExecutionMoves DEF AskReceipt
  <2>2. CASE /\ op' = [op EXCEPT ![x] = [op[x] EXCEPT !.polls = (@ + 1) % MaxPolls]]
             /\ told' = told
    <3>1. PICK p : p = (op[x].polls + 1) % MaxPolls OBVIOUS
    <3>2. p \in 0 .. MaxPolls - 1
      <4>1. op[x].polls + 1 \in Nat BY <1>0 DEF ExecRecord
      <4> QED BY <3>1, <4>1
    <3>3. PICK o : o = [op[x] EXCEPT !.polls = p] OBVIOUS
    <3>4. /\ o \in ExecRecord /\ o.stage = "polling" /\ o.nonce = op[x].nonce
          /\ o.gas = op[x].gas /\ o.signed = op[x].signed
      BY <1>0, <2>0, <3>2, <3>3 DEF ExecRecord
    <3>5. ExecFine(o, chainNonce) BY <1>0, <2>0, <3>4 DEF ExecFine
    <3>6. op' = [op EXCEPT ![x] = o] BY <2>2, <3>1, <3>3
    <3> QED BY <1>0, <1>4, <2>2, <3>4, <3>5, <3>6, ExecutionMoves DEF AskReceipt
  <2>3. ReportOf(x) \in {"done", "reverted"} /\ (ReportOf(x) = "done" => outcome[x] = "success")
    BY DEF ReportOf
  <2> QED BY <1>4, <2>1, <2>2, <2>3 DEF AskReceipt, Ends, Goes, NoReceipt
<1>5. CASE ExecutionFails(x)
  <2>1. PICK o : o = [op[x] EXCEPT !.stage = "over"] OBVIOUS
  <2>2. o \in ExecRecord /\ o.stage = "over" /\ o.nonce = op[x].nonce
    BY <1>0, <2>1 DEF ExecRecord, ExecStage
  <2>3. ExecFine(o, chainNonce) BY <1>0, <2>2 DEF ExecFine
  <2>4. /\ told' \in [Exec -> {"nothing", "done", "reverted", "error"}]
        /\ \A y \in Exec : told'[y] = "done" => outcome[y] = "success"
    BY <1>0, <1>5 DEF ExecutionFails, Ends
  <2> QED BY <1>5, <2>1, <2>2, <2>3, <2>4, ExecutionMoves DEF ExecutionFails, Ends, Goes
<1> QED BY <1>1, <1>2, <1>3, <1>4, <1>5

\* The read of the nonce, which sees every operation executed so far.
LEMMA ReadNonceInv ==
  ASSUME OpsInv, NEW x \in Exec, ReadNonce(x)
  PROVE  OpsInv'
<1>0. op[x] \in ExecRecord /\ op[x].stage = "reading" /\ outcome[x] = "none" /\ x \notin pool
  BY DEF OpsInv, ReadNonce, In
<1>1. PICK o : o = [op[x] EXCEPT !.stage = "pricing", !.nonce = chainNonce] OBVIOUS
<1>2. o \in ExecRecord /\ o.stage = "pricing" /\ o.nonce = chainNonce
  BY <1>0, <1>1 DEF ExecRecord, ExecStage, OpsInv
<1>3. ExecFine(o, chainNonce) BY <1>2 DEF ExecFine, OpsInv
<1>4. Mined' = Mined BY DEF Mined, ReadNonce
<1>5. op' \in [Exec -> ExecRecord] /\ op'[x] = o /\ \A y \in Exec : y # x => op'[y] = op[y]
  BY <1>1, <1>2 DEF OpsInv, ReadNonce, Goes, NextOpNonce
<1>6. x \notin Mined BY <1>0 DEF Mined
<1>7. \A y \in Mined : y \in Exec /\ op'[y] = op[y] BY <1>5, <1>6 DEF Mined
<1>8. \A y \in Exec : seen'[y] = {z \in Mined' : op'[z].nonce < op'[y].nonce}
  <2> SUFFICES ASSUME NEW y \in Exec PROVE seen'[y] = {z \in Mined' : op'[z].nonce < op'[y].nonce}
    OBVIOUS
  <2>1. CASE y = x BY <1>2, <1>4, <1>5, <1>7, <2>1 DEF ReadNonce, OpsInv
  <2>2. CASE y # x BY <1>4, <1>5, <1>7, <2>2 DEF ReadNonce, OpsInv
  <2> QED BY <2>1, <2>2
<1>9. seen' \in [Exec -> SUBSET Exec] BY DEF ReadNonce, OpsInv, Mined
<1> QED BY <1>0, <1>2, <1>3, <1>4, <1>5, <1>7, <1>8, <1>9 DEF ReadNonce, OpsInv

\* An operation is executed: it is the next in the order of the nonces.
LEMMA MineInv ==
  ASSUME OpsInv, NEW x \in Exec, Mine(x)
  PROVE  OpsInv'
<1>0. /\ op[x].nonce = chainNonce /\ outcome[x] = "none" /\ x \notin Mined /\ x \in pool
      /\ op[x].stage \in {"polling", "over"} /\ told[x] # "done"
  BY DEF OpsInv, Mine, Validates, Mined
<1>1. PICK what \in {"success", "failure"} : outcome' = [outcome EXCEPT ![x] = what]
  BY DEF Mine
<1>2. /\ outcome' \in [Exec -> {"none", "success", "failure"}]
      /\ outcome'[x] = what /\ \A y \in Exec : y # x => outcome'[y] = outcome[y]
  BY <1>1 DEF OpsInv
<1>3. Mined' = Mined \union {x} BY <1>2 DEF Mined
<1>4. IsFiniteSet(Mined)
  BY OpsAssumption, FS_Interval, FS_Subset, 1 \in Int, MaxExecs \in Int DEF Mined, Exec
<1>5. chainNonce' \in Nat /\ chainNonce' = Cardinality(Mined') /\ chainNonce' = chainNonce + 1
  <2>1. Cardinality(Mined \union {x}) = Cardinality(Mined) + 1 BY <1>0, <1>4, FS_AddElement
  <2> QED BY <1>3, <2>1 DEF OpsInv, Mine
<1>6. \A y \in Exec : op'[y] = op[y] /\ op[y] \in ExecRecord /\ op[y].nonce \in Nat /\ op[y].nonce <= chainNonce
  BY DEF Mine, OpsInv, ExecFine, ExecRecord
<1>7. \A y \in Exec : ExecFine(op'[y], chainNonce')
  <2> SUFFICES ASSUME NEW y \in Exec PROVE ExecFine(op[y], chainNonce + 1)
    BY <1>5 DEF Mine
  <2>1. op[y].nonce <= chainNonce + 1 BY <1>6 DEF OpsInv
  <2> QED BY <2>1 DEF ExecFine, OpsInv
<1>8. \A y \in Exec : y \in pool' \/ outcome'[y] # "none" => op'[y].stage \in {"polling", "over"}
  BY <1>0, <1>2 DEF Mine, OpsInv
<1>9. \A y \in Mined' : op'[y].nonce < chainNonce'
  <2> SUFFICES ASSUME NEW y \in Mined' PROVE op[y].nonce < chainNonce + 1
    BY <1>5 DEF Mine
  <2>1. y \in Exec BY DEF Mined
  <2> QED BY <1>6, <2>1 DEF OpsInv
<1>10. \A y, z \in Mined' : y # z => op'[y].nonce # op'[z].nonce
  <2>1. \A y \in Mined : op[y].nonce # op[x].nonce
    <3> SUFFICES ASSUME NEW y \in Mined PROVE op[y].nonce # op[x].nonce
      OBVIOUS
    <3>1. y \in Exec BY DEF Mined
    <3>2. op[y].nonce < chainNonce BY DEF OpsInv
    <3> QED BY <1>0, <1>6, <3>1, <3>2 DEF OpsInv
  <2> QED BY <1>3, <2>1 DEF Mine, OpsInv
<1>11. \A y \in Exec : seen'[y] = {z \in Mined' : op'[z].nonce < op'[y].nonce}
  <2> SUFFICES ASSUME NEW y \in Exec PROVE seen[y] = {z \in Mined' : op[z].nonce < op[y].nonce}
    BY DEF Mine
  <2>1. ~ (op[x].nonce < op[y].nonce) BY <1>0, <1>6 DEF OpsInv
  <2> QED BY <1>3, <2>1 DEF OpsInv
<1>12. pool' \subseteq Exec \ Mined' BY <1>3 DEF Mine, OpsInv
<1>13. \A y \in Exec : told'[y] = "done" => outcome'[y] = "success"
  BY <1>0, <1>2 DEF Mine, OpsInv
<1> QED BY <1>2, <1>5, <1>7, <1>8, <1>9, <1>10, <1>11, <1>12, <1>13 DEF Mine, OpsInv

\* An execution begins with nothing read.
LEMMA StartInv ==
  ASSUME OpsInv, NEW d \in OpDevice, StartExecution(d)
  PROVE  OpsInv'
<1>1. PICK x \in Exec :
        /\ In(x, "idle") /\ Goes(x, [Blank EXCEPT !.stage = "reading", !.by = d])
        /\ UNCHANGED <<keysTaken, chainNonce, pool, outcome, told, seen>>
  BY DEF StartExecution
<1>2. PICK o : o = [Blank EXCEPT !.stage = "reading", !.by = d] OBVIOUS
<1>3. Blank \in ExecRecord /\ Blank.nonce = 0 BY BlankFine
<1>4. o \in ExecRecord /\ o.stage = "reading" /\ o.nonce = 0
  BY <1>2, <1>3 DEF ExecRecord, ExecStage
<1>5. op[x].stage = "idle" /\ op[x].nonce = 0 BY <1>1 DEF In, OpsInv, ExecFine
<1>6. ExecFine(o, chainNonce) BY <1>4 DEF ExecFine, OpsInv
<1>7. /\ told' \in [Exec -> {"nothing", "done", "reverted", "error"}]
      /\ \A y \in Exec : told'[y] = "done" => outcome[y] = "success"
  BY <1>1 DEF OpsInv
<1> QED BY <1>1, <1>2, <1>4, <1>5, <1>6, <1>7, ExecutionMoves DEF Goes

\* Every step moves one execution, the bundler or the set of keys.
LEMMA OpsInvNext == OpsInv /\ [OpsNext]_opsVars => OpsInv'
<1> SUFFICES ASSUME OpsInv, [OpsNext]_opsVars PROVE OpsInv'
  OBVIOUS
<1>1. ASSUME NEW d \in OpDevice, StartExecution(d) PROVE OpsInv'
  BY <1>1, StartInv
<1>2. ASSUME NEW d \in OpDevice, RevokeKey(d) PROVE OpsInv'
  <2>1. Mined' = Mined BY <1>2 DEF RevokeKey, Mined
  <2> QED BY <1>2, <2>1 DEF RevokeKey, OpsInv
<1>3. ASSUME NEW x \in Exec, ExecStep(x) PROVE OpsInv'
  BY <1>3, ReadNonceInv, ExecStepInv DEF ExecStep
<1>4. ASSUME NEW x \in Exec, Mine(x) PROVE OpsInv'
  BY <1>4, MineInv
<1>5. ASSUME NEW x \in Exec, ForgetOp(x) PROVE OpsInv'
  <2>1. Mined' = Mined BY <1>5 DEF ForgetOp, Mined
  <2> QED BY <1>5, <2>1 DEF ForgetOp, OpsInv
<1>6. CASE UNCHANGED opsVars
  <2>1. Mined' = Mined BY <1>6 DEF opsVars, Mined
  <2> QED BY <1>6, <2>1 DEF opsVars, OpsInv
<1> QED BY <1>1, <1>2, <1>3, <1>4, <1>5, <1>6 DEF OpsNext

\* For any devices, executions and polls: success is said of a call that was
\* executed, of two executed operations one had seen the other, and what is sent is
\* signed for its own gas (userOpExecutor.ts).
THEOREM OpsCorrectHolds == OpsSpec => []OpsCorrect
BY OpsInvInit, OpsInvNext, OpsInvImplies, PTL DEF OpsSpec

-----------------------------------------------------------------------------
(*****************************************************************************)
(* GuardianScreen.  Every read is of a version of the contract, and a node   *)
(* that lags is one change behind at most.  The invariant relates what was   *)
(* read, the version of the tab's own change and what a node may still say.  *)
(*****************************************************************************)

Statuses == {"none", "active", "executed", "cancelled"}
RecoveryRecord == [list : SUBSET Guards, threshold : {0, 1}, status : Statuses,
                   approvals : SUBSET Guards, ripe : BOOLEAN, version : Nat]
ReadRecord == [state : {"loading", "error", "retrying", "read"}, said : RecoveryRecord]

\* A recovery the contract may be in: a threshold is that of a list.
RecoveryFine(r) == r \in RecoveryRecord /\ (r.threshold = 1 => r.list # {})

ChainInv ==
    /\ role \in {"own", "target"} /\ lagging \in BOOLEAN
    /\ RecoveryFine(recovery) /\ RecoveryFine(before)
    /\ recovery.version <= MaxGuardTx
    /\ ~lagging => before = recovery

ReadInv ==
    /\ cfgRead \in ReadRecord /\ propRead \in ReadRecord /\ propRead.state \in {"loading", "read"}
    /\ cfgRead.state # "read" => cfgRead.said = NoRecovery
    /\ approvedRead \in {"loading", "yes", "no"}
    /\ approvedRead # "loading" => propRead.said.status = "active"

HookInv ==
    /\ hooks \in [Kinds -> {"idle", "pending", "confirming"}]
    /\ configArgs \subseteq Guards
    /\ hooks["config"] # "idle" => configArgs \in Lists
    /\ hooks["config"] # "idle" \/ hooks["execute"] # "idle" \/ showConfigForm => cfgRead.state # "loading"
    /\ forgotten \subseteq Lists /\ (forgotten # {} => cfgRead.state # "loading")
    /\ role = "target" /\ hooks["execute"] # "idle" => cfgRead.state = "read"

\* Every node is past the tab's own change once one was read when none was behind.
OwnInv ==
    /\ ownVersion \in Nat /\ ownVersion <= recovery.version /\ readSince \in BOOLEAN
    /\ readSince => before.version >= ownVersion /\ propRead.said.version >= ownVersion

GuardInv == ChainInv /\ ReadInv /\ HookInv /\ OwnInv

\* No recovery, and what a change makes of one.
LEMMA NoRecoveryFine == RecoveryFine(NoRecovery) /\ NoRecovery.version = 0
BY DEF RecoveryFine, NoRecovery, RecoveryRecord, Statuses

LEMMA NextVersionFine ==
    ASSUME NEW r, RecoveryFine(r)
    PROVE  RecoveryFine(AtNextVersion(r)) /\ AtNextVersion(r).version = r.version + 1
<1>1. r \in RecoveryRecord /\ (r.threshold = 1 => r.list # {}) BY DEF RecoveryFine
<1>2. r.version + 1 \in Nat BY <1>1 DEF RecoveryRecord
<1>3. AtNextVersion(r) \in RecoveryRecord BY <1>1, <1>2 DEF AtNextVersion, RecoveryRecord
<1>4. /\ AtNextVersion(r).version = r.version + 1
      /\ AtNextVersion(r).threshold = r.threshold /\ AtNextVersion(r).list = r.list
  BY <1>1 DEF AtNextVersion, RecoveryRecord
<1>5. QED BY <1>1, <1>3, <1>4 DEF RecoveryFine

\* Each change of the contract keeps its shape and is one version on.
LEMMA ChangesFine ==
    ASSUME RecoveryFine(recovery)
    PROVE  /\ \A l \in Lists : RecoveryFine(Configured(l)) /\ Configured(l).version = recovery.version + 1
           /\ RecoveryFine(Proposed) /\ Proposed.version = recovery.version + 1
           /\ \A g \in Guards : RecoveryFine(ApprovedBy(g)) /\ ApprovedBy(g).version = recovery.version + 1
           /\ RecoveryFine(Executed) /\ Executed.version = recovery.version + 1
           /\ RecoveryFine(Cancelled) /\ Cancelled.version = recovery.version + 1
           /\ RecoveryFine(AtNextVersion([recovery EXCEPT !.ripe = TRUE]))
           /\ AtNextVersion([recovery EXCEPT !.ripe = TRUE]).version = recovery.version + 1
<1>0. recovery \in RecoveryRecord /\ (recovery.threshold = 1 => recovery.list # {}) BY DEF RecoveryFine
<1>1. ASSUME NEW l \in Lists PROVE RecoveryFine(Configured(l)) /\ Configured(l).version = recovery.version + 1
  <2>0. l \subseteq Guards /\ l # {} BY DEF Lists
  <2> DEFINE r == [NoRecovery EXCEPT !.list = l, !.threshold = 1, !.status = recovery.status, !.version = Version]
  <2>1. r \in RecoveryRecord BY <1>0, <2>0 DEF RecoveryRecord, Statuses, NoRecovery, Version
  <2>2. r.threshold = 1 /\ r.list = l /\ r.version = recovery.version
    BY <1>0 DEF RecoveryRecord, NoRecovery, Version
  <2>3. RecoveryFine(r) BY <1>0, <2>1, <2>2, <2>0 DEF RecoveryFine
  <2> HIDE DEF r
  <2>4. RecoveryFine(AtNextVersion(r)) /\ AtNextVersion(r).version = recovery.version + 1
    BY <2>2, <2>3, NextVersionFine
  <2>5. QED BY <2>4 DEF r, Configured
<1>2. RecoveryFine(Proposed) /\ Proposed.version = recovery.version + 1
  <2> DEFINE r == [recovery EXCEPT !.status = "active", !.approvals = {}, !.ripe = FALSE]
  <2>1. r \in RecoveryRecord BY <1>0 DEF RecoveryRecord, Statuses
  <2>2. r.threshold = recovery.threshold /\ r.list = recovery.list /\ r.version = recovery.version
    BY <1>0 DEF RecoveryRecord
  <2>3. RecoveryFine(r) BY <1>0, <2>1, <2>2 DEF RecoveryFine
  <2> HIDE DEF r
  <2>4. RecoveryFine(AtNextVersion(r)) /\ AtNextVersion(r).version = recovery.version + 1
    BY <2>2, <2>3, NextVersionFine
  <2>5. QED BY <2>4 DEF r, Proposed
<1>3. ASSUME NEW g \in Guards PROVE RecoveryFine(ApprovedBy(g)) /\ ApprovedBy(g).version = recovery.version + 1
  <2> DEFINE r == [recovery EXCEPT !.approvals = @ \cup {g}]
  <2>1. r \in RecoveryRecord BY <1>0 DEF RecoveryRecord, Statuses
  <2>2. r.threshold = recovery.threshold /\ r.list = recovery.list /\ r.version = recovery.version
    BY <1>0 DEF RecoveryRecord
  <2>3. RecoveryFine(r) BY <1>0, <2>1, <2>2 DEF RecoveryFine
  <2> HIDE DEF r
  <2>4. RecoveryFine(AtNextVersion(r)) /\ AtNextVersion(r).version = recovery.version + 1
    BY <2>2, <2>3, NextVersionFine
  <2>5. QED BY <2>4 DEF r, ApprovedBy
<1>4. RecoveryFine(Executed) /\ Executed.version = recovery.version + 1
  <2> DEFINE r == [NoRecovery EXCEPT !.status = "executed", !.version = Version]
  <2>1. r \in RecoveryRecord BY <1>0 DEF RecoveryRecord, Statuses, NoRecovery, Version
  <2>2. r.threshold = 0 /\ r.list = {} /\ r.version = recovery.version
    BY <1>0 DEF RecoveryRecord, NoRecovery, Version
  <2>3. RecoveryFine(r) BY <1>0, <2>1, <2>2 DEF RecoveryFine
  <2> HIDE DEF r
  <2>4. RecoveryFine(AtNextVersion(r)) /\ AtNextVersion(r).version = recovery.version + 1
    BY <2>2, <2>3, NextVersionFine
  <2>5. QED BY <2>4 DEF r, Executed
<1>5. RecoveryFine(Cancelled) /\ Cancelled.version = recovery.version + 1
  <2> DEFINE r == [recovery EXCEPT !.status = "cancelled"]
  <2>1. r \in RecoveryRecord BY <1>0 DEF RecoveryRecord, Statuses
  <2>2. r.threshold = recovery.threshold /\ r.list = recovery.list /\ r.version = recovery.version
    BY <1>0 DEF RecoveryRecord
  <2>3. RecoveryFine(r) BY <1>0, <2>1, <2>2 DEF RecoveryFine
  <2> HIDE DEF r
  <2>4. RecoveryFine(AtNextVersion(r)) /\ AtNextVersion(r).version = recovery.version + 1
    BY <2>2, <2>3, NextVersionFine
  <2>5. QED BY <2>4 DEF r, Cancelled
<1>6. /\ RecoveryFine(AtNextVersion([recovery EXCEPT !.ripe = TRUE]))
      /\ AtNextVersion([recovery EXCEPT !.ripe = TRUE]).version = recovery.version + 1
  <2> DEFINE r == [recovery EXCEPT !.ripe = TRUE]
  <2>1. r \in RecoveryRecord BY <1>0 DEF RecoveryRecord, Statuses
  <2>2. r.threshold = recovery.threshold /\ r.list = recovery.list /\ r.version = recovery.version
    BY <1>0 DEF RecoveryRecord
  <2>3. RecoveryFine(r) BY <1>0, <2>1, <2>2 DEF RecoveryFine
  <2> HIDE DEF r
  <2>4. RecoveryFine(AtNextVersion(r)) /\ AtNextVersion(r).version = recovery.version + 1
    BY <2>2, <2>3, NextVersionFine
  <2>5. QED BY <2>4 DEF r
<1>7. QED BY <1>1, <1>2, <1>3, <1>4, <1>5, <1>6

\* The invariant holds at the start.
LEMMA GuardInitInv == ASSUME GuardInit PROVE GuardInv
<1>1. RecoveryFine(recovery) /\ recovery.version = 0
  <2>1. CASE recovery = NoRecovery BY <2>1, NoRecoveryFine
  <2>2. ASSUME NEW l \in Lists, NEW st \in {"none", "active"},
               recovery = [NoRecovery EXCEPT !.list = l, !.threshold = 1, !.status = st]
        PROVE  RecoveryFine(recovery) /\ recovery.version = 0
    <3>1. l \subseteq Guards /\ l # {} BY DEF Lists
    <3>2. recovery \in RecoveryRecord BY <2>2, <3>1 DEF NoRecovery, RecoveryRecord, Statuses
    <3>3. recovery.list = l /\ recovery.version = 0 BY <2>2 DEF NoRecovery
    <3>4. QED BY <3>1, <3>2, <3>3 DEF RecoveryFine
  <2>3. QED BY <2>1, <2>2 DEF GuardInit
<1>2. ChainInv
  <2>1. lagging \in BOOLEAN BY Zenon DEF GuardInit
  <2>2. role \in {"own", "target"} /\ before = recovery BY DEF GuardInit
  <2>3. QED BY <1>1, <2>1, <2>2, GuardAssumption DEF ChainInv
<1>3. Unread \in ReadRecord /\ Unread.said = NoRecovery /\ Unread.state = "loading"
  BY NoRecoveryFine DEF Unread, ReadRecord, RecoveryFine
<1>4. ReadInv BY <1>3 DEF ReadInv, GuardInit
<1>5. HookInv BY DEF HookInv, GuardInit, Kinds
<1>6. OwnInv
  <2>1. readSince = FALSE /\ ownVersion = 0 /\ before = recovery BY Zenon DEF GuardInit
  <2>2. readSince \in BOOLEAN BY <2>1, Zenon
  <2>3. QED BY <1>1, <2>1, <2>2 DEF OwnInv
<1>7. QED BY <1>2, <1>4, <1>5, <1>6 DEF GuardInv

\* What a read says of a recovery has its shape.
LEMMA ReadFine ==
    ASSUME NEW c, RecoveryFine(c)
    PROVE  /\ [state |-> "read", said |-> ConfigOf(c)] \in ReadRecord
           /\ [state |-> "read", said |-> ProposalOf(c)] \in ReadRecord
           /\ ProposalOf(c).version = c.version
<1>1. c \in RecoveryRecord BY DEF RecoveryFine
<1>2. ConfigOf(c) \in RecoveryRecord BY <1>1 DEF ConfigOf, NoRecovery, RecoveryRecord, Statuses
<1>3. ProposalOf(c) \in RecoveryRecord /\ ProposalOf(c).version = c.version
  BY <1>1 DEF ProposalOf, RecoveryRecord
<1>4. QED BY <1>2, <1>3 DEF ReadRecord

\* A read answers what a node may say.
LEMMA SeenFine ==
    ASSUME GuardInv, NEW c \in Seen
    PROVE  /\ RecoveryFine(c)
           /\ readSince \/ ~lagging => c.version >= ownVersion /\ before.version >= ownVersion
<1>1. c \in {recovery, before} BY DEF Seen
<1>2. RecoveryFine(c) BY <1>1 DEF GuardInv, ChainInv
<1>3. recovery.version \in Nat /\ before.version \in Nat BY DEF GuardInv, ChainInv, RecoveryFine, RecoveryRecord
<1>4. recovery.version >= ownVersion BY <1>3 DEF GuardInv, OwnInv
<1>5. readSince \/ ~lagging => before.version >= ownVersion BY <1>4 DEF GuardInv, OwnInv, ChainInv
<1>6. QED BY <1>1, <1>2, <1>4, <1>5

\* The contract moves to r, by a transaction of the tab or another's.
LEMMA ContractMoves ==
    ASSUME GuardInv, NEW r, Becomes(r), RecoveryFine(r), r.version = recovery.version + 1, Version < MaxGuardTx,
           UNCHANGED role
    PROVE  ChainInv' /\ recovery'.version = recovery.version + 1 /\ before'.version = recovery.version
<1>1. recovery' = r /\ before' = recovery /\ lagging' = TRUE BY DEF Becomes
<1>2. recovery.version \in Nat /\ MaxGuardTx \in Nat
  BY GuardAssumption DEF GuardInv, ChainInv, RecoveryFine, RecoveryRecord
<1>3. lagging' \in BOOLEAN BY <1>1, Zenon
<1>4. QED BY <1>1, <1>2, <1>3 DEF GuardInv, ChainInv, Version

\* Every step is a read, a press, a change of the contract or a timer.
LEMMA GuardStep == ASSUME GuardInv, [GuardNext]_guardVars PROVE GuardInv'
<1> USE DEF readVars, askVars, ownVars
<1>c. ASSUME UNCHANGED <<role, recovery, before, lagging>> PROVE ChainInv'
  BY <1>c DEF GuardInv, ChainInv
<1>r. ASSUME UNCHANGED <<cfgRead, propRead, approvedRead>> PROVE ReadInv'
  BY <1>r DEF GuardInv, ReadInv
<1>h. ASSUME UNCHANGED <<role, hooks, configArgs, forgotten, showConfigForm, cfgRead>> PROVE HookInv'
  BY <1>h DEF GuardInv, HookInv
<1>o. ASSUME UNCHANGED <<recovery, before, propRead, ownVersion, readSince>> PROVE OwnInv'
  BY <1>o DEF GuardInv, OwnInv
<1>v. recovery.version \in Nat /\ before.version \in Nat
  BY DEF GuardInv, ChainInv, RecoveryFine, RecoveryRecord
<1>1. CASE ReadConfig
  <2> USE <1>1 DEF ReadConfig
  <2>1. ChainInv' /\ OwnInv' BY <1>c, <1>o
  <2>2. ASSUME NEW st \in {"error", "retrying"}, cfgRead.state # "read",
               cfgRead' = [cfgRead EXCEPT !.state = st]
        PROVE  GuardInv'
    <3>1. cfgRead' \in ReadRecord /\ cfgRead'.state = st /\ cfgRead'.said = cfgRead.said
      BY <2>2 DEF GuardInv, ReadInv, ReadRecord
    <3>2. ReadInv' /\ HookInv' BY <2>2, <3>1 DEF GuardInv, ReadInv, HookInv
    <3>3. QED BY <2>1, <3>2 DEF GuardInv
  <2>3. ASSUME NEW c \in Seen, cfgRead' = [state |-> "read", said |-> ConfigOf(c)] PROVE GuardInv'
    <3>1. cfgRead' \in ReadRecord BY <2>3, SeenFine, ReadFine
    <3>2. cfgRead'.state = "read" BY <2>3
    <3>3. ReadInv' /\ HookInv' BY <3>1, <3>2 DEF GuardInv, ReadInv, HookInv
    <3>4. QED BY <2>1, <3>3 DEF GuardInv
  <2>4. QED BY <2>2, <2>3
<1>2. CASE ReadProposal
  <2> USE <1>2 DEF ReadProposal
  <2>1. PICK c \in Seen : propRead' = [state |-> "read", said |-> ProposalOf(c)] OBVIOUS
  <2>2. RecoveryFine(c) /\ (readSince \/ ~lagging => c.version >= ownVersion /\ before.version >= ownVersion)
    BY SeenFine
  <2>3. propRead' \in ReadRecord /\ propRead'.state = "read" /\ propRead'.said.version = c.version
    BY <2>1, <2>2, ReadFine
  <2>4. ChainInv' /\ HookInv' BY <1>c, <1>h
  <2>5. ReadInv' BY <2>3 DEF GuardInv, ReadInv, ApprovalFor
  <2>6. readSince' \in BOOLEAN BY Zenon
  <2>7. OwnInv' BY <2>2, <2>3, <2>6 DEF GuardInv, OwnInv
  <2>8. QED BY <2>4, <2>5, <2>7 DEF GuardInv
<1>3. CASE ReadApproved
  <2> USE <1>3 DEF ReadApproved
  <2>1. approvedRead' \in {"yes", "no"} OBVIOUS
  <2>2. ReadInv' BY <2>1 DEF GuardInv, ReadInv, ProposalStatus
  <2>3. QED BY <2>2, <1>c, <1>h, <1>o DEF GuardInv
<1>5. CASE NodesCatchUp
  <2> USE <1>5 DEF NodesCatchUp
  <2>1. lagging' \in BOOLEAN BY Zenon
  <2>2. ChainInv' BY <2>1 DEF GuardInv, ChainInv
  <2>3. OwnInv' BY <1>v DEF GuardInv, OwnInv
  <2>4. QED BY <2>2, <2>3, <1>r, <1>h DEF GuardInv
<1>7. CASE OthersAct
  <2> USE <1>7 DEF OthersAct
  <2>1. PICK r : Becomes(r) /\ RecoveryFine(r) /\ r.version = recovery.version + 1
    <3>1. RecoveryFine(recovery) BY DEF GuardInv, ChainInv
    <3>2. recovery.list \subseteq Guards BY <3>1 DEF RecoveryFine, RecoveryRecord
    <3>3. CASE \E g \in recovery.list \ {Me} :
                  (~Active /\ Becomes(Proposed)) \/ (Active /\ g \notin recovery.approvals /\ Becomes(ApprovedBy(g)))
      BY <3>1, <3>2, <3>3, ChangesFine
    <3>4. CASE Quorum /\ Becomes(Executed) BY <3>1, <3>4, ChangesFine
    <3>5. CASE role = "target" /\ Active /\ Becomes(Cancelled) BY <3>1, <3>5, ChangesFine
    <3>6. CASE role = "target" /\ ~Active /\ \E l \in Lists : Becomes(Configured(l)) BY <3>1, <3>6, ChangesFine
    <3>7. CASE Active /\ ~recovery.ripe /\ Becomes(AtNextVersion([recovery EXCEPT !.ripe = TRUE]))
      BY <3>1, <3>7, ChangesFine
    <3>8. QED BY <3>3, <3>4, <3>5, <3>6, <3>7
  <2>2. ChainInv' /\ recovery'.version = recovery.version + 1 /\ before'.version = recovery.version
    BY <2>1, ContractMoves
  <2>3. OwnInv' BY <1>v, <2>2 DEF GuardInv, OwnInv
  <2>4. QED BY <2>2, <2>3, <1>r, <1>h DEF GuardInv
<1>8. CASE OpenConfigForm
  <2> USE <1>8 DEF OpenConfigForm
  <2>1. HookInv' BY DEF GuardInv, HookInv, OfferConfig, ConfigLoading
  <2>2. QED BY <2>1, <1>c, <1>r, <1>o DEF GuardInv
<1>9. CASE CancelConfigForm
  <2> USE <1>9 DEF CancelConfigForm
  <2>1. forgotten' \subseteq Lists /\ (forgotten' # {} => cfgRead.state # "loading")
    BY DEF GuardInv, HookInv, Busy
  <2>2. HookInv' BY <2>1 DEF GuardInv, HookInv, Kinds
  <2>3. QED BY <2>2, <1>c, <1>r, <1>o DEF GuardInv
<1>10. ASSUME NEW k \in Kinds, PressGuard(k) PROVE GuardInv'
  <2> USE <1>10 DEF PressGuard
  <2>1. hooks' \in [Kinds -> {"idle", "pending", "confirming"}] BY DEF GuardInv, HookInv
  <2>2. \A j \in Kinds : hooks'[j] = IF j = k THEN "pending" ELSE hooks[j] BY DEF GuardInv, HookInv
  <2>3. configArgs' \subseteq Guards /\ (k = "config" => configArgs' \in Lists) /\ (k # "config" => configArgs' = configArgs)
    BY DEF GuardInv, HookInv, Lists
  <2>4. k = "config" => cfgRead.state # "loading" BY DEF Offered, GuardInv, HookInv
  <2>5. k = "execute" => IF role = "own" THEN cfgRead.state # "loading" ELSE cfgRead.state = "read"
    <3>1. NoRecovery.threshold = 0 BY DEF NoRecovery
    <3>2. k = "execute" => CanExecute BY DEF Offered
    <3>3. QED BY <3>1, <3>2 DEF CanExecute, ConfigLoading, Threshold, GuardInv, ReadInv
  <2>6. HookInv' BY <2>1, <2>2, <2>3, <2>4, <2>5 DEF GuardInv, HookInv, Kinds, ChainInv
  <2>7. QED BY <2>6, <1>c, <1>r, <1>o DEF GuardInv
<1>11. ASSUME NEW k \in Kinds, AnswerGuard(k) PROVE GuardInv'
  <2> USE <1>11 DEF AnswerGuard
  <2>1. PICK v \in {"idle", "confirming"} : hooks' = [hooks EXCEPT ![k] = v]
    BY DEF WalletAnswers, IsError
  <2>2. hooks[k] = "pending" BY DEF IsPending
  <2>3. hooks' \in [Kinds -> {"idle", "pending", "confirming"}] BY <2>1 DEF GuardInv, HookInv
  <2>4. \A j \in Kinds : hooks'[j] # "idle" => hooks[j] # "idle" BY <2>1, <2>2 DEF GuardInv, HookInv
  <2>5. HookInv' BY <2>3, <2>4 DEF GuardInv, HookInv, Kinds
  <2>6. QED BY <2>5, <1>c, <1>r, <1>o DEF GuardInv
<1>12. ASSUME NEW k \in Kinds, MineGuard(k) PROVE GuardInv'
  <2> USE <1>12 DEF MineGuard
  <2>1. hooks' \in [Kinds -> {"idle", "pending", "confirming"}] BY DEF GuardInv, HookInv
  <2>2. \A j \in Kinds : hooks'[j] # "idle" => hooks[j] # "idle" BY DEF GuardInv, HookInv
  <2>3. showConfigForm' => showConfigForm OBVIOUS
  <2>4. HookInv' BY <2>1, <2>2, <2>3 DEF GuardInv, HookInv, Kinds
  <2>5. CASE ~Accepts(k)
    BY <2>4, <2>5, <1>c, <1>r, <1>o DEF GuardInv
  <2>6. CASE Accepts(k)
    <3>1. RecoveryFine(After(k)) /\ After(k).version = recovery.version + 1
      <4>1. RecoveryFine(recovery) BY DEF GuardInv, ChainInv
      <4>2. Me \in Guards BY GuardAssumption
      <4>3. k = "config" => configArgs \in Lists BY DEF GuardInv, HookInv, IsConfirming
      <4>4. QED BY <4>1, <4>2, <4>3, ChangesFine DEF After, Kinds
    <3>2. ChainInv' /\ recovery'.version = recovery.version + 1 /\ before'.version = recovery.version
      BY <2>6, <3>1, ContractMoves
    <3>3. readSince' = FALSE BY <2>6, Zenon
    <3>4. readSince' \in BOOLEAN BY <3>3, Zenon
    <3>5. ownVersion' = recovery.version + 1 BY <2>6 DEF Version
    <3>6. OwnInv' BY <1>v, <3>2, <3>3, <3>4, <3>5 DEF OwnInv
    <3>7. QED BY <2>4, <3>2, <3>6, <1>r DEF GuardInv
  <2>7. QED BY <2>5, <2>6
<1>13. ASSUME NEW l \in Lists, MineForgotten(l) PROVE GuardInv'
  <2> USE <1>13 DEF MineForgotten
  <2>1. HookInv' BY DEF GuardInv, HookInv
  <2>2. CASE ~Accepts("config")
    BY <2>1, <2>2, <1>c, <1>r, <1>o DEF GuardInv
  <2>3. CASE Accepts("config")
    <3>1. RecoveryFine(Configured(l)) /\ Configured(l).version = recovery.version + 1
      BY ChangesFine DEF GuardInv, ChainInv
    <3>2. ChainInv' /\ recovery'.version = recovery.version + 1 /\ before'.version = recovery.version
      BY <2>3, <3>1, ContractMoves
    <3>3. OwnInv' BY <1>v, <3>2 DEF GuardInv, OwnInv
    <3>4. QED BY <2>1, <3>2, <3>3, <1>r DEF GuardInv
  <2>4. QED BY <2>2, <2>3
<1>14. CASE UNCHANGED guardVars
  BY <1>14, <1>c, <1>r, <1>h, <1>o DEF guardVars, GuardInv
<1>15. QED
  BY <1>1, <1>2, <1>3, <1>5, <1>7, <1>8, <1>9, <1>10, <1>11, <1>12, <1>13, <1>14 DEF GuardNext

\* The invariant gives what the run checks.
LEMMA GuardImplies == ASSUME GuardInv PROVE GuardCorrect
<1> USE DEF GuardInv
<1>1. recovery.threshold <= Cardinality(recovery.list)
  <2>1. recovery.list \subseteq Guards /\ recovery.threshold \in {0, 1} /\ (recovery.threshold = 1 => recovery.list # {})
    BY DEF ChainInv, RecoveryFine, RecoveryRecord
  <2>2. IsFiniteSet(recovery.list) BY <2>1, GuardAssumption, FS_Subset
  <2>3. Cardinality(recovery.list) \in Nat BY <2>2, FS_CardinalityType
  <2>4. recovery.list # {} => Cardinality(recovery.list) # 0 BY <2>2, FS_EmptySet
  <2>5. QED BY <2>1, <2>3, <2>4
<1>2. GuardTypeOK
  <2>1. recovery.list \subseteq Guards /\ recovery.status \in Statuses
    BY DEF ChainInv, RecoveryFine, RecoveryRecord
  <2>2. cfgRead.state \in {"loading", "error", "retrying", "read"} /\ propRead.state \in {"loading", "read"}
    BY DEF ReadInv, ReadRecord
  <2>3. QED
    BY <1>1, <2>1, <2>2 DEF GuardTypeOK, ChainInv, ReadInv, HookInv, OwnInv, Statuses, Version, ProposalStatus
<1>3. DecidedOnTheList /\ TargetDecidedOnTheList
  BY DEF DecidedOnTheList, TargetDecidedOnTheList, HookInv, Busy
<1>4. OwnChangeIsShown BY DEF OwnChangeIsShown, OwnInv
<1>5. QED BY <1>2, <1>3, <1>4 DEF GuardCorrect

\* For any guardians and any number of transactions, reads that fail and requests a
\* closed form left behind: the wallet is asked for what was decided on a list that was
\* read, or whose read failed, and a read with no node behind shows the tab's own change
\* for good (GuardianManagement.tsx).
THEOREM GuardCorrectHolds == GuardSpec => []GuardCorrect
BY GuardInitInv, GuardStep, GuardImplies, PTL DEF GuardSpec
=============================================================================

--------------------------- MODULE TruthIDAccount ---------------------------
(***************************************************************************)
(* contracts/src/TruthIDAccount.sol, one ERC-4337 account, with the parts of *)
(* the EntryPoint it relies on: a transaction first validates every          *)
(* UserOperation of its bundle and only then executes them, one after the    *)
(* other, and a failing execution undoes that operation alone.  A failing    *)
(* validation rejects the whole bundle, so it is not a step.  Signatures are *)
(* their signer; calls to the account by anybody else revert and are left    *)
(* out.  Devices are paired and revoked in a registry by others too, at any   *)
(* moment: in their own transactions, in operations other accounts have in    *)
(* the same bundle, or inside a call of this one, which a failure undoes.     *)
(***************************************************************************)
EXTENDS Naturals, Sequences

CONSTANTS
    Self,           \* the account's address
    Owner,          \* the owner's key
    Device,         \* keys of devices
    Contract,       \* the other addresses it can call
    Registries,     \* the triples updateRegistries is called with
    Call,           \* the calls operations are made of
    Nobody,         \* no snapshot
    MaxOps,         \* bound: operations in a bundle
    MaxCalls,       \* bound: calls in two successive operations
    MaxBalance      \* bound: the account's funds

RegistryTriple == [device : Contract, identity : Contract, recovery : Contract]

Account == [authorizedDevices : SUBSET Device, blockedForDevices : SUBSET (Contract \cup {Self}),
            registries : RegistryTriple, balance : 0..MaxBalance]

Snapshot == [account : Account, active : [Contract -> SUBSET Device]]

ASSUME AccountAssumption ==
    /\ Owner \notin Device
    /\ Self \notin Contract
    /\ Registries \subseteq RegistryTriple
    /\ Nobody \notin Snapshot
    /\ {MaxOps, MaxCalls, MaxBalance} \subseteq Nat

ASSUME CallAssumption ==
    Call \subseteq
        [dest : {Self}, name : {"addDevice", "removeDevice"}, arg : Device \cup {Owner}]
        \cup [dest : {Self}, name : {"block", "unblock"}, arg : Contract \cup {Self}]
        \cup [dest : {Self}, name : {"updateRegistries"}, arg : Registries]
        \cup [dest : Contract, name : {"call"}, arg : {0, 1}]

VARIABLES
    account,        \* the contract's storage and balance
    active,         \* device registry -> the devices active there
    ops,            \* the validated operations of the transaction, <<>> outside one
    at,             \* index of the operation in execution, 0 before the first
    calls,          \* the calls it has still to make
    saved           \* what its failure restores

vars == <<account, active, ops, at, calls, saved>>

\* form: the function at the top of callData, "admin" for the account's others;
\* execute is executeBatch of one call.
UserOp == [signer : Device \cup {Owner}, form : {"executeBatch", "admin"},
           calls : Seq(Call)]

AccountTypeOK ==
    /\ account \in Account
    /\ active \in [Contract -> SUBSET Device]
    /\ ops \in Seq(UserOp) /\ Len(ops) <= MaxOps
    /\ at \in 0..Len(ops)
    /\ calls \in Seq(Call)
    /\ saved \in Snapshot \cup {Nobody}

Members(r) == {r.device, r.identity, r.recovery}

AccountInit ==
    /\ \E r \in Registries :
          account = [authorizedDevices |-> {}, blockedForDevices |-> Members(r),
                     registries |-> r, balance |-> 0]
    /\ active = [c \in Contract |-> {}]
    /\ ops = <<>> /\ at = 0 /\ calls = <<>> /\ saved = Nobody

-----------------------------------------------------------------------------
(* What a call does, made by the owner or by the account itself.            *)

AddDevice(d) ==
    /\ d # Owner
    /\ d \notin account.authorizedDevices
    /\ account' = [account EXCEPT !.authorizedDevices = @ \cup {d}]

RemoveDevice(d) ==
    /\ d \in account.authorizedDevices
    /\ account' = [account EXCEPT !.authorizedDevices = @ \ {d}]

BlockDestinationForDevices(dest) ==
    account' = [account EXCEPT !.blockedForDevices = @ \cup {dest}]

UnblockDestinationForDevices(dest) ==
    account' = [account EXCEPT !.blockedForDevices = @ \ {dest}]

\* The old registries are opened to devices before the new ones are closed.
BlockedAfterClosingFirst(r) ==
    (account.blockedForDevices \cup Members(r)) \ Members(account.registries)

BlockedAfter(r) ==
    (account.blockedForDevices \ Members(account.registries)) \cup Members(r)

UpdateRegistries(r) ==
    account' = [account EXCEPT !.registries = r, !.blockedForDevices = BlockedAfter(r)]

AdminCall(c) ==
    \/ c.name = "addDevice" /\ AddDevice(c.arg)
    \/ c.name = "removeDevice" /\ RemoveDevice(c.arg)
    \/ c.name = "block" /\ BlockDestinationForDevices(c.arg)
    \/ c.name = "unblock" /\ UnblockDestinationForDevices(c.arg)
    \/ c.name = "updateRegistries" /\ UpdateRegistries(c.arg)

\* With so much of the funds.  What a registry does on it is ActiveElsewhere, while
\* the operation still runs.
OutsideCall(c) ==
    /\ c.arg <= account.balance
    /\ account' = [account EXCEPT !.balance = @ - c.arg]

Perform(c) ==
    /\ UNCHANGED active
    /\ \/ c.dest = Self /\ AdminCall(c)
       \/ c.dest # Self /\ OutsideCall(c)

-----------------------------------------------------------------------------
(* validateUserOp                                                           *)

IsDestAllowedSelfToo(dest) == dest \notin account.blockedForDevices

IsDestAllowed(dest) == dest # Self /\ dest \notin account.blockedForDevices

\* A device may only use execute and executeBatch, on allowed destinations.
IsDeviceCallAllowedFirstOnly(op) ==
    /\ op.form # "admin"
    /\ op.calls # <<>> => IsDestAllowed(op.calls[1].dest)

IsDeviceCallAllowed(op) ==
    /\ op.form # "admin"
    /\ \A k \in DOMAIN op.calls : IsDestAllowed(op.calls[k].dest)

ValidSignature(op) ==
    \/ op.signer = Owner
    \/ /\ op.signer \in account.authorizedDevices
       /\ IsDeviceCallAllowed(op)
       /\ op.signer \in active[account.registries.device]

\* The prefund is paid from the balance in the same step.
ValidateUserOp(op, missingAccountFunds) ==
    /\ at = 0 /\ saved = Nobody
    /\ Len(ops) < MaxOps
    /\ ops # <<>> => Len(op.calls) + Len(ops[Len(ops)].calls) <= MaxCalls
    /\ ValidSignature(op)
    /\ missingAccountFunds <= account.balance
    /\ account' = [account EXCEPT !.balance = @ - missingAccountFunds]
    /\ ops' = Append(ops, op)
    /\ UNCHANGED <<active, at, calls, saved>>

-----------------------------------------------------------------------------
(* execute, executeBatch and the account's own functions, for the EntryPoint *)

BeforeExecution ==
    /\ ops # <<>> /\ saved = Nobody
    /\ saved' = [account |-> account, active |-> active]
    /\ UNCHANGED <<account, active, ops, at, calls>>

NextOp ==
    /\ at < Len(ops) /\ calls = <<>> /\ saved # Nobody
    /\ at' = at + 1
    /\ calls' = ops[at + 1].calls
    /\ saved' = [account |-> account, active |-> active]
    /\ UNCHANGED <<account, active, ops>>

MakeCall ==
    /\ calls # <<>>
    /\ Perform(Head(calls))
    /\ calls' = Tail(calls)
    /\ UNCHANGED <<ops, at, saved>>

\* A call fails, arrays differ in length, or the gas is spent.
RevertOp ==
    /\ calls # <<>>
    /\ account' = saved.account
    /\ active' = saved.active
    /\ calls' = <<>>
    /\ UNCHANGED <<ops, at, saved>>

EndTransaction ==
    /\ ops # <<>> /\ at = Len(ops) /\ calls = <<>>
    /\ ops' = <<>> /\ at' = 0 /\ saved' = Nobody
    /\ UNCHANGED <<account, active, calls>>

-----------------------------------------------------------------------------
(* Transactions of others, and what others do within this one: operations of *)
(* other accounts, once all are validated, and the calls of this one.        *)

OthersRun ==
    /\ ops # <<>> => saved # Nobody
    /\ calls # <<>> => Head(calls).dest # Self

OwnerCall(c) ==
    /\ ops = <<>>
    /\ Perform(c)
    /\ UNCHANGED <<ops, at, calls, saved>>

Receive ==
    /\ ops = <<>>
    /\ account.balance < MaxBalance
    /\ account' = [account EXCEPT !.balance = @ + 1]
    /\ UNCHANGED <<active, ops, at, calls, saved>>

\* By the RecoveryManager, which anyone may set off.
EmergencyWithdraw(sender) ==
    /\ sender = account.registries.recovery
    /\ OthersRun
    /\ account' = [account EXCEPT !.balance = 0]
    /\ UNCHANGED <<active, ops, at, calls, saved>>

\* A recovery, or another controller, revokes devices there or pairs them.
ActiveElsewhere(registry, devices) ==
    /\ OthersRun
    /\ active' = [active EXCEPT ![registry] = devices]
    /\ UNCHANGED <<account, ops, at, calls, saved>>

\* The operations of each form.
UserOps ==
    [signer : Device \cup {Owner}, form : {"executeBatch"},
     calls : UNION {[1..n -> Call] : n \in 0..MaxCalls}]
    \cup [signer : Device \cup {Owner}, form : {"admin"},
          calls : {<<c>> : c \in {x \in Call : x.dest = Self}}]

AccountNext ==
    \/ \E op \in UserOps, funds \in {0, 1} : ValidateUserOp(op, funds)
    \/ BeforeExecution
    \/ NextOp
    \/ MakeCall
    \/ RevertOp
    \/ EndTransaction
    \/ \E c \in Call : OwnerCall(c)
    \/ Receive
    \/ \E c \in Contract : EmergencyWithdraw(c)
    \/ \E r \in Registries, D \in SUBSET Device : ActiveElsewhere(r.device, D)

AccountSpec == AccountInit /\ [][AccountNext]_vars

-----------------------------------------------------------------------------
(* Properties *)

\* Who may act for the account, and where.
Authority(a) == <<a.authorizedDevices, a.blockedForDevices, a.registries>>

\* No operation a device signed changes who may act for the account, neither in
\* a batch, nor through a call of the account to itself, nor by failing half-way,
\* nor in a bundle with operations of the owner that move the wall meanwhile.
DevicesNeverPromoteA ==
    Authority(account') # Authority(account) =>
        ops = <<>> \/ (at > 0 /\ ops[at].signer = Owner)
DevicesNeverPromote == [][DevicesNeverPromoteA]_vars

\* A registry in use is closed to devices, whatever order registries are swapped
\* in, one address taking another's role included, unless the owner opened it.
CurrentRegistriesStayBlockedA ==
    \A c \in Members(account'.registries) :
        \/ c \in account'.blockedForDevices
        \/ c \in Members(account.registries) \ account.blockedForDevices
        \/ \E call \in Call :
              /\ call.name = "unblock" /\ call.arg = c
              /\ OwnerCall(call) \/ (MakeCall /\ call = Head(calls))
        \/ RevertOp
CurrentRegistriesStayBlocked == [][CurrentRegistriesStayBlockedA]_vars

\* A call is made for a device only while its destination is open to devices and the
\* account authorises the device.  The whole bundle is validated before any of it
\* runs, so what was checked may be stale by then: only a call the owner has the
\* account make to itself, earlier in the bundle, does that.  Whether the device is
\* active in the registry is asked at validation alone: one revoked since then
\* still has its call made.
MayMoveTheWall(op) ==
    op.signer = Owner /\ \E k \in DOMAIN op.calls : op.calls[k].dest = Self

StaleOnlyBehindOwnerA ==
    MakeCall /\ ops[at].signer # Owner =>
        \/ /\ IsDestAllowed(Head(calls).dest)
           /\ ops[at].signer \in account.authorizedDevices
        \/ \E j \in 1..(at - 1) : MayMoveTheWall(ops[j])
StaleOnlyBehindOwner == [][StaleOnlyBehindOwnerA]_vars

\* TruthIDAccount.sol:361: "Um device revogado via DeviceRegistry.revokeDevice não
\* pode mais assinar UserOps".  Asked of the execution of what it signed before.
RevokedMakesNoCall ==
    [][MakeCall /\ ops[at].signer # Owner =>
          ops[at].signer \in active[account.registries.device]]_vars

\* Whatever is added, removed, swapped or undone half-way: the account's storage keeps
\* its shape, it never owes more than it has, and a registry in use is closed to
\* devices unless the owner opened it (TruthIDAccount.sol).
AccountCorrect == []AccountTypeOK /\ CurrentRegistriesStayBlocked
=============================================================================

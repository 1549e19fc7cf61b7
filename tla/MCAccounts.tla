------------------------------ MODULE MCAccounts ------------------------------
(* What an account is and who has it, in four parts that keep their own      *)
(* state, of which one moves: the smart account, for a device, a registry    *)
(* that leaves, one that comes and one that takes another's place; the       *)
(* identity registry, for two factories that disagree on where a wallet's    *)
(* account is and a name _validateUsername rejects; the operations two       *)
(* devices have the account execute; and the Desktop's guardians, whose chain *)
(* side RecoveryManager has in full.                                          *)
EXTENDS TruthIDAccount, IdentityRegistry, UserOpExecutor, GuardianScreen, TLC

CONSTANTS d1, reg1, reg2, id, rm, app, alice, bob, f1, f2, n1, n2, bad

VARIABLE contract

MCRegistries ==
    {[device |-> reg1, identity |-> id, recovery |-> rm],
     [device |-> reg1, identity |-> rm, recovery |-> reg2]}

ToSelf(name, arg) == [dest |-> Self, name |-> name, arg |-> arg]

MCCall ==
    {ToSelf("addDevice", d1), ToSelf("removeDevice", d1), ToSelf("unblock", reg1),
     ToSelf("block", reg1)} \cup {ToSelf("updateRegistries", r) : r \in Registries}
    \cup {[dest |-> app, name |-> "call", arg |-> 1], [dest |-> reg1, name |-> "call", arg |-> 0]}

MCAddress == {alice, bob, rm, f1, f2}
MCName == {n1, n2, bad}
MCValidName == {n1, n2}
MCFactory == {f1, f2}
MCAccountOf == (f1 :> [a \in MCAddress |-> IF a = alice THEN bob ELSE f1])
            @@ (f2 :> [a \in MCAddress |-> IF a = alice THEN rm ELSE f2])

contractVars == <<contract, vars, irVars, opsVars, guardVars>>

\* What is not explored starts in one of its initial states.
AccountsInit ==
    /\ contract \in {"account", "registry", "operations", "guardians"}
    /\ AccountInit /\ IRInit /\ OpsInit /\ GuardInit
    /\ contract # "guardians" => role = "own" /\ recovery = NoRecovery
    /\ contract # "account" => account.registries.device = reg1

AccountsNext ==
    /\ UNCHANGED contract
    /\ \/ contract = "account" /\ AccountNext /\ UNCHANGED <<irVars, opsVars, guardVars>>
       \/ contract = "registry" /\ IRNext /\ UNCHANGED <<vars, opsVars, guardVars>>
       \/ contract = "operations" /\ OpsNext /\ UNCHANGED <<vars, irVars, guardVars>>
       \/ contract = "guardians" /\ GuardNext /\ UNCHANGED <<vars, irVars, opsVars>>

\* No execution has anything to do before it starts.
AccountsSpec == AccountsInit /\ [][AccountsNext]_contractVars /\ OpsFairness
=============================================================================

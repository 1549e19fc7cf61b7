-------------------------- MODULE IdentityRegistry --------------------------
(***************************************************************************)
(* contracts/src/IdentityRegistry.sol: the usernames of TruthID, each bound *)
(* to the wallet (`controller') that administers it.  A transaction that    *)
(* reverts changes nothing, so an action's guard is the conjunction of the  *)
(* handler's require checks, in any order.  Addresses, names and signatures *)
(* are atoms: a signature is the address ecrecover returns for it, Zero     *)
(* when it is malformed (v not 27 or 28, or ecrecover's failure).           *)
(***************************************************************************)
EXTENDS Naturals

CONSTANTS
    Address,        \* wallets and contracts, address(0) excluded
    Zero,           \* address(0)
    Name,           \* strings submitted as usernames
    ValidName,      \* the names _validateUsername accepts
    NoName,         \* the empty string
    Factory,        \* addresses where a TruthIDAccountFactory is deployed
    AccountOf,      \* AccountOf[f][a]: f.getAddress(a, 0), the CREATE2 address
    Deployer,       \* `owner', who deployed the contracts
    RMChoice,       \* addresses the deployer may announce as RecoveryManager
    MaxId           \* bound: identities created in a behaviour

ASSUME AddressAssumption == /\ Zero \notin Address
                            /\ Deployer \in Address
                            /\ RMChoice \subseteq Address \cup {Zero}
                            /\ Factory \subseteq Address
                            /\ AccountOf \in [Factory -> [Address -> Address]]
ASSUME NameAssumption == /\ ValidName \subseteq Name
                         /\ NoName \notin Name
ASSUME MaxIdAssumption == MaxId \in Nat

AnyAddress == Address \cup {Zero}
AnyName == Name \cup {NoName}

VARIABLES
    nextId,                 \* the last identity id given out
    identityByUsername,     \* name -> Identity
    usernameByController,   \* address -> name, NoName when it controls none
    identityRM,             \* IdentityRegistry._recoveryManager
    factory                 \* the trusted factory, Zero before setFactory

irVars == <<nextId, identityByUsername, usernameByController, identityRM, factory>>

Id == 1..MaxId
Identity == [id : 0..MaxId, controller : AnyAddress, exists : BOOLEAN]
NoIdentity == [id |-> 0, controller |-> Zero, exists |-> FALSE]

IRTypeOK ==
    /\ nextId \in 0..MaxId
    /\ identityByUsername \in [Name -> Identity]
    /\ usernameByController \in [AnyAddress -> AnyName]
    /\ identityRM \in AnyAddress
    /\ factory \in Factory \cup {Zero}

IREmpty ==
    /\ nextId = 0
    /\ identityByUsername = [u \in Name |-> NoIdentity]
    /\ usernameByController = [a \in AnyAddress |-> NoName]
    /\ factory = Zero

IRInit == IREmpty /\ identityRM = Zero

-----------------------------------------------------------------------------
Registered(u) == identityByUsername[u].exists
ControllerOf(u) == identityByUsername[u].controller
IdOf(u) == identityByUsername[u].id
HasIdentity(a) == usernameByController[a] # NoName

\* getIdentityIdByController: 0 when the address controls no identity.
IdentityIdOf(a) == IF HasIdentity(a) THEN IdOf(usernameByController[a]) ELSE 0

\* The signer consents for its own wallet, or for the account the trusted
\* factory would deploy for it.
Consents(signer, controller) ==
    /\ signer # Zero
    /\ \/ signer = controller
       \/ /\ factory # Zero
          /\ AccountOf[factory][signer] = controller

\* What createIdentity asks of the name and of the wallet.
NameOpenUnchecked(u) == u \in ValidName

NameOpen(u) == u \in ValidName /\ ~Registered(u)

WalletFree(a) == a # Zero /\ ~HasIdentity(a)

NewIdentity(c) == [id |-> nextId + 1, controller |-> c, exists |-> TRUE]

CreateIdentity(u, controller, signer) ==
    /\ NameOpen(u)
    /\ WalletFree(controller)
    /\ Consents(signer, controller)
    /\ nextId < MaxId
    /\ nextId' = nextId + 1
    /\ identityByUsername' = [identityByUsername EXCEPT ![u] = NewIdentity(controller)]
    /\ usernameByController' = [usernameByController EXCEPT ![controller] = u]
    /\ UNCHANGED <<identityRM, factory>>

\* The lookup table once u has moved to wallet c.
MovedKeepsOld(u, c) == [usernameByController EXCEPT ![c] = u]

Moved(u, c) == [usernameByController EXCEPT ![ControllerOf(u)] = NoName, ![c] = u]

\* Both ways a controller changes share this body: the old wallet is released,
\* the new one must be free (so it differs from the old one).
Rebind(u, newController) ==
    /\ Registered(u)
    /\ WalletFree(newController)
    /\ usernameByController' = Moved(u, newController)
    /\ identityByUsername' = [identityByUsername EXCEPT ![u].controller = newController]
    /\ UNCHANGED <<nextId, identityRM, factory>>

TransferController(sender, u, newController) ==
    /\ sender = ControllerOf(u)
    /\ Rebind(u, newController)

RecoverController(sender, u, newController) ==
    /\ sender = identityRM
    /\ Rebind(u, newController)

SetIdentityRM(sender, rm) ==
    /\ sender = Deployer
    /\ rm # Zero
    /\ identityRM = Zero
    /\ identityRM' = rm
    /\ UNCHANGED <<nextId, identityByUsername, usernameByController, factory>>

SetFactory(sender, f) ==
    /\ sender = Deployer
    /\ factory' = f
    /\ UNCHANGED <<nextId, identityByUsername, usernameByController, identityRM>>

\* What anyone but the RecoveryManager can ask of the registry.
IRUserNext ==
    \/ \E u \in Name, c \in AnyAddress, s \in AnyAddress : CreateIdentity(u, c, s)
    \/ \E a \in Address, u \in Name, c \in AnyAddress : TransferController(a, u, c)
    \/ \E a \in Address, rm \in RMChoice : SetIdentityRM(a, rm)
    \/ \E a \in Address, f \in Factory \cup {Zero} : SetFactory(a, f)

IRNext ==
    \/ IRUserNext
    \/ \E a \in Address, u \in Name, c \in AnyAddress : RecoverController(a, u, c)

IRSpec == IRInit /\ [][IRNext]_irVars

-----------------------------------------------------------------------------
(* Properties *)

\* The two mappings the contract keeps are each other's inverse: an address
\* resolves to a name exactly when that name's record names the address.  Every
\* other contract authorises its caller through this lookup.
ControllerInverse ==
    \A u \in Name, a \in Address :
        usernameByController[a] = u <=> Registered(u) /\ ControllerOf(u) = a

\* Ids are handed out once each and densely: the registered names carry exactly
\* the ids 1..nextId (0 is the other contracts' "not found").
IdsDense ==
    /\ {IdOf(u) : u \in {n \in Name : Registered(n)}} = 1..nextId
    /\ \A u, w \in Name :
          Registered(u) /\ Registered(w) /\ IdOf(u) = IdOf(w) => u = w

\* No address speaks for an id it does not control, through any history of
\* transfers and recoveries: what getIdentityIdByController answers is the id of
\* one registered name whose record holds the caller.
CallerResolves ==
    \A a \in AnyAddress : IdentityIdOf(a) # 0 =>
        \E u \in ValidName : /\ Registered(u)
                             /\ IdOf(u) = IdentityIdOf(a)
                             /\ ControllerOf(u) = a

\* A username is never freed, renumbered or moved back to address(0), and one
\* transaction moves at most one identity, always to a wallet that had none.
IdentityPermanentA ==
    /\ \A u \in Name : Registered(u) =>
          identityByUsername'[u].exists /\ identityByUsername'[u].id = IdOf(u)
    /\ \A u \in Name : ControllerOf(u) # identityByUsername'[u].controller =>
          /\ identityByUsername'[u].controller \in Address
          /\ ~HasIdentity(identityByUsername'[u].controller)
          /\ \A w \in Name \ {u} : identityByUsername'[w] = identityByUsername[w]
IdentityPermanent == [][IdentityPermanentA]_irVars

\* Through any transfers, recoveries and factory changes the registry's mappings
\* are each other's inverse, ids are dense, and a caller resolves to an identity
\* it controls (IdentityRegistry.sol).
IdentitiesConsistent == IRTypeOK /\ ControllerInverse /\ IdsDense /\ CallerResolves
=============================================================================

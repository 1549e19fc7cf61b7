CONSTANTS
    d1 = d1
    reg1 = reg1
    reg2 = reg2
    id = id
    rm = rm
    app = app
    alice = alice
    bob = bob
    f1 = f1
    f2 = f2
    n1 = n1
    n2 = n2
    bad = bad
    Self = Self
    Owner = Owner
    Nobody = Nobody
    Zero = Zero
    NoName = NoName
    Device = {d1}
    Contract = {reg1, reg2, id, rm, app}
    Registries <- MCRegistries
    Call <- MCCall
    MaxOps = 2
    MaxCalls = 2
    MaxBalance = 1
    Address <- MCAddress
    Name <- MCName
    ValidName <- MCValidName
    Factory <- MCFactory
    AccountOf <- MCAccountOf
    Deployer = alice
    MaxId = 2
    RMChoice = {rm, bob, Zero}
    OpDevice = {k1, k2}
    MaxExecs = 2
    MaxPolls = 2
    Guards = {me, g}
    Me = me
    MaxGuardTx = 3
    MaxGuardPresses = 2
SPECIFICATION AccountsSpec
INVARIANTS IdentitiesConsistent GuardCorrect OpsCorrect
PROPERTIES AccountCorrect DevicesNeverPromote StaleOnlyBehindOwner IdentityPermanent ExecutionEnds
CHECK_DEADLOCK FALSE

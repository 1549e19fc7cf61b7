CONSTANTS
    owner = owner
    wallet = wallet
    g1 = g1
    g2 = g2
    n1 = n1
    n2 = n2
    d1 = d1
    k1 = k1
    Zero = Zero
    NoName = NoName
    NoKey = NoKey
    RM = RM
    Address = {owner, wallet, g1, g2, RM}
    Name = {n1}
    ValidName = {n1}
    Factory <- MCFactory
    AccountOf <- MCAccountOf
    Deployer = g1
    MaxId = 1
    RMChoice = {RM}
    MaxTime = 5
    Device = {d1}
    Salt = {0}
    Commitment <- MCCommitment
    VaultKey = {k1}
    MAX_DEVICES = 1
    LegacyDeployed = FALSE
    LegacyUsers = {}
    LegacyDevices <- MCLegacyDevices
    LegacyRevoked = {}
    LegacyKeyOf <- MCLegacyKeyOf
    TIMELOCK = 2
    MAX_GUARDIANS = 2
    GuardianLists <- MCGuardianLists
SPECIFICATION RMSpec
INVARIANTS RecoveryConsistent
PROPERTIES ControlMovesByRight OpenProposalFixed RecoveryCleanSlate ImplementsSocialRecovery

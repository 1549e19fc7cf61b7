CONSTANTS
    alice = alice
    bob = bob
    carol = carol
    n1 = n1
    n2 = n2
    d1 = d1
    h1 = h1
    h2 = h2
    Zero = Zero
    NoName = NoName
    NoKey = NoKey
    Address = {alice, bob, carol}
    Name = {n1, n2}
    ValidName = {n1, n2}
    Factory = {}
    AccountOf <- MCNoFunction
    Deployer = carol
    MaxId = 2
    RMChoice = {carol}
    MaxTime = 3
    Device = {d1}
    Salt = {0}
    Commitment <- MCCommitment
    VaultKey = {}
    MAX_DEVICES = 2
    LegacyDeployed = TRUE
    LegacyUsers = {n1}
    LegacyDevices <- MCLegacyDevices
    LegacyRevoked = {}
    LegacyKeyOf <- MCLegacyKeyOf
    Hash = {h1, h2}
    MAX_SESSIONS = 1
SYMMETRY HashSymmetry
SPECIFICATION SRSpec
PROPERTIES DevicesCorrect SessionRecordsCorrect ValidSessionNeedsDevice

CONSTANTS
    Usernames = {u, v}
    MaxFunding = 2
    Wallets = {old, new}
    OldWallet = old
    MaxWei = 2
    MaxWithdrawals = 2
    MaxConnections = 3
    SessionLimit = 2
    MaxLogins = 2
    MaxSweeps = 1
    Items = {i1, i2}
    MaxImports = 2
    MaxFailures = 1
    Keys = {key1, key2}
    NoKey = NoKey
    HardwareAccounts = {0, 1}
    LocalAccount = LocalAccount
    Unset = Unset
    Asks = {k1, k2}
    MaxLogouts = 2
    chA = chA
    chB = chB
    chC = chC
    Alphabets <- TwoAlphabets
    Lengths = {1, 3}
    ByteValues = 8
    draft = draft
    doc = doc
    Nothing = Nothing
    Absent = Absent
    Desktop = {laptop}
    Mobile = {}
    Entry = {e1, e2}
    Value = {draft, doc}
    Draft = {draft}
    Pinned <- MCPinned
    MaxVersion = 2
    MaxUploads = 1
    MAX_HISTORY = 1
SPECIFICATION DialogsSpec
PROPERTY SaveKeepsEdits
CHECK_DEADLOCK FALSE

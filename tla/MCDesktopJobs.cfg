CONSTANTS
    MaxEntries = 1
    MaxFiles = 1
    MaxWrites = 2
    MaxUploads = 1
    MaxRemounts = 1
    Identities = {a, b}
    MaxBlock = 2
    ChunkSize = 1
    MaxScans = 3
    Phones = {p, q}
    MaxAttempts = 3
    MaxReverts = 1
    Registrable = {p, q}
    MaxKeys = 3
    MaxRemountsOfTab = 1
    MaxSideTx = 1
    ACCOUNT_COUNT = 2
    NoAddress = NoAddress
    MaxScreens = 2
SPECIFICATION FairJobsSpec
INVARIANTS PairCorrect ScreenCorrect
PROPERTIES ScanCorrect RotationCorrect HardwareCorrect JobsProceed
CHECK_DEADLOCK FALSE

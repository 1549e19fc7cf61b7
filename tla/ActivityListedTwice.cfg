CONSTANTS
    Identities = {a, b}
    MaxBlock = 3
    ChunkSize = 2
    MaxScans = 3
SPECIFICATION ScanSpec
INVARIANTS ActivityIsListedOnce
CHECK_DEADLOCK FALSE

CONSTANTS
    SessionLimit = 2
    MaxLogins = 2
    MaxSweeps = 1
SPECIFICATION SessionsSpec
INVARIANT RevocationTakesEffect
CHECK_DEADLOCK FALSE

CONSTANTS
    Requests = {r1}
    MaxSessions = 2
    MaxStops = 1
    PasswordFields = {p1, p2}
    NameField = field
    Logins = {u1, noname}
    NoName = noname
    MaxSubmits = 2
    Ports = 3
    Targets = 4
    Concurrency = 2
    Drops = {s1}
    MaxMoves = 3
    Owner = owner
    Nobody = nobody
    Challenges = {c1, c2}
    Checks = {v1}
    ttlMs = 1
    MaxClock = 3
SPECIFICATION FairClientsSpec
INVARIANTS LoginCorrect RoutesCorrect SdkCorrect
PROPERTIES SessionCorrect ClientsProceed
CHECK_DEADLOCK FALSE

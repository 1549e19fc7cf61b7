CONSTANTS
    Requests = {r1}
    MaxSessions = 2
    MaxStops = 1
SPECIFICATION SessionSpec
INVARIANT StoredSessionWillExpire
CHECK_DEADLOCK FALSE

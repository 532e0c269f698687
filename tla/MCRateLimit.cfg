SPECIFICATION RateLimitSpec
CONSTANTS
    Requests = {p1}
    RLLimit = 2
    RLSeconds = 2
    RLDay = 2
    Protocols = {"record_and_check"}
    MaxTime = 3
    MaxUses = 4
    MaxEvicts = 0
CHECK_DEADLOCK FALSE
INVARIANT LimitHolds

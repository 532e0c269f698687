SPECIFICATION Spec
CONSTANTS
    top = top
    reply = reply
    other = other
    Comments = {top, reply, other}
    Parent <- Thread
    Consumers = {c1, c2}
    Readers = {}
    Rebuilders = {}
    None = None
    Limit = 2
    MaxFaults = 0
    Faults = {}
CHECK_DEADLOCK FALSE
INVARIANT NothingLost

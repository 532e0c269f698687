SPECIFICATION FairSpec
CONSTANTS
    top = top
    reply = reply
    other = other
    Comments = {top, reply, other}
    Parent <- Thread
    Consumers = {c1}
    Readers = {r1}
    Rebuilders = {b1}
    None = None
    Limit = 2
    MaxFaults = 2
    Faults = {"crash", "windowcrash", "expire", "evict", "again", "rebuild"}
CHECK_DEADLOCK FALSE
INVARIANTS TypeOK TreeWhole WritesPaired

PROPERTY CommentsLand

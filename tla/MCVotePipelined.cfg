SPECIFICATION Spec
CONSTANTS
    Users = {alice, bob}
    Author = alice
    Consumers = {c1}
    Setups <- LinkOnly
    DefaultKarma = 0
    None = None
    Unset = Unset
    MaxCasts = 2
    MaxFaults = 1
    Faults = {"pipelined"}
CHECK_DEADLOCK FALSE
INVARIANT LikedMatchesVote

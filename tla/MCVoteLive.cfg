SPECIFICATION FairSpec
CONSTANTS
    Users = {alice, bob}
    Author = alice
    Consumers = {c1}
    Setups <- NewInSubreddit
    DefaultKarma = 0
    None = None
    Unset = Unset
    MaxCasts = 2
    MaxFaults = 2
    Faults = {"crash", "windowcrash", "lostconn", "expire", "slow", "lost", "pipelined", "spam"}
CHECK_DEADLOCK FALSE
PROPERTY VotesLand

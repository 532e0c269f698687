SPECIFICATION Spec
CONSTANTS
    Users = {alice, bob}
    Author = alice
    Consumers = {c1, c2}
    Setups <- LinkAndComment
    DefaultKarma = 0
    None = None
    Unset = Unset
    MaxCasts = 2
    MaxFaults = 2
    Faults = {"crash", "lostconn"}
CHECK_DEADLOCK FALSE
INVARIANTS TypeOK TallyExact KarmaExact VoterSeesVote ListingsFollow

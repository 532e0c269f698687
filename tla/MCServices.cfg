SPECIFICATION ServicesSpec
CONSTANTS
    Bodies = {b1, ws}
    Broadcasts = {ws}
    AmqpLimit = 2
    AmqpMinSize = 2
    Prefetch = 2
    MaxAdds = 3
    MaxJobs = 2
    MaxAmqpFaults = 2
    order1 = order1
    order2 = order2
    Purchases = {order1, order2}
    Offers <- Catalog
    GoldRequests = {h1, h2}
    Nobody = Nobody
    MaxExtra = 3
    MaxGoldFaults = 1
    mod2 = mod2
    Subjects = {u1, u2}
    NoSubject = NoSubject
    Moderators = {mod1, mod2}
    Kinds = {"banned", "muted", "suspended"}
    Lengths = {1, 2}
    MuteLength = 1
    Grace = 1
    Buffer = 1
    Period = 2
    LaterMaxTime = 2
    MaxRequests = 3
    MaxLaterFaults = 1
CHECK_DEADLOCK FALSE
INVARIANTS ServicesTypeOK NoMessageLost DrainTakesBacklog BooksBalance PendingExact
PROPERTIES MessagesHandled  JobsKept BansEnd

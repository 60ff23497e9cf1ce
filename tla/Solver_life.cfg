CONSTANTS
    ANY = ANY
    GLOBAL = GLOBAL
    c1 = c1
    c2 = c2
    u1 = u1
    u2 = u2
    me = me
    peer = peer
    p1 = p1
    p2 = p2
    v1 = v1
    v2 = v2
    Resources <- MCResources
    Domains <- MCDomains
    Clients = {c1, c2}
    Users = {u1, u2}
    UserOf <- MCUserOf
    Signposts = {me, peer}
    Me = me
    Providers = {p1, p2}
    Values = {v1, v2}
    Requests <- LifeRequests
    Offers <- LifeOffers
    InitialTruths <- OldTruths
    MaxTime = 1
    MaxInFlight = 2
    MaxBatch = 1
SPECIFICATION FairSpec
CHECK_DEADLOCK FALSE
INVARIANTS CacheWithinTTL LeaverUnsubscribed
PROPERTIES NeedAnswered KeepsTruths

CONSTANTS
    Requests = {r1, r2}
    Threads = {t1, t2}
    None = None
    MaxQueue = 2
    MaxDeaths = 1
SPECIFICATION FairSpec
CHECK_DEADLOCK FALSE
INVARIANTS ThreadServesOne IdleOrWaiting WaiterHasThread NoLeakedSubscription
PROPERTIES RequestServed

SPECIFICATION ProcessSpec
CONSTANTS
    Proc = {p1, p2}
    Host = {h1, h2}
    Port = {1, 2}
    ErrorPage = page
    Key = {k1, k2}
    Blank = blank
    Caller = {a1, a2}
    KeepFor = 2
    Capacity = 1
    Sec = 2
    TTL = 20
    Interval = 10
    MaxDelay = 14
    MaxFails = 2
    Conn = {c1, c2}
    MaxSends = 3
    MaxPushes = 1
INVARIANTS StartSafe AlertSafe LoadSafe
PROPERTIES ListedServes StopsWhenAsked PersistentReported Reregisters SignalEnds
CHECK_DEADLOCK FALSE

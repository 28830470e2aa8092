\* Liveness: a message that is retried, and a fault.
CONSTANTS
    u1 = u1
    u2 = u2
    d1 = d1
    d2 = d2
    c1 = c1
    c2 = c2
    c3 = c3
    r1 = r1
    r2 = r2
    r3 = r3
    m1 = m1
    m2 = m2
    None = None
    Devices = {d1, d2}
    UserOf <- OneEach
    Users <- Accounts
    Participants = {u1, u2}
    Conns = {c1, c2}
    DeviceOf <- NoReconnect
    Opened = {c1, c2}
    ClientIds = {m1}
    DrawnBy <- AllByFirst
    Requests = {r1}
    MaxTries = 2
    MaxFaults = 1
SPECIFICATION FairSpec
CHECK_DEADLOCK FALSE
PROPERTIES SendingResolves BroadcastIsShown

\* Two connections of the same user send the same clientMessageId.
CONSTANTS
    u1 = u1
    u2 = u2
    u3 = u3
    a = a
    b = b
    x = x
    r1 = r1
    r2 = r2
    m1 = m1
    m2 = m2
    None = None
    Users <- TwoUsers
    Participants = {u1, u2}
    Conns = {a, b}
    Owner <- OwnerTwoDevices
    ClientIds = {m1}
    Requests = {r1, r2}
    ClientEvents <- Sending
    MaxQueue = 2
    MaxRows = 2
SPECIFICATION FairSpec
INVARIANTS TypeOK OneRowPerSend ToldIsStored
PROPERTIES ImplementsLedger SendIsAnswered

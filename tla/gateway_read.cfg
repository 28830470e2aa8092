\* Two participants write and read at the same time, and a stranger tries to.
CONSTANTS
    u1 = u1
    u2 = u2
    u3 = u3
    a = a
    b = b
    x = x
    r1 = r1
    r2 = r2
    m1 = m1
    m2 = m2
    None = None
    Users <- WithStranger
    Participants = {u1, u2}
    Conns = {a, b, x}
    Owner <- OwnerAndStranger
    ClientIds = {m1}
    Requests = {r1, r2}
    ClientEvents <- Reading
    MaxQueue = 1
    MaxRows = 2
SPECIFICATION Spec
SYMMETRY RequestSymmetry
INVARIANTS RoomIsPrivate ReceiptsAreGenuine ReadIsReceipted

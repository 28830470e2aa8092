\* A participant marks the room as read while the other one writes.
CONSTANTS
    u1 = u1
    u2 = u2
    u3 = u3
    a = a
    b = b
    x = x
    r1 = r1
    r2 = r2
    m1 = m1
    m2 = m2
    None = None
    Users <- WithStranger
    Participants = {u1, u2}
    Conns = {a, b, x}
    Owner <- OwnerAndStranger
    ClientIds = {m1}
    Requests = {r1, r2}
    ClientEvents <- Reading
    MaxQueue = 1
    MaxRows = 2
SPECIFICATION Spec
SYMMETRY RequestSymmetry
INVARIANT ReadIsAtomic

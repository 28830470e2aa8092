\* As rooms: two requests for one pair.
CONSTANTS
    u1 = u1
    u2 = u2
    u3 = u3
    r1 = r1
    r2 = r2
    None = None
    Users = {u1, u2, u3}
    Contacts <- PhoneBooks
    Requests = {r1, r2}
SPECIFICATION Spec
SYMMETRY RequestSymmetry
INVARIANTS PairHasOneRoom

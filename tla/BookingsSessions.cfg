SPECIFICATION Spec
CONSTANTS
    u1 = u1
    u2 = u2
    u3 = u3
    m1 = m1
    m2 = m2
    Nobody = Nobody
    Parties <- MCParties
    User = {u1, u2}
    Match = {m1}
    Booking = {b1}
    Request = {r1, r2}
CHECK_DEADLOCK FALSE
INVARIANTS
    SessionsCounted

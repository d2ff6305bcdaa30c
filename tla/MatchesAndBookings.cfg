SPECIFICATION MCSpec
CONSTANTS
    u1 = u1
    u2 = u2
    u3 = u3
    m1 = m1
    m2 = m2
    Nobody = Nobody
    Parties <- MCParties
    User = {u1, u2}
    Match = {m1}
    Booking = {b1, b2}
    Request = {r1, r2}
    Account = {u1, u2}
    Sport = {golf}
    Tap = {t1, t2}
CHECK_DEADLOCK FALSE
INVARIANTS
    MatchesAreMutual
PROPERTIES
    LedgerRefined
    TapsAreAnswered
    TapsEnd

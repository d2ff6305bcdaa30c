SPECIFICATION OutboxSpec
CONSTANTS
    u1 = u1
    u2 = u2
    u3 = u3
    m1 = m1
    m2 = m2
    Nobody = Nobody
    Parties <- MCParties
    User = {u1, u2}
    Match = {m1}
    Booking = {b1}
    Request = {r1, r2}
    Account = {a1, a2}
    Event = {e1}
    Token = {t1, t2}
    Worker = {w1}
    Nothing = Nothing
    MaxCrash = 1
CHECK_DEADLOCK FALSE
INVARIANTS
    ConsentBeforeReputation
    LedgersBalance
    RemindersScheduled
    OutboxTellsTruth
PROPERTIES
    PushesAreFew
    FreshTokenUsed
    EventuallySettled

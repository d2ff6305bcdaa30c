SPECIFICATION FairSpec
CONSTANTS
    alice = alice
    bob = bob
    carol = carol
    dave = dave
    c1 = c1
    c2 = c2
    User = {alice, bob, carol, dave}
    Challenge = {c1, c2}
    Ladder = {l1}
    Request = {r1, r2}
    Nobody = Nobody
    DefaultRating = 15
    WinDelta = 20
    LossDelta = 10
    RatingFloor = 0
CHECK_DEADLOCK FALSE
ACTION_CONSTRAINT Drawn
INVARIANTS
    TypeOK
    ResultsAreAgreed
    TitleFollowsHistory
    LadderIsEarned
PROPERTIES
    SecondReportDecides
    LedgerSpec
    RequestsEnd

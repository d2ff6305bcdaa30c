SPECIFICATION SeasonSpec
CONSTANTS
    User = {a, b, c}
    Challenge = {k0, k1, k2}
    Ladder = {l1}
    Request = {r1, r2}
    Nobody = Nobody
    Played = k0
    DefaultRating = 1000
    WinDelta = 20
    LossDelta = 10
    RatingFloor = 0
CHECK_DEADLOCK FALSE
SYMMETRY Symmetry
INVARIANTS
    ProfilesCountResults

SPECIFICATION FeedsSpec
CONSTANTS
    None = None
    p = p
    q = q
    gym = gym
    golf = golf
    c1 = c1
    c2 = c2
    Row = {p, q}
    Chip = {gym, golf}
    Feed = {"Discovery", "Matches", "Battles", "Events", "Challenges", "Tournaments", "Blocked", "Upcoming"}
    MaxFetches = 2
    Player = {p, q}
    Card = {c1, c2}
    MaxLookups = 2
    Form = {"photos", "preferences", "sports", "edit", "report"}
    MIN_PHOTOS = 2
    MAX_PHOTOS = 4
    AGE_MIN_LIMIT = 18
    AGE_MAX_LIMIT = 21
    DEFAULT_AGE_MAX = 20
    Gender = {"male", "female"}
    Sport = {"gym", "golf"}
    Level = {"beginner", "advanced"}
    DEFAULT_LEVEL = "beginner"
    Suburb = {"bondi"}
    MaxPicks = 2
    MaxAttempts = 2
CHECK_DEADLOCK FALSE
INVARIANTS
    ListIsCurrent
    ReputationIsRight
    FormsAreSaved
    PreferencesValid
PROPERTIES
    NothingHangs

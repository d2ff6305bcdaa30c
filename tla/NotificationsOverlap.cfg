SPECIFICATION QuietSpec
CONSTANTS
    Event = {e1, e2}
    Account = {u1}
    Token = {t1}
    Worker = {w1, w2}
    Nothing = Nothing
    MaxCrash = 0
CHECK_DEADLOCK FALSE
PROPERTIES
    EventuallySettled

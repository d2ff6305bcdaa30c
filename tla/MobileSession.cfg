SPECIFICATION DrawnSpec
CONSTANTS
    a = a
    b = b
    Account = {a, b}
    Slots = 2
    None = None
    MaxDepth = 2
CHECK_DEADLOCK FALSE
INVARIANTS
    UserIsSender
    OneIdentity
PROPERTIES
    NothingHangs

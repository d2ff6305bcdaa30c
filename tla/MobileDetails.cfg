SPECIFICATION DetailsSpec
CONSTANTS
    None = None
    Page = {"booking", "event", "attendance", "challenge", "tournament", "profile"}
    k = k
    Proposal = {k}
    Limit = 2
    MaxMessages = 2
    MaxRefreshes = 2
CHECK_DEADLOCK FALSE
INVARIANTS
    OfferedIsAccepted
    ScreenTellsTruth
    ConversationIsWhole
PROPERTIES
    NothingHangs

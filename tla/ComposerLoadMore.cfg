SPECIFICATION FocusedSpec
CONSTANTS
    None = None
    Sport = {"tennis", "running"}
    VenueId = {1}
    Placed = {1}
    Radius = {"near", "wider"}
    Query = {"text"}
    MaxRequests = 2
    Hours = {9, 23}
    Minutes = {0, 30, 45}
    Dates = {0, 31}
    Moments = {600, 2100}
    MaxMonth = 1
    MaxLost = 1
CHECK_DEADLOCK FALSE
INVARIANTS
    MoreWhenIdle

SPECIFICATION Spec
CONSTANTS
    User = {u1, u2, u3}
    Event = {e1}
    Request = {r1, r2}
    Capacity = {1, 2}
    Nobody = Nobody
CHECK_DEADLOCK FALSE
SYMMETRY Symmetry
INVARIANTS
    FullTellsCapacity
    OutcomesAreEarned
PROPERTIES
    ReportAloneIsInert
    RosterSpec

CONSTANTS
    m1 = m1
    m2 = m2
    NoMarker = NoMarker
    NoSchedule = NoSchedule
    Marker = {m1}
    Schedule = {s1,s2}
    Process = {p1}
    Days = 2
    Slot = {"noon"}
    Zone <- AllUtc
    Ops <- AllOps
    EditedFlags = {"permanent", "testing"}
    TestingFlag = {TRUE, FALSE}
    MaxItems = 1
    Serial = TRUE
SYMMETRY Symmetry
SPECIFICATION Spec
INVARIANTS PlannedHasMarker
PROPERTIES OverwriteReplaces

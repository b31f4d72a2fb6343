CONSTANTS
    m1 = m1
    m2 = m2
    NoMarker = NoMarker
    NoSchedule = NoSchedule
    Marker = {m1}
    Schedule = {s1}
    Process = {p1, p2}
    Days = 1
    Slot = {"noon"}
    Zone <- AllUtc
    Ops <- DeleteOps
    EditedFlags = {}
    TestingFlag = {FALSE}
    MaxItems = 1
    Serial = FALSE
SYMMETRY Symmetry
SPECIFICATION Spec
INVARIANTS PlannedHasMarker
CHECK_DEADLOCK FALSE

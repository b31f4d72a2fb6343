CONSTANTS
    m1 = m1
    m2 = m2
    NoMarker = NoMarker
    NoSchedule = NoSchedule
    Marker = {m1, m2}
    Schedule = {s1, s2}
    Process = {p1}
    Days = 1
    Slot = {"early"}
    Zone <- AllUtc
    Ops <- CallerOps
    EditedFlags = {}
    TestingFlag = {FALSE}
    MaxItems = 2
    Serial = TRUE
    StationMap = {b,m}
    BuiltinMap = b
    SeededMap = {m}
    StationId = {x1}
    Ident = {i1}
    LineId = {m1,m2}
    LineName = {s1,s2}
    StationRequest = {q1,q2}
    NoMap = NoMap
    NoLine = NoLine
    Pin = {i1}
    MarkerType = {t1}
    PinRequest = {q1,q2}
    Upload = {u1,u2,u3,u4}
    NoImage = NoImage
    GroupedPin = {q1,q2}
    PinGroup = {q1,q2}
    GroupName = {q1,q2}
    GroupRequest = {q1,q2}
    NoGroup = NoGroup
SYMMETRY Symmetry
SPECIFICATION CatalogueSpec
INVARIANTS CatalogueTypesOK StatusHasSchedule LinesAgree NothingOfDeletedMap ImagesAgree AssignmentsAgree

CONSTANTS
    NoMarker = NoMarker
    NoSchedule = NoSchedule
    Marker = {m1}
    Schedule = {s1,s2}
    Process = {q1,q2}
    Days = 1
    Slot = {"noon"}
    Zone <- AllUtc
    Ops <- PlanOps
    EditedFlags = {}
    TestingFlag = {FALSE}
    MaxItems = 0
    Serial = FALSE
    MaxNotes = 2
    Version <- Versions
    NoVersion = NoVersion
    AppVersion <- Builds
    NoteRequest = {q1,q2}
SYMMETRY Symmetry
SPECIFICATION RacesSpec
INVARIANTS RaceTypesOK StatusHasSchedule LatestIsGreatest DecisionKept

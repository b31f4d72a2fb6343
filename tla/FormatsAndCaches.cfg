CONSTANTS
    Client = {c1}
    Format = {text,image}
    MaxJobs = 2
    Environment = {"fails"}
    TagMarker = {m1}
    TagReader = {q1,q2}
    TagWriter = {w1}
    TagTTL = 2
    NoCount = NoCount
    TagFault = {"redis","silent"}
    Viewport = {v1}
    WeatherRequest = {q1,q2}
    CacheTTL = 1
    StaleTTL = 2
    Window = 3
    Limit = 1
    MaxDelay = 1
    MaxClock = 5
    NoForecast = NoForecast
SYMMETRY Symmetry
SPECIFICATION FormatsSpec
INVARIANTS FormatTypesOK FinalReplies StaleIsBounded AnswersSayTheAge MinuteBudget
PROPERTIES RepliesMoveOn EndedIsKept FetchFinds

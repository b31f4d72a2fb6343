CONSTANTS
    Client = {c1,c2}
    Format = {text}
    MaxJobs = 1
    Environment = {"fails","restart"}
    Caller = {q1}
    Cleaner = {w1,w2}
    MaxRows = 3
    Cap = 1
    MaxErrors = 1
    Planned = {s1}
    Poll = {q1,q2}
    DayTicks = 3
    Window = 2
    LastDay = 0
    Zone = {0,1}
    DueTime = {1,2}
    NoLog = NoLog
SPECIFICATION LogsSpec
INVARIANTS LogTypesOK TrimIsExact LoggedWhenDue
PROPERTIES JobsEnd CapHoldsInTheEnd

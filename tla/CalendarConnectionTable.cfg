CONSTANTS
    Schedule = {s1}
    User = {u1}
    Worker = {w1}
    Request = {r1}
    Event = {e1}
    None = None
    MaxAttempts = 2
    MaxVersion = 1
    BatchLimit = 1
    Environment = {"disconnect","refresh","reauth"}
SPECIFICATION FairSpec
PROPERTIES ConnectionStatusAsTested

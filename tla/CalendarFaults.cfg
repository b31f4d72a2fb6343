CONSTANTS
    Schedule = {s1}
    User = {u1}
    Worker = {w1}
    Request = {r1}
    Event = {e1}
    None = None
    MaxAttempts = 2
    MaxVersion = 1
    BatchLimit = 2
    Environment = {"error","reauth","refresh","disconnect","silent","overlap"}
SPECIFICATION FairSpec
INVARIANTS IInv
PROPERTIES JobsFollowLifecycle JobsSettle

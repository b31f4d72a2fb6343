CONSTANTS
    Schedule = {s1}
    User = {u1,u2}
    Worker = {w1}
    Request = {r1}
    Event = {e1,e2}
    None = None
    MaxAttempts = 2
    MaxVersion = 2
    BatchLimit = 2
    Environment = {"error","lost","reauth","remove"}
SYMMETRY Symmetry
SPECIFICATION Spec
INVARIANTS SyncedIsFresh PendingHasWork

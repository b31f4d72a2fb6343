CONSTANTS
    Schedule = {s1}
    User = {u1}
    Worker = {w1,w2}
    Request = {r1,r2}
    Event = {e1}
    None = None
    MaxAttempts = 1
    MaxVersion = 2
    BatchLimit = 2
    Environment = {"error","crash","database"}
SYMMETRY Symmetry
SPECIFICATION Spec
INVARIANTS ClaimExclusive
PROPERTIES SettledJobsStay

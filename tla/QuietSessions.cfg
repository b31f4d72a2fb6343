CONSTANTS
    Schedule = {s1,s2}
    User = {u1}
    Worker = {w1}
    Request = {r1}
    Event = {e1,e2}
    None = None
    MaxAttempts = 1
    MaxVersion = 1
    BatchLimit = 1
    Environment = {"remove"}
    AuthUser = {u1}
    AuthProcess = {q1,q2}
    Secret = {k1,k2,k3}
    NoSecret = NoSecret
    NoRow = NoRow
    AuthFault = {"redis","postgres","expiry","restart"}
    Key = {k1,k2}
    Admin = {q1,q2}
    NoKey = NoKey
    KeyFault = {"database","overlap"}
    Plan = {t1}
    Item = {i1,i2,i3}
    PlanRequest = {q1,q2}
    NoPlan = NoPlan
SYMMETRY Symmetry
SPECIFICATION SessionsSpec
INVARIANTS SessionTypesOK EventsHaveLinks LoggedInStaysValid LoggedOutStaysOut RotationHolds DeletedPlanHasNoItems ItemsOfOneUpdate
PROPERTIES RevokedKeysStay

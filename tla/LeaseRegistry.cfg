SPECIFICATION Spec
CONSTANTS
    r1 = r1
    r2 = r2
    r3 = r3
    Req = {r1, r2, r3}
    Owner <- sharedInvocation
    Key <- sharedKey
    MaxGen = 1
    Cap = 2
    Estimates = {1}
    Auth = {1}
    LocalAdmission = TRUE
INVARIANTS
    ScopesHeld
    OneDispatch

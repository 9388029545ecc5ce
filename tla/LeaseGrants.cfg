SPECIFICATION FairSpec
CONSTANTS
    r1 = r1
    r2 = r2
    r3 = r3
    Req = {r1, r2}
    Owner <- ownInvocation
    Key <- ownKey
    MaxGen = 2
    Cap = 2
    Estimates = {1, 2}
    Auth = {1}
    LocalAdmission = TRUE
INVARIANTS
    TypeOK
    UpperBound
    ExhaustionMarked
    NewerUntouched
    OwnAnswers
PROPERTIES
    NeverRaised
    RequestEnds

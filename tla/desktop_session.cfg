SPECIFICATION FairSpec
CONSTANTS
    k1 = k1
    k2 = k2
    k3 = k3
    None = None
    Tokens <- ThreeTokens
    Stored <- NoneOrOne
    MaxPending = 5
    Limit <- EachOnce
INVARIANTS
    TypeOK
    SignedOutStaysOut
    SessionSurvives
    RevokedUnlessCutOff
PROPERTIES
    LateAnswerIsHarmless
    LogoutEnds
CHECK_DEADLOCK FALSE

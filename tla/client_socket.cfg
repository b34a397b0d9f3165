SPECIFICATION FairSpec
CONSTANTS
    None = None
    MaxIds = 20
    MaxAttempts = 2
    Limit <- Ordinary
INVARIANTS
    TypeOK
    OneConnection
    SignedOutIsSilent
    RetriesUnlessExpired
PROPERTIES
    KeepsLink
CHECK_DEADLOCK FALSE

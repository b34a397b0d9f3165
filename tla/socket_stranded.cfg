SPECIFICATION Spec
CONSTANTS
    None = None
    MaxIds = 7
    MaxAttempts = 2
    Limit <- OnePassword
INVARIANTS
    ActiveSessionRetries
CHECK_DEADLOCK FALSE

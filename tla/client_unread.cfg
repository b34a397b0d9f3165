SPECIFICATION Spec
CONSTANTS
    ch1 = ch1
    ch2 = ch2
    a1 = a1
    a2 = a2
    text1 = text1
    None = None
    Channels <- TwoChannels
    Attempts <- TwoAttempts
    Texts = {text1}
    PageSize = 2
    MaxRequests = 2
    Scenarios <- OneLeave
INVARIANTS
    ReadIsShown
CHECK_DEADLOCK FALSE

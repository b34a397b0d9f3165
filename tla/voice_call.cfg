SPECIFICATION FairSpec
CONSTANTS
    chan1 = chan1
    chan2 = chan2
    None = None
    MaxJoins = 2
    Channels <- VoiceChannels
    Limit <- OneOfEach
INVARIANTS
    TypeOK
    MicrophoneIsOwned
    CallHasItsRoom
    
PROPERTIES
    JoinSettles
    
CHECK_DEADLOCK FALSE

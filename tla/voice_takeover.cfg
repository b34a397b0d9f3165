SPECIFICATION Spec
CONSTANTS
    A = A
    B = B
    u1 = u1
    c1 = c1
    c2 = c2
    x = x
    None = None
    Instances = {A, B}
    Initial = {A, B}
    InitialAt <- BothOnA
    Users = {u1}
    Channels = {x}
    Connections = {c1, c2}
    Owner <- OneUser
    Limit <- TwoJoinsRevoke
    Syncing = {}
    MaxInbox = 1
SYMMETRY Tabs
INVARIANTS
    HolderIsLive
    SessionIsBacked
PROPERTIES
    OthersKeepSession
CHECK_DEADLOCK FALSE

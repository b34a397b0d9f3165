SPECIFICATION Spec
CONSTANTS
    A = A
    B = B
    u1 = u1
    c1 = c1
    c2 = c2
    x = x
    None = None
    Instances = {A}
    Initial = {A}
    InitialAt <- BothOnA
    Users = {u1}
    Channels = {x}
    Connections = {c1, c2}
    Owner <- OneUser
    Limit <- TwoJoinsRevoke
    Syncing = {}
    MaxInbox = 1
PROPERTIES
    OnlyHolderEndsIt
CHECK_DEADLOCK FALSE

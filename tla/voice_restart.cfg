SPECIFICATION FairSpec
CONSTANTS
    A = A
    B = B
    u1 = u1
    c1 = c1
    c2 = c2
    x = x
    None = None
    Instances = {A, B}
    Initial = {A}
    InitialAt <- NoSockets
    Users = {u1}
    Channels = {x}
    Connections = {c1}
    Owner <- OneUser
    Limit <- JoinFailure
    Syncing = {A, B}
    MaxInbox = 1
INVARIANTS
    TypeOK
    SessionIsBacked
PROPERTIES
    Convergence

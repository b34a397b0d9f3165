SPECIFICATION FairSpec
CONSTANTS
    A = A
    B = B
    m1 = m1
    m2 = m2
    t1 = t1
    x = x
    y = y
    None = None
    Instances = {A, B}
    Moves = {m1, m2}
    Tabs = {t1}
    Channels = {x, y}
    ActorAt <- ModeratorsOnA
    Destination <- OneToEach
    TabAt <- TabsOnB
    Limit <- TwoJoinsClose
    MaxInbox = 2
INVARIANTS
    TypeOK
    AnsweredIsClearing
PROPERTIES
    EveryMoveIsAnswered
    PendingEnds
CHECK_DEADLOCK FALSE

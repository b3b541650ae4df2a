SPECIFICATION FairSpec
CONSTANTS
    Threads = {t1, t2, t3}
    Conns = {c1}
    MaxRetries = 1
    NoThread = NoThread
    NoConn = NoConn
INVARIANTS
    TypeOK
    Exclusive
    NothingLost
    FrontDefined
    QuietAfterShutdown
    NoLostWakeup
PROPERTIES
    CallsEndAtShutdown
    IdleConnectionIsTaken
CHECK_DEADLOCK FALSE

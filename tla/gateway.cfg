SPECIFICATION FairSpec
CONSTANTS
    Threads = {t1, t2}
    Clients = {c1}
    HttpClients = {h1}
    Timeout = 1
    MaxInbox = 2
    NoClient = NoClient
INVARIANTS
    TypeOK
    HeartbeatWatches
    OneReader
    OrderlyRepliesIntact
    AcceptingUnlessPeerGone
PROPERTIES
    SilentIsClosed
    StoppedIsReleased
    HttpAnswered
CHECK_DEADLOCK FALSE

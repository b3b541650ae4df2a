SPECIFICATION Spec
CONSTANTS
    Threads = {t1, t2}
    Clients = {c1, c2}
    HttpClients = {}
    Timeout = 1
    MaxInbox = 1
    NoClient = NoClient
INVARIANT
    ExitsOnSignalOnly
CHECK_DEADLOCK FALSE

SPECIFICATION Spec
CONSTANTS
    Calls = {s1, s2}
    Msgs = {m1, m2}
    Users = {u1, u2}
    Conns = {c1, c2}
    MaxRetries = 1
    Limit = 1
    MaxCrashes = 1
    NoConn = NoConn
    NoMsg = NoMsg
    NoUser = NoUser
SYMMETRY Symmetry
INVARIANTS
    BodyBeforeIndex
    SavedIsOwn
    SeqOrder
    CopiesNeedFaults
    PullComplete
    PullSound
CHECK_DEADLOCK FALSE

SPECIFICATION Spec
CONSTANTS
    Calls = {s1, s2}
    Msgs = {m1, m2}
    Users = {u1}
    Conns = {c1}
    MaxRetries = 1
    Limit = 1
    MaxCrashes = 0
    NoConn = NoConn
    NoMsg = NoMsg
    NoUser = NoUser
INVARIANT
    FaultFreeSaveReturnsSeq
CHECK_DEADLOCK FALSE

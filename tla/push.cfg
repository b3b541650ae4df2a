SPECIFICATION FairSpec
CONSTANTS
    m1 = m1
    m2 = m2
    m3 = m3
    m4 = m4
    Msgs = {m1, m2, m3, m4}
    Shape <- MCShape
    Receiver <- MCReceiver
    Prefetch = 2
    MaxBreaks = 2
    MaxThrows = 1
    NoMsg = NoMsg
INVARIANTS
    NoneLost
    PushesDue
PROPERTIES
    Consumed
CHECK_DEADLOCK FALSE

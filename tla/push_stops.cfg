SPECIFICATION FairSpec
CONSTANTS
    m1 = m1
    m2 = m2
    m3 = m3
    m4 = m4
    Msgs = {m1, m2, m3, m4}
    Shape <- MCShape
    Receiver <- MCReceiver
    Prefetch = 2
    MaxBreaks = 1
    MaxThrows = 1
    NoMsg = NoMsg
PROPERTY
    ConsumptionGoesOn
CHECK_DEADLOCK FALSE

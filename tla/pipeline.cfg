SPECIFICATION FairSpec
CONSTANTS
    N = 2
    Session <- MCSession
    Sender <- MCSender
    Receiver <- MCReceiver
    GMax = 1
    LMax = 1
    Copies = 1
INVARIANTS
    TypeOK
PROPERTIES
    ImplementsDelivery
    RequestSettles
CHECK_DEADLOCK FALSE

\* Two groups, one of which may be joined twice.
CONSTANTS
    Group = {1, 2}
    PortOf <- Ports
    Descriptor = {1, 2, 3}
    Messages = 2
    kMaxRetries = 3
    MaxReads = 1
SPECIFICATION FairSpec
INVARIANTS TypeOK NoLeak InTime
PROPERTY ReceiverServes
CHECK_DEADLOCK FALSE

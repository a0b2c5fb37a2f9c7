SPECIFICATION FairSpec
CONSTANTS
    Child = {c1}
    PulseInterval = 5
    HeartbeatTimeout = 30
    ReceiveTimeout = 1
    MaxDelay = 5
    MaxBusy = 1
    MaxLost = 1
    MaxOther = 1
INVARIANTS
    TypeOK
    NoFalseDeath
    BuriedOnce
    BuriedForGood
PROPERTY
    EventuallyNoticed
CHECK_DEADLOCK TRUE

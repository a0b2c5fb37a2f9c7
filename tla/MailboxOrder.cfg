\* One process sends to another over an unreliable network, several messages in
\* flight, some of which read "ack", and either may be restarted: what arrives is in
\* order.
CONSTANTS
    Node <- Pair
    Group <- G
    Member = {}
    Route <- OneWay
    Text <- AnyText
    Restartable <- Pair
    kMaxRetries = 2
    StopAndWait = FALSE
    MaxSends = 3
    MaxRestarts = 1
SPECIFICATION Spec
INVARIANTS TypeOK AtMostOnceInOrder
PROPERTY ImplementsOrderedDelivery
CHECK_DEADLOCK FALSE

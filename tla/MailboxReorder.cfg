\* Two messages to one destination in flight at the same time.
CONSTANTS
    Node <- Pair
    Group <- G
    Member = {}
    Route <- OneWay
    Text = {"message"}
    Restartable = {}
    kMaxRetries = 5
    StopAndWait = FALSE
    MaxSends = 2
    MaxRestarts = 0
SPECIFICATION Spec
PROPERTY DropsOnlyDuplicates
CHECK_DEADLOCK FALSE

\* Applications that wait for an acknowledgement before they send again to the
\* same address, on distinguishable addresses, without restarts.
CONSTANTS
    Node <- Pair
    Group <- G
    Member <- Receivers
    Route <- WithMulticast
    Text = {"message"}
    Restartable = {}
    kMaxRetries = 2
    StopAndWait = TRUE
    MaxSends = 3
    MaxRestarts = 0
SPECIFICATION FairSpec
PROPERTIES NoSilentLoss EventuallyFlushed
CHECK_DEADLOCK FALSE

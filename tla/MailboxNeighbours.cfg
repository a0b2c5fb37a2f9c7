\* One message to each of two processes of one host.
CONSTANTS
    Node <- Neighbours
    Group <- G
    Member = {}
    Route <- ToNeighbours
    Text = {"message"}
    Restartable = {}
    kMaxRetries = 5
    StopAndWait = TRUE
    MaxSends = 2
    MaxRestarts = 0
SPECIFICATION Spec
PROPERTY NoSilentLoss
CHECK_DEADLOCK FALSE

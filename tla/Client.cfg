\* A client that starts a machine and another one that stops it, lists the
\* machines or talks to it.
CONSTANTS
    Client = {"c1", "c2"}
    Commands <- CalledWith
    kMaxRetries = 2
    Machine = {"m1", "m2"}
    Endpoint <- Addresses
SPECIFICATION FairSpec
INVARIANTS TypeOK StartsOne  FollowsToTheEnd
PROPERTIES CommandsEnd FollowersEnd
CHECK_DEADLOCK FALSE

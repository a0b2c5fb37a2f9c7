\* The busy beaver on several tapes, requests at any time.
CONSTANTS
    Program <- BusyBeaver
    Blank = 48
    Requester = {"r1", "r2"}
    Input <- Tapes
    MaxRequests = 2
    MaxCells = 9
SPECIFICATION FairSpec
INVARIANTS TypeOK HandlesSymbolUnderHead
PROPERTIES ImplementsTuringMachine EventuallyAnswered
CHECK_DEADLOCK FALSE

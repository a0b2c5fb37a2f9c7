\* Two processes on two ports, one of which spawns: restarts, reordered and
\* given up messages, crashes.
CONSTANTS
    Port = {42001, 42002}
    Spawner = {1}
    MaxProcesses = 2
SPECIFICATION FairSpec
INVARIANTS TypeOK NoGhost SignalsAreHandled ListsRegistered
PROPERTIES SignalledEnds GhostsVanish
CHECK_DEADLOCK FALSE

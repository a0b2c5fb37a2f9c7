\* Transitions from receivers and from the on_enter of the state that is
\* transitioned to, two supervised children, two scheduled messages.
CONSTANTS
    State <- States
    Root = ""
    ParentOf <- Tree
    Initial = "warm"
    Child = {"c1", "c2"}
    Receives <- Receivers
    AnyType = "*"
    Callers = {"receiver", "on_enter"}
    MaxTransitions = 2
    MaxScheduled = 2
SPECIFICATION FairSpec
INVARIANTS TypeOK ActionsMatch SettledInLineage ParentToldTruly
PROPERTIES EventuallyDone ScheduledSent
CHECK_DEADLOCK FALSE

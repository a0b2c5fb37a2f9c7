\* A transition from the on_enter of an ancestor of the state that is
\* transitioned to.
CONSTANTS
    State <- States
    Root = ""
    ParentOf <- Tree
    Initial = "warm"
    Child = {"c1"}
    Receives <- Receivers
    AnyType = "*"
    Callers = {"receiver", "on_enter_ancestor"}
    MaxTransitions = 1
    MaxScheduled = 0
SPECIFICATION Spec
INVARIANT ActionsMatch
CHECK_DEADLOCK FALSE

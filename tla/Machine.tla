------------------------------- MODULE Machine -------------------------------
(***************************************************************************)
(* The life of one state machine (src/machine.cpp): Start with its main    *)
(* loop, Transition over the hierarchy of states, the dispatch of messages *)
(* to receivers, the supervision of spawned children, and the way out.     *)
(*                                                                         *)
(* on_enter, on_exit and receivers are application code that may call back *)
(* into the machine; a call of Transition from a callback runs inside the  *)
(* Transition that invoked the callback, so the pending calls are a stack. *)
(* A callback makes at most one call: Transition, SendAt, Exit or Error.   *)
(***************************************************************************)
EXTENDS Integers, FiniteSets, SequencesExt

CONSTANTS
    State,          \* the names given to AddState
    Root,           \* the empty name: parent of the states without a parent
    ParentOf,       \* ParentOf[s]: State::parent_
    Initial,        \* the state passed to Start
    Child,          \* addresses lifecycle messages come from
    Receives,       \* Receives[s]: the message types s has a receiver for
    AnyType,        \* the type of the receiver named ""
    Callers,        \* the callbacks that may call Transition:
                    \* "receiver", "on_exit", "on_enter" of the state that is
                    \* being transitioned to, "on_enter_ancestor" of another
    MaxTransitions, \* bound: calls of Transition by callbacks
    MaxScheduled    \* bound: calls of SendAt by callbacks

LifecycleType == {"started", "pulsed", "errored", "exited"}
Type == LifecycleType \cup {"exit", "message"}
Callback == {"receiver", "on_exit", "on_enter", "on_enter_ancestor"}

ASSUME MachineAssumption ==
    /\ Root \notin State
    /\ ParentOf \in [State -> State \cup {Root}]
    /\ Initial \in State
    /\ Receives \in [State -> SUBSET (Type \cup {AnyType})]
    /\ Callers \subseteq Callback
    /\ MaxTransitions \in Nat /\ MaxScheduled \in Nat

(* The states are a hierarchy: the way up from a state ends.                *)
ASSUME HierarchyAssumption ==
    /\ IsFiniteSet(State)
    /\ \E depth \in [State \cup {Root} -> 0..Cardinality(State)] :
         \A s \in State : depth[ParentOf[s]] < depth[s]

VARIABLES
    pc,             \* where Start is
    current,        \* current_
    stack,          \* the calls of Transition in progress, innermost first
    entered,        \* states entered and not exited (history)
    running,        \* running_
    got_sigterm,    \* set by the signal handler
    errored,        \* error_message_ is not empty
    spawned,        \* the keys of spawned_
    dead,           \* CheckChildren: the messages it has still to handle
    leaving,        \* Start: the states it has still to exit at the end
    told,           \* the lifecycle messages sent to parent_, a run of
                    \* "pulsed" kept as one
    calls,          \* calls of Transition by callbacks (bounded)
    queue,          \* queue_: the scheduled messages, numbered as SendAt was called
    due,            \* those of them whose time has come
    scheduled,      \* calls of SendAt by callbacks (bounded)
    sent            \* the scheduled messages that were sent

loopVars == <<pc, spawned, dead, leaving, told>>
lifeVars == <<running, errored>>
callVars == <<calls, queue, due, scheduled, sent>>
vars == <<current, stack, entered, got_sigterm, callVars, loopVars, lifeVars>>

-----------------------------------------------------------------------------
(* StateLineage: from a state up to its root.                               *)
StateLineage[s \in State \cup {Root}] ==
    IF s = Root THEN <<>> ELSE <<s>> \o StateLineage[ParentOf[s]]

Lineage(s) == Reverse(StateLineage[s])

(* PruneLineage: what is left of lineage a, root first, without the         *)
(* ancestors it shares with b.                                              *)
PruneLineage(a, b) ==
    SubSeq(a, Len(LongestCommonPrefix({a, b})) + 1, Len(a))

(* Mutant: the lineage is not reversed back after it was pruned.            *)
ExitsOutermostFirst(from, to) ==
    IF from = to THEN <<from>> ELSE PruneLineage(Lineage(from), Lineage(to))

(* The states Transition exits, innermost first, and those it enters,       *)
(* outermost first.  A transition to the current state exits and enters it. *)
Exits(from, to) ==
    IF from = to THEN <<from>> ELSE Reverse(PruneLineage(Lineage(from), Lineage(to)))
Enters(from, to) ==
    IF from = to THEN <<to>> ELSE PruneLineage(Lineage(to), Lineage(from))

Call(from, to) ==
    [target |-> to, exits |-> Exits(from, to), enters |-> Enters(from, to),
     settled |-> FALSE]

Init ==
    /\ pc = "new"
    /\ current = Root
    /\ stack = <<>>
    /\ entered = {}
    /\ running = TRUE
    /\ got_sigterm = FALSE
    /\ errored = FALSE
    /\ spawned = {}
    /\ dead = <<>>
    /\ leaving = <<>>
    /\ told = <<>>
    /\ calls = 0
    /\ queue = {} /\ due = {} /\ scheduled = 0 /\ sent = {}

-----------------------------------------------------------------------------
(* What a callback does to the machine before it returns: nothing, a call   *)
(* of Transition, of SendAt, of Exit or of Error.  `rest` is the stack with *)
(* the caller advanced past the callback, `live` is running_ when the       *)
(* callback starts.                                                         *)
Exit == running' = FALSE /\ UNCHANGED errored
Error == running' = FALSE /\ errored' = TRUE
SendAt == scheduled' = scheduled + 1 /\ queue' = queue \cup {scheduled'}

Effect(callback, rest, live) ==
    \/ /\ stack' = rest /\ running' = live
       /\ UNCHANGED <<callVars, errored>>
    \/ /\ callback \in Callers /\ calls < MaxTransitions
       /\ \E to \in State : stack' = <<Call(current, to)>> \o rest
       /\ calls' = calls + 1 /\ running' = live
       /\ UNCHANGED <<queue, due, scheduled, sent, errored>>
    \/ /\ scheduled < MaxScheduled
       /\ SendAt
       /\ stack' = rest /\ running' = live
       /\ UNCHANGED <<calls, due, sent, errored>>
    \/ /\ stack' = rest
       /\ Exit \/ Error
       /\ UNCHANGED callVars

-----------------------------------------------------------------------------
(* Transition, one callback at a time.                                      *)

Top == stack[1]
Advance(call) == <<call>> \o Tail(stack)

InvokeExit ==
    /\ stack # <<>> /\ Top.exits # <<>>
    /\ entered' = entered \ {Head(Top.exits)}
    /\ Effect("on_exit", Advance([Top EXCEPT !.exits = Tail(@)]), running)
    /\ UNCHANGED <<current, got_sigterm, loopVars>>

(* Mutant: only a transition that enters something changes current_.        *)
SetCurrentOnEntry ==
    /\ stack # <<>> /\ Top.exits = <<>> /\ ~Top.settled
    /\ current' = IF Top.enters = <<>> THEN current ELSE Top.target
    /\ stack' = Advance([Top EXCEPT !.settled = TRUE])
    /\ UNCHANGED <<entered, got_sigterm, callVars, loopVars, lifeVars>>

SetCurrent ==
    /\ stack # <<>> /\ Top.exits = <<>> /\ ~Top.settled
    /\ current' = Top.target
    /\ stack' = Advance([Top EXCEPT !.settled = TRUE])
    /\ UNCHANGED <<entered, got_sigterm, callVars, loopVars, lifeVars>>

InvokeEnter ==
    /\ stack # <<>> /\ Top.settled /\ Top.enters # <<>>
    /\ entered' = entered \cup {Head(Top.enters)}
    /\ Effect(IF Len(Top.enters) = 1 THEN "on_enter" ELSE "on_enter_ancestor",
              Advance([Top EXCEPT !.enters = Tail(@)]), running)
    /\ UNCHANGED <<current, got_sigterm, loopVars>>

Return ==
    /\ stack # <<>> /\ Top.settled /\ Top.enters = <<>>
    /\ stack' = Tail(stack)
    /\ UNCHANGED <<current, entered, got_sigterm, callVars, loopVars, lifeVars>>

Transition == InvokeExit \/ SetCurrent \/ InvokeEnter \/ Return

-----------------------------------------------------------------------------
(* HandleMessage.                                                           *)

(* Supervision: what a message of type t from c does to spawned_.           *)
Supervise(t, c) ==
    spawned' = CASE t = "started" -> spawned \cup {c}
                 [] t = "exited" -> spawned \ {c}
                 [] OTHER -> spawned

(* Some state of the hierarchy, the current one first, has a receiver for   *)
(* the type, or the one that takes any.                                     *)
Handled(t) ==
    \E s \in ToSet(StateLineage[current]) : Receives[s] \cap {t, AnyType} # {}

(* A message of type t from c: its receiver runs, and if there is none that *)
(* is an error, except for "exit".                                          *)
HandleMessage(t, c) ==
    /\ Supervise(t, c)
    /\ IF Handled(t)
         THEN Effect("receiver", stack, running /\ t # "exit")
         ELSE /\ IF t = "exit" THEN Exit ELSE Error
              /\ UNCHANGED <<stack, callVars>>

-----------------------------------------------------------------------------
(* Start: its main loop and the way in and out.  While a Transition is in   *)
(* progress (stack # <<>>) Start waits for it.                              *)

Start ==
    /\ pc = "new"
    /\ pc' = "loop"
    /\ told' = Append(told, "started")
    /\ stack' = <<Call(current, Initial)>>
    /\ UNCHANGED <<current, entered, got_sigterm, callVars, spawned, dead, leaving,
                   lifeVars>>

(* Mutant: the signal is not looked at.                                     *)
ContinuesAfterSignal == running

Continues == running /\ ~got_sigterm

(* An iteration begins with CheckChildren, which collects the children      *)
(* whose last heartbeat is too old (how old each is, is left open): for     *)
(* each of them, in some order, "errored" and then "exited" is made up.     *)
Lost(children) ==
    [i \in 1..(2 * Len(children)) |->
        [type |-> IF i % 2 = 1 THEN "errored" ELSE "exited",
         child |-> children[(i + 1) \div 2]]]

CheckChildren ==
    /\ pc = "loop" /\ stack = <<>> /\ Continues
    /\ \E overdue \in SUBSET spawned :
         \E children \in SetToSeqs(overdue) : dead' = Lost(children)
    /\ pc' = "check"
    /\ UNCHANGED <<current, stack, entered, got_sigterm, callVars, spawned, leaving,
                   told, lifeVars>>

(* The child is still in spawned_: only its own "exited" removes it.        *)
(* running_ is not looked at between the messages.                          *)
HandleLost ==
    /\ pc = "check" /\ stack = <<>> /\ dead # <<>>
    /\ HandleMessage(Head(dead).type, Head(dead).child)
    /\ dead' = Tail(dead)
    /\ UNCHANGED <<pc, current, entered, got_sigterm, leaving, told>>

(* Mutant: the loop goes on after the first message of CheckChildren.       *)
PulseEarly ==
    /\ pc = "check" /\ stack = <<>>
    /\ pc' = "send"
    /\ UNCHANGED <<current, stack, entered, got_sigterm, callVars, spawned, dead,
                   leaving, told, lifeVars>>

(* SendPulse, when it is time.                                              *)
Pulse ==
    /\ pc = "check" /\ stack = <<>> /\ dead = <<>>
    /\ told' \in {told, IF Last(told) = "pulsed" THEN told ELSE Append(told, "pulsed")}
    /\ pc' = "send"
    /\ UNCHANGED <<current, stack, entered, got_sigterm, callVars, spawned, dead,
                   leaving, lifeVars>>

(* Mutant: the queue is swapped and what is not due is not put back.        *)
SendScheduledOnce ==
    /\ pc = "send"
    /\ pc' = "receive"
    /\ sent' = sent \cup due
    /\ queue' = {} /\ due' = {}
    /\ UNCHANGED <<current, stack, entered, got_sigterm, calls, scheduled, spawned, dead,
                   leaving, told, lifeVars>>

(* SendScheduled: what is due is sent, the rest stays in the queue.         *)
SendScheduled ==
    /\ pc = "send"
    /\ pc' = "receive"
    /\ sent' = sent \cup due
    /\ queue' = queue \ due /\ due' = {}
    /\ UNCHANGED <<current, stack, entered, got_sigterm, calls, scheduled, spawned, dead,
                   leaving, told, lifeVars>>

(* ReceiveMessage times out, or has a message from a child or anybody else. *)
ReceiveNothing ==
    /\ pc = "receive"
    /\ pc' = "loop"
    /\ UNCHANGED <<current, stack, entered, got_sigterm, callVars, spawned, dead,
                   leaving, told, lifeVars>>

ReceiveMessage ==
    /\ pc = "receive"
    /\ pc' = "loop"
    /\ \E t \in Type, c \in Child : HandleMessage(t, c)
    /\ UNCHANGED <<current, entered, got_sigterm, dead, leaving, told>>

(* The signal may come at any time.                                         *)
SignalHandler ==
    /\ pc # "done" /\ ~got_sigterm
    /\ got_sigterm' = TRUE
    /\ UNCHANGED <<current, stack, entered, callVars, loopVars, lifeVars>>

(* Mutant: only the current state is exited at the end.                     *)
LeaveLeaf ==
    /\ pc = "loop" /\ stack = <<>> /\ ~Continues
    /\ pc' = "final"
    /\ leaving' = <<current>>
    /\ UNCHANGED <<current, stack, entered, got_sigterm, callVars, spawned, dead,
                   told, lifeVars>>

Leave ==
    /\ pc = "loop" /\ stack = <<>> /\ ~Continues
    /\ pc' = "final"
    /\ leaving' = StateLineage[current]
    /\ UNCHANGED <<current, stack, entered, got_sigterm, callVars, spawned, dead,
                   told, lifeVars>>

FinalExit ==
    /\ pc = "final" /\ stack = <<>> /\ leaving # <<>>
    /\ entered' = entered \ {Head(leaving)}
    /\ leaving' = Tail(leaving)
    /\ Effect("on_exit", stack, running)
    /\ UNCHANGED <<pc, current, got_sigterm, spawned, dead, told>>

Finish ==
    /\ pc = "final" /\ stack = <<>> /\ leaving = <<>>
    /\ pc' = "done"
    /\ told' = told \o (IF errored THEN <<"errored", "exited">> ELSE <<"exited">>)
    /\ UNCHANGED <<current, stack, entered, got_sigterm, callVars, spawned, dead,
                   leaving, lifeVars>>

(* The time of a scheduled message comes.                                   *)
Elapse ==
    /\ \E m \in queue \ due : due' = due \cup {m}
    /\ UNCHANGED <<current, stack, entered, got_sigterm, calls, queue, scheduled, sent, loopVars,
                   lifeVars>>

Thread ==
    \/ Transition
    \/ Start \/ CheckChildren \/ HandleLost \/ Pulse \/ SendScheduled
    \/ ReceiveNothing \/ ReceiveMessage
    \/ Leave \/ FinalExit \/ Finish

Next == Thread \/ SignalHandler \/ Elapse

(* The thread runs, its callbacks return, and time passes.                  *)
Spec == Init /\ [][Next]_vars
FairSpec == Spec /\ WF_vars(Thread) /\ WF_vars(Elapse)

-----------------------------------------------------------------------------
(* Properties.                                                              *)

(* Types; the messages of CheckChildren and the exits of Start are worked   *)
(* off before the loop goes on, and a message that SendScheduled sent is    *)
(* not in the queue any more.                                               *)
TypeOK ==
    /\ pc \in {"new", "loop", "check", "send", "receive", "final", "done"}
    /\ current \in State \cup {Root}
    /\ stack \in Seq([target : State, exits : Seq(State), enters : Seq(State),
                      settled : BOOLEAN])
    /\ entered \subseteq State
    /\ running \in BOOLEAN /\ got_sigterm \in BOOLEAN /\ errored \in BOOLEAN
    /\ spawned \subseteq Child
    /\ dead \in Seq([type : LifecycleType, child : Child])
    /\ leaving \in Seq(State)
    /\ told \in Seq(LifecycleType)
    /\ calls \in 0..MaxTransitions
    /\ scheduled \in 0..MaxScheduled
    /\ due \subseteq queue /\ queue \subseteq 1..scheduled
    /\ sent \subseteq (1..scheduled) \ queue
    /\ dead # <<>> => pc = "check"
    /\ leaving # <<>> => pc = "final"
    /\ stack # <<>> => pc \notin {"new", "done"}

(* s is entered and none of the states below it is.                         *)
Innermost(s) == s \in entered /\ \A e \in entered : ParentOf[e] # s

(* "An action is triggered when a state is entered or exited" (README.md):  *)
(* an on_exit belongs to the innermost state that is entered, an on_enter   *)
(* to a state that is not, below one that is.                               *)
ActionsMatch ==
    /\ \A call \in ToSet(stack) :
         call = Top =>
           /\ call.exits # <<>> => Innermost(Head(call.exits))
           /\ call.exits = <<>> /\ call.enters # <<>> =>
                LET s == Head(call.enters)
                IN  /\ s \notin entered
                    /\ ParentOf[s] \in entered \cup {Root}
    /\ stack = <<>> /\ leaving # <<>> => Innermost(Head(leaving))

(* Whenever the machine looks at a message, exactly the current state and   *)
(* its ancestors are entered, however the callbacks nested their calls.     *)
SettledInLineage ==
    pc \in {"loop", "check", "send", "receive"} /\ stack = <<>> =>
        entered = ToSet(StateLineage[current])

(* What the parent is told is true: "exited" when every state was exited,   *)
(* and "errored" before it exactly when a callback or an unhandled message  *)
(* raised an error, be it while the machine was leaving.                    *)
ParentToldTruly ==
    "exited" \in ToSet(told) =>
        /\ entered = {} /\ stack = <<>>
        /\ errored <=> told[Len(told) - 1] = "errored"

(* Exit, Error, an "exit" message and SIGTERM end the machine.              *)
EventuallyDone == ~running \/ got_sigterm ~> pc = "done"

(* SendAt's promise: a message that a callback scheduled is sent when its   *)
(* time has come, whatever else is queued, unless the machine ends before.  *)
ScheduledSent ==
    \A k \in 1..MaxScheduled : scheduled >= k ~> k \in sent \/ pc = "done"
=============================================================================

------------------------------- MODULE Turing -------------------------------
(***************************************************************************)
(* The universal Turing machine (samples/turing), a machine that drives    *)
(* itself: entering a state, it sends the symbol under the head to its own *)
(* address, and the receiver for that message writes, moves and goes to    *)
(* the next state.  Requests arrive in the same mailbox.                   *)
(*                                                                         *)
(* Characters are their codes, so that std::map's order is the order of    *)
(* numbers; a message is the sequence of its characters.  Every state is a *)
(* root of the hierarchy and its actions on exit only log, so a Transition *)
(* is what the entered state's action does.                                *)
(***************************************************************************)
EXTENDS Integers, SequencesExt

CONSTANTS
    Program,        \* the quintuples, in the order of the argument
    Blank,
    Requester,      \* the addresses of others
    Input,          \* the tapes they send
    MaxRequests,    \* bound: requests
    MaxCells        \* bound: cells of the tape, far above what a
                    \* computation on one of the inputs needs

Self == "self"      \* the machine's own address
Halt == 72          \* "H"
Initial == 0        \* "Initial", which no character names
Off == -1

Quintuple == ToSet(Program)
States == {q.state : q \in Quintuple}

ASSUME TuringAssumption ==
    /\ Program \in Seq([state : Nat, read : Nat, write : Nat, next : Nat,
                        move : {"L", "R", "N"}])
    /\ Program # <<>>
    /\ {Initial, Halt} \cap States = {}
    /\ Blank \in Nat
    /\ \A input \in Input : input \in Seq(Nat) /\ Len(input) \in 1..MaxCells
    /\ Self \notin Requester
    /\ MaxRequests \in Nat /\ MaxCells \in Nat

VARIABLES
    status,         \* "running", "ended", or "crashed" by an exception
    current,        \* current_
    cells, pos,     \* the tape; pos_ as an index from 1
    requester,
    self,           \* messages of the machine to itself on their way
    incoming,       \* incoming_messages_
    answer,         \* the last message sent to another address (history)
    requests,       \* requests sent so far (bounded)
    lost,           \* a message of the machine to itself was given up (history)
    disturbed       \* a request was handled during a computation (history)

tapeVars == <<cells, pos>>
historyVars == <<requests, lost, disturbed>>
vars == <<status, current, tapeVars, requester, self, incoming, answer, historyVars>>

Init ==
    /\ status = "running"
    /\ current = Initial
    /\ cells = <<>> /\ pos = 1
    /\ requester = Self
    /\ self = <<>> /\ incoming = <<>>
    /\ answer = <<>>
    /\ requests = 0 /\ lost = FALSE /\ disturbed = FALSE

-----------------------------------------------------------------------------
(* The tape.                                                                *)

(* Move: an end of the tape that is left grows by a blank.                  *)
Move(tape, move) ==
    CASE move = "L" /\ tape.pos = 1 -> [tape EXCEPT !.cells = <<Blank>> \o @]
      [] move = "L" /\ tape.pos > 1 -> [tape EXCEPT !.pos = @ - 1]
      [] move = "R" /\ tape.pos = Len(tape.cells) ->
           [cells |-> Append(tape.cells, Blank), pos |-> tape.pos + 1]
      [] move = "R" /\ tape.pos < Len(tape.cells) -> [tape EXCEPT !.pos = @ + 1]
      [] OTHER -> tape

(* Mutant: the cells are not cleared.                                       *)
AssignAppended(text) == [cells |-> cells \o text, pos |-> 1]

Assign(text) == [cells |-> text, pos |-> 1]

Write(tape, symbol) == [tape EXCEPT !.cells[tape.pos] = symbol]

SetTape(tape) == cells' = tape.cells /\ pos' = tape.pos

-----------------------------------------------------------------------------
(* The machine's table.                                                     *)

(* The quintuples for a state and a symbol.                                 *)
Matches(state, read) ==
    {i \in DOMAIN Program : Program[i].state = state /\ Program[i].read = read}

(* Mutant: a later quintuple replaces an earlier one.                       *)
RuleReplaced(state, read) == Program[Max(Matches(state, read))]

(* emplace keeps the first.                                                 *)
Rule(state, read) == Program[Min(Matches(state, read))]

(* Mutant: what samples/turing/README.md says, "the current state of the    *)
(* first quintuple".                                                        *)
FirstListed == Program[1].state

(* The first state in the order of the map, whichever quintuple comes first.*)
FirstState == Min(States)

Send(to, text) ==
    IF to = Self
      THEN self' = Append(self, text) /\ UNCHANGED answer
      ELSE answer' = <<to, text>> /\ UNCHANGED self

(* "H": the tape is answered, and the machine goes on to "Initial".         *)
EnterHalt(tape) ==
    /\ current' = Initial
    /\ Send(requester', tape.cells)
    /\ UNCHANGED status

(* Mutant: the symbol is the one of the first cell.                         *)
EnterStateFront(state, tape) ==
    /\ current' = state
    /\ Send(Self, <<tape.cells[1]>>)
    /\ UNCHANGED status

(* A state of the table: the symbol under the head is sent.                 *)
EnterState(state, tape) ==
    /\ current' = state
    /\ Send(Self, <<tape.cells[tape.pos]>>)
    /\ UNCHANGED status

(* The lineage of a state that was not added throws.                        *)
EnterUnknown == status' = "crashed" /\ UNCHANGED <<current, self, answer>>

Transition(state, tape) ==
    \/ state = Halt /\ EnterHalt(tape)
    \/ state \in States /\ EnterState(state, tape)
    \/ state \notin States \cup {Halt} /\ EnterUnknown

-----------------------------------------------------------------------------
(* HandleMessage, by state.                                                 *)

(* "Initial" takes any message for a request.                               *)
AcceptRequest(m) ==
    /\ current = Initial
    /\ requester' = m.from
    /\ SetTape(Assign(m.text))
    /\ Transition(FirstState, Assign(m.text))

(* A state has a receiver for each symbol it has a quintuple for, whoever   *)
(* sends it.                                                                *)
Compute(m) ==
    /\ current \in States /\ Len(m.text) = 1
    /\ Matches(current, m.text[1]) # {}
    /\ LET q == Rule(current, m.text[1])
           tape == Move(Write([cells |-> cells, pos |-> pos], q.write), q.move)
       IN  /\ Len(tape.cells) <= MaxCells
           /\ UNCHANGED requester
           /\ SetTape(tape)
           /\ Transition(q.next, tape)

(* Any other message is an error, and the machine ends.                     *)
Reject(m) ==
    /\ current \in States
    /\ Len(m.text) # 1 \/ Matches(current, m.text[1]) = {}
    /\ status' = "ended"
    /\ UNCHANGED <<current, tapeVars, requester, self, answer>>

ReceiveMessage ==
    /\ status = "running" /\ incoming # <<>>
    /\ LET m == Head(incoming)
       IN  /\ AcceptRequest(m) \/ Compute(m) \/ Reject(m)
           /\ disturbed' = (disturbed \/ (current # Initial /\ m.from # Self))
    /\ incoming' = Tail(incoming)
    /\ UNCHANGED <<requests, lost>>

(* An "exit" message or SIGTERM.                                            *)
Stop ==
    /\ status = "running"
    /\ status' = "ended"
    /\ UNCHANGED <<current, tapeVars, requester, self, incoming, answer, historyVars>>

-----------------------------------------------------------------------------
(* The mailboxes.                                                           *)

Request(r, input) ==
    /\ requests < MaxRequests
    /\ requests' = requests + 1
    /\ incoming' = Append(incoming, [from |-> r, text |-> input])
    /\ UNCHANGED <<status, current, tapeVars, requester, self, answer, lost, disturbed>>

ArriveSelf ==
    /\ self # <<>>
    /\ incoming' = Append(incoming, [from |-> Self, text |-> Head(self)])
    /\ self' = Tail(self)
    /\ UNCHANGED <<status, current, tapeVars, requester, answer, historyVars>>

GiveUpSelf ==
    /\ self # <<>>
    /\ self' = Tail(self)
    /\ lost' = TRUE
    /\ UNCHANGED <<status, current, tapeVars, requester, incoming, answer, requests,
                   disturbed>>

Next ==
    \/ ReceiveMessage \/ Stop
    \/ \E r \in Requester, input \in Input : Request(r, input)
    \/ ArriveSelf \/ GiveUpSelf

(* The machine's loop runs, and its mailbox delivers or gives up.           *)
Spec == Init /\ [][Next]_vars
FairSpec == Spec /\ WF_vars(ReceiveMessage) /\ WF_vars(ArriveSelf \/ GiveUpSelf)

-----------------------------------------------------------------------------
(* Properties.                                                              *)

TypeOK ==
    /\ status \in {"running", "ended", "crashed"}
    /\ current \in States \cup {Initial}
    /\ cells \in Seq(Nat) /\ Len(cells) <= MaxCells
    /\ pos \in 1..(Len(cells) + 1)
    /\ cells # <<>> => pos <= Len(cells)
    /\ requester \in Requester \cup {Self}
    /\ self \in Seq(Seq(Nat))
    /\ incoming \in Seq([from : Requester \cup {Self}, text : Seq(Nat)])
    /\ requests \in 0..MaxRequests
    /\ lost \in BOOLEAN /\ disturbed \in BOOLEAN

(* As long as no request interferes with a computation, the symbol the      *)
(* machine is about to handle is the one under its head: what it sent       *)
(* itself is one message during a computation, none between computations.   *)
HandlesSymbolUnderHead ==
    status = "running" /\ ~disturbed /\ ~lost =>
      LET own == {i \in DOMAIN incoming : incoming[i].from = Self}
          symbol == <<cells[pos]>>
      IN  IF current = Initial
            THEN self = <<>> /\ own = {}
            ELSE \/ self = <<symbol>> /\ own = {}
                 \/ self = <<>> /\ \E i \in own : own = {i} /\ incoming[i].text = symbol

(* The tape the requester is sent is the one of the Turing machine with     *)
(* this table, started in the state with the smallest character on the tape *)
(* it sent: see TuringMachine.  A request that interferes is handled as a   *)
(* symbol, or ends the machine, and nothing is promised any more.           *)
On == status = "running" /\ ~disturbed
Computing == On /\ current # Initial
LastSymbol(s) == Max({0} \cup {i \in DOMAIN s : s[i] # Blank})
FirstSymbol(s) == Min({Len(s) + 1} \cup {i \in DOMAIN s : s[i] # Blank})

Computation == INSTANCE TuringMachine WITH
    Start <- Min(States), Idle <- Initial, Nobody <- Self,
    state <- IF On THEN current ELSE Off,
    left <- IF Computing THEN SubSeq(Reverse(cells), Len(cells) - pos + 2,
                                     Len(cells) - FirstSymbol(cells) + 1) ELSE <<>>,
    right <- IF Computing THEN SubSeq(cells, pos, LastSymbol(cells)) ELSE <<>>,
    requester <- IF On THEN requester ELSE Self,
    answer <- IF On /\ answer # <<>>
                THEN <<answer[1], SubSeq(answer[2], FirstSymbol(answer[2]),
                                         LastSymbol(answer[2]))>>
                ELSE <<>>
ImplementsTuringMachine == Computation!Spec

(* A request that was accepted is answered, unless the machine ends, a      *)
(* symbol is given up by the machine's own mailbox, or a request interferes.*)
EventuallyAnswered ==
    current # Initial /\ ~lost /\ ~disturbed ~>
        current = Initial \/ lost \/ disturbed \/ status # "running"
==============================================================================

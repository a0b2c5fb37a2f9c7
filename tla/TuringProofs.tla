---------------------------- MODULE TuringProofs ----------------------------
(***************************************************************************)
(* Proofs about Turing, for any table, any tapes and any requesters.       *)
(***************************************************************************)
EXTENDS Turing, WellFoundedInduction, TLAPS

Row == [state : Nat, read : Nat, write : Nat, next : Nat, move : {"L", "R", "N"}]

(* What a message carries, and what a tape holds.                           *)
Text == {t \in Seq(Nat) : Len(t) \in 1..MaxCells}
Mail == [from : Requester \cup {Self}, text : Text]
Tape == {t \in [cells : Text, pos : Nat] : t.pos \in 1..Len(t.cells)}

TapeTypes ==
    /\ \/ cells = <<>> /\ pos = 1 /\ current = Initial
       \/ [cells |-> cells, pos |-> pos] \in Tape
    /\ current \in States \cup {Initial}

MailTypes ==
    /\ status \in {"running", "ended", "crashed"}
    /\ requester \in Requester \cup {Self}
    /\ self \in Seq(Text)
    /\ incoming \in Seq(Mail)
    /\ requests \in 0..MaxRequests
    /\ lost \in BOOLEAN /\ disturbed \in BOOLEAN

Typed == TapeTypes /\ MailTypes

(* The messages of the machine to itself that arrived.                      *)
Own(mail) == {i \in DOMAIN mail : mail[i].from = Self}

(* What the machine sent itself, as long as nothing interferes; and the     *)
(* answer goes to somebody else.                                            *)
OneSymbol ==
    status = "running" /\ ~disturbed /\ ~lost =>
      /\ current = Initial => self = <<>> /\ Own(incoming) = {}
      /\ current # Initial =>
           /\ requester \in Requester
           /\ \/ self = <<<<cells[pos]>>>> /\ Own(incoming) = {}
              \/ self = <<>> /\ \E i \in Own(incoming) :
                                   Own(incoming) = {i} /\ incoming[i].text = <<cells[pos]>>

-----------------------------------------------------------------------------
LEMMA Constants ==
    /\ Program \in Seq(Row) /\ Program # <<>>
    /\ Initial \notin States /\ Halt \notin States /\ Initial # Halt
    /\ Blank \in Nat /\ MaxCells \in Nat /\ MaxRequests \in Nat
    /\ Input \subseteq Text
    /\ Self \notin Requester
BY TuringAssumption DEF Row, Text, Initial, Halt

(* Every nonempty set of natural numbers has a least element, and a bounded *)
(* one a greatest.                                                          *)
LEMMA Least ==
    ASSUME NEW T \in SUBSET Nat, T # {}
    PROVE  \E x \in T : \A y \in T : x <= y
<1>1. PICK x \in T : \A y \in T : <<y, x>> \notin OpToRel(<, Nat)
  BY WFMin, NatLessThanWellFounded
<1>2. \A y \in T : ~(y < x)
  BY <1>1 DEF OpToRel
<1> QED BY <1>2

LEMMA MinIs ==
    ASSUME NEW T \in SUBSET Nat, T # {}
    PROVE  Min(T) \in T /\ \A y \in T : Min(T) <= y
BY Least DEF Min

(* The rule for a state and a symbol is a quintuple for them.               *)
LEMMA RuleIs ==
    ASSUME NEW state, NEW read, Matches(state, read) # {}
    PROVE  /\ Rule(state, read) \in Quintuple /\ Rule(state, read) \in Row
           /\ Rule(state, read).state = state /\ Rule(state, read).read = read
<1>1. Matches(state, read) \in SUBSET Nat /\ Matches(state, read) \subseteq DOMAIN Program
  BY Constants DEF Matches
<1>2. Min(Matches(state, read)) \in Matches(state, read)
  BY <1>1, MinIs
<1> DEFINE i == Min(Matches(state, read))
<1>3. i \in DOMAIN Program /\ Program[i].state = state /\ Program[i].read = read
  BY <1>2 DEF Matches
<1> HIDE DEF i
<1>4. Program[i] \in Quintuple /\ Program[i] \in Row
  BY <1>3, Constants DEF Quintuple, ToSet
<1> QED
  BY <1>3, <1>4 DEF Rule, i

LEMMA StatesAre == States \in SUBSET Nat /\ FirstState \in States
<1>1. \A q \in Quintuple : q \in Row
  BY Constants DEF Quintuple, ToSet
<1>2. States \in SUBSET Nat
  BY <1>1 DEF States, Row
<1>3. 1 \in DOMAIN Program
  BY Constants
<1>4. Program[1] \in Quintuple
  BY <1>3 DEF Quintuple, ToSet
<1>5. States # {}
  BY <1>4 DEF States
<1> QED
  BY <1>2, <1>5, MinIs DEF FirstState

-----------------------------------------------------------------------------
(* The tape.                                                                *)

LEMMA AssignType ==
    ASSUME NEW text \in Text
    PROVE  Assign(text) \in Tape
BY DEF Assign, Text, Tape

LEMMA WriteType ==
    ASSUME NEW tape \in Tape, NEW symbol \in Nat
    PROVE  /\ Write(tape, symbol) \in Tape
           /\ Write(tape, symbol).pos = tape.pos
           /\ Write(tape, symbol).cells = [tape.cells EXCEPT ![tape.pos] = symbol]
           /\ Len(Write(tape, symbol).cells) = Len(tape.cells)
<1>1. tape.cells \in Seq(Nat) /\ Len(tape.cells) \in 1..MaxCells /\ tape.pos \in 1..Len(tape.cells)
      /\ tape.pos \in Nat
  BY DEF Tape, Text
<1> DEFINE c == [tape.cells EXCEPT ![tape.pos] = symbol]
<1>2. c \in Seq(Nat) /\ Len(c) = Len(tape.cells)
  BY <1>1
<1>3. c \in Text
  BY <1>1, <1>2 DEF Text
<1> HIDE DEF c
<1>4. Write(tape, symbol) = [cells |-> c, pos |-> tape.pos]
  BY DEF Write, Tape, c
<1>5. [cells |-> c, pos |-> tape.pos] \in Tape
  BY <1>1, <1>2, <1>3 DEF Tape
<1> QED
  BY <1>2, <1>4, <1>5 DEF c

(* What Move does at and away from the ends.                                *)
LEMMA MoveIs ==
    ASSUME NEW tape \in Tape, NEW move \in {"L", "R", "N"},
           Len(Move(tape, move).cells) <= MaxCells
    PROVE  Move(tape, move) \in Tape
<1>1. tape.cells \in Seq(Nat) /\ Len(tape.cells) \in 1..MaxCells /\ tape.pos \in 1..Len(tape.cells)
      /\ tape.pos \in Nat /\ tape = [cells |-> tape.cells, pos |-> tape.pos]
  BY DEF Tape, Text
<1> DEFINE c == tape.cells
           p == tape.pos
<1>2. \A d \in Seq(Nat) : \A q \in Nat :
        Len(d) <= MaxCells /\ q \in 1..Len(d) => [cells |-> d, pos |-> q] \in Tape
  BY Constants DEF Tape, Text
<1>3. CASE move = "L" /\ p = 1
  <2>1. Move(tape, move) = [cells |-> <<Blank>> \o c, pos |-> 1]
    <3>1. \A x : [tape EXCEPT !.cells = x] = [cells |-> x, pos |-> p]
      BY <1>1
    <3>2. Move(tape, move) = [tape EXCEPT !.cells = <<Blank>> \o c]
      BY <1>3 DEF Move
    <3> QED BY <1>3, <3>1, <3>2
  <2>2. <<Blank>> \o c \in Seq(Nat) /\ Len(<<Blank>> \o c) = Len(c) + 1
    BY <1>1, Constants
  <2>3. Len(Move(tape, move).cells) = Len(c) + 1
    BY <2>1, <2>2
  <2> DEFINE d == <<Blank>> \o c
  <2>4. d \in Seq(Nat) /\ Len(d) <= MaxCells /\ 1 \in 1..Len(d)
    BY <1>1, <2>1, <2>2, <2>3
  <2> HIDE DEF d
  <2>5. [cells |-> d, pos |-> 1] \in Tape
    BY <1>2, <2>4
  <2> QED BY <2>1, <2>5 DEF d
<1>4. CASE move = "L" /\ p # 1
  <2>1. Move(tape, move) = [cells |-> c, pos |-> p - 1]
    BY <1>1, <1>4 DEF Move
  <2> QED BY <1>1, <1>2, <1>4, <2>1
<1>5. CASE move = "R" /\ p = Len(c)
  <2>1. Move(tape, move) = [cells |-> Append(c, Blank), pos |-> p + 1]
    BY <1>1, <1>5 DEF Move
  <2>2. Append(c, Blank) \in Seq(Nat) /\ Len(Append(c, Blank)) = Len(c) + 1
    BY <1>1, Constants
  <2> QED BY <1>1, <1>2, <1>5, <2>1, <2>2
<1>6. CASE move = "R" /\ p # Len(c)
  <2>1. Move(tape, move) = [cells |-> c, pos |-> p + 1]
    BY <1>1, <1>6 DEF Move
  <2> QED BY <1>1, <1>2, <1>6, <2>1
<1>7. CASE move = "N"
  BY <1>7 DEF Move
<1> QED
  BY <1>3, <1>4, <1>5, <1>6, <1>7

-----------------------------------------------------------------------------
(* The steps.                                                               *)

TransitionTo(state, tape) ==
    \/ /\ state = Halt /\ current' = Initial /\ status' = status
       /\ requester' # Self => self' = self
       /\ requester' = Self => self' = Append(self, tape.cells)
    \/ /\ state \in States /\ current' = state /\ status' = status
       /\ self' = Append(self, <<tape.cells[tape.pos]>>)
    \/ state \notin States \cup {Halt} /\ status' = "crashed" /\ UNCHANGED <<current, self>>

LEMMA SymbolType ==
    ASSUME NEW tape \in Tape
    PROVE  <<tape.cells[tape.pos]>> \in Text /\ tape.cells \in Text
<1>1. tape.cells \in Seq(Nat) /\ tape.cells \in Text /\ tape.pos \in 1..Len(tape.cells)
      /\ Len(tape.cells) \in 1..MaxCells
  BY DEF Tape, Text
<1>2. tape.cells[tape.pos] \in Nat /\ 1 \in 1..MaxCells
  BY <1>1, Constants
<1>3. \A x \in Nat : <<x>> \in Seq(Nat) /\ Len(<<x>>) = 1
  OBVIOUS
<1> QED
  BY <1>1, <1>2, <1>3 DEF Text

LEMMA TransitionIs ==
    ASSUME NEW state, NEW tape \in Tape, Transition(state, tape), Typed
    PROVE  TransitionTo(state, tape) /\ self' \in Seq(Text)
           /\ current' \in States \cup {Initial}
<1>1. self \in Seq(Text) /\ current \in States \cup {Initial}
  BY DEF Typed, TapeTypes, MailTypes
<1>2. \A t \in Text : Append(self, t) \in Seq(Text)
  BY <1>1
<1>3. <<tape.cells[tape.pos]>> \in Text /\ tape.cells \in Text
  BY SymbolType
<1>4. CASE state = Halt /\ EnterHalt(tape)
  BY <1>1, <1>2, <1>3, <1>4 DEF EnterHalt, Send, TransitionTo
<1>5. CASE state \in States /\ EnterState(state, tape)
  BY <1>1, <1>2, <1>3, <1>5 DEF EnterState, Send, TransitionTo
<1>6. CASE state \notin States \cup {Halt} /\ EnterUnknown
  BY <1>1, <1>6 DEF EnterUnknown, TransitionTo
<1> QED
  BY <1>4, <1>5, <1>6 DEF Transition

LEMMA HeadMail ==
    ASSUME NEW mail \in Seq(Mail), mail # <<>>
    PROVE  /\ Head(mail) \in Mail /\ Tail(mail) \in Seq(Mail)
           /\ Head(mail).text \in Text /\ Head(mail).from \in Requester \cup {Self}
           /\ Head(mail).text # <<>> /\ Head(mail).text[1] \in Nat
<1>1. Head(mail) \in Mail /\ Tail(mail) \in Seq(Mail)
  OBVIOUS
<1>2. Head(mail).text \in Text /\ Head(mail).from \in Requester \cup {Self}
  BY <1>1 DEF Mail
<1>3. Head(mail).text \in Seq(Nat) /\ Len(Head(mail).text) \in 1..MaxCells
  BY <1>2 DEF Text
<1> QED
  BY <1>1, <1>2, <1>3, Constants

(* The tape a computation goes on with.                                     *)
Quadruple(m) == Rule(current, m.text[1])
TapeAfter(m) == Move(Write([cells |-> cells, pos |-> pos], Quadruple(m).write), Quadruple(m).move)

LEMMA ComputeIs ==
    ASSUME Typed, NEW m \in Mail, Compute(m)
    PROVE  /\ TapeAfter(m) \in Tape /\ SetTape(TapeAfter(m)) /\ requester' = requester
           /\ Transition(Quadruple(m).next, TapeAfter(m))
           /\ current \in States /\ Quadruple(m) \in Quintuple /\ Quadruple(m) \in Row
           /\ Quadruple(m).state = current /\ Quadruple(m).read = m.text[1]
<1>1. /\ current \in States /\ Matches(current, m.text[1]) # {}
      /\ Len(TapeAfter(m).cells) <= MaxCells
      /\ requester' = requester /\ SetTape(TapeAfter(m))
      /\ Transition(Quadruple(m).next, TapeAfter(m))
  BY DEF Compute, TapeAfter, Quadruple
<1>2. Quadruple(m) \in Quintuple /\ Quadruple(m) \in Row /\ Quadruple(m).state = current
      /\ Quadruple(m).read = m.text[1]
  BY <1>1, RuleIs DEF Quadruple
<1>3. [cells |-> cells, pos |-> pos] \in Tape
  BY <1>1, Constants DEF Typed, TapeTypes
<1>4. Quadruple(m).write \in Nat /\ Quadruple(m).move \in {"L", "R", "N"}
  BY <1>2 DEF Row
<1>5. Write([cells |-> cells, pos |-> pos], Quadruple(m).write) \in Tape
  BY <1>3, <1>4, WriteType
<1>6. TapeAfter(m) \in Tape
  BY <1>1, <1>4, <1>5, MoveIs DEF TapeAfter
<1> QED
  BY <1>1, <1>2, <1>6

LEMMA AcceptIs ==
    ASSUME Typed, NEW m \in Mail, AcceptRequest(m)
    PROVE  /\ Assign(m.text) \in Tape /\ SetTape(Assign(m.text)) /\ requester' = m.from
           /\ m.from \in Requester \cup {Self} /\ m.text \in Text
           /\ Transition(FirstState, Assign(m.text)) /\ current = Initial
BY AssignType DEF AcceptRequest, Mail

LEMMA SetTapeType ==
    ASSUME NEW tape \in Tape, SetTape(tape)
    PROVE  /\ [cells |-> cells', pos |-> pos'] \in Tape
           /\ [cells |-> cells', pos |-> pos'] = tape
           /\ cells' = tape.cells /\ pos' = tape.pos
BY DEF SetTape, Tape

LEMMA TypedInit == Init => Typed
<1> SUFFICES ASSUME Init PROVE Typed
  OBVIOUS
<1> USE DEF Init
<1>1. TapeTypes
  BY DEF TapeTypes
<1>2. self \in Seq(Text) /\ incoming \in Seq(Mail)
  OBVIOUS
<1>3. requests \in 0..MaxRequests /\ status = "running" /\ requester = Self
  BY Constants
<1>4. lost \in BOOLEAN /\ disturbed \in BOOLEAN
  OBVIOUS
<1>5. MailTypes
  BY <1>2, <1>3, <1>4 DEF MailTypes
<1> QED
  BY <1>1, <1>5 DEF Typed

LEMMA ReceiveTyped == Typed /\ ReceiveMessage => Typed'
<1> SUFFICES ASSUME Typed, ReceiveMessage PROVE Typed'
  OBVIOUS
<1> DEFINE m == Head(incoming)
<1>0. TapeTypes /\ MailTypes
  BY DEF Typed
<1>1. /\ incoming # <<>> /\ incoming \in Seq(Mail) /\ incoming' = Tail(incoming)
      /\ AcceptRequest(m) \/ Compute(m) \/ Reject(m)
      /\ disturbed' \in BOOLEAN /\ requests' = requests /\ lost' = lost
      /\ status = "running"
  BY <1>0 DEF ReceiveMessage, MailTypes
<1>2. m \in Mail /\ Tail(incoming) \in Seq(Mail)
  BY <1>1, HeadMail
<1> HIDE DEF m
<1>3. CASE AcceptRequest(m)
  <2>1. /\ Assign(m.text) \in Tape /\ SetTape(Assign(m.text)) /\ requester' = m.from
        /\ m.from \in Requester \cup {Self} /\ Transition(FirstState, Assign(m.text))
    BY <1>2, <1>3, AcceptIs
  <2>2. TransitionTo(FirstState, Assign(m.text)) /\ self' \in Seq(Text)
        /\ current' \in States \cup {Initial}
    BY <2>1, TransitionIs
  <2>3. [cells |-> cells', pos |-> pos'] \in Tape
    BY <2>1, SetTapeType
  <2>4. status' \in {"running", "crashed"}
    BY <1>1, <2>2 DEF TransitionTo
  <2>5. TapeTypes'
    BY <2>2, <2>3 DEF TapeTypes
  <2>6. MailTypes'
    BY <1>0, <1>1, <1>2, <2>1, <2>2, <2>4 DEF MailTypes
  <2> QED BY <2>5, <2>6 DEF Typed
<1>4. CASE Compute(m)
  <2>1. /\ TapeAfter(m) \in Tape /\ SetTape(TapeAfter(m)) /\ requester' = requester
        /\ Transition(Quadruple(m).next, TapeAfter(m))
    BY <1>2, <1>4, ComputeIs
  <2>2. TransitionTo(Quadruple(m).next, TapeAfter(m)) /\ self' \in Seq(Text)
        /\ current' \in States \cup {Initial}
    BY <2>1, TransitionIs
  <2>3. [cells |-> cells', pos |-> pos'] \in Tape
    BY <2>1, SetTapeType
  <2>4. status' \in {"running", "crashed"}
    BY <1>1, <2>2 DEF TransitionTo
  <2>5. TapeTypes'
    BY <2>2, <2>3 DEF TapeTypes
  <2>6. MailTypes'
    BY <1>0, <1>1, <1>2, <2>1, <2>2, <2>4 DEF MailTypes
  <2> QED BY <2>5, <2>6 DEF Typed
<1>5. CASE Reject(m)
  BY <1>0, <1>1, <1>2, <1>5 DEF Reject, Typed, TapeTypes, MailTypes, tapeVars
<1> QED
  BY <1>1, <1>3, <1>4, <1>5

LEMMA MailStep ==
    ASSUME Typed, NEW r \in Requester \cup {Self}, NEW text \in Text,
           incoming' = Append(incoming, [from |-> r, text |-> text])
    PROVE  incoming' \in Seq(Mail)
<1>1. [from |-> r, text |-> text] \in Mail
  BY DEF Mail
<1>2. \A m \in Mail : Append(incoming, m) \in Seq(Mail)
  BY DEF Typed, MailTypes
<1> QED
  BY <1>1, <1>2

LEMMA TypedNext == Typed /\ [Next]_vars => Typed'
<1> SUFFICES ASSUME Typed, [Next]_vars PROVE Typed'
  OBVIOUS
<1>0. TapeTypes /\ MailTypes
  BY DEF Typed
<1>1. CASE ReceiveMessage
  BY <1>1, ReceiveTyped
<1>2. CASE Stop
  BY <1>0, <1>2 DEF Stop, Typed, TapeTypes, MailTypes, tapeVars, historyVars
<1>3. CASE \E r \in Requester, input \in Input : Request(r, input)
  <2>1. PICK r \in Requester, input \in Input : Request(r, input)
    BY <1>3
  <2>2. input \in Text /\ incoming' = Append(incoming, [from |-> r, text |-> input])
    BY <2>1, Constants DEF Request
  <2>3. incoming' \in Seq(Mail)
    BY <2>2, MailStep
  <2>4. requests' \in 0..MaxRequests
    BY <1>0, <2>1, Constants DEF Request, MailTypes
  <2> QED
    BY <1>0, <2>1, <2>3, <2>4 DEF Request, Typed, TapeTypes, MailTypes, tapeVars
<1>4. CASE ArriveSelf
  <2>1. Head(self) \in Text /\ Tail(self) \in Seq(Text)
    BY <1>0, <1>4 DEF ArriveSelf, MailTypes
  <2>2. incoming' \in Seq(Mail)
    BY <1>4, <2>1, MailStep DEF ArriveSelf
  <2> QED
    BY <1>0, <1>4, <2>1, <2>2 DEF ArriveSelf, Typed, TapeTypes, MailTypes, tapeVars, historyVars
<1>5. CASE GiveUpSelf
  <2>1. Tail(self) \in Seq(Text)
    BY <1>0, <1>5 DEF GiveUpSelf, MailTypes
  <2> QED
    BY <1>0, <1>5, <2>1 DEF GiveUpSelf, Typed, TapeTypes, MailTypes, tapeVars
<1>6. CASE UNCHANGED vars
  BY <1>0, <1>6 DEF vars, Typed, TapeTypes, MailTypes, tapeVars, historyVars
<1> QED
  BY <1>1, <1>2, <1>3, <1>4, <1>5, <1>6 DEF Next

LEMMA TypedHolds == Spec => []Typed
BY TypedInit, TypedNext, PTL DEF Spec

LEMMA TypedImplies == Typed => TypeOK
<1> SUFFICES ASSUME Typed PROVE TypeOK
  OBVIOUS
<1>0. TapeTypes /\ MailTypes
  BY DEF Typed
<1>1. \A t \in Text : t \in Seq(Nat)
  BY DEF Text
<1>2. self \in Seq(Seq(Nat))
  BY <1>0, <1>1 DEF MailTypes
<1>3. \A m \in Mail : m \in [from : Requester \cup {Self}, text : Seq(Nat)]
  BY <1>1 DEF Mail
<1>4. incoming \in Seq([from : Requester \cup {Self}, text : Seq(Nat)])
  <2> DEFINE Letters == [from : Requester \cup {Self}, text : Seq(Nat)]
  <2>1. \A m \in Mail : m \in Letters
    BY <1>3
  <2> HIDE DEF Letters
  <2>2. incoming \in Seq(Letters)
    BY <1>0, <2>1 DEF MailTypes
  <2> QED BY <2>2 DEF Letters
<1>5. CASE cells = <<>> /\ pos = 1 /\ current = Initial
  <2>1. cells \in Seq(Nat) /\ Len(cells) <= MaxCells /\ pos \in 1..(Len(cells) + 1)
    BY <1>5, Constants
  <2> QED BY <1>0, <1>2, <1>4, <1>5, <2>1 DEF TypeOK, TapeTypes, MailTypes
<1>6. CASE [cells |-> cells, pos |-> pos] \in Tape
  <2>1. cells \in Seq(Nat) /\ Len(cells) \in 1..MaxCells /\ pos \in 1..Len(cells)
    BY <1>6 DEF Tape, Text
  <2>2. Len(cells) <= MaxCells /\ pos \in 1..(Len(cells) + 1) /\ pos <= Len(cells)
    BY <2>1, Constants
  <2> QED BY <1>0, <1>2, <1>4, <2>1, <2>2 DEF TypeOK, TapeTypes, MailTypes
<1> QED
  BY <1>0, <1>5, <1>6 DEF TapeTypes

(* The head stays on the tape, which grows before it is left.               *)
THEOREM TuringTypeOK == Spec => []TypeOK
BY TypedHolds, TypedImplies, PTL

-----------------------------------------------------------------------------
(* What the machine sends itself.                                           *)

LEMMA OwnTail ==
    ASSUME NEW mail \in Seq(Mail), mail # <<>>, Own(mail) \subseteq {1}
    PROVE  Own(Tail(mail)) = {}
<1>1. /\ DOMAIN Tail(mail) = 1..(Len(mail) - 1) /\ Len(mail) \in Nat /\ DOMAIN mail = 1..Len(mail)
      /\ \A i \in 1..(Len(mail) - 1) : Tail(mail)[i] = mail[i + 1]
  OBVIOUS
<1>2. ASSUME NEW i \in DOMAIN Tail(mail), Tail(mail)[i].from = Self PROVE FALSE
  <2>1. i + 1 \in DOMAIN mail /\ mail[i + 1].from = Self /\ i + 1 # 1
    BY <1>1, <1>2
  <2> QED BY <2>1 DEF Own
<1> QED
  BY <1>2 DEF Own

LEMMA OwnAppend ==
    ASSUME NEW mail \in Seq(Mail), NEW m
    PROVE  /\ Own(Append(mail, m)) = IF m.from = Self THEN Own(mail) \cup {Len(mail) + 1}
                                     ELSE Own(mail)
           /\ \A i \in Own(mail) : Append(mail, m)[i] = mail[i]
           /\ Append(mail, m)[Len(mail) + 1] = m
<1> DEFINE longer == Append(mail, m)
<1>1. /\ DOMAIN longer = 1..(Len(mail) + 1) /\ Len(mail) \in Nat /\ DOMAIN mail = 1..Len(mail)
      /\ longer[Len(mail) + 1] = m
      /\ \A i \in 1..Len(mail) : longer[i] = mail[i]
  OBVIOUS
<1> HIDE DEF longer
<1>2. DOMAIN longer = DOMAIN mail \cup {Len(mail) + 1}
  BY <1>1
<1>3. Own(longer) = IF m.from = Self THEN Own(mail) \cup {Len(mail) + 1} ELSE Own(mail)
  BY <1>1, <1>2 DEF Own
<1> QED
  BY <1>1, <1>3 DEF longer, Own

LEMMA SymbolInit == Init => OneSymbol
BY DEF Init, OneSymbol, Own

LEMMA ReceiveOneSymbol == Typed /\ OneSymbol /\ ReceiveMessage => OneSymbol'
<1> SUFFICES ASSUME Typed, OneSymbol, ReceiveMessage, status' = "running", ~disturbed', ~lost'
             PROVE  OneSymbol'
  BY DEF OneSymbol
<1> DEFINE m == Head(incoming)
<1>1. /\ incoming # <<>> /\ incoming \in Seq(Mail) /\ incoming' = Tail(incoming)
      /\ AcceptRequest(m) \/ Compute(m) \/ Reject(m)
      /\ status = "running" /\ ~disturbed /\ ~lost
      /\ current # Initial => m.from = Self
  BY DEF ReceiveMessage, Typed, MailTypes
<1>2. m \in Mail /\ m = incoming[1] /\ 1 \in DOMAIN incoming
  BY <1>1, HeadMail
<1>3. m.from = Self => 1 \in Own(incoming)
  BY <1>2 DEF Own
<1> HIDE DEF m
<1>4. CASE AcceptRequest(m)
  <2>1. /\ Assign(m.text) \in Tape /\ SetTape(Assign(m.text)) /\ requester' = m.from
        /\ m.from \in Requester \cup {Self} /\ Transition(FirstState, Assign(m.text))
        /\ current = Initial
    BY <1>2, <1>4, AcceptIs
  <2>2. TransitionTo(FirstState, Assign(m.text))
    BY <2>1, TransitionIs
  <2>3. FirstState \in States /\ FirstState # Halt
    BY StatesAre, Constants
  <2>4. current' \in States /\ self' = Append(self, <<cells'[pos']>>)
    BY <2>1, <2>2, <2>3, SetTapeType DEF TransitionTo
  <2>5. self = <<>> /\ Own(incoming) = {}
    BY <1>1, <2>1 DEF OneSymbol
  <2>6. self' = <<<<cells'[pos']>>>> /\ Own(incoming') = {} /\ requester' \in Requester
    BY <1>1, <1>3, <2>1, <2>4, <2>5, OwnTail
  <2> QED
    BY <2>4, <2>6, Constants DEF OneSymbol
<1>5. CASE Compute(m)
  <2>1. /\ TapeAfter(m) \in Tape /\ SetTape(TapeAfter(m)) /\ requester' = requester
        /\ Transition(Quadruple(m).next, TapeAfter(m)) /\ current \in States
    BY <1>2, <1>5, ComputeIs
  <2>2. TransitionTo(Quadruple(m).next, TapeAfter(m))
    BY <2>1, TransitionIs
  <2>3. requester \in Requester /\ self = <<>> /\ Own(incoming) = {1}
    BY <1>1, <1>3, <2>1, Constants DEF OneSymbol
  <2>4. Own(incoming') = {}
    BY <1>1, <2>3, OwnTail
  <2>5. \/ current' = Initial /\ self' = <<>>
        \/ current' \in States /\ self' = <<<<cells'[pos']>>>>
    BY <1>1, <2>1, <2>2, <2>3, Constants, SetTapeType DEF TransitionTo
  <2> QED
    BY <2>1, <2>3, <2>4, <2>5, Constants DEF OneSymbol
<1>6. CASE Reject(m)
  BY <1>6 DEF Reject
<1> QED
  BY <1>1, <1>4, <1>5, <1>6

LEMMA SymbolNext == Typed /\ OneSymbol /\ [Next]_vars => OneSymbol'
<1> SUFFICES ASSUME Typed, OneSymbol, [Next]_vars, status' = "running", ~disturbed', ~lost'
             PROVE  OneSymbol'
  BY DEF OneSymbol
<1>0. self \in Seq(Text) /\ incoming \in Seq(Mail)
  BY DEF Typed, MailTypes
<1>1. CASE ReceiveMessage
  BY <1>1, ReceiveOneSymbol
<1>2. CASE Stop
  BY <1>2 DEF Stop
<1>3. CASE \E r \in Requester, input \in Input : Request(r, input)
  <2>1. PICK r \in Requester, input \in Input : Request(r, input)
    BY <1>3
  <2> DEFINE m == [from |-> r, text |-> input]
  <2>2. m.from # Self
    BY Constants
  <2>3. incoming' = Append(incoming, m)
    BY <2>1 DEF Request
  <2> HIDE DEF m
  <2>4. Own(incoming') = Own(incoming) /\ \A i \in Own(incoming) : incoming'[i] = incoming[i]
    BY <1>0, <2>2, <2>3, OwnAppend
  <2>5. UNCHANGED <<status, current, cells, pos, requester, self, lost, disturbed>>
    BY <2>1 DEF Request, tapeVars
  <2> QED
    BY <2>4, <2>5 DEF OneSymbol
<1>4. CASE ArriveSelf
  <2>1. UNCHANGED <<status, current, cells, pos, requester, lost, disturbed>>
    BY <1>4 DEF ArriveSelf, tapeVars, historyVars
  <2> DEFINE m == [from |-> Self, text |-> Head(self)]
  <2>2. m.from = Self /\ m.text = Head(self) /\ incoming' = Append(incoming, m)
        /\ self # <<>> /\ self' = Tail(self)
    BY <1>4 DEF ArriveSelf
  <2> HIDE DEF m
  <2>3. current # Initial /\ requester \in Requester /\ self = <<<<cells[pos]>>>>
        /\ Own(incoming) = {}
    BY <2>1, <2>2 DEF OneSymbol
  <2>4. Own(incoming') = {Len(incoming) + 1} /\ incoming'[Len(incoming) + 1] = m
    BY <1>0, <2>2, <2>3, OwnAppend
  <2>5. self' = <<>> /\ m.text = <<cells'[pos']>>
    BY <2>1, <2>2, <2>3
  <2> QED
    BY <2>1, <2>3, <2>4, <2>5 DEF OneSymbol
<1>5. CASE GiveUpSelf
  BY <1>5 DEF GiveUpSelf
<1>6. CASE UNCHANGED vars
  BY <1>6 DEF vars, tapeVars, historyVars, OneSymbol
<1> QED
  BY <1>1, <1>2, <1>3, <1>4, <1>5, <1>6 DEF Next

LEMMA SymbolHolds == Spec => []OneSymbol
BY TypedHolds, SymbolInit, SymbolNext, PTL DEF Spec

LEMMA SymbolImplies == OneSymbol => HandlesSymbolUnderHead
BY DEF OneSymbol, HandlesSymbolUnderHead, Own

(* As long as no request interferes with a computation, the symbol the      *)
(* machine is about to handle is the one under its head, for any table.     *)
THEOREM HandlesSymbolUnderHeadHolds == Spec => []HandlesSymbolUnderHead
BY SymbolHolds, SymbolImplies, PTL

-----------------------------------------------------------------------------
(* Tapes that are infinite on both sides, and the sequences that stand for  *)
(* them.                                                                    *)

Cell(c, i) == IF i \in 1..Len(c) THEN c[i] ELSE Blank

Trimmed(s) == s # <<>> => s[Len(s)] # Blank

LeftOf(c, p) == SubSeq(Reverse(c), Len(c) - p + 2, Len(c) - FirstSymbol(c) + 1)
RightOf(c, p) == SubSeq(c, p, LastSymbol(c))

LEMMA MaxIs ==
    ASSUME NEW T \in SUBSET Nat, T # {}, NEW bound \in Nat, \A x \in T : x <= bound
    PROVE  Max(T) \in T /\ \A y \in T : y <= Max(T)
<1> DEFINE Gaps == {bound - x : x \in T}
<1>0. \A x \in T : bound - x \in Nat
  OBVIOUS
<1>1. Gaps \in SUBSET Nat /\ Gaps # {}
  BY <1>0
<1>2. PICK g \in Gaps : \A h \in Gaps : g <= h
  BY <1>1, Least
<1>3. PICK x \in T : g = bound - x
  BY <1>2
<1>4. \A y \in T : bound - y \in Gaps
  OBVIOUS
<1>5. \A y \in T : y <= x
  <2> HIDE DEF Gaps
  <2> QED BY <1>2, <1>3, <1>4
<1> QED
  BY <1>5 DEF Max

LEMMA LastIs ==
    ASSUME NEW c \in Seq(Nat)
    PROVE  /\ LastSymbol(c) \in 0..Len(c)
           /\ LastSymbol(c) # 0 => c[LastSymbol(c)] # Blank
           /\ \A i \in 1..Len(c) : i > LastSymbol(c) => c[i] = Blank
<1> DEFINE T == {0} \cup {i \in DOMAIN c : c[i] # Blank}
<1>1. DOMAIN c = 1..Len(c) /\ Len(c) \in Nat
  OBVIOUS
<1>2. T \in SUBSET Nat /\ T # {} /\ \A x \in T : x <= Len(c)
  BY <1>1
<1>3. Max(T) \in T /\ \A y \in T : y <= Max(T)
  <2> HIDE DEF T
  <2> QED BY <1>1, <1>2, MaxIs
<1>4. LastSymbol(c) = Max(T)
  BY DEF LastSymbol
<1> DEFINE x == Max(T)
<1>5. x \in T /\ \A y \in T : y <= x
  BY <1>3
<1> HIDE DEF x
<1>6. x \in 0..Len(c) /\ (x # 0 => c[x] # Blank)
  BY <1>1, <1>5
<1>7. \A i \in 1..Len(c) : i > x => c[i] = Blank
  BY <1>1, <1>5, <1>6
<1> QED
  BY <1>4, <1>6, <1>7 DEF x

LEMMA FirstIs ==
    ASSUME NEW c \in Seq(Nat)
    PROVE  /\ FirstSymbol(c) \in 1..(Len(c) + 1)
           /\ FirstSymbol(c) # Len(c) + 1 => c[FirstSymbol(c)] # Blank
           /\ \A i \in 1..Len(c) : i < FirstSymbol(c) => c[i] = Blank
<1> DEFINE T == {Len(c) + 1} \cup {i \in DOMAIN c : c[i] # Blank}
<1>1. DOMAIN c = 1..Len(c) /\ Len(c) \in Nat
  OBVIOUS
<1>2. T \in SUBSET Nat /\ T # {}
  BY <1>1
<1>3. Min(T) \in T /\ \A y \in T : Min(T) <= y
  <2> HIDE DEF T
  <2> QED BY <1>2, MinIs
<1>4. FirstSymbol(c) = Min(T)
  BY DEF FirstSymbol
<1> DEFINE x == Min(T)
<1>5. x \in T /\ \A y \in T : x <= y
  BY <1>3
<1> HIDE DEF x
<1>6. x \in 1..(Len(c) + 1) /\ (x # Len(c) + 1 => c[x] # Blank)
  BY <1>1, <1>5
<1>7. \A i \in 1..Len(c) : i < x => c[i] = Blank
  BY <1>1, <1>5, <1>6
<1> QED
  BY <1>4, <1>6, <1>7 DEF x

(* A trimmed sequence is told by its cells.                                 *)
LEMMA SameCells ==
    ASSUME NEW s \in Seq(Nat), NEW t \in Seq(Nat), Trimmed(s), Trimmed(t),
           \A i \in Nat \ {0} : Cell(s, i) = Cell(t, i)
    PROVE  s = t
<1>1. Len(s) \in Nat /\ Len(t) \in Nat
  OBVIOUS
<1>2. ASSUME Len(s) < Len(t) PROVE FALSE
  <2>1. Len(t) \in 1..Len(t) /\ Len(t) \notin 1..Len(s) /\ Len(t) \in Nat \ {0} /\ t # <<>>
    BY <1>1, <1>2
  <2>2. Cell(t, Len(t)) # Blank /\ Cell(s, Len(t)) = Blank
    BY <2>1 DEF Cell, Trimmed
  <2> QED BY <2>1, <2>2
<1>3. ASSUME Len(t) < Len(s) PROVE FALSE
  <2>1. Len(s) \in 1..Len(s) /\ Len(s) \notin 1..Len(t) /\ Len(s) \in Nat \ {0} /\ s # <<>>
    BY <1>1, <1>3
  <2>2. Cell(s, Len(s)) # Blank /\ Cell(t, Len(s)) = Blank
    BY <2>1 DEF Cell, Trimmed
  <2> QED BY <2>1, <2>2
<1>4. Len(s) = Len(t)
  BY <1>1, <1>2, <1>3
<1>5. ASSUME NEW i \in 1..Len(s) PROVE s[i] = t[i]
  <2>1. i \in Nat \ {0} /\ i \in 1..Len(t)
    BY <1>4
  <2>2. Cell(s, i) = Cell(t, i) /\ Cell(s, i) = s[i] /\ Cell(t, i) = t[i]
    BY <2>1 DEF Cell
  <2> QED BY <2>2
<1> QED
  BY <1>4, <1>5

LEMMA SubSeqIs ==
    ASSUME NEW s \in Seq(Nat), NEW a \in Nat \ {0}, NEW b \in Nat, b <= Len(s), a <= b + 1
    PROVE  /\ SubSeq(s, a, b) \in Seq(Nat) /\ Len(SubSeq(s, a, b)) = (b + 1) - a
           /\ \A i \in 1..((b + 1) - a) : SubSeq(s, a, b)[i] = s[(a + i) - 1]
OBVIOUS

LEMMA TrimIs ==
    ASSUME NEW s \in Seq(Nat)
    PROVE  /\ Computation!Trim(s) \in Seq(Nat) /\ Trimmed(Computation!Trim(s))
           /\ \A i \in Nat \ {0} : Cell(Computation!Trim(s), i) = Cell(s, i)
<1> DEFINE l == LastSymbol(s)
           t == SubSeq(s, 1, l)
<1>1. Computation!Trim(s) = t
  BY DEF Computation!Trim, Computation!LastSymbol, LastSymbol, Computation!Max, Max
<1>2. /\ l \in 0..Len(s) /\ Len(s) \in Nat
      /\ l # 0 => s[l] # Blank
      /\ \A i \in 1..Len(s) : i > l => s[i] = Blank
  BY LastIs
<1> HIDE DEF l
<1>3. t \in Seq(Nat) /\ Len(t) = l /\ \A i \in 1..l : t[i] = s[i]
  BY <1>2
<1> HIDE DEF t
<1>4. Trimmed(t)
  BY <1>2, <1>3 DEF Trimmed
<1>5. \A i \in Nat \ {0} : Cell(t, i) = Cell(s, i)
  BY <1>2, <1>3 DEF Cell
<1> QED
  BY <1>1, <1>3, <1>4, <1>5

LEMMA RestIs ==
    ASSUME NEW s \in Seq(Nat), Trimmed(s)
    PROVE  /\ Computation!Rest(s) \in Seq(Nat) /\ Trimmed(Computation!Rest(s))
           /\ \A i \in Nat \ {0} : Cell(Computation!Rest(s), i) = Cell(s, i + 1)
           /\ Computation!Symbol(s) \in Nat /\ Computation!Symbol(s) = Cell(s, 1)
<1>1. CASE s = <<>>
  <2>1. Computation!Rest(s) = <<>> /\ Computation!Symbol(s) = Blank
    BY <1>1 DEF Computation!Rest, Computation!Symbol
  <2>2. \A i \in Nat \ {0} : Cell(<<>>, i) = Blank
    BY DEF Cell
  <2>3. <<>> \in Seq(Nat) /\ Trimmed(<<>>)
    BY DEF Trimmed
  <2>4. ASSUME NEW i \in Nat \ {0} PROVE Cell(Computation!Rest(s), i) = Cell(s, i + 1)
    <3>1. i + 1 \in Nat \ {0}
      OBVIOUS
    <3> QED BY <1>1, <2>1, <2>2, <3>1
  <2>5. Cell(s, 1) = Blank /\ Blank \in Nat
    BY <1>1, <2>2, Constants
  <2>6. Computation!Rest(s) \in Seq(Nat) /\ Trimmed(Computation!Rest(s))
    BY <2>1, <2>3
  <2> QED BY <2>1, <2>4, <2>5, <2>6
<1>2. CASE s # <<>>
  <2> DEFINE t == Tail(s)
  <2>1. Computation!Rest(s) = t /\ Computation!Symbol(s) = Head(s)
    BY <1>2 DEF Computation!Rest, Computation!Symbol
  <2>2. /\ t \in Seq(Nat) /\ Len(t) = Len(s) - 1 /\ Len(s) \in Nat /\ Len(s) # 0
        /\ \A i \in 1..(Len(s) - 1) : t[i] = s[i + 1]
        /\ Head(s) = s[1] /\ s[1] \in Nat
    BY <1>2
  <2> HIDE DEF t
  <2>3. \A i \in Nat \ {0} : Cell(t, i) = Cell(s, i + 1)
    BY <2>2 DEF Cell
  <2>4. Trimmed(t)
    <3>1. ASSUME t # <<>> PROVE Len(t) \in 1..(Len(s) - 1) /\ Len(t) + 1 = Len(s)
      BY <2>2, <3>1
    <3> QED BY <1>2, <2>2, <3>1 DEF Trimmed
  <2>5. Cell(s, 1) = s[1]
    BY <2>2 DEF Cell
  <2> QED BY <2>1, <2>2, <2>3, <2>4, <2>5
<1> QED BY <1>1, <1>2

LEMMA ConsIs ==
    ASSUME NEW s \in Seq(Nat), NEW x \in Nat
    PROVE  /\ <<x>> \o s \in Seq(Nat)
           /\ Cell(<<x>> \o s, 1) = x
           /\ \A i \in Nat \ {0} : Cell(<<x>> \o s, i + 1) = Cell(s, i)
<1> DEFINE t == <<x>> \o s
<1>1. /\ t \in Seq(Nat) /\ Len(t) = Len(s) + 1 /\ Len(s) \in Nat /\ t[1] = x
      /\ \A i \in 1..Len(s) : t[i + 1] = s[i]
  OBVIOUS
<1> HIDE DEF t
<1>2. Cell(t, 1) = x
  BY <1>1 DEF Cell
<1>3. \A i \in Nat \ {0} : Cell(t, i + 1) = Cell(s, i)
  BY <1>1 DEF Cell
<1> QED BY <1>1, <1>2, <1>3 DEF t

LEMMA RightIs ==
    ASSUME NEW c \in Seq(Nat), NEW p \in 1..Len(c)
    PROVE  /\ RightOf(c, p) \in Seq(Nat) /\ Trimmed(RightOf(c, p))
           /\ \A i \in Nat \ {0} : Cell(RightOf(c, p), i) = Cell(c, (p + i) - 1)
<1> DEFINE l == LastSymbol(c)
           t == RightOf(c, p)
<1>1. /\ l \in 0..Len(c) /\ Len(c) \in Nat /\ p \in Nat \ {0}
      /\ l # 0 => c[l] # Blank
      /\ \A i \in 1..Len(c) : i > l => c[i] = Blank
  BY LastIs
<1>2. t = SubSeq(c, p, l)
  BY DEF RightOf
<1> HIDE DEF l, t
<1>3. CASE p <= l + 1
  <2>1. t \in Seq(Nat) /\ Len(t) = (l + 1) - p /\ \A i \in 1..((l + 1) - p) : t[i] = c[(p + i) - 1]
    BY <1>1, <1>2, <1>3, SubSeqIs
  <2>2. Trimmed(t)
    <3>1. ASSUME t # <<>> PROVE Len(t) \in 1..((l + 1) - p) /\ (p + Len(t)) - 1 = l /\ l # 0
      BY <1>1, <1>3, <2>1, <3>1
    <3> QED BY <1>1, <2>1, <3>1 DEF Trimmed
  <2>3. \A i \in Nat \ {0} : Cell(t, i) = Cell(c, (p + i) - 1)
    BY <1>1, <2>1 DEF Cell
  <2> QED BY <2>1, <2>2, <2>3 DEF t
<1>4. CASE ~(p <= l + 1)
  <2>1. t = <<>>
    BY <1>1, <1>2, <1>4
  <2>2. \A i \in Nat \ {0} : Cell(t, i) = Blank
    BY <2>1 DEF Cell
  <2>3. \A i \in Nat \ {0} : Cell(c, (p + i) - 1) = Blank
    BY <1>1, <1>4 DEF Cell
  <2>4. t \in Seq(Nat) /\ Trimmed(t)
    BY <2>1 DEF Trimmed
  <2> QED BY <2>2, <2>3, <2>4 DEF t
<1> QED BY <1>3, <1>4

LEMMA ReverseIs ==
    ASSUME NEW s \in Seq(Nat)
    PROVE  /\ Reverse(s) \in Seq(Nat) /\ Len(Reverse(s)) = Len(s)
           /\ \A i \in 1..Len(s) : Reverse(s)[i] = s[(Len(s) - i) + 1]
<1>1. Reverse(s) = [i \in 1..Len(s) |-> s[(Len(s) - i) + 1]]
  BY DEF Reverse
<1>2. Len(s) \in Nat /\ \A i \in 1..Len(s) : (Len(s) - i) + 1 \in 1..Len(s)
  OBVIOUS
<1>3. \A i \in 1..Len(s) : s[(Len(s) - i) + 1] \in Nat
  BY <1>2
<1> QED
  BY <1>1, <1>2, <1>3

LEMMA LeftIs ==
    ASSUME NEW c \in Seq(Nat), NEW p \in 1..Len(c)
    PROVE  /\ LeftOf(c, p) \in Seq(Nat) /\ Trimmed(LeftOf(c, p))
           /\ \A i \in Nat \ {0} : Cell(LeftOf(c, p), i) = Cell(c, p - i)
<1> DEFINE f == FirstSymbol(c)
           n == Len(c)
           r == Reverse(c)
           t == LeftOf(c, p)
           a == n - p + 2
           b == n - f + 1
<1>1. /\ f \in 1..(n + 1) /\ n \in Nat /\ p \in 1..n /\ p \in Nat
      /\ f # n + 1 => c[f] # Blank
      /\ \A i \in 1..n : i < f => c[i] = Blank
  BY FirstIs
<1>2. r \in Seq(Nat) /\ Len(r) = n /\ \A i \in 1..n : r[i] = c[(n - i) + 1]
  BY ReverseIs
<1>3. t = SubSeq(r, a, b)
  BY DEF LeftOf
<1> HIDE DEF f, n, r, t
<1>4. a \in Nat \ {0} /\ b \in Nat /\ b <= n
  BY <1>1
<1>5. CASE f <= p
  <2>1. a <= b + 1 /\ (b + 1) - a = p - f
    BY <1>1, <1>5
  <2>2. t \in Seq(Nat) /\ Len(t) = (b + 1) - a /\ \A i \in 1..((b + 1) - a) : t[i] = r[(a + i) - 1]
    <3> HIDE DEF a, b
    <3>1. b <= Len(r)
      BY <1>2, <1>4
    <3> QED BY SMTT(30), <1>2, <1>3, <1>4, <2>1, <3>1, SubSeqIs
  <2>3. ASSUME NEW i \in 1..(p - f) PROVE t[i] = c[p - i]
    <3>1. (a + i) - 1 \in 1..n /\ (n - ((a + i) - 1)) + 1 = p - i
      BY <1>1, <1>5
    <3>2. t[i] = r[(a + i) - 1] /\ r[(a + i) - 1] = c[(n - ((a + i) - 1)) + 1]
      BY <1>2, <2>1, <2>2, <3>1
    <3> QED BY <3>1, <3>2
  <2>4. Len(t) = p - f
    BY <2>1, <2>2
  <2>5. Trimmed(t)
    <3>1. ASSUME t # <<>> PROVE Len(t) \in 1..(p - f) /\ p - Len(t) = f /\ f # n + 1
      BY <1>1, <1>5, <2>2, <2>4, <3>1
    <3> QED BY <1>1, <2>3, <3>1 DEF Trimmed
  <2>6. ASSUME NEW i \in Nat \ {0} PROVE Cell(t, i) = Cell(c, p - i)
    <3>1. CASE i <= p - f
      <4>1. i \in 1..(p - f) /\ p - i \in 1..n
        BY <1>1, <3>1
      <4> QED BY <2>3, <2>4, <4>1 DEF Cell, n
    <3>2. CASE ~(i <= p - f)
      <4>1. i \notin 1..Len(t)
        BY <1>1, <2>4, <3>2
      <4>2. p - i \in 1..n => c[p - i] = Blank
        <5>1. p - i < f
          BY <1>1, <3>2
        <5> QED BY <1>1, <5>1
      <4> QED BY <4>1, <4>2 DEF Cell, n
    <3> QED BY <3>1, <3>2
  <2> QED BY <2>2, <2>5, <2>6 DEF t
<1>6. CASE ~(f <= p)
  <2>1. a > b
    BY <1>1, <1>6
  <2>2. t = <<>>
    BY <1>2, <1>3, <1>4, <2>1
  <2>3. ASSUME NEW i \in Nat \ {0} PROVE Cell(t, i) = Blank
    BY <2>2 DEF Cell
  <2>4. ASSUME NEW i \in Nat \ {0} PROVE Cell(c, p - i) = Blank
    <3>1. p - i < f
      BY <1>1, <1>6
    <3> QED BY <1>1, <3>1 DEF Cell, n
  <2>5. t \in Seq(Nat) /\ Trimmed(t)
    BY <2>2 DEF Trimmed
  <2> QED BY <2>3, <2>4, <2>5 DEF t
<1> QED BY <1>5, <1>6

(* What writing and moving does to the cells: the numbers of all shift by   *)
(* one when the tape grows to the left.                                     *)
Written(c, p, symbol, i) == IF i = p THEN symbol ELSE Cell(c, i)
Offset(move) == CASE move = "L" -> -1 [] move = "R" -> 1 [] move = "N" -> 0
Follows(tape, symbol, move, next) ==
    \E d \in {0, 1} :
      /\ next.pos = (tape.pos + Offset(move)) + d
      /\ \A i \in Int : Cell(next.cells, i + d) = Written(tape.cells, tape.pos, symbol, i)

LEMMA FollowsIs ==
    ASSUME NEW tape \in Tape, NEW symbol \in Nat, NEW move \in {"L", "R", "N"}
    PROVE  Follows(tape, symbol, move, Move(Write(tape, symbol), move))
<1> DEFINE n == Len(tape.cells)
           p == tape.pos
           c == [tape.cells EXCEPT ![p] = symbol]
           w == Write(tape, symbol)
           next == Move(w, move)
<1> SUFFICES Follows(tape, symbol, move, next)
  OBVIOUS
<1>1. /\ tape.cells \in Seq(Nat) /\ n \in Nat /\ p \in 1..n /\ p \in Nat
      /\ w \in Tape /\ w.pos = p /\ w.cells = c /\ Len(w.cells) = n
  BY WriteType DEF Tape, Text
<1>2. c \in Seq(Nat) /\ Len(c) = n /\ \A i \in 1..n : c[i] = IF i = p THEN symbol ELSE tape.cells[i]
  BY <1>1
<1>3. \A i \in Int : Cell(c, i) = Written(tape.cells, p, symbol, i)
  <2> HIDE DEF c
  <2> QED BY <1>1, <1>2 DEF Cell, Written
<1>4. w = [cells |-> c, pos |-> p]
  BY <1>1 DEF Tape
<1> HIDE DEF c, w
<1>5. ASSUME next.pos = p + Offset(move), \A i \in Int : Cell(next.cells, i) = Cell(c, i)
      PROVE  Follows(tape, symbol, move, next)
  <2>1. next.pos = (p + Offset(move)) + 0
    BY <1>1, <1>5 DEF Offset
  <2>2. ASSUME NEW i \in Int PROVE Cell(next.cells, i + 0) = Written(tape.cells, p, symbol, i)
    <3>1. i + 0 = i
      OBVIOUS
    <3> QED BY <1>3, <1>5, <3>1
  <2> HIDE DEF next
  <2> QED BY <2>1, <2>2 DEF Follows
<1>6. CASE move = "L" /\ p = 1
  <2> DEFINE d == <<Blank>> \o c
  <2>1. next = [cells |-> d, pos |-> 1]
    <3>1. \A x : [w EXCEPT !.cells = x] = [cells |-> x, pos |-> p]
      BY <1>4
    <3>2. next = [w EXCEPT !.cells = <<Blank>> \o w.cells]
      BY <1>1, <1>6 DEF Move
    <3> QED BY <1>1, <1>6, <3>1, <3>2
  <2>2. d \in Seq(Nat) /\ Len(d) = n + 1 /\ d[1] = Blank /\ \A i \in 1..n : d[i + 1] = c[i]
    BY <1>2, Constants
  <2> HIDE DEF d
  <2>3. ASSUME NEW i \in Int PROVE Cell(d, i + 1) = Cell(c, i)
    <3>1. CASE i \in 1..n
      <4>1. i + 1 \in 1..(n + 1)
        BY <1>1, <3>1
      <4> QED BY <1>2, <2>2, <3>1, <4>1 DEF Cell
    <3>2. CASE i = 0
      <4>1. i + 1 = 1 /\ 1 \in 1..(n + 1) /\ 0 \notin 1..n
        BY <1>1, <3>2
      <4> QED BY <1>2, <2>2, <3>2, <4>1 DEF Cell
    <3>3. CASE i \notin 0..n
      <4>1. i + 1 \notin 1..(n + 1) /\ i \notin 1..n
        BY <1>1, <3>3
      <4> QED BY <1>2, <2>2, <4>1 DEF Cell
    <3> QED BY <1>1, <3>1, <3>2, <3>3
  <2>4. next.pos = (p + Offset(move)) + 1 /\ next.cells = d
    BY <1>6, <2>1 DEF Offset
  <2>5. \A i \in Int : Cell(next.cells, i + 1) = Written(tape.cells, p, symbol, i)
    BY <1>3, <2>3, <2>4
  <2> HIDE DEF next
  <2> QED BY <2>4, <2>5 DEF Follows
<1>7. CASE move = "L" /\ p # 1
  <2>1. next = [w EXCEPT !.pos = p - 1]
    BY <1>1, <1>7 DEF Move
  <2>2. next = [cells |-> c, pos |-> p - 1]
    BY <1>4, <2>1
  <2>3. next.pos = p + Offset(move) /\ next.cells = c
    BY <1>1, <1>7, <2>2 DEF Offset
  <2> QED BY <1>5, <2>3
<1>8. CASE move = "R" /\ p = n
  <2> DEFINE d == Append(c, Blank)
  <2>1. next = [cells |-> d, pos |-> p + 1]
    BY <1>1, <1>8 DEF Move
  <2>2. d \in Seq(Nat) /\ Len(d) = n + 1 /\ d[n + 1] = Blank /\ \A i \in 1..n : d[i] = c[i]
    BY <1>2, Constants
  <2> HIDE DEF d
  <2>3. \A i \in Int : Cell(d, i) = Cell(c, i)
    BY <1>1, <1>2, <2>2 DEF Cell
  <2>4. next.pos = p + Offset(move) /\ next.cells = d
    BY <1>1, <1>8, <2>1 DEF Offset
  <2> QED BY <1>5, <2>3, <2>4
<1>9. CASE move = "R" /\ p # n
  <2>1. next = [w EXCEPT !.pos = p + 1]
    BY <1>1, <1>9 DEF Move
  <2>2. next = [cells |-> c, pos |-> p + 1]
    BY <1>4, <2>1
  <2>3. next.pos = p + Offset(move) /\ next.cells = c
    BY <1>1, <1>9, <2>2 DEF Offset
  <2> QED BY <1>5, <2>3
<1>10. CASE move = "N"
  <2>1. next = w
    BY <1>10 DEF Move
  <2>2. next.pos = p + Offset(move) /\ next.cells = c
    BY <1>1, <1>10, <2>1 DEF Offset
  <2> QED BY <1>5, <2>2
<1> QED
  BY <1>6, <1>7, <1>8, <1>9, <1>10

(* Moved of the abstract machine, as a function of its tape.                *)
MovedLeft(symbol, move, l, r) ==
    CASE move = "L" -> Computation!Rest(l)
      [] move = "R" -> Computation!Trim(<<symbol>> \o l)
      [] OTHER -> l
MovedRight(symbol, move, l, r) ==
    CASE move = "L" ->
           Computation!Trim(<<Computation!Symbol(l)>> \o (<<symbol>> \o Computation!Rest(r)))
      [] move = "R" -> Computation!Rest(r)
      [] OTHER -> Computation!Trim(<<symbol>> \o Computation!Rest(r))

LEMMA ConsTrimIs ==
    ASSUME NEW s \in Seq(Nat), NEW x \in Nat
    PROVE  LET t == Computation!Trim(<<x>> \o s)
           IN  /\ t \in Seq(Nat) /\ Trimmed(t) /\ Cell(t, 1) = x
               /\ \A i \in Nat \ {0} : Cell(t, i + 1) = Cell(s, i)
<1> DEFINE u == <<x>> \o s
           t == Computation!Trim(u)
<1>1. u \in Seq(Nat) /\ Cell(u, 1) = x /\ \A i \in Nat \ {0} : Cell(u, i + 1) = Cell(s, i)
  BY ConsIs
<1> HIDE DEF u
<1>2. t \in Seq(Nat) /\ Trimmed(t) /\ \A i \in Nat \ {0} : Cell(t, i) = Cell(u, i)
  BY <1>1, TrimIs
<1> HIDE DEF t
<1>3. ASSUME NEW i \in Nat \ {0} PROVE Cell(t, i + 1) = Cell(s, i)
  <2>1. i + 1 \in Nat \ {0}
    OBVIOUS
  <2> QED BY <1>1, <1>2, <2>1
<1>4. Cell(t, 1) = x
  BY <1>1, <1>2
<1> QED
  BY <1>2, <1>3, <1>4 DEF t, u

(* The sequences for the tape after a step are those the abstract machine   *)
(* computes from the sequences for the tape before it.                      *)
LEMMA MovedIs ==
    ASSUME NEW tape \in Tape, NEW symbol \in Nat, NEW move \in {"L", "R", "N"},
           NEW next \in Tape, Follows(tape, symbol, move, next)
    PROVE  LET l == LeftOf(tape.cells, tape.pos)
               r == RightOf(tape.cells, tape.pos)
           IN  /\ LeftOf(next.cells, next.pos) = MovedLeft(symbol, move, l, r)
               /\ RightOf(next.cells, next.pos) = MovedRight(symbol, move, l, r)
<1> DEFINE c == tape.cells
           p == tape.pos
           l == LeftOf(c, p)
           r == RightOf(c, p)
           d == next.cells
           q == next.pos
           l2 == LeftOf(d, q)
           r2 == RightOf(d, q)
           W(i) == Written(c, p, symbol, i)
           o == Offset(move)
<1>1. c \in Seq(Nat) /\ p \in 1..Len(c) /\ d \in Seq(Nat) /\ q \in 1..Len(d)
      /\ p \in Nat /\ q \in Nat
  BY DEF Tape, Text
<1>2. PICK e \in {0, 1} : q = (p + o) + e /\ \A i \in Int : Cell(d, i + e) = W(i)
  BY DEF Follows
<1>3. o \in {-1, 0, 1}
  BY DEF Offset
<1>4. /\ l \in Seq(Nat) /\ Trimmed(l) /\ \A i \in Nat \ {0} : Cell(l, i) = Cell(c, p - i)
      /\ r \in Seq(Nat) /\ Trimmed(r) /\ \A i \in Nat \ {0} : Cell(r, i) = Cell(c, (p + i) - 1)
  BY <1>1, LeftIs, RightIs
<1>5. /\ l2 \in Seq(Nat) /\ Trimmed(l2) /\ \A i \in Nat \ {0} : Cell(l2, i) = Cell(d, q - i)
      /\ r2 \in Seq(Nat) /\ Trimmed(r2) /\ \A i \in Nat \ {0} : Cell(r2, i) = Cell(d, (q + i) - 1)
  BY <1>1, LeftIs, RightIs
<1>6. \A i \in Int : W(i) = IF i = p THEN symbol ELSE Cell(c, i)
  BY DEF Written
<1> HIDE DEF l, r, l2, r2, c, p, d, q, W
<1>7. ASSUME NEW i \in Nat \ {0} PROVE Cell(l2, i) = W((p + o) - i)
  <2>1. (p + o) - i \in Int /\ ((p + o) - i) + e = q - i
    <3>1. e \in Int /\ o \in Int /\ q = (p + o) + e
      BY <1>2, <1>3
    <3> HIDE DEF o
    <3> QED BY <1>1, <3>1
  <2> QED BY <1>2, <1>5, <2>1
<1>8. ASSUME NEW i \in Nat \ {0} PROVE Cell(r2, i) = W(((p + o) + i) - 1)
  <2>1. ((p + o) + i) - 1 \in Int /\ (((p + o) + i) - 1) + e = (q + i) - 1
    <3>1. e \in Int /\ o \in Int /\ q = (p + o) + e
      BY <1>2, <1>3
    <3> HIDE DEF o
    <3> QED BY <1>1, <3>1
  <2> QED BY <1>2, <1>5, <2>1
<1>9. /\ Computation!Rest(l) \in Seq(Nat) /\ Trimmed(Computation!Rest(l))
      /\ \A i \in Nat \ {0} : Cell(Computation!Rest(l), i) = Cell(l, i + 1)
      /\ Computation!Symbol(l) \in Nat /\ Computation!Symbol(l) = Cell(l, 1)
  BY <1>4, RestIs
<1>10. /\ Computation!Rest(r) \in Seq(Nat) /\ Trimmed(Computation!Rest(r))
       /\ \A i \in Nat \ {0} : Cell(Computation!Rest(r), i) = Cell(r, i + 1)
  BY <1>4, RestIs
<1> DEFINE lr == Computation!Rest(l)
           rr == Computation!Rest(r)
           ls == Computation!Symbol(l)
<1>11. ASSUME NEW i \in Nat \ {0} PROVE Cell(lr, i) = Cell(c, (p - i) - 1)
  <2>1. i + 1 \in Nat \ {0} /\ p - (i + 1) = (p - i) - 1
    BY <1>1
  <2> QED BY <1>4, <1>9, <2>1
<1>12. ASSUME NEW i \in Nat \ {0} PROVE Cell(rr, i) = Cell(c, p + i)
  <2>1. i + 1 \in Nat \ {0} /\ (p + (i + 1)) - 1 = p + i
    BY <1>1
  <2> QED BY <1>4, <1>10, <2>1
<1> HIDE DEF lr, rr, ls
<1>13. lr \in Seq(Nat) /\ Trimmed(lr) /\ rr \in Seq(Nat) /\ Trimmed(rr) /\ ls \in Nat
       /\ ls = Cell(c, p - 1)
  BY <1>4, <1>9, <1>10 DEF lr, rr, ls
<1>14. CASE move = "L"
  <2>1. o = -1
    BY <1>14 DEF Offset
  <2> HIDE DEF o
  <2>2. l2 = lr
    <3>1. ASSUME NEW i \in Nat \ {0} PROVE Cell(l2, i) = Cell(lr, i)
      <4>1. (p + o) - i = (p - i) - 1 /\ (p - i) - 1 # p /\ (p - i) - 1 \in Int
        BY <1>1, <2>1
      <4> QED BY <1>6, <1>7, <1>11, <4>1
    <3> QED BY <1>5, <1>13, <3>1, SameCells
  <2> DEFINE u == <<symbol>> \o rr
             t == Computation!Trim(<<ls>> \o u)
  <2>3. u \in Seq(Nat) /\ Cell(u, 1) = symbol /\ \A i \in Nat \ {0} : Cell(u, i + 1) = Cell(rr, i)
    BY <1>13, ConsIs
  <2> HIDE DEF u
  <2>4. t \in Seq(Nat) /\ Trimmed(t) /\ Cell(t, 1) = ls /\ \A i \in Nat \ {0} : Cell(t, i + 1) = Cell(u, i)
    BY <1>13, <2>3, ConsTrimIs
  <2> HIDE DEF t
  <2>5. r2 = t
    <3>1. ASSUME NEW i \in Nat \ {0} PROVE Cell(r2, i) = Cell(t, i)
      <4>1. ((p + o) + i) - 1 = (p + i) - 2
        BY <1>1, <2>1
      <4>2. CASE i = 1
        <5>1. (p + i) - 2 = p - 1 /\ p - 1 # p /\ p - 1 \in Int
          BY <1>1, <4>2
        <5> QED BY <1>6, <1>8, <1>13, <2>4, <4>1, <4>2, <5>1
      <4>3. CASE i = 2
        <5>1. (p + i) - 2 = p /\ p \in Int
          BY <1>1, <4>3
        <5>2. Cell(t, 1 + 1) = Cell(u, 1)
          BY <2>4
        <5>3. Cell(t, 2) = symbol
          BY <2>3, <5>2
        <5>4. Cell(r2, i) = symbol
          BY <1>6, <1>8, <4>1, <5>1
        <5> QED BY <4>3, <5>3, <5>4
      <4>4. CASE i # 1 /\ i # 2
        <5> DEFINE j == i - 2
        <5>1. j \in Nat \ {0} /\ j + 1 \in Nat \ {0} /\ (j + 1) + 1 = i
          BY <4>4
        <5>2. (p + i) - 2 = p + j /\ p + j # p /\ p + j \in Int
          BY <1>1, <5>1
        <5> HIDE DEF j
        <5>3. Cell(t, i) = Cell(c, p + j)
          BY <1>12, <2>3, <2>4, <5>1
        <5>4. Cell(r2, i) = Cell(c, p + j)
          BY <1>6, <1>8, <4>1, <5>2
        <5> QED BY <5>3, <5>4
      <4> QED BY <4>2, <4>3, <4>4
    <3> QED BY <1>5, <2>4, <3>1, SameCells
  <2> QED BY <1>14, <2>2, <2>5 DEF MovedLeft, MovedRight, l2, r2, lr, rr, ls, t, u, l, r, c, p, d, q
<1>15. CASE move = "R"
  <2>1. o = 1
    BY <1>15 DEF Offset
  <2> HIDE DEF o
  <2> DEFINE t == Computation!Trim(<<symbol>> \o l)
  <2>2. t \in Seq(Nat) /\ Trimmed(t) /\ Cell(t, 1) = symbol /\ \A i \in Nat \ {0} : Cell(t, i + 1) = Cell(l, i)
    BY <1>4, ConsTrimIs
  <2> HIDE DEF t
  <2>3. l2 = t
    <3>1. ASSUME NEW i \in Nat \ {0} PROVE Cell(l2, i) = Cell(t, i)
      <4>1. CASE i = 1
        <5>1. (p + o) - i = p /\ p \in Int
          BY <1>1, <2>1, <4>1
        <5>2. Cell(l2, i) = symbol
          BY <1>6, <1>7, <5>1
        <5> QED BY <2>2, <4>1, <5>2
      <4>2. CASE i # 1
        <5> DEFINE j == i - 1
        <5>1. j \in Nat \ {0} /\ j + 1 = i
          BY <4>2
        <5>2. (p + o) - i = p - j /\ p - j # p /\ p - j \in Int
          BY <1>1, <2>1, <5>1
        <5> HIDE DEF j
        <5>3. Cell(t, i) = Cell(c, p - j)
          BY <1>4, <2>2, <5>1
        <5>4. Cell(l2, i) = Cell(c, p - j)
          BY <1>6, <1>7, <5>2
        <5> QED BY <5>3, <5>4
      <4> QED BY <4>1, <4>2
    <3> QED BY <1>5, <2>2, <3>1, SameCells
  <2>4. r2 = rr
    <3>1. ASSUME NEW i \in Nat \ {0} PROVE Cell(r2, i) = Cell(rr, i)
      <4>1. ((p + o) + i) - 1 = p + i /\ p + i # p /\ p + i \in Int
        BY <1>1, <2>1
      <4> QED BY <1>6, <1>8, <1>12, <4>1
    <3> QED BY <1>5, <1>13, <3>1, SameCells
  <2> QED BY <1>15, <2>3, <2>4 DEF MovedLeft, MovedRight, l2, r2, rr, t, l, r, c, p, d, q
<1>16. CASE move = "N"
  <2>1. o = 0
    BY <1>16 DEF Offset
  <2> HIDE DEF o
  <2>2. l2 = l
    <3>1. ASSUME NEW i \in Nat \ {0} PROVE Cell(l2, i) = Cell(l, i)
      <4>1. (p + o) - i = p - i /\ p - i # p /\ p - i \in Int
        BY <1>1, <2>1
      <4> QED BY <1>4, <1>6, <1>7, <4>1
    <3> QED BY <1>4, <1>5, <3>1, SameCells
  <2> DEFINE t == Computation!Trim(<<symbol>> \o rr)
  <2>3. t \in Seq(Nat) /\ Trimmed(t) /\ Cell(t, 1) = symbol /\ \A i \in Nat \ {0} : Cell(t, i + 1) = Cell(rr, i)
    BY <1>13, ConsTrimIs
  <2> HIDE DEF t
  <2>4. r2 = t
    <3>1. ASSUME NEW i \in Nat \ {0} PROVE Cell(r2, i) = Cell(t, i)
      <4>1. CASE i = 1
        <5>1. ((p + o) + i) - 1 = p /\ p \in Int
          BY <1>1, <2>1, <4>1
        <5>2. Cell(r2, i) = symbol
          BY <1>6, <1>8, <5>1
        <5> QED BY <2>3, <4>1, <5>2
      <4>2. CASE i # 1
        <5> DEFINE j == i - 1
        <5>1. j \in Nat \ {0} /\ j + 1 = i
          BY <4>2
        <5>2. ((p + o) + i) - 1 = p + j /\ p + j # p /\ p + j \in Int
          BY <1>1, <2>1, <5>1
        <5> HIDE DEF j
        <5>3. Cell(t, i) = Cell(c, p + j)
          BY <1>12, <2>3, <5>1
        <5>4. Cell(r2, i) = Cell(c, p + j)
          BY <1>6, <1>8, <5>2
        <5> QED BY <5>3, <5>4
      <4> QED BY <4>1, <4>2
    <3> QED BY <1>5, <2>3, <3>1, SameCells
  <2> QED BY <1>16, <2>2, <2>4 DEF MovedLeft, MovedRight, l2, r2, rr, t, l, r, c, p, d, q
<1> QED
  BY <1>14, <1>15, <1>16

(* Two sequences hold the same tape, wherever it begins; one without blanks *)
(* at its ends is told by its tape.                                         *)
SameTape(s, t) == \E e \in Int : \A i \in Int : Cell(s, i) = Cell(t, i + e)
Tight(s) == s # <<>> => s[1] # Blank /\ s[Len(s)] # Blank

LEMMA TightSame ==
    ASSUME NEW s \in Seq(Nat), NEW t \in Seq(Nat), Tight(s), Tight(t), SameTape(s, t)
    PROVE  s = t
<1>1. PICK e \in Int : \A i \in Int : Cell(s, i) = Cell(t, i + e)
  BY DEF SameTape
<1>2. Len(s) \in Nat /\ Len(t) \in Nat
  OBVIOUS
<1>3. ASSUME NEW i \in Int PROVE Cell(t, i) = Cell(s, i - e)
  <2>1. i - e \in Int /\ (i - e) + e = i
    BY <1>1
  <2> QED BY <1>1, <2>1
<1>4. s # <<>> => Cell(s, 1) # Blank /\ 1 \in 1..Len(s)
  BY <1>2 DEF Tight, Cell
<1>5. t # <<>> => Cell(t, 1) # Blank /\ 1 \in 1..Len(t)
  BY <1>2 DEF Tight, Cell
<1>6. ASSUME s # <<>> PROVE 1 + e \in 1..Len(t)
  BY <1>1, <1>4, <1>6 DEF Cell
<1>7. ASSUME t # <<>> PROVE 1 - e \in 1..Len(s)
  BY <1>3, <1>5, <1>7 DEF Cell
<1>8. CASE s = <<>> \/ t = <<>>
  <2>1. s = <<>> /\ t = <<>>
    BY <1>2, <1>6, <1>7, <1>8
  <2> QED BY <2>1
<1>9. CASE s # <<>> /\ t # <<>>
  <2>1. e = 0
    BY <1>1, <1>2, <1>6, <1>7, <1>9
  <2>2. ASSUME NEW i \in Nat \ {0} PROVE Cell(s, i) = Cell(t, i)
    <3>1. i \in Int /\ i + e = i
      BY <2>1
    <3> QED BY <1>1, <3>1
  <2>3. Trimmed(s) /\ Trimmed(t)
    BY DEF Tight, Trimmed
  <2> QED BY <2>2, <2>3, SameCells
<1> QED BY <1>8, <1>9

LEMMA ReverseCells ==
    ASSUME NEW s \in Seq(Nat)
    PROVE  \A i \in Int : Cell(Reverse(s), i) = Cell(s, (Len(s) - i) + 1)
<1> DEFINE r == Reverse(s)
<1>1. r \in Seq(Nat) /\ Len(r) = Len(s) /\ \A i \in 1..Len(s) : r[i] = s[(Len(s) - i) + 1]
  BY ReverseIs
<1> HIDE DEF r
<1>2. ASSUME NEW i \in Int PROVE Cell(r, i) = Cell(s, (Len(s) - i) + 1)
  <2>1. i \in 1..Len(s) <=> (Len(s) - i) + 1 \in 1..Len(s)
    OBVIOUS
  <2> QED BY <1>1, <2>1 DEF Cell
<1> QED BY <1>2 DEF r

LEMMA ContentsIs ==
    ASSUME NEW s \in Seq(Nat)
    PROVE  /\ Computation!Contents(s) \in Seq(Nat) /\ Tight(Computation!Contents(s))
           /\ SameTape(Computation!Contents(s), s)
<1> DEFINE t == Computation!Trim(s)
           r == Reverse(t)
           u == Computation!Trim(r)
           v == Reverse(u)
<1>1. Computation!Contents(s) = v
  BY DEF Computation!Contents, Computation!Reverse, Reverse
<1>2. t \in Seq(Nat) /\ Trimmed(t) /\ \A i \in Nat \ {0} : Cell(t, i) = Cell(s, i)
  BY TrimIs
<1> HIDE DEF t
<1>3. r \in Seq(Nat) /\ Len(r) = Len(t) /\ \A i \in Int : Cell(r, i) = Cell(t, (Len(t) - i) + 1)
  BY <1>2, ReverseIs, ReverseCells
<1> HIDE DEF r
<1>4. u \in Seq(Nat) /\ Trimmed(u) /\ \A i \in Nat \ {0} : Cell(u, i) = Cell(r, i)
  BY <1>3, TrimIs
<1> HIDE DEF u
<1>5. v \in Seq(Nat) /\ Len(v) = Len(u) /\ \A i \in Int : Cell(v, i) = Cell(u, (Len(u) - i) + 1)
  BY <1>4, ReverseIs, ReverseCells
<1> HIDE DEF v
<1>6. \A i \in Int : i \notin Nat \ {0} =>
        Cell(s, i) = Blank /\ Cell(t, i) = Blank /\ Cell(r, i) = Blank /\ Cell(u, i) = Blank
  BY DEF Cell
<1>7. Len(t) \in Nat /\ Len(u) \in Nat /\ Len(s) \in Nat
  BY <1>2, <1>4
<1>8. SameTape(v, s)
  <2> DEFINE e == Len(t) - Len(u)
  <2>1. ASSUME NEW i \in Int PROVE Cell(v, i) = Cell(s, i + e)
    <3> DEFINE j == (Len(u) - i) + 1
    <3>1. j \in Int /\ (Len(t) - j) + 1 = i + e /\ i + e \in Int
      BY <1>7
    <3>2. Cell(v, i) = Cell(u, j)
      BY <1>5
    <3> HIDE DEF j, e
    <3>3. Cell(u, j) = Cell(r, j)
      BY <1>4, <1>6, <3>1
    <3>4. Cell(r, j) = Cell(t, i + e)
      BY <1>3, <3>1
    <3>5. Cell(t, i + e) = Cell(s, i + e)
      BY <1>2, <1>6, <3>1
    <3> QED BY <3>2, <3>3, <3>4, <3>5
  <2>2. e \in Int
    BY <1>7
  <2> HIDE DEF e
  <2> QED BY <2>1, <2>2 DEF SameTape
<1>9. Tight(v)
  <2>1. SUFFICES ASSUME v # <<>> PROVE v[1] # Blank /\ v[Len(v)] # Blank
    BY DEF Tight
  <2>2. Len(u) \in 1..Len(u) /\ 1 \in 1..Len(u) /\ u # <<>> /\ Len(u) \in Int /\ Len(v) = Len(u)
        /\ (Len(u) - 1) + 1 = Len(u) /\ (Len(u) - Len(u)) + 1 = 1
    BY <1>5, <1>7, <2>1
  <2>3. v[1] = Cell(v, 1) /\ v[Len(v)] = Cell(v, Len(u))
    BY <2>2 DEF Cell
  <2>4. Cell(v, 1) = Cell(u, Len(u)) /\ Cell(v, Len(u)) = Cell(u, 1)
    BY <1>5, <2>2
  <2>5. Cell(u, Len(u)) # Blank
    BY <1>4, <2>2 DEF Trimmed, Cell
  <2>6. Cell(u, 1) # Blank
    <3>1. Cell(r, Len(u)) # Blank
      BY <1>4, <2>2, <2>5
    <3>2. Len(r) \in Nat /\ Len(u) \in 1..Len(r)
      BY <1>3, <2>2, <3>1 DEF Cell
    <3>3. t # <<>> /\ Len(t) \in 1..Len(t) /\ (Len(t) - 1) + 1 = Len(t)
      BY <1>2, <1>3, <1>7, <3>2
    <3>4. Cell(t, Len(t)) # Blank
      BY <1>2, <3>3 DEF Trimmed, Cell
    <3>5. Cell(r, 1) = Cell(t, Len(t))
      BY <1>3, <3>3
    <3>6. Cell(u, 1) = Cell(r, 1)
      BY <1>4
    <3> QED BY <3>4, <3>5, <3>6
  <2> QED BY <2>3, <2>4, <2>5, <2>6
<1> QED BY <1>1, <1>5, <1>8, <1>9

LEMMA ConcatIs ==
    ASSUME NEW s \in Seq(Nat), NEW t \in Seq(Nat)
    PROVE  /\ s \o t \in Seq(Nat) /\ Len(s \o t) = Len(s) + Len(t) /\ Len(t) \in Nat
           /\ \A i \in 1..Len(s) : (s \o t)[i] = s[i]
           /\ \A i \in 1..Len(t) : (s \o t)[Len(s) + i] = t[i]
OBVIOUS

(* The tape that is answered is the one the abstract machine answers.       *)
LEMMA AnswerIs ==
    ASSUME NEW c \in Seq(Nat), NEW p \in 1..Len(c)
    PROVE  Computation!Contents(Reverse(LeftOf(c, p)) \o RightOf(c, p))
             = SubSeq(c, FirstSymbol(c), LastSymbol(c))
<1> DEFINE f == FirstSymbol(c)
           l == LastSymbol(c)
           a == SubSeq(c, f, l)
           left == LeftOf(c, p)
           right == RightOf(c, p)
           r == Reverse(left)
           s == r \o right
           k == Len(left)
<1>1. /\ f \in 1..(Len(c) + 1) /\ Len(c) \in Nat /\ l \in 0..Len(c) /\ p \in Nat
      /\ f # Len(c) + 1 => c[f] # Blank
      /\ \A i \in 1..Len(c) : i < f => c[i] = Blank
      /\ l # 0 => c[l] # Blank
      /\ \A i \in 1..Len(c) : i > l => c[i] = Blank
  BY FirstIs, LastIs
<1>2. /\ left \in Seq(Nat) /\ \A i \in Nat \ {0} : Cell(left, i) = Cell(c, p - i)
      /\ right \in Seq(Nat) /\ \A i \in Nat \ {0} : Cell(right, i) = Cell(c, (p + i) - 1)
  BY LeftIs, RightIs
<1> HIDE DEF f, l, left, right
<1>3. r \in Seq(Nat) /\ Len(r) = k /\ k \in Nat
      /\ \A i \in Int : Cell(r, i) = Cell(left, (k - i) + 1)
  <2>1. left \in Seq(Nat) /\ Len(left) \in Nat
    BY <1>2
  <2> QED BY <2>1, ReverseIs, ReverseCells
<1> HIDE DEF r, k
<1>4. SameTape(s, c)
  <2> DEFINE e == (p - k) - 1
  <2>1. /\ s \in Seq(Nat) /\ Len(s) = k + Len(right) /\ Len(right) \in Nat
        /\ \A i \in 1..k : s[i] = r[i]
        /\ \A i \in 1..Len(right) : s[k + i] = right[i]
    BY <1>2, <1>3, ConcatIs
  <2> HIDE DEF s
  <2>2. ASSUME NEW i \in Int PROVE Cell(s, i) = Cell(c, i + e)
    <3>1. CASE i <= k
      <4> DEFINE j == (k - i) + 1
      <4>1. j \in Nat \ {0} /\ p - j = i + e
        BY <1>1, <1>3, <3>1
      <4>2. Cell(r, i) = Cell(left, j)
        BY <1>3
      <4> HIDE DEF j, e
      <4>3. Cell(left, j) = Cell(c, i + e)
        BY <1>2, <4>1
      <4>4. Cell(s, i) = Cell(r, i)
        BY <1>3, <2>1, <3>1 DEF Cell
      <4> QED BY <4>2, <4>3, <4>4
    <3>2. CASE ~(i <= k)
      <4> DEFINE j == i - k
      <4>1. j \in Nat \ {0} /\ (p + j) - 1 = i + e /\ k + j = i
        BY <1>1, <1>3, <3>2
      <4> HIDE DEF j, e
      <4>2. Cell(right, j) = Cell(c, i + e)
        BY <1>2, <4>1
      <4>3. i \in 1..Len(s) <=> j \in 1..Len(right)
        <5> DEFINE n == Len(right)
        <5>1. Len(s) = k + n /\ k \in Nat /\ n \in Nat
          BY <1>3, <2>1
        <5> HIDE DEF n
        <5> QED BY <4>1, <5>1 DEF n
      <4>4. Cell(s, i) = Cell(right, j)
        BY <2>1, <4>1, <4>3 DEF Cell
      <4> QED BY <4>2, <4>4
    <3> QED BY <3>1, <3>2, <1>3
  <2>3. e \in Int
    BY <1>1, <1>3
  <2> HIDE DEF e
  <2> QED BY <2>2, <2>3 DEF SameTape
<1>5. s \in Seq(Nat)
  BY <1>2, <1>3
<1>6. a \in Seq(Nat) /\ Tight(a) /\ \A i \in Int : Cell(a, i) = Cell(c, (i + f) - 1)
  <2>1. CASE f <= l
    <3>1. a \in Seq(Nat) /\ Len(a) = (l + 1) - f /\ \A i \in 1..((l + 1) - f) : a[i] = c[(f + i) - 1]
      <4>1. f \in Nat \ {0} /\ l \in Nat /\ l <= Len(c) /\ f <= l + 1
        BY <1>1, <2>1
      <4> QED BY <4>1, SubSeqIs
    <3> HIDE DEF a
    <3>2. f # Len(c) + 1 /\ l # 0 /\ 1 \in 1..((l + 1) - f) /\ (l + 1) - f \in 1..((l + 1) - f)
          /\ (f + 1) - 1 = f /\ (f + ((l + 1) - f)) - 1 = l
      BY <1>1, <2>1
    <3>3. a[1] = c[f] /\ a[(l + 1) - f] = c[l]
      BY <3>1, <3>2
    <3>4. Tight(a)
      BY <1>1, <3>1, <3>2, <3>3 DEF Tight
    <3>5. ASSUME NEW i \in Int PROVE Cell(a, i) = Cell(c, (i + f) - 1)
      <4>1. CASE i \in 1..((l + 1) - f)
        <5>1. (i + f) - 1 = (f + i) - 1 /\ (i + f) - 1 \in 1..Len(c)
          BY <1>1, <2>1, <4>1
        <5> QED BY <3>1, <4>1, <5>1 DEF Cell
      <4>2. CASE i \notin 1..((l + 1) - f)
        <5>1. (i + f) - 1 < f \/ (i + f) - 1 > l
          BY <1>1, <2>1, <4>2
        <5>2. Cell(c, (i + f) - 1) = Blank
          BY <1>1, <5>1 DEF Cell
        <5> QED BY <3>1, <4>2, <5>2 DEF Cell
      <4> QED BY <4>1, <4>2
    <3> QED BY <3>1, <3>4, <3>5
  <2>2. CASE ~(f <= l)
    <3>1. a = <<>>
      BY <1>1, <2>2
    <3>2. ASSUME NEW i \in Int PROVE Cell(c, i) = Blank
      BY <1>1, <2>2 DEF Cell
    <3>3. ASSUME NEW i \in Int PROVE Cell(a, i) = Blank
      BY <3>1 DEF Cell
    <3>4. ASSUME NEW i \in Int PROVE (i + f) - 1 \in Int
      BY <1>1
    <3> QED BY <3>1, <3>2, <3>3, <3>4 DEF Tight
  <2> QED BY <2>1, <2>2
<1> DEFINE o == Computation!Contents(s)
<1>7. o \in Seq(Nat) /\ Tight(o) /\ SameTape(o, s)
  BY <1>5, ContentsIs
<1> HIDE DEF a, o, s
<1>8. SameTape(o, a)
  <2>1. PICK e1 \in Int : \A i \in Int : Cell(o, i) = Cell(s, i + e1)
    BY <1>7 DEF SameTape
  <2>2. PICK e2 \in Int : \A i \in Int : Cell(s, i) = Cell(c, i + e2)
    BY <1>4 DEF SameTape
  <2> DEFINE e == ((e1 + e2) - f) + 1
  <2>3. ASSUME NEW i \in Int PROVE Cell(o, i) = Cell(a, i + e)
    <3>1. i + e1 \in Int /\ i + e \in Int /\ (i + e1) + e2 = ((i + e) + f) - 1
      BY <1>1, <2>1, <2>2
    <3> HIDE DEF e
    <3>2. Cell(o, i) = Cell(c, (i + e1) + e2)
      BY <2>1, <2>2, <3>1
    <3>3. Cell(a, i + e) = Cell(c, ((i + e) + f) - 1)
      BY <1>6, <3>1
    <3> QED BY <3>1, <3>2, <3>3
  <2>4. e \in Int
    BY <1>1, <2>1, <2>2
  <2> HIDE DEF e
  <2> QED BY <2>3, <2>4 DEF SameTape
<1>9. o = a
  BY <1>6, <1>7, <1>8, TightSame
<1> QED
  BY <1>9 DEF o, a, s, r, left, right, f, l

-----------------------------------------------------------------------------
(* The refinement.                                                          *)

(* A machine that lost its symbol says and hears nothing of itself; and     *)
(* others send the tapes of requests.                                       *)
LostSilent ==
    On /\ lost => current # Initial /\ self = <<>> /\ Own(incoming) = {}
Wanted == \A i \in DOMAIN incoming : incoming[i].from # Self => incoming[i].text \in Input

Faithful == Typed /\ OneSymbol /\ LostSilent /\ Wanted

(* A machine that is promised to compute was so before.                     *)
LEMMA OnBefore ==
    ASSUME Typed, [Next]_vars, On'
    PROVE  /\ On
           /\ ReceiveMessage =>
                /\ AcceptRequest(Head(incoming)) \/ Compute(Head(incoming))
                /\ current # Initial => Head(incoming).from = Self
<1>1. disturbed \in BOOLEAN /\ lost \in BOOLEAN
  BY DEF Typed, MailTypes
<1>2. ReceiveMessage => /\ On
                        /\ AcceptRequest(Head(incoming)) \/ Compute(Head(incoming))
                        /\ current # Initial => Head(incoming).from = Self
  BY <1>1 DEF ReceiveMessage, Reject, On
<1>3. ~ReceiveMessage => On
  BY <1>1 DEF Next, Stop, Request, ArriveSelf, GiveUpSelf, vars, historyVars, On
<1> QED BY <1>2, <1>3

LEMMA LostSilentNext == Typed /\ OneSymbol /\ LostSilent /\ [Next]_vars => LostSilent'
<1> SUFFICES ASSUME Typed, OneSymbol, LostSilent, [Next]_vars, On', lost'
             PROVE  current' # Initial /\ self' = <<>> /\ Own(incoming') = {}
  BY DEF LostSilent
<1>1. On /\ self \in Seq(Text) /\ incoming \in Seq(Mail) /\ lost \in BOOLEAN
  BY OnBefore DEF Typed, MailTypes
<1>2. CASE ReceiveMessage
  <2>1. lost /\ incoming # <<>>
    BY <1>2 DEF ReceiveMessage
  <2>2. current # Initial /\ Own(incoming) = {}
    BY <1>1, <2>1 DEF LostSilent
  <2>3. Head(incoming).from = Self
    BY <1>2, <2>2, OnBefore
  <2>4. 1 \in Own(incoming)
    BY <1>1, <2>1, <2>3 DEF Own
  <2> QED BY <2>2, <2>4
<1>3. CASE Stop
  BY <1>3 DEF Stop, On
<1>4. CASE \E r \in Requester, input \in Input : Request(r, input)
  <2>1. PICK r \in Requester, input \in Input : Request(r, input)
    BY <1>4
  <2> DEFINE m == [from |-> r, text |-> input]
  <2>2. m.from # Self
    BY Constants
  <2>3. incoming' = Append(incoming, m) /\ current' = current /\ self' = self /\ lost' = lost
    BY <2>1 DEF Request
  <2> HIDE DEF m
  <2>4. Own(incoming') = Own(incoming)
    BY <1>1, <2>2, <2>3, OwnAppend
  <2> QED BY <1>1, <2>3, <2>4 DEF LostSilent
<1>5. CASE ArriveSelf
  BY <1>1, <1>5 DEF ArriveSelf, historyVars, LostSilent
<1>6. CASE GiveUpSelf
  <2>1. self # <<>> /\ self' = Tail(self) /\ incoming' = incoming /\ current' = current
    BY <1>6 DEF GiveUpSelf
  <2>2. ~lost
    BY <1>1, <2>1 DEF LostSilent
  <2>3. current # Initial /\ Own(incoming) = {} /\ self = <<<<cells[pos]>>>>
    BY <1>1, <2>1, <2>2 DEF OneSymbol, On
  <2>4. self' = <<>>
    BY <2>1, <2>3
  <2> QED BY <2>1, <2>3, <2>4
<1>7. CASE UNCHANGED vars
  BY <1>1, <1>7 DEF vars, historyVars, LostSilent
<1> QED
  BY <1>2, <1>3, <1>4, <1>5, <1>6, <1>7 DEF Next

LEMMA WantedNext == Typed /\ Wanted /\ [Next]_vars => Wanted'
<1> SUFFICES ASSUME Typed, Wanted, [Next]_vars PROVE Wanted'
  OBVIOUS
<1>1. incoming \in Seq(Mail)
  BY DEF Typed, MailTypes
<1>2. CASE incoming' = incoming
  BY <1>2 DEF Wanted
<1>3. CASE incoming # <<>> /\ incoming' = Tail(incoming)
  <2>1. ASSUME NEW i \in DOMAIN incoming'
        PROVE  i + 1 \in DOMAIN incoming /\ incoming'[i] = incoming[i + 1]
    BY <1>1, <1>3
  <2> QED BY <2>1 DEF Wanted
<1>4. ASSUME NEW m, m.from # Self => m.text \in Input, incoming' = Append(incoming, m)
      PROVE  Wanted'
  <2>1. ASSUME NEW i \in DOMAIN incoming'
        PROVE  \/ i \in DOMAIN incoming /\ incoming'[i] = incoming[i]
               \/ incoming'[i] = m
    BY <1>1, <1>4
  <2> QED BY <1>4, <2>1 DEF Wanted
<1>5. CASE ReceiveMessage
  BY <1>3, <1>5 DEF ReceiveMessage
<1>6. CASE \E r \in Requester, input \in Input : Request(r, input)
  <2>1. PICK r \in Requester, input \in Input : Request(r, input)
    BY <1>6
  <2> DEFINE m == [from |-> r, text |-> input]
  <2>2. m.text \in Input /\ incoming' = Append(incoming, m)
    BY <2>1 DEF Request
  <2> HIDE DEF m
  <2> QED BY <1>4, <2>2
<1>7. CASE ArriveSelf
  <2> DEFINE m == [from |-> Self, text |-> Head(self)]
  <2>1. m.from = Self /\ incoming' = Append(incoming, m)
    BY <1>7 DEF ArriveSelf
  <2> HIDE DEF m
  <2> QED BY <1>4, <2>1
<1>8. CASE Stop \/ GiveUpSelf \/ UNCHANGED vars
  BY <1>2, <1>8 DEF Stop, GiveUpSelf, vars
<1> QED
  BY <1>5, <1>6, <1>7, <1>8 DEF Next

LEMMA FaithfulHolds == Spec => []Faithful
<1>1. Init => LostSilent /\ Wanted
  BY DEF Init, LostSilent, Wanted
<1> QED
  BY <1>1, TypedInit, TypedNext, SymbolInit, SymbolNext, LostSilentNext, WantedNext, PTL
  DEF Spec, Faithful

(* What a computing machine's step does with the answer.                    *)
LEMMA TransitionAnswers ==
    ASSUME NEW state, NEW tape \in Tape, Transition(state, tape)
    PROVE  /\ state \in States => answer' = answer
           /\ state = Halt /\ requester' # Self => answer' = <<requester', tape.cells>>
<1>1. CASE state = Halt /\ EnterHalt(tape)
  BY <1>1, Constants DEF EnterHalt, Send
<1>2. CASE state \in States /\ EnterState(state, tape)
  BY <1>2, Constants DEF EnterState, Send
<1>3. CASE state \notin States \cup {Halt} /\ EnterUnknown
  BY <1>3 DEF EnterUnknown
<1> QED BY <1>1, <1>2, <1>3 DEF Transition

(* A request that is accepted begins a computation.                         *)
LEMMA AcceptBegins ==
    ASSUME Faithful, [Next]_vars, On', ReceiveMessage, AcceptRequest(Head(incoming))
    PROVE  Computation!Begin
<1> DEFINE m == Head(incoming)
<1>1. /\ On /\ incoming \in Seq(Mail) /\ incoming # <<>> /\ lost \in BOOLEAN
  BY OnBefore DEF Faithful, Typed, MailTypes, ReceiveMessage
<1>2. m \in Mail /\ m = incoming[1] /\ 1 \in DOMAIN incoming
  BY <1>1, HeadMail
<1>3. /\ Assign(m.text) \in Tape /\ SetTape(Assign(m.text)) /\ requester' = m.from
      /\ m.from \in Requester \cup {Self} /\ m.text \in Text
      /\ Transition(FirstState, Assign(m.text)) /\ current = Initial
  BY <1>2, AcceptIs DEF Faithful
<1>4. Own(incoming) = {}
  BY <1>1, <1>3 DEF Faithful, LostSilent, OneSymbol, On
<1>5. m.from \in Requester /\ m.text \in Input
  BY <1>2, <1>3, <1>4 DEF Own, Faithful, Wanted
<1>6. cells' = m.text /\ pos' = 1
  BY <1>3 DEF SetTape, Assign
<1> HIDE DEF m
<1>7. TransitionTo(FirstState, Assign(m.text))
  BY <1>3, TransitionIs DEF Faithful
<1>8. FirstState \in States /\ FirstState # Halt
  BY StatesAre, Constants
<1>9. current' = FirstState /\ answer' = answer
  BY <1>3, <1>7, <1>8, TransitionAnswers DEF TransitionTo
<1>10. ~Computing /\ Computing'
  BY <1>3, <1>8, <1>9, Constants DEF Computing
<1>11. FirstState = Min(States)
  BY DEF FirstState
<1> DEFINE text == m.text
<1>12. text \in Seq(Nat) /\ 1 \in 1..Len(text)
  BY <1>3 DEF Text
<1>13. LeftOf(text, 1) = <<>>
  <2> HIDE DEF text
  <2> DEFINE l == LeftOf(text, 1)
  <2>1. l \in Seq(Nat) /\ Trimmed(l) /\ \A i \in Nat \ {0} : Cell(l, i) = Cell(text, 1 - i)
    BY <1>12, LeftIs
  <2>2. <<>> \in Seq(Nat) /\ Trimmed(<<>>)
    BY DEF Trimmed
  <2> HIDE DEF l
  <2>3. ASSUME NEW i \in Nat \ {0} PROVE Cell(l, i) = Cell(<<>>, i)
    BY <2>1 DEF Cell
  <2>4. l = <<>>
    BY <2>1, <2>2, <2>3, SameCells
  <2> QED BY <2>4 DEF l
<1>14. RightOf(text, 1) = Computation!Trim(text)
  BY DEF RightOf, Computation!Trim, Computation!LastSymbol, LastSymbol, Computation!Max, Max
<1>15. LeftOf(cells', pos') = <<>> /\ RightOf(cells', pos') = Computation!Trim(text)
  BY <1>6, <1>13, <1>14
<1> HIDE DEF text
<1>16. text \in Input
  BY <1>5 DEF text
<1> QED
  BY <1>1, <1>3, <1>5, <1>9, <1>10, <1>11, <1>15, <1>16
  DEF Computation!Begin, LeftOf, RightOf

(* The abstract machine's move, for the sequences a tape stands for.        *)
LEMMA ComputationMoved ==
    ASSUME Computing, NEW q
    PROVE  LET l == LeftOf(cells, pos)
               r == RightOf(cells, pos)
           IN  /\ Computation!Moved(q).left = MovedLeft(q.write, q.move, l, r)
               /\ Computation!Moved(q).right = MovedRight(q.write, q.move, l, r)
<1>1. CASE q.move = "L"
  BY <1>1 DEF Computation!Moved, MovedLeft, MovedRight, LeftOf, RightOf
<1>2. CASE q.move = "R"
  BY <1>2 DEF Computation!Moved, MovedLeft, MovedRight, LeftOf, RightOf
<1>3. CASE q.move \notin {"L", "R"}
  BY <1>3 DEF Computation!Moved, MovedLeft, MovedRight, LeftOf, RightOf
<1> QED BY <1>1, <1>2, <1>3

(* A symbol that is handled is a step of the computation, or its last.      *)
LEMMA ComputeSteps ==
    ASSUME Faithful, [Next]_vars, On', ReceiveMessage, Compute(Head(incoming))
    PROVE  Computation!Step \/ Computation!Finish
<1> DEFINE m == Head(incoming)
           q == Quadruple(m)
           tape == [cells |-> cells, pos |-> pos]
           next == TapeAfter(m)
           l == LeftOf(cells, pos)
           r == RightOf(cells, pos)
           l2 == LeftOf(next.cells, next.pos)
           r2 == RightOf(next.cells, next.pos)
<1>1. /\ On /\ incoming \in Seq(Mail) /\ incoming # <<>> /\ lost \in BOOLEAN
  BY OnBefore DEF Faithful, Typed, MailTypes, ReceiveMessage
<1>2. m \in Mail /\ m = incoming[1] /\ 1 \in DOMAIN incoming
  BY <1>1, HeadMail
<1>3. /\ next \in Tape /\ SetTape(next) /\ requester' = requester
      /\ Transition(q.next, next) /\ current \in States
      /\ q \in Quintuple /\ q \in Row /\ q.state = current /\ q.read = m.text[1]
  BY <1>2, ComputeIs DEF Faithful
<1>4. current # Initial /\ m.from = Self
  BY <1>3, Constants, OnBefore DEF Faithful
<1>5. 1 \in Own(incoming)
  BY <1>2, <1>4 DEF Own
<1>6. requester \in Requester /\ m.text = <<cells[pos]>>
  <2>1. ~lost
    BY <1>1, <1>5 DEF Faithful, LostSilent
  <2>2. requester \in Requester /\ \E i \in Own(incoming) :
                                     Own(incoming) = {i} /\ incoming[i].text = <<cells[pos]>>
    BY <1>1, <1>4, <1>5, <2>1 DEF Faithful, OneSymbol, On
  <2> QED BY <1>2, <1>5, <2>2
<1>7. tape \in Tape /\ cells \in Seq(Nat) /\ pos \in 1..Len(cells)
  <2>1. tape \in Tape
    BY <1>4 DEF Faithful, Typed, TapeTypes
  <2> QED BY <2>1 DEF Tape, Text
<1>8. q.write \in Nat /\ q.move \in {"L", "R", "N"}
  BY <1>3 DEF Row
<1>9. Follows(tape, q.write, q.move, next)
  BY <1>7, <1>8, FollowsIs DEF TapeAfter
<1>10. cells' = next.cells /\ pos' = next.pos
  BY <1>3 DEF SetTape
<1> HIDE DEF m, q, next
<1>11. Computing
  BY <1>1, <1>4 DEF Computing
<1>12. Computation!Moved(q).left = l2 /\ Computation!Moved(q).right = r2
  BY <1>3, <1>7, <1>8, <1>9, <1>11, MovedIs, ComputationMoved
<1>13. Computation!Symbol(r) = q.read
  <2>1. r \in Seq(Nat) /\ Trimmed(r) /\ \A i \in Nat \ {0} : Cell(r, i) = Cell(cells, (pos + i) - 1)
    BY <1>7, RightIs
  <2> HIDE DEF r
  <2>2. Computation!Symbol(r) = Cell(r, 1)
    BY <2>1, RestIs
  <2>3. (pos + 1) - 1 = pos /\ Cell(cells, pos) = cells[pos]
    BY <1>7 DEF Cell
  <2>4. q.read = cells[pos]
    BY <1>3, <1>6
  <2> QED BY <2>1, <2>2, <2>3, <2>4
<1>14. TransitionTo(q.next, next)
  BY <1>3, TransitionIs DEF Faithful
<1>15. status' = status
  BY <1>1, <1>14 DEF TransitionTo, On
<1>16. requester # Self /\ Halt \notin States /\ Initial \notin States
  BY <1>6, Constants
<1>17. CASE q.next \in States
  <2>1. current' = q.next /\ answer' = answer
    BY <1>3, <1>14, <1>16, <1>17, TransitionAnswers DEF TransitionTo
  <2>2. Computing'
    BY <1>16, <1>17, <2>1 DEF Computing
  <2>3. q.next # Halt
    BY <1>16, <1>17
  <2>4. Computation!Step
    <3> HIDE DEF r
    <3> SUFFICES /\ q.state = (IF On THEN current ELSE Off)
                 /\ q.read = Computation!Symbol(IF Computing THEN r ELSE <<>>)
                 /\ (IF On THEN current ELSE Off)' = q.next
                 /\ (IF Computing THEN LeftOf(cells, pos) ELSE <<>>)' = Computation!Moved(q).left
                 /\ (IF Computing THEN RightOf(cells, pos) ELSE <<>>)' = Computation!Moved(q).right
                 /\ UNCHANGED <<IF On THEN requester ELSE Self,
                      IF On /\ answer # <<>>
                        THEN <<answer[1], SubSeq(answer[2], FirstSymbol(answer[2]),
                                                 LastSymbol(answer[2]))>>
                        ELSE <<>>>>
      BY <1>3, <2>3 DEF Computation!Step, LeftOf, RightOf, r
    <3>1. LeftOf(cells', pos') = l2 /\ RightOf(cells', pos') = r2
      BY <1>10
    <3> QED BY <1>1, <1>3, <1>11, <1>12, <1>13, <2>1, <2>2, <3>1
  <2> QED BY <2>4
<1>18. CASE q.next = Halt
  <2>1. current' = Initial /\ answer' = <<requester, next.cells>>
    BY <1>3, <1>14, <1>16, <1>18, TransitionAnswers DEF TransitionTo
  <2>2. ~Computing'
    BY <2>1 DEF Computing
  <2>3. next.cells \in Seq(Nat) /\ next.pos \in 1..Len(next.cells)
    BY <1>3 DEF Tape, Text
  <2> DEFINE a == SubSeq(next.cells, FirstSymbol(next.cells), LastSymbol(next.cells))
  <2>4. Computation!Contents(Reverse(l2) \o r2) = a
    BY <2>3, AnswerIs
  <2>5. Computation!Contents(Computation!Reverse(l2) \o r2) = a
    BY <2>4 DEF Computation!Reverse, Reverse
  <2>6. Computation!Finish
    <3> HIDE DEF r
    <3> SUFFICES /\ q.state = (IF On THEN current ELSE Off)
                 /\ q.read = Computation!Symbol(IF Computing THEN r ELSE <<>>)
                 /\ (IF On THEN current ELSE Off)' = Initial
                 /\ (IF Computing THEN LeftOf(cells, pos) ELSE <<>>)' = <<>>
                 /\ (IF Computing THEN RightOf(cells, pos) ELSE <<>>)' = <<>>
                 /\ (IF On /\ answer # <<>>
                       THEN <<answer[1], SubSeq(answer[2], FirstSymbol(answer[2]), LastSymbol(answer[2]))>>
                       ELSE <<>>)'
                      = <<IF On THEN requester ELSE Self,
                          Computation!Contents(Computation!Reverse(Computation!Moved(q).left)
                                                 \o Computation!Moved(q).right)>>
                 /\ UNCHANGED (IF On THEN requester ELSE Self)
      BY <1>3, <1>18 DEF Computation!Finish, LeftOf, RightOf, r
    <3>1. answer' # <<>> /\ answer'[1] = requester /\ answer'[2] = next.cells
      BY <2>1
    <3>2. Computation!Contents(Computation!Reverse(Computation!Moved(q).left)
                                                 \o Computation!Moved(q).right) = a
      BY <1>12, <2>5
    <3>3. SubSeq(answer'[2], FirstSymbol(answer'[2]), LastSymbol(answer'[2])) = a
      BY <3>1
    <3> HIDE DEF a
    <3> QED BY <1>1, <1>3, <1>11, <1>13, <2>1, <2>2, <3>1, <3>2, <3>3
  <2> QED BY <2>6
<1> QED BY <1>1, <1>14, <1>15, <1>17, <1>18 DEF TransitionTo, On

(* Every other step leaves what the abstract machine is about alone.        *)
LEMMA OthersStutter ==
    ASSUME Faithful, [Next]_vars, On', ~ReceiveMessage
    PROVE  UNCHANGED <<status, current, cells, pos, requester, answer, disturbed>>
BY DEF Next, Stop, Request, ArriveSelf, GiveUpSelf, vars, tapeVars, historyVars, On

LEMMA RefinementInit == Init => Computation!Init
BY DEF Init, Computation!Init, On, Computing

LEMMA RefinementNext ==
    Faithful /\ [Next]_vars => [Computation!Next]_(Computation!vars)
<1> SUFFICES ASSUME Faithful, [Next]_vars
             PROVE  Computation!Next \/ UNCHANGED Computation!vars
  OBVIOUS
<1>1. CASE ~On'
  BY <1>1 DEF Computation!Next, Computation!TurnOff, Computing
<1>2. CASE On' /\ ReceiveMessage
  <2>1. AcceptRequest(Head(incoming)) \/ Compute(Head(incoming))
    BY <1>2, OnBefore DEF Faithful
  <2> QED
    BY <1>2, <2>1, AcceptBegins, ComputeSteps DEF Computation!Next
<1>3. CASE On' /\ ~ReceiveMessage
  <2>1. UNCHANGED <<status, current, cells, pos, requester, answer, disturbed>>
    BY <1>3, OthersStutter
  <2>2. (On' <=> On) /\ (Computing' <=> Computing)
    BY <2>1 DEF On, Computing
  <2>3. UNCHANGED Computation!vars
    BY <1>3, <2>1, <2>2 DEF Computation!vars
  <2> QED BY <2>3
<1> QED BY <1>1, <1>2, <1>3

(* The tape a requester is sent is the one the Turing machine with this     *)
(* table computes from the tape it sent, started in the state with the      *)
(* smallest character, for any table, any tapes and any number of           *)
(* requesters, as long as no request interferes with a computation.         *)
THEOREM TuringMachineImplemented == Spec => ImplementsTuringMachine
BY FaithfulHolds, RefinementInit, RefinementNext, PTL
DEF Spec, ImplementsTuringMachine, Computation!Spec

(* That state is the one samples/turing/README.md says, "the current state  *)
(* of the first quintuple", only for a table that begins with a quintuple   *)
(* of its smallest state.                                                   *)
THEOREM StartIsTheDocumentedOne ==
    Min(States) = Program[1].state
      <=> \A q \in Quintuple : Program[1].state <= q.state
<1>1. Program[1] \in Quintuple
  BY Constants DEF Quintuple, ToSet
<1>2. States \in SUBSET Nat /\ States # {} /\ Program[1].state \in States
  BY <1>1, StatesAre DEF States
<1>3. Min(States) \in States /\ \A y \in States : Min(States) <= y
  BY <1>2, MinIs
<1>4. ASSUME \A q \in Quintuple : Program[1].state <= q.state
      PROVE  Min(States) = Program[1].state
  <2>1. \A y \in States : Program[1].state <= y
    BY <1>4 DEF States
  <2>2. Program[1].state <= Min(States) /\ Min(States) <= Program[1].state
    BY <1>2, <1>3, <2>1
  <2>3. Program[1].state \in Nat /\ Min(States) \in Nat
    BY <1>2, <1>3
  <2> QED
    BY <2>2, <2>3
<1>5. ASSUME Min(States) = Program[1].state
      PROVE  \A q \in Quintuple : Program[1].state <= q.state
  BY <1>3, <1>5 DEF States
<1> QED
  BY <1>4, <1>5
=============================================================================

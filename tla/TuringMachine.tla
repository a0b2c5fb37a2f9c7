---------------------------- MODULE TuringMachine ----------------------------
(***************************************************************************)
(* What samples/turing promises whoever sends it a tape: the computation   *)
(* of a Turing machine on a tape that is infinite in both directions.      *)
(* There is no message here, and no end of the tape.                       *)
(***************************************************************************)
EXTENDS Integers, SequencesExt

CONSTANTS
    Quintuple,      \* the table, a set of records
    Start,          \* the state of the table a computation begins in
    Requester,      \* who may ask for a computation
    Input,          \* the tapes they may send
    Blank,          \* the symbol of an empty cell
    Idle, Halt,     \* the states outside the table
    Off,            \* the state of a machine nothing is promised of
    Nobody          \* no requester

VARIABLES
    state,
    left, right,    \* the tape to the left of the head, nearest cell first,
                    \* and from the head on, up to the last cell not blank
    requester,      \* whom the answer is for
    answer          \* the last answer and whom it was sent to

vars == <<state, left, right, requester, answer>>

LastSymbol(s) == Max({0} \cup {i \in DOMAIN s : s[i] # Blank})
Trim(s) == SubSeq(s, 1, LastSymbol(s))
Symbol(s) == IF s = <<>> THEN Blank ELSE Head(s)
Rest(s) == IF s = <<>> THEN <<>> ELSE Tail(s)

(* The symbols on a tape, without the blanks on either side.                *)
Contents(s) == Reverse(Trim(Reverse(Trim(s))))

Init ==
    /\ state = Idle
    /\ left = <<>> /\ right = <<>>
    /\ requester = Nobody
    /\ answer = <<>>

Begin ==
    /\ state = Idle
    /\ state' = Start
    /\ left' = <<>> /\ \E input \in Input : right' = Trim(input)
    /\ requester' \in Requester
    /\ UNCHANGED answer

(* The tape after a quintuple was followed.                                 *)
Moved(q) ==
    LET written == <<q.write>> \o Rest(right)
    IN  CASE q.move = "L" -> [left |-> Rest(left),
                              right |-> Trim(<<Symbol(left)>> \o written)]
          [] q.move = "R" -> [left |-> Trim(<<q.write>> \o left),
                              right |-> Rest(right)]
          [] OTHER -> [left |-> left, right |-> Trim(written)]

(* Some quintuple for the state and the symbol is followed.                 *)
Step ==
    \E q \in Quintuple :
      /\ q.state = state /\ q.read = Symbol(right) /\ q.next # Halt
      /\ state' = q.next
      /\ left' = Moved(q).left /\ right' = Moved(q).right
      /\ UNCHANGED <<requester, answer>>

(* The last one: the tape is answered, and the next request can come.       *)
Finish ==
    \E q \in Quintuple :
      /\ q.state = state /\ q.read = Symbol(right) /\ q.next = Halt
      /\ state' = Idle
      /\ left' = <<>> /\ right' = <<>>
      /\ answer' = <<requester, Contents(Reverse(Moved(q).left) \o Moved(q).right)>>
      /\ UNCHANGED requester

TurnOff ==
    /\ state' = Off
    /\ left' = <<>> /\ right' = <<>>
    /\ requester' = Nobody /\ answer' = <<>>

Next == Begin \/ Step \/ Finish \/ TurnOff

Spec == Init /\ [][Next]_vars
==============================================================================

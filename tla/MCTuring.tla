------------------------------ MODULE MCTuring ------------------------------
(***************************************************************************)
(* The busy beaver of samples/turing/README.md, whose table moves in every *)
(* direction and leaves a short tape on both sides.  Its first quintuple   *)
(* is not one of the state it starts in, and there are two quintuples      *)
(* more: one that comes too late to be followed, and one that goes to a    *)
(* state there is none of.                                                 *)
(***************************************************************************)
EXTENDS Turing

Row(state, read, write, move, next) ==
    [state |-> state, read |-> read, write |-> write, move |-> move, next |-> next]

(* "B01LA;B11RB;A01RB;A11LC;C01LB;C11NH;A00NA;B22NX"                        *)
BusyBeaver ==
    <<Row(66, 48, 49, "L", 65), Row(66, 49, 49, "R", 66),
      Row(65, 48, 49, "R", 66), Row(65, 49, 49, "L", 67),
      Row(67, 48, 49, "L", 66), Row(67, 49, 49, "N", 72),
      Row(65, 48, 48, "N", 65), Row(66, 50, 50, "N", 88)>>

(* "0", "00100", "2", which is not read at the start, and "02".             *)
Tapes == {<<48>>, <<48, 48, 49, 48, 48>>, <<50>>, <<48, 50>>}
==============================================================================

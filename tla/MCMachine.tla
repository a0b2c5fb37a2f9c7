----------------------------- MODULE MCMachine -----------------------------
(***************************************************************************)
(* An instance of Machine for TLC: a state with two states below it beside *)
(* a state of its own.                                                     *)
(***************************************************************************)
EXTENDS Machine

Tree == [on |-> "", warm |-> "on", hot |-> "on", off |-> ""]
States == DOMAIN Tree

(* "message" is handled by the ancestor, "errored" only by one leaf, and    *)
(* "off" takes anything.                                                    *)
Receivers ==
    [on |-> {"message", "started", "exited", "exit"}, warm |-> {"errored"},
     hot |-> {"message"}, off |-> {"*"}]
=============================================================================

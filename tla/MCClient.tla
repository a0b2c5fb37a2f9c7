------------------------------ MODULE MCClient ------------------------------
(***************************************************************************)
(* Instances of Client for TLC.                                            *)
(***************************************************************************)
EXTENDS Client

(* A machine is started, followed and stopped, by the client on the host of *)
(* the server or by the other one; started and talked to; the machines are  *)
(* listed.                                                                  *)
CalledWith ==
    {[c1 |-> "follow", c2 |-> "stop"],
     [c1 |-> "send", c2 |-> "start"], [c1 |-> "list", c2 |-> "list"]}

(* Where server and machines run, and another host.                         *)
Local == <<127, 0, 0, 1>>
Remote == <<10, 0, 0, 2>>

Addresses ==
    [server |-> [ip |-> Local, port |-> 42000],
     m1 |-> [ip |-> Local, port |-> 42001], m2 |-> [ip |-> Local, port |-> 42002],
     c1 |-> [ip |-> Local, port |-> 50001], c2 |-> [ip |-> Remote, port |-> 50002]]
==============================================================================

---------------------------- MODULE MCReception ----------------------------
(***************************************************************************)
(* An instance of Reception for TLC: two groups of which one can be joined *)
(* twice, on different ports.                                              *)
(***************************************************************************)
EXTENDS Reception

Ports == [g \in Group |-> 40 + g]
============================================================================

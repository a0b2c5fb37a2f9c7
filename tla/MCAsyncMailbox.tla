--------------------------- MODULE MCAsyncMailbox ---------------------------
(***************************************************************************)
(* Instances of AsyncMailbox for TLC.                                      *)
(***************************************************************************)
EXTENDS AsyncMailbox

At(host, port) == [ip |-> <<10, 0, 0, host>>, port |-> port]

(* Two processes on different hosts and different ports, which operator==   *)
(* tells apart, and three processes of one host, which it does not.         *)
A == At(1, 42001)
B == At(2, 42002)
C == At(2, 42003)
G == [ip |-> <<224, 0, 0, 1>>, port |-> 42100]

Pair == {A, B}
Neighbours == {A, B, C}
Both == {<<A, B>>, <<B, A>>}
OneWay == {<<A, B>>}
ToNeighbours == {<<A, B>>, <<A, C>>}
WithMulticast == {<<A, B>>, <<B, G>>}
Receivers == {A}
Sender == {A}
AnyText == {"message", Ack}
=============================================================================

------------------------------- MODULE Address -------------------------------
(***************************************************************************)
(* Socket addresses (include/Wink/address.h, src/address.cpp).  An address *)
(* is a record of the resolved IP, a tuple of four octets, and the UDP     *)
(* port.  ip_ and resolved_ are one field here: equal ip_ strings resolve  *)
(* alike, so the comparison of resolved_ subsumes the one of ip_.          *)
(***************************************************************************)
EXTENDS Integers

(* operator==: equal ports suffice, and so do equal IPs.  std::map does not *)
(* use it: map lookups go through operator<, a strict order of the pairs    *)
(* <<resolved_, port_>>, and therefore compare both parts exactly; a map    *)
(* keyed by Address is a function on addresses in these modules.            *)
SameAddress(a, b) == a.port = b.port \/ a.ip = b.ip

(* The class D addresses 224.0.0.0 to 239.255.255.255.                      *)
IsMulticast(a) == a.ip[1] \in 224..239

(* Two endpoints operator== tells apart.                                    *)
Distinguishable(nodes) ==
    \A a, b \in nodes : SameAddress(a, b) => a = b
==============================================================================

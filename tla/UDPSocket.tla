----------------------------- MODULE UDPSocket -----------------------------
(***************************************************************************)
(* The descriptors of a UDPSocket (src/udp.cpp, include/Wink/socket.h): one*)
(* for unicasts and one for each multicast group that was joined.  Every   *)
(* call of the kernel may fail; a constructor that throws ends the program.*)
(*                                                                         *)
(* A multicast socket is bound to INADDR_ANY: the kernel gives it what is  *)
(* sent to its port, in any group the host is a member of.                 *)
(***************************************************************************)
EXTENDS Integers, Sequences, FiniteSets, Functions

CONSTANTS
    Group,          \* multicast addresses, numbers in the order of std::map
    PortOf,         \* PortOf[g]: the port of g
    Descriptor      \* bound: what the kernel can open at a time

Unbound == -1       \* the port of a socket before bind, and of the unicast
NoGroup == 0
None == 0           \* no descriptor

ASSUME UDPSocketAssumption ==
    /\ Group \subseteq Nat \ {0} /\ IsFiniteSet(Group)
    /\ PortOf \in [Group -> Nat]
    /\ Descriptor \subseteq Nat \ {0} /\ IsFiniteSet(Descriptor)

VARIABLES
    open,           \* open[fd]: the port, membership and queue of a socket
    unicast,        \* unicast_socket_
    multicast,      \* multicast_sockets_: from the groups joined
    life,           \* of the object: "none", "live", "thrown", "destroyed"
    overwritten     \* descriptors JoinGroup replaced in the map (history)

socketVars == <<open, unicast, multicast, life, overwritten>>

SocketInit ==
    /\ open = <<>>
    /\ unicast = None
    /\ multicast = <<>>
    /\ life = "none"
    /\ overwritten = {}

(* Changes of a function at one argument more or less.                      *)
With(f, x, y) == [z \in DOMAIN f \cup {x} |-> IF z = x THEN y ELSE f[z]]
Without(f, S) == Restrict(f, DOMAIN f \ S)

Free == Descriptor \ DOMAIN open
Opened == CHOOSE fd \in Free : \A other \in Free : fd <= other
Socket(port, group) == [port |-> port, member |-> group, queue |-> <<>>]

-----------------------------------------------------------------------------
(* The calls of the kernel the constructor makes, and those of JoinGroup.   *)
ConstructorSteps == {"socket", "reuse", "bind", "name", "timeout", "interface"}
JoinSteps == {"socket", "reuse", "bind", "timeout", "member"}

Constructor ==
    /\ life = "none" /\ Free # {}
    /\ open' = With(open, Opened, Socket(Unbound, NoGroup))
    /\ unicast' = Opened
    /\ life' = "live"
    /\ UNCHANGED <<multicast, overwritten>>

(* It throws, whichever step fails, and closes nothing.                     *)
ConstructorFails(step) ==
    /\ life = "none"
    /\ open' = IF step = "socket" \/ Free = {} THEN open
               ELSE With(open, Opened, Socket(Unbound, NoGroup))
    /\ life' = "thrown"
    /\ UNCHANGED <<unicast, multicast, overwritten>>

(* The descriptor is put into the map, over the one that may be there.      *)
JoinGroup(g) ==
    /\ life = "live" /\ Free # {}
    /\ open' = With(open, Opened, Socket(PortOf[g], g))
    /\ multicast' = With(multicast, g, Opened)
    /\ overwritten' = overwritten \cup {multicast[h] : h \in {g} \cap DOMAIN multicast}
    /\ UNCHANGED <<unicast, life>>

(* Mutant: the last of the steps does not close the descriptor.             *)
JoinGroupFailsOpen(g, step) ==
    /\ life = "live" /\ Free # {}
    /\ open' = IF step = "member" THEN With(open, Opened, Socket(PortOf[g], NoGroup))
                                  ELSE open
    /\ UNCHANGED <<unicast, multicast, life, overwritten>>

(* Whichever step fails, the descriptor that was opened is closed.          *)
JoinGroupFails(g, step) ==
    /\ life = "live"
    /\ UNCHANGED socketVars

(* Mutant: the map keeps the group.                                         *)
LeaveGroupKept(g) ==
    /\ life = "live" /\ g \in DOMAIN multicast
    /\ open' = Without(open, {multicast[g]})
    /\ UNCHANGED <<unicast, multicast, life, overwritten>>

(* LeaveGroup closes the descriptor, also when the kernel does not let it   *)
(* leave the group.                                                         *)
LeaveGroup(g) ==
    /\ life = "live" /\ g \in DOMAIN multicast
    /\ open' = Without(open, {multicast[g]})
    /\ multicast' = Without(multicast, {g})
    /\ UNCHANGED <<unicast, life, overwritten>>

Destructor ==
    /\ life = "live"
    /\ open' = Without(open, {unicast} \cup Range(multicast))
    /\ life' = "destroyed"
    /\ UNCHANGED <<unicast, multicast, overwritten>>

-----------------------------------------------------------------------------
(* The kernel: a datagram goes to each socket that is bound to its port, a  *)
(* multicast if some socket is a member of the group.                       *)
Members == {open[fd].member : fd \in DOMAIN open}
Targets(g) == IF g \in Members THEN {fd \in DOMAIN open : open[fd].port = PortOf[g]} ELSE {}

Enqueue(fds, datagram) ==
    open' = [fd \in DOMAIN open |->
               IF fd \in fds THEN [open[fd] EXCEPT !.queue = Append(@, datagram)]
                             ELSE open[fd]]

Dequeue(fd) == open' = [open EXCEPT ![fd].queue = Tail(@)]
Waiting(fd) == IF fd \in DOMAIN open THEN open[fd].queue ELSE <<>>

-----------------------------------------------------------------------------
(* Properties.                                                              *)

(* Every descriptor that is open is one that the destructor will close, but *)
(* for those of groups that were joined twice: the second JoinGroup replaces*)
(* the first one's descriptor in the map and nobody closes it.  (A program  *)
(* whose constructor throws ends.)                                          *)
NoLeak ==
    /\ life = "live" => DOMAIN open = {unicast} \cup Range(multicast) \cup overwritten
    /\ life = "destroyed" => DOMAIN open = overwritten
============================================================================

--------------------------- MODULE OrderedDelivery ---------------------------
(***************************************************************************)
(* What a Wink mailbox promises its applications, without the network,     *)
(* the acknowledgements and the retries: a process receives only messages  *)
(* that were sent to it, those of one sender at most once and in the order *)
(* they were sent.  Any message may be lost.  A process that is started    *)
(* again remembers nothing, and neither do its peers' promises to it.      *)
(***************************************************************************)
EXTENDS Integers, Sequences

CONSTANTS Node, Member

VARIABLES
    inc,            \* inc[n]: which process this is at address n
    sent,           \* the messages passed to Send
    log             \* log[n]: what the process at n was given, oldest first

vars == <<inc, sent, log>>

Init ==
    /\ inc = [n \in Node |-> 0]
    /\ sent = {}
    /\ log = [n \in Node |-> <<>>]

(* A message is numbered above the earlier ones of its process to the same  *)
(* destination.                                                             *)
Send(m) ==
    /\ m \notin sent
    /\ m.from \in Node /\ m.inc = inc[m.from]
    /\ m.to \in Node =>
         \A p \in sent : p.from = m.from /\ p.to = m.to /\ p.inc = m.inc
                           => p.seq < m.seq
    /\ sent' = sent \cup {m}
    /\ UNCHANGED <<inc, log>>

(* The last message n was given by a sender is the highest numbered one.    *)
InOrder(n, m) ==
    \A i \in 1..Len(log[n]) :
        log[n][i].to = n /\ log[n][i].from = m.from => log[n][i].seq < m.seq

Deliver(n, m) ==
    /\ m.to = n /\ InOrder(n, m)
    /\ log' = [log EXCEPT ![n] = Append(@, m)]
    /\ UNCHANGED <<inc, sent>>

(* A multicast is promised nothing but its origin.                          *)
DeliverMulticast(n, m) ==
    /\ m.to \notin Node /\ n \in Member
    /\ log' = [log EXCEPT ![n] = Append(@, m)]
    /\ UNCHANGED <<inc, sent>>

Restart(n) ==
    /\ inc' = [inc EXCEPT ![n] = @ + 1]
    /\ log' = [log EXCEPT ![n] = <<>>]
    /\ UNCHANGED sent

Next ==
    \/ \E m \in sent' : Send(m)
    \/ \E n \in Node, m \in sent : Deliver(n, m) \/ DeliverMulticast(n, m)
    \/ \E n \in Node : Restart(n)

Spec == Init /\ [][Next]_vars
==============================================================================

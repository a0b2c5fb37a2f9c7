---------------------------- MODULE AsyncMailbox ----------------------------
(***************************************************************************)
(* The mailboxes of a set of Wink processes and the UDP network between    *)
(* them (src/async_mailbox.cpp, include/Wink/mailbox.h).                   *)
(*                                                                         *)
(* Every process owns one AsyncMailbox, used by three threads: the         *)
(* application thread (Send, Receive, Flushed, the destructor), the sender *)
(* thread (BackgroundSend, BackgroundSendMulticast) and the receiver       *)
(* thread (BackgroundReceive, BackgroundReceiveMulticast).                 *)
(*                                                                         *)
(* A deque entry is identified by the time it was queued.  The deque of    *)
(* unacknowledged messages is a set: its order is the order of the time    *)
(* stamps, which are distinct because Send takes outgoing_mutex_.          *)
(***************************************************************************)
EXTENDS Address, Sequences, FiniteSets

CONSTANTS
    Node,           \* the addresses processes are bound to
    Group,          \* the address of a multicast group
    Member,         \* the nodes that joined the group
    Route,          \* the pairs <<from, to>> of a sender and a destination
    Text,           \* the classes of message the applications send
    Restartable,    \* the nodes that may crash and be started again
    kMaxRetries,    \* constants.h: transmissions of a message before giving up
    StopAndWait,    \* TRUE: the applications keep one message per destination
                    \* in flight.  The code has no such rule.
    MaxSends,       \* bound: calls of Send by one node
    MaxRestarts     \* bound: restarts of one node

Ack == "ack"        \* the payload that makes a datagram an acknowledgement
None == [time |-> -1]

ASSUME NodeAssumption ==
    /\ \A n \in Node : ~IsMulticast(n)
    /\ IsMulticast(Group)
    /\ Member \subseteq Node
    /\ Route \subseteq Node \X (Node \cup {Group})
    /\ Restartable \subseteq Node

ASSUME BoundAssumption ==
    /\ Text \subseteq STRING
    /\ kMaxRetries \in Nat \ {0}
    /\ MaxSends \in Nat
    /\ MaxRestarts \in Nat
    /\ StopAndWait \in BOOLEAN

VARIABLES
    up,             \* up[n]: the process at n runs and its threads loop
    inc,            \* inc[n]: which process this is at address n (history)
    sends,          \* sends[n]: the clock Send stamps messages with
    outgoing,       \* outgoing[n]: outgoing_messages_
    multicasts,     \* multicasts[n]: outgoing_multicasts_
    outSeq,         \* outSeq[n][d]: outgoing_seq_nums_[d], -1 when absent
    inSeq,          \* inSeq[n][s]: incoming_seq_nums_[s], -1 when absent
    held,           \* held[n]: acknowledged, not yet filtered; local to
                    \* BackgroundReceive
    incoming,       \* incoming[n]: everything pushed on incoming_messages_
    popped,         \* popped[n]: how many of them Receive has popped
    net,            \* unicast datagrams; any may be lost, repeated, reordered
    groupNet,       \* multicast datagrams on their way to a member
    sent            \* every message passed to Send (history)

queueVars == <<outgoing, multicasts>>
seqVars == <<outSeq, inSeq>>
inVars == <<held, incoming, popped>>
vars == <<up, inc, sends, outgoing, multicasts, outSeq, inSeq, held, incoming,
          popped, net, groupNet, sent>>

(* A message.  inc and time are not on the wire: they say which call of     *)
(* Send, by which process, the datagram stems from.                         *)
Message == [from : Node, to : Node \cup {Group}, inc : Nat, time : Nat,
            seq : Nat, text : Text \cup {Ack}]
QueuedMessage == [msg : Message, attempts : 0..kMaxRetries]

(* The messages the application at n was given or will be.                  *)
Queued(n) == {incoming[n][i] : i \in 1..Len(incoming[n])}

-----------------------------------------------------------------------------
Init ==
    /\ up = [n \in Node |-> TRUE]
    /\ inc = [n \in Node |-> 0]
    /\ sends = [n \in Node |-> 0]
    /\ outgoing = [n \in Node |-> {}]
    /\ multicasts = [n \in Node |-> {}]
    /\ outSeq = [n \in Node |-> [d \in Node |-> -1]]
    /\ inSeq = [n \in Node |-> [s \in Node |-> -1]]
    /\ held = [n \in Node |-> None]
    /\ incoming = [n \in Node |-> <<>>]
    /\ popped = [n \in Node |-> 0]
    /\ net = {}
    /\ groupNet = {}
    /\ sent = {}

-----------------------------------------------------------------------------
(* The application thread.                                                  *)

SendMulticast(n, m) ==
    /\ multicasts' = [multicasts EXCEPT ![n] = @ \cup {m}]
    /\ UNCHANGED <<outgoing, outSeq>>

SendUnicast(n, m) ==
    /\ StopAndWait => \A e \in outgoing[n] : e.msg.to # m.to
    /\ outSeq' = [outSeq EXCEPT ![n][m.to] = m.seq]
    /\ outgoing' = [outgoing EXCEPT ![n] = @ \cup {[msg |-> m, attempts |-> 0]}]
    /\ UNCHANGED multicasts

(* Mutant: the number is looked up and not counted on.                      *)
NextSeqStuck(n, to) ==
    IF IsMulticast(to) \/ outSeq[n][to] = -1 THEN 0 ELSE outSeq[n][to]

(* The number of the next message to a destination: 0 for the first one.    *)
NextSeq(n, to) == IF IsMulticast(to) THEN 0 ELSE outSeq[n][to] + 1

(* Send(to, message), under outgoing_mutex_.                                *)
Send(n, to, text) ==
    LET m == [from |-> n, to |-> to, inc |-> inc[n], time |-> sends[n] + 1,
              seq |-> NextSeq(n, to), text |-> text]
    IN  /\ up[n] /\ sends[n] < MaxSends
        /\ IF IsMulticast(to) THEN SendMulticast(n, m) ELSE SendUnicast(n, m)
        /\ sends' = [sends EXCEPT ![n] = @ + 1]
        /\ sent' = sent \cup {m}
        /\ UNCHANGED <<up, inc, inSeq, inVars, net, groupNet>>

(* Receive: pops the front; its time-out changes nothing.                   *)
Receive(n) ==
    /\ up[n] /\ popped[n] < Len(incoming[n])
    /\ popped' = [popped EXCEPT ![n] = @ + 1]
    /\ UNCHANGED <<up, inc, sends, queueVars, seqVars, held, incoming, net,
                   groupNet, sent>>

Flushed(n) == outgoing[n] = {} /\ multicasts[n] = {}

(* ~AsyncMailbox: waits until flushed, then stops and joins both threads;   *)
(* a datagram the receiver thread holds is filtered before it can join.     *)
Close(n) ==
    /\ up[n] /\ Flushed(n) /\ held[n] = None
    /\ up' = [up EXCEPT ![n] = FALSE]
    /\ UNCHANGED <<inc, sends, queueVars, seqVars, inVars, net, groupNet, sent>>

-----------------------------------------------------------------------------
(* The sender thread.                                                       *)

(* Mutant: one transmission too many.                                       *)
ExhaustedLate(e) == e.attempts > kMaxRetries

Exhausted(e) == e.attempts >= kMaxRetries

(* The entries whose deadline, time + attempts * kReceiveTimeout, passed    *)
(* when the loop starts.  How much time passed is left open; an entry not   *)
(* yet sent is due, and so is one queued before and sent no more often than *)
(* an entry that is due.                                                    *)
IsDue(n, due) ==
    /\ due \subseteq {e \in outgoing[n] : ~Exhausted(e)}
    /\ \A e \in outgoing[n] : e.attempts = 0 => e \in due
    /\ \A e \in due, f \in outgoing[n] :
         f.msg.time <= e.msg.time /\ f.attempts <= e.attempts => f \in due

(* One pass over the deque, outgoing_mutex_ held throughout: an exhausted   *)
(* entry is erased without a word to the application, a due one is sent and *)
(* counted.                                                                 *)
BackgroundSend(n, due) ==
    /\ up[n] /\ IsDue(n, due)
    /\ due # {} \/ \E e \in outgoing[n] : Exhausted(e)
    /\ outgoing' = [outgoing EXCEPT ![n] =
         {IF e \in due THEN [e EXCEPT !.attempts = @ + 1] ELSE e :
            e \in {f \in @ : ~Exhausted(f)}}]
    /\ net' = net \cup {e.msg : e \in due}
    /\ UNCHANGED <<up, inc, sends, multicasts, seqVars, inVars, groupNet, sent>>

(* Mutant: the multicasts stay in the queue.                                *)
BackgroundSendMulticastKept(n) ==
    /\ up[n] /\ multicasts[n] # {}
    /\ groupNet' = groupNet \cup [member : Member, msg : multicasts[n]]
    /\ UNCHANGED <<up, inc, sends, queueVars, seqVars, inVars, net, sent>>

(* Every queued multicast goes out once, to whoever joined the group.       *)
BackgroundSendMulticast(n) ==
    /\ up[n] /\ multicasts[n] # {}
    /\ groupNet' = groupNet \cup [member : Member, msg : multicasts[n]]
    /\ multicasts' = [multicasts EXCEPT ![n] = {}]
    /\ UNCHANGED <<up, inc, sends, outgoing, seqVars, inVars, net, sent>>

-----------------------------------------------------------------------------
(* The receiver thread.                                                     *)

(* The datagram n answers message m with.                                   *)
AckOf(n, m) == [from |-> n, to |-> m.from, inc |-> inc[n], time |-> 0,
                seq |-> m.seq, text |-> Ack]

(* BackgroundReceive, first half: a datagram that does not read "ack" is    *)
(* acknowledged before anything else is done with it.                       *)
ReceiveData(n, m) ==
    /\ up[n] /\ held[n] = None
    /\ m.to = n /\ m.text # Ack
    /\ net' = net \cup {AckOf(n, m)}
    /\ held' = [held EXCEPT ![n] = m]
    /\ UNCHANGED <<up, inc, sends, queueVars, seqVars, incoming, popped,
                   groupNet, sent>>

(* Mutant: the last number accepted is accepted again.                      *)
DuplicateOlder(n, m) == m.seq < inSeq[n][m.from]

Duplicate(n, m) == m.seq <= inSeq[n][m.from]

(* BackgroundReceive, second half: drop what looks like a duplicate, queue  *)
(* the rest.                                                                *)
FilterData(n) ==
    /\ up[n] /\ held[n] # None
    /\ IF Duplicate(n, held[n])
         THEN UNCHANGED <<inSeq, incoming>>
         ELSE /\ inSeq' = [inSeq EXCEPT ![n][held[n].from] = held[n].seq]
              /\ incoming' = [incoming EXCEPT ![n] = Append(@, held[n])]
    /\ held' = [held EXCEPT ![n] = None]
    /\ UNCHANGED <<up, inc, sends, queueVars, outSeq, popped, net, groupNet,
                   sent>>

(* Mutant: any acknowledgement from the destination will do.                *)
AcknowledgedAny(n, a) == {e \in outgoing[n] : SameAddress(e.msg.to, a.from)}

(* The entries an acknowledgement may stand for, compared by operator==.    *)
Acknowledged(n, a) ==
    {e \in outgoing[n] : SameAddress(e.msg.to, a.from) /\ e.msg.seq = a.seq}

(* BackgroundReceive of an acknowledgement: the first match is erased.      *)
ReceiveAck(n, a) ==
    /\ up[n] /\ held[n] = None
    /\ a.to = n /\ a.text = Ack
    /\ \E e \in Acknowledged(n, a) :
         /\ \A f \in Acknowledged(n, a) : e.msg.time <= f.msg.time
         /\ outgoing' = [outgoing EXCEPT ![n] = @ \ {e}]
    /\ UNCHANGED <<up, inc, sends, multicasts, seqVars, inVars, net, groupNet,
                   sent>>

(* BackgroundReceiveMulticast: neither acknowledged nor filtered.           *)
BackgroundReceiveMulticast(n, g) ==
    /\ up[n] /\ held[n] = None
    /\ g.member = n
    /\ incoming' = [incoming EXCEPT ![n] = Append(@, g.msg)]
    /\ groupNet' = groupNet \ {g}
    /\ UNCHANGED <<up, inc, sends, queueVars, seqVars, held, popped, net, sent>>

-----------------------------------------------------------------------------
(* The process at n ends without its destructor, or has ended, and another  *)
(* one is started and binds the same address: the server passes the port to *)
(* the new process, which starts from the constructor.                      *)
Restart(n) ==
    /\ n \in Restartable /\ inc[n] < MaxRestarts
    /\ up' = [up EXCEPT ![n] = TRUE]
    /\ inc' = [inc EXCEPT ![n] = @ + 1]
    /\ outgoing' = [outgoing EXCEPT ![n] = {}]
    /\ multicasts' = [multicasts EXCEPT ![n] = {}]
    /\ outSeq' = [outSeq EXCEPT ![n] = [d \in Node |-> -1]]
    /\ inSeq' = [inSeq EXCEPT ![n] = [s \in Node |-> -1]]
    /\ held' = [held EXCEPT ![n] = None]
    /\ incoming' = [incoming EXCEPT ![n] = <<>>]
    /\ popped' = [popped EXCEPT ![n] = 0]
    /\ UNCHANGED <<sends, net, groupNet, sent>>

SenderThread(n) ==
    \/ \E due \in SUBSET outgoing[n] : BackgroundSend(n, due)
    \/ BackgroundSendMulticast(n)

Next ==
    \/ \E r \in Route, text \in Text : Send(r[1], r[2], text)
    \/ \E n \in Node :
         \/ Receive(n)
         \/ Close(n)
         \/ \E due \in SUBSET outgoing[n] : BackgroundSend(n, due)
         \/ BackgroundSendMulticast(n)
         \/ \E m \in net : ReceiveData(n, m)
         \/ FilterData(n)
         \/ \E a \in net : ReceiveAck(n, a)
         \/ \E g \in groupNet : BackgroundReceiveMulticast(n, g)
         \/ Restart(n)

(* The sender thread loops until the destructor stops it and time passes,   *)
(* so a pass that has something to send or to give up is eventually made.   *)
Fairness == \A n \in Node : WF_vars(SenderThread(n))

Spec == Init /\ [][Next]_vars
FairSpec == Spec /\ Fairness

-----------------------------------------------------------------------------
(* Properties.                                                              *)

(* Types, and two bounds: no message is transmitted more than kMaxRetries   *)
(* times (the counter never passes it), and Receive never pops from an      *)
(* empty incoming_messages_.                                                *)
TypeOK ==
    /\ up \in [Node -> BOOLEAN]
    /\ inc \in [Node -> Nat]
    /\ sends \in [Node -> Nat]
    /\ outgoing \in [Node -> SUBSET QueuedMessage]
    /\ multicasts \in [Node -> SUBSET Message]
    /\ outSeq \in [Node -> [Node -> Nat \cup {-1}]]
    /\ inSeq \in [Node -> [Node -> Nat \cup {-1}]]
    /\ held \in [Node -> Message \cup {None}]
    /\ incoming \in [Node -> Seq(Message)]
    /\ popped \in [Node -> Nat]
    /\ \A n \in Node : popped[n] <= Len(incoming[n])
    /\ net \subseteq Message
    /\ groupNet \subseteq [member : Member, msg : Message]
    /\ sent \subseteq Message

(* Whatever the network repeats or reorders, and however often its peers    *)
(* are restarted, an application pops the unicast messages of one address   *)
(* in increasing order of their numbers, hence none of them twice.          *)
AtMostOnceInOrder ==
    \A n \in Node : \A i, j \in 1..Len(incoming[n]) :
        LET a == incoming[n][i]
            b == incoming[n][j]
        IN  i < j /\ a.to = n /\ b.to = n /\ a.from = b.from => a.seq < b.seq

(* The mailboxes implement the promise of OrderedDelivery.                  *)
Promise == INSTANCE OrderedDelivery WITH log <- incoming
ImplementsOrderedDelivery == Promise!Spec

(* m is in its destination's queue, or about to be put there.               *)
Arrived(m) ==
    \/ m \in Queued(m.to)
    \/ held[m.to] = m /\ ~Duplicate(m.to, m)

(* A running mailbox forgets a message only when it was sent kMaxRetries    *)
(* times or is in its destination's queue: the sender threads "will retry   *)
(* unacknowledged messages up to 5 times" (README.md) and an acknowledged   *)
(* one has been accepted.                                                   *)
NoSilentLoss ==
    [][\A n \in Node : inc'[n] = inc[n] =>
         \A e \in outgoing[n] :
             \/ Exhausted(e)
             \/ \E f \in outgoing'[n] : f.msg = e.msg
             \/ Arrived(e.msg)]_vars

(* What the receiver drops as a "duplicate packet" (async_mailbox.cpp) is    *)
(* one: the message it repeats is in the queue.                             *)
DropsOnlyDuplicates ==
    [][\A n \in Node : inc'[n] = inc[n] /\ held[n] # None /\ held'[n] = None
         => held[n] \in Queued(n)']_vars

(* Every mailbox drains, acknowledged or not, so the destructor and the     *)
(* "while (!mailbox_.Flushed())" loops of Machine::Start and Server::Serve  *)
(* end.  Applications that send for ever are cut off by MaxSends.           *)
EventuallyFlushed == \A n \in Node : up[n] ~> (~up[n] \/ Flushed(n))
=============================================================================

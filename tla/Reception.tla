----------------------------- MODULE Reception -----------------------------
(***************************************************************************)
(* The receiver thread of an AsyncMailbox over a UDPSocket                 *)
(* (src/async_mailbox.cpp, src/udp.cpp): it waits for a unicast, then for a*)
(* multicast in each of the groups in turn, each time up to                *)
(* kReceiveTimeout, while a peer transmits its messages once in            *)
(* kReceiveTimeout, kMaxRetries times, and the application joins and leaves*)
(* groups.  Nothing is lost on the way.                                    *)
(*                                                                         *)
(* Time passes in units of kReceiveTimeout.                                *)
(***************************************************************************)
EXTENDS UDPSocket, FiniteSetsExt

CONSTANTS
    Messages,       \* bound: how many the peer sends
    kMaxRetries,
    MaxReads        \* what is read beside a message is counted up to this number

ASSUME ReceptionAssumption ==
    /\ Messages \in Nat
    /\ kMaxRetries \in Nat \ {0}
    /\ MaxReads \in Nat

Message == 1..Messages

VARIABLES
    running,        \* running_
    at,             \* the recvfrom the thread is in: "none" before it runs,
                    \* "unicast", "multicast", "joined" when it has ended
    group,          \* the group, and the descriptor, of the recvfrom
    fd,
    waited,         \* the recvfrom was called in an earlier unit
    fresh,          \* groups joined since this pass over the map began
    fate,           \* fate[m]: of a message of the peer
    attempts,       \* attempts[m]: transmissions of it
    due,            \* messages to be transmitted in this unit
    reads           \* reads[m]: datagrams read while m was queued, up to
                    \* MaxReads (history)

threadVars == <<at, group, fd, waited>>
peerVars == <<fate, attempts, due>>
vars == <<socketVars, threadVars, running, fresh, peerVars, reads>>

Init ==
    /\ SocketInit
    /\ running = TRUE
    /\ at = "none" /\ group = NoGroup /\ fd = None /\ waited = FALSE
    /\ fresh = {}
    /\ fate = [m \in Message |-> "new"]
    /\ attempts = [m \in Message |-> 0]
    /\ due = {}
    /\ reads = [m \in Message |-> 0]

-----------------------------------------------------------------------------
(* The application: constructors and calls of the socket.  A group is not   *)
(* left while the thread may be reading it: nobody guards the map.          *)

Application ==
    /\ \/ Constructor
       \/ \E step \in ConstructorSteps : ConstructorFails(step)
       \/ /\ at # "joined"
          /\ \E g \in Group : JoinGroup(g) \/ \E step \in JoinSteps : JoinGroupFails(g, step)
       \/ at = "none" /\ \E g \in Group : LeaveGroup(g)
       \/ at = "joined" /\ Destructor
    /\ fresh' = fresh \cup (DOMAIN multicast' \ DOMAIN multicast)
    /\ UNCHANGED <<threadVars, running, peerVars, reads>>

(* The constructor of AsyncMailbox starts the thread.                       *)
AsyncMailbox ==
    /\ life = "live" /\ at = "none"
    /\ at' = "unicast" /\ fd' = unicast
    /\ UNCHANGED <<socketVars, group, waited, running, fresh, peerVars,
                   reads>>

(* Its destructor waits for the thread.                                     *)
Close ==
    /\ at # "none" /\ running
    /\ running' = FALSE
    /\ UNCHANGED <<socketVars, threadVars, fresh, peerVars, reads>>

-----------------------------------------------------------------------------
(* The receiver thread.                                                     *)

Wait(where, g, socket) ==
    /\ at' = where /\ group' = g /\ fd' = socket
    /\ waited' = FALSE

(* Mutant: after the last group the first one comes again.                  *)
WaitAfterForEver(g, groups) ==
    IF groups # {}
      THEN LET above == {k \in groups : k > g}
               h == Min(IF above = {} THEN groups ELSE above)
           IN  Wait("multicast", h, multicast[h])
      ELSE IF running THEN Wait("unicast", NoGroup, unicast)
                      ELSE Wait("joined", NoGroup, None)

(* ReceiveMulticast waits for the groups in turn, after the last one the    *)
(* loop of the thread begins again.                                         *)
WaitAfter(g, groups) ==
    IF \E h \in groups : h > g
      THEN LET h == Min({k \in groups : k > g}) IN Wait("multicast", h, multicast[h])
      ELSE IF running THEN Wait("unicast", NoGroup, unicast)
                      ELSE Wait("joined", NoGroup, None)

FirstGroup == WaitAfter(NoGroup, DOMAIN multicast) /\ fresh' = {}

(* The map is read without a lock while JoinGroup puts a group into it: the *)
(* pass may meet the group or not.                                          *)
NextGroup ==
    /\ \E groups \in {DOMAIN multicast, DOMAIN multicast \ fresh} : WaitAfter(group, groups)
    /\ UNCHANGED fresh

(* Something is read while these messages wait.                             *)
Queued == {m \in Message : fate[m] = "queued"}
Count(queued) ==
    reads' = [m \in Message |-> IF m \in queued /\ reads[m] < MaxReads THEN reads[m] + 1
                                                                       ELSE reads[m]]

(* BackgroundReceive: a message is acknowledged; whether it is a duplicate  *)
(* to be dropped, makes no difference here.                                 *)
BackgroundReceive ==
    /\ at = "unicast" /\ Waiting(fd) # <<>>
    /\ LET m == Head(Waiting(fd))
       IN  fate' = [fate EXCEPT ![m] = IF @ = "queued" THEN "acked" ELSE @]
    /\ Count(Queued)
    /\ Dequeue(fd)
    /\ FirstGroup
    /\ UNCHANGED <<unicast, multicast, life, overwritten, running, attempts, due>>

(* BackgroundReceiveMulticast begins with the first group again, and only   *)
(* ends when there was nothing in any of them.                              *)
ReceiveMulticast ==
    /\ at = "multicast" /\ Waiting(fd) # <<>>
    /\ Count(Queued)
    /\ Dequeue(fd)
    /\ FirstGroup
    /\ UNCHANGED <<unicast, multicast, life, overwritten, running, peerVars>>

(* recvfrom returns EAGAIN.                                                 *)
TimesOut ==
    /\ waited /\ Waiting(fd) = <<>>
    /\ IF at = "unicast" THEN FirstGroup ELSE NextGroup
    /\ UNCHANGED <<socketVars, running, peerVars, reads>>

Receiver == BackgroundReceive \/ ReceiveMulticast \/ TimesOut

-----------------------------------------------------------------------------
(* The peers, and time.                                                     *)

Queue(m) ==
    /\ life = "live" /\ fate[m] = "new" /\ \A n \in 1..(m - 1) : fate[n] # "new"
    /\ fate' = [fate EXCEPT ![m] = "queued"]
    /\ due' = due \cup {m}
    /\ UNCHANGED <<socketVars, threadVars, running, fresh, attempts, reads>>

Transmit(m) ==
    /\ m \in due
    /\ due' = due \ {m}
    /\ attempts' = [attempts EXCEPT ![m] = @ + 1]
    /\ Enqueue({unicast}, m)
    /\ UNCHANGED <<unicast, multicast, life, overwritten, threadVars, running, fresh,
                   fate, reads>>

(* Mutant: a transmission less.                                             *)
ExhaustedEarly(m) == fate[m] = "queued" /\ m \notin due /\ attempts[m] = kMaxRetries - 1

Exhausted(m) == fate[m] = "queued" /\ m \notin due /\ attempts[m] = kMaxRetries

GiveUp(m) ==
    /\ Exhausted(m)
    /\ fate' = [fate EXCEPT ![m] = "givenup"]
    /\ UNCHANGED <<socketVars, threadVars, running, fresh, attempts, due, reads>>

(* Somebody sends a multicast, if the last one of its port was read.        *)
Multicast(g) ==
    /\ Targets(g) # {} /\ \A s \in Targets(g) : Waiting(s) = <<>>
    /\ Enqueue(Targets(g), g)
    /\ UNCHANGED <<unicast, multicast, life, overwritten, threadVars, running, fresh,
                   peerVars, reads>>

(* A unit ends when everybody has done what is due in it.                   *)
Tick ==
    /\ at # "none" /\ due = {} /\ \A m \in Message : ~Exhausted(m)
    /\ at # "joined" => Waiting(fd) = <<>> /\ ~waited
    /\ waited' = (at # "joined")
    /\ due' = Queued
    /\ UNCHANGED <<socketVars, at, group, fd, running, fresh, fate, attempts,
                   reads>>

Peer == \E m \in Message : Transmit(m) \/ GiveUp(m)

Next ==
    \/ Application \/ AsyncMailbox \/ Close
    \/ Receiver
    \/ Peer \/ \E m \in Message : Queue(m)
    \/ \E g \in Group : Multicast(g)
    \/ Tick

(* The threads run and time passes.                                         *)
Spec == Init /\ [][Next]_vars
FairSpec == Spec /\ WF_vars(Receiver) /\ WF_vars(Peer) /\ WF_vars(Tick)

-----------------------------------------------------------------------------
(* Properties.                                                              *)

TypeOK ==
    /\ DOMAIN open \subseteq Descriptor
    /\ \A s \in DOMAIN open : open[s].member \in Group \cup {NoGroup}
    /\ unicast \in Descriptor \cup {None}
    /\ DOMAIN multicast \subseteq Group /\ Range(multicast) \subseteq Descriptor
    /\ life \in {"none", "live", "thrown", "destroyed"}
    /\ running \in BOOLEAN /\ waited \in BOOLEAN
    /\ at \in {"none", "unicast", "multicast", "joined"}
    /\ fate \in [Message -> {"new", "queued", "acked", "givenup"}]
    /\ attempts \in [Message -> 0..kMaxRetries]
    /\ due \subseteq {m \in Message : attempts[m] < kMaxRetries}
    /\ reads \in [Message -> 0..MaxReads]
    /\ at \in {"unicast", "multicast"} => fd \in DOMAIN open

(* The peer gives up a message that waits to be read only when other        *)
(* messages, and multicasts, keep the thread busy for longer than the peer  *)
(* transmits: the thread reads one of them each time it has waited in all   *)
(* groups.                                                                  *)
InTime ==
    \A m \in Message : fate[m] = "givenup" /\ running =>
        \/ (reads[m] + 1) * Cardinality(DOMAIN multicast) >= kMaxRetries - 1
        \/ reads[m] = MaxReads

(* Unless multicasts keep coming, every unicast is read, and the thread ends*)
(* when the mailbox is closed.                                              *)
MulticastWaits == \E s \in Range(multicast) : Waiting(s) # <<>>

ReceiverServes ==
    \/ []<>MulticastWaits
    \/ /\ (at # "none" /\ Waiting(unicast) # <<>> ~> Waiting(unicast) = <<>> \/ at = "joined")
       /\ (~running ~> at = "joined")
============================================================================
